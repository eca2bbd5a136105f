---------------------------- MODULE StoreContract ----------------------------
(***************************************************************************)
(* What DbscServer relies on in a Store (store.py): that every operation   *)
(* is one of module Store, whole and at once, that it returns what it did, *)
(* that a record disappears by being deleted or when its lifetime is over, *)
(* and then does.  A store may be out by Tolerance about that, and lose an *)
(* offer, but no binding, when its process stops.                          *)
(*                                                                         *)
(* result is the last operation with its arguments and what it returned.   *)
(* A returned Corrupt stands for CorruptStateError.                        *)
(***************************************************************************)
EXTENDS Store, Integers

CONSTANTS
    Offers, Bindings,
    OfferLife, BindingLife,  \* the lifetimes of the records
    Tolerance                \* how far a store may be out about them

VARIABLES
    now,            \* the clock
    result,         \* the last operation and what it returned
    offer_until,    \* the last instant of each offer, 0 if there is none
    binding_until,  \* the last instant of each binding, 0 if there is none
    stops           \* how often the process of the store has stopped

dates == <<offer_until, binding_until>>
contract_vars == <<pending, binding, now, result, dates, stops>>

NoResult == [op |-> "none", session |-> Absent, args |-> <<>>, value |-> "None"]

Returns(op, s, args, value) ==
    /\ result' = [op |-> op, session |-> s, args |-> args, value |-> value]
    /\ UNCHANGED <<now, stops>>

\* The offers of the sessions O and the bindings of the sessions B are written,
\* and expire a lifetime later; the other records keep their dates.
Readable(record) == record \notin {Absent, Corrupt}

Last_instants(life) == now + life - Tolerance .. now + life

Dates(O, B) ==
    \A s \in Sessions :
        /\ offer_until'[s] \in IF s \in O THEN Last_instants(OfferLife)
                               ELSE IF Readable(pending'[s]) THEN {offer_until[s]}
                               ELSE {0}
        /\ binding_until'[s] \in IF s \in B THEN Last_instants(BindingLife)
                                 ELSE IF Readable(binding'[s])
                                 THEN {binding_until[s]} ELSE {0}

Puts(s) ==
    \/ \E p \in Offers :
          /\ put_pending_registration(s, p) /\ Dates({s}, {})
          /\ Returns("put_pending_registration", s, <<p>>, "None")
    \/ \E b \in Bindings :
          /\ put_binding(s, b) /\ Dates({}, {s})
          /\ Returns("put_binding", s, <<b>>, "None")

Deletes(s) ==
    /\ \/ /\ delete_pending_registration(s)
          /\ Returns("delete_pending_registration", s, <<>>, "None")
       \/ /\ delete(s)
          /\ Returns("delete", s, <<>>, "None")
    /\ Dates({}, {})

Gets(s) ==
    /\ \/ Returns("get_pending_registration", s, <<>>, pending[s])
       \/ Returns("get_binding", s, <<>>, binding[s])
    /\ UNCHANGED <<pending, binding, dates>>

\* The conditional writes return True exactly when they apply.
Commits(s, p, b) ==
    \/ /\ commit_registration(s, p, b) /\ Dates({}, {s})
       /\ Returns("commit_registration", s, <<p, b>>, "True")
    \/ /\ commit_registration_refused(s, p)
       /\ Returns("commit_registration", s, <<p, b>>, "False")
       /\ UNCHANGED <<pending, binding, dates>>
    \/ /\ pending[s] = Corrupt
       /\ Returns("commit_registration", s, <<p, b>>, Corrupt)
       /\ UNCHANGED <<pending, binding, dates>>

Replaces(s, b, c) ==
    \/ /\ replace_binding(s, b, c) /\ Dates({}, {s})
       /\ Returns("replace_binding", s, <<b, c>>, "True")
    \/ /\ replace_binding_refused(s, b)
       /\ Returns("replace_binding", s, <<b, c>>, "False")
       /\ UNCHANGED <<pending, binding, dates>>
    \/ /\ binding[s] = Corrupt
       /\ Returns("replace_binding", s, <<b, c>>, Corrupt)
       /\ UNCHANGED <<pending, binding, dates>>

\* Records whose last instant is over may go, and those for which it has been
\* for longer than Tolerance must.  What cannot be read stays.
May_go(S, record, until) ==
    \A s \in S : Readable(record[s]) /\ until[s] < now'

Must_go(S, record, until) ==
    \A s \in Sessions \ S : Readable(record[s]) => now' <= until[s] + Tolerance

\* Time passes, and takes records with it.
Passes ==
    /\ now' > now
    /\ \E P, B \in SUBSET Sessions :
          /\ expire(P, B)
          /\ May_go(P, pending, offer_until) /\ Must_go(P, pending, offer_until)
          /\ May_go(B, binding, binding_until) /\ Must_go(B, binding, binding_until)
    /\ Dates({}, {})
    /\ UNCHANGED <<result, stops>>

\* The process stops and starts again later, and any offer may be lost.
Stops ==
    /\ now' > now /\ stops' = stops + 1
    /\ \E P, B \in SUBSET Sessions :
          /\ expire(P, B)
          /\ Must_go(P, pending, offer_until)
          /\ May_go(B, binding, binding_until) /\ Must_go(B, binding, binding_until)
    /\ Dates({}, {})
    /\ UNCHANGED result

Decays ==
    /\ Disturb_store("corruption") /\ Dates({}, {})
    /\ UNCHANGED <<now, result, stops>>

Init_contract ==
    /\ Init_store /\ now = 0 /\ result = NoResult /\ stops = 0
    /\ offer_until = [s \in Sessions |-> 0]
    /\ binding_until = [s \in Sessions |-> 0]

Next_contract ==
    \/ Passes
    \/ Stops
    \/ Decays
    \/ \E s \in Sessions :
          \/ Puts(s) \/ Deletes(s) \/ Gets(s)
          \/ \E p \in Offers, b \in Bindings : Commits(s, p, b)
          \/ \E b, c \in Bindings : Replaces(s, b, c)

Spec_contract == Init_contract /\ [][Next_contract]_contract_vars
==============================================================================

---------------------------- MODULE InMemoryStore ----------------------------
(***************************************************************************)
(* InMemoryStore (store.py): two dictionaries of (record, expires_at)      *)
(* pairs.  No operation awaits, so each is one step.  An expired entry is  *)
(* never removed: _live hides it, in every operation that looks at one.    *)
(*                                                                         *)
(* Every entry was written by to_json of a record, so none is unreadable.  *)
(* result is the last call and what it returned.                           *)
(***************************************************************************)
EXTENDS Integers

CONSTANTS
    Sessions, Offers, Bindings,
    Absent, Corrupt,
    ChallengeTtlSeconds,     \* challenge_ttl_seconds
    SessionLifetimeSeconds,  \* session_lifetime_seconds
    MaxTime                  \* bound: the last second of the clock

ASSUME RecordsAssumption ==
    /\ Absent \notin Offers \union Bindings
    /\ Absent \notin [value : Offers \union Bindings, expires_at : Nat]
    /\ Corrupt \notin Offers \union Bindings \union {Absent}
ASSUME LifetimesAssumption ==
    /\ ChallengeTtlSeconds \in Nat
    /\ SessionLifetimeSeconds \in Nat
    /\ MaxTime \in Nat

VARIABLES reg, bind, now, result

vars == <<reg, bind, now, result>>

Returns(op, s, args, value) ==
    /\ result' = [op |-> op, session |-> s, args |-> args, value |-> value]
    /\ UNCHANGED now

\* _live: what a bucket holds for a session, unless it has expired.
live(bucket, s) ==
    IF bucket[s] = Absent THEN Absent
    ELSE IF bucket[s].expires_at < now THEN Absent
    ELSE bucket[s].value

put(record, lifetime) == [value |-> record, expires_at |-> now + lifetime]

put_pending_registration(s, p) ==
    /\ reg' = [reg EXCEPT ![s] = put(p, ChallengeTtlSeconds)]
    /\ Returns("put_pending_registration", s, <<p>>, "None")
    /\ UNCHANGED bind

get_pending_registration(s) ==
    /\ Returns("get_pending_registration", s, <<>>, live(reg, s))
    /\ UNCHANGED <<reg, bind>>

delete_pending_registration(s) ==
    /\ reg' = [reg EXCEPT ![s] = Absent]
    /\ Returns("delete_pending_registration", s, <<>>, "None")
    /\ UNCHANGED bind

put_binding(s, b) ==
    /\ bind' = [bind EXCEPT ![s] = put(b, SessionLifetimeSeconds)]
    /\ Returns("put_binding", s, <<b>>, "None")
    /\ UNCHANGED reg

get_binding(s) ==
    /\ Returns("get_binding", s, <<>>, live(bind, s))
    /\ UNCHANGED <<reg, bind>>

delete(s) ==
    /\ bind' = [bind EXCEPT ![s] = Absent]
    /\ reg' = [reg EXCEPT ![s] = Absent]
    /\ Returns("delete", s, <<>>, "None")

commit_registration(s, offer, b) ==
    IF live(reg, s) # offer
    THEN /\ Returns("commit_registration", s, <<offer, b>>, "False")
         /\ UNCHANGED <<reg, bind>>
    ELSE /\ reg' = [reg EXCEPT ![s] = Absent]
         /\ bind' = [bind EXCEPT ![s] = put(b, SessionLifetimeSeconds)]
         /\ Returns("commit_registration", s, <<offer, b>>, "True")

\* Mutant: the entry is compared without asking whether it has expired.
replace_unexpired_or_not(s, expected, new) ==
    IF bind[s] = Absent \/ bind[s].value # expected
    THEN /\ Returns("replace_binding", s, <<expected, new>>, "False")
         /\ UNCHANGED <<reg, bind>>
    ELSE /\ bind' = [bind EXCEPT ![s] = put(new, SessionLifetimeSeconds)]
         /\ Returns("replace_binding", s, <<expected, new>>, "True")
         /\ UNCHANGED reg

replace_binding(s, expected, new) ==
    IF live(bind, s) # expected
    THEN /\ Returns("replace_binding", s, <<expected, new>>, "False")
         /\ UNCHANGED <<reg, bind>>
    ELSE /\ bind' = [bind EXCEPT ![s] = put(new, SessionLifetimeSeconds)]
         /\ Returns("replace_binding", s, <<expected, new>>, "True")
         /\ UNCHANGED reg

Tick ==
    /\ now < MaxTime
    /\ now' = now + 1
    /\ UNCHANGED <<reg, bind, result>>

Init ==
    /\ reg = [s \in Sessions |-> Absent]
    /\ bind = [s \in Sessions |-> Absent]
    /\ now = 0
    /\ result = [op |-> "none", session |-> Absent, args |-> <<>>,
                 value |-> "None"]

Next ==
    \/ Tick
    \/ \E s \in Sessions :
          \/ \E p \in Offers : put_pending_registration(s, p)
          \/ get_pending_registration(s)
          \/ delete_pending_registration(s)
          \/ \E b \in Bindings : put_binding(s, b)
          \/ get_binding(s)
          \/ delete(s)
          \/ \E p \in Offers, b \in Bindings : commit_registration(s, p, b)
          \/ \E b, c \in Bindings : replace_binding(s, b, c)

Spec == Init /\ [][Next]_vars

------------------------------------------------------------------------------
\* Type invariant: what the dictionaries may hold.
Entries(R) == [value : R, expires_at : Nat] \union {Absent}

TypeOK ==
    /\ reg \in [Sessions -> Entries(Offers)]
    /\ bind \in [Sessions -> Entries(Bindings)]
    /\ now \in Nat

\* The instant after which _live hides an entry, 0 for one that is hidden.
until(bucket, s) == IF live(bucket, s) = Absent THEN 0 ELSE bucket[s].expires_at

\* InMemoryStore keeps the contract of Store: with the entries that _live hides
\* taken as absent, each operation is the atomic one the contract asks for and
\* returns what it did, an offer lives for challenge_ttl_seconds and a binding
\* for session_lifetime_seconds from its last write, and neither longer.
Contract == INSTANCE StoreContract WITH
    pending <- [s \in Sessions |-> live(reg, s)],
    binding <- [s \in Sessions |-> live(bind, s)],
    offer_until <- [s \in Sessions |-> until(reg, s)],
    binding_until <- [s \in Sessions |-> until(bind, s)],
    stops <- 0,
    OfferLife <- ChallengeTtlSeconds, BindingLife <- SessionLifetimeSeconds,
    Tolerance <- 0
KeepsContract == Contract!Spec_contract
==============================================================================

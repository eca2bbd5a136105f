-------------------------------- MODULE Store --------------------------------
(***************************************************************************)
(* The operations of the Store protocol (store.py): for every host session *)
(* a pending registration and a binding, each written atomically.  Records *)
(* are opaque here: the operations compare them, and nothing else.         *)
(*                                                                         *)
(* A conditional write has three outcomes: it applies, it refuses because  *)
(* the stored record is no longer the expected one, or it raises           *)
(* CorruptStateError because the stored record cannot be read.             *)
(***************************************************************************)
CONSTANTS Sessions, Absent, Corrupt

VARIABLES pending, binding

put_pending_registration(s, p) ==
    /\ pending' = [pending EXCEPT ![s] = p]
    /\ UNCHANGED binding

delete_pending_registration(s) ==
    /\ pending' = [pending EXCEPT ![s] = Absent]
    /\ UNCHANGED binding

put_binding(s, b) ==
    /\ binding' = [binding EXCEPT ![s] = b]
    /\ UNCHANGED pending

\* Mutant: only the binding is removed, an offer in flight survives a logout.
delete_binding_only(s) ==
    /\ binding' = [binding EXCEPT ![s] = Absent]
    /\ UNCHANGED pending

delete(s) ==
    /\ binding' = [binding EXCEPT ![s] = Absent]
    /\ pending' = [pending EXCEPT ![s] = Absent]

\* Mutant: the check that the offer is still the live one is left out.
commit_any_registration(s, offer, b) ==
    /\ pending' = [pending EXCEPT ![s] = Absent]
    /\ binding' = [binding EXCEPT ![s] = b]

commit_registration(s, offer, b) ==
    /\ pending[s] = offer
    /\ pending' = [pending EXCEPT ![s] = Absent]
    /\ binding' = [binding EXCEPT ![s] = b]

commit_registration_refused(s, offer) ==
    pending[s] \notin {offer, Corrupt}

\* Mutant: a blind write of what the caller computed from its read.
replace_any_binding(s, expected, new) ==
    /\ binding' = [binding EXCEPT ![s] = new]
    /\ UNCHANGED pending

replace_binding(s, expected, new) ==
    /\ binding[s] = expected
    /\ binding' = [binding EXCEPT ![s] = new]
    /\ UNCHANGED pending

replace_binding_refused(s, expected) ==
    binding[s] \notin {expected, Corrupt}

\* Records outlive their lifetime, several at a time if they are of one age: the
\* store stops returning the offers of the sessions P and the bindings of B.
expire(P, B) ==
    /\ pending' = [s \in Sessions |-> IF s \in P THEN Absent ELSE pending[s]]
    /\ binding' = [s \in Sessions |-> IF s \in B THEN Absent ELSE binding[s]]

\* A record becomes unreadable (truncated, tampered with, of another version).
corrupt_pending_registration(s) ==
    /\ pending[s] # Absent
    /\ pending' = [pending EXCEPT ![s] = Corrupt]
    /\ UNCHANGED binding

corrupt_binding(s) ==
    /\ binding[s] # Absent
    /\ binding' = [binding EXCEPT ![s] = Corrupt]
    /\ UNCHANGED pending

Init_store ==
    /\ pending = [s \in Sessions |-> Absent]
    /\ binding = [s \in Sessions |-> Absent]

\* What may happen to the stored records besides the operations.
Faults == {"expiry", "corruption"}

Disturb_store(fault) ==
    \/ /\ fault = "expiry"
       /\ \E P, B \in SUBSET Sessions : expire(P, B)
    \/ /\ fault = "corruption"
       /\ \E s \in Sessions :
             corrupt_pending_registration(s) \/ corrupt_binding(s)
==============================================================================

---------------------------- MODULE SerialServer -----------------------------
(***************************************************************************)
(* What DbscServer promises its callers: "exactly as if the requests had   *)
(* arrived one after the other" (DbscServer.refresh).  Each request that   *)
(* changes the store is one step, and every check it makes is made on the  *)
(* record that step changes.  There are no attempts, no lost races and no  *)
(* stale reads; a request that changes nothing is not a step at all.       *)
(*                                                                         *)
(* The one trace of the distance between a check and its write is the      *)
(* clock: a request uses a reading that may be older than its step.        *)
(***************************************************************************)
EXTENDS Records

CONSTANTS Sessions, MaxNonces, MaxTime

VARIABLES
    pending, binding,       \* the store
    now,                    \* the clock
    used,                   \* tokens that were stored
    registered, refreshed   \* the requests that were granted

INSTANCE Store

serial_vars == <<pending, binding, now, used, registered, refreshed>>
granted == <<registered, refreshed>>

\* A request reads the clock no later than it takes effect.
Readings == 0 .. now

\* Every token that reaches the store is a new one.
Stores(n) ==
    /\ n \in (1 .. MaxNonces) \ used
    /\ used' = used \union {n}
    /\ UNCHANGED now

Offer(s) ==
    \E n \in 1 .. MaxNonces, at \in Readings, u \in UserIds :
        /\ Stores(n)
        /\ put_pending_registration(s,
              [user_id |-> u, reg_challenge |-> n, reg_challenge_time |-> at])
        /\ UNCHANGED granted

\* The proof that is granted signs the offer that this step consumes.
Register(s) ==
    \E n \in 1 .. MaxNonces, at \in Readings, u \in UserIds, k \in Keys :
        LET jwt == [key |-> k, jti |-> pending[s].reg_challenge]
            b == new_binding(pending[s], u, k, n, at)
        IN  /\ Stores(n)
            /\ IsRecord(pending[s])
            /\ registration_outcome(pending[s], u, jwt, at) = "verified"
            /\ commit_registration(s, pending[s], b)
            /\ registered' = registered \union
                  {[offer |-> jwt.jti, sid |-> n, key |-> k,
                    user |-> b.user_id, at |-> at]}
            /\ UNCHANGED refreshed

RotateChallenge(s) ==
    \E n \in 1 .. MaxNonces, at \in Readings :
        /\ Stores(n)
        /\ IsRecord(binding[s])
        /\ replace_binding(s, binding[s], with_challenge(binding[s], n, at))
        /\ UNCHANGED granted

\* The proof that is granted is valid for the binding that this step rotates:
\* its device key, a challenge it accepts, its user and its identifier.
Refresh(s) ==
    \E n \in 1 .. MaxNonces, at \in Readings :
        /\ Stores(n)
        /\ IsRecord(binding[s])
        /\ replace_binding(s, binding[s],
              with_rotated_cookie_and_challenge(binding[s], n, at))
        /\ \E u \in UserIds, k \in Keys, jti, id \in 0 .. MaxNonces :
              /\ refresh_outcome(binding[s], u, id,
                                 [key |-> k, jti |-> jti], at) = "proved"
              /\ refreshed' = refreshed \union
                    {[sid |-> binding[s].session_identifier, jti |-> jti,
                      key |-> k, user |-> u, cookie |-> n, at |-> at]}
        /\ UNCHANGED registered

Advertise(s) ==
    /\ IsRecord(binding[s])
    /\ \E at \in Readings, u \in UserIds : worth_advertising(binding[s], u, at)
    /\ replace_binding(s, binding[s], mark_challenge_advertised(binding[s]))
    /\ UNCHANGED <<now, used, granted>>

Revoke(s) == delete(s) /\ UNCHANGED <<now, used, granted>>

Disturbed ==
    /\ \E fault \in Faults : Disturb_store(fault)
    /\ UNCHANGED <<now, used, granted>>

Ticks ==
    /\ now < MaxTime
    /\ now' = now + 1
    /\ UNCHANGED <<pending, binding, used, granted>>

SerialInit ==
    /\ Init_store
    /\ now = 0
    /\ used = {}
    /\ registered = {}
    /\ refreshed = {}

SerialNext ==
    \/ \E s \in Sessions :
          \/ Offer(s) \/ Register(s) \/ RotateChallenge(s) \/ Refresh(s)
          \/ Advertise(s) \/ Revoke(s)
    \/ Disturbed
    \/ Ticks

SerialSpec == SerialInit /\ [][SerialNext]_serial_vars
==============================================================================

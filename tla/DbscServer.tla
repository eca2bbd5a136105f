----------------------------- MODULE DbscServer ------------------------------
(***************************************************************************)
(* DbscServer (server.py) over a store that keeps the contract of module   *)
(* Store, called by any number of concurrent requests.                     *)
(*                                                                         *)
(* A task of Tasks is a coroutine that serves one request at a time.  The  *)
(* code between two awaits runs without interruption in its process but    *)
(* several processes may share a store, so a call advances in these steps: *)
(*                                                                         *)
(*    "get"     the instant at which the store reads the record (the first *)
(*              read of a request is the step in which it enters)          *)
(*    "check"   the code from there to the write: every check, the clock   *)
(*              reading and the minting of tokens                          *)
(*    "write"   the instant at which the store writes, or refuses to       *)
(*    "answer"  the audit row and the response                             *)
(*                                                                         *)
(* The clock readings of one "check" are one reading.  registered,         *)
(* refreshed, withdrawn and advertised record what the server did and are  *)
(* read by no step; minted records the tokens that reached the store.      *)
(***************************************************************************)
EXTENDS Records, FiniteSets

CONSTANTS
    Sessions,           \* the host's session ids, the keys of the store
    Tasks,              \* coroutines that may be serving a request at once
    MaxUpdateAttempts,  \* _MAX_UPDATE_ATTEMPTS
    StoreFaults,        \* which of the Faults of Store may happen
    MayAbandon,         \* whether a call may die half way
    MaxNonces,          \* bound: draws that reach the store
    MaxTime             \* bound: the last second of the clock

ASSUME AttemptsAssumption == MaxUpdateAttempts \in Nat \ {0}
ASSUME MayAbandonAssumption == MayAbandon \in BOOLEAN
ASSUME BoundsAssumption == MaxNonces \in Nat /\ MaxTime \in Nat

VARIABLES
    pending, binding,   \* the store
    now,                \* the clock
    call,               \* the request each task is serving, Absent for none
    minted,             \* history: tokens that were stored, and their time
    registered,         \* history: registrations that committed
    refreshed,          \* history: refreshes that committed
    withdrawn,          \* history: offers a newer offer or a logout removed
    advertised          \* history: sessions whose seed was advertised

INSTANCE Store

ASSUME FaultsAssumption == StoreFaults \subseteq Faults

vars == <<pending, binding, now, call, minted,
          registered, refreshed, withdrawn, advertised>>
store == <<pending, binding>>
history == <<registered, refreshed, withdrawn, advertised>>

Ops == {"offer", "register", "issue", "refresh", "advertise", "revoke"}

\* RetryableRefreshError and the other errors of exceptions.py.
Retryable ==
    {"MissingChallengeError", "ChallengeExpiredError", "ChallengeMismatchError"}
Terminal == {"SessionNotFoundError", "JwtInvalidError"}
Outcomes ==
    {"none", "ok", "unchanged", "CorruptStateError"} \union Retryable
                                                     \union Terminal

StoredRecords == PendingRegistration \union Binding \union {Absent, Corrupt}

\* The locals of a method: its arguments, the number of the attempt, the record
\* it read, the token it drew, the clock it read, and how it will end.
Calls ==
    [op : Ops,
     pc : {"get", "check", "write", "answer"},
     session : Sessions,
     user : UserIds,
     jwt : Jwts,
     id : Nat,
     attempt : 1 .. MaxUpdateAttempts + 1,
     read : StoredRecords,
     nonce : Nat,
     at : Nat,
     out : Outcomes]

Serving(t, op, pc) == call[t] # Absent /\ call[t].op = op /\ call[t].pc = pc

Active == {t \in Tasks : call[t] # Absent}

\* The operations that draw a token, and store it at most once per call.
Minting == {"offer", "register", "issue", "refresh"}
MintingTasks == {t \in Active : call[t].op \in Minting}

used == {m.nonce : m \in minted}

\* _nonce: a token no store has seen and no other call holds.  Which one does
\* not matter, so it is the smallest.
Fresh == (1 .. MaxNonces) \ (used \union {call[t].nonce : t \in Active})
DrawnNext(n) == n \in Fresh /\ \A m \in Fresh : n <= m

\* The challenge of the offer stored for s, and the identifier of its binding.
LiveOffer(s) == IF IsRecord(pending[s]) THEN {pending[s].reg_challenge} ELSE {}
Bound(s) == IF IsRecord(binding[s]) THEN {binding[s].session_identifier} ELSE {}

\* The call of task t goes on as c.
Goes(t, c) == call' = [call EXCEPT ![t] = c]

\* It goes on to its answer; the arguments and the clock are not needed again.
Ends(t, outcome) ==
    Goes(t, [call[t] EXCEPT !.pc = "answer", !.out = outcome,
                            !.jwt = NoJwt, !.id = NoNonce, !.at = 0])

------------------------------------------------------------------------------
(* Requests arrive, and the steps the operations share.                     *)

\* A request enters the model with the first thing it does that others can
\* observe or disturb: the instant at which the store reads its record.
Begin(t, op, pc, s, u, jwt, id, record) ==
    /\ call[t] = Absent
    /\ op \in Minting =>
          Cardinality(used) + Cardinality(MintingTasks) < MaxNonces
    /\ Goes(t, [op |-> op, pc |-> pc, session |-> s, user |-> u, jwt |-> jwt,
                id |-> id, attempt |-> 1, read |-> record, nonce |-> NoNonce,
                at |-> 0, out |-> "none"])
    /\ UNCHANGED <<store, now, minted, history>>

\* A client presents any challenge that was ever stored, or junk, signed by any
\* key, and the session identifier of any registration, or none.
PresentedJwts == [key : Keys, jti : used \union {NoNonce}] \union {NoJwt}
PresentedIds == {g.sid : g \in registered} \union {NoNonce}

build_registration_header_response(t, s, u) ==
    Begin(t, "offer", "check", s, u, NoJwt, NoNonce, Absent)

register(t, s, u, jwt) ==
    Begin(t, "register", "check", s, u, jwt, NoNonce, pending[s])

issue_refresh_challenge(t, s) ==
    Begin(t, "issue", "check", s, Unknown, NoJwt, NoNonce, binding[s])

refresh(t, s, u, jwt, id) ==
    Begin(t, "refresh", "check", s, u, jwt, id, binding[s])

\* get_binding, by the enforcement gate; advertise_refresh_challenge may follow.
get_binding(t, s, u) ==
    Begin(t, "advertise", "check", s, u, NoJwt, NoNonce, binding[s])

revoke(t, s) ==
    Begin(t, "revoke", "write", s, Unknown, NoJwt, NoNonce, binding[s])

Request(t) ==
    \E s \in Sessions, u \in UserIds :
        \/ build_registration_header_response(t, s, u)
        \/ \E jwt \in PresentedJwts : register(t, s, u, jwt)
        \/ issue_refresh_challenge(t, s)
        \/ \E jwt \in PresentedJwts, id \in PresentedIds :
              refresh(t, s, u, jwt, id)
        \/ get_binding(t, s, u)
        \/ revoke(t, s)

\* The read, when a retry loop goes round again.
get(t) ==
    /\ call[t] # Absent
    /\ call[t].pc = "get"
    /\ Goes(t, [call[t] EXCEPT !.pc = "check",
                               !.read = binding[call[t].session]])
    /\ UNCHANGED <<store, now, minted, history>>

\* A check passed: draw a token, read the clock and go to the write.
Mint(t) ==
    /\ \E n \in Fresh :
          /\ DrawnNext(n)
          /\ Goes(t, [call[t] EXCEPT !.pc = "write", !.nonce = n, !.at = now])
    /\ UNCHANGED <<store, now, minted, history>>

\* A check failed, or there is nothing to do.
Stop(t, outcome) == Ends(t, outcome) /\ UNCHANGED <<store, now, minted, history>>

\* The conditional write of the binding met an unreadable record.
replace_raises(t, op) ==
    /\ Serving(t, op, "write")
    /\ binding[call[t].session] = Corrupt
    /\ Stop(t, "CorruptStateError")

\* Mutant: nothing counts the attempts.
AgainForever(t) ==
    /\ replace_binding_refused(call[t].session, call[t].read)
    /\ Goes(t, [call[t] EXCEPT !.pc = "get", !.attempt = call[t].attempt + 1,
                               !.read = Absent, !.nonce = NoNonce, !.at = 0])
    /\ UNCHANGED <<store, now, minted, history>>

\* Mutant: the proof is not checked again on the fresh binding.
AgainUnproved(t) ==
    /\ replace_binding_refused(call[t].session, call[t].read)
    /\ IsRecord(binding[call[t].session])
    /\ call[t].attempt < MaxUpdateAttempts
    /\ Goes(t, [call[t] EXCEPT !.attempt = call[t].attempt + 1,
                               !.read = binding[call[t].session]])
    /\ UNCHANGED <<store, now, minted, history>>

\* How often a retry loop reads the binding: once for each attempt, and once
\* more behind the loop of issue_refresh_challenge.
Gets(op) == MaxUpdateAttempts + IF op = "issue" THEN 1 ELSE 0

\* It was refused: the binding is read again, or the attempts are used up.
Again(t) ==
    /\ replace_binding_refused(call[t].session, call[t].read)
    /\ call[t].attempt < Gets(call[t].op)
    /\ Goes(t, [call[t] EXCEPT !.pc = "get", !.attempt = call[t].attempt + 1,
                               !.read = Absent, !.nonce = NoNonce, !.at = 0])
    /\ UNCHANGED <<store, now, minted, history>>

Exhausted(t) ==
    /\ replace_binding_refused(call[t].session, call[t].read)
    /\ call[t].attempt = MaxUpdateAttempts

\* The event a call logs before it answers, "none" for none.  REVOKED stands for
\* ENFORCEMENT_TERMINATED too: which of them is an argument of revoke.
audit_event(c) ==
    CASE c.out = "CorruptStateError" -> "none"
      [] c.op = "register" /\ c.out = "ok" -> "REGISTERED"
      [] c.op = "register" /\ c.out \notin {"ok", "CorruptStateError"}
            -> "REGISTRATION_FAILED"
      [] c.op = "refresh" /\ c.out = "ok" -> "REFRESHED"
      [] c.op = "refresh" /\ c.out \in Retryable -> "REFRESH_RETRYABLE"
      [] c.op = "refresh" /\ c.out \in Terminal -> "REFRESH_FAILED"
      [] c.op = "revoke" /\ c.out = "ok" -> "REVOKED"
      [] OTHER -> "none"

\* The audit row is written and the response leaves.
answer(t) ==
    /\ call[t] # Absent
    /\ call[t].pc = "answer"
    /\ Goes(t, Absent)
    /\ advertised' = IF call[t].op = "advertise" /\ call[t].out = "ok"
                     THEN advertised \union {call[t].read.session_identifier}
                     ELSE advertised
    /\ UNCHANGED <<store, now, minted, registered, refreshed, withdrawn>>

\* The call never answers: its task is cancelled, a store call fails, or the
\* audit logger raises.  What it wrote stays written.
abandon(t) ==
    /\ MayAbandon
    /\ call[t] # Absent
    /\ Goes(t, Absent)
    /\ UNCHANGED <<store, now, minted, history>>

------------------------------------------------------------------------------
(* build_registration_header_response                                       *)

offer_check(t) == Serving(t, "offer", "check") /\ Mint(t)

offer_put(t) ==
    /\ Serving(t, "offer", "write")
    /\ LET c == call[t] IN
       /\ put_pending_registration(c.session,
             [user_id |-> c.user, reg_challenge |-> c.nonce,
              reg_challenge_time |-> c.at])
       /\ minted' = minted \union {[nonce |-> c.nonce, at |-> c.at]}
       /\ withdrawn' = withdrawn \union LiveOffer(c.session)
    /\ Ends(t, "ok")
    /\ UNCHANGED <<now, registered, refreshed, advertised>>

------------------------------------------------------------------------------
(* register                                                                 *)

register_check(t) ==
    /\ Serving(t, "register", "check")
    /\ LET c == call[t]
           outcome == registration_outcome(c.read, c.user, c.jwt, now)
       IN  IF outcome = "verified" THEN Mint(t) ELSE Stop(t, outcome)

register_commit(t) ==
    /\ Serving(t, "register", "write")
    /\ LET c == call[t] IN
       /\ commit_registration(c.session, c.read,
             new_binding(c.read, c.user, c.jwt.key, c.nonce, c.at))
       /\ minted' = minted \union {[nonce |-> c.nonce, at |-> c.at]}
       /\ registered' = registered \union
             {[offer |-> c.read.reg_challenge, sid |-> c.nonce,
               key |-> c.jwt.key, user |-> binding'[c.session].user_id,
               at |-> c.at]}
    /\ Ends(t, "ok")
    /\ UNCHANGED <<now, refreshed, withdrawn, advertised>>

register_loses(t) ==
    /\ Serving(t, "register", "write")
    /\ LET stored == pending[call[t].session] IN
       \/ /\ commit_registration_refused(call[t].session, call[t].read)
          /\ Stop(t, "MissingChallengeError")
       \/ /\ stored = Corrupt
          /\ Stop(t, "CorruptStateError")

------------------------------------------------------------------------------
(* issue_refresh_challenge                                                  *)

\* Behind the last attempt, the 403 carries the challenge that is stored now.
issue_check(t) ==
    /\ Serving(t, "issue", "check")
    /\ IF call[t].read = Corrupt THEN Stop(t, "CorruptStateError")
       ELSE IF call[t].read = Absent \/ call[t].attempt > MaxUpdateAttempts
       THEN Stop(t, "unchanged")
       ELSE Mint(t)

issue_replace(t) ==
    /\ Serving(t, "issue", "write")
    /\ LET c == call[t] IN
       /\ replace_binding(c.session, c.read,
                          with_challenge(c.read, c.nonce, c.at))
       /\ minted' = minted \union {[nonce |-> c.nonce, at |-> c.at]}
    /\ Ends(t, "ok")
    /\ UNCHANGED <<now, history>>

issue_loses(t) == Serving(t, "issue", "write") /\ Again(t)

------------------------------------------------------------------------------
(* refresh                                                                  *)

refresh_check(t) ==
    /\ Serving(t, "refresh", "check")
    /\ LET c == call[t]
           outcome == refresh_outcome(c.read, c.user, c.id, c.jwt, now)
       IN  IF outcome = "proved" THEN Mint(t) ELSE Stop(t, outcome)

refresh_replace(t) ==
    /\ Serving(t, "refresh", "write")
    /\ LET c == call[t] IN
       /\ replace_binding(c.session, c.read,
             with_rotated_cookie_and_challenge(c.read, c.nonce, c.at))
       /\ minted' = minted \union {[nonce |-> c.nonce, at |-> c.at]}
       /\ refreshed' = refreshed \union
             {[sid |-> c.read.session_identifier, jti |-> c.jwt.jti,
               key |-> c.jwt.key, user |-> c.user, cookie |-> c.nonce,
               at |-> c.at]}
    /\ Ends(t, "ok")
    /\ UNCHANGED <<now, registered, withdrawn, advertised>>

refresh_loses(t) ==
    /\ Serving(t, "refresh", "write")
    /\ \/ Again(t)
       \/ Exhausted(t) /\ Stop(t, "ChallengeMismatchError")

------------------------------------------------------------------------------
(* get_binding by the enforcement gate, then advertise_refresh_challenge    *)

\* The gate needs nothing but the binding.
get_binding_returns(t) ==
    /\ Serving(t, "advertise", "check")
    /\ Stop(t, IF call[t].read = Corrupt THEN "CorruptStateError"
               ELSE "unchanged")

advertise_check(t) ==
    /\ Serving(t, "advertise", "check")
    /\ LET c == call[t] IN
       IF c.read = Corrupt THEN Stop(t, "CorruptStateError")
       ELSE IF c.read # Absent /\ worth_advertising(c.read, c.user, now)
       THEN /\ Goes(t, [c EXCEPT !.pc = "write"])
            /\ UNCHANGED <<store, now, minted, history>>
       ELSE Stop(t, "unchanged")

advertise_replace(t) ==
    /\ Serving(t, "advertise", "write")
    /\ replace_binding(call[t].session, call[t].read,
                       mark_challenge_advertised(call[t].read))
    /\ Ends(t, "ok")
    /\ UNCHANGED <<now, minted, history>>

\* Mutant: the result of the conditional write is ignored.
advertise_regardless(t) ==
    /\ Serving(t, "advertise", "write")
    /\ replace_binding_refused(call[t].session, call[t].read)
    /\ Stop(t, "ok")

advertise_loses(t) ==
    /\ Serving(t, "advertise", "write")
    /\ replace_binding_refused(call[t].session, call[t].read)
    /\ Stop(t, "unchanged")

------------------------------------------------------------------------------
(* revoke                                                                   *)

\* The outcome is "ok" when was_bound, and then an audit row follows.
revoke_delete(t) ==
    /\ Serving(t, "revoke", "write")
    /\ delete(call[t].session)
    /\ withdrawn' = withdrawn \union LiveOffer(call[t].session)
    /\ Ends(t, IF call[t].read # Absent THEN "ok" ELSE "unchanged")
    /\ UNCHANGED <<now, minted, registered, refreshed, advertised>>

------------------------------------------------------------------------------
Init ==
    /\ Init_store
    /\ now = 0
    /\ call = [t \in Tasks |-> Absent]
    /\ minted = {}
    /\ registered = {}
    /\ refreshed = {}
    /\ withdrawn = {}
    /\ advertised = {}

\* The steps of a call that leave its caller no choice, and all its steps.
Works(t) ==
    \/ get(t)
    \/ offer_check(t) \/ offer_put(t)
    \/ register_check(t) \/ register_commit(t) \/ register_loses(t)
    \/ issue_check(t) \/ issue_replace(t) \/ issue_loses(t)
    \/ refresh_check(t) \/ refresh_replace(t) \/ refresh_loses(t)
    \/ advertise_replace(t) \/ advertise_loses(t)
    \/ \E op \in {"issue", "refresh", "advertise"} : replace_raises(t, op)
    \/ revoke_delete(t)

Step(t) ==
    Works(t) \/ get_binding_returns(t) \/ advertise_check(t) \/ answer(t)

Tick ==
    /\ now < MaxTime
    /\ now' = now + 1
    /\ UNCHANGED <<store, call, minted, history>>

Disturb ==
    /\ \E fault \in StoreFaults : Disturb_store(fault)
    /\ UNCHANGED <<now, call, minted, history>>

Next ==
    \/ \E t \in Tasks : Request(t) \/ Step(t) \/ abandon(t)
    \/ Tick
    \/ Disturb

Spec == Init /\ [][Next]_vars

------------------------------------------------------------------------------
(* Properties                                                               *)

\* The types of the variables.
TypeOK ==
    /\ pending \in [Sessions -> PendingRegistration \union {Absent, Corrupt}]
    /\ binding \in [Sessions -> Binding \union {Absent, Corrupt}]
    /\ now \in Nat
    /\ call \in [Tasks -> Calls \union {Absent}]
    /\ minted \subseteq [nonce : Nonces, at : Nat]
    /\ registered \subseteq [offer : Nonces, sid : Nonces, key : Keys,
                             user : UserIds, at : Nat]
    /\ refreshed \subseteq [sid : Nonces, jti : Nat, key : Keys,
                            user : UserIds, cookie : Nonces, at : Nat]
    /\ withdrawn \subseteq Nonces
    /\ advertised \subseteq Nonces

\* Type invariant, with SECURITY.md, A10: "Retries after a lost write race are
\* bounded".  No loop reads more often than its attempts allow, however often it
\* loses its write.
ServerTypeOK ==
    /\ TypeOK
    /\ \A t \in Active : call[t].attempt <= Gets(call[t].op)

\* No two refreshes ever commit on one challenge, and a challenge that was
\* spent is no longer accepted by the binding it was spent on.  refresh() drops
\* the proved challenge in the same conditional write that rotates the cookie.
ChallengeSingleUse ==
    /\ \A r, q \in refreshed : r.jti = q.jti => r = q
    /\ \A s \in Sessions : IsRecord(binding[s]) =>
          \A r \in refreshed :
             r.jti \notin {binding[s].challenge, binding[s].previous_challenge}

\* At most one registration ever commits on an offer, however many race on it,
\* and never one on an offer that a logout or a newer login had removed.
OfferSingleUse ==
    /\ \A g, h \in registered : g.offer = h.offer => g = h
    /\ \A g \in registered : g.offer \notin withdrawn
    /\ \A s \in Sessions :
          LiveOffer(s) \intersect {g.offer : g \in registered} = {}

\* Every refresh that commits was signed by the device key that registered the
\* session and was sent by its user, whatever ran in between.
DeviceBound ==
    \A r \in refreshed : \E g \in registered :
        g.sid = r.sid /\ g.key = r.key /\ same_user(g.user, r.user)

\* A binding that was revoked, replaced, expired or corrupted never comes back:
\* an identifier enters the store only in the step that registers it.
TornDownStaysDown ==
    [][\A s \in Sessions :
          Bound(s)' \subseteq Bound(s) \union
                              {g.sid : g \in registered' \ registered}]_vars

\* No write undoes another: within a session the cookie that was current is the
\* previous one after a refresh, the challenge that was current is the previous
\* one after a reactive 403, and nothing else changes either.
NoLostRotation ==
    [][\A s \in Sessions :
          Bound(s) # {} /\ Bound(s)' = Bound(s) =>
             LET b == binding[s]
                 c == binding'[s]
             IN  /\ c.cookie_value # b.cookie_value =>
                      /\ c.previous_cookie_value = b.cookie_value
                      /\ c.challenge # b.challenge
                 /\ c.cookie_value = b.cookie_value =>
                      /\ c.previous_cookie_value = b.previous_cookie_value
                      /\ \/ c.challenge = b.challenge
                         \/ c.previous_challenge = b.challenge]_vars

\* Within a session, the marks that the seed was advertised and that a refresh
\* happened are never taken back, and the user, the key and the creation time
\* never change.
OneWay ==
    [][\A s \in Sessions :
          Bound(s) # {} /\ Bound(s)' = Bound(s) =>
             LET b == binding[s]
                 c == binding'[s]
             IN  /\ b.has_refreshed => c.has_refreshed
                 /\ b.challenge_advertised => c.challenge_advertised
                 /\ c.user_id = b.user_id
                 /\ c.public_key = b.public_key
                 /\ c.created_at = b.created_at]_vars

\* advertise_refresh_challenge delivers the seed of a session exactly once,
\* however many page loads race.
SeedDeliveredOnce ==
    [][\A t \in Tasks :
          Serving(t, "advertise", "answer") /\ call[t].out = "ok"
             /\ call'[t] = Absent
          => call[t].read.session_identifier \notin advertised]_vars

\* Every time in a binding is the time its token was really minted, although
\* the write that stores it comes later and other writes come between.
Dated(b) ==
    /\ [nonce |-> b.session_identifier, at |-> b.created_at] \in minted
    /\ [nonce |-> b.cookie_value, at |-> b.cookie_issued_at] \in minted
    /\ [nonce |-> b.challenge, at |-> b.challenge_time] \in minted
    /\ b.previous_challenge # NoNonce =>
          [nonce |-> b.previous_challenge,
           at |-> b.previous_challenge_time] \in minted
    /\ b.previous_cookie_value # NoNonce =>
          \E m \in minted :
              /\ m.nonce = b.previous_cookie_value
              /\ b.previous_cookie_expires_at = m.at + CookieMaxAge

TimesTrue ==
    \A s \in Sessions : IsRecord(binding[s]) => Dated(binding[s])

\* A registration or a refresh commits only on a challenge that was minted no
\* longer than ChallengeTtl before its proof was checked, rotations included.
ProofsAreYoung ==
    /\ \A g \in registered : \E m \in minted :
          m.nonce = g.offer /\ g.at - m.at <= ChallengeTtl
    /\ \A r \in refreshed : \E m \in minted :
          m.nonce = r.jti /\ r.at - m.at <= ChallengeTtl

\* README.md, "Audit logging": REVOKED is logged by "revoke() on a bound
\* session".  The delete of a revoke that removes a binding is followed by its
\* audit row.
TeardownAudited ==
    [][\A t \in Tasks :
          /\ Serving(t, "revoke", "write")
          /\ Serving(t, "revoke", "answer")'
          /\ Bound(call[t].session) # {}
          => audit_event(call'[t]) = "REVOKED"]_vars

\* However the calls interleave, the store changes as if the requests had been
\* served one at a time, each checked against the very record it changes.
Serial == INSTANCE SerialServer
OneAfterTheOther == Serial!SerialSpec
==============================================================================

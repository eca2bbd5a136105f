------------------------ MODULE DbscServerStepProofs -------------------------
(***************************************************************************)
(* What one step may do to a binding, from the invariant of                *)
(* DbscServerProofs: the action properties of DbscServer, what the calls   *)
(* in flight know of the bindings they read, and the refinement of         *)
(* SerialServer.                                                           *)
(***************************************************************************)
EXTENDS DbscServerProofs

\* The ways in which a step may change the binding of session s.
Kept(s) == binding'[s] = binding[s]
Gone(s) == binding'[s] \in {Absent, Corrupt}
Registered(s) ==
    /\ binding'[s] \in Binding /\ pending[s] \in PendingRegistration
    /\ pending[s].user_id # Unknown =>
          binding'[s].user_id = pending[s].user_id
    /\ \E g \in registered' \ registered :
          /\ binding'[s].session_identifier = g.sid
          /\ binding'[s].created_at = g.at
          /\ binding'[s].cookie_issued_at = g.at
          /\ g.sid \notin used /\ g.at <= now
Updated(s) ==
    /\ binding[s] \in Binding
    /\ \/ binding'[s] = mark_challenge_advertised(binding[s])
       \/ \E n \in Nonces, at \in Nat :
             /\ n \notin used
             /\ \/ binding'[s] = with_challenge(binding[s], n, at)
                \/ /\ binding'[s] =
                         with_rotated_cookie_and_challenge(binding[s], n, at)
                   /\ \E t \in Tasks : /\ Serving(t, "refresh", "write")
                                       /\ call[t].read = binding[s]
                                       /\ call[t].at = at

Lawful(s) == Kept(s) \/ Gone(s) \/ Registered(s) \/ Updated(s)

\* A conditional write of a call is lawful: its token is new, and what it read
\* is what it replaces.
LEMMA WriteIsLawful ==
    ASSUME IInv, NEW t \in Tasks, NEW s \in Sessions,
           \/ issue_replace(t) \/ refresh_replace(t) \/ advertise_replace(t)
    PROVE  Kept(s) \/ Updated(s)
<1>0. PICK n, at, x, b :
         /\ n = call[t].nonce /\ at = call[t].at
         /\ x = call[t].session /\ b = call[t].read
  OBVIOUS
<1>1. Writing(t) /\ call[t] \in Calls /\ x \in Sessions
  BY <1>0
  DEF issue_replace, refresh_replace, advertise_replace, Serving, Writing,
      IInv, Types, TypeOK, Calls
<1>2. /\ call[t].op \in {"issue", "refresh", "advertise"}
      /\ binding[x] = b
      /\ \E c : binding' = [binding EXCEPT ![x] = c]
  BY <1>0
  DEF issue_replace, refresh_replace, advertise_replace, Serving,
      replace_binding
<1>3. b \in Binding /\ binding \in [Sessions -> Binding \union {Absent, Corrupt}]
  BY <1>0, <1>1, <1>2 DEF IInv, WritesAreJustified, Justified, Types, TypeOK
<1>4. CASE s # x
  BY <1>2, <1>3, <1>4 DEF Kept
<1>5. CASE s = x /\ advertise_replace(t)
  <2>1. binding'[s] = mark_challenge_advertised(b)
    BY <1>0, <1>1, <1>3, <1>5 DEF advertise_replace, replace_binding
  <2>2. QED
    BY <1>2, <1>3, <1>5, <2>1 DEF Updated
<1>6. CASE s = x /\ (issue_replace(t) \/ refresh_replace(t))
  <2>1. /\ call[t].op \in Minting
        /\ minted' = minted \union
              {[nonce |-> call[t].nonce, at |-> call[t].at]}
    BY <1>6 DEF issue_replace, refresh_replace, Serving, Minting
  <2>2. n \in Nonces /\ n \notin used /\ at \in Nat
    BY <1>0, <1>1, <2>1, TokenStored
  <2>3. \/ binding'[s] = with_challenge(b, n, at)
        \/ /\ binding'[s] = with_rotated_cookie_and_challenge(b, n, at)
           /\ Serving(t, "refresh", "write")
    BY <1>0, <1>1, <1>3, <1>6
    DEF issue_replace, refresh_replace, replace_binding
  <2>4. QED
    BY <1>0, <1>2, <1>3, <1>6, <2>2, <2>3 DEF Updated
<1>7. QED
  BY <1>4, <1>5, <1>6

\* A registration that commits takes its offer and brings an identifier that was
\* never stored.
LEMMA CommitRegisters ==
    ASSUME IInv, NEW t \in Tasks, NEW s \in Sessions, register_commit(t)
    PROVE  \/ Kept(s)
           \/ /\ Registered(s)
              /\ call[t].session = s
<1>0. PICK n, at, x, p, b, g :
         /\ n = call[t].nonce /\ at = call[t].at /\ x = call[t].session
         /\ p = call[t].read
         /\ b = new_binding(p, call[t].user, call[t].jwt.key, n, at)
         /\ g = [offer |-> p.reg_challenge, sid |-> n,
                 key |-> call[t].jwt.key, user |-> binding'[x].user_id,
                 at |-> at]
  OBVIOUS
<1>1. /\ Writing(t) /\ call[t].op = "register" /\ call[t].op \in Minting
      /\ minted' = minted \union
            {[nonce |-> call[t].nonce, at |-> call[t].at]}
      /\ pending[x] = p /\ binding' = [binding EXCEPT ![x] = b]
      /\ registered' = registered \union {g}
  BY <1>0 DEF register_commit, Serving, Writing, Minting, commit_registration
<1>2. /\ n \notin used /\ n \in Nonces /\ at \in Nat /\ at <= now
      /\ call[t] \in Calls
  BY <1>0, <1>1, TokenStored
  DEF Writing, IInv, CallsRemember, Active, Remembers
<1>3. /\ g.sid = n /\ g.at = at /\ b.session_identifier = n
      /\ b.created_at = at /\ b.cookie_issued_at = at
      /\ p.user_id # Unknown => b.user_id = p.user_id
  BY <1>0 DEF new_binding
<1>4. g \in registered' \ registered
  BY <1>1, <1>2, <1>3 DEF IInv, HistoryIsUsed
<1>5. p \in PendingRegistration /\ b \in Binding
  <2>1. /\ p \in PendingRegistration /\ call[t].jwt \in Jwts
        /\ registration_outcome(p, call[t].user, call[t].jwt, at) = "verified"
        /\ call[t].user \in UserIds
    BY <1>0, <1>1, <1>2 DEF IInv, WritesAreJustified, Justified, Calls
  <2>2. call[t].jwt.key \in Keys
    BY <1>2, <2>1, VerifiedMeans
  <2>3. QED
    BY <1>0, <1>2, <2>1, <2>2, NewBindingType
<1>6. CASE s # x
  BY <1>1, <1>6, SMTT(30) DEF Kept, IInv, Types, TypeOK
<1>7. CASE s = x
  <2>1. binding'[s] = b
    BY <1>1, <1>7 DEF IInv, Types, TypeOK
  <2>2. QED
    BY <1>0, <1>1, <1>2, <1>3, <1>4, <1>5, <1>7, <2>1 DEF Registered
<1>8. QED
  BY <1>6, <1>7

\* An offer is replaced by a newer one, or goes.
LEMMA OfferChanges ==
    ASSUME IInv, [Next]_vars, NEW s \in Sessions
    PROVE  \/ pending'[s] = pending[s]
           \/ pending'[s] \in {Absent, Corrupt}
           \/ \E t \in Tasks :
                 /\ offer_put(t) /\ call[t].session = s
                 /\ pending'[s].user_id = call[t].user
<1>0. pending \in [Sessions -> PendingRegistration \union {Absent, Corrupt}]
  BY DEF IInv, Types, TypeOK
<1>1. ASSUME NEW t \in Tasks, Request(t) \/ QuietStep(t)
      PROVE  pending'[s] = pending[s]
  BY <1>1, RequestKeeps, QuietStepKeeps DEF Still, store
<1>2. ASSUME NEW t \in Tasks, offer_put(t)
      PROVE  \/ pending'[s] = pending[s]
             \/ call[t].session = s /\ pending'[s].user_id = call[t].user
  BY <1>0, <1>2 DEF offer_put, put_pending_registration
<1>3. ASSUME NEW t \in Tasks, register_commit(t) \/ revoke_delete(t)
      PROVE  pending'[s] \in {pending[s], Absent}
  BY <1>0, <1>3
  DEF register_commit, commit_registration, revoke_delete, delete
<1>4. ASSUME NEW t \in Tasks, \/ issue_replace(t) \/ refresh_replace(t)
                              \/ advertise_replace(t) \/ answer(t)
      PROVE  pending' = pending
  BY <1>4 DEF issue_replace, refresh_replace, advertise_replace, answer,
              replace_binding, store
<1>5. CASE Tick \/ UNCHANGED vars
  BY <1>5 DEF Tick, vars, store
<1>6. CASE Disturb
  BY <1>0, <1>6
  DEF Disturb, Disturb_store, expire, corrupt_pending_registration,
      corrupt_binding
<1>7. QED
  BY <1>1, <1>2, <1>3, <1>4, <1>5, <1>6 DEF Next, Step, Works, QuietStep

\* Every step is lawful for every session.
LEMMA StepsAreLawful ==
    ASSUME IInv, [Next]_vars, NEW s \in Sessions
    PROVE  Lawful(s)
<1> USE DEF Lawful
<1>1. ASSUME Still PROVE Lawful(s)
  BY <1>1 DEF Still, store, Kept
<1>2. ASSUME NEW t \in Tasks, Request(t) PROVE Lawful(s)
  BY <1>1, <1>2, RequestKeeps
<1>3. ASSUME NEW t \in Tasks, Step(t) \/ abandon(t) PROVE Lawful(s)
  <2>1. CASE QuietStep(t)
    BY <1>1, <2>1, QuietStepKeeps
  <2>2. CASE offer_put(t)
    BY <2>2 DEF offer_put, put_pending_registration, Kept
  <2>3. CASE register_commit(t)
    BY <2>3, CommitRegisters
  <2>4. CASE issue_replace(t) \/ refresh_replace(t) \/ advertise_replace(t)
    BY <2>4, WriteIsLawful
  <2>5. CASE revoke_delete(t)
    BY <2>5 DEF revoke_delete, delete, Kept, Gone, IInv, Types, TypeOK
  <2>6. CASE answer(t)
    BY <2>6 DEF answer, store, Kept
  <2>7. QED
    BY <1>3, <2>1, <2>2, <2>3, <2>4, <2>5, <2>6 DEF Step, Works, QuietStep
<1>4. CASE Tick
  BY <1>4 DEF Tick, store, Kept
<1>5. CASE Disturb
  <2>1. ASSUME NEW P \in SUBSET Sessions, NEW B \in SUBSET Sessions,
               expire(P, B)
        PROVE  Kept(s) \/ Gone(s)
    BY <2>1 DEF expire, Kept, Gone
  <2>2. ASSUME NEW q \in Sessions,
               corrupt_pending_registration(q) \/ corrupt_binding(q)
        PROVE  Kept(s) \/ Gone(s)
    BY <2>2
    DEF corrupt_pending_registration, corrupt_binding, Kept, Gone, IInv,
        Types, TypeOK
  <2>3. QED
    BY <1>5, <2>1, <2>2 DEF Disturb, Disturb_store
<1>6. CASE UNCHANGED vars
  BY <1>6 DEF vars, Kept
<1>7. QED
  BY <1>2, <1>3, <1>4, <1>5, <1>6 DEF Next

\* What an update may do to the fields of the binding of s.
Orderly(b, c) ==
    /\ b \in Binding /\ c \in Binding
    /\ c.session_identifier = b.session_identifier
    /\ c.user_id = b.user_id
    /\ c.public_key = b.public_key
    /\ c.created_at = b.created_at
    /\ b.has_refreshed => c.has_refreshed
    /\ b.challenge_advertised => c.challenge_advertised
    /\ \/ /\ c.cookie_value = b.cookie_value
          /\ c.previous_cookie_value = b.previous_cookie_value
          /\ c.challenge = b.challenge \/ c.previous_challenge = b.challenge
       \/ /\ c.cookie_value # b.cookie_value
          /\ c.previous_cookie_value = b.cookie_value
          /\ c.challenge # b.challenge

\* The three updates of binding.py do no more than that.
LEMMA UpdatesAreOrderly ==
    ASSUME IInv, NEW s \in Sessions, Updated(s)
    PROVE  Orderly(binding[s], binding'[s])
<1>0. PICK b, c : b = binding[s] /\ c = binding'[s]
  OBVIOUS
<1>1. b \in Binding
  BY <1>0 DEF Updated
<1>2. b.cookie_value \in used /\ b.challenge \in used
  BY <1>0, <1>1, StoredTokensAreUsed, RecordsAreRecords
<1>3. CASE c = mark_challenge_advertised(b)
  BY <1>0, <1>1, <1>3, MarkAdvertised DEF Orderly
<1>4. ASSUME NEW n \in Nonces, NEW at \in Nat, c = with_challenge(b, n, at)
      PROVE  Orderly(b, c)
  BY <1>1, <1>4, WithChallenge DEF Orderly
<1>5. ASSUME NEW n \in Nonces, NEW at \in Nat, n \notin used,
             c = with_rotated_cookie_and_challenge(b, n, at)
      PROVE  Orderly(b, c)
  BY <1>1, <1>2, <1>5, WithRotated DEF Orderly
<1>6. QED
  BY <1>0, <1>3, <1>4, <1>5 DEF Updated

\* A step that leaves a session bound under its identifier leaves its binding
\* alone or updates it.
LEMMA SameIdentifier ==
    ASSUME IInv, NEW s \in Sessions, Lawful(s),
           Bound(s) # {}, Bound(s)' = Bound(s)
    PROVE  Kept(s) \/ Orderly(binding[s], binding'[s])
<1>1. /\ IsRecord(binding[s])
      /\ IsRecord(binding[s])'
      /\ binding'[s].session_identifier = binding[s].session_identifier
  BY DEF Bound
<1>2. ~ Gone(s)
  BY <1>1 DEF Gone, IsRecord
<1>3. ~ Registered(s)
  BY <1>1, StoredTokensAreUsed DEF Registered
<1>4. QED
  BY <1>2, <1>3, UpdatesAreOrderly DEF Lawful

------------------------------------------------------------------------------
(* The theorems.                                                            *)

\* A binding that is gone stays gone: no write of revoke(), refresh(),
\* issue_refresh_challenge() or advertise_refresh_challenge() that was in
\* flight brings it back.
THEOREM TeardownIsFinal == Spec => TornDownStaysDown
<1> DEFINE Act == \A s \in Sessions :
       Bound(s)' \subseteq Bound(s) \union
                           {g.sid : g \in registered' \ registered}
<1>1. ASSUME IInv, [Next]_vars PROVE Act
  <2> SUFFICES ASSUME NEW s \in Sessions
               PROVE  Bound(s)' \subseteq Bound(s) \union
                         {g.sid : g \in registered' \ registered}
    OBVIOUS
  <2>1. CASE Kept(s)
    BY <2>1 DEF Kept, Bound
  <2>2. CASE Gone(s)
    BY <2>2 DEF Gone, Bound, IsRecord
  <2>3. CASE Registered(s)
    BY <2>3 DEF Registered, Bound
  <2>4. CASE Updated(s)
    <3>1. Orderly(binding[s], binding'[s])
      BY <1>1, <2>4, UpdatesAreOrderly
    <3>2. QED
      BY <3>1, RecordsAreRecords DEF Orderly, Bound
  <2>5. QED
    BY <1>1, <2>1, <2>2, <2>3, <2>4, StepsAreLawful DEF Lawful
<1>2. QED
  BY <1>1, Invariance, PTL DEF Spec, TornDownStaysDown

\* No write of refresh() or issue_refresh_challenge() undoes another: the
\* cookie and the challenge they replace are the ones that were current.
THEOREM RotationsAreNotLost == Spec => NoLostRotation
<1> DEFINE Act == \A s \in Sessions :
       Bound(s) # {} /\ Bound(s)' = Bound(s) =>
          LET b == binding[s]
              c == binding'[s]
          IN  /\ c.cookie_value # b.cookie_value =>
                   /\ c.previous_cookie_value = b.cookie_value
                   /\ c.challenge # b.challenge
              /\ c.cookie_value = b.cookie_value =>
                   /\ c.previous_cookie_value = b.previous_cookie_value
                   /\ \/ c.challenge = b.challenge
                      \/ c.previous_challenge = b.challenge
<1>1. ASSUME IInv, [Next]_vars PROVE Act
  <2>1. \A s \in Sessions : Bound(s) # {} /\ Bound(s)' = Bound(s) =>
           Kept(s) \/ Orderly(binding[s], binding'[s])
    BY <1>1, StepsAreLawful, SameIdentifier
  <2>2. QED
    BY <2>1 DEF Kept, Orderly
<1>2. QED
  BY <1>1, Invariance, PTL DEF Spec, NoLostRotation

\* The marks of a session are never taken back, and its user, its key and its
\* creation time never change, whatever writes race.
THEOREM MarksAreOneWay == Spec => OneWay
<1> DEFINE Act == \A s \in Sessions :
       Bound(s) # {} /\ Bound(s)' = Bound(s) =>
          LET b == binding[s]
              c == binding'[s]
          IN  /\ b.has_refreshed => c.has_refreshed
              /\ b.challenge_advertised => c.challenge_advertised
              /\ c.user_id = b.user_id
              /\ c.public_key = b.public_key
              /\ c.created_at = b.created_at
<1>1. ASSUME IInv, [Next]_vars PROVE Act
  <2>1. \A s \in Sessions : Bound(s) # {} /\ Bound(s)' = Bound(s) =>
           Kept(s) \/ Orderly(binding[s], binding'[s])
    BY <1>1, StepsAreLawful, SameIdentifier
  <2>2. QED
    BY <2>1 DEF Kept, Orderly
<1>2. QED
  BY <1>1, Invariance, PTL DEF Spec, OneWay

------------------------------------------------------------------------------
(* The seed of a session is delivered once.                                 *)

\* Task t has won the write that marks a seed, and will put it in its answer.
Delivering(t) == Serving(t, "advertise", "answer") /\ call[t].out = "ok"
SeedOf(t) == call[t].read.session_identifier

\* The sessions whose seed is delivered or about to be.
Seeded == advertised \union {SeedOf(t) : t \in {u \in Tasks : Delivering(u)}}

\* They were stored once, and where they are still bound the binding says so.
SeedsAreMarked ==
    /\ Seeded \subseteq used
    /\ \A s \in Sessions : Bound(s) \intersect Seeded # {} =>
          binding[s].challenge_advertised

\* No two answers in flight deliver the same seed, and none one of an earlier
\* answer.
DeliveriesAreOwn ==
    \A t \in Tasks : Delivering(t) =>
        /\ SeedOf(t) \notin advertised
        /\ \A q \in Tasks : Delivering(q) /\ SeedOf(q) = SeedOf(t) => q = t

\* No identifier is bound to two sessions.
IdentifiersAreOwn ==
    \A s, q \in Sessions : Bound(s) \intersect Bound(q) # {} => s = q

SeedInv == SeedsAreMarked /\ DeliveriesAreOwn /\ IdentifiersAreOwn

\* A step that makes no delivery.
NoDelivery ==
    /\ advertised' = advertised
    /\ \A t \in Tasks : Delivering(t)' =>
          Delivering(t) /\ SeedOf(t)' = SeedOf(t)

\* A call that moves to anything but the answer of a marked seed delivers none.
LEMMA MovesDeliverNothing ==
    ASSUME IInv, NEW t \in Tasks, NEW c, Goes(t, c), advertised' = advertised,
           \/ c = Absent
           \/ c.op # "advertise" \/ c.pc # "answer" \/ c.out # "ok"
    PROVE  NoDelivery
<1>1. /\ call'[t] = c
      /\ \A q \in Tasks \ {t} : call'[q] = call[q]
  BY DEF Goes, IInv, Types, TypeOK
<1>2. ~ Delivering(t)'
  BY <1>1 DEF Delivering, Serving
<1>3. \A q \in Tasks \ {t} :
         (Delivering(q)' <=> Delivering(q)) /\ SeedOf(q)' = SeedOf(q)
  BY <1>1 DEF Delivering, Serving, SeedOf
<1>4. QED
  BY <1>2, <1>3 DEF NoDelivery

\* Only the answers themselves and the write of
\* advertise_refresh_challenge() do.
LEMMA StepsDeliverNothing ==
    ASSUME IInv, [Next]_vars,
           \A t \in Tasks : ~ advertise_replace(t) /\ ~ answer(t)
    PROVE  NoDelivery
<1>1. ASSUME NEW t \in Tasks, Request(t)
      PROVE  NoDelivery
  <2>1. PICK op, pc, s, u, jwt, id, record :
           Begin(t, op, pc, s, u, jwt, id, record) /\ pc # "answer"
    BY <1>1
    DEF Request, build_registration_header_response, register,
        issue_refresh_challenge, refresh, get_binding, revoke
  <2>2. PICK c : Goes(t, c) /\ c.pc # "answer" /\ advertised' = advertised
    BY <2>1 DEF Begin, history
  <2>3. QED
    BY <2>2, MovesDeliverNothing
<1>2. ASSUME NEW t \in Tasks, Step(t) \/ abandon(t)
      PROVE  NoDelivery
  <2>1. CASE abandon(t)
    BY <2>1, MovesDeliverNothing DEF abandon, history
  <2>2. CASE ~ abandon(t)
    <3>1. call[t] # Absent /\ call[t] \in Calls
      BY <1>2, <2>2, SMTT(30)
      DEF Step, Works, get, offer_check, offer_put, register_check,
          register_commit, register_loses, issue_check, issue_replace,
          issue_loses, refresh_check, refresh_replace,
          refresh_loses, get_binding_returns, advertise_check,
          advertise_replace, advertise_loses, replace_raises, revoke_delete,
          answer, Serving, IInv, Types, TypeOK
    <3>2. /\ advertised' = advertised
          /\ \/ \E out : Ends(t, out) /\ (call[t].op # "advertise" \/ out # "ok")
             \/ \E r : Goes(t, [call[t] EXCEPT !.pc = "check", !.read = r])
             \/ Goes(t, [call[t] EXCEPT !.pc = "write"])
             \/ \E n, at : Goes(t, [call[t] EXCEPT !.pc = "write", !.nonce = n,
                                                   !.at = at])
             \/ \E a : Goes(t, [call[t] EXCEPT !.pc = "get", !.attempt = a,
                                               !.read = Absent,
                                               !.nonce = NoNonce, !.at = 0])
      <4> USE DEF Stop, Serving, history
      <4>1. CASE get(t) \/ offer_check(t) \/ offer_put(t)
        BY <4>1 DEF get, offer_check, offer_put, Mint
      <4>2. CASE register_check(t) \/ register_commit(t) \/ register_loses(t)
        BY <4>2 DEF register_check, register_commit, register_loses, Mint
      <4>3. CASE issue_check(t) \/ issue_replace(t)
        BY <4>3 DEF issue_check, issue_replace, Mint
      <4>4. CASE issue_loses(t) \/ refresh_loses(t)
        BY <4>4 DEF issue_loses, refresh_loses, Again
      <4>5. CASE refresh_check(t) \/ refresh_replace(t)
        BY <4>5 DEF refresh_check, refresh_replace, Mint
      <4>6. CASE \/ get_binding_returns(t) \/ advertise_check(t)
                 \/ advertise_loses(t)
                 \/ \E op \in {"issue", "refresh", "advertise"} :
                       replace_raises(t, op)
        <5>1. /\ advertised' = advertised
              /\ \/ Ends(t, "unchanged") \/ Ends(t, "CorruptStateError")
                 \/ Goes(t, [call[t] EXCEPT !.pc = "write"])
          BY <4>6 DEF get_binding_returns, advertise_check, advertise_loses,
                      replace_raises
        <5>2. \/ \E out : Ends(t, out) /\ out # "ok"
              \/ Goes(t, [call[t] EXCEPT !.pc = "write"])
          <6>1. CASE Ends(t, "unchanged") \/ Ends(t, "CorruptStateError")
            BY <6>1
          <6>2. QED
            BY <5>1, <6>1
        <5>3. QED
          BY <5>1, <5>2, Zenon
      <4>7. CASE revoke_delete(t)
        <5>1. /\ advertised' = advertised /\ call[t].op = "revoke"
              /\ Ends(t, "ok") \/ Ends(t, "unchanged")
          BY <4>7 DEF revoke_delete
        <5>2. QED
          BY <5>1
      <4>8. QED
        BY <1>2, <2>2, <4>1, <4>2, <4>3, <4>4, <4>5, <4>6, <4>7
        DEF Step, Works
    <3>3. PICK c : /\ Goes(t, c)
                   /\ c.op # "advertise" \/ c.pc # "answer" \/ c.out # "ok"
      <4>1. ASSUME NEW out, Ends(t, out), call[t].op # "advertise" \/ out # "ok"
            PROVE  \E c : /\ Goes(t, c)
                          /\ c.op # "advertise" \/ c.out # "ok"
        <5>1. PICK c : c = [call[t] EXCEPT !.pc = "answer", !.out = out,
                              !.jwt = NoJwt, !.id = NoNonce, !.at = 0]
          OBVIOUS
        <5>2. Goes(t, c) /\ c.op = call[t].op /\ c.out = out
          BY <3>1, <4>1, <5>1 DEF Ends, Calls
        <5>3. QED
          BY <4>1, <5>2
      <4>2. \A r, n, at, a :
               /\ [call[t] EXCEPT !.pc = "check", !.read = r].pc = "check"
               /\ [call[t] EXCEPT !.pc = "write"].pc = "write"
               /\ [call[t] EXCEPT !.pc = "write", !.nonce = n,
                                  !.at = at].pc = "write"
               /\ [call[t] EXCEPT !.pc = "get", !.attempt = a, !.read = Absent,
                                  !.nonce = NoNonce, !.at = 0].pc = "get"
        BY <3>1 DEF Calls
      <4>3. QED
        BY <3>2, <4>1, <4>2
    <3>4. QED
      BY <3>2, <3>3, MovesDeliverNothing
  <2>3. QED
    BY <2>1, <2>2
<1>3. CASE Tick \/ Disturb \/ UNCHANGED vars
  <2>1. call' = call /\ advertised' = advertised
    BY <1>3 DEF Tick, Disturb, vars, history
  <2>2. QED
    BY <2>1 DEF NoDelivery, Delivering, Serving, SeedOf
<1>4. QED
  BY <1>1, <1>2, <1>3 DEF Next

\* The binding of s keeps its identifier and its mark, or is gone, or carries an
\* identifier that was never stored.
Carried(s) ==
    Bound(s)' # {} =>
        /\ Bound(s)' = Bound(s)
        /\ binding[s].challenge_advertised => binding'[s].challenge_advertised
Renamed(s) == Bound(s)' \intersect used = {}

\* No step does anything else, and none renames two sessions.
LEMMA IdentifiersAreCarried ==
    ASSUME IInv, [Next]_vars
    PROVE  /\ \A s \in Sessions : Carried(s) \/ Renamed(s)
           /\ \A s, q \in Sessions : s = q \/ Carried(s) \/ Carried(q)
<1>1. ASSUME NEW s \in Sessions, Kept(s) \/ Gone(s) \/ Updated(s)
      PROVE  Carried(s)
  <2>1. CASE Kept(s)
    BY <2>1 DEF Kept, Carried, Bound
  <2>2. CASE Gone(s)
    BY <2>2 DEF Gone, Carried, Bound, IsRecord
  <2>3. CASE Updated(s)
    <3>1. Orderly(binding[s], binding'[s])
      BY <2>3, UpdatesAreOrderly
    <3>2. QED
      BY <3>1, RecordsAreRecords DEF Orderly, Carried, Bound
  <2>4. QED
    BY <1>1, <2>1, <2>2, <2>3
<1>2. ASSUME NEW s \in Sessions, Registered(s)
      PROVE  Renamed(s)
  BY <1>2 DEF Registered, Renamed, Bound
<1>3. ASSUME NEW s \in Sessions, NEW q \in Sessions, s # q,
             ~ Carried(s), ~ Carried(q)
      PROVE  FALSE
  <2>1. Registered(s) /\ ~ Kept(s) /\ Registered(q) /\ ~ Kept(q)
    BY <1>1, <1>3, StepsAreLawful DEF Lawful
  <2>2. \E g \in registered' : g \notin registered
    BY <2>1 DEF Registered
  <2>3. PICK t \in Tasks : register_commit(t)
    <3>1. ASSUME NEW t \in Tasks, Request(t) \/ QuietStep(t) PROVE FALSE
      <4>1. Still
        BY <3>1, RequestKeeps, QuietStepKeeps
      <4>2. QED
        BY <2>2, <4>1 DEF Still, history
    <3>2. QED
      BY <2>2, <3>1
      DEF Next, Step, Works, QuietStep, offer_put, issue_replace,
          refresh_replace, advertise_replace, revoke_delete, answer, Tick,
          Disturb, vars, history
  <2>4. \E x, b : binding' = [binding EXCEPT ![x] = b]
    BY <2>3 DEF register_commit, commit_registration
  <2>5. QED
    BY <1>3, <2>1, <2>4 DEF Kept, IInv, Types, TypeOK
<1>4. QED
  BY <1>1, <1>2, <1>3, StepsAreLawful DEF Lawful

\* So identifiers stay apart, and a binding that is marked stays marked.
LEMMA IdentifiersStayOwn ==
    ASSUME IInv, SeedInv, [Next]_vars
    PROVE  /\ IdentifiersAreOwn'
           /\ \A s \in Sessions : Bound(s)' \intersect Seeded # {} =>
                 binding'[s].challenge_advertised
<1>1. \A s \in Sessions : Bound(s) \subseteq used
  BY StoredTokensAreUsed DEF Bound
<1>2. \A s \in Sessions : Carried(s) => Bound(s)' \subseteq Bound(s)
  BY DEF Carried
<1>3. IdentifiersAreOwn'
  BY <1>1, <1>2, IdentifiersAreCarried DEF IdentifiersAreOwn, SeedInv, Renamed
<1>4. ASSUME NEW s \in Sessions, Bound(s)' \intersect Seeded # {}
      PROVE  binding'[s].challenge_advertised
  <2>1. ~ Renamed(s)
    BY <1>4 DEF Renamed, SeedInv, SeedsAreMarked
  <2>2. Carried(s)
    BY <2>1, IdentifiersAreCarried
  <2>3. QED
    BY <1>4, <2>2 DEF Carried, SeedInv, SeedsAreMarked
<1>5. QED
  BY <1>3, <1>4

\* The write that marks a seed: nobody has delivered it yet.
LEMMA AdvertiseReplaceDelivers ==
    ASSUME IInv, SeedInv, NEW t \in Tasks, advertise_replace(t)
    PROVE  SeedsAreMarked' /\ DeliveriesAreOwn'
<1>0. PICK x, b, n :
         x = call[t].session /\ b = call[t].read /\ n = b.session_identifier
  OBVIOUS
<1>1. /\ Writing(t) /\ call[t] \in Calls /\ call[t].op = "advertise"
      /\ binding[x] = b
      /\ binding' = [binding EXCEPT ![x] = mark_challenge_advertised(b)]
      /\ Ends(t, "ok") /\ minted' = minted /\ advertised' = advertised
  BY <1>0
  DEF advertise_replace, Serving, Writing, replace_binding, history, IInv,
      Types, TypeOK
<1>2. x \in Sessions /\ b \in Binding /\ ~ b.challenge_advertised
  BY <1>0, <1>1
  DEF IInv, WritesAreJustified, Justified, worth_advertising, Calls
<1>3. Bound(x) = {n} /\ n \in used /\ n \notin Seeded
  <2>1. Bound(x) = {n}
    BY <1>0, <1>1, <1>2, RecordsAreRecords DEF Bound
  <2>2. n \in used
    BY <1>0, <1>1, <1>2, StoredTokensAreUsed, RecordsAreRecords
  <2>3. QED
    BY <1>1, <1>2, <2>1, <2>2 DEF SeedInv, SeedsAreMarked
<1>4. /\ call'[t].read = b /\ ~ Delivering(t)
      /\ \A q \in Tasks \ {t} : call'[q] = call[q]
  BY <1>0, <1>1 DEF Ends, Goes, Calls, IInv, Types, TypeOK, Delivering, Serving,
                    Writing
<1>5. /\ SeedOf(t)' = n
      /\ \A q \in Tasks \ {t} :
            (Delivering(q)' <=> Delivering(q)) /\ SeedOf(q)' = SeedOf(q)
  BY <1>0, <1>4 DEF Delivering, Serving, SeedOf
<1>6. Seeded' \subseteq Seeded \union {n} /\ used' = used
  BY <1>1, <1>5 DEF Seeded, used
<1>7. DeliveriesAreOwn'
  <2>1. \A q \in Tasks : Delivering(q) => SeedOf(q) # n
    BY <1>3 DEF Seeded
  <2>2. n \notin advertised
    BY <1>3 DEF Seeded
  <2>3. QED
    BY <1>1, <1>5, <2>1, <2>2 DEF DeliveriesAreOwn, SeedInv
<1>8. ASSUME NEW s \in Sessions, Bound(s)' \intersect Seeded' # {}
      PROVE  binding'[s].challenge_advertised
  <2>1. CASE s = x
    <3>1. binding'[s] = mark_challenge_advertised(b)
      BY <1>1, <1>2, <2>1 DEF IInv, Types, TypeOK
    <3>2. QED
      BY <1>2, <3>1 DEF mark_challenge_advertised, Binding
  <2>2. CASE s # x
    <3>1. binding'[s] = binding[s] /\ Bound(s)' = Bound(s)
      BY <1>1, <1>2, <2>2 DEF IInv, Types, TypeOK, Bound
    <3>2. n \notin Bound(s)
      BY <1>2, <1>3, <2>2 DEF SeedInv, IdentifiersAreOwn
    <3>3. QED
      BY <1>6, <1>8, <3>1, <3>2 DEF SeedInv, SeedsAreMarked
  <2>3. QED
    BY <2>1, <2>2
<1>9. QED
  BY <1>3, <1>6, <1>7, <1>8 DEF SeedInv, SeedsAreMarked

\* The invariant holds.
LEMMA SeedNext == IInv /\ SeedInv /\ [Next]_vars => SeedInv'
<1> SUFFICES ASSUME IInv, SeedInv, [Next]_vars PROVE SeedInv'
  OBVIOUS
<1>1. /\ IdentifiersAreOwn'
      /\ \A s \in Sessions : Bound(s)' \intersect Seeded # {} =>
            binding'[s].challenge_advertised
  BY IdentifiersStayOwn
<1>2. used \subseteq used'
  BY HistoryGrows
<1>3. ASSUME NEW t \in Tasks, advertise_replace(t)
      PROVE  SeedsAreMarked' /\ DeliveriesAreOwn'
  BY <1>3, AdvertiseReplaceDelivers
<1>4. ASSUME NEW t \in Tasks, answer(t)
      PROVE  SeedsAreMarked' /\ DeliveriesAreOwn'
  <2>1. /\ call'[t] = Absent
        /\ \A q \in Tasks \ {t} : call'[q] = call[q]
        /\ advertised' = IF Delivering(t) THEN advertised \union {SeedOf(t)}
                         ELSE advertised
    BY <1>4 DEF answer, Goes, IInv, Types, TypeOK, Delivering, Serving, SeedOf
  <2>2. /\ ~ Delivering(t)'
        /\ \A q \in Tasks \ {t} :
              (Delivering(q)' <=> Delivering(q)) /\ SeedOf(q)' = SeedOf(q)
    BY <2>1 DEF Delivering, Serving, SeedOf
  <2>3. Seeded' \subseteq Seeded
    BY <2>1, <2>2 DEF Seeded
  <2>4. DeliveriesAreOwn'
    BY <2>1, <2>2 DEF DeliveriesAreOwn, SeedInv
  <2>5. QED
    BY <1>1, <1>2, <2>3, <2>4 DEF SeedInv, SeedsAreMarked
<1>5. CASE \A t \in Tasks : ~ advertise_replace(t) /\ ~ answer(t)
  <2>1. NoDelivery
    BY <1>5, StepsDeliverNothing
  <2>2. Seeded' \subseteq Seeded
    BY <2>1 DEF Seeded, NoDelivery
  <2>3. DeliveriesAreOwn'
    BY <2>1 DEF DeliveriesAreOwn, SeedInv, NoDelivery
  <2>4. QED
    BY <1>1, <1>2, <2>2, <2>3 DEF SeedInv, SeedsAreMarked
<1>6. QED
  BY <1>1, <1>3, <1>4, <1>5 DEF SeedInv

\* advertise_refresh_challenge() delivers the seed of a session at most once:
\* of all the page loads that found it unmarked, the conditional write lets one
\* through, and neither a rotation nor a refresh takes the mark back.
THEOREM SeedsAreDeliveredOnce == Spec => SeedDeliveredOnce
<1>1. Init => SeedInv
  <2> SUFFICES ASSUME Init PROVE SeedInv
    OBVIOUS
  <2>1. /\ Seeded = {} /\ \A t \in Tasks : ~ Delivering(t)
        /\ \A s \in Sessions : Bound(s) = {}
    BY DEF Init, Init_store, Seeded, Delivering, Serving, Bound, IsRecord
  <2>2. QED
    BY <2>1 DEF SeedInv, SeedsAreMarked, DeliveriesAreOwn, IdentifiersAreOwn
<1>2. SeedInv /\ [Next]_vars =>
         [\A t \in Tasks :
             Serving(t, "advertise", "answer") /\ call[t].out = "ok"
                /\ call'[t] = Absent
             => call[t].read.session_identifier \notin advertised]_vars
  BY DEF SeedInv, DeliveriesAreOwn, Delivering, SeedOf
<1>3. QED
  BY <1>1, <1>2, SeedNext, Invariance, PTL DEF Spec, SeedDeliveredOnce

------------------------------------------------------------------------------
(* What the calls in flight know of the bindings they read.                 *)

\* The binding b says when its session was really registered.
Recorded(b) ==
    \E g \in registered : g.sid = b.session_identifier /\ g.at = b.created_at

\* The times in a binding are the true ones, and in their order.
Sound(b) ==
    /\ Dated(b) /\ Recorded(b)
    /\ b.created_at <= b.cookie_issued_at
    /\ b.created_at <= now

\* They are in the store and in the hands of every call, however old the
\* binding is that a call holds, and a rotation comes after the registration.
ReadsAreSound ==
    \A t \in Tasks : call[t] # Absent /\ call[t].op # "register"
                        /\ call[t].read \in Binding
        => /\ Sound(call[t].read)
           /\ call[t].op = "refresh" /\ call[t].pc = "write" =>
                 call[t].read.created_at <= call[t].at

\* No token is stored at two times.
MintedOnce == \A m, k \in minted : m.nonce = k.nonce => m = k

RInv ==
    /\ \A s \in Sessions : IsRecord(binding[s]) => Sound(binding[s])
    /\ ReadsAreSound
    /\ MintedOnce

\* The cookie of a stored binding was issued when its session was registered or
\* later, though the clock is read before the write and a refresh may hold a
\* binding that others have rotated meanwhile.
CookiesFollow ==
    \A s \in Sessions : IsRecord(binding[s]) =>
        binding[s].created_at <= binding[s].cookie_issued_at

\* A request arrives, and reads a record.
Asked(t) ==
    /\ call[t] = Absent
    /\ call'[t].pc = "write" => call'[t].op = "revoke"
    /\ call'[t].op # "register" =>
          \/ call'[t].read = Absent
          \/ \E s \in Sessions : call'[t].read = binding[s]

\* A call goes on, with what it read or with what it reads now.
Moved(t) ==
    /\ call[t] # Absent /\ call'[t].op = call[t].op
    /\ \/ /\ call'[t].read = call[t].read
          /\ call'[t].pc = "write" /\ call[t].op # "advertise" =>
                call'[t].at = now
       \/ /\ call'[t].pc # "write"
          /\ \/ call'[t].read = Absent
             \/ \E s \in Sessions : call'[t].read = binding[s]

\* What one step does to the call of one task.
LEMMA CallChanges ==
    ASSUME IInv, [Next]_vars, NEW t \in Tasks, call'[t] # Absent
    PROVE  call'[t] = call[t] \/ Asked(t) \/ Moved(t)
<1>0. call \in [Tasks -> Calls \union {Absent}]
  BY DEF IInv, Types, TypeOK
<1>1. ASSUME NEW u \in Tasks, Request(u)
      PROVE  call'[t] = call[t] \/ Asked(t)
  <2>1. PICK op, pc, s, user, jwt, id, record :
           /\ Begin(u, op, pc, s, user, jwt, id, record)
           /\ pc = "write" => op = "revoke"
           /\ op # "register" =>
                 \/ record = Absent
                 \/ \E q \in Sessions : record = binding[q]
    BY <1>1
    DEF Request, build_registration_header_response, register,
        issue_refresh_challenge, refresh, get_binding, revoke
  <2>2. CASE u = t
    BY <1>0, <2>1, <2>2 DEF Begin, Goes, Asked
  <2>3. CASE u # t
    BY <1>0, <2>1, <2>3 DEF Begin, Goes
  <2>4. QED
    BY <2>2, <2>3
<1>2. ASSUME NEW u \in Tasks, Step(u) \/ abandon(u)
      PROVE  call'[t] = call[t] \/ Moved(t)
  <2>1. PICK c : c = call[u]
    OBVIOUS
  <2>2. /\ c # Absent
        /\ \/ Goes(u, Absent)
           \/ \E out : Ends(u, out)
           \/ \E n : Goes(u, [c EXCEPT !.pc = "write", !.nonce = n, !.at = now])
           \/ /\ c.op = "advertise"
              /\ Goes(u, [c EXCEPT !.pc = "write"])
           \/ Goes(u, [c EXCEPT !.pc = "check", !.read = binding[c.session]])
           \/ Goes(u, [c EXCEPT !.pc = "get", !.attempt = c.attempt + 1,
                                !.read = Absent, !.nonce = NoNonce, !.at = 0])
    <3>1. CASE Works(u)
      BY <2>1, <3>1, WorkMoves
    <3>2. CASE get_binding_returns(u) \/ advertise_check(u)
      BY <2>1, <3>2 DEF get_binding_returns, advertise_check, Stop, Serving
    <3>3. CASE answer(u) \/ abandon(u)
      BY <2>1, <3>3 DEF answer, abandon
    <3>4. QED
      BY <1>2, <3>1, <3>2, <3>3 DEF Step
  <2>3. CASE u # t
    BY <1>0, <2>2, <2>3 DEF Goes, Ends
  <2>4. CASE u = t
    <3>1. c \in Calls /\ c.session \in Sessions
      BY <1>0, <2>1, <2>2 DEF Calls
    <3>2. CASE \E out : Ends(u, out)
      <4>1. PICK out, d :
               /\ d = [c EXCEPT !.pc = "answer", !.out = out, !.jwt = NoJwt,
                                !.id = NoNonce, !.at = 0]
               /\ call' = [call EXCEPT ![t] = d]
        BY <2>1, <2>4, <3>2 DEF Ends, Goes
      <4>2. d.op = c.op /\ d.read = c.read /\ d.pc = "answer"
        BY <3>1, <4>1 DEF Calls
      <4>3. QED
        BY <1>0, <2>1, <2>2, <2>4, <4>1, <4>2 DEF Moved
    <3>3. CASE \E n : Goes(u, [c EXCEPT !.pc = "write", !.nonce = n, !.at = now])
      <4>1. PICK n, d :
               /\ d = [c EXCEPT !.pc = "write", !.nonce = n, !.at = now]
               /\ call' = [call EXCEPT ![t] = d]
        BY <2>4, <3>3 DEF Goes
      <4>2. d.op = c.op /\ d.read = c.read /\ d.at = now
        BY <3>1, <4>1 DEF Calls
      <4>3. QED
        BY <1>0, <2>1, <2>2, <2>4, <4>1, <4>2 DEF Moved
    <3>4. CASE /\ c.op = "advertise"
               /\ Goes(u, [c EXCEPT !.pc = "write"])
      BY <1>0, <2>1, <2>2, <2>4, <3>1, <3>4 DEF Goes, Moved, Calls
    <3>5. CASE Goes(u, [c EXCEPT !.pc = "check", !.read = binding[c.session]])
      BY <1>0, <2>1, <2>2, <2>4, <3>1, <3>5 DEF Goes, Moved, Calls
    <3>6. CASE Goes(u, [c EXCEPT !.pc = "get", !.attempt = c.attempt + 1,
                                 !.read = Absent, !.nonce = NoNonce, !.at = 0])
      BY <1>0, <2>1, <2>2, <2>4, <3>1, <3>6 DEF Goes, Moved, Calls
    <3>7. CASE Goes(u, Absent)
      BY <1>0, <2>4, <3>7 DEF Goes
    <3>8. QED
      BY <2>2, <3>2, <3>3, <3>4, <3>5, <3>6, <3>7
  <2>5. QED
    BY <2>3, <2>4
<1>3. CASE Tick \/ Disturb \/ UNCHANGED vars
  BY <1>3 DEF Tick, Disturb, vars
<1>4. QED
  BY <1>1, <1>2, <1>3 DEF Next

\* The clock never goes back.
LEMMA TimeGrows ==
    ASSUME IInv, [Next]_vars
    PROVE  now \in Nat /\ now' \in Nat /\ now <= now'
<1>1. IInv'
  BY NextGood
<1>2. now' \in {now, now + 1}
  <2>1. ASSUME NEW t \in Tasks, Request(t) \/ Step(t) \/ abandon(t)
        PROVE  now' = now
    <3>1. CASE Request(t) \/ QuietStep(t)
      BY <3>1, RequestKeeps, QuietStepKeeps DEF Still
    <3>2. CASE \/ offer_put(t) \/ register_commit(t) \/ issue_replace(t)
               \/ refresh_replace(t) \/ advertise_replace(t)
               \/ revoke_delete(t) \/ answer(t)
      BY <3>2 DEF offer_put, register_commit, issue_replace, refresh_replace,
                  advertise_replace, revoke_delete, answer
    <3>3. QED
      BY <2>1, <3>1, <3>2 DEF Step, Works, QuietStep
  <2>2. QED
    BY <2>1 DEF Next, Tick, Disturb, vars
<1>3. QED
  BY <1>1, <1>2 DEF IInv, Types, TypeOK

\* Time goes on, and what was true of a binding stays true.
LEMMA StaysSound ==
    ASSUME IInv, [Next]_vars, NEW b \in Binding, Sound(b)
    PROVE  Sound(b)'
<1>1. now \in Nat /\ now' \in Nat /\ now <= now'
  BY TimeGrows
<1>2. Dated(b)' /\ Recorded(b)'
  BY HistoryGrows DEF Sound, Dated, Recorded
<1>3. b.created_at \in Nat
  BY DEF Binding
<1>4. QED
  BY <1>1, <1>2, <1>3 DEF Sound

\* A token that a step stores is new.
LEMMA StaysMintedOnce ==
    ASSUME IInv, MintedOnce, [Next]_vars
    PROVE  MintedOnce'
<1>1. ASSUME NEW t \in Tasks, \/ offer_put(t) \/ register_commit(t)
                              \/ issue_replace(t) \/ refresh_replace(t)
      PROVE  MintedOnce'
  <2>1. /\ Writing(t) /\ call[t].op \in Minting
        /\ minted' = minted \union {[nonce |-> call[t].nonce, at |-> call[t].at]}
    BY <1>1 DEF offer_put, register_commit, issue_replace, refresh_replace,
                Serving, Writing, Minting
  <2>2. call[t].nonce \notin used
    BY <2>1, TokenStored
  <2>3. QED
    BY <2>1, <2>2 DEF MintedOnce, used
<1>2. ASSUME minted' = minted PROVE MintedOnce'
  BY <1>2 DEF MintedOnce
<1>3. ASSUME NEW t \in Tasks, \/ advertise_replace(t) \/ revoke_delete(t)
                              \/ answer(t)
      PROVE  minted' = minted
  BY <1>3 DEF advertise_replace, revoke_delete, answer
<1>4. ASSUME NEW t \in Tasks, Request(t) \/ QuietStep(t)
      PROVE  minted' = minted
  BY <1>4, RequestKeeps, QuietStepKeeps DEF Still
<1>5. QED
  BY <1>1, <1>2, <1>3, <1>4
  DEF Next, Step, Works, QuietStep, Tick, Disturb, vars

\* The invariant holds.
LEMMA ReadsNext == IInv /\ RInv /\ [Next]_vars => RInv'
<1> SUFFICES ASSUME IInv, RInv, [Next]_vars PROVE RInv'
  OBVIOUS
<1>0. IInv' /\ now \in Nat /\ now' \in Nat
  BY NextGood DEF IInv, Types, TypeOK
<1>1. ASSUME NEW s \in Sessions, IsRecord(binding[s])
      PROVE  binding[s] \in Binding /\ Sound(binding[s])
  BY <1>1 DEF RInv, IInv, Types, TypeOK, IsRecord
<1>2. ASSUME NEW s \in Sessions, IsRecord(binding'[s])
      PROVE  Sound(binding[s])'
  <2>0. PICK b, c : b = binding[s] /\ c = binding'[s]
    OBVIOUS
  <2>1. Dated(c)'
    BY <1>0, <1>2, <2>0 DEF IInv, TimesTrue
  <2>2. CASE Kept(s)
    BY <1>1, <1>2, <2>0, <2>2, StaysSound DEF Kept
  <2>3. CASE Gone(s)
    BY <1>2, <2>3 DEF Gone, IsRecord
  <2>4. CASE Registered(s)
    <3>1. PICK g \in registered' :
             /\ c.session_identifier = g.sid /\ c.created_at = g.at
             /\ c.cookie_issued_at = g.at /\ g.at <= now
      BY <2>0, <2>4 DEF Registered
    <3>2. c \in Binding /\ c.created_at \in Nat
      BY <2>0, <2>4 DEF Registered, Binding
    <3>3. c.created_at <= now'
      BY <1>0, <2>4, <3>1, <3>2, TimeGrows
    <3>4. QED
      BY <2>0, <2>1, <3>1, <3>2, <3>3 DEF Sound, Recorded
  <2>5. CASE Updated(s)
    <3>1. Orderly(b, c) /\ b \in Binding /\ c \in Binding
      BY <2>0, <2>5, UpdatesAreOrderly DEF Orderly
    <3>2. Sound(b) /\ Sound(b)'
      BY <1>1, <2>0, <3>1, RecordsAreRecords, StaysSound
    <3>3. Recorded(c)' /\ c.created_at <= now'
      BY <3>1, <3>2 DEF Orderly, Sound, Recorded
    <3>4. c.created_at <= c.cookie_issued_at
      <4>1. CASE c = mark_challenge_advertised(b)
        BY <3>1, <3>2, <4>1, MarkAdvertised DEF Sound
      <4>2. ASSUME NEW n \in Nonces, NEW at \in Nat, c = with_challenge(b, n, at)
            PROVE  c.created_at <= c.cookie_issued_at
        BY <3>1, <3>2, <4>2, WithChallenge DEF Sound
      <4>3. ASSUME NEW n \in Nonces, NEW at \in Nat, NEW t \in Tasks,
                   c = with_rotated_cookie_and_challenge(b, n, at),
                   Serving(t, "refresh", "write"), call[t].read = b,
                   call[t].at = at
            PROVE  c.created_at <= c.cookie_issued_at
        <5>1. b.created_at <= at
          BY <3>1, <4>3 DEF RInv, ReadsAreSound, Serving
        <5>2. QED
          BY <3>1, <4>3, <5>1, WithRotated
      <4>4. QED
        BY <2>0, <2>5, <4>1, <4>2, <4>3 DEF Updated
    <3>5. QED
      BY <2>0, <2>1, <3>3, <3>4 DEF Sound
  <2>6. QED
    BY <2>2, <2>3, <2>4, <2>5, StepsAreLawful DEF Lawful
<1>3. ASSUME NEW t \in Tasks, call'[t] # Absent, call'[t].op # "register",
             call'[t].read \in Binding
      PROVE  /\ Sound(call[t].read)'
             /\ call'[t].op = "refresh" /\ call'[t].pc = "write" =>
                   call'[t].read.created_at <= call'[t].at
  <2>1. PICK b : b = call'[t].read
    OBVIOUS
  <2>2. b # Absent /\ b \in Binding /\ IsRecord(b)
    BY <1>3, <2>1, RecordsAreRecords DEF IsRecord
  <2>3. \/ call[t] # Absent /\ call[t].op = call'[t].op /\ call[t].read = b
        \/ \E s \in Sessions : b = binding[s]
    BY <1>3, <2>1, <2>2, CallChanges DEF Asked, Moved
  <2>4. Sound(b)
    BY <1>1, <1>3, <2>2, <2>3 DEF RInv, ReadsAreSound
  <2>5. Sound(b)'
    BY <2>2, <2>4, StaysSound
  <2>6. ASSUME call'[t].op = "refresh", call'[t].pc = "write"
        PROVE  b.created_at <= call'[t].at
    BY <1>3, <2>1, <2>2, <2>4, <2>6, CallChanges
    DEF Asked, Moved, RInv, ReadsAreSound, Sound
  <2>7. QED
    BY <2>1, <2>5, <2>6
<1>4. QED
  BY <1>2, <1>3, StaysMintedOnce DEF RInv, ReadsAreSound

\* The invariant holds.
LEMMA ReadsInvariance == Spec => []RInv
<1>1. Init => RInv
  BY DEF Init, Init_store, RInv, ReadsAreSound, MintedOnce, IsRecord
<1>2. QED
  BY <1>1, ReadsNext, Invariance, PTL DEF Spec

\* No cookie of a stored binding is older than the registration: it is what
\* from_json asks of a record that is read back, so a decoder never refuses what
\* DbscServer has written.
THEOREM CookiesFollowTheirBinding == Spec => []CookiesFollow
<1>1. RInv => CookiesFollow
  BY DEF RInv, Sound, CookiesFollow
<1>2. QED
  BY <1>1, ReadsInvariance, PTL

\* The locals of a call that ends: its argument, its record and its token stay.
LEMMA EndsFields ==
    ASSUME IInv, NEW t \in Tasks, call[t] # Absent, NEW out, Ends(t, out)
    PROVE  /\ call'[t].pc = "answer" /\ call'[t].out = out
           /\ call'[t].op = call[t].op /\ call'[t].session = call[t].session
           /\ call'[t].user = call[t].user /\ call'[t].read = call[t].read
           /\ call'[t].nonce = call[t].nonce
           /\ call'[t].attempt = call[t].attempt
           /\ \A u \in Tasks \ {t} : call'[u] = call[u]
<1>1. call \in [Tasks -> Calls \union {Absent}] /\ call[t] \in Calls
  BY DEF IInv, Types, TypeOK
<1>2. PICK c, d : /\ c = call[t]
                  /\ d = [c EXCEPT !.pc = "answer", !.out = out, !.jwt = NoJwt,
                                   !.id = NoNonce, !.at = 0]
                  /\ call' = [call EXCEPT ![t] = d]
  BY DEF Ends, Goes
<1>3. /\ d.pc = "answer" /\ d.out = out /\ d.op = c.op /\ d.session = c.session
      /\ d.user = c.user /\ d.read = c.read /\ d.nonce = c.nonce
      /\ d.attempt = c.attempt
  BY <1>1, <1>2 DEF Calls
<1>4. QED
  BY <1>1, <1>2, <1>3

\* What an answer gives out: an offer is always made, and what a call that
\* succeeded returns is stored.
Told(c) ==
    c.pc = "answer" =>
        /\ c.op = "offer" => c.out = "ok"
        /\ c.out = "ok" /\ c.op \in Minting => c.nonce \in used
        /\ c.out = "ok" /\ c.op = "register" =>
              \E g \in registered : g.sid = c.nonce
        /\ c.out = "ok" /\ c.op \in {"issue", "refresh", "advertise"} =>
              c.read \in Binding

AnswersTold == \A t \in Tasks : call[t] # Absent => Told(call[t])

\* The steps in which a call comes to an answer.
LEMMA AnswersCome ==
    ASSUME IInv, [Next]_vars, NEW t \in Tasks, call'[t] # Absent,
           call'[t].pc = "answer", call'[t] # call[t]
    PROVE  /\ call[t] # Absent /\ call'[t].op = call[t].op
           /\ call'[t].read = call[t].read /\ call'[t].nonce = call[t].nonce
           /\ \/ call'[t].out # "ok" /\ call'[t].op # "offer"
              \/ call'[t].out = "ok" /\ offer_put(t)
              \/ call'[t].out = "ok" /\ register_commit(t)
              \/ call'[t].out = "ok" /\ issue_replace(t)
              \/ call'[t].out = "ok" /\ refresh_replace(t)
              \/ call'[t].out = "ok" /\ advertise_replace(t)
              \/ revoke_delete(t)
<1>0. call \in [Tasks -> Calls \union {Absent}]
  BY DEF IInv, Types, TypeOK
<1>1. ~ Tick /\ ~ Disturb /\ ~ UNCHANGED vars
  BY DEF Tick, Disturb, vars
<1>2. ASSUME NEW u \in Tasks, Request(u) PROVE FALSE
  <2>1. PICK op, pc, s, user, jwt, id, record :
           Begin(u, op, pc, s, user, jwt, id, record) /\ pc # "answer"
    BY <1>2
    DEF Request, build_registration_header_response, register,
        issue_refresh_challenge, refresh, get_binding, revoke
  <2>2. QED
    BY <1>0, <2>1 DEF Begin, Goes
<1>3. ASSUME NEW u \in Tasks, answer(u) \/ abandon(u) PROVE FALSE
  BY <1>0, <1>3 DEF answer, abandon, Goes
<1>4. ASSUME NEW u \in Tasks, Works(u)
      PROVE  u = t /\ call[t] # Absent /\ \E out \in Outcomes : Ends(t, out)
  <2>1. PICK c : c = call[u]
    BY Zenon
  <2>2. c \in Calls /\ c # Absent /\ \E d : Goes(u, d)
    BY <1>4, <2>1, WorkMoves DEF Ends
  <2>3. u = t
    BY <1>0, <2>2 DEF Goes
  <2>4. ~ \E n \in Fresh \intersect Nat :
             Goes(u, [c EXCEPT !.pc = "write", !.nonce = n, !.at = now])
    BY <1>0, <2>2, <2>3 DEF Goes, Calls
  <2>5. ~ Goes(u, [c EXCEPT !.pc = "check", !.read = binding[c.session]])
    BY <1>0, <2>2, <2>3 DEF Goes, Calls
  <2>6. ~ Goes(u, [c EXCEPT !.pc = "get", !.attempt = c.attempt + 1,
                            !.read = Absent, !.nonce = NoNonce, !.at = 0])
    BY <1>0, <2>2, <2>3, ZenonT(60) DEF Goes, Calls
  <2>7. \E out \in Outcomes : Ends(u, out)
    BY <1>4, <2>1, <2>4, <2>5, <2>6, WorkMoves
  <2>8. QED
    BY <2>1, <2>2, <2>3, <2>7
<1>5. ASSUME NEW u \in Tasks, get_binding_returns(u) \/ advertise_check(u)
      PROVE  /\ u = t /\ call[t] # Absent /\ call[t].op = "advertise"
             /\ \E out \in {"unchanged", "CorruptStateError"} : Ends(t, out)
  <2>1. PICK c : c = call[u]
    OBVIOUS
  <2>2. c \in Calls /\ c # Absent /\ c.op = "advertise" /\ \E d : Goes(u, d)
    BY <1>0, <1>5, <2>1
    DEF get_binding_returns, advertise_check, Stop, Ends, Serving
  <2>3. u = t
    BY <1>0, <2>2 DEF Goes
  <2>4. ~ Goes(u, [c EXCEPT !.pc = "write"])
    BY <1>0, <2>2, <2>3 DEF Goes, Calls
  <2>5. QED
    BY <1>5, <2>1, <2>2, <2>3, <2>4
    DEF get_binding_returns, advertise_check, Stop
<1>6. PICK out : Ends(t, out) /\ call[t] # Absent
  BY <1>1, <1>2, <1>3, <1>4, <1>5 DEF Next, Step
<1>7. /\ call'[t].op = call[t].op /\ call'[t].read = call[t].read
      /\ call'[t].nonce = call[t].nonce /\ call'[t].out = out
  BY <1>6, EndsFields
<1>8. ASSUME Works(t)
      PROVE  \/ out # "ok" /\ call[t].op # "offer"
             \/ out = "ok" /\ offer_put(t)
             \/ out = "ok" /\ register_commit(t)
             \/ out = "ok" /\ issue_replace(t)
             \/ out = "ok" /\ refresh_replace(t)
             \/ out = "ok" /\ advertise_replace(t)
             \/ revoke_delete(t)
  <2>1. PICK c : c = call[t] /\ c \in Calls
    BY <1>8, WorkMoves
  <2>2. ASSUME NEW o, Ends(t, o) PROVE o = out
    BY <1>6, <1>7, <2>2, EndsFields
  <2>3. ~ Mint(t)
    <3>1. ASSUME NEW n, Goes(t, [call[t] EXCEPT !.pc = "write", !.nonce = n,
                                                !.at = now])
          PROVE  FALSE
      BY <1>0, <2>1, <3>1 DEF Goes, Calls
    <3>2. QED
      BY <3>1 DEF Mint
  <2>4. ~ get(t) /\ ~ Again(t)
    <3>1. ~ Goes(t, [c EXCEPT !.pc = "check", !.read = binding[c.session]])
      BY <1>0, <2>1 DEF Goes, Calls
    <3>2. ~ Goes(t, [c EXCEPT !.pc = "get", !.attempt = c.attempt + 1,
                              !.read = Absent, !.nonce = NoNonce, !.at = 0])
      BY <1>0, <2>1, ZenonT(60) DEF Goes, Calls
    <3>3. QED
      BY <2>1, <3>1, <3>2 DEF get, Again
  <2>6. CASE \/ register_check(t) \/ register_loses(t) \/ issue_check(t)
             \/ issue_loses(t) \/ refresh_loses(t)
             \/ advertise_loses(t)
             \/ \E op \in {"issue", "refresh", "advertise"} :
                   replace_raises(t, op)
    <3>1. call[t].op # "offer"
      BY <2>6 DEF register_check, register_loses, issue_check, issue_loses,
                  refresh_loses, advertise_loses, replace_raises,
                  Serving
    <3>2. \E o : Ends(t, o) /\ o # "ok"
      BY <2>1, <2>3, <2>4, <2>6, OutcomeTypes
      DEF register_check, register_loses, issue_check, issue_loses,
          refresh_loses, advertise_loses, replace_raises, Stop
    <3>3. QED
      BY <2>2, <3>1, <3>2
  <2>7. CASE refresh_check(t)
    <3>1. \E o : Ends(t, o) /\ o # "ok"
      BY <2>3, <2>7, OutcomeTypes DEF refresh_check, Stop
    <3>2. QED
      BY <2>2, <2>7, <3>1 DEF refresh_check, Serving
  <2>8. CASE \/ offer_put(t) \/ register_commit(t) \/ issue_replace(t)
             \/ refresh_replace(t) \/ advertise_replace(t)
    BY <2>2, <2>8 DEF offer_put, register_commit, issue_replace,
                      refresh_replace, advertise_replace
  <2>9. QED
    BY <1>8, <2>3, <2>4, <2>6, <2>7, <2>8, SMTT(30) DEF Works, offer_check
<1>9. ASSUME call[t].op = "advertise",
             \E o \in {"unchanged", "CorruptStateError"} : Ends(t, o)
      PROVE  out # "ok" /\ call[t].op # "offer"
  BY <1>6, <1>7, <1>9, EndsFields
<1>10. \/ Works(t)
       \/ /\ call[t].op = "advertise"
          /\ \E o \in {"unchanged", "CorruptStateError"} : Ends(t, o)
  BY <1>1, <1>2, <1>3, <1>4, <1>5 DEF Next, Step
<1>11. QED
  BY <1>6, <1>7, <1>8, <1>9, <1>10

\* The invariant holds.
LEMMA AnswersNext == IInv /\ AnswersTold /\ [Next]_vars => AnswersTold'
<1> SUFFICES ASSUME IInv, AnswersTold, [Next]_vars, NEW t \in Tasks,
                    call'[t] # Absent, call'[t].pc = "answer"
             PROVE  Told(call[t])'
  BY DEF AnswersTold, Told
<1>1. used \subseteq used' /\ registered \subseteq registered'
  BY HistoryGrows
<1>2. CASE call'[t] = call[t]
  BY <1>1, <1>2 DEF AnswersTold, Told
<1>3. CASE call'[t] # call[t]
  <2>1. /\ call[t] # Absent /\ call'[t].op = call[t].op
        /\ call'[t].read = call[t].read /\ call'[t].nonce = call[t].nonce
    BY <1>3, AnswersCome
  <2>2. CASE call'[t].out # "ok" /\ call'[t].op # "offer"
    BY <2>2 DEF Told
  <2>3. CASE \/ offer_put(t) \/ register_commit(t) \/ issue_replace(t)
             \/ refresh_replace(t)
    <3>1. /\ Writing(t) /\ call[t].op \in Minting
          /\ minted' = minted \union
                {[nonce |-> call[t].nonce, at |-> call[t].at]}
      BY <2>3 DEF offer_put, register_commit, issue_replace, refresh_replace,
                  Serving, Writing, Minting
    <3>2. call[t].nonce \in used'
      BY <3>1, TokenStored
    <3>3. call[t].op = "register" => \E g \in registered' : g.sid = call[t].nonce
      <4>1. ASSUME register_commit(t)
            PROVE  \E g \in registered' : g.sid = call[t].nonce
        <5>1. PICK g : /\ g = [offer |-> call[t].read.reg_challenge,
                               sid |-> call[t].nonce, key |-> call[t].jwt.key,
                               user |-> binding'[call[t].session].user_id,
                               at |-> call[t].at]
                       /\ g \in registered'
          BY <4>1 DEF register_commit
        <5>2. QED
          BY <5>1
      <4>2. QED
        BY <2>3, <4>1 DEF offer_put, issue_replace, refresh_replace, Serving
    <3>4. call[t].op \in {"issue", "refresh", "advertise"} =>
             call[t].read \in Binding
      BY <3>1 DEF IInv, WritesAreJustified, Justified
    <3>5. call'[t].op = "offer" => call'[t].out = "ok"
      BY <1>3, AnswersCome DEF revoke_delete, Serving
    <3>6. QED
      BY <2>1, <3>2, <3>3, <3>4, <3>5 DEF Told
  <2>4. CASE advertise_replace(t) \/ revoke_delete(t)
    <3>1. Writing(t) /\ call[t].op \in {"advertise", "revoke"}
      BY <2>4 DEF advertise_replace, revoke_delete, Serving, Writing
    <3>2. call[t].op = "advertise" => call[t].read \in Binding
      BY <3>1 DEF IInv, WritesAreJustified, Justified
    <3>3. QED
      BY <2>1, <3>1, <3>2 DEF Told, Minting
  <2>5. QED
    BY <1>3, <2>2, <2>3, <2>4, AnswersCome
<1>4. QED
  BY <1>2, <1>3

\* The invariant holds.
LEMMA AnswersInvariance == Spec => []AnswersTold
<1>1. Init => AnswersTold
  BY DEF Init, AnswersTold
<1>2. QED
  BY <1>1, AnswersNext, Invariance, PTL DEF Spec

------------------------------------------------------------------------------
(* DbscServer implements SerialServer: every step of a call either leaves the *)
(* store alone or is the whole of one request, with all its checks made on the *)
(* record that the step changes.                                              *)

\* SerialServer uses the operators of Records on the same constants.
LEMMA SameOperators ==
    /\ \A r : Serial!IsRecord(r) <=> IsRecord(r)
    /\ \A b, n, at : Serial!with_challenge(b, n, at) = with_challenge(b, n, at)
    /\ \A b, n, at : Serial!with_rotated_cookie_and_challenge(b, n, at)
                        = with_rotated_cookie_and_challenge(b, n, at)
    /\ \A b : Serial!mark_challenge_advertised(b) = mark_challenge_advertised(b)
    /\ \A p, u, k, n, at :
          Serial!new_binding(p, u, k, n, at) = new_binding(p, u, k, n, at)
    /\ \A p, u, jwt, at :
          Serial!registration_outcome(p, u, jwt, at)
             = registration_outcome(p, u, jwt, at)
    /\ \A b, u, id, jwt, at :
          Serial!refresh_outcome(b, u, id, jwt, at)
             = refresh_outcome(b, u, id, jwt, at)
    /\ \A b, u, at :
          Serial!worth_advertising(b, u, at) <=> worth_advertising(b, u, at)
    /\ Serial!UserIds = UserIds
<1>1. \A r, q : Serial!same_user(r, q) <=> same_user(r, q)
  BY DEF same_user, Serial!same_user
<1>2. \A jwt, k : /\ Serial!verify_refresh_jwt(jwt, k)
                        <=> verify_refresh_jwt(jwt, k)
                  /\ Serial!verify_registration_jwt(jwt)
                        <=> verify_registration_jwt(jwt)
  BY DEF verify_refresh_jwt, Serial!verify_refresh_jwt,
         verify_registration_jwt, Serial!verify_registration_jwt
<1>3. Serial!NoNonce = NoNonce
  BY DEF NoNonce, Serial!NoNonce
<1>4. \A b, jti, at : Serial!challenge_matches(b, jti, at)
                         <=> challenge_matches(b, jti, at)
  BY <1>3 DEF challenge_matches, Serial!challenge_matches
<1>5. \A r : Serial!IsRecord(r) <=> IsRecord(r)
  BY DEF IsRecord, Serial!IsRecord
<1>6. /\ \A b, n, at :
            Serial!with_challenge(b, n, at) = with_challenge(b, n, at)
      /\ \A b, n, at : Serial!with_rotated_cookie_and_challenge(b, n, at)
                          = with_rotated_cookie_and_challenge(b, n, at)
      /\ \A b :
            Serial!mark_challenge_advertised(b) = mark_challenge_advertised(b)
  BY <1>3, Zenon
  DEF with_challenge, Serial!with_challenge,
      with_rotated_cookie_and_challenge,
      Serial!with_rotated_cookie_and_challenge,
      mark_challenge_advertised, Serial!mark_challenge_advertised
<1>7. \A p, u, k, n, at :
         Serial!new_binding(p, u, k, n, at) = new_binding(p, u, k, n, at)
  BY <1>3, Zenon DEF new_binding, Serial!new_binding
<1>8. \A p, u, jwt, at : Serial!registration_outcome(p, u, jwt, at)
                            = registration_outcome(p, u, jwt, at)
  BY <1>1, <1>2 DEF registration_outcome, Serial!registration_outcome
<1>9. \A b, u, id, jwt, at : Serial!refresh_outcome(b, u, id, jwt, at)
                                = refresh_outcome(b, u, id, jwt, at)
  BY <1>1, <1>2, <1>3, <1>4 DEF refresh_outcome, Serial!refresh_outcome
<1>10. \A b, u, at :
          Serial!worth_advertising(b, u, at) <=> worth_advertising(b, u, at)
  BY <1>1, <1>3 DEF worth_advertising, Serial!worth_advertising
<1>11. Serial!UserIds = UserIds
  BY DEF UserIds, Serial!UserIds
<1>12. QED
  BY <1>5, <1>6, <1>7, <1>8, <1>9, <1>10, <1>11

\* What a call that is about to store its token gives SerialServer.
LEMMA TokenIsReady ==
    ASSUME IInv, NEW t \in Tasks, Writing(t), call[t].op \in Minting,
           minted' = minted \union
                        {[nonce |-> call[t].nonce, at |-> call[t].at]},
           now' = now
    PROVE  /\ call[t] \in Calls /\ call[t].session \in Sessions
           /\ call[t].user \in UserIds
           /\ call[t].nonce \in 1 .. MaxNonces
           /\ call[t].at \in Serial!Readings
           /\ Serial!Stores(call[t].nonce)
<1>1. /\ call[t] \in Calls /\ call[t].nonce \in 1 .. MaxNonces
      /\ call[t].nonce \notin used /\ call[t].at \in Nat
      /\ used' = used \union {call[t].nonce}
  BY TokenStored
<1>2. call[t].at <= now /\ now \in Nat
  BY DEF IInv, CallsRemember, Active, Remembers, Writing, Types, TypeOK
<1>3. QED
  BY <1>1, <1>2 DEF Serial!Readings, Serial!Stores, Calls

\* The write of build_registration_header_response() is the whole request.
LEMMA OfferIsSerial ==
    ASSUME IInv, NEW t \in Tasks, offer_put(t)
    PROVE  Serial!SerialNext
<1>0. PICK c : c = call[t]
  OBVIOUS
<1>1. /\ Writing(t) /\ c.op \in Minting
      /\ minted' = minted \union {[nonce |-> c.nonce, at |-> c.at]}
      /\ put_pending_registration(c.session,
            [user_id |-> c.user, reg_challenge |-> c.nonce,
             reg_challenge_time |-> c.at])
      /\ UNCHANGED <<now, registered, refreshed>>
  BY <1>0 DEF offer_put, Serving, Writing, Minting
<1>2. /\ c.session \in Sessions /\ c.user \in UserIds
      /\ c.nonce \in 1 .. MaxNonces /\ c.at \in Serial!Readings
      /\ Serial!Stores(c.nonce)
  BY <1>0, <1>1, TokenIsReady
<1>3. Serial!put_pending_registration(c.session,
         [user_id |-> c.user, reg_challenge |-> c.nonce,
          reg_challenge_time |-> c.at])
  BY <1>1 DEF put_pending_registration, Serial!put_pending_registration
<1>4. Serial!Offer(c.session)
  BY <1>1, <1>2, <1>3, SameOperators DEF Serial!Offer, Serial!granted
<1>5. QED
  BY <1>2, <1>4 DEF Serial!SerialNext

\* The write of register() is the whole request.
LEMMA RegisterIsSerial ==
    ASSUME IInv, NEW t \in Tasks, register_commit(t)
    PROVE  Serial!SerialNext
<1>0. PICK c, s, p, jwt, b :
         /\ c = call[t] /\ s = c.session /\ p = c.read /\ jwt = c.jwt
         /\ b = new_binding(p, c.user, jwt.key, c.nonce, c.at)
  OBVIOUS
<1>1. /\ Writing(t) /\ c.op = "register" /\ c.op \in Minting
      /\ minted' = minted \union {[nonce |-> c.nonce, at |-> c.at]}
      /\ commit_registration(s, p, b)
      /\ registered' = registered \union
            {[offer |-> p.reg_challenge, sid |-> c.nonce, key |-> jwt.key,
              user |-> binding'[s].user_id, at |-> c.at]}
      /\ UNCHANGED <<now, refreshed>>
  BY <1>0 DEF register_commit, Serving, Writing, Minting
<1>2. /\ c \in Calls /\ s \in Sessions /\ c.user \in UserIds
      /\ c.nonce \in 1 .. MaxNonces /\ c.at \in Serial!Readings
      /\ Serial!Stores(c.nonce)
  BY <1>0, <1>1, TokenIsReady
<1>3. /\ p \in PendingRegistration /\ jwt \in Jwts /\ c.at \in Nat
      /\ registration_outcome(p, c.user, jwt, c.at) = "verified"
  BY <1>0, <1>1, <1>2 DEF IInv, WritesAreJustified, Justified, Calls
<1>4. jwt.key \in Keys /\ jwt.jti = p.reg_challenge
  BY <1>3, VerifiedMeans
<1>5. jwt = [key |-> jwt.key, jti |-> p.reg_challenge]
  BY <1>3, <1>4 DEF Jwts
<1>6. pending[s] = p /\ binding'[s] = b
  BY <1>1, <1>2 DEF commit_registration, IInv, Types, TypeOK
<1>7. /\ Serial!commit_registration(s, pending[s], b)
      /\ IsRecord(pending[s])
  BY <1>1, <1>3, <1>6, RecordsAreRecords
  DEF commit_registration, Serial!commit_registration
<1>8. registered' = registered \union
         {[offer |-> p.reg_challenge, sid |-> c.nonce, key |-> jwt.key,
           user |-> b.user_id, at |-> c.at]}
  BY <1>1, <1>6
<1>9. Serial!Register(s)
  <2>1. b = Serial!new_binding(pending[s], c.user, jwt.key, c.nonce, c.at)
    BY <1>0, <1>6, SameOperators
  <2>2. Serial!registration_outcome(pending[s], c.user,
           [key |-> jwt.key, jti |-> pending[s].reg_challenge], c.at)
        = "verified"
    BY <1>3, <1>5, <1>6, SameOperators
  <2>3. Serial!IsRecord(pending[s]) /\ c.user \in Serial!UserIds
    BY <1>2, <1>7, SameOperators
  <2>4. PICK n, at, u, k :
           n = c.nonce /\ at = c.at /\ u = c.user /\ k = jwt.key
    OBVIOUS
  <2>5. QED
    BY <1>1, <1>2, <1>4, <1>6, <1>7, <1>8, <2>1, <2>2, <2>3, <2>4
    DEF Serial!Register
<1>10. QED
  BY <1>2, <1>9 DEF Serial!SerialNext

\* The write of issue_refresh_challenge() is the whole request.
LEMMA IssueIsSerial ==
    ASSUME IInv, NEW t \in Tasks, issue_replace(t)
    PROVE  Serial!SerialNext
<1>0. PICK c, s, b :
         c = call[t] /\ s = c.session /\ b = c.read
  OBVIOUS
<1>1. /\ Writing(t) /\ c.op = "issue" /\ c.op \in Minting
      /\ minted' = minted \union {[nonce |-> c.nonce, at |-> c.at]}
      /\ replace_binding(s, b, with_challenge(b, c.nonce, c.at))
      /\ UNCHANGED <<now, registered, refreshed>>
  BY <1>0 DEF issue_replace, Serving, Writing, Minting, history
<1>2. /\ s \in Sessions /\ c.nonce \in 1 .. MaxNonces
      /\ c.at \in Serial!Readings /\ Serial!Stores(c.nonce)
  BY <1>0, <1>1, TokenIsReady
<1>3. b \in Binding /\ binding[s] = b /\ Serial!IsRecord(binding[s])
  BY <1>0, <1>1, RecordsAreRecords, SameOperators
  DEF IInv, WritesAreJustified, Justified, replace_binding
<1>4. Serial!replace_binding(s, binding[s],
         Serial!with_challenge(binding[s], c.nonce, c.at))
  BY <1>1, <1>3, SameOperators DEF replace_binding, Serial!replace_binding
<1>5. Serial!RotateChallenge(s)
  BY <1>1, <1>2, <1>3, <1>4 DEF Serial!RotateChallenge, Serial!granted
<1>6. QED
  BY <1>2, <1>5 DEF Serial!SerialNext

\* The write of refresh() is the whole request, whichever attempt it is.
LEMMA RefreshIsSerial ==
    ASSUME IInv, NEW t \in Tasks, refresh_replace(t)
    PROVE  Serial!SerialNext
<1>0. PICK c, s, b, jwt :
         c = call[t] /\ s = c.session /\ b = c.read /\ jwt = c.jwt
  OBVIOUS
<1>1. /\ Writing(t) /\ c.op = "refresh" /\ c.op \in Minting
      /\ minted' = minted \union {[nonce |-> c.nonce, at |-> c.at]}
      /\ replace_binding(s, b,
            with_rotated_cookie_and_challenge(b, c.nonce, c.at))
      /\ refreshed' = refreshed \union
            {[sid |-> b.session_identifier, jti |-> jwt.jti, key |-> jwt.key,
              user |-> c.user, cookie |-> c.nonce, at |-> c.at]}
      /\ UNCHANGED <<now, registered>>
  BY <1>0 DEF refresh_replace, Serving, Writing, Minting
<1>2. /\ c \in Calls /\ s \in Sessions /\ c.user \in UserIds
      /\ c.nonce \in 1 .. MaxNonces /\ c.at \in Serial!Readings
      /\ Serial!Stores(c.nonce)
  BY <1>0, <1>1, TokenIsReady
<1>3. /\ b \in Binding /\ jwt \in Jwts /\ c.at \in Nat
      /\ refresh_outcome(b, c.user, c.id, jwt, c.at) = "proved"
  BY <1>0, <1>1, <1>2 DEF IInv, WritesAreJustified, Justified, Calls
<1>4. binding[s] = b /\ Serial!IsRecord(binding[s])
  BY <1>1, <1>3, RecordsAreRecords, SameOperators DEF replace_binding
<1>5. Serial!replace_binding(s, binding[s],
         Serial!with_rotated_cookie_and_challenge(binding[s], c.nonce, c.at))
  BY <1>1, <1>4, SameOperators DEF replace_binding, Serial!replace_binding
<1>6. jwt.key \in Keys /\ c.user \in Serial!UserIds
  <2>1. jwt.key = b.public_key
    BY <1>3, ProvedMeans
  <2>2. QED
    BY <1>2, <1>3, <2>1 DEF Binding, UserIds, Serial!UserIds
<1>7. jwt = [key |-> jwt.key, jti |-> jwt.jti]
  BY <1>3 DEF Jwts
<1>8. jwt.jti \in 0 .. MaxNonces /\ c.id \in 0 .. MaxNonces
  <2>1. /\ jwt.jti \in used \union {NoNonce}
        /\ c.id \in used \union {NoNonce}
    BY <1>0, <1>1 DEF IInv, CallsRemember, Active, Remembers, Writing
  <2>2. used \subseteq 0 .. MaxNonces /\ NoNonce \in 0 .. MaxNonces
    BY BoundsAssumption DEF IInv, Types, NoNonce
  <2>3. QED
    BY <2>1, <2>2
<1>9. Serial!refresh_outcome(binding[s], c.user, c.id,
                             [key |-> jwt.key, jti |-> jwt.jti], c.at)
      = "proved"
  BY <1>3, <1>4, <1>7, SameOperators
<1>10. \E u \in Serial!UserIds, k \in Keys, jti, id \in 0 .. MaxNonces :
         /\ Serial!refresh_outcome(binding[s], u, id,
                                   [key |-> k, jti |-> jti], c.at) = "proved"
         /\ refreshed' = refreshed \union
               {[sid |-> binding[s].session_identifier, jti |-> jti,
                 key |-> k, user |-> u, cookie |-> c.nonce, at |-> c.at]}
  BY <1>1, <1>4, <1>6, <1>8, <1>9
<1>11. Serial!Refresh(s)
  BY <1>1, <1>2, <1>4, <1>5, <1>10 DEF Serial!Refresh
<1>12. QED
  BY <1>2, <1>11 DEF Serial!SerialNext

\* The write of advertise_refresh_challenge() is the whole request.
LEMMA AdvertiseIsSerial ==
    ASSUME IInv, NEW t \in Tasks, advertise_replace(t)
    PROVE  Serial!SerialNext
<1>0. PICK c, s, b : c = call[t] /\ s = c.session /\ b = c.read
  OBVIOUS
<1>1. /\ Writing(t) /\ c.op = "advertise" /\ c \in Calls
      /\ replace_binding(s, b, mark_challenge_advertised(b))
      /\ UNCHANGED <<now, used, registered, refreshed>>
  BY <1>0
  DEF advertise_replace, Serving, Writing, history, used, IInv, Types, TypeOK
<1>2. /\ s \in Sessions /\ c.user \in UserIds /\ b \in Binding
      /\ \E at \in Serial!Readings : worth_advertising(b, c.user, at)
  BY <1>0, <1>1
  DEF IInv, WritesAreJustified, Justified, Calls, Serial!Readings
<1>3. binding[s] = b /\ Serial!IsRecord(binding[s])
  BY <1>1, <1>2, RecordsAreRecords, SameOperators DEF replace_binding
<1>4. Serial!replace_binding(s, binding[s],
                             Serial!mark_challenge_advertised(binding[s]))
  BY <1>1, <1>3, SameOperators DEF replace_binding, Serial!replace_binding
<1>5. \E at \in Serial!Readings, u \in Serial!UserIds :
         Serial!worth_advertising(binding[s], u, at)
  BY <1>2, <1>3, SameOperators
<1>6. Serial!Advertise(s)
  BY <1>1, <1>3, <1>4, <1>5 DEF Serial!Advertise, Serial!granted
<1>7. QED
  BY <1>2, <1>6 DEF Serial!SerialNext

\* The delete of revoke() is the whole request.
LEMMA RevokeIsSerial ==
    ASSUME IInv, NEW t \in Tasks, revoke_delete(t)
    PROVE  Serial!SerialNext
<1>1. /\ call[t].session \in Sessions /\ delete(call[t].session)
      /\ UNCHANGED <<now, used, registered, refreshed>>
  BY DEF revoke_delete, Serving, used, IInv, Types, TypeOK, Calls
<1>2. Serial!Revoke(call[t].session)
  BY <1>1 DEF delete, Serial!delete, Serial!Revoke, Serial!granted
<1>3. QED
  BY <1>1, <1>2 DEF Serial!SerialNext

\* Every step is one of SerialServer or leaves its variables alone.
LEMMA StepsAreSerial ==
    ASSUME IInv, [Next]_vars
    PROVE  [Serial!SerialNext]_(Serial!serial_vars)
<1>1. ASSUME UNCHANGED <<store, now, minted, registered, refreshed>>
      PROVE  UNCHANGED Serial!serial_vars
  BY <1>1 DEF store, used, Serial!serial_vars
<1>2. ASSUME NEW t \in Tasks, Request(t)
      PROVE  UNCHANGED Serial!serial_vars
  BY <1>1, <1>2, RequestKeeps DEF Still, history
<1>3. ASSUME NEW t \in Tasks, Step(t) \/ abandon(t)
      PROVE  [Serial!SerialNext]_(Serial!serial_vars)
  <2>1. CASE QuietStep(t)
    BY <1>1, <2>1, QuietStepKeeps DEF Still, history
  <2>2. CASE answer(t)
    BY <1>1, <2>2 DEF answer
  <2>3. QED
    BY <1>3, <2>1, <2>2, OfferIsSerial, RegisterIsSerial, IssueIsSerial,
       RefreshIsSerial, AdvertiseIsSerial, RevokeIsSerial
    DEF Step, Works, QuietStep
<1>4. ASSUME Tick PROVE Serial!SerialNext
  BY <1>4
  DEF Tick, store, history, used, Serial!Ticks, Serial!granted,
      Serial!SerialNext
<1>5. ASSUME Disturb PROVE Serial!SerialNext
  <2>1. PICK fault \in Faults : Disturb_store(fault)
    BY <1>5, FaultsAssumption DEF Disturb
  <2>2. Serial!Disturb_store(fault)
    BY <2>1
    DEF Disturb_store, expire, corrupt_pending_registration, corrupt_binding,
        Serial!Disturb_store, Serial!expire,
        Serial!corrupt_pending_registration, Serial!corrupt_binding
  <2>3. fault \in Serial!Faults /\ UNCHANGED <<now, used, registered, refreshed>>
    BY <1>5, <2>1 DEF Faults, Serial!Faults, Disturb, history, used
  <2>4. QED
    BY <2>2, <2>3 DEF Serial!Disturbed, Serial!granted, Serial!SerialNext
<1>6. CASE UNCHANGED vars
  BY <1>1, <1>6 DEF vars, store
<1>7. QED
  BY <1>2, <1>3, <1>4, <1>5, <1>6 DEF Next

\* However many calls interleave, and however often they lose a race and try
\* again, DbscServer does to the store what SerialServer does serving one
\* request after the other.
THEOREM Serializable == Spec => OneAfterTheOther
<1>1. Init => Serial!SerialInit
  BY DEF Init, Init_store, used, Serial!SerialInit, Serial!Init_store
<1>2. QED
  BY <1>1, StepsAreSerial, Invariance, PTL
  DEF Spec, OneAfterTheOther, Serial!SerialSpec
==============================================================================

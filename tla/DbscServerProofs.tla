--------------------------- MODULE DbscServerProofs --------------------------
(***************************************************************************)
(* IInv is an invariant of DbscServer, for every set of users, keys,       *)
(* sessions and tasks, any number of attempts and any lifetimes.           *)
(***************************************************************************)
EXTENDS DbscServerInvariant, TLAPS

------------------------------------------------------------------------------
(* The record operators keep the types.                                     *)

\* The lifetimes of Config are numbers.
LEMMA Lifetimes == CookieMaxAge \in Nat /\ ChallengeTtl \in Nat
BY ConfigAssumption DEF Config

\* What register() builds is a binding.
LEMMA NewBindingType ==
    ASSUME NEW p \in PendingRegistration, NEW u \in UserIds, NEW k \in Keys,
           NEW n \in Nonces, NEW at \in Nat
    PROVE  new_binding(p, u, k, n, at) \in Binding
BY DEF new_binding, Binding, PendingRegistration, Nonces, NoNonce

\* What with_challenge changes and keeps.
LEMMA WithChallenge ==
    ASSUME NEW b \in Binding, NEW n \in Nonces, NEW at \in Nat,
           NEW c, c = with_challenge(b, n, at)
    PROVE  /\ c \in Binding
           /\ c.challenge = n
           /\ c.challenge_time = at
           /\ c.previous_challenge = b.challenge
           /\ c.previous_challenge_time = b.challenge_time
           /\ c.user_id = b.user_id
           /\ c.session_identifier = b.session_identifier
           /\ c.public_key = b.public_key
           /\ c.created_at = b.created_at
           /\ c.cookie_value = b.cookie_value
           /\ c.cookie_issued_at = b.cookie_issued_at
           /\ c.previous_cookie_value = b.previous_cookie_value
           /\ c.previous_cookie_expires_at = b.previous_cookie_expires_at
           /\ c.has_refreshed = b.has_refreshed
           /\ c.challenge_advertised = b.challenge_advertised
<1>1. n \in Nat
  BY DEF Nonces
<1>2. c \in Binding
  BY <1>1, Zenon DEF Binding, with_challenge
<1>3. QED
  BY <1>2 DEF Binding, with_challenge

\* What with_rotated_cookie_and_challenge changes and keeps.
LEMMA WithRotated ==
    ASSUME NEW b \in Binding, NEW n \in Nonces, NEW at \in Nat,
           NEW c, c = with_rotated_cookie_and_challenge(b, n, at)
    PROVE  /\ c \in Binding
           /\ c.challenge = n
           /\ c.challenge_time = at
           /\ c.previous_challenge = NoNonce
           /\ c.user_id = b.user_id
           /\ c.session_identifier = b.session_identifier
           /\ c.public_key = b.public_key
           /\ c.created_at = b.created_at
           /\ c.cookie_value = n
           /\ c.cookie_issued_at = at
           /\ c.previous_cookie_value = b.cookie_value
           /\ c.previous_cookie_expires_at = b.cookie_issued_at + CookieMaxAge
           /\ c.has_refreshed
           /\ c.challenge_advertised = b.challenge_advertised
<1>1. n \in Nat /\ 0 \in Nat
  BY DEF Nonces
<1>2. b.cookie_issued_at \in Nat /\ b.cookie_value \in Nat
  BY DEF Binding, Nonces
<1>3. b.cookie_issued_at + CookieMaxAge \in Nat
  BY <1>2, Lifetimes
<1>4. c \in Binding
  BY <1>1, <1>2, <1>3, Zenon
  DEF Binding, with_rotated_cookie_and_challenge, NoNonce
<1>5. QED
  BY <1>4 DEF Binding, with_rotated_cookie_and_challenge

\* What mark_challenge_advertised changes and keeps.
LEMMA MarkAdvertised ==
    ASSUME NEW b \in Binding, NEW c, c = mark_challenge_advertised(b)
    PROVE  /\ c \in Binding
           /\ c.challenge = b.challenge
           /\ c.challenge_time = b.challenge_time
           /\ c.previous_challenge = b.previous_challenge
           /\ c.previous_challenge_time = b.previous_challenge_time
           /\ c.user_id = b.user_id
           /\ c.session_identifier = b.session_identifier
           /\ c.public_key = b.public_key
           /\ c.created_at = b.created_at
           /\ c.cookie_value = b.cookie_value
           /\ c.cookie_issued_at = b.cookie_issued_at
           /\ c.previous_cookie_value = b.previous_cookie_value
           /\ c.previous_cookie_expires_at = b.previous_cookie_expires_at
           /\ c.has_refreshed = b.has_refreshed
           /\ c.challenge_advertised
<1>1. c \in Binding
  BY Zenon DEF Binding, mark_challenge_advertised
<1>2. QED
  BY <1>1 DEF Binding, mark_challenge_advertised

\* Records are neither absent nor corrupt.
LEMMA RecordsAreRecords ==
    /\ \A p \in PendingRegistration : IsRecord(p)
    /\ \A b \in Binding : IsRecord(b)
BY AbsentAssumption, CorruptAssumption DEF IsRecord

\* What the outcomes of the checks say of a record.
LEMMA VerifiedMeans ==
    ASSUME NEW p \in PendingRegistration \union {Absent, Corrupt}, NEW u,
           NEW jwt \in Jwts, NEW at \in Nat,
           registration_outcome(p, u, jwt, at) = "verified"
    PROVE  /\ p \in PendingRegistration
           /\ same_user(p.user_id, u)
           /\ at - p.reg_challenge_time <= ChallengeTtl
           /\ jwt.key \in Keys
           /\ jwt.jti = p.reg_challenge
BY Lifetimes
DEF registration_outcome, verify_registration_jwt, Jwts, PendingRegistration

\* The same for the checks of _binding_proved_by.
LEMMA ProvedMeans ==
    ASSUME NEW b \in Binding \union {Absent, Corrupt}, NEW u, NEW id,
           NEW jwt \in Jwts, NEW at \in Nat,
           refresh_outcome(b, u, id, jwt, at) = "proved"
    PROVE  /\ b \in Binding
           /\ same_user(b.user_id, u)
           /\ b.challenge # NoNonce
           /\ at - b.challenge_time <= ChallengeTtl
           /\ jwt.key = b.public_key
           /\ challenge_matches(b, jwt.jti, at)
BY Lifetimes
DEF refresh_outcome, verify_refresh_jwt, Binding

------------------------------------------------------------------------------
(* A call moves on.                                                         *)

\* The records of calls that the steps build.
LEMMA CallUpdates ==
    ASSUME NEW c \in Calls
    PROVE  /\ \A out \in Outcomes :
                 [c EXCEPT !.pc = "answer", !.out = out, !.jwt = NoJwt,
                           !.id = NoNonce, !.at = 0] \in Calls
           /\ \A n \in Nat, at \in Nat :
                 [c EXCEPT !.pc = "write", !.nonce = n, !.at = at] \in Calls
           /\ \A r \in StoredRecords :
                 [c EXCEPT !.pc = "check", !.read = r] \in Calls
           /\ c.attempt <= MaxUpdateAttempts =>
                 [c EXCEPT !.pc = "get", !.attempt = c.attempt + 1,
                           !.read = Absent, !.nonce = NoNonce, !.at = 0]
                 \in Calls
           /\ [c EXCEPT !.pc = "write"] \in Calls
<1> 0 \in Nat /\ NoNonce \in Nat /\ NoJwt \in Jwts /\ Absent \in StoredRecords
  BY DEF NoNonce, NoJwt, Jwts, StoredRecords
<1>1. ASSUME c.attempt <= MaxUpdateAttempts
      PROVE  c.attempt + 1 \in 1 .. MaxUpdateAttempts + 1
  BY <1>1, AttemptsAssumption DEF Calls
<1>2. QED
  BY <1>1, Zenon DEF Calls

\* A token that is drawn is new to the store and to every other call.
LEMMA FreshIsNew ==
    ASSUME NEW n \in Fresh
    PROVE  /\ n \in 1 .. MaxNonces
           /\ n \in Nonces
           /\ n \notin used
           /\ \A q \in Tasks : call[q] # Absent => call[q].nonce # n
<1>1. /\ n \in 1 .. MaxNonces
      /\ n \notin used
      /\ \A q \in Active : call[q].nonce # n
  BY DEF Fresh
<1>2. QED
  BY <1>1, BoundsAssumption DEF Active, Nonces, NoNonce

\* The part of IInv that is about the calls.
CallInv == CallsRemember /\ WritesAreJustified /\ TokensAreOwn

\* The other tasks that are about to write.
Others(t) == {q \in Tasks \ {t} : Writing(q)}

\* Only task t moves, to c: the others keep what they hold, because the store
\* only gains tokens that none of them is about to write.
LEMMA TaskMoves ==
    ASSUME CallInv, call \in [Tasks -> Calls \union {Absent}],
           now \in Nat, now' \in Nat, now <= now', used \subseteq used',
           NEW t \in Tasks, NEW c \in Calls \union {Absent}, Goes(t, c),
           \A q \in Others(t) :
              call[q].op \in Minting => call[q].nonce \notin used',
           c # Absent => Remembers(c)',
           c # Absent /\ c.pc = "write" =>
              /\ Justified(c)'
              /\ \A q \in Others(t) :
                    call[q].op \in Minting \/ c.op \in Minting
                    => call[q].nonce # c.nonce
    PROVE  CallInv'
<1>1. /\ call'[t] = c
      /\ \A q \in Tasks \ {t} : call'[q] = call[q]
      /\ call' \in [Tasks -> Calls \union {Absent}]
  BY DEF Goes
<1>2. CallsRemember'
  <2> SUFFICES ASSUME NEW q \in Tasks, call'[q] # Absent
               PROVE  Remembers(call[q])'
    BY DEF CallsRemember, Active
  <2>1. CASE q = t
    BY <2>1, <1>1 DEF Remembers
  <2>2. CASE q # t
    <3>1. call[q] \in Calls /\ call'[q] = call[q] /\ Remembers(call[q])
      BY <2>2, <1>1 DEF CallInv, CallsRemember, Active
    <3>2. call[q].at \in Nat
      BY <3>1 DEF Calls
    <3>3. QED
      BY <3>1, <3>2 DEF Remembers
  <2>3. QED
    BY <2>1, <2>2
<1>3. WritesAreJustified'
  <2> SUFFICES ASSUME NEW q \in Tasks, Writing(q)'
               PROVE  Justified(call[q])'
    BY DEF WritesAreJustified
  <2>1. CASE q = t
    BY <2>1, <1>1 DEF Justified, Writing
  <2>2. CASE q # t
    <3>1. call'[q] = call[q] /\ Writing(q) /\ Justified(call[q])
      BY <2>2, <1>1 DEF CallInv, WritesAreJustified, Writing
    <3>2. call[q].op \in Minting => call[q].nonce \notin used'
      BY <2>2, <3>1 DEF Others
    <3>3. \A at \in 0 .. now : at \in 0 .. now'
      OBVIOUS
    <3>4. QED
      BY <3>1, <3>2, <3>3 DEF Justified
  <2>3. QED
    BY <2>1, <2>2
<1>4. TokensAreOwn'
  <2> SUFFICES ASSUME NEW p \in Tasks, NEW q \in Tasks, Writing(p)',
                      Writing(q)', call'[p].op \in Minting,
                      call'[p].nonce = call'[q].nonce, p # q
               PROVE  FALSE
    BY DEF TokensAreOwn
  <2>1. CASE p = t
    BY <2>1, <1>1 DEF Writing, Others
  <2>2. CASE q = t
    BY <2>2, <1>1 DEF Writing, Others
  <2>3. CASE p # t /\ q # t
    BY <2>3, <1>1 DEF CallInv, TokensAreOwn, Writing
  <2>4. QED
    BY <2>1, <2>2, <2>3
<1>5. QED
  BY <1>2, <1>3, <1>4 DEF CallInv

\* The calls are typed and hold what they should.
CallsGood == call \in [Tasks -> Calls \union {Absent}] /\ CallInv

\* A call goes to its answer, perhaps having stored its own token.
LEMMA EndsKeeps ==
    ASSUME CallsGood, now \in Nat, now' = now, used \subseteq used',
           NEW t \in Tasks, call[t] # Absent, NEW out \in Outcomes,
           Ends(t, out),
           call[t].op = "advertise" /\ out = "ok" => call[t].read \in Binding,
           \A q \in Others(t) :
              call[q].op \in Minting => call[q].nonce \notin used'
    PROVE  CallsGood'
<1>0. PICK c : c = [call[t] EXCEPT !.pc = "answer", !.out = out,
                                   !.jwt = NoJwt, !.id = NoNonce, !.at = 0]
  OBVIOUS
<1>1. call[t] \in Calls /\ Remembers(call[t])
  BY DEF CallsGood, CallInv, CallsRemember, Active
<1>2. c \in Calls
  BY <1>0, <1>1, CallUpdates
<1>3. /\ c.pc = "answer" /\ c.out = out /\ c.id = NoNonce /\ c.at = 0
      /\ c.jwt = NoJwt /\ c.op = call[t].op /\ c.read = call[t].read
      /\ c.nonce = call[t].nonce
  BY <1>0, <1>1 DEF Calls
<1>4. Goes(t, c)
  BY <1>0 DEF Ends
<1>5. Remembers(c)'
  BY <1>1, <1>3 DEF Remembers, NoJwt, NoNonce
<1>6. CallInv'
  BY <1>2, <1>3, <1>4, <1>5, TaskMoves DEF CallsGood
<1>7. QED
  BY <1>2, <1>4, <1>6 DEF CallsGood, Goes

\* A step that leaves the store, the clock and the history alone.
Still == UNCHANGED <<store, now, minted, history>>

\* Such a step stores no token.
LEMMA StillUsed == ASSUME Still PROVE used' = used /\ now' = now
BY DEF Still, used

\* A call stops without having written.
LEMMA StopKeeps ==
    ASSUME CallsGood, WritesAreJustified, now \in Nat,
           NEW t \in Tasks, call[t] # Absent, NEW out \in Outcomes \ {"ok"},
           Stop(t, out)
    PROVE  CallsGood' /\ Still
<1>1. Ends(t, out) /\ Still
  BY DEF Stop, Still
<1>2. used' = used /\ now' = now
  BY <1>1, StillUsed
<1>3. \A q \in Others(t) : call[q].op \in Minting => call[q].nonce \notin used
  BY DEF Others, WritesAreJustified, Justified
<1>4. QED
  BY <1>1, <1>2, <1>3, EndsKeeps

\* A call that passed its checks draws a token and goes on to write.
LEMMA MintKeeps ==
    ASSUME CallsGood, now \in Nat, NEW t \in Tasks, call[t] # Absent,
           call[t].op \in Minting, Mint(t),
           call[t].op = "register" =>
              /\ call[t].read \in PendingRegistration
              /\ registration_outcome(call[t].read, call[t].user, call[t].jwt,
                                      now) = "verified",
           call[t].op \in {"issue", "refresh"} => call[t].read \in Binding,
           call[t].op = "refresh" =>
              refresh_outcome(call[t].read, call[t].user, call[t].id,
                              call[t].jwt, now) = "proved"
    PROVE  CallsGood' /\ Still
<1>1. PICK n \in Fresh :
         Goes(t, [call[t] EXCEPT !.pc = "write", !.nonce = n, !.at = now])
  BY DEF Mint
<1>a. PICK c : c = [call[t] EXCEPT !.pc = "write", !.nonce = n, !.at = now]
  OBVIOUS
<1>2. call[t] \in Calls /\ Remembers(call[t])
  BY DEF CallsGood, CallInv, CallsRemember, Active
<1>3. /\ n \in 1 .. MaxNonces
      /\ n \in Nonces
      /\ n \notin used
      /\ \A q \in Tasks : call[q] # Absent => call[q].nonce # n
  BY FreshIsNew
<1>4. c \in Calls
  BY <1>a, <1>2, <1>3, CallUpdates DEF Nonces
<1>5. /\ c.pc = "write" /\ c.nonce = n /\ c.at = now
      /\ c.out = call[t].out /\ c.id = call[t].id /\ c.jwt = call[t].jwt
      /\ c.op = call[t].op /\ c.read = call[t].read /\ c.user = call[t].user
  BY <1>a, <1>2 DEF Calls
<1>6. Still
  BY DEF Mint, Still
<1>7. used' = used /\ now' = now
  BY <1>6, StillUsed
<1>8. Remembers(c)'
  BY <1>2, <1>5, <1>7 DEF Remembers
<1>9. Justified(c)'
  BY <1>3, <1>5, <1>7 DEF Justified, Minting
<1>10. \A q \in Others(t) :
          /\ call[q].op \in Minting => call[q].nonce \notin used'
          /\ call[q].nonce # c.nonce
  BY <1>3, <1>5, <1>7
  DEF Others, Writing, CallsGood, CallInv, WritesAreJustified, Justified
<1>11. Goes(t, c)
  BY <1>1, <1>a
<1>12. CallInv'
  BY <1>4, <1>5, <1>7, <1>8, <1>9, <1>10, <1>11, TaskMoves DEF CallsGood
<1>13. QED
  BY <1>4, <1>6, <1>11, <1>12 DEF CallsGood, Goes

\* The outcomes of the checks are outcomes of calls, and never "ok".
LEMMA OutcomeTypes ==
    \A r, u, id, jwt, at :
        /\ registration_outcome(r, u, jwt, at)
              \in (Outcomes \ {"ok"}) \union {"verified"}
        /\ refresh_outcome(r, u, id, jwt, at)
              \in (Outcomes \ {"ok"}) \union {"proved"}
BY DEF registration_outcome, refresh_outcome, Outcomes, Retryable, Terminal

\* A request arrives.
LEMMA RequestKeeps ==
    ASSUME IInv, NEW t \in Tasks, Request(t)
    PROVE  CallsGood' /\ Still
<1> CallsGood /\ now \in Nat
  BY DEF IInv, Types, TypeOK, CallsGood, CallInv
<1>1. PICK op \in Ops, pc \in {"check", "write"}, s \in Sessions,
           u \in UserIds, jwt \in Jwts, id \in used \union {NoNonce},
           record \in StoredRecords :
         /\ Begin(t, op, pc, s, u, jwt, id, record)
         /\ jwt.jti \in used \union {NoNonce}
         /\ pc = "write" => op = "revoke"
         /\ record \in IF op = "register"
                       THEN PendingRegistration \union {Absent, Corrupt}
                       ELSE Binding \union {Absent, Corrupt}
  <2>1. /\ PresentedJwts \subseteq Jwts
        /\ \A jwt \in PresentedJwts : jwt.jti \in used \union {NoNonce}
    BY DEF PresentedJwts, Jwts, NoJwt, NoNonce, used, IInv, Types, TypeOK,
           Nonces
  <2>2. PresentedIds \subseteq used \union {NoNonce}
    BY DEF PresentedIds, IInv, HistoryIsUsed
  <2>3. /\ \A s \in Sessions :
              /\ pending[s] \in PendingRegistration \union {Absent, Corrupt}
              /\ binding[s] \in Binding \union {Absent, Corrupt}
        /\ NoJwt \in Jwts /\ NoJwt.jti \in used \union {NoNonce}
        /\ Unknown \in UserIds
    BY DEF IInv, Types, TypeOK, NoJwt, Jwts, NoNonce, UserIds
  <2>4. PICK s \in Sessions, u \in UserIds :
           \/ build_registration_header_response(t, s, u)
           \/ \E jwt \in PresentedJwts : register(t, s, u, jwt)
           \/ issue_refresh_challenge(t, s)
           \/ \E jwt \in PresentedJwts, id \in PresentedIds :
                 refresh(t, s, u, jwt, id)
           \/ get_binding(t, s, u)
           \/ revoke(t, s)
    BY DEF Request
  <2>5. CASE \/ build_registration_header_response(t, s, u)
             \/ issue_refresh_challenge(t, s)
             \/ get_binding(t, s, u)
             \/ revoke(t, s)
    BY <2>3, <2>5
    DEF build_registration_header_response, issue_refresh_challenge,
        get_binding, revoke, Ops, StoredRecords
  <2>6. CASE \E jwt \in PresentedJwts : register(t, s, u, jwt)
    BY <2>1, <2>3, <2>6 DEF register, Ops, StoredRecords
  <2>7. CASE \E jwt \in PresentedJwts, id \in PresentedIds :
                refresh(t, s, u, jwt, id)
    BY <2>1, <2>2, <2>3, <2>7 DEF refresh, Ops, StoredRecords
  <2>8. QED
    BY <2>4, <2>5, <2>6, <2>7
<1>2. PICK c : c = [op |-> op, pc |-> pc, session |-> s, user |-> u,
                    jwt |-> jwt, id |-> id, attempt |-> 1, read |-> record,
                    nonce |-> NoNonce, at |-> 0, out |-> "none"]
  OBVIOUS
<1>3. Still /\ Goes(t, c)
  BY <1>1, <1>2 DEF Begin, Still
<1>4. used' = used /\ now' = now
  BY <1>3, StillUsed
<1>5. id \in Nat
  BY DEF used, IInv, Types, TypeOK, Nonces, NoNonce
<1>6. c \in Calls
  BY <1>1, <1>2, <1>5, AttemptsAssumption
  DEF Calls, Outcomes, NoNonce
<1>7. Remembers(c)'
  BY <1>1, <1>2, <1>4 DEF Remembers, NoNonce
<1>8. c.pc = "write" => Justified(c)' /\ c.op \notin Minting
  BY <1>1, <1>2, <1>4 DEF Justified, Minting
<1>9. \A q \in Others(t) :
         call[q].op \in Minting =>
            call[q].nonce \notin used' /\ call[q].nonce # c.nonce
  BY <1>2, <1>4, BoundsAssumption
  DEF Others, CallsGood, CallInv, WritesAreJustified, Justified, NoNonce
<1>10. CallInv'
  BY <1>3, <1>4, <1>6, <1>7, <1>8, <1>9, TaskMoves DEF CallsGood
<1>11. QED
  BY <1>3, <1>6, <1>10 DEF CallsGood, Goes

\* A call moves without writing and without being about to.
LEMMA MovesKeeps ==
    ASSUME CallsGood, now \in Nat, Still, NEW t \in Tasks,
           NEW c \in Calls \union {Absent}, Goes(t, c),
           c # Absent => c.pc # "write" /\ Remembers(c)
    PROVE  CallsGood'
<1>1. used' = used /\ now' = now
  BY StillUsed
<1>2. \A q \in Others(t) : call[q].op \in Minting => call[q].nonce \notin used
  BY DEF Others, CallsGood, CallInv, WritesAreJustified, Justified
<1>3. c # Absent => Remembers(c)'
  BY <1>1 DEF Remembers
<1>4. CallInv'
  BY <1>1, <1>2, <1>3, TaskMoves DEF CallsGood
<1>5. QED
  BY <1>4 DEF CallsGood, Goes

\* The loop goes round again, and reads the binding again.
LEMMA LoopKeeps ==
    ASSUME IInv, NEW t \in Tasks,
           \/ get(t)
           \/ Again(t) /\ (Serving(t, "issue", "write")
                              \/ Serving(t, "refresh", "write"))
    PROVE  CallsGood' /\ Still
<1> CallsGood /\ now \in Nat
  BY DEF IInv, Types, TypeOK, CallsGood, CallInv
<1>1. CASE get(t)
  <2>1. PICK c : c = [call[t] EXCEPT !.pc = "check",
                                     !.read = binding[call[t].session]]
    OBVIOUS
  <2>2. call[t] \in Calls /\ Remembers(call[t]) /\ call[t].pc = "get"
    BY <1>1 DEF get, CallsGood, CallInv, CallsRemember, Active
  <2>3. binding[call[t].session] \in Binding \union {Absent, Corrupt}
    BY <2>2, SMTT(30) DEF IInv, Types, TypeOK, Calls
  <2>4. c \in Calls
    BY <2>1, <2>2, <2>3, CallUpdates DEF StoredRecords
  <2>5. /\ c.pc = "check" /\ c.read = binding[call[t].session]
        /\ c.op = call[t].op /\ c.at = call[t].at /\ c.id = call[t].id
        /\ c.jwt = call[t].jwt /\ c.nonce = call[t].nonce
    BY <2>1, <2>2 DEF Calls
  <2>6. Remembers(c)
    BY <2>2, <2>3, <2>5 DEF Remembers
  <2>7. Still /\ Goes(t, c)
    BY <1>1, <2>1 DEF get, Still
  <2>8. QED
    BY <2>4, <2>5, <2>6, <2>7, MovesKeeps
<1>2. CASE Again(t) /\ (Serving(t, "issue", "write")
                           \/ Serving(t, "refresh", "write"))
  <2>1. PICK c : c = [call[t] EXCEPT !.pc = "get",
                                     !.attempt = call[t].attempt + 1,
                                     !.read = Absent,
                                     !.nonce = NoNonce, !.at = 0]
    OBVIOUS
  <2>2. /\ call[t] \in Calls /\ Remembers(call[t])
        /\ call[t].op \in {"issue", "refresh"}
    BY <1>2 DEF Serving, CallsGood, CallInv, CallsRemember, Active
  <2>. call[t].attempt <= MaxUpdateAttempts
    BY <1>2, <2>2, AttemptsAssumption, SMTT(30) DEF Again, Gets, Calls
  <2>3. c \in Calls
    BY <1>2, <2>1, <2>2, CallUpdates
  <2>4. /\ c.pc = "get" /\ c.read = Absent /\ c.at = 0 /\ c.nonce = NoNonce
        /\ c.op = call[t].op /\ c.id = call[t].id /\ c.jwt = call[t].jwt
    BY <2>1, <2>2 DEF Calls
  <2>5. Remembers(c)
    BY <2>2, <2>4 DEF Remembers
  <2>6. Still /\ Goes(t, c)
    BY <1>2, <2>1 DEF Again, Still
  <2>7. QED
    BY <2>3, <2>4, <2>5, <2>6, MovesKeeps
<1>3. QED
  BY <1>1, <1>2

\* The steps of a call that write nothing: checks, lost races, the loops and
\* the end of a call that is abandoned.
QuietStep(t) ==
    \/ get(t) \/ offer_check(t) \/ get_binding_returns(t) \/ abandon(t)
    \/ register_check(t) \/ register_loses(t)
    \/ issue_check(t) \/ issue_loses(t)
    \/ refresh_check(t) \/ refresh_loses(t)
    \/ advertise_check(t) \/ advertise_loses(t)
    \/ \E op \in {"issue", "refresh", "advertise"} : replace_raises(t, op)

\* They keep what the calls hold.
LEMMA QuietStepKeeps ==
    ASSUME IInv, NEW t \in Tasks, QuietStep(t)
    PROVE  CallsGood' /\ Still
<1> /\ CallsGood /\ now \in Nat /\ WritesAreJustified
    /\ {"unchanged", "CorruptStateError", "MissingChallengeError",
        "ChallengeMismatchError"} \subseteq Outcomes \ {"ok"}
  BY DEF IInv, Types, TypeOK, CallsGood, CallInv, Outcomes, Retryable
<1>0. call[t] # Absent =>
         /\ call[t] \in Calls /\ Remembers(call[t])
         /\ call[t].jwt \in Jwts
  BY DEF CallsGood, CallInv, CallsRemember, Active, Calls
<1>1. CASE get(t)
  BY <1>1, LoopKeeps
<1>2. CASE offer_check(t)
  <2>1. call[t] # Absent /\ call[t].op = "offer" /\ Mint(t)
    BY <1>2 DEF offer_check, Serving
  <2>2. QED
    BY <2>1, MintKeeps DEF Minting
<1>3. CASE register_check(t)
  <2> DEFINE outcome == registration_outcome(call[t].read, call[t].user,
                                             call[t].jwt, now)
  <2>1. /\ call[t] # Absent /\ call[t].op = "register"
        /\ IF outcome = "verified" THEN Mint(t) ELSE Stop(t, outcome)
    BY <1>3 DEF register_check, Serving
  <2>2. CASE outcome = "verified"
    <3>1. call[t].read \in PendingRegistration
      BY <1>0, <2>1, <2>2, VerifiedMeans DEF Remembers
    <3>2. QED
      BY <2>1, <2>2, <3>1, MintKeeps DEF Minting
  <2>3. CASE outcome # "verified"
    <3>1. outcome \in Outcomes \ {"ok"}
      BY <2>3, OutcomeTypes
    <3> HIDE DEF outcome
    <3>2. QED
      BY <2>1, <2>3, <3>1, StopKeeps
  <2>4. QED
    BY <2>2, <2>3
<1>4. CASE register_loses(t)
  BY <1>4, StopKeeps DEF register_loses, Serving
<1>5. CASE issue_check(t)
  <2>1. /\ call[t] # Absent /\ call[t].op = "issue"
        /\ IF call[t].read = Corrupt THEN Stop(t, "CorruptStateError")
           ELSE IF call[t].read = Absent \/ call[t].attempt > MaxUpdateAttempts
           THEN Stop(t, "unchanged")
           ELSE Mint(t)
    BY <1>5 DEF issue_check, Serving
  <2>2. CASE \/ call[t].read \in {Absent, Corrupt}
             \/ call[t].attempt > MaxUpdateAttempts
    BY <2>1, <2>2, StopKeeps
  <2>3. CASE /\ call[t].read \notin {Absent, Corrupt}
             /\ ~ (call[t].attempt > MaxUpdateAttempts)
    <3>1. call[t].read \in Binding
      BY <1>0, <2>1, <2>3 DEF Remembers
    <3>2. QED
      BY <2>1, <2>3, <3>1, MintKeeps DEF Minting
  <2>4. QED
    BY <2>2, <2>3
<1>6. CASE issue_loses(t)
  BY <1>6, LoopKeeps DEF issue_loses
<1>8. CASE refresh_check(t)
  <2> DEFINE outcome == refresh_outcome(call[t].read, call[t].user,
                                        call[t].id, call[t].jwt, now)
  <2>1. /\ call[t] # Absent /\ call[t].op = "refresh"
        /\ IF outcome = "proved" THEN Mint(t) ELSE Stop(t, outcome)
    BY <1>8 DEF refresh_check, Serving
  <2>2. CASE outcome = "proved"
    <3>1. call[t].read \in Binding
      BY <1>0, <2>1, <2>2, ProvedMeans DEF Remembers
    <3>2. QED
      BY <2>1, <2>2, <3>1, MintKeeps DEF Minting
  <2>3. CASE outcome # "proved"
    <3>1. outcome \in Outcomes \ {"ok"}
      BY <2>3, OutcomeTypes
    <3> HIDE DEF outcome
    <3>2. QED
      BY <2>1, <2>3, <3>1, StopKeeps
  <2>4. QED
    BY <2>2, <2>3
<1>9. CASE refresh_loses(t)
  <2>1. CASE Again(t)
    BY <1>9, <2>1, LoopKeeps DEF refresh_loses
  <2>2. CASE ~ Again(t)
    BY <1>9, <2>2, StopKeeps DEF refresh_loses, Serving
  <2>3. QED
    BY <2>1, <2>2
<1>10. CASE advertise_check(t)
  <2>1. call[t] # Absent /\ call[t].op = "advertise"
    BY <1>10 DEF advertise_check, Serving
  <2>2. CASE Stop(t, "CorruptStateError") \/ Stop(t, "unchanged")
    BY <2>1, <2>2, StopKeeps
  <2>3. CASE /\ call[t].read \notin {Absent, Corrupt}
             /\ worth_advertising(call[t].read, call[t].user, now)
             /\ Goes(t, [call[t] EXCEPT !.pc = "write"])
             /\ UNCHANGED <<store, now, minted, history>>
    <3>1. PICK c : c = [call[t] EXCEPT !.pc = "write"]
      OBVIOUS
    <3>2. c \in Calls /\ Goes(t, c) /\ Still
      BY <1>0, <2>1, <2>3, <3>1, CallUpdates DEF Still
    <3>3. /\ c.pc = "write" /\ c.nonce = call[t].nonce
          /\ c.read = call[t].read /\ c.op = call[t].op /\ c.id = call[t].id
          /\ c.jwt = call[t].jwt /\ c.at = call[t].at
          /\ c.user = call[t].user /\ c.out = call[t].out
      BY <1>0, <2>1, <3>1 DEF Calls
    <3>4. used' = used /\ now' = now
      BY <3>2, StillUsed
    <3>5. Remembers(c)' /\ c.read \in Binding /\ c.nonce = NoNonce
      BY <1>0, <2>1, <2>3, <3>3, <3>4 DEF Remembers, Minting
    <3>6. Justified(c)'
      BY <2>1, <2>3, <3>3, <3>4, <3>5 DEF Justified, Minting
    <3>7. \A q \in Others(t) :
             call[q].op \in Minting =>
                call[q].nonce \notin used' /\ call[q].nonce # c.nonce
      BY <3>4, <3>5, BoundsAssumption
      DEF Others, WritesAreJustified, Justified, NoNonce
    <3>8. c.op \notin Minting
      BY <2>1, <3>3 DEF Minting
    <3>9. CallInv'
      BY <3>2, <3>4, <3>5, <3>6, <3>7, <3>8, TaskMoves DEF CallsGood
    <3>10. QED
      BY <3>2, <3>9 DEF CallsGood, Goes
  <2>4. QED
    BY <1>10, <2>2, <2>3 DEF advertise_check
<1>11. CASE advertise_loses(t)
  BY <1>11, StopKeeps DEF advertise_loses, Serving
<1>12. CASE \E op \in {"issue", "refresh", "advertise"} : replace_raises(t, op)
  BY <1>12, StopKeeps DEF replace_raises, Serving
<1>13. CASE get_binding_returns(t)
  BY <1>13, StopKeeps DEF get_binding_returns, Serving
<1>14. CASE abandon(t)
  BY <1>14, MovesKeeps DEF abandon, Still
<1>15. QED
  BY <1>1, <1>2, <1>3, <1>4, <1>5, <1>6, <1>8, <1>9, <1>10, <1>11,
     <1>12, <1>13, <1>14
  DEF QuietStep

------------------------------------------------------------------------------
(* The store changes.                                                       *)

\* The part of IInv that is about the store and the history.
StoreInv ==
    /\ OffersAreMinted
    /\ OffersAreOwn
    /\ ChallengesAreOwn
    /\ HistoryIsUsed
    /\ BindingsAreRegistered
    /\ TimesTrue
    /\ ProofsAreYoung
    /\ ChallengeSingleUse
    /\ OfferSingleUse
    /\ DeviceBound

\* A call stores the token it drew.
LEMMA TokenStored ==
    ASSUME IInv, NEW t \in Tasks, Writing(t), call[t].op \in Minting,
           minted' = minted \union
                        {[nonce |-> call[t].nonce, at |-> call[t].at]}
    PROVE  /\ call[t] \in Calls
           /\ call[t].nonce \in Nonces
           /\ call[t].nonce \in 1 .. MaxNonces
           /\ call[t].nonce \notin used
           /\ call[t].at \in Nat
           /\ used' = used \union {call[t].nonce}
           /\ minted' \subseteq [nonce : Nonces, at : Nat]
           /\ used' \subseteq 1 .. MaxNonces
           /\ \A q \in Others(t) :
                 call[q].op \in Minting => call[q].nonce \notin used'
<1>1. call[t] \in Calls
  BY DEF IInv, Types, TypeOK, Writing
<1>2. call[t].nonce \in 1 .. MaxNonces /\ call[t].nonce \notin used
  BY DEF IInv, WritesAreJustified, Justified
<1>3. call[t].nonce \in Nonces /\ call[t].at \in Nat
  BY <1>1, <1>2, BoundsAssumption DEF Calls, Nonces, NoNonce
<1>4. used' = used \union {call[t].nonce}
  <2>1. PICK m : m = [nonce |-> call[t].nonce, at |-> call[t].at]
    OBVIOUS
  <2>2. m.nonce = call[t].nonce /\ minted' = minted \union {m}
    BY <2>1
  <2>3. QED
    BY <2>2 DEF used
<1>5. \A q \in Others(t) :
         call[q].op \in Minting => call[q].nonce \notin used'
  BY <1>4 DEF Others, IInv, WritesAreJustified, Justified, TokensAreOwn
<1>6. used' \subseteq 1 .. MaxNonces
  BY <1>2, <1>4 DEF IInv, Types
<1>7. minted' \subseteq [nonce : Nonces, at : Nat]
  <2>1. minted \subseteq [nonce : Nonces, at : Nat]
    BY DEF IInv, Types, TypeOK
  <2>2. [nonce |-> call[t].nonce, at |-> call[t].at] \in [nonce : Nonces, at : Nat]
    BY <1>3
  <2>3. QED
    BY <2>1, <2>2
<1>8. QED
  BY <1>1, <1>2, <1>3, <1>4, <1>5, <1>6, <1>7

\* Tokens in the store are used ones.
LEMMA StoredTokensAreUsed ==
    ASSUME IInv
    PROVE  /\ \A s \in Sessions : LiveOffer(s) \subseteq used
           /\ \A s \in Sessions : Challenges(s) \subseteq used
           /\ \A s \in Sessions : IsRecord(binding[s]) =>
                 /\ binding[s].session_identifier \in used
                 /\ binding[s].cookie_value \in used
                 /\ binding[s].challenge \in used
                 /\ binding[s].challenge # NoNonce
<1>1. \A m \in minted : m.nonce \in used
  BY DEF used
<1>2. \A s \in Sessions : LiveOffer(s) \subseteq used
  <2>1. ASSUME NEW s \in Sessions, IsRecord(pending[s])
        PROVE  pending[s].reg_challenge \in used
    BY <1>1, <2>1 DEF IInv, OffersAreMinted
  <2>2. QED
    BY <2>1 DEF LiveOffer
<1>3. ASSUME NEW s \in Sessions, IsRecord(binding[s])
      PROVE  /\ binding[s].session_identifier \in used
             /\ binding[s].cookie_value \in used
             /\ binding[s].challenge \in used
             /\ binding[s].previous_challenge \in used \union {NoNonce}
  BY <1>1, <1>3 DEF IInv, TimesTrue, Dated
<1>4. NoNonce \notin used
  BY DEF IInv, Types, NoNonce
<1>5. QED
  BY <1>2, <1>3, <1>4 DEF Challenges

\* Records disappear or become unreadable, and offers that are deleted may be
\* noted as withdrawn.
LEMMA ShrinkingKeeps ==
    ASSUME IInv,
           \A s \in Sessions :
              /\ pending'[s] \in {pending[s], Absent, Corrupt}
              /\ binding'[s] \in {binding[s], Absent, Corrupt},
           UNCHANGED <<minted, registered, refreshed>>,
           withdrawn \subseteq withdrawn',
           \A x \in withdrawn' : x \in withdrawn \/
              \E s \in Sessions : x \in LiveOffer(s) /\ pending'[s] = Absent
    PROVE  StoreInv'
<1> USE DEF IInv
<1>1. \A s \in Sessions : IsRecord(pending[s])' =>
         pending'[s] = pending[s] /\ IsRecord(pending[s])
  BY DEF IsRecord
<1>2. \A s \in Sessions : IsRecord(binding[s])' =>
         binding'[s] = binding[s] /\ IsRecord(binding[s])
  BY DEF IsRecord
<1>3. \A s \in Sessions : LiveOffer(s)' \subseteq LiveOffer(s)
  BY <1>1 DEF LiveOffer
<1>4. \A s \in Sessions : Challenges(s)' \subseteq Challenges(s)
  BY <1>2 DEF Challenges
<1>5. \A s \in Sessions : pending'[s] = Absent => LiveOffer(s)' = {}
  BY DEF LiveOffer, IsRecord
<1>6. OffersAreMinted'
  BY <1>1 DEF OffersAreMinted
<1>7. OffersAreOwn' /\ ChallengesAreOwn'
  BY <1>3, <1>4 DEF OffersAreOwn, ChallengesAreOwn
<1>8. HistoryIsUsed'
  <2>1. used' = used
    BY DEF used
  <2>2. \A s \in Sessions : LiveOffer(s)' \intersect withdrawn' = {}
    BY <1>3, <1>5 DEF HistoryIsUsed, OffersAreOwn
  <2>3. withdrawn' \subseteq used
    BY StoredTokensAreUsed DEF HistoryIsUsed
  <2>4. QED
    BY <2>1, <2>2, <2>3 DEF HistoryIsUsed
<1>9. BindingsAreRegistered' /\ TimesTrue'
  BY <1>2 DEF BindingsAreRegistered, TimesTrue, Dated
<1>10. ProofsAreYoung' /\ DeviceBound'
  BY DEF ProofsAreYoung, DeviceBound
<1>11. ChallengeSingleUse'
  BY <1>2 DEF ChallengeSingleUse
<1>12. OfferSingleUse'
  <2>1. \A g \in registered : g.offer \notin withdrawn'
    BY DEF OfferSingleUse
  <2>2. QED
    BY <1>3, <2>1 DEF OfferSingleUse
<1>13. QED
  BY <1>6, <1>7, <1>8, <1>9, <1>10, <1>11, <1>12 DEF StoreInv

\* The invariants whose formulas mention the binding of a session: they are
\* preserved when the binding of s becomes c.
LEMMA BindingWritten ==
    ASSUME IInv, NEW s \in Sessions, NEW c \in Binding,
           binding' = [binding EXCEPT ![s] = c],
           minted \subseteq minted', registered \subseteq registered',
           Dated(c)',
           \E g \in registered' :
              /\ g.sid = c.session_identifier
              /\ g.key = c.public_key
              /\ g.user = c.user_id,
           \A q \in Sessions \ {s} :
              {c.challenge, c.previous_challenge} \intersect Challenges(q) = {}
    PROVE  BindingsAreRegistered' /\ TimesTrue' /\ ChallengesAreOwn'
<1>1. /\ binding'[s] = c
      /\ \A q \in Sessions \ {s} : binding'[q] = binding[q]
  BY DEF IInv, Types, TypeOK
<1>2. BindingsAreRegistered'
  BY <1>1 DEF BindingsAreRegistered, IInv
<1>3. TimesTrue'
  <2> SUFFICES ASSUME NEW q \in Sessions, IsRecord(binding[q])'
               PROVE  Dated(binding[q])'
    BY DEF TimesTrue
  <2>1. CASE q = s
    BY <1>1, <2>1 DEF Dated
  <2>2. CASE q # s
    BY <1>1, <2>2, SMTT(30) DEF IInv, TimesTrue, Dated
  <2>3. QED
    BY <2>1, <2>2
<1>4. ChallengesAreOwn'
  <2>1. /\ Challenges(s)' \subseteq {c.challenge, c.previous_challenge}
        /\ \A q \in Sessions \ {s} : Challenges(q)' = Challenges(q)
    BY <1>1 DEF Challenges
  <2>2. QED
    BY <2>1 DEF IInv, ChallengesAreOwn
<1>5. QED
  BY <1>2, <1>3, <1>4

\* IInv is its parts.
LEMMA Parts == IInv <=> Types /\ CallInv /\ StoreInv
BY DEF IInv, CallInv, StoreInv

------------------------------------------------------------------------------
(* The writing steps, one by one.                                           *)

\* build_registration_header_response() stores an offer.
LEMMA OfferPutKeeps ==
    ASSUME IInv, NEW t \in Tasks, offer_put(t)
    PROVE  IInv'
<1>0. PICK n, s, at, p :
         /\ n = call[t].nonce /\ s = call[t].session /\ at = call[t].at
         /\ p = [user_id |-> call[t].user, reg_challenge |-> n,
                 reg_challenge_time |-> at]
  OBVIOUS
<1>1. /\ Writing(t) /\ call[t].op = "offer" /\ call[t].op \in Minting
      /\ pending' = [pending EXCEPT ![s] = p] /\ binding' = binding
      /\ minted' = minted \union {[nonce |-> n, at |-> at]}
      /\ withdrawn' = withdrawn \union LiveOffer(s)
      /\ Ends(t, "ok")
      /\ UNCHANGED <<now, registered, refreshed, advertised>>
  BY <1>0 DEF offer_put, Serving, Writing, Minting, put_pending_registration
<1>2. /\ call[t] \in Calls /\ n \in Nonces /\ n \notin used
      /\ at \in Nat /\ used' = used \union {n}
      /\ minted' \subseteq [nonce : Nonces, at : Nat]
      /\ used' \subseteq 1 .. MaxNonces
      /\ \A q \in Others(t) :
            call[q].op \in Minting => call[q].nonce \notin used'
  BY <1>0, <1>1, TokenStored
<1>3. s \in Sessions /\ p \in PendingRegistration
  BY <1>0, <1>2 DEF Calls, PendingRegistration
<1>4. CallsGood'
  <2>1. CallsGood /\ now \in Nat /\ "ok" \in Outcomes /\ call[t] # Absent
    BY <1>1 DEF IInv, Types, TypeOK, CallsGood, CallInv, Outcomes, Writing
  <2>2. QED
    BY <1>1, <1>2, <2>1, EndsKeeps
<1>5. /\ pending'[s] = p /\ IsRecord(p)
      /\ \A q \in Sessions \ {s} : pending'[q] = pending[q]
  BY <1>1, <1>3, RecordsAreRecords DEF IInv, Types, TypeOK
<1>6. /\ LiveOffer(s)' = {n}
      /\ \A q \in Sessions \ {s} : LiveOffer(q)' = LiveOffer(q)
  BY <1>0, <1>5 DEF LiveOffer
<1>7. \A q \in Sessions : LiveOffer(q) \subseteq used
  BY StoredTokensAreUsed
<1>8. Types'
  <2>1. pending' \in [Sessions -> PendingRegistration \union {Absent, Corrupt}]
    BY <1>1, <1>3 DEF IInv, Types, TypeOK
  <2>2. withdrawn' \subseteq Nonces
    BY <1>1, <1>3, <1>7 DEF IInv, Types, TypeOK, used
  <2>3. QED
    BY <1>1, <1>2, <1>4, <2>1, <2>2 DEF IInv, Types, TypeOK, CallsGood
<1>9. StoreInv'
  <2>1. OffersAreMinted'
    BY <1>0, <1>1, <1>5 DEF IInv, OffersAreMinted
  <2>2. OffersAreOwn'
    BY <1>2, <1>6, <1>7 DEF IInv, OffersAreOwn
  <2>3. HistoryIsUsed'
    <3>1. \A q \in Sessions : LiveOffer(q)' \intersect withdrawn' = {}
      BY <1>1, <1>2, <1>3, <1>6, <1>7 DEF IInv, HistoryIsUsed, OffersAreOwn
    <3>2. QED
      BY <1>1, <1>2, <1>3, <1>7, <3>1 DEF IInv, HistoryIsUsed
  <2>4. OfferSingleUse'
    <3>1. \A g \in registered : g.offer \notin withdrawn'
      BY <1>1, <1>3 DEF IInv, OfferSingleUse
    <3>2. \A q \in Sessions :
             LiveOffer(q)' \intersect {g.offer : g \in registered} = {}
      BY <1>2, <1>6 DEF IInv, OfferSingleUse, HistoryIsUsed
    <3>3. QED
      BY <1>1, <3>1, <3>2 DEF IInv, OfferSingleUse
  <2>5. ChallengesAreOwn' /\ BindingsAreRegistered' /\ ChallengeSingleUse'
    BY <1>1
    DEF IInv, ChallengesAreOwn, Challenges, BindingsAreRegistered,
        ChallengeSingleUse
  <2>6. TimesTrue' /\ ProofsAreYoung' /\ DeviceBound'
    BY <1>1 DEF IInv, TimesTrue, Dated, ProofsAreYoung, DeviceBound
  <2>7. QED
    BY <2>1, <2>2, <2>3, <2>4, <2>5, <2>6 DEF StoreInv
<1>10. QED
  BY <1>4, <1>8, <1>9, Parts DEF CallsGood, IInv, CallInv, StoreInv

\* register() takes the offer and stores a binding.
LEMMA RegisterCommitKeeps ==
    ASSUME IInv, NEW t \in Tasks, register_commit(t)
    PROVE  IInv'
<1>0. PICK n, s, at, p, k, b, g :
         /\ n = call[t].nonce /\ s = call[t].session /\ at = call[t].at
         /\ p = call[t].read /\ k = call[t].jwt.key
         /\ b = new_binding(p, call[t].user, k, n, at)
         /\ g = [offer |-> p.reg_challenge, sid |-> n, key |-> k,
                 user |-> binding'[s].user_id, at |-> at]
  OBVIOUS
<1>1. /\ Writing(t) /\ call[t].op = "register" /\ call[t].op \in Minting
      /\ pending[s] = p /\ pending' = [pending EXCEPT ![s] = Absent]
      /\ binding' = [binding EXCEPT ![s] = b]
      /\ minted' = minted \union {[nonce |-> n, at |-> at]}
      /\ registered' = registered \union {g}
      /\ Ends(t, "ok")
      /\ UNCHANGED <<now, refreshed, withdrawn, advertised>>
  BY <1>0 DEF register_commit, Serving, Writing, Minting, commit_registration
<1>2. /\ call[t] \in Calls /\ n \in Nonces /\ n \notin used
      /\ at \in Nat /\ used' = used \union {n}
      /\ minted' \subseteq [nonce : Nonces, at : Nat]
      /\ used' \subseteq 1 .. MaxNonces
      /\ \A q \in Others(t) :
            call[q].op \in Minting => call[q].nonce \notin used'
  BY <1>0, <1>1, TokenStored
<1>3. /\ s \in Sessions /\ call[t].user \in UserIds
      /\ p \in PendingRegistration /\ k \in Keys
      /\ at - p.reg_challenge_time <= ChallengeTtl
  <2>1. /\ p \in PendingRegistration /\ call[t].jwt \in Jwts
        /\ registration_outcome(p, call[t].user, call[t].jwt, at) = "verified"
    BY <1>0, <1>1, <1>2 DEF IInv, WritesAreJustified, Justified, Calls
  <2>2. QED
    BY <1>0, <1>2, <2>1, VerifiedMeans DEF Calls
<1>4. /\ b \in Binding /\ IsRecord(b) /\ IsRecord(p)
      /\ b.session_identifier = n /\ b.cookie_value = n /\ b.challenge = n
      /\ b.challenge_time = at /\ b.created_at = at /\ b.cookie_issued_at = at
      /\ b.public_key = k /\ b.previous_challenge = NoNonce
      /\ b.previous_cookie_value = NoNonce
  BY <1>0, <1>2, <1>3, NewBindingType, RecordsAreRecords DEF new_binding
<1>5. /\ binding'[s] = b /\ pending'[s] = Absent
      /\ \A q \in Sessions \ {s} :
            binding'[q] = binding[q] /\ pending'[q] = pending[q]
  BY <1>1, <1>3 DEF IInv, Types, TypeOK
<1>6. /\ g.offer = p.reg_challenge /\ g.sid = n /\ g.key = k /\ g.at = at
      /\ g.user = b.user_id
      /\ g \in [offer : Nonces, sid : Nonces, key : Keys, user : UserIds,
                at : Nat]
  BY <1>0, <1>2, <1>3, <1>4, <1>5 DEF PendingRegistration, Binding
<1>7. CallsGood'
  <2>1. CallsGood /\ now \in Nat /\ "ok" \in Outcomes /\ call[t] # Absent
    BY <1>1 DEF IInv, Types, TypeOK, CallsGood, CallInv, Outcomes, Writing
  <2>2. QED
    BY <1>1, <1>2, <2>1, EndsKeeps
<1>8. Types'
  <2>1. /\ pending' \in [Sessions -> PendingRegistration
                                        \union {Absent, Corrupt}]
        /\ binding' \in [Sessions -> Binding \union {Absent, Corrupt}]
    BY <1>1, <1>4 DEF IInv, Types, TypeOK
  <2>2. QED
    BY <1>1, <1>2, <1>6, <1>7, <2>1 DEF IInv, Types, TypeOK, CallsGood
<1>9. /\ p.reg_challenge \in LiveOffer(s) /\ LiveOffer(s)' = {}
      /\ \A q \in Sessions \ {s} : LiveOffer(q)' = LiveOffer(q)
  BY <1>1, <1>4, <1>5 DEF LiveOffer, IsRecord
<1>10. /\ \A q \in Sessions : LiveOffer(q) \subseteq used
       /\ \A q \in Sessions : Challenges(q) \subseteq used
  BY StoredTokensAreUsed
<1>11. StoreInv'
  <2>1. Dated(b)'
    BY <1>1, <1>4 DEF Dated
  <2>2. \A q \in Sessions \ {s} :
           {b.challenge, b.previous_challenge} \intersect Challenges(q) = {}
    BY <1>2, <1>4, <1>10 DEF Challenges
  <2>3. BindingsAreRegistered' /\ TimesTrue' /\ ChallengesAreOwn'
    BY <1>1, <1>3, <1>4, <1>6, <2>1, <2>2, BindingWritten, ZenonT(60)
  <2>4. OffersAreMinted' /\ OffersAreOwn'
    BY <1>1, <1>5, <1>9
    DEF IInv, OffersAreMinted, OffersAreOwn, IsRecord
  <2>5. HistoryIsUsed'
    <3>1. \A h \in registered' : h.offer \in used' /\ h.sid \in used'
      BY <1>1, <1>2, <1>3, <1>6, <1>9, <1>10 DEF IInv, HistoryIsUsed
    <3>2. QED
      BY <1>1, <1>2, <1>9, <3>1 DEF IInv, HistoryIsUsed
  <2>6. ProofsAreYoung'
    <3>1. [nonce |-> p.reg_challenge, at |-> p.reg_challenge_time] \in minted
      BY <1>1, <1>3, <1>4 DEF IInv, OffersAreMinted
    <3>2. \E m \in minted' : m.nonce = g.offer /\ g.at - m.at <= ChallengeTtl
      BY <1>1, <1>3, <1>6, <3>1
    <3>3. QED
      BY <1>1, <3>2 DEF IInv, ProofsAreYoung
  <2>7. ChallengeSingleUse'
    <3>1. \A r \in refreshed : r.jti \in used /\ r.jti # NoNonce
      BY DEF IInv, HistoryIsUsed, Types, NoNonce
    <3>2. QED
      BY <1>1, <1>2, <1>4, <1>5, <3>1 DEF IInv, ChallengeSingleUse
  <2>8. OfferSingleUse'
    <3>1. \A h \in registered : h.offer # g.offer
      BY <1>3, <1>6, <1>9 DEF IInv, OfferSingleUse
    <3>2. g.offer \notin withdrawn
      BY <1>3, <1>6, <1>9 DEF IInv, HistoryIsUsed
    <3>3. \A q \in Sessions :
             LiveOffer(q)' \intersect {h.offer : h \in registered'} = {}
      BY <1>1, <1>3, <1>6, <1>9 DEF IInv, OfferSingleUse, OffersAreOwn
    <3>4. QED
      BY <1>1, <3>1, <3>2, <3>3 DEF IInv, OfferSingleUse
  <2>9. DeviceBound'
    BY <1>1 DEF IInv, DeviceBound
  <2>10. QED
    BY <2>3, <2>4, <2>5, <2>6, <2>7, <2>8, <2>9 DEF StoreInv
<1>12. QED
  BY <1>7, <1>8, <1>11, Parts DEF CallsGood, IInv, CallInv, StoreInv

\* Steps that change a binding, and no offer: what is left to show of IInv.
LEMMA OffersUntouched ==
    ASSUME IInv, used \subseteq used', minted \subseteq minted',
           UNCHANGED <<pending, registered, withdrawn>>
    PROVE  /\ OffersAreMinted' /\ OffersAreOwn' /\ OfferSingleUse'
           /\ withdrawn' \subseteq used'
           /\ \A g \in registered' : g.offer \in used' /\ g.sid \in used'
           /\ \A s \in Sessions : LiveOffer(s)' \intersect withdrawn' = {}
           /\ \A g \in registered' : \E m \in minted' :
                 m.nonce = g.offer /\ g.at - m.at <= ChallengeTtl
BY DEF IInv, OffersAreMinted, OffersAreOwn, OfferSingleUse, HistoryIsUsed,
       ProofsAreYoung, LiveOffer

\* issue_refresh_challenge() rotates the challenge.
LEMMA IssueReplaceKeeps ==
    ASSUME IInv, NEW t \in Tasks, issue_replace(t)
    PROVE  IInv'
<1>0. PICK n, s, at, b, c :
         /\ n = call[t].nonce /\ s = call[t].session /\ at = call[t].at
         /\ b = call[t].read /\ c = with_challenge(b, n, at)
  OBVIOUS
<1>1. /\ Writing(t) /\ call[t].op = "issue" /\ call[t].op \in Minting
      /\ binding[s] = b /\ binding' = [binding EXCEPT ![s] = c]
      /\ minted' = minted \union {[nonce |-> n, at |-> at]}
      /\ Ends(t, "ok")
      /\ UNCHANGED <<pending, now, registered, refreshed, withdrawn,
                     advertised>>
  BY <1>0 DEF issue_replace, Serving, Writing, Minting, replace_binding, history
<1>2. /\ call[t] \in Calls /\ n \in Nonces /\ n \notin used
      /\ at \in Nat /\ used' = used \union {n}
      /\ minted' \subseteq [nonce : Nonces, at : Nat]
      /\ used' \subseteq 1 .. MaxNonces
      /\ \A q \in Others(t) :
            call[q].op \in Minting => call[q].nonce \notin used'
  BY <1>0, <1>1, TokenStored
<1>3. s \in Sessions /\ b \in Binding /\ IsRecord(b)
  BY <1>0, <1>1, <1>2, RecordsAreRecords
  DEF IInv, WritesAreJustified, Justified, Calls
<1>4. /\ c \in Binding /\ IsRecord(c) /\ c.challenge = n
      /\ c.challenge_time = at /\ c.previous_challenge = b.challenge
      /\ c.previous_challenge_time = b.challenge_time
      /\ c.user_id = b.user_id /\ c.public_key = b.public_key
      /\ c.session_identifier = b.session_identifier
      /\ c.created_at = b.created_at /\ c.cookie_value = b.cookie_value
      /\ c.cookie_issued_at = b.cookie_issued_at
      /\ c.previous_cookie_value = b.previous_cookie_value
      /\ c.previous_cookie_expires_at = b.previous_cookie_expires_at
  BY <1>0, <1>2, <1>3, WithChallenge, RecordsAreRecords, SMTT(30)
<1>5. /\ binding'[s] = c
      /\ \A q \in Sessions \ {s} : binding'[q] = binding[q]
  BY <1>1, <1>3 DEF IInv, Types, TypeOK
<1>6. CallsGood'
  <2>1. CallsGood /\ now \in Nat /\ "ok" \in Outcomes /\ call[t] # Absent
    BY <1>1 DEF IInv, Types, TypeOK, CallsGood, CallInv, Outcomes, Writing
  <2>2. QED
    BY <1>1, <1>2, <2>1, EndsKeeps
<1>7. Types'
  <2>1. binding' \in [Sessions -> Binding \union {Absent, Corrupt}]
    BY <1>1, <1>4 DEF IInv, Types, TypeOK
  <2>2. QED
    BY <1>1, <1>2, <1>6, <2>1 DEF IInv, Types, TypeOK, CallsGood
<1>8. StoreInv'
  <2>1. Dated(c)'
    BY <1>1, <1>3, <1>4 DEF Dated, IInv, TimesTrue
  <2>2. \A q \in Sessions \ {s} :
           {c.challenge, c.previous_challenge} \intersect Challenges(q) = {}
    <3>1. b.challenge \in Challenges(s)
      BY <1>1, <1>3, StoredTokensAreUsed DEF Challenges
    <3>2. QED
      BY <1>2, <1>3, <1>4, <3>1, StoredTokensAreUsed DEF IInv, ChallengesAreOwn
  <2>3. BindingsAreRegistered' /\ TimesTrue' /\ ChallengesAreOwn'
    <3>1. \E g \in registered' :
             /\ g.sid = c.session_identifier
             /\ g.key = c.public_key
             /\ g.user = c.user_id
      BY <1>1, <1>3, <1>4 DEF IInv, BindingsAreRegistered
    <3>2. QED
      BY <1>1, <1>3, <1>4, <2>1, <2>2, <3>1, BindingWritten
  <2>4. ChallengeSingleUse'
    <3>1. \A r \in refreshed : r.jti # n /\ r.jti # b.challenge
      BY <1>1, <1>2, <1>3 DEF IInv, HistoryIsUsed, ChallengeSingleUse
    <3>2. QED
      BY <1>1, <1>4, <1>5, <3>1 DEF IInv, ChallengeSingleUse
  <2>5. ProofsAreYoung' /\ HistoryIsUsed'
    BY <1>1, <1>2, OffersUntouched DEF IInv, ProofsAreYoung, HistoryIsUsed
  <2>6. DeviceBound'
    BY <1>1 DEF IInv, DeviceBound
  <2>7. QED
    BY <1>1, <1>2, <2>3, <2>4, <2>5, <2>6, OffersUntouched DEF StoreInv
<1>9. QED
  BY <1>6, <1>7, <1>8, Parts DEF CallsGood, IInv, CallInv, StoreInv

\* refresh() spends the challenge and rotates the cookie.
LEMMA RefreshReplaceKeeps ==
    ASSUME IInv, NEW t \in Tasks, refresh_replace(t)
    PROVE  IInv'
<1>0. PICK n, s, at, b, c, jwt, r :
         /\ n = call[t].nonce /\ s = call[t].session /\ at = call[t].at
         /\ b = call[t].read /\ jwt = call[t].jwt
         /\ c = with_rotated_cookie_and_challenge(b, n, at)
         /\ r = [sid |-> b.session_identifier, jti |-> jwt.jti,
                 key |-> jwt.key, user |-> call[t].user, cookie |-> n,
                 at |-> at]
  OBVIOUS
<1>1. /\ Writing(t) /\ call[t].op = "refresh" /\ call[t].op \in Minting
      /\ binding[s] = b /\ binding' = [binding EXCEPT ![s] = c]
      /\ minted' = minted \union {[nonce |-> n, at |-> at]}
      /\ refreshed' = refreshed \union {r}
      /\ Ends(t, "ok")
      /\ UNCHANGED <<pending, now, registered, withdrawn, advertised>>
  BY <1>0 DEF refresh_replace, Serving, Writing, Minting, replace_binding
<1>2. /\ call[t] \in Calls /\ n \in Nonces /\ n \notin used
      /\ at \in Nat /\ used' = used \union {n}
      /\ minted' \subseteq [nonce : Nonces, at : Nat]
      /\ used' \subseteq 1 .. MaxNonces
      /\ \A q \in Others(t) :
            call[q].op \in Minting => call[q].nonce \notin used'
  BY <1>0, <1>1, TokenStored
<1>3. /\ s \in Sessions /\ b \in Binding /\ IsRecord(b)
      /\ call[t].user \in UserIds /\ jwt \in Jwts
      /\ same_user(b.user_id, call[t].user)
      /\ at - b.challenge_time <= ChallengeTtl
      /\ jwt.key = b.public_key
      /\ challenge_matches(b, jwt.jti, at)
  <2>1. /\ b \in Binding /\ jwt \in Jwts
        /\ refresh_outcome(b, call[t].user, call[t].id, jwt, at) = "proved"
    BY <1>0, <1>1, <1>2 DEF IInv, WritesAreJustified, Justified, Calls
  <2>2. QED
    BY <1>0, <1>2, <2>1, ProvedMeans, RecordsAreRecords DEF Calls
<1>4. /\ c \in Binding /\ IsRecord(c) /\ c.challenge = n
      /\ c.challenge_time = at /\ c.previous_challenge = NoNonce
      /\ c.user_id = b.user_id /\ c.public_key = b.public_key
      /\ c.session_identifier = b.session_identifier
      /\ c.created_at = b.created_at /\ c.cookie_value = n
      /\ c.cookie_issued_at = at
      /\ c.previous_cookie_value = b.cookie_value
      /\ c.previous_cookie_expires_at = b.cookie_issued_at + CookieMaxAge
  <2>1. c = with_rotated_cookie_and_challenge(b, n, at)
    BY <1>0
  <2>2. b \in Binding /\ n \in Nonces /\ at \in Nat
    BY <1>2, <1>3
  <2>3. c \in Binding => IsRecord(c)
    BY RecordsAreRecords
  <2>4. QED
    BY <2>1, <2>2, <2>3, WithRotated
<1>5. /\ binding'[s] = c
      /\ \A q \in Sessions \ {s} : binding'[q] = binding[q]
  BY <1>1, <1>3 DEF IInv, Types, TypeOK
<1>6. /\ r.sid = b.session_identifier /\ r.jti = jwt.jti /\ r.key = jwt.key
      /\ r.user = call[t].user /\ r.at = at
      /\ r \in [sid : Nonces, jti : Nat, key : Keys, user : UserIds,
                cookie : Nonces, at : Nat]
  BY <1>0, <1>2, <1>3 DEF Binding, Jwts
<1>7. jwt.jti \in Challenges(s) /\ jwt.jti \in used /\ jwt.jti # NoNonce
  <2>1. b.challenge # NoNonce
    BY <1>1, <1>3, StoredTokensAreUsed
  <2>2. Challenges(s) = {b.challenge, b.previous_challenge} \ {NoNonce}
    BY <1>1, <1>3 DEF Challenges
  <2>3. jwt.jti \in Challenges(s)
    BY <1>3, <2>1, <2>2 DEF challenge_matches
  <2>4. QED
    BY <1>3, <2>2, <2>3, StoredTokensAreUsed
<1>8. CallsGood'
  <2>1. CallsGood /\ now \in Nat /\ "ok" \in Outcomes /\ call[t] # Absent
    BY <1>1 DEF IInv, Types, TypeOK, CallsGood, CallInv, Outcomes, Writing
  <2>2. QED
    BY <1>1, <1>2, <2>1, EndsKeeps
<1>9. Types'
  <2>1. binding' \in [Sessions -> Binding \union {Absent, Corrupt}]
    BY <1>1, <1>4 DEF IInv, Types, TypeOK
  <2>2. QED
    BY <1>1, <1>2, <1>6, <1>8, <2>1 DEF IInv, Types, TypeOK, CallsGood
<1>10. StoreInv'
  <2>0. Dated(b)
    BY <1>1, <1>3 DEF IInv, TimesTrue
  <2>1. Dated(c)'
    <3>1. PICK m \in minted :
             m = [nonce |-> b.cookie_value, at |-> b.cookie_issued_at]
      BY <2>0 DEF Dated
    <3>2. m.nonce = b.cookie_value /\ m.at = b.cookie_issued_at
      BY <3>1
    <3>3. \E x \in minted' :
             /\ x.nonce = c.previous_cookie_value
             /\ c.previous_cookie_expires_at = x.at + CookieMaxAge
      BY <1>1, <1>4, <3>1, <3>2
    <3>4. QED
      BY <1>1, <1>4, <2>0, <3>3 DEF Dated
  <2>2. \A q \in Sessions \ {s} :
           {c.challenge, c.previous_challenge} \intersect Challenges(q) = {}
    BY <1>2, <1>4, StoredTokensAreUsed DEF Challenges
  <2>3. BindingsAreRegistered' /\ TimesTrue' /\ ChallengesAreOwn'
    <3>1. \E g \in registered' :
             /\ g.sid = c.session_identifier
             /\ g.key = c.public_key
             /\ g.user = c.user_id
      BY <1>1, <1>3, <1>4 DEF IInv, BindingsAreRegistered
    <3>2. QED
      BY <1>1, <1>3, <1>4, <2>1, <2>2, <3>1, BindingWritten
  <2>4. ChallengeSingleUse'
    <3>1. \A q \in refreshed : q.jti \in used /\ q.jti # r.jti
      BY <1>1, <1>3, <1>6, <1>7
      DEF IInv, HistoryIsUsed, ChallengeSingleUse, Challenges
    <3>2. \A q \in Sessions \ {s} : IsRecord(binding[q]) =>
             r.jti \notin {binding[q].challenge, binding[q].previous_challenge}
      BY <1>3, <1>6, <1>7 DEF IInv, ChallengesAreOwn, Challenges
    <3>3. NoNonce \notin used
      BY DEF IInv, Types, NoNonce
    <3>4. QED
      BY <1>1, <1>2, <1>4, <1>5, <1>6, <1>7, <3>1, <3>2, <3>3
      DEF IInv, ChallengeSingleUse
  <2>5. \E m \in minted' : m.nonce = r.jti /\ r.at - m.at <= ChallengeTtl
    <3>1. CASE jwt.jti = b.challenge
      <4>1. PICK m \in minted :
               m = [nonce |-> b.challenge, at |-> b.challenge_time]
        BY <2>0 DEF Dated
      <4>2. m.nonce = r.jti /\ r.at - m.at <= ChallengeTtl
        BY <1>3, <1>6, <3>1, <4>1
      <4>3. QED
        BY <1>1, <4>1, <4>2
    <3>2. CASE /\ b.previous_challenge # NoNonce
               /\ at - b.previous_challenge_time <= ChallengeTtl
               /\ jwt.jti = b.previous_challenge
      <4>1. PICK m \in minted :
               m = [nonce |-> b.previous_challenge,
                    at |-> b.previous_challenge_time]
        BY <2>0, <3>2 DEF Dated
      <4>2. m.nonce = r.jti /\ r.at - m.at <= ChallengeTtl
        BY <1>6, <3>2, <4>1
      <4>3. QED
        BY <1>1, <4>1, <4>2
    <3>3. QED
      BY <1>3, <3>1, <3>2 DEF challenge_matches
  <2>6. ProofsAreYoung' /\ HistoryIsUsed'
    BY <1>1, <1>2, <1>6, <1>7, <2>5, OffersUntouched
    DEF IInv, ProofsAreYoung, HistoryIsUsed
  <2>7. DeviceBound'
    <3>1. \E g \in registered :
             g.sid = r.sid /\ g.key = r.key /\ same_user(g.user, r.user)
      BY <1>1, <1>3, <1>6 DEF IInv, BindingsAreRegistered
    <3>2. QED
      BY <1>1, <3>1 DEF IInv, DeviceBound
  <2>8. QED
    BY <1>1, <1>2, <2>3, <2>4, <2>6, <2>7, OffersUntouched DEF StoreInv
<1>11. QED
  BY <1>8, <1>9, <1>10, Parts DEF CallsGood, IInv, CallInv, StoreInv

\* advertise_refresh_challenge() marks the seed as delivered.
LEMMA AdvertiseReplaceKeeps ==
    ASSUME IInv, NEW t \in Tasks, advertise_replace(t)
    PROVE  IInv'
<1>0. PICK s, b, c :
         /\ s = call[t].session /\ b = call[t].read
         /\ c = mark_challenge_advertised(b)
  OBVIOUS
<1>1. /\ Writing(t) /\ call[t] # Absent /\ call[t].op = "advertise"
      /\ binding[s] = b /\ binding' = [binding EXCEPT ![s] = c]
      /\ Ends(t, "ok")
      /\ UNCHANGED <<pending, now, minted, registered, refreshed, withdrawn,
                     advertised>>
  BY <1>0 DEF advertise_replace, Serving, Writing, replace_binding, history
<1>2. call[t] \in Calls /\ used' = used
  BY <1>1 DEF IInv, Types, TypeOK, used
<1>3. s \in Sessions /\ b \in Binding /\ IsRecord(b)
  BY <1>0, <1>1, <1>2, RecordsAreRecords
  DEF IInv, WritesAreJustified, Justified, Calls
<1>4. /\ c \in Binding /\ c.challenge = b.challenge
      /\ c.challenge_time = b.challenge_time
      /\ c.previous_challenge = b.previous_challenge
      /\ c.previous_challenge_time = b.previous_challenge_time
      /\ c.user_id = b.user_id /\ c.public_key = b.public_key
      /\ c.session_identifier = b.session_identifier
      /\ c.created_at = b.created_at /\ c.cookie_value = b.cookie_value
      /\ c.cookie_issued_at = b.cookie_issued_at
      /\ c.previous_cookie_value = b.previous_cookie_value
      /\ c.previous_cookie_expires_at = b.previous_cookie_expires_at
  BY <1>0, <1>3, MarkAdvertised
<1>5. /\ binding'[s] = c
      /\ \A q \in Sessions \ {s} : binding'[q] = binding[q]
  BY <1>1, <1>3 DEF IInv, Types, TypeOK
<1>6. CallsGood'
  <2>1. CallsGood /\ now \in Nat /\ "ok" \in Outcomes
    BY DEF IInv, Types, TypeOK, CallsGood, CallInv, Outcomes
  <2>2. \A q \in Others(t) :
           call[q].op \in Minting => call[q].nonce \notin used'
    BY <1>2 DEF Others, IInv, WritesAreJustified, Justified
  <2>3. QED
    BY <1>0, <1>1, <1>2, <1>3, <2>1, <2>2, EndsKeeps
<1>7. Types'
  <2>1. binding' \in [Sessions -> Binding \union {Absent, Corrupt}]
    BY <1>1, <1>4 DEF IInv, Types, TypeOK
  <2>2. QED
    BY <1>1, <1>2, <1>6, <2>1 DEF IInv, Types, TypeOK, CallsGood
<1>8. StoreInv'
  <2>1. Dated(c)'
    BY <1>1, <1>3, <1>4 DEF Dated, IInv, TimesTrue
  <2>2. \A q \in Sessions \ {s} :
           {c.challenge, c.previous_challenge} \intersect Challenges(q) = {}
    <3>1. /\ Challenges(s) = {b.challenge, b.previous_challenge} \ {NoNonce}
          /\ \A q \in Sessions : NoNonce \notin Challenges(q)
      BY <1>1, <1>3 DEF Challenges
    <3>2. QED
      BY <1>3, <1>4, <3>1 DEF IInv, ChallengesAreOwn
  <2>3. BindingsAreRegistered' /\ TimesTrue' /\ ChallengesAreOwn'
    <3>1. \E g \in registered' :
             /\ g.sid = c.session_identifier
             /\ g.key = c.public_key
             /\ g.user = c.user_id
      BY <1>1, <1>3, <1>4 DEF IInv, BindingsAreRegistered
    <3>2. QED
      BY <1>1, <1>3, <1>4, <2>1, <2>2, <3>1, BindingWritten
  <2>4. ChallengeSingleUse'
    BY <1>1, <1>3, <1>4, <1>5 DEF IInv, ChallengeSingleUse
  <2>5. ProofsAreYoung' /\ HistoryIsUsed'
    BY <1>1, <1>2, OffersUntouched DEF IInv, ProofsAreYoung, HistoryIsUsed
  <2>6. DeviceBound'
    BY <1>1 DEF IInv, DeviceBound
  <2>7. QED
    BY <1>1, <1>2, <2>3, <2>4, <2>5, <2>6, OffersUntouched DEF StoreInv
<1>9. QED
  BY <1>6, <1>7, <1>8, Parts DEF CallsGood, IInv, CallInv, StoreInv

\* revoke() removes the offer and the binding of a session.
LEMMA RevokeDeleteKeeps ==
    ASSUME IInv, NEW t \in Tasks, revoke_delete(t)
    PROVE  IInv'
<1>0. PICK s, out :
         /\ s = call[t].session
         /\ out = IF call[t].read # Absent THEN "ok" ELSE "unchanged"
  OBVIOUS
<1>1. /\ call[t] # Absent /\ call[t].op = "revoke"
      /\ pending' = [pending EXCEPT ![s] = Absent]
      /\ binding' = [binding EXCEPT ![s] = Absent]
      /\ withdrawn' = withdrawn \union LiveOffer(s)
      /\ Ends(t, out)
      /\ UNCHANGED <<now, minted, registered, refreshed, advertised>>
  BY <1>0 DEF revoke_delete, Serving, delete
<1>2. /\ call[t] \in Calls /\ used' = used /\ out \in Outcomes
      /\ CallsGood /\ now \in Nat
  BY <1>0, <1>1
  DEF IInv, Types, TypeOK, used, Outcomes, CallsGood, CallInv
<1>3. s \in Sessions
  BY <1>0, <1>2 DEF Calls
<1>4. CallsGood'
  <2>1. \A q \in Others(t) :
           call[q].op \in Minting => call[q].nonce \notin used'
    BY <1>2 DEF Others, IInv, WritesAreJustified, Justified
  <2>2. QED
    BY <1>1, <1>2, <2>1, EndsKeeps
<1>5. Types'
  <2>1. /\ pending' \in [Sessions -> PendingRegistration
                                        \union {Absent, Corrupt}]
        /\ binding' \in [Sessions -> Binding \union {Absent, Corrupt}]
    BY <1>1 DEF IInv, Types, TypeOK
  <2>2. LiveOffer(s) \subseteq Nonces
    BY <1>3, StoredTokensAreUsed DEF IInv, Types, TypeOK, used
  <2>3. QED
    BY <1>1, <1>2, <1>4, <2>1, <2>2 DEF IInv, Types, TypeOK, CallsGood
<1>6. StoreInv'
  <2>1. \A q \in Sessions :
           /\ pending'[q] \in {pending[q], Absent, Corrupt}
           /\ binding'[q] \in {binding[q], Absent, Corrupt}
    BY <1>1, <1>3 DEF IInv, Types, TypeOK
  <2>2. pending'[s] = Absent
    BY <1>1, <1>3 DEF IInv, Types, TypeOK
  <2>3. QED
    BY <1>1, <1>3, <2>1, <2>2, ShrinkingKeeps
<1>7. QED
  BY <1>4, <1>5, <1>6, Parts DEF CallsGood, IInv, CallInv, StoreInv

\* Records disappear or become unreadable, and nothing else.
Shrinks ==
    /\ pending' \in [Sessions -> PendingRegistration \union {Absent, Corrupt}]
    /\ binding' \in [Sessions -> Binding \union {Absent, Corrupt}]
    /\ \A s \in Sessions :
          /\ pending'[s] \in {pending[s], Absent, Corrupt}
          /\ binding'[s] \in {binding[s], Absent, Corrupt}

\* Records expire or become unreadable.
LEMMA DisturbKeeps ==
    ASSUME IInv, Disturb
    PROVE  IInv'
<1>1. UNCHANGED <<now, call, minted, registered, refreshed, withdrawn,
                  advertised>>
  BY DEF Disturb, history
<1>2. Shrinks
  <2>0. /\ pending \in [Sessions -> PendingRegistration
                                       \union {Absent, Corrupt}]
        /\ binding \in [Sessions -> Binding \union {Absent, Corrupt}]
    BY DEF IInv, Types, TypeOK
  <2>1. ASSUME NEW P \in SUBSET Sessions, NEW B \in SUBSET Sessions,
               expire(P, B)
        PROVE  Shrinks
    BY <2>0, <2>1 DEF expire, Shrinks
  <2>2. ASSUME NEW s \in Sessions, corrupt_pending_registration(s)
        PROVE  Shrinks
    BY <2>0, <2>2 DEF corrupt_pending_registration, Shrinks
  <2>3. ASSUME NEW s \in Sessions, corrupt_binding(s)
        PROVE  Shrinks
    BY <2>0, <2>3 DEF corrupt_binding, Shrinks
  <2>4. QED
    BY <2>1, <2>2, <2>3 DEF Disturb, Disturb_store
<1>3. used' = used
  BY <1>1 DEF used
<1>4. StoreInv'
  BY <1>1, <1>2, ShrinkingKeeps DEF Shrinks
<1>5. Types'
  BY <1>1, <1>2, <1>3 DEF IInv, Types, TypeOK, Shrinks
<1>6. CallInv'
  BY <1>1, <1>3
  DEF IInv, CallInv, CallsRemember, Active, Remembers, WritesAreJustified,
      Writing, Justified, TokensAreOwn
<1>7. QED
  BY <1>4, <1>5, <1>6, Parts DEF IInv, CallInv, StoreInv

\* Nothing that StoreInv speaks of changes.
LEMMA SameStore ==
    ASSUME IInv, UNCHANGED <<pending, binding, minted, registered, refreshed,
                             withdrawn>>
    PROVE  StoreInv'
<1>1. \A s \in Sessions :
         /\ pending'[s] \in {pending[s], Absent, Corrupt}
         /\ binding'[s] \in {binding[s], Absent, Corrupt}
  OBVIOUS
<1>2. QED
  BY <1>1, ShrinkingKeeps

\* Arrivals and steps that write nothing.
LEMMA StillKeeps ==
    ASSUME IInv, Still, CallsGood'
    PROVE  IInv'
<1>1. UNCHANGED <<pending, binding, now, minted, registered, refreshed,
                  withdrawn, advertised, used>>
  BY DEF Still, store, history, used
<1>2. StoreInv'
  BY <1>1, SameStore
<1>3. Types'
  BY <1>1 DEF IInv, Types, TypeOK, CallsGood
<1>4. QED
  BY <1>2, <1>3, Parts DEF CallsGood, IInv, CallInv, StoreInv

\* The answer leaves, and the task is free again.
LEMMA AnswerKeeps ==
    ASSUME IInv, NEW t \in Tasks, answer(t)
    PROVE  IInv'
<1>1. /\ call[t] # Absent /\ Goes(t, Absent)
      /\ UNCHANGED <<pending, binding, now, minted, registered, refreshed,
                     withdrawn>>
  BY DEF answer, store
<1>2. /\ CallsGood /\ now \in Nat /\ used' = used
      /\ call[t] \in Calls /\ Remembers(call[t])
  BY <1>1
  DEF IInv, Types, TypeOK, CallsGood, CallInv, CallsRemember, Active, used
<1>3. CallInv'
  <2>1. \A q \in Others(t) :
           call[q].op \in Minting => call[q].nonce \notin used'
    BY <1>2 DEF Others, IInv, WritesAreJustified, Justified
  <2>2. QED
    BY <1>1, <1>2, <2>1, TaskMoves DEF CallsGood
<1>4. advertised' \subseteq Nonces
  <2>1. CASE call[t].op = "advertise" /\ call[t].out = "ok"
    <3>1. call[t].read.session_identifier \in Nonces
      BY <1>2, <2>1 DEF Remembers, Binding
    <3>2. QED
      BY <2>1, <3>1 DEF answer, IInv, Types, TypeOK
  <2>2. CASE ~ (call[t].op = "advertise" /\ call[t].out = "ok")
    BY <2>2 DEF answer, IInv, Types, TypeOK
  <2>3. QED
    BY <2>1, <2>2
<1>5. Types'
  <2>1. call' \in [Tasks -> Calls \union {Absent}]
    BY <1>1, <1>2 DEF Goes, CallsGood
  <2>2. QED
    BY <1>1, <1>2, <1>4, <2>1 DEF IInv, Types, TypeOK
<1>6. StoreInv'
  BY <1>1, SameStore
<1>7. QED
  BY <1>3, <1>5, <1>6, Parts DEF IInv, CallInv, StoreInv

\* A second passes.
LEMMA TickKeeps ==
    ASSUME IInv, Tick
    PROVE  IInv'
<1>1. /\ now \in Nat /\ now' = now + 1
      /\ UNCHANGED <<pending, binding, call, minted, registered, refreshed,
                     withdrawn, advertised, used>>
  BY DEF Tick, store, history, used, IInv, Types, TypeOK
<1>2. CallsRemember'
  <2> SUFFICES ASSUME NEW t \in Active
               PROVE  Remembers(call[t])'
    BY <1>1 DEF CallsRemember, Active
  <2>1. Remembers(call[t]) /\ call[t].at \in Nat
    BY DEF IInv, CallsRemember, Types, TypeOK, Active, Calls
  <2>2. QED
    BY <1>1, <2>1 DEF Remembers
<1>3. WritesAreJustified'
  <2> SUFFICES ASSUME NEW t \in Tasks, Writing(t)
               PROVE  Justified(call[t])'
    BY <1>1 DEF WritesAreJustified, Writing
  <2>1. Justified(call[t])
    BY DEF IInv, WritesAreJustified
  <2>2. \A at \in 0 .. now : at \in 0 .. now'
    BY <1>1
  <2>3. QED
    BY <1>1, <2>1, <2>2 DEF Justified
<1>4. TokensAreOwn'
  BY <1>1 DEF IInv, TokensAreOwn, Writing
<1>5. Types'
  BY <1>1 DEF IInv, Types, TypeOK
<1>6. StoreInv'
  BY <1>1, SameStore
<1>7. QED
  BY <1>2, <1>3, <1>4, <1>5, <1>6, Parts DEF IInv, CallInv, StoreInv

\* What was given out stays given out.
LEMMA HistoryGrows ==
    ASSUME [Next]_vars
    PROVE  /\ minted \subseteq minted' /\ registered \subseteq registered'
           /\ used \subseteq used'
           /\ PresentedJwts \subseteq PresentedJwts'
           /\ PresentedIds \subseteq PresentedIds'
<1>1. minted \subseteq minted' /\ registered \subseteq registered'
  <2>1. ASSUME NEW t \in Tasks, Request(t)
        PROVE  minted \subseteq minted' /\ registered \subseteq registered'
    BY <2>1
    DEF Request, build_registration_header_response, register,
        issue_refresh_challenge, refresh, get_binding, revoke, Begin, history
  <2>2. ASSUME NEW t \in Tasks, Step(t) \/ abandon(t)
        PROVE  minted \subseteq minted' /\ registered \subseteq registered'
    BY <2>2
    DEF Step, Works, get, offer_check, offer_put, register_check,
        register_commit, register_loses, issue_check, issue_replace,
        issue_loses, refresh_check, refresh_replace, refresh_loses,
        advertise_check, advertise_replace, advertise_loses, replace_raises,
        revoke_delete, get_binding_returns, answer, abandon, Mint, Stop, Again,
        history
  <2>3. QED
    BY <2>1, <2>2 DEF Next, Tick, Disturb, vars, history
<1>2. used \subseteq used'
  BY <1>1 DEF used
<1>3. QED
  BY <1>1, <1>2 DEF PresentedJwts, PresentedIds

\* The ways in which a call goes on: it ends, draws a token, reads, or tries
\* again.
LEMMA WorkMoves ==
    ASSUME IInv, NEW t \in Tasks, Works(t), NEW c, c = call[t]
    PROVE  /\ c # Absent /\ c \in Calls
           /\ \/ c.pc \notin {"get", "answer"}
                 /\ \E out \in Outcomes : Ends(t, out)
              \/ /\ c.pc = "check" /\ c.op \in Minting
                 /\ \E n \in Fresh \intersect Nat :
                       Goes(t, [c EXCEPT !.pc = "write", !.nonce = n,
                                         !.at = now])
              \/ /\ c.pc = "get"
                 /\ Goes(t, [c EXCEPT !.pc = "check",
                                      !.read = binding[c.session]])
              \/ /\ c.pc = "write" /\ c.op \in {"issue", "refresh"}
                 /\ c.attempt <= MaxUpdateAttempts /\ c.attempt < Gets(c.op)
                 /\ Goes(t, [c EXCEPT !.pc = "get", !.attempt = c.attempt + 1,
                                      !.read = Absent, !.nonce = NoNonce,
                                      !.at = 0])
<1>1. call \in [Tasks -> Calls \union {Absent}] /\ now \in Nat
  BY DEF IInv, Types, TypeOK
<1>2. c # Absent
  BY DEF Works, get, offer_check, offer_put, register_check, register_commit,
         register_loses, issue_check, issue_replace, issue_loses,
         refresh_check, refresh_replace, refresh_loses, advertise_replace,
         advertise_loses, replace_raises, revoke_delete, Serving
<1>3. c \in Calls
  BY <1>1, <1>2
<1>4. {"ok", "unchanged", "CorruptStateError", "MissingChallengeError",
       "ChallengeMismatchError"} \subseteq Outcomes
  BY DEF Outcomes, Retryable
<1>5. ASSUME Mint(t)
      PROVE  \E n \in Fresh \intersect Nat :
                Goes(t, [c EXCEPT !.pc = "write", !.nonce = n, !.at = now])
  <2>1. PICK n \in Fresh :
           Goes(t, [c EXCEPT !.pc = "write", !.nonce = n, !.at = now])
    BY <1>5 DEF Mint
  <2>2. n \in Nat
    BY BoundsAssumption DEF Fresh
  <2>3. QED
    BY <2>1, <2>2
<1>6. CASE get(t)
  BY <1>2, <1>3, <1>6 DEF get
<1>7. CASE \/ offer_put(t) \/ register_commit(t) \/ register_loses(t)
           \/ issue_replace(t) \/ refresh_replace(t)
           \/ advertise_replace(t) \/ advertise_loses(t) \/ revoke_delete(t)
           \/ \E op \in {"issue", "refresh", "advertise"} :
                 replace_raises(t, op)
  <2>1. /\ c.pc = "write"
        /\ \/ \E out \in {"ok", "unchanged", "CorruptStateError",
                          "MissingChallengeError"} : Ends(t, out)
    BY <1>7
    DEF offer_put, register_commit, register_loses, issue_replace,
        refresh_replace, advertise_replace, advertise_loses, revoke_delete,
        replace_raises, Stop, Serving
  <2>2. QED
    BY <1>2, <1>3, <1>4, <2>1
<1>8. CASE issue_loses(t) \/ refresh_loses(t)
  <2>1. /\ c.pc = "write" /\ c.op \in {"issue", "refresh"}
        /\ Again(t) \/ Ends(t, "ChallengeMismatchError")
    BY <1>8 DEF issue_loses, refresh_loses, Stop, Serving
  <2>2. ASSUME Again(t)
        PROVE  c.attempt <= MaxUpdateAttempts /\ c.attempt < Gets(c.op)
    BY <1>3, <2>2, AttemptsAssumption DEF Again, Gets, Calls
  <2>3. QED
    BY <1>2, <1>3, <1>4, <2>1, <2>2 DEF Again
<1>9. CASE offer_check(t) \/ issue_check(t)
  BY <1>2, <1>3, <1>4, <1>5, <1>9
  DEF offer_check, issue_check, Stop, Serving, Minting
<1>10. CASE register_check(t)
  <2>1. Mint(t) \/ \E out \in Outcomes : Ends(t, out)
    BY <1>10, OutcomeTypes DEF register_check, Stop
  <2>2. c.pc = "check" /\ c.op \in Minting
    BY <1>10 DEF register_check, Serving, Minting
  <2>3. QED
    BY <1>2, <1>3, <1>5, <2>1, <2>2
<1>11. CASE refresh_check(t)
  <2>1. Mint(t) \/ \E out \in Outcomes : Ends(t, out)
    BY <1>11, OutcomeTypes DEF refresh_check, Stop
  <2>2. c.pc = "check" /\ c.op \in Minting
    BY <1>11 DEF refresh_check, Serving, Minting
  <2>3. QED
    BY <1>2, <1>3, <1>5, <2>1, <2>2
<1>12. QED
  BY <1>6, <1>7, <1>8, <1>9, <1>10, <1>11 DEF Works

------------------------------------------------------------------------------
(* The theorems.                                                            *)

\* IInv holds of the empty store.
LEMMA InitGood == Init => IInv
<1> SUFFICES ASSUME Init PROVE IInv
  OBVIOUS
<1> USE DEF Init, Init_store
<1>1. Types
  BY DEF Types, TypeOK, used
<1>2. CallInv
  BY DEF CallInv, CallsRemember, Active, WritesAreJustified, Writing,
         TokensAreOwn
<1>3. \A s \in Sessions : LiveOffer(s) = {} /\ Challenges(s) = {}
  BY DEF LiveOffer, Challenges, IsRecord
<1>4. \A s \in Sessions : ~ IsRecord(pending[s]) /\ ~ IsRecord(binding[s])
  BY DEF IsRecord
<1>5. StoreInv
  BY <1>3, <1>4
  DEF StoreInv, OffersAreMinted, OffersAreOwn, ChallengesAreOwn,
      HistoryIsUsed, BindingsAreRegistered, TimesTrue, ProofsAreYoung,
      ChallengeSingleUse, OfferSingleUse, DeviceBound
<1>6. QED
  BY <1>1, <1>2, <1>5, Parts

\* Every step keeps IInv.
LEMMA NextGood == IInv /\ [Next]_vars => IInv'
<1> SUFFICES ASSUME IInv, [Next]_vars PROVE IInv'
  OBVIOUS
<1>1. ASSUME NEW t \in Tasks, Request(t) PROVE IInv'
  BY <1>1, RequestKeeps, StillKeeps
<1>2. ASSUME NEW t \in Tasks, Step(t) \/ abandon(t) PROVE IInv'
  <2>1. CASE QuietStep(t)
    BY <2>1, QuietStepKeeps, StillKeeps
  <2>2. CASE offer_put(t)
    BY <2>2, OfferPutKeeps
  <2>3. CASE register_commit(t)
    BY <2>3, RegisterCommitKeeps
  <2>4. CASE issue_replace(t)
    BY <2>4, IssueReplaceKeeps
  <2>5. CASE refresh_replace(t)
    BY <2>5, RefreshReplaceKeeps
  <2>6. CASE advertise_replace(t)
    BY <2>6, AdvertiseReplaceKeeps
  <2>7. CASE revoke_delete(t)
    BY <2>7, RevokeDeleteKeeps
  <2>8. CASE answer(t)
    BY <2>8, AnswerKeeps
  <2>9. QED
    BY <1>2, <2>1, <2>2, <2>3, <2>4, <2>5, <2>6, <2>7, <2>8
    DEF Step, Works, QuietStep
<1>3. CASE Tick
  BY <1>3, TickKeeps
<1>4. CASE Disturb
  BY <1>4, DisturbKeeps
<1>5. CASE UNCHANGED vars
  <2>1. Still /\ call' = call
    BY <1>5 DEF vars, Still, store, history
  <2>2. used' = used /\ now' = now
    BY <2>1, StillUsed
  <2>3. CallsGood'
    BY <2>1, <2>2
    DEF IInv, CallInv, CallsRemember, Active, Remembers, WritesAreJustified,
        Writing, Justified, TokensAreOwn, CallsGood, Types, TypeOK
  <2>4. QED
    BY <2>1, <2>3, StillKeeps
<1>6. QED
  BY <1>1, <1>2, <1>3, <1>4, <1>5 DEF Next

\* The store, the calls in flight and the history always agree, whatever
\* interleaves: the invariant the other theorems rest on.
THEOREM Invariance == Spec => []IInv
BY InitGood, NextGood, PTL DEF Spec

\* A step of a call leaves its number of attempts within bounds.
LEMMA AttemptsKept ==
    ASSUME IInv, ServerTypeOK, [Next]_vars
    PROVE  \A q \in Active' : call'[q].attempt <= Gets(call'[q].op)
<1>1. /\ call \in [Tasks -> Calls \union {Absent}]
      /\ \A t \in Tasks : call[t] # Absent => call[t].attempt <= Gets(call[t].op)
  BY DEF ServerTypeOK, TypeOK, Active
<1>2. \A op \in Ops : Gets(op) \in Nat /\ 1 <= Gets(op)
  BY AttemptsAssumption DEF Gets
<1> DEFINE Bounded == \A q \in Active' : call'[q].attempt <= Gets(call'[q].op)
<1>3. ASSUME NEW t \in Tasks, NEW c, Goes(t, c),
             c # Absent => c.attempt <= Gets(c.op)
      PROVE  Bounded
  BY <1>1, <1>3 DEF Goes, Active
<1>4. CASE call' = call
  BY <1>1, <1>4 DEF Active
<1> HIDE DEF Bounded
<1>5. ASSUME NEW t \in Tasks, Request(t) PROVE Bounded
  <2>1. \E op, pc, s, u, jwt, id, record :
           op \in Ops /\ Begin(t, op, pc, s, u, jwt, id, record)
    BY <1>5
    DEF Request, build_registration_header_response, register,
        issue_refresh_challenge, refresh, get_binding, revoke, Ops
  <2>2. PICK op, pc, s, u, jwt, id, record :
           op \in Ops /\ Begin(t, op, pc, s, u, jwt, id, record)
    BY <2>1
  <2>3. PICK c : c.op = op /\ c.attempt = 1 /\ Goes(t, c)
    BY <2>2 DEF Begin
  <2>4. QED
    BY <1>2, <1>3, <2>2, <2>3
<1>6. ASSUME NEW t \in Tasks, call[t] # Absent,
             NEW c, Goes(t, c), c.op = call[t].op,
             c.attempt = call[t].attempt
      PROVE  Bounded
  BY <1>1, <1>3, <1>6
<1>7. ASSUME NEW t \in Tasks, call[t] # Absent, NEW out, Ends(t, out)
      PROVE  Bounded
  <2>1. PICK c : /\ c = [call[t] EXCEPT !.pc = "answer", !.out = out,
                            !.jwt = NoJwt, !.id = NoNonce, !.at = 0]
                 /\ Goes(t, c)
    BY <1>7 DEF Ends
  <2>2. c.op = call[t].op /\ c.attempt = call[t].attempt
    BY <1>1, <1>7, <2>1 DEF Calls
  <2>3. QED
    BY <1>6, <1>7, <2>1, <2>2
<1>8. ASSUME NEW t \in Tasks, Works(t) PROVE Bounded
  <2>1. PICK c : c = call[t]
    OBVIOUS
  <2>2. c # Absent /\ c \in Calls
    BY <1>8, <2>1, WorkMoves
  <2>3. CASE \E out \in Outcomes : Ends(t, out)
    BY <1>7, <2>1, <2>2, <2>3
  <2>4. CASE \E n \in Fresh \intersect Nat :
                Goes(t, [c EXCEPT !.pc = "write", !.nonce = n, !.at = now])
    <3>1. PICK n, d : /\ d = [c EXCEPT !.pc = "write", !.nonce = n, !.at = now]
                      /\ Goes(t, d)
      BY <2>4
    <3>2. d.op = c.op /\ d.attempt = c.attempt
      BY <2>2, <3>1 DEF Calls
    <3>3. QED
      BY <1>6, <2>1, <2>2, <3>1, <3>2
  <2>5. CASE Goes(t, [c EXCEPT !.pc = "check", !.read = binding[c.session]])
    <3>1. PICK d : /\ d = [c EXCEPT !.pc = "check", !.read = binding[c.session]]
                   /\ Goes(t, d)
      BY <2>5
    <3>2. d.op = c.op /\ d.attempt = c.attempt
      BY <2>2, <3>1 DEF Calls
    <3>3. QED
      BY <1>6, <2>1, <2>2, <3>1, <3>2
  <2>6. CASE /\ c.attempt < Gets(c.op)
             /\ Goes(t, [c EXCEPT !.pc = "get", !.attempt = c.attempt + 1,
                                  !.read = Absent, !.nonce = NoNonce, !.at = 0])
    <3>1. PICK d : /\ d = [c EXCEPT !.pc = "get", !.attempt = c.attempt + 1,
                                    !.read = Absent, !.nonce = NoNonce, !.at = 0]
                   /\ Goes(t, d)
      BY <2>6
    <3>2. /\ d.op = c.op /\ d.attempt = c.attempt + 1
          /\ c.attempt \in Nat /\ c.op \in Ops
      BY <2>2, <3>1, AttemptsAssumption DEF Calls
    <3>3. d.attempt <= Gets(d.op)
      BY <1>2, <2>6, <3>2
    <3>4. QED
      BY <1>3, <3>1, <3>3
  <2>7. QED
    BY <1>8, <2>1, <2>3, <2>4, <2>5, <2>6, WorkMoves, ZenonT(60)
<1>9. ASSUME NEW t \in Tasks, get_binding_returns(t) \/ advertise_check(t)
      PROVE  Bounded
  <2>1. call[t] # Absent
    BY <1>9 DEF get_binding_returns, advertise_check, Serving
  <2>2. CASE \E out : Ends(t, out)
    BY <1>7, <2>1, <2>2
  <2>3. CASE Goes(t, [call[t] EXCEPT !.pc = "write"])
    <3>1. PICK c : c = [call[t] EXCEPT !.pc = "write"] /\ Goes(t, c)
      BY <2>3
    <3>2. c.op = call[t].op /\ c.attempt = call[t].attempt
      BY <1>1, <2>1, <3>1 DEF Calls
    <3>3. QED
      BY <1>6, <2>1, <3>1, <3>2
  <2>4. QED
    BY <1>9, <2>2, <2>3 DEF get_binding_returns, advertise_check, Stop
<1>10. ASSUME NEW t \in Tasks, answer(t) \/ abandon(t) PROVE Bounded
  BY <1>3, <1>10 DEF answer, abandon
<1>11. ASSUME Tick \/ Disturb \/ UNCHANGED vars PROVE Bounded
  BY <1>4, <1>11 DEF Tick, Disturb, vars, Bounded
<1>12. Bounded
  BY <1>5, <1>8, <1>9, <1>10, <1>11 DEF Next, Step
<1>13. QED
  BY <1>12 DEF Bounded

\* Every variable of the server keeps its type, so that no step stores anything
\* but a complete record, and no call of refresh() or issue_refresh_challenge()
\* makes more attempts than _MAX_UPDATE_ATTEMPTS.
THEOREM TypeCorrect == Spec => []ServerTypeOK
<1>1. Init => ServerTypeOK
  BY InitGood DEF Init, Active, ServerTypeOK, IInv, Types
<1>2. IInv /\ IInv' /\ ServerTypeOK /\ [Next]_vars => ServerTypeOK'
  BY AttemptsKept DEF ServerTypeOK, IInv, Types
<1>3. QED
  BY <1>1, <1>2, Invariance, PTL DEF Spec

\* A refresh challenge is spent at most once, by any number of concurrent
\* refresh() calls.
THEOREM ChallengesAreSpentOnce == Spec => []ChallengeSingleUse
<1>1. IInv => ChallengeSingleUse
  BY DEF IInv
<1>2. QED
  BY <1>1, Invariance, PTL

\* A registration offer is taken at most once, and never after it was
\* withdrawn, by any number of concurrent register() calls.
THEOREM OffersAreTakenOnce == Spec => []OfferSingleUse
<1>1. IInv => OfferSingleUse
  BY DEF IInv
<1>2. QED
  BY <1>1, Invariance, PTL

\* Every committed refresh() was signed by the registered key and sent by the
\* registered user.
THEOREM RefreshesAreDeviceBound == Spec => []DeviceBound
<1>1. IInv => DeviceBound
  BY DEF IInv
<1>2. QED
  BY <1>1, Invariance, PTL

\* Every time stored in a binding is that of the token it is stored with.
THEOREM StoredTimesAreTrue == Spec => []TimesTrue
<1>1. IInv => TimesTrue
  BY DEF IInv
<1>2. QED
  BY <1>1, Invariance, PTL

\* No registration and no refresh commits on a challenge older than its TTL.
THEOREM CommittedProofsAreYoung == Spec => []ProofsAreYoung
<1>1. IInv => ProofsAreYoung
  BY DEF IInv
<1>2. QED
  BY <1>1, Invariance, PTL
==============================================================================

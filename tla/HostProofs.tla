----------------------------- MODULE HostProofs ------------------------------
(***************************************************************************)
(* The host uses DbscServer as DbscServer's specification allows, so that  *)
(* what is proved of DbscServer holds in the host; and no session id that  *)
(* a client knew is ever logged in.                                        *)
(***************************************************************************)
EXTENDS Host, DbscServerProofs

\* The operations a handler may be waiting for.
Awaits(next) ==
    IF next \in {"offer", "register", "issue", "refresh"} THEN {next}
    ELSE IF next = "revoke" THEN {"revoke", "advertise"}
    ELSE {"advertise"}

\* What a handler holds for the operation it will begin: things that were
\* given out, and a proof if the operation takes one.
Prepared(t) ==
    LET h == handler[t] IN
    /\ h.req.jwt \in PresentedJwts \union {Absent}
    /\ h.req.id \in PresentedIds
    /\ call[t] = Absent /\ h.next \in {"register", "refresh"} =>
          h.req.jwt # Absent
    /\ call[t] # Absent => call[t].op \in Awaits(h.next)

\* The session id that was drawn for a request is known to nobody, and a login
\* that still has to end the session it came with has not used it.
Drawn(t) ==
    LET h == handler[t] IN
    /\ h.new \notin sent
    /\ h.sid \in sent \union {h.new}
    /\ \A u \in Tasks : handler[u] # Absent /\ handler[u].new = h.new =>
          u = t \/ h.new = Absent
    /\ h.req.route = "login" =>
          h.new \in Sessions /\ h.next \in {"offer", "revoke"}
    /\ h.req.route = "login" /\ h.next = "revoke" => users[h.new] = Absent

Good(t) ==
    IF handler[t] = Absent THEN call[t] = Absent ELSE Prepared(t) /\ Drawn(t)

HandlersGood == \A t \in Tasks : Good(t)

HInv == IInv /\ HostTypeOK /\ HandlersGood

------------------------------------------------------------------------------
(* What the steps of DbscServer do to its calls and its history.            *)

\* A call that works stays the call it is.
LEMMA CallStays ==
    ASSUME IInv, NEW t \in Tasks, Works(t)
    PROVE  /\ call[t] \in Calls
           /\ call'[t] \in Calls /\ call'[t].op = call[t].op
           /\ call'[t].session = call[t].session
           /\ call'[t].user = call[t].user
           /\ call' = [call EXCEPT ![t] = call'[t]]
<1>1. call \in [Tasks -> Calls \union {Absent}]
  BY DEF IInv, Types, TypeOK
<1>2. call[t] # Absent /\ \E c : Goes(t, c)
  BY DEF Works, get, offer_check, offer_put, register_check, register_commit,
         register_loses, issue_check, issue_replace, issue_loses,
         refresh_check, refresh_replace, refresh_loses, advertise_replace,
         advertise_loses, replace_raises, revoke_delete, Serving, Mint, Stop,
         Ends, Again
<1>3. PICK c : c = call[t]
  OBVIOUS
<1>4. c \in Calls
  BY <1>1, <1>2, <1>3
<1>5. \/ \E out \in Outcomes : Ends(t, out)
      \/ \E n \in Nat, at \in Nat :
            Goes(t, [c EXCEPT !.pc = "write", !.nonce = n, !.at = at])
      \/ \E r \in StoredRecords : Goes(t, [c EXCEPT !.pc = "check", !.read = r])
      \/ /\ c.attempt <= MaxUpdateAttempts
         /\ Goes(t, [c EXCEPT !.pc = "get", !.attempt = c.attempt + 1,
                              !.read = Absent, !.nonce = NoNonce, !.at = 0])
  BY <1>3, <1>4, WorkMoves DEF Calls, IInv, Types, TypeOK, StoredRecords
<1>6. \E d \in Calls : /\ d.op = c.op /\ d.session = c.session /\ d.user = c.user
                       /\ call' = [call EXCEPT ![t] = d]
  <2>1. CASE \E out \in Outcomes : Ends(t, out)
    <3>1. PICK out \in Outcomes :
             Goes(t, [c EXCEPT !.pc = "answer", !.out = out, !.jwt = NoJwt,
                               !.id = NoNonce, !.at = 0])
      BY <1>3, <2>1 DEF Ends
    <3>2. [c EXCEPT !.pc = "answer", !.out = out, !.jwt = NoJwt,
                    !.id = NoNonce, !.at = 0] \in Calls
      BY <1>4, CallUpdates
    <3>3. /\ [c EXCEPT !.pc = "answer", !.out = out, !.jwt = NoJwt,
                       !.id = NoNonce, !.at = 0].op = c.op
          /\ [c EXCEPT !.pc = "answer", !.out = out, !.jwt = NoJwt,
                       !.id = NoNonce, !.at = 0].session = c.session
          /\ [c EXCEPT !.pc = "answer", !.out = out, !.jwt = NoJwt,
                       !.id = NoNonce, !.at = 0].user = c.user
      BY <1>4 DEF Calls
    <3>4. QED
      BY <3>1, <3>2, <3>3 DEF Goes
  <2>2. CASE \E n \in Nat, at \in Nat :
                Goes(t, [c EXCEPT !.pc = "write", !.nonce = n, !.at = at])
    BY <1>4, <2>2, CallUpdates DEF Goes, Calls
  <2>3. CASE \E r \in StoredRecords :
                Goes(t, [c EXCEPT !.pc = "check", !.read = r])
    BY <1>4, <2>3, CallUpdates DEF Goes, Calls
  <2>4. CASE /\ c.attempt <= MaxUpdateAttempts
             /\ Goes(t, [c EXCEPT !.pc = "get", !.attempt = c.attempt + 1,
                                  !.read = Absent, !.nonce = NoNonce, !.at = 0])
    BY <1>4, <2>4, CallUpdates DEF Goes, Calls
  <2>5. QED
    BY <1>5, <2>1, <2>2, <2>3, <2>4
<1>7. QED
  BY <1>1, <1>3, <1>4, <1>6

------------------------------------------------------------------------------
(* The host's steps are steps of DbscServer.                                *)

\* A handler begins an operation with arguments DbscServer allows.
LEMMA BeginsIsRequest ==
    ASSUME HInv, NEW t \in Tasks, begins(t)
    PROVE  Request(t)
<1>1. PICK h : h = handler[t]
  OBVIOUS
<1>2. /\ h \in Handlers /\ Prepared(t)
      /\ h.sid \in Sessions /\ h.user \in UserIds
  BY <1>1 DEF begins, HInv, HostTypeOK, HandlersGood, Good, Handlers
<1>3. CASE h.next = "register" /\ register(t, h.sid, h.user, h.req.jwt)
  BY <1>1, <1>2, <1>3 DEF Request, Prepared, register, Begin
<1>4. CASE h.next = "refresh" /\ refresh(t, h.sid, h.user, h.req.jwt, h.req.id)
  BY <1>1, <1>2, <1>4 DEF Request, Prepared, refresh, Begin
<1>5. CASE \/ build_registration_header_response(t, h.sid, h.user)
           \/ issue_refresh_challenge(t, h.sid)
           \/ get_binding(t, h.sid, h.user)
           \/ revoke(t, h.sid)
  BY <1>2, <1>5 DEF Request
<1>6. QED
  BY <1>1, <1>3, <1>4, <1>5 DEF begins

\* What a client may present.
Presentable(req) ==
    /\ req \in HttpRequests
    /\ req.session \in sent \union {Absent}
    /\ req.jwt \in PresentedJwts \union {Absent}
    /\ req.id \in PresentedIds
    /\ req.route = "login" => req.login \in Users

\* Every request that arrives presents what was given out.
LEMMA RequestsAreTyped ==
    ASSUME IInv, HostTypeOK, NEW t \in Tasks, requests(t)
    PROVE  \E req : Presentable(req) /\ handle(t, req)
<1>1. /\ PresentedJwts \subseteq Jwts /\ PresentedIds \subseteq Nat
      /\ used \subseteq Nat /\ sent \subseteq Sessions
      /\ NoNonce \in PresentedIds /\ NoNonce \in Nat
      /\ Users \subseteq UserIds /\ Unknown \in UserIds
  BY DEF PresentedJwts, PresentedIds, Jwts, NoJwt, NoNonce, used, IInv, Types,
         TypeOK, Nonces, HostTypeOK, UserIds
<1>2. ASSUME NEW s \in sent \union {Absent}, NEW route \in {"home", "logout"}
      PROVE  Presentable(Visit(route, s))
  BY <1>1 DEF Visit, Presentable, HttpRequests, Routes
<1>3. PICK s \in sent \union {Absent} :
        \/ \E route \in {"home", "logout"} : handle(t, Visit(route, s))
        \/ \E u \in Users : handle(t, [Visit("login", s) EXCEPT !.login = u])
        \/ \E c \in used \union {NoNonce}, d \in BOOLEAN :
              handle(t, [Visit("account", s) EXCEPT !.cookie = c,
                                                    !.document = d])
        \/ \E jwt \in PresentedJwts \union {Absent} :
              handle(t, [Visit("register", s) EXCEPT !.jwt = jwt])
        \/ \E jwt \in PresentedJwts \union {Absent}, id \in PresentedIds :
              handle(t, [Visit("refresh", s) EXCEPT !.jwt = jwt, !.id = id])
  BY DEF requests
<1>4. CASE \E route \in {"home", "logout"} : handle(t, Visit(route, s))
  BY <1>2, <1>4 DEF Routes
<1>5. CASE \E u \in Users : handle(t, [Visit("login", s) EXCEPT !.login = u])
  <2>1. PICK u \in Users : handle(t, [Visit("login", s) EXCEPT !.login = u])
    BY <1>5
  <2>2. Presentable([Visit("login", s) EXCEPT !.login = u])
    BY <1>1 DEF Visit, Presentable, HttpRequests, Routes
  <2>3. QED
    BY <2>1, <2>2
<1>6. CASE \E c \in used \union {NoNonce}, d \in BOOLEAN :
              handle(t, [Visit("account", s) EXCEPT !.cookie = c,
                                                    !.document = d])
  <2>1. PICK c \in used \union {NoNonce}, d \in BOOLEAN :
              handle(t, [Visit("account", s) EXCEPT !.cookie = c,
                                                    !.document = d])
    BY <1>6
  <2>2. Presentable([Visit("account", s) EXCEPT !.cookie = c, !.document = d])
    BY <1>1 DEF Visit, Presentable, HttpRequests, Routes
  <2>3. QED
    BY <2>1, <2>2
<1>7. CASE \E jwt \in PresentedJwts \union {Absent} :
              handle(t, [Visit("register", s) EXCEPT !.jwt = jwt])
  <2>1. PICK jwt \in PresentedJwts \union {Absent} :
              handle(t, [Visit("register", s) EXCEPT !.jwt = jwt])
    BY <1>7
  <2>2. Presentable([Visit("register", s) EXCEPT !.jwt = jwt])
    BY <1>1 DEF Visit, Presentable, HttpRequests, Routes
  <2>3. QED
    BY <2>1, <2>2
<1>8. CASE \E jwt \in PresentedJwts \union {Absent}, id \in PresentedIds :
              handle(t, [Visit("refresh", s) EXCEPT !.jwt = jwt, !.id = id])
  <2>1. PICK jwt \in PresentedJwts \union {Absent}, id \in PresentedIds :
              handle(t, [Visit("refresh", s) EXCEPT !.jwt = jwt, !.id = id])
    BY <1>8
  <2>2. Presentable([Visit("refresh", s) EXCEPT !.jwt = jwt, !.id = id])
    BY <1>1 DEF Visit, Presentable, HttpRequests, Routes
  <2>3. QED
    BY <2>1, <2>2
<1>9. QED
  BY <1>3, <1>4, <1>5, <1>6, <1>7, <1>8

\* So every step of the host is one of DbscServer, or none.
LEMMA HostStepIsStep ==
    ASSUME HInv, [HostNext]_host_vars
    PROVE  [Next]_vars
<1> IInv /\ HostTypeOK
  BY DEF HInv
<1>1. ASSUME NEW t \in Tasks, begins(t) PROVE [Next]_vars
  BY <1>1, BeginsIsRequest DEF Next
<1>2. ASSUME NEW t \in Tasks, works(t) \/ gate(t) \/ resumes(t) \/ fails(t)
      PROVE  [Next]_vars
  BY <1>2 DEF works, gate, resumes, fails, Next, Step
<1>3. ASSUME NEW t \in Tasks, requests(t) PROVE UNCHANGED vars
  BY <1>3, RequestsAreTyped DEF handle
<1>4. CASE Elsewhere
  BY <1>4 DEF Elsewhere, Next
<1>5. CASE UNCHANGED host_vars
  BY <1>5 DEF host_vars
<1>6. QED
  BY <1>1, <1>2, <1>3, <1>4, <1>5 DEF HostNext, HostStep

------------------------------------------------------------------------------
(* The handlers stay good.                                                  *)

\* A handler that another task's step leaves alone.
LEMMA OtherStaysGood ==
    ASSUME NEW u \in Tasks, Good(u),
           handler'[u] = handler[u], call'[u] = call[u],
           PresentedJwts \subseteq PresentedJwts',
           PresentedIds \subseteq PresentedIds',
           sent \subseteq sent',
           handler[u] # Absent =>
              /\ handler[u].new \notin sent'
              /\ handler[u].new \in Sessions =>
                    users'[handler[u].new] = users[handler[u].new]
              /\ \A v \in Tasks :
                    handler'[v] # Absent /\ handler'[v].new = handler[u].new =>
                       v = u \/ handler[u].new = Absent
    PROVE  Good(u)'
<1>1. CASE handler[u] = Absent
  BY <1>1 DEF Good
<1>2. CASE handler[u] # Absent
  <2>1. Prepared(u) /\ Drawn(u)
    BY <1>2 DEF Good
  <2>2. Prepared(u)'
    BY <2>1 DEF Prepared
  <2>3. Drawn(u)'
    BY <1>2, <2>1 DEF Drawn
  <2>4. QED
    BY <1>2, <2>2, <2>3 DEF Good
<1>3. QED
  BY <1>1, <1>2

\* A step of task t that draws no session id and lets none out.
LEMMA QuietHandler ==
    ASSUME HInv, NEW t \in Tasks, NEW c, NEW h,
           call' = [call EXCEPT ![t] = c], handler' = [handler EXCEPT ![t] = h],
           UNCHANGED <<users, sent>>,
           PresentedJwts \subseteq PresentedJwts',
           PresentedIds \subseteq PresentedIds',
           handler[t] # Absent,
           h = Absent \/ h.new = handler[t].new
    PROVE  \A u \in Tasks : u # t => Good(u)'
<1> SUFFICES ASSUME NEW u \in Tasks, u # t PROVE Good(u)'
  OBVIOUS
<1>1. /\ call \in [Tasks -> Calls \union {Absent}]
      /\ handler \in [Tasks -> Handlers \union {Absent}]
      /\ Good(u) /\ Good(t) /\ \A v \in Tasks : Good(v)
  BY DEF HInv, IInv, Types, TypeOK, HostTypeOK, HandlersGood
<1>2. /\ handler'[u] = handler[u] /\ call'[u] = call[u]
      /\ \A v \in Tasks : v # t => handler'[v] = handler[v]
      /\ handler'[t] = h
  BY <1>1
<1>3. ASSUME handler[u] # Absent
      PROVE  /\ handler[u].new \notin sent'
             /\ \A v \in Tasks :
                   handler'[v] # Absent /\ handler'[v].new = handler[u].new =>
                      v = u \/ handler[u].new = Absent
  BY <1>1, <1>2, <1>3 DEF Good, Drawn
<1>4. QED
  BY <1>1, <1>2, <1>3, OtherStaysGood

\* A request is taken up.
LEMMA HandleKeeps ==
    ASSUME HInv, NEW t \in Tasks, NEW req, Presentable(req), handle(t, req)
    PROVE  HostTypeOK' /\ HandlersGood'
<1> DEFINE fresh == is_fresh(req)
           draws == fresh \/ req.route = "login"
           new == IF draws THEN NewId ELSE Absent
           sid == IF fresh THEN new ELSE req.session
           user == IF ~ fresh THEN users[sid]
                   ELSE IF req.route = "login" THEN req.login ELSE Unknown
           next == first_call(req, fresh, user)
           h == [req |-> [req EXCEPT !.session = Absent],
                 sid |-> sid, user |-> user, new |-> new,
                 deletes |-> FALSE, next |-> next]
<1>1. /\ handler[t] = Absent
      /\ draws => NewIds # {}
      /\ users' = IF fresh THEN [users EXCEPT ![sid] = user] ELSE users
      /\ handler' = IF next = "none" THEN handler
                    ELSE [handler EXCEPT ![t] = h]
      /\ sent' = IF next = "none" /\ fresh THEN sent \union {sid} ELSE sent
      /\ UNCHANGED <<vars, hard>>
  BY DEF handle
<1>2. /\ HostTypeOK /\ req \in HttpRequests
      /\ req.session \in sent \union {Absent}
      /\ \A u \in Tasks : Good(u)
      /\ call \in [Tasks -> Calls \union {Absent}]
  BY DEF HInv, HandlersGood, Presentable, IInv, Types, TypeOK
<1>3. /\ call' = call
      /\ PresentedJwts' = PresentedJwts /\ PresentedIds' = PresentedIds
  BY <1>1 DEF vars, PresentedJwts, PresentedIds, used
<1>4. ASSUME draws
      PROVE  /\ new \in Sessions /\ users[new] = Absent /\ new \notin sent
             /\ \A u \in Tasks : handler[u] # Absent => handler[u].new # new
  <2>1. new \in NewIds
    BY <1>1, <1>4 DEF NewId
  <2>2. QED
    BY <2>1 DEF NewIds
<1>5. sid \in Sessions /\ user \in UserIds /\ new \in Sessions \union {Absent}
  <2>1. CASE fresh
    BY <1>2, <1>4, <2>1 DEF HttpRequests, UserIds
  <2>2. CASE ~ fresh
    BY <1>2, <1>4, <2>2 DEF is_fresh, HostTypeOK
  <2>3. QED
    BY <2>1, <2>2
<1>6. next \in Nexts \union {"none"}
  BY DEF first_call, Nexts
<1>7. next # "none" => h \in Handlers
  BY <1>2, <1>5, <1>6 DEF Handlers, HttpRequests
<1>8. HostTypeOK'
  BY <1>1, <1>2, <1>5, <1>7 DEF HostTypeOK
<1>9. ASSUME NEW u \in Tasks, u # t PROVE Good(u)'
  <2>1. handler'[u] = handler[u]
    BY <1>1, <1>2, <1>9 DEF HostTypeOK
  <2>2. ASSUME handler[u] # Absent
        PROVE  /\ handler[u].new \notin sent'
               /\ handler[u].new \in Sessions =>
                     users'[handler[u].new] = users[handler[u].new]
               /\ \A v \in Tasks :
                     handler'[v] # Absent /\ handler'[v].new = handler[u].new =>
                        v = u \/ handler[u].new = Absent
    <3>1. handler[u].new \notin sent
      BY <1>2, <2>2 DEF Good, Drawn
    <3>2. fresh => sid = new /\ handler[u].new # new
      BY <1>4, <2>2
    <3>3. /\ handler[u].new \notin sent'
          /\ handler[u].new \in Sessions =>
                     users'[handler[u].new] = users[handler[u].new]
      BY <1>1, <1>2, <1>5, <3>1, <3>2 DEF HostTypeOK
    <3>4. ASSUME NEW v \in Tasks, handler'[v] # Absent,
                 handler'[v].new = handler[u].new
          PROVE  v = u \/ handler[u].new = Absent
      <4>1. CASE v # t
        BY <1>1, <1>2, <2>2, <3>4, <4>1 DEF HostTypeOK, Good, Drawn
      <4>2. CASE v = t
        <5>1. handler'[v] = h /\ h.new = new
          BY <1>1, <1>2, <3>4, <4>2 DEF HostTypeOK
        <5>2. QED
          BY <1>4, <2>2, <3>4, <5>1
      <4>3. QED
        BY <4>1, <4>2
    <3>5. QED
      BY <3>3, <3>4
  <2>3. Good(u) /\ sent \subseteq sent'
    BY <1>1, <1>2
  <2>4. QED
    BY <1>3, <2>1, <2>2, <2>3, OtherStaysGood
<1>10. Good(t)'
  <2>1. call[t] = Absent
    BY <1>1, <1>2 DEF Good
  <2>2. CASE next = "none"
    BY <1>1, <1>3, <2>1, <2>2 DEF Good
  <2>3. CASE next # "none"
    <3>1. handler'[t] = h /\ h # Absent
      BY <1>1, <1>2, <1>7, <2>3, NoHandlerAssumption DEF HostTypeOK
    <3>2. /\ h.req.jwt = req.jwt /\ h.req.id = req.id
          /\ h.req.route = req.route /\ h.new = new /\ h.sid = sid
          /\ h.next = next
      BY <1>2 DEF HttpRequests
    <3>3. next \in {"register", "refresh"} => req.jwt # Absent
      BY DEF first_call
    <3>4. Prepared(t)'
      BY <1>3, <2>1, <3>1, <3>2, <3>3 DEF Prepared, Presentable
    <3>5. sent' = sent
      BY <1>1, <2>3
    <3>6. h.new \notin sent' /\ h.sid \in sent' \union {h.new}
      BY <1>2, <1>4, <3>2, <3>5, SessionsAssumption
      DEF is_fresh, HostTypeOK
    <3>7. ASSUME NEW v \in Tasks, handler'[v] # Absent, handler'[v].new = new,
                 v # t, new # Absent
          PROVE  FALSE
      BY <1>1, <1>2, <1>4, <3>7 DEF HostTypeOK
    <3>8. ASSUME req.route = "login"
          PROVE  /\ new \in Sessions /\ next \in {"offer", "revoke"}
                 /\ next = "revoke" => users'[new] = Absent
      <4>1. new \in Sessions /\ users[new] = Absent
        BY <1>4, <3>8
      <4>2. next \in {"offer", "revoke"} /\ (next = "revoke" => ~ fresh)
        BY <3>8 DEF first_call
      <4>3. QED
        BY <1>1, <4>1, <4>2
    <3>9. Drawn(t)'
      BY <3>1, <3>2, <3>6, <3>7, <3>8 DEF Drawn
    <3>10. QED
      BY <3>1, <3>4, <3>9 DEF Good
  <2>4. QED
    BY <2>2, <2>3
<1>11. QED
  BY <1>8, <1>9, <1>10 DEF HandlersGood

\* The call with which an operation begins.
LEMMA RequestCalls ==
    ASSUME NEW op \in Ops, NEW pc \in {"check", "write"},
           NEW s \in Sessions, NEW u \in UserIds, NEW jwt \in Jwts, NEW id \in Nat,
           NEW record \in StoredRecords
    PROVE  [op |-> op, pc |-> pc, session |-> s, user |-> u, jwt |-> jwt,
            id |-> id, attempt |-> 1, read |-> record, nonce |-> NoNonce,
            at |-> 0, out |-> "none"] \in Calls
BY AttemptsAssumption DEF Calls, Outcomes, NoNonce

\* An operation begins.
LEMMA BeginsKeeps ==
    ASSUME HInv, NEW t \in Tasks, begins(t), HostTypeOK,
           PresentedJwts \subseteq PresentedJwts',
           PresentedIds \subseteq PresentedIds'
    PROVE  HostTypeOK' /\ HandlersGood'
<1>1. PICK h : h = handler[t]
  OBVIOUS
<1>2. /\ h \in Handlers /\ h # Absent /\ Prepared(t) /\ Drawn(t)
      /\ call \in [Tasks -> Calls \union {Absent}]
      /\ handler \in [Tasks -> Handlers \union {Absent}]
  BY <1>1
  DEF begins, HInv, IInv, Types, TypeOK, HostTypeOK, HandlersGood, Good
<1>3. PICK k : k = [h EXCEPT !.req.jwt = Absent, !.req.id = NoNonce]
  OBVIOUS
<1>4. handler' = [handler EXCEPT ![t] = k] /\ UNCHANGED <<users, sent, hard>>
  BY <1>1, <1>2, <1>3 DEF begins
<1>5. /\ k \in Handlers /\ k # Absent /\ k.new = h.new /\ k.sid = h.sid
      /\ k.next = h.next /\ k.req.route = h.req.route
      /\ k.req.jwt = Absent /\ k.req.id = NoNonce
  <2>1. k \in Handlers
    BY <1>2, <1>3 DEF Handlers, HttpRequests, NoNonce
  <2>2. QED
    BY <1>2, <1>3, <2>1, NoHandlerAssumption DEF Handlers, HttpRequests
<1>6. PICK c :
         /\ call' = [call EXCEPT ![t] = c] /\ c \in Calls
         /\ c.op \in Awaits(h.next)
  <2>1. /\ h.sid \in Sessions /\ h.user \in UserIds /\ Unknown \in UserIds
        /\ PresentedJwts \subseteq Jwts /\ PresentedIds \subseteq Nat
        /\ NoJwt \in Jwts /\ NoNonce \in Nat
        /\ \A s \in Sessions : {pending[s], binding[s]} \subseteq StoredRecords
        /\ Absent \in StoredRecords
    BY <1>2
    DEF Handlers, PresentedJwts, PresentedIds, Jwts, NoJwt, NoNonce, used, HInv,
        IInv, Types, TypeOK, Nonces, UserIds, StoredRecords
  <2>2. /\ h.next \in {"register", "refresh"} /\ call[t] = Absent =>
              h.req.jwt \in Jwts
        /\ h.req.id \in Nat
    BY <1>1, <1>2, <2>1 DEF Prepared
  <2>3. PICK op \in Ops, pc \in {"check", "write"}, s \in Sessions,
             u \in UserIds, jwt \in Jwts, id \in Nat, record \in StoredRecords :
           /\ Begin(t, op, pc, s, u, jwt, id, record)
           /\ op \in Awaits(h.next)
    <3>1. CASE h.next = "register" /\ register(t, h.sid, h.user, h.req.jwt)
      BY <2>1, <2>2, <3>1 DEF register, Begin, Ops, Awaits
    <3>2. CASE /\ h.next = "refresh"
               /\ refresh(t, h.sid, h.user, h.req.jwt, h.req.id)
      BY <2>1, <2>2, <3>2 DEF refresh, Begin, Ops, Awaits
    <3>3. CASE \/ /\ h.next = "offer"
                  /\ build_registration_header_response(t, h.sid, h.user)
               \/ h.next = "issue" /\ issue_refresh_challenge(t, h.sid)
               \/ h.next = "get_binding" /\ get_binding(t, h.sid, h.user)
      BY <2>1, <3>3
      DEF build_registration_header_response, issue_refresh_challenge,
          get_binding, Ops, Awaits
    <3>4. CASE h.next = "revoke" /\ revoke(t, h.sid)
      BY <2>1, <3>4 DEF revoke, Ops, Awaits
    <3>5. QED
      BY <1>1, <3>1, <3>2, <3>3, <3>4 DEF begins
  <2>4. PICK c : c = [op |-> op, pc |-> pc, session |-> s, user |-> u,
                      jwt |-> jwt, id |-> id, attempt |-> 1, read |-> record,
                      nonce |-> NoNonce, at |-> 0, out |-> "none"]
    OBVIOUS
  <2>5. call' = [call EXCEPT ![t] = c] /\ c.op = op
    BY <2>3, <2>4 DEF Begin, Goes
  <2>6. c \in Calls
    BY <2>4, RequestCalls
  <2>7. QED
    BY <2>3, <2>5, <2>6
<1>7. HostTypeOK'
  BY <1>2, <1>4, <1>5 DEF HostTypeOK
<1>8. \A u \in Tasks : u # t => Good(u)'
  BY <1>1, <1>2, <1>4, <1>5, <1>6, QuietHandler
<1>9. handler'[t] = k /\ call'[t] = c /\ c # Absent
  BY <1>2, <1>4, <1>6, NoHandlerAssumption
<1>10. Prepared(t)'
  BY <1>5, <1>6, <1>9 DEF Prepared, PresentedIds
<1>11. Drawn(t)'
  BY <1>1, <1>2, <1>4, <1>5, <1>9 DEF Drawn
<1>12. QED
  BY <1>5, <1>7, <1>8, <1>9, <1>10, <1>11 DEF HandlersGood, Good

\* An operation works.
LEMMA WorksKeeps ==
    ASSUME HInv, NEW t \in Tasks, works(t),
           PresentedJwts \subseteq PresentedJwts',
           PresentedIds \subseteq PresentedIds'
    PROVE  HostTypeOK' /\ HandlersGood'
<1>1. /\ IInv /\ HostTypeOK /\ \A u \in Tasks : Good(u)
      /\ call \in [Tasks -> Calls \union {Absent}]
      /\ UNCHANGED <<users, handler, sent>>
      /\ hard' = hard \union {s \in Sessions : IsRecord(binding'[s])}
  BY DEF HInv, IInv, Types, TypeOK, HandlersGood, works, host
<1>2. /\ call[t] \in Calls /\ call'[t] \in Calls /\ call'[t].op = call[t].op
      /\ call' = [call EXCEPT ![t] = call'[t]]
  BY <1>1, CallStays DEF works
<1>3. handler[t] # Absent /\ Prepared(t) /\ Drawn(t)
  BY <1>1, <1>2, NoHandlerAssumption DEF Good
<1>4. handler' = [handler EXCEPT ![t] = handler[t]]
  BY <1>1 DEF HostTypeOK
<1>5. \A u \in Tasks : u # t => Good(u)'
  BY <1>1, <1>2, <1>3, <1>4, QuietHandler
<1>6. Prepared(t)' /\ Drawn(t)'
  BY <1>1, <1>2, <1>3, NoHandlerAssumption DEF Prepared, Drawn
<1>7. QED
  BY <1>1, <1>3, <1>5, <1>6 DEF HandlersGood, Good, HostTypeOK

\* The gate decides.
LEMMA GateKeeps ==
    ASSUME HInv, NEW t \in Tasks, gate(t),
           PresentedJwts \subseteq PresentedJwts',
           PresentedIds \subseteq PresentedIds'
    PROVE  HostTypeOK' /\ HandlersGood'
<1>1. PICK h : h = handler[t]
  OBVIOUS
<1>2. /\ h \in Handlers /\ h # Absent /\ Prepared(t) /\ Drawn(t)
      /\ call \in [Tasks -> Calls \union {Absent}] /\ call[t] \in Calls
      /\ handler \in [Tasks -> Handlers \union {Absent}]
      /\ h.next = "get_binding" /\ call[t].op = "advertise"
      /\ UNCHANGED <<users, sent, hard>>
  BY <1>1
  DEF gate, Handling, Serving, HInv, IInv, Types, TypeOK, HostTypeOK,
      HandlersGood, Good
<1>3. PICK verdict \in {"cookie auth", "bound", "revoke"} :
         handler' = [handler EXCEPT ![t].next = verdict,
                                    ![t].req.cookie = NoNonce,
                                    ![t].req.document = TRUE]
  BY DEF gate
<1>4. PICK k : k = [h EXCEPT !.next = verdict, !.req.cookie = NoNonce,
                             !.req.document = TRUE]
  OBVIOUS
<1>5. handler' = [handler EXCEPT ![t] = k]
  BY <1>1, <1>2, <1>3, <1>4
<1>6. /\ k \in Handlers /\ k # Absent /\ k.new = h.new /\ k.sid = h.sid
      /\ k.req.route = h.req.route /\ k.next = verdict
      /\ k.req.jwt = h.req.jwt /\ k.req.id = h.req.id
  <2>1. k \in Handlers
    BY <1>2, <1>4 DEF Handlers, HttpRequests, NoNonce, Nexts
  <2>2. QED
    BY <1>2, <1>4, <2>1, NoHandlerAssumption DEF Handlers, HttpRequests
<1>7. PICK c \in Calls : call' = [call EXCEPT ![t] = c] /\ c.op = "advertise"
  <2>1. {"unchanged", "CorruptStateError"} \subseteq Outcomes
    BY DEF Outcomes
  <2>2. \/ \E out \in {"unchanged", "CorruptStateError"} : Ends(t, out)
        \/ Goes(t, [call[t] EXCEPT !.pc = "write"])
    BY DEF gate, get_binding_returns, advertise_check, Stop
  <2>3. CASE \E out \in {"unchanged", "CorruptStateError"} : Ends(t, out)
    <3>1. PICK out \in Outcomes : Ends(t, out)
      BY <2>1, <2>3
    <3>2. PICK c : c = [call[t] EXCEPT !.pc = "answer", !.out = out,
                          !.jwt = NoJwt, !.id = NoNonce, !.at = 0]
      OBVIOUS
    <3>3. c \in Calls
      BY <1>2, <3>2, CallUpdates
    <3>4. c.op = call[t].op
      BY <1>2, <3>2 DEF Calls
    <3>5. QED
      BY <1>2, <3>1, <3>2, <3>3, <3>4 DEF Ends, Goes
  <2>4. CASE Goes(t, [call[t] EXCEPT !.pc = "write"])
    <3>1. /\ [call[t] EXCEPT !.pc = "write"] \in Calls
          /\ [call[t] EXCEPT !.pc = "write"].op = call[t].op
      BY <1>2, CallUpdates DEF Calls
    <3>2. QED
      BY <1>2, <2>4, <3>1 DEF Goes
  <2>5. QED
    BY <2>2, <2>3, <2>4
<1>8. \A u \in Tasks : u # t => Good(u)'
  BY <1>1, <1>2, <1>5, <1>6, <1>7, QuietHandler
<1>9. handler'[t] = k /\ call'[t] = c /\ c # Absent
  BY <1>2, <1>5, <1>7, NoHandlerAssumption
<1>10. Prepared(t)'
  BY <1>1, <1>2, <1>6, <1>7, <1>9 DEF Prepared, Awaits
<1>11. h.req.route # "login"
  BY <1>1, <1>2 DEF Drawn
<1>12. Drawn(t)'
  BY <1>1, <1>2, <1>5, <1>6, <1>9, <1>11 DEF Drawn
<1>13. HostTypeOK'
  BY <1>2, <1>5, <1>6 DEF HostTypeOK, HInv
<1>14. QED
  BY <1>6, <1>8, <1>9, <1>10, <1>12, <1>13 DEF HandlersGood, Good

\* An operation answered or its handler died, and the handler is done.
LEMMA DoneKeeps ==
    ASSUME HInv, NEW t \in Tasks, handler[t] # Absent,
           call' = [call EXCEPT ![t] = Absent],
           handler' = [handler EXCEPT ![t] = Absent],
           sent' \in {sent, sent \union ({handler[t].new} \ {Absent})},
           UNCHANGED hard,
           \/ users' = users
           \/ users' = [users EXCEPT ![handler[t].sid] = Unknown],
           PresentedJwts \subseteq PresentedJwts',
           PresentedIds \subseteq PresentedIds'
    PROVE  HostTypeOK' /\ HandlersGood'
<1>1. /\ HostTypeOK /\ \A u \in Tasks : Good(u)
      /\ call \in [Tasks -> Calls \union {Absent}]
      /\ handler[t] \in Handlers /\ Drawn(t)
  BY DEF HInv, IInv, Types, TypeOK, HandlersGood, HostTypeOK, Good
<1>2. handler[t].new \in Sessions \union {Absent} /\ handler[t].sid \in Sessions
  BY <1>1 DEF Handlers
<1>3. HostTypeOK'
  BY <1>1, <1>2 DEF HostTypeOK, UserIds
<1>4. ASSUME NEW u \in Tasks, u # t PROVE Good(u)'
  <2>1. handler'[u] = handler[u] /\ call'[u] = call[u] /\ sent \subseteq sent'
    BY <1>1, <1>4 DEF HostTypeOK
  <2>2. ASSUME handler[u] # Absent
        PROVE  /\ handler[u].new \notin sent'
               /\ handler[u].new \in Sessions =>
                     users'[handler[u].new] = users[handler[u].new]
               /\ \A v \in Tasks :
                     handler'[v] # Absent /\ handler'[v].new = handler[u].new =>
                        v = u \/ handler[u].new = Absent
    <3>1. Drawn(u) /\ handler[u].new \notin sent
      BY <1>1, <2>2 DEF Good, Drawn
    <3>2. handler[u].new = handler[t].new => handler[u].new = Absent
      BY <1>1, <1>4, <2>2, <3>1 DEF Drawn
    <3>3. handler[u].new \notin sent'
      BY <3>1, <3>2
    <3>4. handler[u].new \in Sessions => handler[u].new # handler[t].sid
      BY <1>1, <3>1, <3>2, SessionsAssumption DEF Drawn
    <3>5. handler[u].new \in Sessions =>
                     users'[handler[u].new] = users[handler[u].new]
      BY <1>1, <1>2, <3>4 DEF HostTypeOK
    <3>6. \A v \in Tasks : v # t => handler'[v] = handler[v]
      BY <1>1 DEF HostTypeOK
    <3>7. QED
      BY <1>1, <2>2, <3>1, <3>3, <3>5, <3>6 DEF Drawn, HostTypeOK
  <2>3. Good(u)
    BY <1>1
  <2>4. QED
    BY <2>1, <2>2, <2>3, OtherStaysGood
<1>5. Good(t)'
  BY <1>1 DEF Good, HostTypeOK
<1>6. QED
  BY <1>3, <1>4, <1>5 DEF HandlersGood

\* An operation answered, and the handler goes on to another one.
LEMMA GoesOnKeeps ==
    ASSUME HInv, NEW t \in Tasks, handler[t] # Absent,
           NEW next \in {"issue", "revoke"},
           handler[t].req.route = "login" => next = handler[t].next,
           call' = [call EXCEPT ![t] = Absent],
           Goes_on(t, [handler[t] EXCEPT !.next = next]),
           UNCHANGED <<users, hard>>,
           PresentedJwts \subseteq PresentedJwts',
           PresentedIds \subseteq PresentedIds'
    PROVE  HostTypeOK' /\ HandlersGood'
<1>1. PICK h, k : h = handler[t] /\ k = [h EXCEPT !.next = next]
  OBVIOUS
<1>2. /\ HostTypeOK /\ h \in Handlers /\ h # Absent /\ Prepared(t) /\ Drawn(t)
      /\ call \in [Tasks -> Calls \union {Absent}]
      /\ handler \in [Tasks -> Handlers \union {Absent}]
      /\ handler' = [handler EXCEPT ![t] = k] /\ sent' = sent
  BY <1>1
  DEF HInv, IInv, Types, TypeOK, HostTypeOK, HandlersGood, Good, Goes_on
<1>3. /\ k \in Handlers /\ k # Absent /\ k.new = h.new /\ k.sid = h.sid
      /\ k.req = h.req /\ k.next = next
  <2>1. k \in Handlers
    BY <1>1, <1>2 DEF Handlers, Nexts
  <2>2. QED
    BY <1>1, <1>2, <2>1, NoHandlerAssumption DEF Handlers
<1>4. HostTypeOK'
  BY <1>2, <1>3 DEF HostTypeOK
<1>5. \A u \in Tasks : u # t => Good(u)'
  BY <1>1, <1>2, <1>3, QuietHandler
<1>6. handler'[t] = k /\ call'[t] = Absent
  BY <1>2
<1>7. Prepared(t)'
  BY <1>1, <1>2, <1>3, <1>6 DEF Prepared
<1>8. Drawn(t)'
  BY <1>1, <1>2, <1>3, <1>6 DEF Drawn
<1>9. QED
  BY <1>3, <1>4, <1>5, <1>6, <1>7, <1>8 DEF HandlersGood, Good

\* A login ended the session it came with, and goes on in the new one.
LEMMA LoginKeeps ==
    ASSUME HInv, NEW t \in Tasks, handler[t] # Absent,
           call' = [call EXCEPT ![t] = Absent], UNCHANGED hard,
           handler[t].req.route = "login",
           users' = [users EXCEPT ![handler[t].sid] = Absent,
                                  ![handler[t].new] = handler[t].req.login],
           Goes_on(t, [handler[t] EXCEPT !.sid = handler[t].new,
                          !.user = handler[t].req.login, !.deletes = TRUE, !.next = "offer"]),
           PresentedJwts \subseteq PresentedJwts',
           PresentedIds \subseteq PresentedIds'
    PROVE  HostTypeOK' /\ HandlersGood'
<1>1. PICK h, k :
         /\ h = handler[t]
         /\ k = [h EXCEPT !.sid = h.new, !.user = h.req.login, !.deletes = TRUE, !.next = "offer"]
  OBVIOUS
<1>2. /\ HostTypeOK /\ h \in Handlers /\ h # Absent /\ Prepared(t) /\ Drawn(t)
      /\ call \in [Tasks -> Calls \union {Absent}]
      /\ handler \in [Tasks -> Handlers \union {Absent}]
      /\ handler' = [handler EXCEPT ![t] = k] /\ sent' = sent
      /\ \A u \in Tasks : Good(u)
  BY <1>1
  DEF HInv, IInv, Types, TypeOK, HostTypeOK, HandlersGood, Good, Goes_on
<1>3. h.new \in Sessions /\ h.sid \in Sessions /\ h.req.login \in UserIds
  BY <1>1, <1>2 DEF Drawn, Handlers, HttpRequests
<1>4. /\ k \in Handlers /\ k # Absent /\ k.new = h.new /\ k.sid = h.new
      /\ k.req = h.req /\ k.next = "offer"
  <2>1. k \in Handlers
    BY <1>1, <1>2, <1>3 DEF Handlers, Nexts
  <2>2. QED
    BY <1>1, <1>2, <2>1, NoHandlerAssumption DEF Handlers
<1>5. users' \in [Sessions -> UserIds \union {Absent}]
  BY <1>1, <1>2, <1>3 DEF HostTypeOK
<1>6. HostTypeOK'
  BY <1>2, <1>4, <1>5 DEF HostTypeOK
<1>7. handler'[t] = k /\ call'[t] = Absent
  BY <1>2
<1>8. ASSUME NEW u \in Tasks, u # t PROVE Good(u)'
  <2>1. handler'[u] = handler[u] /\ call'[u] = call[u] /\ Good(u)
    BY <1>2, <1>8
  <2>2. ASSUME handler[u] # Absent
        PROVE  /\ handler[u].new \notin sent'
               /\ handler[u].new \in Sessions =>
                     users'[handler[u].new] = users[handler[u].new]
               /\ \A v \in Tasks :
                     handler'[v] # Absent /\ handler'[v].new = handler[u].new =>
                        v = u \/ handler[u].new = Absent
    <3>1. Drawn(u)
      BY <2>1, <2>2 DEF Good
    <3>2. handler[u].new = h.new => handler[u].new = Absent
      BY <1>1, <1>2, <1>8, <2>2, <3>1 DEF Drawn
    <3>3. handler[u].new \in Sessions =>
             handler[u].new # h.new /\ handler[u].new # h.sid
      BY <1>1, <1>2, <3>1, <3>2, SessionsAssumption DEF Drawn
    <3>4. handler[u].new \in Sessions =>
                     users'[handler[u].new] = users[handler[u].new]
      BY <1>1, <1>2, <1>3, <3>3 DEF HostTypeOK
    <3>5. \A v \in Tasks : v # t => handler'[v] = handler[v]
      BY <1>2
    <3>6. QED
      BY <1>2, <1>4, <1>7, <2>2, <3>1, <3>2, <3>4, <3>5 DEF Drawn
  <2>3. QED
    BY <1>2, <2>1, <2>2, OtherStaysGood
<1>9. Prepared(t)'
  BY <1>1, <1>2, <1>4, <1>7 DEF Prepared
<1>10. Drawn(t)'
  BY <1>1, <1>2, <1>3, <1>4, <1>7 DEF Drawn
<1>11. QED
  BY <1>4, <1>6, <1>7, <1>8, <1>9, <1>10 DEF HandlersGood, Good

\* The code behind an await.
LEMMA ResumesKeeps ==
    ASSUME HInv, NEW t \in Tasks, resumes(t) \/ fails(t),
           PresentedJwts \subseteq PresentedJwts',
           PresentedIds \subseteq PresentedIds'
    PROVE  HostTypeOK' /\ HandlersGood'
<1>1. /\ call' = [call EXCEPT ![t] = Absent] /\ UNCHANGED hard /\ call[t] # Absent
  BY DEF resumes, fails, answer, abandon, Goes
<1>2. /\ handler[t] # Absent /\ handler[t] \in Handlers
      /\ Prepared(t) /\ Drawn(t)
  BY <1>1 DEF HInv, HostTypeOK, HandlersGood, Good
<1>3. CASE fails(t)
  BY <1>1, <1>2, <1>3, DoneKeeps DEF fails, Fails
<1>4. CASE \/ resumes_offer_or_register(t) \/ resumes_issue(t)
           \/ resumes_revoke(t)
  BY <1>1, <1>2, <1>4, DoneKeeps
  DEF resumes_offer_or_register, resumes_issue, resumes_revoke, Responds, Fails
<1>5. CASE resumes_refresh(t)
  <2>1. handler[t].req.route # "login"
    BY <1>2, <1>5 DEF resumes_refresh, Serving, Prepared, Awaits, Drawn
  <2>2. UNCHANGED users
    BY <1>5 DEF resumes_refresh
  <2>3. CASE Responds(t)
    BY <1>1, <1>2, <2>2, <2>3, DoneKeeps DEF Responds
  <2>4. CASE Goes_on(t, [handler[t] EXCEPT !.next = "issue"])
    BY <1>1, <1>2, <2>1, <2>2, <2>4, GoesOnKeeps
  <2>5. CASE Goes_on(t, [handler[t] EXCEPT !.next = "revoke"])
    BY <1>1, <1>2, <2>1, <2>2, <2>5, GoesOnKeeps
  <2>6. QED
    BY <1>5, <2>3, <2>4, <2>5 DEF resumes_refresh
<1>6. CASE resumes_gate(t)
  <2>1. UNCHANGED users
    BY <1>6 DEF resumes_gate
  <2>2. CASE Responds(t) \/ Fails(t)
    BY <1>1, <1>2, <2>1, <2>2, DoneKeeps DEF Responds, Fails
  <2>3. CASE Handling(t, "revoke") /\ Goes_on(t, handler[t])
    <3>1. handler[t].next = "revoke"
      BY <2>3 DEF Handling
    <3>2. handler[t] = [handler[t] EXCEPT !.next = "revoke"]
      BY <1>2, <3>1 DEF Handlers
    <3>3. QED
      BY <1>1, <1>2, <2>1, <2>3, <3>1, <3>2, GoesOnKeeps
  <2>4. QED
    BY <1>6, <2>2, <2>3 DEF resumes_gate
<1>7. CASE resumes_login(t)
  <2>1. CASE Fails(t) /\ UNCHANGED users
    BY <1>1, <1>2, <2>1, DoneKeeps DEF Fails
  <2>2. CASE users[handler[t].sid] # Absent
    BY <1>1, <1>2, <1>7, <2>2, LoginKeeps DEF resumes_login
  <2>3. QED
    BY <1>7, <2>1, <2>2 DEF resumes_login
<1>8. QED
  BY <1>3, <1>4, <1>5, <1>6, <1>7 DEF resumes

------------------------------------------------------------------------------
(* The invariant of the host.                                               *)

\* Nobody is logged in, nothing is served and no id is drawn at the start.
LEMMA HostInitGood == HostInit => HInv
<1> SUFFICES ASSUME HostInit PROVE HInv
  OBVIOUS
<1>1. IInv
  BY InitGood DEF HostInit
<1>2. HostTypeOK
  BY DEF HostInit, HostTypeOK
<1>3. HandlersGood
  BY DEF HostInit, HandlersGood, Good, Init
<1>4. QED
  BY <1>1, <1>2, <1>3 DEF HInv

\* Every step of the host keeps its invariant.
LEMMA HostNextGood == HInv /\ [HostNext]_host_vars => HInv'
<1> SUFFICES ASSUME HInv, [HostNext]_host_vars PROVE HInv'
  OBVIOUS
<1>1. IInv /\ HostTypeOK /\ \A u \in Tasks : Good(u)
  BY DEF HInv, HandlersGood
<1>2. [Next]_vars
  BY HostStepIsStep
<1>3. IInv'
  BY <1>1, <1>2, NextGood
<1>4. PresentedJwts \subseteq PresentedJwts' /\ PresentedIds \subseteq PresentedIds'
  BY <1>2, HistoryGrows
<1>5. ASSUME NEW t \in Tasks, requests(t) PROVE HostTypeOK' /\ HandlersGood'
  BY <1>1, <1>5, RequestsAreTyped, HandleKeeps
<1>6. ASSUME NEW t \in Tasks, HostStep(t) \/ fails(t)
      PROVE  HostTypeOK' /\ HandlersGood'
  BY <1>1, <1>4, <1>6, BeginsKeeps, WorksKeeps, GateKeeps, ResumesKeeps
  DEF HostStep
<1>7. ASSUME Elsewhere \/ UNCHANGED host_vars PROVE HostTypeOK' /\ HandlersGood'
  <2>1. UNCHANGED <<users, handler, sent, hard, call>>
    BY <1>7 DEF Elsewhere, Tick, Disturb, host_vars, host, vars
  <2>2. HostTypeOK'
    BY <1>1, <2>1 DEF HostTypeOK
  <2>3. ASSUME NEW u \in Tasks PROVE Good(u)'
    <3>1. handler[u] # Absent =>
             /\ handler[u].new \notin sent
             /\ \A v \in Tasks :
                   handler[v] # Absent /\ handler[v].new = handler[u].new =>
                      v = u \/ handler[u].new = Absent
      BY <1>1 DEF Good, Drawn
    <3>2. QED
      BY <1>1, <1>4, <2>1, <3>1, OtherStaysGood
  <2>4. QED
    BY <2>2, <2>3 DEF HandlersGood
<1>8. HostTypeOK' /\ HandlersGood'
  BY <1>5, <1>6, <1>7 DEF HostNext
<1>9. QED
  BY <1>3, <1>8 DEF HInv

\* What the handlers hold stays good, whatever interleaves.
LEMMA HostInvariance == HostSpec => []HInv
BY HostInitGood, HostNextGood, PTL DEF HostSpec

------------------------------------------------------------------------------
(* Theorems                                                                 *)

\* The demo host calls DbscServer only in ways its specification allows, with
\* what clients were given and one operation per request at a time, even when
\* handlers die half way: every behaviour of the host is one of DbscServer.
THEOREM HostImplementsServer == HostSpec => Spec
<1>1. HostInit => Init
  BY DEF HostInit
<1>2. HInv /\ [HostNext]_host_vars => [Next]_vars
  BY HostStepIsStep
<1>3. QED
  BY <1>1, <1>2, HostInvariance, PTL DEF HostSpec, Spec

\* _sessions, the handlers and the ids given out keep their types.
THEOREM HostTypesAreKept == HostSpec => []HostTypeOK
<1>1. HInv => HostTypeOK
  BY DEF HInv
<1>2. QED
  BY <1>1, HostInvariance, PTL

\* So what DbscServer promises holds behind the endpoints of the host: no
\* refresh commits but for the registered key and user, and no challenge and
\* no offer is spent twice.
THEOREM HostIsDeviceBound ==
    HostSpec => [](DeviceBound /\ ChallengeSingleUse /\ OfferSingleUse)
BY HostImplementsServer, RefreshesAreDeviceBound, ChallengesAreSpentOnce,
   OffersAreTakenOnce, PTL

\* A step of the host writes a login under no id that was logged out or known.
LEMMA LoginsAreFresh ==
    ASSUME HInv, [HostNext]_host_vars,
           NEW s \in Sessions, users[s] = Unknown \/ s \in sent
    PROVE  users'[s] \in {users[s], Unknown, Absent}
<1>1. /\ IInv /\ HostTypeOK /\ \A u \in Tasks : Good(u)
      /\ users \in [Sessions -> UserIds \union {Absent}]
      /\ Unknown # Absent
  BY SessionsAssumption DEF HInv, HandlersGood, HostTypeOK, UserIds
<1>2. ASSUME NEW t \in Tasks, requests(t)
      PROVE  users'[s] = users[s]
  <2>1. PICK req : handle(t, req)
    BY <1>1, <1>2, RequestsAreTyped
  <2>2. \/ users' = users
        \/ NewIds # {} /\ \E user : users' = [users EXCEPT ![NewId] = user]
    BY <2>1 DEF handle
  <2>3. ASSUME NewIds # {} PROVE NewId # s
    <3>1. NewId \in NewIds
      BY <2>3 DEF NewId
    <3>2. QED
      BY <1>1, <3>1 DEF NewIds
  <2>4. QED
    BY <1>1, <2>2, <2>3
<1>3. ASSUME NEW t \in Tasks, begins(t) \/ works(t) \/ gate(t) \/ fails(t)
      PROVE  users'[s] = users[s]
  BY <1>3 DEF begins, works, gate, fails, host
<1>4. ASSUME NEW t \in Tasks, resumes(t)
      PROVE  users'[s] \in {users[s], Unknown, Absent}
  <2>1. CASE \/ resumes_offer_or_register(t) \/ resumes_issue(t)
             \/ resumes_refresh(t) \/ resumes_gate(t)
    BY <2>1 DEF resumes_offer_or_register, resumes_issue, resumes_refresh,
                resumes_gate
  <2>2. CASE resumes_revoke(t)
    BY <1>1, <2>2 DEF resumes_revoke
  <2>3. CASE resumes_login(t)
    <3>1. /\ handler[t].new \notin sent
          /\ users[handler[t].new] = Absent
      <4>1. /\ handler[t] # Absent /\ Prepared(t) /\ Drawn(t)
            /\ call[t] # Absent /\ call[t].op = "revoke"
        BY <1>1, <1>4, <2>3 DEF resumes, resumes_login, Serving, Good
      <4>2. handler[t].req.route = "login" /\ handler[t].next = "revoke"
        BY <2>3, <4>1 DEF resumes_login, Prepared, Awaits, Drawn
      <4>3. QED
        BY <4>1, <4>2 DEF Drawn
    <3>2. handler[t].new # s
      BY <1>1, <3>1
    <3>3. \/ users' = users
          \/ users' = [users EXCEPT ![handler[t].sid] = Absent,
                                    ![handler[t].new] = handler[t].req.login]
      BY <2>3 DEF resumes_login
    <3>4. QED
      BY <1>1, <3>2, <3>3
  <2>4. QED
    BY <1>4, <2>1, <2>2, <2>3 DEF resumes
<1>5. CASE Elsewhere \/ UNCHANGED host_vars
  BY <1>5 DEF Elsewhere, host_vars, host
<1>6. QED
  BY <1>2, <1>3, <1>4, <1>5 DEF HostNext, HostStep

\* The demo's login cannot be fixated: an id that a client knew, or that was
\* logged out, never becomes the id of a login, though login() awaits revoke()
\* between drawing its new id and writing it into _sessions.
THEOREM LoginsAreNotFixated == HostSpec => NoFixation
<1>1. HInv /\ [HostNext]_host_vars =>
         [\A s \in Sessions : users[s] = Unknown \/ s \in sent =>
             users'[s] \in {users[s], Unknown, Absent}]_host_vars
  BY LoginsAreFresh
<1>2. QED
  BY <1>1, HostInvariance, PTL DEF HostSpec, NoFixation
==============================================================================

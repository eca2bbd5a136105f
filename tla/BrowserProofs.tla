---------------------------- MODULE BrowserProofs ----------------------------
(***************************************************************************)
(* What an honest browser and the host promise each other, from the        *)
(* invariants of the host.                                                 *)
(***************************************************************************)
EXTENDS Browser, HostStepProofs

------------------------------------------------------------------------------
(* Replies.                                                                 *)

\* The call c ends with a 403 that carries a challenge.
Challenged(c) ==
    c.op = "issue" /\ c.out \in {"ok", "unchanged"} /\ IsRecord(c.read)

\* What the response to the handler h carries when its call c is answered.
LEMMA ResponseFields ==
    ASSUME NEW h, NEW c, c.op \in Ops, NEW r, r = response(h, c)
    PROVE  /\ r.route = h.req.route
           /\ r.status \in {"ok", "error", "refused", "challenged"}
           /\ r.status = "refused" =>
                 \/ c.op = "register"
                 \/ c.op = "issue" /\ c.out = "unchanged" /\ ~ Challenged(c)
                 \/ c.op = "revoke" /\ h.req.route = "refresh"
           /\ r.sid = IF /\ c.out = "CorruptStateError"
                         /\ c.op \in {"issue", "advertise"}
                      THEN Absent ELSE h.new
           /\ r.offer = IF c.op = "offer" THEN c.nonce ELSE NoNonce
           /\ r.cookie = IF c.op \in {"register", "refresh"} /\ c.out = "ok"
                         THEN c.nonce ELSE NoNonce
           /\ r.deletes = (h.deletes \/ c.op = "revoke")
           /\ r.challenge = IF \/ c.op = "refresh" /\ c.out = "ok"
                               \/ Challenged(c) /\ c.out = "ok"
                            THEN c.nonce
                            ELSE IF \/ Challenged(c)
                                    \/ c.op = "advertise" /\ c.out = "ok"
                            THEN c.read.challenge ELSE NoNonce
           /\ r.id = IF c.op = "register" /\ c.out = "ok" THEN c.nonce
                     ELSE IF \/ Challenged(c)
                             \/ c.op \in {"refresh", "advertise"} /\ c.out = "ok"
                     THEN c.read.session_identifier ELSE NoNonce
<1> USE DEF Challenged
<1>1. CASE c.out = "CorruptStateError" /\ c.op \in {"issue", "advertise"}
  BY <1>1 DEF response, Nothing
<1>2. CASE c.op = "offer"
  BY <1>2 DEF response, Nothing
<1>3. CASE c.op = "register"
  BY <1>3 DEF response, Nothing
<1>4. CASE c.op = "refresh"
  BY <1>4 DEF response, Nothing
<1>5. CASE c.op = "issue" /\ c.out # "CorruptStateError"
  BY <1>5 DEF response, Nothing
<1>6. CASE c.op = "advertise" /\ c.out # "CorruptStateError"
  BY <1>6 DEF response, Nothing
<1>7. CASE c.op = "revoke"
  BY <1>7 DEF response, Nothing
<1>8. QED
  BY <1>1, <1>2, <1>3, <1>4, <1>5, <1>6, <1>7 DEF Ops

------------------------------------------------------------------------------
(* The browser only sends what was given out, so it is a client of Host.     *)

\* What a reply carries was given out.
Known(r) ==
    /\ r.sid \in sent \union {Absent}
    /\ {r.offer, r.cookie, r.challenge} \subseteq used \union {NoNonce}
    /\ r.id \in PresentedIds

\* So was all that the browser keeps.
Keeps ==
    /\ jar \in [sid : Sessions \union {Absent}, cookie : Nat, until : Nat]
    /\ jar.sid \in sent \union {Absent}
    /\ {jar.cookie, offered} \subseteq used \union {NoNonce}
    /\ device = Absent \/ device \in [id : PresentedIds,
                                     challenge : used \union {NoNonce}]

\* The route of what is in flight for a task.
RouteOf(t) ==
    IF handler[t] # Absent THEN handler[t].req.route ELSE reply[t].route

\* A task waits for its handler or for its reply.  Nothing else is in flight
\* with a login or a logout, so nobody takes away the session that a login ends.
TrafficOrdered ==
    /\ \A t \in Tasks : handler[t] = Absent \/ reply[t] = Absent
    /\ \A t, u \in Tasks :
          /\ InFlight(t) /\ InFlight(u)
          /\ RouteOf(t) \in {"login", "logout"}
          => t = u
    /\ \A t \in Tasks :
          Handling(t, "revoke") /\ handler[t].req.route = "login" =>
             users[handler[t].sid] # Absent

BInv ==
    /\ Keeps /\ frac \in 0 .. TicksPerSecond - 1
    /\ DOMAIN reply = Tasks /\ DOMAIN left = Tasks
    /\ \A t \in Tasks : reply[t] # Absent => Known(reply[t])
    /\ TrafficOrdered

\* All that is known of the host.
FInv == HInv /\ LInv /\ UInv /\ RInv /\ AnswersTold

\* What the request of each kind carries.
Carries(t, req) ==
    /\ req.session = jar.sid
    /\ \/ logs_in(t) /\ req.route = "login"
       \/ logs_out(t) /\ req.route = "logout"
       \/ /\ loads(t) /\ req.route = "account" /\ req.cookie = presented
          /\ Patient /\ req.document => offered = NoNonce /\ ~ Pending("register")
       \/ registers(t) /\ req.route = "register" /\ req.jwt.key = key
       \/ /\ refreshes(t) /\ req.route = "refresh" /\ req.id = device.id
          /\ req.jwt # Absent => req.jwt.key = key

\* What the browser sends is a request a client may make.
LEMMA AsksAreRequests ==
    ASSUME HInv, Keeps, NEW t \in Tasks, asks(t)
    PROVE  /\ requests(t)
           /\ \E req : /\ Presentable(req) /\ sends(t, req) /\ Carries(t, req)
                       /\ req.route \in {"login", "logout"} => Idle
           /\ offered' \in {offered, NoNonce}
<1>1. /\ jar.sid \in sent \union {Absent} /\ presented \in used \union {NoNonce}
      /\ offered \in used \union {NoNonce}
  BY DEF Keeps, presented
<1>2. key \in Keys
  BY KeyAssumption DEF key
<1>3. IInv /\ HostTypeOK
  BY DEF HInv
<1>4. /\ PresentedJwts \subseteq Jwts /\ PresentedIds \subseteq Nat
      /\ used \subseteq Nat /\ sent \subseteq Sessions
      /\ NoNonce \in PresentedIds /\ NoNonce \in Nat
      /\ Users \subseteq UserIds /\ Unknown \in UserIds
  BY <1>3 DEF PresentedJwts, PresentedIds, Jwts, NoJwt, NoNonce, used, IInv,
              Types, TypeOK, Nonces, HostTypeOK, UserIds
<1>5. CASE logs_in(t)
  <2>1. PICK u \in Users : sends(t, [Visit("login", jar.sid) EXCEPT !.login = u])
    BY <1>5 DEF logs_in
  <2>2. requests(t)
    BY <1>1, <2>1 DEF sends, requests
  <2>3. PICK req : req = [Visit("login", jar.sid) EXCEPT !.login = u]
    OBVIOUS
  <2>4. Presentable(req) /\ req.route = "login" /\ req.session = jar.sid
    BY <1>1, <1>4, <2>3 DEF Visit, Presentable, HttpRequests, Routes
  <2>5. Carries(t, req)
    BY <1>5, <2>4 DEF Carries
  <2>6. QED
    BY <1>5, <2>1, <2>2, <2>3, <2>4, <2>5 DEF logs_in
<1>6. CASE logs_out(t)
  <2>1. sends(t, Visit("logout", jar.sid))
    BY <1>6 DEF logs_out
  <2>2. requests(t)
    BY <1>1, <2>1 DEF sends, requests
  <2>3. PICK req : req = Visit("logout", jar.sid)
    OBVIOUS
  <2>4. Presentable(req) /\ req.route = "logout" /\ req.session = jar.sid
    BY <1>1, <1>4, <2>3 DEF Visit, Presentable, HttpRequests, Routes
  <2>5. Carries(t, req)
    BY <1>6, <2>4 DEF Carries
  <2>6. QED
    BY <1>6, <2>1, <2>2, <2>3, <2>4, <2>5 DEF logs_out
<1>7. CASE loads(t)
  <2>1. PICK d \in BOOLEAN :
           /\ Patient /\ d => offered = NoNonce /\ ~ Pending("register")
           /\ sends(t, [Visit("account", jar.sid) EXCEPT !.cookie = presented,
                                                         !.document = d])
    BY <1>7 DEF loads
  <2>2. requests(t)
    BY <1>1, <2>1 DEF sends, requests
  <2>3. PICK req : req = [Visit("account", jar.sid) EXCEPT !.cookie = presented,
                                                           !.document = d]
    OBVIOUS
  <2>4. /\ Presentable(req) /\ req.route = "account" /\ req.session = jar.sid
        /\ req.cookie = presented /\ req.document = d
    BY <1>1, <1>4, <2>3 DEF Visit, Presentable, HttpRequests, Routes
  <2>5. Carries(t, req)
    BY <1>7, <2>1, <2>4 DEF Carries
  <2>6. QED
    BY <1>7, <2>1, <2>2, <2>3, <2>4, <2>5 DEF loads
<1>8. CASE registers(t)
  <2>1. PICK jwt : /\ jwt = [key |-> key, jti |-> offered]
                   /\ sends(t, [Visit("register", jar.sid) EXCEPT !.jwt = jwt])
    BY <1>8 DEF registers
  <2>2. jwt \in PresentedJwts
    BY <1>1, <1>2, <2>1 DEF PresentedJwts
  <2>3. requests(t)
    BY <1>1, <2>1, <2>2 DEF sends, requests
  <2>4. PICK req : req = [Visit("register", jar.sid) EXCEPT !.jwt = jwt]
    OBVIOUS
  <2>5. /\ Presentable(req) /\ req.route = "register" /\ req.session = jar.sid
        /\ req.jwt = jwt
    BY <1>1, <1>4, <2>2, <2>4 DEF Visit, Presentable, HttpRequests, Routes
  <2>6. Carries(t, req)
    BY <1>8, <2>1, <2>5 DEF Carries
  <2>7. QED
    BY <1>8, <2>1, <2>3, <2>4, <2>5, <2>6 DEF registers
<1>9. CASE refreshes(t)
  <2>1. PICK jwt, id :
           /\ jwt = IF device.challenge = NoNonce THEN Absent
                    ELSE [key |-> key, jti |-> device.challenge]
           /\ id = device.id
           /\ sends(t, [Visit("refresh", jar.sid) EXCEPT !.jwt = jwt, !.id = id])
    BY <1>9 DEF refreshes
  <2>2. jwt \in PresentedJwts \union {Absent} /\ id \in PresentedIds
    BY <1>2, <1>9, <2>1 DEF PresentedJwts, Keeps, refreshes
  <2>3. requests(t)
    BY <1>1, <2>1, <2>2 DEF sends, requests
  <2>4. PICK req : req = [Visit("refresh", jar.sid) EXCEPT !.jwt = jwt,
                                                           !.id = id]
    OBVIOUS
  <2>5. /\ Presentable(req) /\ req.route = "refresh" /\ req.session = jar.sid
        /\ req.jwt = jwt /\ req.id = device.id
    BY <1>1, <1>4, <2>1, <2>2, <2>4 DEF Visit, Presentable, HttpRequests, Routes
  <2>6. Carries(t, req)
    <3>1. jwt # Absent => jwt.key = key
      BY <2>1
    <3>2. QED
      BY <1>9, <2>5, <3>1 DEF Carries
  <2>7. QED
    BY <1>9, <2>1, <2>3, <2>4, <2>5, <2>6 DEF refreshes
<1>10. QED
  BY <1>5, <1>6, <1>7, <1>8, <1>9 DEF asks

\* A step of the browser is one of the host, or none.
LEMMA BrowserStepIsStep ==
    ASSUME HInv, Keeps, [BrowserNext]_browser_vars
    PROVE  [HostNext]_host_vars
<1>1. ASSUME NEW t \in Tasks, asks(t) PROVE HostNext
  BY <1>1, AsksAreRequests DEF HostNext
<1>2. ASSUME NEW t \in Tasks, served(t) PROVE HostNext
  BY <1>2 DEF served, HostNext
<1>3. ASSUME NEW t \in Tasks, receives(t) \/ loses(t)
      PROVE  UNCHANGED host_vars
  BY <1>3 DEF receives, loses
<1>4. CASE waits
  BY <1>4 DEF waits, HostNext
<1>5. CASE UNCHANGED browser_vars
  BY <1>5 DEF browser_vars
<1>6. QED
  BY <1>1, <1>2, <1>3, <1>4, <1>5 DEF BrowserNext

\* A handler keeps its route until it is done, and it is done behind an await.
LEMMA HandlerStays ==
    ASSUME HInv, NEW t \in Tasks, HostStep(t)
    PROVE  /\ handler[t] # Absent /\ handler[t] \in Handlers
           /\ handler'[t] # Absent =>
                 /\ handler'[t].req.route = handler[t].req.route
                 /\ handler'[t].new = handler[t].new
                 /\ handler'[t].sid \in {handler[t].sid, handler[t].new}
                 /\ handler'[t].sid # handler[t].sid =>
                       resumes(t) /\ handler'[t].next = "offer"
           /\ handler'[t] = Absent => resumes(t)
<1> USE HostFacts
<1>1. PICK h : h = handler[t]
  OBVIOUS
<1>2. CASE begins(t)
  <2>1. PICK k : k = [h EXCEPT !.req.jwt = Absent, !.req.id = NoNonce]
    OBVIOUS
  <2>2. h \in Handlers /\ h # Absent /\ handler'[t] = k
    BY <1>1, <1>2, <2>1 DEF begins
  <2>3. k.req.route = h.req.route /\ k.new = h.new /\ k.sid = h.sid
        /\ k \in Handlers
    BY <2>1, <2>2, BegunHandler
  <2>4. QED
    BY <1>1, <2>2, <2>3, NoHandlerAssumption
<1>3. CASE works(t)
  <2>1. call[t] # Absent
    BY <1>3, CallStays, NoHandlerAssumption DEF works
  <2>2. QED
    BY <1>3, <2>1 DEF works, host
<1>4. CASE gate(t)
  <2>0. PICK verdict \in {"cookie auth", "bound", "revoke"} :
           handler' = [handler EXCEPT ![t].next = verdict,
                                      ![t].req.cookie = NoNonce,
                                      ![t].req.document = TRUE]
    BY <1>4 DEF gate
  <2>1. PICK k : k = [h EXCEPT !.next = verdict, !.req.cookie = NoNonce,
                               !.req.document = TRUE]
    OBVIOUS
  <2>2. h \in Handlers /\ h # Absent
    BY <1>1, <1>4 DEF gate, Handling
  <2>3. /\ k.new = h.new /\ k.sid = h.sid /\ k.req.route = h.req.route
        /\ k \in Handlers
    BY <2>1, <2>2 DEF Handlers, HttpRequests, NoNonce, Nexts
  <2>4. handler'[t] = k
    BY <1>1, <2>0, <2>1
  <2>5. QED
    BY <1>1, <2>2, <2>3, <2>4, NoHandlerAssumption
<1>5. CASE resumes(t)
  <2>1. h \in Handlers /\ h # Absent
    BY <1>1, <1>5 DEF resumes
  <2>2. CASE resumes_login(t)
    <3>1. PICK k : k = [h EXCEPT !.sid = h.new, !.user = h.req.login,
                                 !.deletes = TRUE, !.next = "offer"]
      OBVIOUS
    <3>2. handler'[t] \in {k, Absent}
      BY <1>1, <2>2, <3>1 DEF resumes_login, Fails, Goes_on
    <3>3. /\ k.req = h.req /\ k.new = h.new /\ k.sid = h.new
          /\ k.next = "offer"
      BY <2>1, <3>1 DEF Handlers
    <3>4. QED
      BY <1>1, <1>5, <2>1, <3>2, <3>3
  <2>3. CASE resumes_refresh(t) \/ resumes_gate(t)
    <3>1. handler'[t] \in {h, Absent, [h EXCEPT !.next = "issue"],
                           [h EXCEPT !.next = "revoke"]}
      BY <1>1, <2>3 DEF resumes_refresh, resumes_gate, Responds, Fails, Goes_on
    <3>2. /\ [h EXCEPT !.next = "issue"].req = h.req
          /\ [h EXCEPT !.next = "issue"].new = h.new
          /\ [h EXCEPT !.next = "issue"].sid = h.sid
          /\ [h EXCEPT !.next = "revoke"].req = h.req
          /\ [h EXCEPT !.next = "revoke"].new = h.new
          /\ [h EXCEPT !.next = "revoke"].sid = h.sid
      BY <2>1 DEF Handlers
    <3>3. QED
      BY <1>1, <1>5, <2>1, <3>1, <3>2
  <2>4. CASE \/ resumes_offer_or_register(t) \/ resumes_issue(t)
             \/ resumes_revoke(t)
    <3>1. handler'[t] = Absent
      BY <2>4 DEF resumes_offer_or_register, resumes_issue, resumes_revoke,
                  Responds, Fails
    <3>2. QED
      BY <1>1, <1>5, <2>1, <3>1
  <2>5. QED
    BY <1>5, <2>2, <2>3, <2>4 DEF resumes
<1>6. QED
  BY <1>2, <1>3, <1>4, <1>5 DEF HostStep

\* A response that leaves was given out with its session id, unless it is a 500.
LEMMA DoneResponds ==
    ASSUME HInv, TrafficOrdered, NEW t \in Tasks, resumes(t),
           handler'[t] = Absent
    PROVE  /\ handler[t] # Absent /\ call[t] # Absent /\ call[t].op \in Ops
           /\ call[t].pc = "answer" /\ call'[t] = Absent
           /\ call[t].op = "refresh" => call[t].out = "ok"
           /\ call[t].op = "revoke" => resumes_revoke(t)
           /\ \/ Responds(t)
              \/ /\ call[t].out = "CorruptStateError"
                 /\ call[t].op \in {"issue", "advertise"}
<1> USE HostFacts
<1>1. PICK h, c : h = handler[t] /\ c = call[t]
  OBVIOUS
<1>2. /\ h # Absent /\ h \in Handlers /\ c # Absent /\ c.pc = "answer"
      /\ c \in Calls /\ c.op \in Ops /\ call'[t] = Absent
      /\ c.op \in Awaits(h.next)
  BY <1>1 DEF resumes, answer, Goes, Calls, Prepared
<1>3. ASSUME NEW k \in Handlers, Goes_on(t, k) PROVE FALSE
  BY <1>3, NoHandlerAssumption DEF Goes_on
<1>4. \A next \in Nexts : [h EXCEPT !.next = next] \in Handlers
  BY <1>2 DEF Handlers
<1>5. {"issue", "revoke", "offer"} \subseteq Nexts
  BY DEF Nexts
<1>6. CASE resumes_offer_or_register(t) \/ resumes_revoke(t)
  BY <1>1, <1>2, <1>6 DEF resumes_offer_or_register, resumes_revoke, Serving
<1>7. CASE resumes_issue(t)
  BY <1>1, <1>2, <1>7 DEF resumes_issue, Serving
<1>8. CASE resumes_refresh(t)
  <2>1. c.out = "ok"
    BY <1>1, <1>3, <1>4, <1>5, <1>8 DEF resumes_refresh
  <2>2. QED
    BY <1>1, <1>2, <1>8, <2>1 DEF resumes_refresh, Serving, Retryable
<1>9. CASE resumes_gate(t)
  <2>1. ~ Goes_on(t, handler[t])
    BY <1>1, <1>2, <1>3
  <2>2. QED
    BY <1>1, <1>2, <1>9, <2>1 DEF resumes_gate, Serving
<1>10. CASE resumes_login(t)
  <2>1. users[h.sid] # Absent
    BY <1>1, <1>2, <1>10
    DEF resumes_login, Serving, Awaits, TrafficOrdered, Handling
  <2>2. [h EXCEPT !.sid = h.new, !.user = h.req.login, !.deletes = TRUE, !.next = "offer"]
           \in Handlers
    <3>1. h.new \in Sessions /\ h.req.login \in UserIds
      BY <1>1, <1>2, <1>10 DEF resumes_login, Drawn, Handlers, HttpRequests
    <3>2. QED
      BY <1>2, <1>5, <3>1 DEF Handlers
  <2>3. Goes_on(t, [h EXCEPT !.sid = h.new, !.user = h.req.login,
                             !.deletes = TRUE, !.next = "offer"])
    BY <1>1, <1>10, <2>1 DEF resumes_login
  <2>4. QED
    BY <1>3, <2>2, <2>3
<1>11. QED
  BY <1>1, <1>6, <1>7, <1>8, <1>9, <1>10 DEF resumes

\* What is given out with a response was stored before.
LEMMA ResponseKnown ==
    ASSUME FInv, TrafficOrdered, [Next]_vars, NEW t \in Tasks, resumes(t),
           handler'[t] = Absent, NEW r, r = response(handler[t], call[t])
    PROVE  Known(r)'
<1> USE HostFacts
<1>1. PICK h, c : h = handler[t] /\ c = call[t]
  OBVIOUS
<1>2. /\ HInv /\ h # Absent /\ c # Absent /\ c.op \in Ops /\ c.pc = "answer"
      /\ Told(c)
      /\ Responds(t) \/ /\ c.out = "CorruptStateError"
                        /\ c.op \in {"issue", "advertise"}
  BY <1>1, DoneResponds DEF FInv, AnswersTold
<1>3. /\ used \subseteq used' /\ PresentedIds \subseteq PresentedIds'
      /\ NoNonce \in PresentedIds
  BY HistoryGrows DEF PresentedIds
<1>4. r.sid \in sent' \union {Absent}
  <2>1. Responds(t) => h.new \in sent' \union {Absent}
    BY <1>1 DEF Responds
  <2>2. QED
    BY <1>1, <1>2, <2>1, ResponseFields
<1>5. ASSUME Challenged(c) \/ (c.op \in {"refresh", "advertise"} /\ c.out = "ok")
      PROVE  c.read.challenge \in used /\ c.read.session_identifier \in PresentedIds
  <2>0. c.read \in Binding
    BY <1>1, <1>2, <1>5
    DEF Told, Challenged, IsRecord, HInv, IInv, CallsRemember, Active, Remembers
  <2>1. Sound(c.read)
    BY <1>1, <1>2, <1>5, <2>0 DEF Challenged, FInv, RInv, ReadsAreSound
  <2>2. QED
    BY <2>1 DEF Sound, Dated, Recorded, used, PresentedIds
<1>6. c.out = "ok" /\ c.op \in {"offer", "register", "issue", "refresh"} =>
         c.nonce \in used
  BY <1>2 DEF Told, Minting
<1>7. c.op = "offer" => c.out = "ok"
  BY <1>2 DEF Told
<1>8. c.out = "ok" /\ c.op = "register" => c.nonce \in PresentedIds
  BY <1>2 DEF Told, PresentedIds
<1>9. {r.offer, r.cookie, r.challenge} \subseteq used \union {NoNonce}
  BY <1>1, <1>2, <1>5, <1>6, <1>7, ResponseFields DEF Challenged
<1>10. r.id \in PresentedIds
  BY <1>1, <1>2, <1>3, <1>5, <1>8, ResponseFields
<1>11. QED
  BY <1>3, <1>4, <1>9, <1>10 DEF Known

\* What was given out stays known.
LEMMA KnownStays ==
    ASSUME HInv, [HostNext]_host_vars
    PROVE  /\ sent \subseteq sent' /\ used \subseteq used'
           /\ PresentedIds \subseteq PresentedIds'
           /\ \A r : Known(r) => Known(r)'
<1>1. sent \subseteq sent'
  BY HostFacts, RequestsAreTyped
  DEF HostNext, HostStep, handle, begins, works, gate, resumes, fails,
      resumes_offer_or_register, resumes_issue, resumes_refresh, resumes_gate,
      resumes_revoke, resumes_login, Responds, Fails, Goes_on, Elsewhere,
      host_vars, host
<1>2. used \subseteq used' /\ PresentedIds \subseteq PresentedIds'
  BY HostStepIsStep, HistoryGrows
<1>3. QED
  BY <1>1, <1>2, SMTT(30) DEF Known

\* The last tick of a second.
LastTick(second) == Ticks(second) + TicksPerSecond - 1

\* Seconds and their ticks.
LEMMA TickFacts ==
    /\ \A a \in Nat : /\ Ticks(a) \in Nat /\ LastTick(a) \in Nat
                      /\ Ticks(a) <= LastTick(a)
    /\ \A a, b \in Nat : Ticks(a + b) = Ticks(a) + Ticks(b)
    /\ \A a, b \in Nat : a < b => LastTick(a) < Ticks(b)
<1>0. TicksPerSecond \in Nat /\ TicksPerSecond >= 1
  BY NetworkAssumption
<1>1. ASSUME NEW a \in Nat
      PROVE  /\ Ticks(a) \in Nat /\ LastTick(a) \in Nat
             /\ Ticks(a) <= LastTick(a)
  <2>1. Ticks(a) \in Nat
    BY <1>0 DEF Ticks
  <2>2. QED
    BY <1>0, <2>1 DEF LastTick
<1>2. ASSUME NEW a \in Nat, NEW b \in Nat
      PROVE  Ticks(a + b) = Ticks(a) + Ticks(b)
  BY <1>0 DEF Ticks
<1>3. ASSUME NEW a \in Nat, NEW b \in Nat, a < b
      PROVE  LastTick(a) < Ticks(b)
  <2>1. PICK k \in Nat : b = a + (k + 1)
    <3>1. b - a - 1 \in Nat /\ b = a + ((b - a - 1) + 1)
      BY <1>3
    <3>2. QED
      BY <3>1
  <2>2. Ticks(b) = Ticks(a) + (Ticks(k) + Ticks(1))
    BY <1>2, <2>1
  <2>3. Ticks(1) = TicksPerSecond
    BY <1>0 DEF Ticks
  <2>4. Ticks(k) \in Nat /\ Ticks(a) \in Nat
    BY <1>1
  <2>5. QED
    BY <1>0, <2>2, <2>3, <2>4 DEF LastTick
<1>4. QED
  BY <1>1, <1>2, <1>3

\* The order of their ticks is that of the seconds.
LEMMA TicksOrdered ==
    ASSUME NEW a \in Nat, NEW b \in Nat, Ticks(a) < Ticks(b)
    PROVE  a < b
<1>1. CASE b < a
  <2>1. LastTick(b) < Ticks(a) /\ Ticks(b) <= LastTick(b)
        /\ {Ticks(a), Ticks(b), LastTick(b)} \subseteq Nat
    BY <1>1, TickFacts
  <2>2. QED
    BY <2>1
<1>2. CASE a = b
  BY <1>2, TickFacts
<1>3. QED
  BY <1>1, <1>2

\* The clock is in its second.
LEMMA ClockFacts ==
    ASSUME HInv, frac \in 0 .. TicksPerSecond - 1
    PROVE  /\ now \in Nat /\ clock \in Nat
           /\ Ticks(now) <= clock /\ clock <= LastTick(now)
<1>1. now \in Nat /\ TicksPerSecond \in Nat
  BY NetworkAssumption DEF HInv, IInv, Types, TypeOK
<1>2. Ticks(now) \in Nat
  BY <1>1, TickFacts
<1>3. QED
  BY <1>1, <1>2 DEF clock, LastTick

\* The browser keeps what a reply carries.
LEMMA KeepsNext ==
    ASSUME FInv, BInv, [BrowserNext]_browser_vars
    PROVE  Keeps'
<1>1. /\ sent \subseteq sent' /\ used \subseteq used'
      /\ PresentedIds \subseteq PresentedIds' /\ HInv /\ Keeps
  BY BrowserStepIsStep, KnownStays DEF FInv, BInv
<1>2. ASSUME UNCHANGED <<jar, device>>, offered' \in {offered, NoNonce}
      PROVE  Keeps'
  BY <1>1, <1>2 DEF Keeps
<1>3. ASSUME NEW t \in Tasks, asks(t) PROVE Keeps'
  BY <1>1, <1>2, <1>3, AsksAreRequests DEF sends
<1>4. ASSUME NEW t \in Tasks, served(t) \/ loses(t) PROVE Keeps'
  BY <1>2, <1>4 DEF served, loses, browser
<1>5. CASE waits \/ UNCHANGED browser_vars
  BY <1>2, <1>5 DEF waits, browser_vars, browser
<1>6. ASSUME NEW t \in Tasks, receives(t) PROVE Keeps'
  <2>1. PICK r : r = reply[t]
    OBVIOUS
  <2>2. /\ Known(r) /\ jar' = stored(r) /\ device' = remembered(r)
        /\ offered' \in {offered, r.offer} /\ UNCHANGED host_vars
    BY <1>6, <2>1 DEF receives, BInv
  <2>3. used' = used /\ sent' = sent /\ PresentedIds' = PresentedIds
    BY <2>2 DEF host_vars, host, vars, used, PresentedIds
  <2>4. /\ used \subseteq Nat /\ sent \subseteq Sessions /\ NoNonce \in Nat
        /\ clock + Ticks(CookieMaxAge) \in Nat /\ 0 \in Nat
    <3>1. clock \in Nat /\ Ticks(CookieMaxAge) \in Nat
      BY <1>1, Lifetimes, TickFacts, ClockFacts DEF BInv
    <3>2. QED
      BY <1>1, <3>1
      DEF HInv, HostTypeOK, IInv, Types, TypeOK, used, Nonces, NoNonce
  <2>5. /\ jar' \in [sid : Sessions \union {Absent}, cookie : Nat, until : Nat]
        /\ jar'.sid \in sent \union {Absent}
        /\ jar'.cookie \in used \union {NoNonce}
    <3>1. PICK j : j = IF r.sid # Absent THEN [jar EXCEPT !.sid = r.sid] ELSE jar
      OBVIOUS
    <3>2. /\ j \in [sid : Sessions \union {Absent}, cookie : Nat, until : Nat]
          /\ j.sid \in sent \union {Absent} /\ j.cookie = jar.cookie
      BY <1>1, <2>2, <2>4, <3>1 DEF Keeps, Known
    <3>3. jar' \in {j, [j EXCEPT !.cookie = NoNonce, !.until = 0],
                    [j EXCEPT !.cookie = r.cookie,
                              !.until = clock + Ticks(CookieMaxAge)]}
      BY <2>2, <3>1 DEF stored
    <3>4. r.cookie \in used \union {NoNonce} /\ r.cookie \in Nat
      BY <2>2, <2>4 DEF Known
    <3>5. jar.cookie \in used \union {NoNonce}
      BY <1>1 DEF Keeps
    <3>6. QED
      BY <2>4, <3>2, <3>3, <3>4, <3>5
  <2>6. offered' \in used \union {NoNonce}
    BY <1>1, <2>2 DEF Keeps, Known
  <2>7. \/ device' = Absent
        \/ device' \in [id : PresentedIds, challenge : used \union {NoNonce}]
    BY <1>1, <2>2 DEF remembered, Keeps, Known
  <2>8. QED
    BY <2>3, <2>5, <2>6, <2>7 DEF Keeps
<1>7. QED
  BY <1>3, <1>4, <1>5, <1>6 DEF BrowserNext

\* A request that is taken up keeps its route, and a login that has a session to
\* end has found it.
LEMMA TakenUp ==
    ASSUME HInv, NEW t \in Tasks, NEW req, Presentable(req), handle(t, req),
           handler'[t] # Absent
    PROVE  /\ handler'[t] \in Handlers /\ call'[t] = Absent
           /\ handler'[t].req.route = req.route
           /\ handler'[t].next # "none"
           /\ handler'[t].next =
                 first_call(req, is_fresh(req), handler'[t].user)
           /\ ~ is_fresh(req) => /\ handler'[t].sid = req.session
                                 /\ handler'[t].user = users[req.session]
                                 /\ users' = users
           /\ handler'[t].new =
                 IF is_fresh(req) \/ req.route = "login" THEN NewId ELSE Absent
           /\ handler'[t].req.cookie = req.cookie
           /\ handler'[t].req.document = req.document
           /\ handler'[t].req.jwt = req.jwt /\ handler'[t].req.id = req.id
           /\ handler'[t].req.login = req.login /\ ~ handler'[t].deletes
<1> DEFINE fresh == is_fresh(req)
           draws == fresh \/ req.route = "login"
           new == IF draws THEN NewId ELSE Absent
           sid == IF fresh THEN new ELSE req.session
           user == IF ~ fresh THEN users[sid]
                   ELSE IF req.route = "login" THEN req.login ELSE Unknown
           next == first_call(req, fresh, user)
           h == [req |-> [req EXCEPT !.session = Absent],
                 sid |-> sid, user |-> user, new |-> new,
                 deletes |-> FALSE, next |-> next]
<1>1. /\ handler[t] = Absent
      /\ users' = IF fresh THEN [users EXCEPT ![sid] = user] ELSE users
      /\ handler' = IF next = "none" THEN handler
                    ELSE [handler EXCEPT ![t] = h]
      /\ UNCHANGED <<vars, hard>>
  BY DEF handle
<1>2. handler'[t] = h /\ next # "none" /\ call'[t] = Absent
  <2>1. call[t] = Absent
    BY <1>1 DEF HInv, HandlersGood, Good
  <2>2. handler \in [Tasks -> Handlers \union {Absent}]
    BY HostFacts
  <2>3. QED
    BY <1>1, <2>1, <2>2 DEF vars
<1>3. handler'[t] \in Handlers
  BY HandleKeeps DEF HostTypeOK
<1>4. /\ h.req.route = req.route /\ h.req.cookie = req.cookie
      /\ h.req.document = req.document /\ h.req.jwt = req.jwt
      /\ h.req.id = req.id /\ h.req.login = req.login
  BY DEF Presentable, HttpRequests
<1>5. ~ fresh => sid = req.session /\ user = users[req.session] /\ users' = users
  BY <1>1
<1> HIDE DEF fresh, next
<1>6. /\ h.sid = sid /\ h.user = user /\ h.new = new /\ h.next = next
      /\ h.deletes = FALSE
  OBVIOUS
<1>7. new = IF fresh \/ req.route = "login" THEN NewId ELSE Absent
  OBVIOUS
<1>8. next = first_call(req, fresh, user)
  BY DEF next
<1> HIDE DEF sid, user, new, h
<1>9. QED
  BY <1>2, <1>3, <1>4, <1>5, <1>6, <1>7, <1>8 DEF fresh

\* A login that has a session to end still finds it when it goes on.
LEMMA LoginFinds ==
    ASSUME HInv, TrafficOrdered, NEW t \in Tasks, HostStep(t),
           Handling(t, "revoke")', handler'[t].req.route = "login"
    PROVE  users'[handler'[t].sid] # Absent
<1> USE HostFacts
<1>1. /\ handler[t] # Absent /\ handler'[t] # Absent
      /\ handler[t].req.route = "login" /\ handler'[t].sid = handler[t].sid
  BY HandlerStays DEF Handling
<1>2. Drawn(t) /\ Prepared(t) /\ handler[t] \in Handlers
  BY <1>1
<1>3. handler[t].next \in {"offer", "revoke"}
  BY <1>1, <1>2 DEF Drawn
<1>4. users' = users
  <2>1. ~ resumes_revoke(t) /\ ~ resumes_login(t)
    <3>1. ASSUME resumes_login(t) PROVE handler'[t].next = "offer"
      <4>1. PICK h, k : /\ h = handler[t]
                        /\ k = [h EXCEPT !.sid = h.new, !.user = h.req.login,
                                         !.deletes = TRUE, !.next = "offer"]
        OBVIOUS
      <4>2. handler'[t] = k
        BY <1>1, <3>1, <4>1 DEF resumes_login, Fails, Goes_on
      <4>3. k.next = "offer"
        BY <1>2, <4>1 DEF Handlers
      <4>4. QED
        BY <4>2, <4>3
    <3>2. QED
      BY <1>1, <3>1 DEF resumes_revoke, Responds, Handling
  <2>2. QED
    BY <2>1 DEF HostStep, begins, works, gate, host, resumes,
       resumes_offer_or_register, resumes_issue, resumes_refresh, resumes_gate
<1>5. handler[t].next = "revoke"
  <2>1. CASE begins(t)
    <3>1. PICK h, k : h = handler[t] /\
              k = [h EXCEPT !.req.jwt = Absent, !.req.id = NoNonce]
      OBVIOUS
    <3>2. handler'[t] = k /\ h \in Handlers
      BY <1>2, <2>1, <3>1 DEF begins
    <3>3. k.next = h.next
      BY <3>1, <3>2, BegunHandler
    <3>4. QED
      BY <3>1, <3>2, <3>3 DEF Handling
  <2>2. CASE works(t)
    BY <2>2 DEF works, host, Handling
  <2>3. CASE gate(t)
    BY <1>3, <2>3 DEF gate, Handling
  <2>4. CASE resumes(t)
    <3>1. CASE resumes_gate(t)
      BY <1>1, <3>1 DEF resumes_gate, Goes_on, Responds, Fails, Handling
    <3>2. CASE resumes_refresh(t)
      BY <1>2, <1>3, <3>2 DEF resumes_refresh, Serving, Prepared, Awaits
    <3>3. CASE resumes_revoke(t) \/ resumes_login(t)
      BY <1>2, <1>3, <3>3 DEF resumes_revoke, resumes_login, Serving, Prepared,
                              Awaits
    <3>4. CASE resumes_offer_or_register(t) \/ resumes_issue(t)
      BY <1>1, <3>4 DEF resumes_offer_or_register, resumes_issue, Responds, Fails
    <3>5. QED
      BY <2>4, <3>1, <3>2, <3>3, <3>4 DEF resumes
  <2>5. QED
    BY <2>1, <2>2, <2>3, <2>4 DEF HostStep
<1>6. QED
  BY <1>1, <1>4, <1>5 DEF TrafficOrdered, Handling

\* The traffic stays ordered.
LEMMA TrafficNext ==
    ASSUME FInv, BInv, [BrowserNext]_browser_vars
    PROVE  TrafficOrdered'
<1> USE HostFacts
<1>0. HInv /\ Keeps /\ TrafficOrdered /\ DOMAIN reply = Tasks
  BY DEF FInv, BInv
<1>1. ASSUME NEW t \in Tasks, asks(t) PROVE TrafficOrdered'
  <2>1. PICK req : /\ Presentable(req) /\ sends(t, req)
                   /\ req.route \in {"login", "logout"} => Idle
    BY <1>0, <1>1, AsksAreRequests
  <2>2. /\ handler[t] = Absent /\ reply[t] = Absent /\ reply' = reply
        /\ ~ Pending("login") /\ ~ Pending("logout") /\ handle(t, req)
    BY <2>1 DEF sends, InFlight
  <2>3. \A u \in Tasks \ {t} : handler'[u] = handler[u]
    BY <1>0, <1>1, OthersUntouched, AsksAreRequests
  <2>4. handler'[t] # Absent => handler'[t].req.route = req.route
    BY <1>0, <2>1, <2>2, TakenUp
  <2>5. \A u \in Tasks : handler'[u] = Absent \/ reply'[u] = Absent
    BY <1>0, <2>2, <2>3 DEF TrafficOrdered
  <2>6. ASSUME NEW u \in Tasks, InFlight(u), RouteOf(u) \in {"login", "logout"}
        PROVE  FALSE
    BY <2>2, <2>6 DEF Pending, InFlight, RouteOf
  <2>7. ASSUME NEW u \in Tasks, NEW v \in Tasks, InFlight(u)', InFlight(v)',
               RouteOf(u)' \in {"login", "logout"}
        PROVE  u = v
    <3>1. u = t
      BY <2>2, <2>3, <2>6, <2>7 DEF InFlight, RouteOf
    <3>2. req.route \in {"login", "logout"}
      BY <2>2, <2>4, <2>7, <3>1 DEF InFlight, RouteOf
    <3>3. QED
      BY <2>1, <2>2, <2>3, <2>7, <3>1, <3>2 DEF Idle, InFlight
  <2>8. ASSUME NEW u \in Tasks, Handling(u, "revoke")',
               handler'[u].req.route = "login"
        PROVE  users'[handler'[u].sid] # Absent
    <3>1. u = t
      BY <2>3, <2>6, <2>8 DEF Handling, InFlight, RouteOf
    <3>2. /\ handler'[t].next = "revoke" /\ req.route = "login"
          /\ handler'[t].next =
                first_call(req, is_fresh(req), handler'[t].user)
          /\ ~ is_fresh(req) => /\ handler'[t].sid = req.session
                                /\ users' = users
      BY <1>0, <2>1, <2>2, <2>8, <3>1, TakenUp DEF Handling
    <3>3. ~ is_fresh(req)
      BY <3>2 DEF first_call
    <3>4. QED
      BY <3>1, <3>2, <3>3 DEF is_fresh
  <2>9. QED
    BY <2>5, <2>7, <2>8 DEF TrafficOrdered
<1>2. ASSUME NEW t \in Tasks, served(t) PROVE TrafficOrdered'
  <2>1. HostStep(t) /\ handler[t] # Absent /\ reply[t] = Absent
    BY <1>0, <1>2, HandlerStays DEF served, TrafficOrdered
  <2>2. \A u \in Tasks \ {t} : handler'[u] = handler[u] /\ reply'[u] = reply[u]
    BY <1>0, <1>2, <2>1, OthersUntouched DEF served
  <2>3. ASSUME handler'[t] # Absent
        PROVE  /\ reply'[t] = Absent
               /\ handler'[t].req.route = handler[t].req.route
    BY <1>0, <1>2, <2>1, <2>3, HandlerStays DEF served
  <2>4. ASSUME handler'[t] = Absent
        PROVE  reply'[t].route = handler[t].req.route
    <3>1. call[t].op \in Ops
      BY <1>0, <2>1, <2>4, HandlerStays, DoneResponds
    <3>2. reply'[t] = response(handler[t], call[t])
      BY <1>0, <1>2, <2>4 DEF served
    <3>3. QED
      BY <3>1, <3>2, ResponseFields
  <2>5. RouteOf(t)' = RouteOf(t)
    BY <2>1, <2>3, <2>4 DEF RouteOf
  <2>6. \A u \in Tasks : InFlight(u)' => InFlight(u) /\ RouteOf(u)' = RouteOf(u)
    BY <2>1, <2>2, <2>5 DEF InFlight, RouteOf
  <2>7. ASSUME NEW u \in Tasks, Handling(u, "revoke")',
               handler'[u].req.route = "login"
        PROVE  users'[handler'[u].sid] # Absent
    <3>1. u = t
      BY <1>0, <2>1, <2>2, <2>7
      DEF TrafficOrdered, Handling, InFlight, RouteOf
    <3>2. QED
      BY <1>0, <2>1, <2>7, <3>1, LoginFinds
  <2>8. QED
    BY <1>0, <2>2, <2>3, <2>6, <2>7 DEF TrafficOrdered
<1>3. ASSUME NEW t \in Tasks, receives(t) \/ loses(t) PROVE TrafficOrdered'
  <2>1. /\ reply' = [reply EXCEPT ![t] = Absent]
        /\ UNCHANGED <<handler, users>>
    BY <1>3 DEF receives, loses, host_vars, host
  <2>2. \A u \in Tasks : reply'[u] = reply[u] \/ reply'[u] = Absent
    BY <1>0, <2>1
  <2>3. \A u \in Tasks : InFlight(u)' => InFlight(u) /\ RouteOf(u)' = RouteOf(u)
    BY <1>0, <2>1, <2>2 DEF InFlight, RouteOf
  <2>4. QED
    BY <1>0, <2>1, <2>2, <2>3 DEF TrafficOrdered, Handling
<1>4. CASE waits \/ UNCHANGED browser_vars
  <2>1. UNCHANGED <<handler, users, reply>>
    BY <1>4 DEF waits, Elsewhere, browser_vars, host_vars, host, network
  <2>2. QED
    BY <1>0, <2>1 DEF TrafficOrdered, Handling, InFlight, RouteOf
<1>5. QED
  BY <1>1, <1>2, <1>3, <1>4 DEF BrowserNext

\* What the browser keeps and what is in flight stay as they were.
LEMMA BrowserNextGood ==
    ASSUME FInv, BInv, [BrowserNext]_browser_vars
    PROVE  BInv'
<1>0. HInv /\ Keeps /\ TrafficOrdered /\ DOMAIN reply = Tasks
      /\ DOMAIN left = Tasks /\ \A t \in Tasks : reply[t] # Absent => Known(reply[t])
  BY DEF FInv, BInv
<1>1. [HostNext]_host_vars /\ [Next]_vars
  BY <1>0, BrowserStepIsStep, HostStepIsStep
<1>2. \A t \in Tasks : reply[t] # Absent /\ reply'[t] = reply[t] =>
         Known(reply[t])'
  BY <1>0, <1>1, KnownStays DEF Known
<1>3. ASSUME NEW t \in Tasks, asks(t)
      PROVE  DOMAIN reply' = Tasks /\ DOMAIN left' = Tasks /\ reply' = reply
  <2>1. PICK req : sends(t, req)
    BY <1>0, <1>3, AsksAreRequests
  <2>2. QED
    BY <1>0, <2>1 DEF sends
<1>4. ASSUME NEW t \in Tasks, served(t)
      PROVE  /\ DOMAIN reply' = Tasks /\ DOMAIN left' = Tasks
             /\ \A u \in Tasks : reply'[u] # Absent => Known(reply[u])'
  <2>1. DOMAIN reply' = Tasks /\ DOMAIN left' = Tasks
    BY <1>0, <1>4 DEF served
  <2>2. CASE handler'[t] # Absent
    BY <1>2, <1>4, <2>1, <2>2 DEF served
  <2>3. CASE handler'[t] = Absent
    <3>1. HostStep(t) /\ resumes(t)
      BY <1>0, <1>4, <2>3, HandlerStays DEF served
    <3>2. PICK r : r = response(handler[t], call[t])
      OBVIOUS
    <3>3. Known(r)'
      BY <1>0, <1>1, <2>3, <3>1, <3>2, ResponseKnown
    <3>4. reply' = [reply EXCEPT ![t] = r]
      BY <1>4, <2>3, <3>2 DEF served
    <3>5. reply'[t] = r /\ \A u \in Tasks \ {t} : reply'[u] = reply[u]
      BY <1>0, <3>4
    <3>6. Known(reply[t])'
      BY <3>3, <3>5 DEF Known
    <3>7. QED
      BY <1>2, <2>1, <3>5, <3>6
  <2>4. QED
    BY <2>1, <2>2, <2>3
<1>5. ASSUME NEW t \in Tasks, receives(t) \/ loses(t)
      PROVE  /\ DOMAIN reply' = Tasks /\ DOMAIN left' = Tasks
             /\ \A u \in Tasks : reply'[u] # Absent => reply'[u] = reply[u]
  BY <1>0, <1>5 DEF receives, loses
<1>6. ASSUME waits \/ UNCHANGED browser_vars PROVE reply' = reply /\ left' = left
  BY <1>6 DEF waits, browser_vars, network
<1>7. frac' \in 0 .. TicksPerSecond - 1
  <2>1. frac \in 0 .. TicksPerSecond - 1 /\ TicksPerSecond \in Nat \ {0}
    BY NetworkAssumption DEF BInv
  <2>2. ASSUME NEW t \in Tasks, asks(t) PROVE frac' = frac
    BY <1>0, <2>2, AsksAreRequests DEF sends
  <2>3. ASSUME NEW t \in Tasks, served(t) \/ receives(t) \/ loses(t)
        PROVE  frac' = frac
    BY <2>3 DEF served, receives, loses
  <2>4. CASE waits
    BY <2>1, <2>4 DEF waits
  <2>5. QED
    BY <2>1, <2>2, <2>3, <2>4 DEF BrowserNext, browser_vars
<1>8. QED
  BY <1>0, <1>2, <1>3, <1>4, <1>5, <1>6, <1>7, KeepsNext, TrafficNext
  DEF BInv, BrowserNext

\* What is known of the host stays known.
LEMMA HostNextKnown ==
    ASSUME FInv, [HostNext]_host_vars
    PROVE  FInv'
<1>1. IInv /\ [Next]_vars
  BY HostStepIsStep DEF FInv, HInv
<1>2. QED
  BY <1>1, HostNextGood, LinkedNext, OwnNext, ReadsNext, AnswersNext DEF FInv

\* The invariant of the browser and its host.
LEMMA BrowserInvariance == BrowserSpec => [](FInv /\ BInv)
<1>1. BrowserInit => HInv /\ LInv /\ UInv
  <2>1. HostInit => LInv
    BY DEF HostInit, Init, Init_store, LInv, HandlersLinked, LoggedOutIsUnbound
  <2>2. HostInit => UInv
    BY SessionsAssumption
    DEF HostInit, Init, Init_store, UInv, RecordsAreOwn, Offers, IsRecord
  <2>3. QED
    BY <2>1, <2>2, HostInitGood DEF BrowserInit
<1>2. BrowserInit => RInv /\ AnswersTold
  BY DEF BrowserInit, HostInit, Init, Init_store, RInv, ReadsAreSound,
         MintedOnce, IsRecord, AnswersTold
<1>3. BrowserInit => BInv
  <2>1. BrowserInit => Keeps
    BY DEF BrowserInit, Keeps, NoNonce
  <2>2. BrowserInit => TrafficOrdered
    BY DEF BrowserInit, HostInit, TrafficOrdered, InFlight, Handling
  <2>3. QED
    BY <2>1, <2>2, NetworkAssumption DEF BrowserInit, BInv
<1>4. FInv /\ BInv /\ [BrowserNext]_browser_vars => (FInv /\ BInv)'
  <2> SUFFICES ASSUME FInv, BInv, [BrowserNext]_browser_vars
               PROVE  FInv' /\ BInv'
    OBVIOUS
  <2>1. [HostNext]_host_vars
    BY BrowserStepIsStep DEF FInv, BInv
  <2>2. QED
    BY <2>1, HostNextKnown, BrowserNextGood
<1>5. BrowserInit => FInv
  BY <1>1, <1>2 DEF FInv
<1>6. QED
  BY <1>3, <1>4, <1>5, PTL DEF BrowserSpec

\* The honest browser is one of the clients Host is specified for: every request
\* it makes carries a session id, a cookie, a proof and an identifier that were
\* given out, so all that is proved of Host holds when it is the client.
THEOREM BrowserImplementsHost == BrowserSpec => HostSpec
<1>1. BrowserInit => HostInit
  BY DEF BrowserInit
<1>2. FInv /\ BInv /\ [BrowserNext]_browser_vars => [HostNext]_host_vars
  BY BrowserStepIsStep DEF FInv, BInv
<1>3. QED
  BY <1>1, <1>2, BrowserInvariance, PTL DEF BrowserSpec, HostSpec

------------------------------------------------------------------------------
(* The invariant behind OverlapLastsInBrowser.                               *)

\* The token n was minted in the second of the given tick, or later.
MintedSince(n, tick) == \E m \in minted : m.nonce = n /\ tick <= LastTick(m.at)

Bringing(c) == c.op \in {"register", "refresh"}

\* What is in flight left at most Latency ago, and the cookie it brings was
\* minted since.
Timely(t) ==
    /\ left[t] \in Nat /\ left[t] <= clock
    /\ InFlight(t) => clock - left[t] <= Latency
    /\ call[t] # Absent /\ Bringing(call[t]) =>
          /\ call[t].pc = "write" => left[t] <= LastTick(call[t].at)
          /\ call[t].pc = "answer" /\ call[t].out = "ok" =>
                MintedSince(call[t].nonce, left[t])
    /\ reply[t] # Absent /\ reply[t].cookie # NoNonce =>
          MintedSince(reply[t].cookie, left[t])

\* So the browser keeps a cookie for its lifetime, counted from the end of the
\* second it was minted in, and at most Latency longer.
KeptInTime ==
    jar.cookie # NoNonce =>
        \E m \in minted :
           /\ m.nonce = jar.cookie
           /\ jar.until <= LastTick(m.at) + Ticks(CookieMaxAge) + Latency

OInv == KeptInTime /\ \A t \in Tasks : Timely(t)

\* A task whose own traffic does not change, or is received, stays timely.
LEMMA StaysTimely ==
    ASSUME FInv, BInv, BInv', [Next]_vars, NEW t \in Tasks, Timely(t),
           UNCHANGED <<handler[t], call[t]>>, clock <= clock',
           \/ reply'[t] = reply[t] /\ left'[t] = left[t]
           \/ reply'[t] = Absent /\ reply[t] # Absent /\ left'[t] = 0,
           InFlight(t) => clock' - left[t] <= Latency
    PROVE  Timely(t)'
<1>1. /\ minted \subseteq minted' /\ now' \in Nat
      /\ clock \in Nat /\ clock' \in Nat
  <2>1. HInv /\ IInv /\ now' \in Nat
    BY TimeGrows DEF FInv, HInv
  <2>2. Ticks(now') \in Nat
    BY <2>1, TickFacts
  <2>3. frac' \in Nat
    BY NetworkAssumption DEF BInv
  <2>4. clock' \in Nat
    BY <2>2, <2>3 DEF clock, Ticks
  <2>5. QED
    BY <2>1, <2>4, HistoryGrows, ClockFacts DEF BInv
<1>2. CASE reply'[t] = reply[t] /\ left'[t] = left[t]
  <2>1. InFlight(t)' <=> InFlight(t)
    BY <1>2 DEF InFlight
  <2>2. \A n, tick : MintedSince(n, tick) =>
           \E m \in minted' : m.nonce = n /\ tick <= LastTick(m.at)
    BY <1>1 DEF MintedSince
  <2>3. /\ left'[t] \in Nat /\ left'[t] <= clock'
        /\ InFlight(t)' => clock' - left'[t] <= Latency
    BY <1>1, <1>2, <2>1 DEF Timely
  <2>4. call'[t] # Absent /\ Bringing(call'[t]) =>
            /\ call'[t].pc = "write" => left'[t] <= LastTick(call'[t].at)
            /\ call'[t].pc = "answer" /\ call'[t].out = "ok" =>
                  \E m \in minted' : /\ m.nonce = call'[t].nonce
                                     /\ left'[t] <= LastTick(m.at)
    BY <1>2, <2>2 DEF Timely
  <2>5. reply'[t] # Absent /\ reply'[t].cookie # NoNonce =>
            \E m \in minted' : /\ m.nonce = reply'[t].cookie
                               /\ left'[t] <= LastTick(m.at)
    BY <1>2, <2>2 DEF Timely
  <2>6. QED
    BY <2>3, <2>4, <2>5 DEF Timely, MintedSince, Bringing
<1>3. CASE reply'[t] = Absent /\ reply[t] # Absent /\ left'[t] = 0
  <2>1. handler[t] = Absent /\ call[t] = Absent
    BY <1>3 DEF BInv, TrafficOrdered, FInv, HInv, HandlersGood, Good
  <2>2. QED
    BY <1>1, <1>3, <2>1 DEF Timely, InFlight
<1>4. QED
  BY <1>2, <1>3

\* Serving takes no time: the clock is not the host's.
LEMMA WorkStandsStill ==
    ASSUME HInv, NEW t \in Tasks, HostStep(t)
    PROVE  now' = now
<1>1. CASE begins(t)
  BY <1>1, SMTT(30) DEF begins, build_registration_header_response, register,
              issue_refresh_challenge, refresh, get_binding, revoke, Begin
<1>2. CASE works(t)
  <2>1. Works(t)
    BY <1>2 DEF works
  <2>2. QED
    BY <2>1 DEF Works, get, offer_check, offer_put, register_check,
         register_commit, register_loses, issue_check, issue_replace,
         issue_loses, refresh_check, refresh_replace,
         refresh_loses, advertise_replace, advertise_loses, replace_raises,
         revoke_delete, Mint, Stop, Again
<1>3. CASE gate(t)
  BY <1>3 DEF gate, advertise_check, get_binding_returns, Stop
<1>4. CASE resumes(t)
  BY <1>4 DEF resumes, answer
<1>5. QED
  BY <1>1, <1>2, <1>3, <1>4 DEF HostStep

\* A request that leaves.
LEMMA AskTimely ==
    ASSUME FInv, BInv, BInv', OInv, [Next]_vars, NEW t \in Tasks, asks(t),
           NEW u \in Tasks
    PROVE  Timely(u)'
<1>0. /\ HInv /\ Keeps /\ DOMAIN left = Tasks /\ Latency \in Nat
      /\ clock \in Nat
  BY NetworkAssumption, ClockFacts DEF FInv, BInv
<1>1. PICK req : Presentable(req) /\ sends(t, req) /\ requests(t)
  BY <1>0, AsksAreRequests
<1>2. /\ left' = [left EXCEPT ![t] = clock] /\ reply' = reply
      /\ reply[t] = Absent /\ handle(t, req) /\ clock' = clock
  BY <1>0, <1>1 DEF sends, InFlight, handle, vars, clock
<1>3. CASE u = t
  <2>1. call'[t] = Absent
    BY <1>0, <1>2 DEF handle, vars, HInv, HandlersGood, Good
  <2>2. left'[t] = clock
    BY <1>0, <1>2
  <2>3. left'[t] \in Nat /\ left'[t] <= clock' /\ clock' - left'[t] <= Latency
    BY <1>0, <1>2, <2>2
  <2>4. QED
    BY <1>2, <1>3, <2>1, <2>3 DEF Timely
<1>4. CASE u # t
  <2>1. handler'[u] = handler[u] /\ call'[u] = call[u] /\ left'[u] = left[u]
    BY <1>0, <1>1, <1>2, <1>4, OthersUntouched
  <2>2. QED
    BY <1>0, <1>2, <2>1, StaysTimely DEF OInv, Timely
<1>5. QED
  BY <1>3, <1>4

\* A call of the task t that moves.
LEMMA CallTimely ==
    ASSUME FInv, BInv, OInv, [Next]_vars, NEW t \in Tasks, now' = now,
           left'[t] = left[t], call'[t] # Absent, Bringing(call'[t])
    PROVE  /\ call'[t].pc = "write" => left[t] <= LastTick(call'[t].at)
           /\ call'[t].pc = "answer" /\ call'[t].out = "ok" =>
                 \E m \in minted' : /\ m.nonce = call'[t].nonce
                                    /\ left[t] <= LastTick(m.at)
<1>0. IInv /\ minted \subseteq minted' /\ Timely(t)
  BY HistoryGrows DEF FInv, HInv, OInv
<1>1. CASE call'[t] = call[t]
  BY <1>0, <1>1 DEF Timely, MintedSince
<1>2. CASE call'[t] # call[t]
  <2>1. ASSUME call'[t].pc = "write" PROVE left[t] <= LastTick(call'[t].at)
    <3>1. call'[t].op \in {"register", "refresh"}
      BY DEF Bringing
    <3>2. Moved(t) /\ call'[t].at = now
      BY <1>0, <1>2, <2>1, <3>1, CallChanges DEF Asked, Moved
    <3>3. clock \in Nat /\ clock <= LastTick(now) /\ LastTick(now) \in Nat
      BY ClockFacts, TickFacts DEF FInv, BInv
    <3>4. QED
      BY <1>0, <3>2, <3>3 DEF Timely
  <2>2. ASSUME call'[t].pc = "answer", call'[t].out = "ok"
        PROVE  \E m \in minted' : /\ m.nonce = call'[t].nonce
                                  /\ left[t] <= LastTick(m.at)
    <3>1. /\ call[t] # Absent /\ call'[t].op = call[t].op
          /\ call'[t].nonce = call[t].nonce
          /\ register_commit(t) \/ refresh_replace(t)
      BY <1>0, <1>2, <2>2, AnswersCome
      DEF Bringing, offer_put, issue_replace, advertise_replace, revoke_delete,
          Serving
    <3>2. /\ call[t].pc = "write"
          /\ [nonce |-> call[t].nonce, at |-> call[t].at] \in minted'
      BY <3>1 DEF register_commit, refresh_replace, Serving
    <3>3. left[t] <= LastTick(call[t].at)
      BY <1>0, <3>1, <3>2 DEF Timely, Bringing
    <3>4. QED
      BY <3>1, <3>2, <3>3
  <2>3. QED
    BY <2>1, <2>2
<1>3. QED
  BY <1>1, <1>2

\* The host serves.
LEMMA ServedTimely ==
    ASSUME FInv, BInv, BInv', OInv, [Next]_vars, NEW t \in Tasks, served(t),
           NEW u \in Tasks
    PROVE  Timely(u)'
<1>0. /\ HInv /\ TrafficOrdered /\ DOMAIN reply = Tasks /\ HostStep(t)
      /\ left' = left /\ minted \subseteq minted'
  BY HistoryGrows DEF FInv, BInv, served
<1>1. now' = now /\ clock' = clock /\ clock \in Nat
  <2>1. now' = now /\ frac' = frac
    BY <1>0, WorkStandsStill DEF served
  <2>2. QED
    BY <1>0, <2>1, ClockFacts DEF BInv, clock
<1>2. CASE u # t
  <2>1. handler'[u] = handler[u] /\ call'[u] = call[u] /\ reply'[u] = reply[u]
    BY <1>0, <1>2, OthersUntouched DEF served
  <2>2. QED
    BY <1>0, <1>1, <2>1, StaysTimely DEF OInv, Timely
<1>3. CASE u = t
  <2>1. handler[t] # Absent /\ reply[t] = Absent /\ Timely(t)
    BY <1>0, HandlerStays DEF TrafficOrdered, OInv
  <2>2. /\ left'[t] \in Nat /\ left'[t] <= clock'
        /\ clock' - left'[t] <= Latency
    BY <1>0, <1>1, <2>1 DEF Timely, InFlight
  <2>3. call'[t] # Absent /\ Bringing(call'[t]) =>
           /\ call'[t].pc = "write" => left'[t] <= LastTick(call'[t].at)
           /\ call'[t].pc = "answer" /\ call'[t].out = "ok" =>
                 \E m \in minted' : /\ m.nonce = call'[t].nonce
                                    /\ left'[t] <= LastTick(m.at)
    BY <1>0, <1>1, CallTimely
  <2>4. ASSUME reply'[t] # Absent, reply'[t].cookie # NoNonce
        PROVE  \E m \in minted' : /\ m.nonce = reply'[t].cookie
                                  /\ left'[t] <= LastTick(m.at)
    <3>1. handler'[t] = Absent /\ reply'[t] = response(handler[t], call[t])
      BY <1>0, <2>1, <2>4 DEF served
    <3>2. call[t] # Absent /\ call[t].op \in Ops /\ call[t].pc = "answer"
      BY <1>0, <3>1, HandlerStays, DoneResponds
    <3>3. /\ call[t].op \in {"register", "refresh"} /\ call[t].out = "ok"
          /\ reply'[t].cookie = call[t].nonce
      BY <2>4, <3>1, <3>2, ResponseFields
    <3>4. QED
      BY <1>0, <2>1, <3>2, <3>3 DEF Timely, MintedSince, Bringing
  <2>5. QED
    BY <1>3, <2>2, <2>3, <2>4 DEF Timely, MintedSince, Bringing
<1>4. QED
  BY <1>2, <1>3

\* What time passes for what is in flight.
LEMMA WaitsTimely ==
    ASSUME FInv, BInv, waits \/ UNCHANGED browser_vars
    PROVE  /\ UNCHANGED <<jar, device, offered, handler, call, reply, left,
                          users, losses, profile>>
           /\ clock' \in {clock, clock + 1}
           /\ clock' # clock => HasTime /\ binding' = binding
<1>1. UNCHANGED <<jar, device, offered, handler, call, reply, left, users,
                  losses, profile>>
  BY DEF waits, Elsewhere, Tick, Disturb, browser_vars, browser, network,
         host_vars, host, vars
<1>2. /\ frac \in Nat /\ TicksPerSecond \in Nat /\ now \in Nat
      /\ Ticks(now) \in Nat
  BY ClockFacts, NetworkAssumption, TickFacts DEF FInv, BInv
<1>3. CASE now' = now
  <2>1. frac' \in {frac, frac + 1} /\ (frac' # frac => HasTime /\ UNCHANGED vars)
    BY <1>2, <1>3 DEF waits, browser_vars, host_vars
  <2>2. clock' \in {clock, clock + 1} /\ (clock' # clock => frac' # frac)
    BY <1>2, <1>3, <2>1 DEF clock
  <2>3. QED
    BY <1>1, <2>1, <2>2 DEF vars, store
<1>4. CASE now' # now
  <2>1. /\ now' = now + 1 /\ frac' = 0 /\ frac + 1 = TicksPerSecond
        /\ HasTime /\ binding' = binding
    BY <1>4 DEF waits, browser_vars, host_vars, vars, Elsewhere, Tick, Disturb,
                store
  <2>2. Ticks(now') = Ticks(now) + TicksPerSecond
    BY <1>2, <2>1, TickFacts DEF Ticks
  <2>3. clock' = clock + 1
    BY <1>2, <2>1, <2>2 DEF clock
  <2>4. QED
    BY <1>1, <2>1, <2>3
<1>5. QED
  BY <1>3, <1>4

\* The invariant holds.
LEMMA OverlapNext ==
    ASSUME FInv, BInv, OInv, [BrowserNext]_browser_vars
    PROVE  OInv'
<1>0. HInv /\ Keeps /\ [Next]_vars /\ DOMAIN reply = Tasks /\ Latency \in Nat
      /\ BInv' /\ clock \in Nat /\ minted \subseteq minted'
  <2>1. HInv /\ Keeps /\ [Next]_vars /\ clock \in Nat
    BY BrowserStepIsStep, HostStepIsStep, ClockFacts DEF FInv, BInv
  <2>2. QED
    BY <2>1, HistoryGrows, NetworkAssumption, BrowserNextGood
    DEF BInv, HInv
<1>1. ASSUME jar' = jar PROVE KeptInTime'
  BY <1>0, <1>1 DEF OInv, KeptInTime
<1>2. ASSUME NEW t \in Tasks, asks(t) PROVE OInv'
  <2>1. jar' = jar
    BY <1>0, <1>2, AsksAreRequests DEF sends
  <2>2. QED
    BY <1>0, <1>1, <1>2, <2>1, AskTimely DEF OInv
<1>3. ASSUME NEW t \in Tasks, served(t) PROVE OInv'
  BY <1>0, <1>1, <1>3, ServedTimely DEF OInv, served, browser
<1>4. ASSUME NEW t \in Tasks, receives(t) \/ loses(t) PROVE OInv'
  <2>1. /\ UNCHANGED <<host_vars, frac>> /\ reply[t] # Absent
        /\ reply' = [reply EXCEPT ![t] = Absent]
        /\ left' = [left EXCEPT ![t] = 0]
    BY <1>4 DEF receives, loses
  <2>2. UNCHANGED <<handler, call, minted>> /\ clock' = clock
    BY <2>1 DEF host_vars, host, vars, clock
  <2>3. \A u \in Tasks : Timely(u)'
    <3> TAKE u \in Tasks
    <3>1. \/ reply'[u] = reply[u] /\ left'[u] = left[u]
          \/ reply'[u] = Absent /\ reply[u] # Absent /\ left'[u] = 0
      BY <1>0, <2>1 DEF BInv
    <3>2. QED
      BY <1>0, <2>2, <3>1, StaysTimely DEF OInv, Timely
  <2>4. KeptInTime'
    <3>1. CASE loses(t)
      BY <1>1, <3>1 DEF loses, browser
    <3>2. CASE receives(t)
      <4>1. PICK r : r = reply[t] /\ r # Absent /\ jar' = stored(r)
        BY <3>2 DEF receives
      <4>2. PICK j : j = IF r.sid # Absent THEN [jar EXCEPT !.sid = r.sid] ELSE jar
        OBVIOUS
      <4>3. /\ j.cookie = jar.cookie /\ j.until = jar.until
            /\ DOMAIN j = {"sid", "cookie", "until"}
        BY <1>0, <4>2 DEF Keeps
      <4>4. CASE r.cookie # NoNonce
        <5>1. jar'.cookie = r.cookie /\ jar'.until = clock + Ticks(CookieMaxAge)
          BY <4>1, <4>2, <4>3, <4>4 DEF stored
        <5>2. Timely(t) /\ InFlight(t)
          BY <4>1 DEF OInv, InFlight
        <5>3. PICK m \in minted : m.nonce = r.cookie /\ left[t] <= LastTick(m.at)
          BY <4>1, <4>4, <5>2 DEF Timely, MintedSince
        <5>4. m.at \in Nat /\ left[t] \in Nat /\ clock - left[t] <= Latency
          BY <1>0, <5>2 DEF HInv, IInv, Types, TypeOK, Timely
        <5>5. clock + Ticks(CookieMaxAge)
                 <= LastTick(m.at) + Ticks(CookieMaxAge) + Latency
          <6>1. LastTick(m.at) \in Nat /\ Ticks(CookieMaxAge) \in Nat
            BY <5>4, Lifetimes, TickFacts
          <6>2. QED
            BY <1>0, <5>3, <5>4, <6>1
        <5>6. /\ m \in minted' /\ m.nonce = jar'.cookie
              /\ jar'.until <= LastTick(m.at) + Ticks(CookieMaxAge) + Latency
          BY <2>2, <5>1, <5>3, <5>5
        <5>7. QED
          BY <5>6 DEF KeptInTime
      <4>5. CASE r.cookie = NoNonce
        <5>1. \/ jar'.cookie = NoNonce
              \/ jar'.cookie = jar.cookie /\ jar'.until = jar.until
          BY <4>1, <4>2, <4>3, <4>5 DEF stored
        <5>2. QED
          BY <2>2, <5>1 DEF OInv, KeptInTime
      <4>6. QED
        BY <4>4, <4>5
    <3>3. QED
      BY <1>4, <3>1, <3>2
  <2>5. QED
    BY <2>3, <2>4 DEF OInv
<1>5. CASE waits \/ UNCHANGED browser_vars
  <2>1. /\ UNCHANGED <<jar, handler, call, reply, left>>
        /\ clock' \in {clock, clock + 1}
        /\ clock' # clock =>
              \A t \in Tasks : InFlight(t) => clock - left[t] < Latency
    BY <1>5, WaitsTimely DEF HasTime
  <2>2. ASSUME NEW t \in Tasks PROVE Timely(t)'
    <3>1. Timely(t) /\ left[t] \in Nat
      BY DEF OInv, Timely
    <3>2. InFlight(t) => clock' - left[t] <= Latency
      BY <1>0, <2>1, <3>1 DEF Timely
    <3>3. QED
      BY <1>0, <2>1, <3>1, <3>2, StaysTimely
  <2>3. QED
    BY <1>1, <2>1, <2>2 DEF OInv
<1>6. QED
  BY <1>2, <1>3, <1>4, <1>5 DEF BrowserNext

\* What the invariant says of the cookie in the jar.
LEMMA OverlapHolds ==
    ASSUME FInv, BInv, OInv
    PROVE  OverlapLastsInBrowser
<1> SUFFICES ASSUME jar.sid # Absent, IsRecord(binding[jar.sid]),
                    jar.cookie # NoNonce,
                    clock + Latency + (TicksPerSecond - 1) < jar.until,
                    jar.cookie = binding[jar.sid].previous_cookie_value
             PROVE  bound_cookie_matches(binding[jar.sid], users[jar.sid],
                                         jar.cookie, now)
  BY DEF OverlapLastsInBrowser
<1>1. PICK s, b : s = jar.sid /\ b = binding[s]
  OBVIOUS
<1>2. s \in Sessions /\ jar.until \in Nat
  BY <1>1 DEF BInv, Keeps
<1>3. users[s] \in Users /\ b.user_id = users[s]
  BY <1>1, <1>2
  DEF FInv, LInv, LoggedOutIsUnbound, IsRecord, UInv, RecordsAreOwn
<1>4. PICK m \in minted : /\ m.nonce = jar.cookie
                          /\ b.previous_cookie_expires_at = m.at + CookieMaxAge
  BY <1>1, <1>2 DEF FInv, RInv, Sound, Dated
<1>5. PICK k \in minted :
         /\ k.nonce = jar.cookie
         /\ jar.until <= LastTick(k.at) + Ticks(CookieMaxAge) + Latency
  BY DEF OInv, KeptInTime
<1>6. k = m /\ m.at \in Nat
  BY <1>4, <1>5 DEF FInv, RInv, MintedOnce, HInv, IInv, Types, TypeOK
<1>7. now < m.at + CookieMaxAge
  <2>1. /\ now \in Nat /\ clock \in Nat /\ Ticks(now) <= clock
        /\ CookieMaxAge \in Nat /\ Latency \in Nat /\ TicksPerSecond \in Nat
    BY ClockFacts, Lifetimes, NetworkAssumption DEF FInv, BInv
  <2>2. /\ Ticks(now) \in Nat /\ Ticks(m.at) \in Nat
        /\ Ticks(CookieMaxAge) \in Nat
        /\ Ticks(m.at + CookieMaxAge) = Ticks(m.at) + Ticks(CookieMaxAge)
    BY <1>6, <2>1, TickFacts
  <2>3. Ticks(now) < Ticks(m.at + CookieMaxAge)
    BY <1>2, <1>5, <1>6, <2>1, <2>2 DEF LastTick
  <2>4. QED
    BY <1>6, <2>1, <2>3, TicksOrdered
<1>8. QED
  BY <1>1, <1>3, <1>4, <1>7 DEF bound_cookie_matches, same_user

\* Nothing is kept, and nothing is in flight, when the host starts.
LEMMA OverlapInit == BrowserInit => OInv
<1> SUFFICES ASSUME BrowserInit PROVE OInv
  OBVIOUS
<1>1. now = 0 /\ frac = 0
  BY DEF BrowserInit, HostInit, Init
<1>2. Ticks(0) = 0
  BY NetworkAssumption DEF Ticks
<1>3. clock = 0
  BY <1>1, <1>2 DEF clock
<1>4. QED
  BY <1>3, NetworkAssumption
  DEF BrowserInit, HostInit, Init, OInv, KeptInTime, Timely, InFlight

\* The gate accepts the demoted cookie for as long as the browser keeps it, but
\* for less than a second and the time a request and its reply may take:
\* with_rotated_cookie_and_challenge dates the overlap from the second in which
\* the cookie was minted, whoever refreshes meanwhile.
THEOREM OverlapOutlivesTheCookie == BrowserSpec => []OverlapLastsInBrowser
<1>1. BrowserInit => OInv
  BY OverlapInit
<1>2. FInv /\ BInv /\ OInv => OverlapLastsInBrowser
  BY OverlapHolds
<1>3. FInv /\ BInv /\ OInv /\ [BrowserNext]_browser_vars => OInv'
  BY OverlapNext
<1>4. QED
  BY <1>1, <1>2, <1>3, BrowserInvariance, PTL DEF BrowserSpec

------------------------------------------------------------------------------
(* The invariant behind HonestNotTerminated.                                 *)

\* The circumstances under which an honest user is never terminated.  The store
\* loses nothing; the browser takes a cookie for dead a second and two round
\* trips before it expires, and a cookie lives longer than that, and than what
\* the browser refreshes it early by, and a round trip; the replies that get
\* lost are pages, or refreshes of a browser that refreshes only a dead cookie;
\* the user waits for a registration, whose grace is two round trips and a
\* second.
Benign ==
    /\ StoreFaults = {}
    /\ Lossy \subseteq {"refresh", "account"}
    /\ \A p \in Profiles :
          /\ p.margin >= 2 * Latency + (TicksPerSecond - 1)
          /\ Ticks(CookieMaxAge) > p.margin + Latency
          /\ Ticks(CookieMaxAge) > p.early + Latency
          /\ p.early > p.margin => p.losses = 0
    /\ Patient
    /\ Ticks(RegistrationGrace) >= 2 * Latency + TicksPerSecond

On(t, route) == InFlight(t) /\ RouteOf(t) = route
Flying(route) == \E t \in Tasks : On(t, route)

\* The binding of the browser's session, and whether that is logged in.
Own == binding[jar.sid]
Inside == jar.sid # Absent /\ users[jar.sid] \in Users

\* The answer to the request of t brings a cookie.
Brings(t, op) ==
    IF handler[t] # Absent
    THEN Serving(t, op, "answer") /\ call[t].out = "ok"
    ELSE reply[t] # Absent /\ reply[t].route = op /\ reply[t].cookie # NoNonce
Brought(t) == IF handler[t] # Absent THEN call[t].nonce ELSE reply[t].cookie

\* A page may be on its way that left with the cookie of the jar.
Abroad ==
    jar.cookie # NoNonce /\ clock + profile.margin < jar.until + Latency

\* One registration and one refresh at a time, and never both.
Exclusive ==
    /\ \A t, u \in Tasks : On(t, "register") /\ On(u, "register") => t = u
    /\ \A t, u \in Tasks : On(t, "refresh") /\ On(u, "refresh") => t = u
    /\ Flying("register") =>
          device = Absent /\ offered = NoNonce /\ jar.sid # Absent
    /\ Flying("refresh") => device # Absent
    /\ Flying("login") => device = Absent

\* The jar holds a cookie only of a session that is registered and logged in.
JarFits ==
    /\ device = Absent => jar.cookie = NoNonce
    /\ device # Absent \/ offered # NoNonce => jar.sid # Absent
    /\ offered # NoNonce => device = Absent
    /\ jar.sid # Absent /\ ~ Flying("login") => users[jar.sid] # Absent
    /\ jar.cookie # NoNonce /\ ~ Flying("logout") => users[jar.sid] \in Users

\* The browser and the server agree on what is registered, but for what a
\* registration in flight brings.
Agreed ==
    /\ device # Absent /\ Inside /\ ~ Flying("logout") =>
          /\ Own \in Binding /\ Own.session_identifier = device.id
          /\ Own.public_key = key
    /\ /\ jar.sid # Absent /\ device = Absent
       /\ \A t \in Tasks : ~ Brings(t, "register")
       => Own = Absent
    /\ \A t \in Tasks : Brings(t, "register") =>
          /\ Own \in Binding /\ Own.session_identifier = Brought(t)
          /\ Own.cookie_value = Brought(t)
          /\ Own.public_key = key /\ left[t] <= LastTick(Own.created_at)
    /\ \A t \in Tasks : Brings(t, "refresh") =>
          Own \in Binding /\ Own.cookie_value = Brought(t)

\* While a page may be on its way with it, the cookie of the jar is at most one
\* rotation behind, and then the cookie of that rotation is on its way.  A
\* refresh leaves when the cookie is about to expire.
CookieFits ==
    /\ Abroad /\ ~ Flying("logout") =>
          \/ jar.cookie = Own.cookie_value
          \/ /\ jar.cookie = Own.previous_cookie_value
             /\ \E t \in Tasks : Brings(t, "refresh")
    /\ \A t \in Tasks : On(t, "refresh") /\ jar.cookie # NoNonce =>
          \/ left[t] + profile.margin >= jar.until
          \/ /\ left[t] + profile.early >= jar.until
             /\ profile.early > profile.margin

\* Whoever presents what the handler h does, until a given tick, is let in.
Welcome(h, b, tick) == \A at \in Nat : Ticks(at) <= tick => admitted(h, b, at)

\* A page that waits at the gate will be let in, and so will one that has read
\* the binding.  The cookie it left with is the one of the jar, or the jar has
\* received another one since.
LetIn(t) ==
    LET h == handler[t] IN
    IF call[t] = Absent
    THEN /\ Own # Absent => Welcome(h, Own, left[t] + Latency)
         /\ h.req.document => offered = NoNonce /\ ~ Flying("register")
         /\ h.req.cookie # NoNonce =>
               /\ jar.cookie # NoNonce
               /\ \/ /\ h.req.cookie = jar.cookie
                     /\ left[t] + profile.margin < jar.until
                  \/ left[t] + Ticks(CookieMaxAge) <= jar.until
    ELSE call[t].read # Absent =>
            /\ call[t].read \in Binding
            /\ Welcome(h, call[t].read, left[t] + Latency)

\* What the handler of a route awaits.
Courses(route) ==
    CASE route = "login" -> {"offer", "revoke"}
      [] route = "logout" -> {"revoke"}
      [] route = "account" -> {"get_binding", "cookie auth", "bound"}
      [] route = "register" -> {"register"}
      [] route = "refresh" -> {"refresh", "issue"} \union
                                 (IF Inside THEN {} ELSE {"revoke"})
      [] OTHER -> {}

\* A handler serves the session of the jar.
Course(t) ==
    LET h == handler[t] IN
    /\ h.next \in Courses(h.req.route)
    /\ h.req.route # "login" =>
          /\ h.sid = jar.sid /\ h.new = Absent /\ h.user = users[jar.sid]
          /\ ~ h.deletes
    /\ h.req.route = "account" => h.user \in Users
    /\ h.req.route = "login" => binding[h.new] = Absent
    /\ h.next = "revoke" /\ call[t] # Absent => call[t].op = "revoke"

\* The binding b is the one the device is registered with.
Proves(b) ==
    /\ b \in Binding /\ b.session_identifier = device.id
    /\ b.public_key = key /\ b.user_id = users[jar.sid]

\* A registration is signed by the device.
Registering(t) ==
    IF call[t] = Absent THEN handler[t].req.jwt.key = key
    ELSE call[t].pc # "answer" => call[t].jwt.key = key

\* A refresh proves possession of the device, or of an old challenge at worst.
Refreshing(t) ==
    LET c == call[t] IN
    IF c = Absent
    THEN handler[t].req.jwt.key = key /\ handler[t].req.id = device.id
    ELSE /\ c.pc # "answer" =>
               /\ c.jwt.key = key /\ c.id = device.id
               /\ c.user = users[jar.sid]
         /\ c.pc \in {"check", "write"} => Proves(c.read)
         /\ c.pc = "answer" => c.out \in Retryable \union {"ok"}

\* A 403 brings a challenge: there is a binding whenever it is read.
Issuing(t) ==
    LET c == call[t] IN
    c # Absent =>
        /\ c.pc \in {"check", "write"} => c.read \in Binding
        /\ c.pc = "answer" =>
              c.out = "ok" \/ (c.out = "unchanged" /\ c.read \in Binding)

Serves(t) ==
    /\ Course(t)
    /\ handler[t].next = "get_binding" => LetIn(t)
    /\ handler[t].next = "register" => Registering(t)
    /\ handler[t].next = "refresh" /\ Inside => Refreshing(t)
    /\ handler[t].next = "issue" /\ Inside => Issuing(t)

\* What a reply may hold.
Returns(r) ==
    /\ r \in Replies /\ r.route # "home"
    /\ r.route = "login" => /\ r.sid # Absent /\ users[r.sid] \in Users
                            /\ binding[r.sid] = Absent
    /\ r.route # "login" => r.sid = Absent /\ r.offer = NoNonce
    /\ r.route \notin {"register", "refresh"} => r.cookie = NoNonce
    /\ r.route \in {"account", "register"} => ~ r.deletes
    /\ r.route = "logout" => r.deletes /\ ~ Inside
    /\ r.route = "refresh" /\ (r.status = "refused" \/ r.deletes) => ~ Inside
    /\ r.route = "register" => r.id = r.cookie

Networked == profile \in Profiles /\ losses \in Nat

CInv ==
    /\ Networked /\ Exclusive /\ JarFits /\ Agreed /\ CookieFits
    /\ \A t \in Tasks : handler[t] # Absent => Serves(t)
    /\ \A t \in Tasks : reply[t] # Absent => Returns(reply[t])

\* All that is known of the browser and its host.
AInv == FInv /\ BInv /\ OInv /\ CInv

\* The facts the proofs below keep needing.
LEMMA BrowserFacts ==
    ASSUME AInv
    PROVE  /\ HInv /\ LInv /\ UInv /\ RInv /\ AnswersTold
           /\ Keeps /\ TrafficOrdered /\ DOMAIN reply = Tasks
           /\ OInv /\ Networked /\ Exclusive /\ JarFits /\ Agreed /\ CookieFits
           /\ IInv /\ HostTypeOK
           /\ call \in [Tasks -> Calls \union {Absent}]
           /\ handler \in [Tasks -> Handlers \union {Absent}]
           /\ users \in [Sessions -> UserIds \union {Absent}]
           /\ binding \in [Sessions -> Binding \union {Absent, Corrupt}]
           /\ now \in Nat /\ jar.sid \in Sessions \union {Absent}
           /\ jar.cookie \in Nat /\ jar.until \in Nat
           /\ Absent \notin Sessions \union UserIds
           /\ clock \in Nat /\ Ticks(now) <= clock /\ DOMAIN left = Tasks
BY HostFacts, SessionsAssumption, ClockFacts
DEF AInv, FInv, BInv, CInv, Keeps, IInv, Types, TypeOK

\* Pending, in terms of the routes in flight.
LEMMA PendingFlies ==
    ASSUME TrafficOrdered, NEW route
    PROVE  Pending(route) <=> Flying(route)
BY DEF TrafficOrdered, Pending, Flying, On, InFlight, RouteOf

\* A login and a logout are alone.
LEMMA AloneInFlight ==
    ASSUME TrafficOrdered, NEW t \in Tasks, NEW u \in Tasks, u # t,
           InFlight(t), InFlight(u)
    PROVE  /\ ~ On(t, "login") /\ ~ On(t, "logout")
           /\ ~ On(u, "login") /\ ~ On(u, "logout")
           /\ ~ Flying("login") /\ ~ Flying("logout")
<1>1. \A v \in Tasks : On(v, "login") \/ On(v, "logout") => v = t /\ v = u
  BY DEF TrafficOrdered, On
<1>2. QED
  BY <1>1 DEF Flying

\* The response to a request is a reply.
LEMMA ResponseIsReply ==
    ASSUME NEW h, NEW c, c.op \in Ops, h.req.route \in Routes,
           h.new \in Sessions \union {Absent}, h.deletes \in BOOLEAN,
           c.nonce \in Nat,
           Challenged(c) \/ (c.out = "ok" /\ c.op \in {"refresh", "advertise"}) =>
              c.read.challenge \in Nat /\ c.read.session_identifier \in Nat,
           NEW r, r = response(h, c)
    PROVE  r \in Replies /\ r # Absent
<1> USE DEF Challenged
<1>0. NoNonce \in Nat
  BY DEF NoNonce
<1>1. CASE c.out = "CorruptStateError" /\ c.op \in {"issue", "advertise"}
  BY <1>0, <1>1, NothingAssumption, ZenonT(60) DEF response, Nothing, Replies
<1>2. CASE c.op = "offer"
  BY <1>0, <1>2, NothingAssumption DEF response, Nothing, Replies
<1>3. CASE c.op = "register"
  BY <1>0, <1>3, NothingAssumption, ZenonT(60) DEF response, Nothing, Replies
<1>4. CASE c.op = "refresh"
  BY <1>0, <1>4, NothingAssumption, ZenonT(60) DEF response, Nothing, Replies
<1>5. CASE c.op = "issue" /\ c.out # "CorruptStateError"
  BY <1>0, <1>5, NothingAssumption, ZenonT(60) DEF response, Nothing, Replies
<1>6. CASE c.op = "advertise" /\ c.out # "CorruptStateError"
  BY <1>0, <1>6, NothingAssumption, ZenonT(60) DEF response, Nothing, Replies
<1>7. CASE c.op = "revoke"
  BY <1>0, <1>7, NothingAssumption DEF response, Nothing, Replies
<1>8. QED
  BY <1>1, <1>2, <1>3, <1>4, <1>5, <1>6, <1>7 DEF Ops

\* What a handler awaits tells its route, and it serves the session of the jar.
LEMMA OnCourse ==
    ASSUME AInv, NEW t \in Tasks, NEW h, h = handler[t], h # Absent
    PROVE  /\ Serves(t) /\ Course(t) /\ Linked(t) /\ Prepared(t) /\ Drawn(t)
           /\ h \in Handlers /\ On(t, h.req.route) /\ reply[t] = Absent
           /\ h.req.route \in {"login", "logout", "account", "register", "refresh"}
           /\ h.next = "offer" => h.req.route = "login"
           /\ h.next = "register" => h.req.route = "register"
           /\ h.next \in {"issue", "refresh"} => h.req.route = "refresh"
           /\ h.next = "get_binding" => h.req.route = "account"
           /\ h.next = "revoke" =>
                 \/ h.req.route \in {"login", "logout"}
                 \/ h.req.route = "refresh" /\ ~ Inside
           /\ call[t] # Absent =>
                 /\ call[t] \in Calls /\ call[t].session = h.sid
                 /\ call[t].op \in {"offer", "register", "issue", "refresh"} =>
                       h.next = call[t].op
                 /\ call[t].op = "advertise" => h.req.route = "account"
                 /\ call[t].op = "revoke" => h.next = "revoke"
           /\ h.req.route # "login" =>
                 /\ jar.sid \in Sessions /\ h.sid = jar.sid /\ h.new = Absent
                 /\ h.user = users[jar.sid]
<1> USE BrowserFacts
<1>1. /\ Serves(t) /\ Course(t) /\ Linked(t) /\ Prepared(t) /\ Drawn(t)
      /\ h \in Handlers /\ reply[t] = Absent
  BY HostFacts DEF AInv, CInv, Serves, LInv, HandlersLinked, TrafficOrdered
<1>2. h.req.route \in Routes /\ h.next \in Nexts /\ h.sid \in Sessions
  BY <1>1 DEF Handlers, HttpRequests
<1>3. h.next \in Courses(h.req.route)
  BY <1>1 DEF Course
<1>4. /\ h.req.route \in {"login", "logout", "account", "register", "refresh"}
      /\ h.next = "offer" => h.req.route = "login"
      /\ h.next = "register" => h.req.route = "register"
      /\ h.next \in {"issue", "refresh"} => h.req.route = "refresh"
      /\ h.next = "get_binding" => h.req.route = "account"
      /\ h.next \notin {"offer", "register", "issue", "refresh", "revoke"} =>
            h.req.route = "account"
      /\ h.next = "revoke" =>
            \/ h.req.route \in {"login", "logout"}
            \/ h.req.route = "refresh" /\ ~ Inside
  BY <1>2, <1>3 DEF Courses, Routes
<1>5. On(t, h.req.route)
  BY DEF On, InFlight, RouteOf
<1>6. ASSUME call[t] # Absent
      PROVE  /\ call[t] \in Calls /\ call[t].session = h.sid
             /\ call[t].op \in {"offer", "register", "issue", "refresh"} =>
                   h.next = call[t].op
             /\ call[t].op = "advertise" => h.req.route = "account"
             /\ call[t].op = "revoke" => h.next = "revoke"
  <2>1. call[t] \in Calls /\ call[t].session = h.sid
    BY <1>1, <1>6 DEF Linked
  <2>2. call[t].op \in Awaits(h.next) /\ (h.next = "revoke" => call[t].op = "revoke")
    BY <1>1, <1>6 DEF Prepared, Course
  <2>3. QED
    BY <1>2, <1>4, <2>1, <2>2 DEF Awaits, Nexts
<1>7. h.req.route # "login" =>
         /\ jar.sid \in Sessions /\ h.sid = jar.sid /\ h.new = Absent
         /\ h.user = users[jar.sid]
  BY <1>1, <1>2 DEF Course
<1>8. QED
  BY <1>1, <1>4, <1>5, <1>6, <1>7

\* What brings a cookie is a registration or a refresh.
LEMMA BringsFlies ==
    ASSUME AInv, NEW t \in Tasks, NEW op \in {"register", "refresh"}, Brings(t, op)
    PROVE  On(t, op) /\ Flying(op)
<1>1. CASE handler[t] # Absent
  <2>1. call[t] # Absent /\ call[t].op = op
    BY <1>1 DEF Brings, Serving
  <2>2. handler[t].next = op /\ On(t, handler[t].req.route)
    BY <1>1, <2>1, OnCourse
  <2>3. On(t, op)
    BY <1>1, <2>2, OnCourse
  <2>4. QED
    BY <2>3 DEF Flying
<1>2. CASE handler[t] = Absent
  BY <1>2 DEF Brings, On, InFlight, RouteOf, Flying
<1>3. QED
  BY <1>1, <1>2

\* The store of the browser's session is readable.
LEMMA OwnReadable ==
    ASSUME AInv, jar.sid # Absent, ~ Flying("logout")
    PROVE  /\ Own \in Binding \union {Absent}
           /\ Own \in Binding => Inside /\ Own.user_id = users[jar.sid] /\ Sound(Own)
           /\ ~ Inside => Own = Absent
<1> USE BrowserFacts
<1>1. jar.sid \in Sessions
  OBVIOUS
<1>2. ~ Inside => Own = Absent
  BY <1>1 DEF Inside, Own, LInv, LoggedOutIsUnbound
<1>3. Own \in Binding \union {Absent}
  BY <1>2 DEF Agreed
<1>4. Own \in Binding => Inside /\ Own.user_id = users[jar.sid] /\ Sound(Own)
  BY <1>1, <1>2, RecordsAreRecords
  DEF Inside, Own, UInv, RecordsAreOwn, RInv, IsRecord
<1>5. QED
  BY <1>2, <1>3, <1>4

\* What a step of the host leaves as it is.
LEMMA ServedFrame ==
    ASSUME AInv, NEW t \in Tasks, served(t)
    PROVE  /\ UNCHANGED <<jar, device, offered, now, clock, left, losses, profile>>
           /\ HostStep(t) /\ handler[t] # Absent /\ reply[t] = Absent
           /\ \A u \in Tasks \ {t} : /\ handler'[u] = handler[u]
                                     /\ call'[u] = call[u]
                                     /\ reply'[u] = reply[u]
           /\ handler'[t] # Absent => reply'[t] = Absent
           /\ handler'[t] = Absent =>
                 /\ resumes(t) /\ reply'[t] = response(handler[t], call[t])
                 /\ reply'[t] \in Replies /\ reply'[t] # Absent
           /\ \A u \in Tasks : \A route : On(u, route)' <=> On(u, route)
           /\ \A route : Flying(route)' <=> Flying(route)
           /\ (Abroad' <=> Abroad) /\ Networked' /\ Exclusive'
<1> USE BrowserFacts
<1>1. /\ HostStep(t)
      /\ UNCHANGED <<jar, device, offered, frac, left, losses, profile>>
  BY DEF served, browser
<1>2. /\ now' = now /\ clock' = clock
      /\ handler[t] # Absent /\ reply[t] = Absent
  BY <1>1, WorkStandsStill, HandlerStays DEF TrafficOrdered, clock
<1>3. \A u \in Tasks \ {t} : handler'[u] = handler[u] /\ call'[u] = call[u]
                            /\ reply'[u] = reply[u]
  BY <1>1, OthersUntouched DEF served
<1>4. handler'[t] # Absent =>
         reply'[t] = Absent /\ handler'[t].req.route = handler[t].req.route
  BY <1>1, <1>2, HandlerStays DEF served
<1>5. ASSUME handler'[t] = Absent
      PROVE  /\ resumes(t) /\ reply'[t] = response(handler[t], call[t])
             /\ reply'[t] \in Replies /\ reply'[t] # Absent
             /\ reply'[t].route = handler[t].req.route
  <2>1. resumes(t) /\ reply'[t] = response(handler[t], call[t])
    BY <1>1, <1>5, HandlerStays DEF served
  <2>2. PICK h, c : h = handler[t] /\ c = call[t]
    OBVIOUS
  <2>3. c # Absent /\ c \in Calls /\ c.op \in Ops /\ c.pc = "answer" /\ Told(c)
        /\ h \in Handlers
    BY <1>2, <1>5, <2>1, <2>2, DoneResponds DEF AnswersTold
  <2>4. /\ h.req.route \in Routes /\ h.new \in Sessions \union {Absent}
        /\ h.deletes \in BOOLEAN /\ c.nonce \in Nat
    BY <2>3 DEF Handlers, HttpRequests, Calls
  <2>5. Challenged(c) \/ (c.out = "ok" /\ c.op \in {"refresh", "advertise"}) =>
           c.read.challenge \in Nat /\ c.read.session_identifier \in Nat
    <3>1. Challenged(c) \/ (c.out = "ok" /\ c.op \in {"refresh", "advertise"}) =>
             c.read \in Binding
      BY <2>2, <2>3
      DEF Told, Challenged, IsRecord, IInv, CallsRemember, Active, Remembers
    <3>2. QED
      BY <3>1 DEF Binding, Nonces
  <2>6. QED
    BY <2>1, <2>2, <2>3, <2>4, <2>5, ResponseIsReply, ResponseFields
<1>6. \A u \in Tasks : (InFlight(u)' <=> InFlight(u)) /\ RouteOf(u)' = RouteOf(u)
  BY <1>2, <1>3, <1>4, <1>5 DEF InFlight, RouteOf
<1>7. \A u \in Tasks : \A route : On(u, route)' <=> On(u, route)
  BY <1>6 DEF On
<1>8. \A route : Flying(route)' <=> Flying(route)
  BY <1>7 DEF Flying
<1>9. Networked' /\ Exclusive' /\ (Abroad' <=> Abroad)
  BY <1>1, <1>2, <1>7, <1>8 DEF Networked, Exclusive, Abroad
<1>10. QED
  BY <1>1, <1>2, <1>3, <1>4, <1>5, <1>7, <1>8, <1>9

\* What another request brings is not touched.
LEMMA OthersBring ==
    ASSUME NEW u \in Tasks, handler'[u] = handler[u], call'[u] = call[u],
           reply'[u] = reply[u]
    PROVE  /\ \A op : Brings(u, op)' <=> Brings(u, op)
           /\ Brought(u)' = Brought(u)
BY DEF Brings, Brought, Serving

\* A step that serves a visit: what is left to show of the invariant.
LEMMA ServedVisit ==
    ASSUME AInv, NEW t \in Tasks, served(t),
           handler[t].req.route \notin {"login", "logout"},
           users' = users, Agreed', CookieFits',
           \A u \in Tasks \ {t} : handler[u] # Absent =>
              (handler[u].next = "get_binding" => LetIn(u)'),
           handler'[t] # Absent => Serves(t)',
           handler'[t] = Absent => Returns(reply[t])'
    PROVE  CInv'
<1> USE BrowserFacts
<1>1. /\ UNCHANGED <<jar, device, offered, now, losses, profile>>
      /\ handler[t] # Absent /\ Networked' /\ Exclusive'
      /\ \A u \in Tasks \ {t} : handler'[u] = handler[u] /\ call'[u] = call[u]
                               /\ reply'[u] = reply[u]
      /\ \A route : Flying(route)' <=> Flying(route)
  BY ServedFrame
<1>2. InFlight(t) /\ (Inside' <=> Inside)
  BY <1>1 DEF InFlight, Inside
<1>3. JarFits'
  BY <1>1 DEF JarFits
<1>4. \A route : Courses(route)' = Courses(route)
  BY <1>2 DEF Courses
<1>5. ASSUME NEW u \in Tasks \ {t}, handler'[u] # Absent PROVE Serves(u)'
  <2>1. handler[u] # Absent /\ Serves(u) /\ InFlight(u)
    BY <1>1, <1>5 DEF AInv, CInv, InFlight
  <2>2. handler[u].req.route # "login"
    BY <1>2, <2>1, AloneInFlight DEF On, RouteOf
  <2>3. Course(u)'
    BY <1>1, <1>4, <2>1, <2>2 DEF Serves, Course
  <2>4. handler[u].next = "register" => Registering(u)'
    BY <1>1, <2>1 DEF Serves, Registering
  <2>5. handler[u].next = "refresh" /\ Inside => Refreshing(u)'
    BY <1>1, <2>1 DEF Serves, Refreshing, Proves
  <2>6. handler[u].next = "issue" /\ Inside => Issuing(u)'
    BY <1>1, <2>1 DEF Serves, Issuing
  <2>7. QED
    BY <1>1, <1>2, <2>1, <2>3, <2>4, <2>5, <2>6 DEF Serves
<1>6. ASSUME NEW u \in Tasks \ {t}, reply'[u] # Absent PROVE Returns(reply[u])'
  <2>1. reply[u] # Absent /\ Returns(reply[u]) /\ handler[u] = Absent /\ InFlight(u)
    BY <1>1, <1>6 DEF AInv, CInv, InFlight, TrafficOrdered
  <2>2. reply[u].route # "login"
    BY <1>2, <2>1, AloneInFlight DEF On, RouteOf
  <2>3. QED
    BY <1>1, <1>2, <2>1, <2>2 DEF Returns
<1>7. reply'[t] # Absent => handler'[t] = Absent
  BY ServedFrame
<1>8. QED
  BY <1>1, <1>3, <1>5, <1>6, <1>7 DEF CInv

\* A step that writes no binding and gives no new cookie.
LEMMA ServedQuietly ==
    ASSUME AInv, NEW t \in Tasks, served(t),
           handler[t].req.route \notin {"login", "logout"},
           UNCHANGED <<users, binding>>,
           \A op \in {"register", "refresh"} :
              /\ Brings(t, op)' <=> Brings(t, op)
              /\ Brings(t, op) => Brought(t)' = Brought(t),
           handler'[t] # Absent => Serves(t)',
           handler'[t] = Absent => Returns(reply[t])'
    PROVE  CInv'
<1> USE BrowserFacts
<1>1. /\ UNCHANGED <<jar, device, offered, left, profile>>
      /\ \A u \in Tasks \ {t} : handler'[u] = handler[u] /\ call'[u] = call[u]
                               /\ reply'[u] = reply[u]
      /\ \A u \in Tasks : \A route : On(u, route)' <=> On(u, route)
      /\ \A route : Flying(route)' <=> Flying(route)
      /\ Abroad' <=> Abroad
  BY ServedFrame
<1>2. Own' = Own /\ (Inside' <=> Inside)
  BY <1>1 DEF Own, Inside
<1>3. \A u \in Tasks, op \in {"register", "refresh"} :
         /\ Brings(u, op)' <=> Brings(u, op)
         /\ Brings(u, op) => Brought(u)' = Brought(u)
  BY <1>1, OthersBring
<1>4. Agreed'
  BY <1>1, <1>2, <1>3 DEF Agreed
<1>5. CookieFits'
  BY <1>1, <1>2, <1>3 DEF CookieFits
<1>6. \A u \in Tasks \ {t} : handler[u] # Absent =>
         (handler[u].next = "get_binding" => LetIn(u)')
  <2> TAKE u \in Tasks \ {t}
  <2> HAVE handler[u] # Absent
  <2>1. Serves(u)
    BY DEF AInv, CInv
  <2>2. QED
    BY <1>1, <1>2, <2>1 DEF Serves, LetIn
<1>7. QED
  BY <1>4, <1>5, <1>6, ServedVisit

\* No login and no logout is in flight with a visit.
LEMMA VisitsAlone ==
    ASSUME TrafficOrdered, NEW t \in Tasks, NEW route, On(t, route),
           route \notin {"login", "logout"}
    PROVE  ~ Flying("login") /\ ~ Flying("logout")
BY DEF TrafficOrdered, On, Flying

\* The call that a handler begins.
LEMMA BegunCall ==
    ASSUME AInv, NEW t \in Tasks, begins(t), NEW h, h = handler[t],
           NEW c, c = call'[t]
    PROVE  /\ c # Absent /\ c.attempt = 1 /\ c.pc \in {"check", "write"}
           /\ c.op \in Awaits(h.next)
           /\ h.next = "register" => c.jwt = h.req.jwt
           /\ h.next = "issue" => c.pc = "check" /\ c.read = binding[h.sid]
           /\ h.next = "refresh" =>
                 /\ c.pc = "check" /\ c.read = binding[h.sid]
                 /\ c.user = h.user /\ c.jwt = h.req.jwt /\ c.id = h.req.id
           /\ h.next = "get_binding" => c.read = binding[h.sid]
           /\ h.next = "revoke" => c.op = "revoke"
<1> USE BrowserFacts
<1>1. /\ h \in Handlers /\ Prepared(t) /\ call[t] = Absent
      /\ h.sid \in Sessions /\ h.user \in UserIds
  BY HostFacts DEF begins, build_registration_header_response, register,
     issue_refresh_challenge, refresh, get_binding, revoke, Begin, Handlers
<1>2. /\ NoJwt \in Jwts /\ NoNonce \in Nat /\ Unknown \in UserIds
      /\ binding[h.sid] \in StoredRecords /\ pending[h.sid] \in StoredRecords
      /\ Absent \in StoredRecords
  BY <1>1 DEF NoJwt, Jwts, NoNonce, UserIds, StoredRecords, IInv, Types, TypeOK
<1>3. h.next \in {"register", "refresh"} =>
         h.req.jwt \in Jwts /\ h.req.id \in Nat
  <2>1. PresentedJwts \subseteq Jwts
    BY <1>2 DEF PresentedJwts, Jwts, used, IInv, Types, TypeOK, Nonces
  <2>2. QED
    BY <1>1, <2>1 DEF Prepared, Handlers, HttpRequests
<1>4. ASSUME NEW op \in Ops, NEW pc \in {"check", "write"}, NEW u \in UserIds,
             NEW jwt \in Jwts, NEW id \in Nat, NEW record \in StoredRecords,
             Begin(t, op, pc, h.sid, u, jwt, id, record)
      PROVE  /\ c # Absent /\ c.attempt = 1 /\ c.pc = pc /\ c.op = op
             /\ c.user = u /\ c.jwt = jwt /\ c.id = id /\ c.read = record
  <2>1. PICK k : k = [op |-> op, pc |-> pc, session |-> h.sid, user |-> u,
                      jwt |-> jwt, id |-> id, attempt |-> 1, read |-> record,
                      nonce |-> NoNonce, at |-> 0, out |-> "none"]
    OBVIOUS
  <2>2. k \in Calls
    BY <1>1, <1>4, <2>1, RequestCalls
  <2>3. c = k
    BY <1>4, <2>1 DEF Begin, Goes
  <2>4. QED
    BY <2>1, <2>2, <2>3, NoHandlerAssumption
<1>5. CASE h.next = "offer"
  BY <1>1, <1>2, <1>4, <1>5
  DEF begins, build_registration_header_response, Awaits, Ops
<1>6. CASE h.next = "register"
  BY <1>1, <1>2, <1>3, <1>4, <1>6 DEF begins, register, Awaits, Ops
<1>7. CASE h.next = "issue"
  BY <1>1, <1>2, <1>4, <1>7 DEF begins, issue_refresh_challenge, Awaits, Ops
<1>8. CASE h.next = "refresh"
  BY <1>1, <1>2, <1>3, <1>4, <1>8 DEF begins, refresh, Awaits, Ops
<1>9. CASE h.next = "get_binding"
  BY <1>1, <1>2, <1>4, <1>9 DEF begins, get_binding, Awaits, Ops
<1>10. CASE h.next = "revoke"
  BY <1>1, <1>2, <1>4, <1>10 DEF begins, revoke, Awaits, Ops
<1>11. QED
  BY <1>5, <1>6, <1>7, <1>8, <1>9, <1>10 DEF begins

\* The binding of the device, as a refresh reads it.
LEMMA OwnProves ==
    ASSUME AInv, device # Absent, Inside, ~ Flying("logout")
    PROVE  Proves(Own)
<1>1. Own \in Binding /\ Own.session_identifier = device.id /\ Own.public_key = key
  BY BrowserFacts DEF Agreed
<1>2. Own.user_id = users[jar.sid]
  BY <1>1, OwnReadable DEF Inside
<1>3. QED
  BY <1>1, <1>2 DEF Proves

\* A handler of a visit begins its call.
LEMMA BeginsVisit ==
    ASSUME AInv, NEW t \in Tasks, served(t), begins(t),
           handler[t].req.route \notin {"login", "logout"}
    PROVE  CInv'
<1> USE BrowserFacts
<1>1. PICK h, k : /\ h = handler[t]
                  /\ k = [h EXCEPT !.req.jwt = Absent, !.req.id = NoNonce]
  OBVIOUS
<1>2. /\ h # Absent /\ h \in Handlers /\ Course(t) /\ Serves(t)
      /\ h.next # "offer" /\ h.sid = jar.sid /\ jar.sid \in Sessions
      /\ h.user = users[jar.sid] /\ InFlight(t) /\ On(t, h.req.route)
  <2>1. h # Absent
    BY <1>1, ServedFrame
  <2>2. QED
    BY <1>1, <2>1, OnCourse DEF InFlight
<1>3. /\ handler'[t] = k /\ call[t] = Absent
      /\ UNCHANGED <<users, binding>>
  BY <1>1 DEF begins, build_registration_header_response, register,
              issue_refresh_challenge, refresh, get_binding, revoke, Begin, store
<1>4. /\ k # Absent /\ k.new = h.new /\ k.sid = h.sid /\ k.next = h.next
      /\ k.req.route = h.req.route /\ k.user = h.user
      /\ k.req.cookie = h.req.cookie /\ k.req.document = h.req.document
      /\ k.deletes = h.deletes
  <2>1. k \in Handlers /\ k # Absent
    BY <1>1, <1>2, BegunHandler, NoHandlerAssumption
  <2>2. QED
    BY <1>1, <1>2, <2>1 DEF Handlers, HttpRequests
<1>5. PICK c : c = call'[t]
  OBVIOUS
<1>6. /\ c # Absent /\ c.attempt = 1 /\ c.pc \in {"check", "write"}
      /\ h.next = "register" => c.op = "register" /\ c.jwt = h.req.jwt
      /\ h.next = "issue" => c.op = "issue" /\ c.pc = "check" /\ c.read = Own
      /\ h.next = "refresh" =>
            /\ c.op = "refresh" /\ c.pc = "check" /\ c.read = Own
            /\ c.user = h.user /\ c.jwt = h.req.jwt /\ c.id = h.req.id
      /\ h.next = "get_binding" => c.op = "advertise" /\ c.read = Own
      /\ h.next = "revoke" => c.op = "revoke"
      /\ ~ (c.pc = "answer")
  <2>1. /\ c # Absent /\ c.attempt = 1 /\ c.pc \in {"check", "write"}
        /\ c.op \in Awaits(h.next)
        /\ h.next = "register" => c.jwt = h.req.jwt
        /\ h.next = "issue" => c.pc = "check" /\ c.read = binding[h.sid]
        /\ h.next = "refresh" =>
              /\ c.pc = "check" /\ c.read = binding[h.sid]
              /\ c.user = h.user /\ c.jwt = h.req.jwt /\ c.id = h.req.id
        /\ h.next = "get_binding" => c.read = binding[h.sid]
        /\ h.next = "revoke" => c.op = "revoke"
    BY <1>1, <1>5, BegunCall
  <2>2. QED
    BY <1>2, <2>1 DEF Awaits, Own
<1>7. \A op \in {"register", "refresh"} : ~ Brings(t, op) /\ ~ Brings(t, op)'
  BY <1>1, <1>2, <1>3, <1>4, <1>5, <1>6 DEF Brings, Serving
<1>8. /\ UNCHANGED <<jar, device, offered, left, profile>> /\ handler'[t] = k
      /\ \A route : Flying(route)' <=> Flying(route)
      /\ Own' = Own /\ (Inside' <=> Inside)
  BY <1>3, ServedFrame DEF Own, Inside
<1>9. Serves(t)'
  <2>1. Course(t)'
    <3>1. \A route : Courses(route)' = Courses(route)
      BY <1>8 DEF Courses
    <3>2. QED
      BY <1>1, <1>2, <1>3, <1>4, <1>5, <1>6, <1>8, <3>1 DEF Course
  <2>2. ASSUME h.next = "get_binding" PROVE LetIn(t)'
    <3>1. LetIn(t) /\ ~ Flying("logout")
      BY <1>1, <1>2, <2>2, VisitsAlone DEF Serves
    <3>2. c.read # Absent => /\ c.read \in Binding
                             /\ Welcome(h, c.read, left[t] + Latency)
      BY <1>1, <1>2, <1>3, <1>6, <2>2, <3>1, OwnReadable DEF LetIn
    <3>3. c.read # Absent => /\ c.read \in Binding
                             /\ Welcome(k, c.read, left[t] + Latency)
      BY <1>4, <3>2 DEF Welcome, admitted
    <3>4. QED
      BY <1>5, <1>6, <1>8, <3>3 DEF LetIn
  <2>3. ASSUME h.next = "register" PROVE Registering(t)'
    BY <1>1, <1>2, <1>3, <1>5, <1>6, <2>3 DEF Serves, Registering
  <2>4. ASSUME h.next = "refresh", Inside PROVE Refreshing(t)'
    <3>1. Refreshing(t) /\ device # Absent /\ ~ Flying("logout")
      <4>1. ~ Flying("logout") /\ Refreshing(t)
        BY <1>1, <1>2, <2>4, VisitsAlone DEF Serves
      <4>2. On(t, "refresh")
        BY <1>1, <1>2, <2>4, OnCourse
      <4>3. QED
        BY <4>1, <4>2 DEF Exclusive, Flying
    <3>2. Proves(Own)'
      BY <1>3, <1>8, <2>4, <3>1, OwnProves DEF Proves
    <3>3. QED
      BY <1>1, <1>2, <1>3, <1>5, <1>6, <1>8, <2>4, <3>1, <3>2 DEF Refreshing, Proves
  <2>5. ASSUME h.next = "issue", Inside PROVE Issuing(t)'
    <3>1. On(t, "refresh") /\ ~ Flying("logout")
      BY <1>1, <1>2, <2>5, OnCourse, VisitsAlone
    <3>2. Own \in Binding
      BY <2>5, <3>1, OwnProves DEF Exclusive, Flying, Proves
    <3>3. QED
      BY <1>5, <1>6, <1>8, <2>5, <3>2 DEF Issuing
  <2>6. QED
    BY <1>4, <1>8, <2>1, <2>2, <2>3, <2>4, <2>5 DEF Serves
<1>10. QED
  BY <1>3, <1>4, <1>7, <1>8, <1>9, ServedQuietly

\* The gate serves the page.
LEMMA GateVisit ==
    ASSUME AInv, NEW t \in Tasks, served(t), gate(t)
    PROVE  CInv'
<1> USE BrowserFacts
<1>1. PICK h, c, verdict :
         /\ h = handler[t] /\ c = call[t]
         /\ verdict = IF c.read = Absent THEN "cookie auth"
                      ELSE IF c.read # Corrupt /\ admitted(h, c.read, now)
                      THEN "bound" ELSE "revoke"
  OBVIOUS
<1>2. /\ h # Absent /\ h.next = "get_binding" /\ c # Absent /\ c.op = "advertise"
      /\ c.pc = "check" /\ UNCHANGED users
      /\ handler' = [handler EXCEPT ![t].next = verdict,
                                    ![t].req.cookie = NoNonce,
                                    ![t].req.document = TRUE]
      /\ advertise_check(t) \/ get_binding_returns(t)
  BY <1>1 DEF gate, Handling, Serving
<1>3. /\ h \in Handlers /\ c \in Calls /\ Course(t) /\ Serves(t)
      /\ h.req.route = "account"
  BY <1>1, <1>2, OnCourse
<1>4. verdict \in {"cookie auth", "bound"}
  <2>1. c.read # Absent => /\ c.read \in Binding
                           /\ Welcome(h, c.read, left[t] + Latency)
    BY <1>1, <1>2, <1>3 DEF Serves, LetIn
  <2>2. left[t] \in Nat /\ clock - left[t] <= Latency /\ Latency \in Nat
    BY <1>1, <1>2, NetworkAssumption DEF OInv, Timely, InFlight
  <2>3. Ticks(now) \in Nat /\ Ticks(now) <= left[t] + Latency
    BY <2>2, TickFacts, SMTT(30)
  <2>4. c.read # Absent => c.read \in Binding /\ admitted(h, c.read, now)
    BY <2>1, <2>3 DEF Welcome
  <2>5. QED
    BY <1>1, <2>4, CorruptAssumption
<1>5. PICK k : k = [h EXCEPT !.next = verdict, !.req.cookie = NoNonce,
                             !.req.document = TRUE]
  OBVIOUS
<1>6. /\ handler'[t] = k /\ k # Absent /\ k.next = verdict
      /\ k.req.route = "account" /\ k.sid = h.sid /\ k.new = h.new
      /\ k.user = h.user /\ k.deletes = h.deletes
  <2>1. handler'[t] = k
    BY <1>1, <1>2, <1>5
  <2>2. k \in Handlers
    BY <1>3, <1>4, <1>5 DEF Handlers, HttpRequests, NoNonce, Nexts
  <2>3. /\ k.next = verdict /\ k.req.route = h.req.route /\ k.sid = h.sid
        /\ k.new = h.new /\ k.user = h.user /\ k.deletes = h.deletes
    BY <1>3, <1>5 DEF Handlers, HttpRequests
  <2>4. QED
    BY <1>3, <2>1, <2>2, <2>3, NoHandlerAssumption
<1>7. binding' = binding /\ call'[t].op = "advertise"
  <2>1. ASSUME NEW out, Stop(t, out)
        PROVE  binding' = binding /\ call'[t].op = "advertise"
    BY <1>1, <1>2, <2>1, EndsFields DEF Stop, store
  <2>2. ASSUME Goes(t, [c EXCEPT !.pc = "write"])
        PROVE  call'[t].op = "advertise"
    <3>1. call'[t] = [c EXCEPT !.pc = "write"]
      BY <2>2 DEF Goes
    <3>2. QED
      BY <1>2, <1>3, <3>1 DEF Calls
  <2>3. QED
    BY <1>1, <1>2, <2>1, <2>2 DEF advertise_check, get_binding_returns, store
<1>8. \A op \in {"register", "refresh"} : ~ Brings(t, op) /\ ~ Brings(t, op)'
  BY <1>1, <1>2, <1>6, <1>7 DEF Brings, Serving
<1>9. Serves(t)'
  <2>1. UNCHANGED <<jar, users>>
    BY <1>2, ServedFrame
  <2>2. Course(t)'
    BY <1>1, <1>3, <1>4, <1>6, <2>1 DEF Course, Courses
  <2>3. QED
    BY <1>4, <1>6, <2>2 DEF Serves
<1>10. QED
  BY <1>1, <1>2, <1>3, <1>6, <1>7, <1>8, <1>9, ServedQuietly

\* A handler of a visit goes on behind its call.
LEMMA ResumesVisit ==
    ASSUME AInv, NEW t \in Tasks, served(t), resumes(t),
           handler[t].req.route \notin {"login", "logout"}
    PROVE  CInv'
<1> USE BrowserFacts
<1>1. PICK h, c : h = handler[t] /\ c = call[t]
  OBVIOUS
<1>2. /\ h # Absent /\ c # Absent /\ c.pc = "answer"
      /\ call'[t] = Absent /\ binding' = binding
  BY <1>1 DEF resumes, answer, Goes, store
<1>3. /\ Serves(t) /\ Course(t) /\ On(t, h.req.route) /\ h \in Handlers
      /\ c \in Calls /\ c.op \in Ops /\ Told(c) /\ h.new = Absent
      /\ h.req.route \in {"account", "register", "refresh"}
      /\ h.sid = jar.sid /\ jar.sid \in Sessions /\ h.user = users[jar.sid]
  <2>1. /\ Serves(t) /\ Course(t) /\ On(t, h.req.route) /\ h \in Handlers
        /\ h.req.route \in {"login", "logout", "account", "register", "refresh"}
        /\ c \in Calls
        /\ h.req.route # "login" =>
              /\ jar.sid \in Sessions /\ h.sid = jar.sid /\ h.new = Absent
              /\ h.user = users[jar.sid]
    BY <1>1, <1>2, OnCourse
  <2>2. QED
    BY <1>1, <1>2, <2>1 DEF AnswersTold, Calls
<1>4. /\ c.op # "offer"
      /\ c.op = "register" => h.req.route = "register" /\ h.next = "register"
      /\ c.op \in {"issue", "refresh"} => h.req.route = "refresh" /\ h.next = c.op
      /\ c.op = "advertise" => h.req.route = "account" /\ h.next # "revoke"
      /\ c.op = "revoke" => h.req.route = "refresh" /\ ~ Inside
  <2>1. /\ c.op \in {"offer", "register", "issue", "refresh"} => h.next = c.op
        /\ c.op = "advertise" => h.req.route = "account"
        /\ c.op = "revoke" => h.next = "revoke"
        /\ h.next = "offer" => h.req.route = "login"
        /\ h.next = "register" => h.req.route = "register"
        /\ h.next \in {"issue", "refresh"} => h.req.route = "refresh"
        /\ h.next = "revoke" =>
              \/ h.req.route \in {"login", "logout"}
              \/ h.req.route = "refresh" /\ ~ Inside
    BY <1>1, <1>2, OnCourse
  <2>2. QED
    BY <1>1, <1>3, <2>1
<1>5. users' = users
  <2>1. ASSUME resumes_revoke(t) PROVE users' = users
    <3>1. ~ Inside /\ users' = [users EXCEPT ![jar.sid] = Unknown]
      BY <1>1, <1>3, <1>4, <2>1 DEF resumes_revoke, Serving
    <3>2. users[jar.sid] # Absent
      BY <1>1, <1>3, VisitsAlone DEF JarFits
    <3>3. users[jar.sid] = Unknown
      BY <1>3, <3>1, <3>2 DEF Inside, UserIds
    <3>4. QED
      BY <1>3, <3>1, <3>3
  <2>2. QED
    BY <1>1, <2>1 DEF resumes, resumes_offer_or_register, resumes_issue,
       resumes_refresh, resumes_gate, resumes_login
<1>6. UNCHANGED jar /\ (Inside' <=> Inside)
  BY <1>5, ServedFrame DEF Inside
<1>7. ASSUME handler'[t] # Absent
      PROVE  /\ Serves(t)'
             /\ c.op = "refresh" /\ c.out # "ok"
  <2>1. resumes_refresh(t) \/ resumes_gate(t)
    BY <1>1, <1>7
    DEF resumes, resumes_offer_or_register, resumes_issue, resumes_revoke,
        resumes_login, Responds, Fails
  <2>2. resumes_refresh(t)
    BY <1>1, <1>4, <1>7, <2>1
    DEF resumes_gate, Serving, Handling, Responds, Fails
  <2>3. c.op = "refresh" /\ h.next = "refresh" /\ h.req.route = "refresh"
    BY <1>1, <1>4, <2>2 DEF resumes_refresh, Serving
  <2>4. PICK next \in {"issue", "revoke"} :
           /\ handler'[t] = [h EXCEPT !.next = next]
           /\ c.out # "ok"
           /\ next = "revoke" => c.out \notin Retryable
    <3>1. c.out # "ok"
      BY <1>1, <1>7, <2>2 DEF resumes_refresh, Responds, Retryable
    <3>2. CASE c.out \in Retryable
      <4>1. Goes_on(t, [h EXCEPT !.next = "issue"])
        BY <1>1, <2>2, <3>1, <3>2 DEF resumes_refresh
      <4>2. QED
        BY <3>1, <3>2, <4>1 DEF Goes_on
    <3>3. CASE c.out \notin Retryable
      <4>1. Goes_on(t, [h EXCEPT !.next = "revoke"])
        BY <1>1, <2>2, <3>1, <3>3 DEF resumes_refresh
      <4>2. QED
        BY <3>1, <3>3, <4>1 DEF Goes_on
    <3>4. QED
      BY <3>2, <3>3
  <2>5. PICK k : k = handler'[t]
    OBVIOUS
  <2>6. /\ k.next = next /\ k.req = h.req /\ k.sid = h.sid /\ k.new = h.new
        /\ k.user = h.user /\ k.deletes = h.deletes
    BY <1>3, <2>4, <2>5 DEF Handlers
  <2>7. next = "revoke" => ~ Inside
    BY <1>1, <1>2, <1>3, <2>3, <2>4 DEF Serves, Refreshing
  <2>8. next \in Courses("refresh")'
    BY <1>6, <2>7 DEF Courses
  <2>9. Course(t)'
    BY <1>1, <1>2, <1>3, <1>5, <1>6, <2>3, <2>5, <2>6, <2>8 DEF Course
  <2>10. QED
    BY <1>2, <2>3, <2>4, <2>5, <2>6, <2>9 DEF Serves, Issuing
<1>8. ASSUME handler'[t] = Absent
      PROVE  /\ Returns(reply[t])'
             /\ reply'[t] # Absent /\ reply'[t].route = h.req.route
             /\ reply'[t].cookie =
                   IF c.op \in {"register", "refresh"} /\ c.out = "ok"
                   THEN c.nonce ELSE NoNonce
  <2>1. PICK r : r = reply'[t]
    OBVIOUS
  <2>2. r \in Replies /\ r # Absent /\ r = response(h, c)
    BY <1>1, <1>8, <2>1, ServedFrame
  <2>3. /\ r.route = h.req.route
        /\ r.status = "refused" =>
              \/ c.op = "register"
              \/ c.op = "issue" /\ c.out = "unchanged" /\ ~ Challenged(c)
              \/ c.op = "revoke" /\ h.req.route = "refresh"
        /\ r.sid \in {Absent, h.new}
        /\ r.offer = IF c.op = "offer" THEN c.nonce ELSE NoNonce
        /\ r.cookie = IF c.op \in {"register", "refresh"} /\ c.out = "ok"
                      THEN c.nonce ELSE NoNonce
        /\ r.deletes = (c.op = "revoke")
        /\ c.op = "register" => r.id = IF c.out = "ok" THEN c.nonce ELSE NoNonce
    BY <1>1, <1>3, <2>2, ResponseFields DEF Course, Challenged
  <2>4. c.op = "issue" /\ c.out = "unchanged" /\ ~ Challenged(c) => ~ Inside
    BY <1>1, <1>2, <1>3, <1>4, RecordsAreRecords
    DEF Serves, Issuing, Challenged
  <2>5. r.route = "refresh" /\ (r.status = "refused" \/ r.deletes) => ~ Inside
    BY <1>4, <2>3, <2>4
  <2>6. r.route \notin {"register", "refresh"} => r.cookie = NoNonce
    BY <1>4, <2>3
  <2>7. r.route \in {"account", "register"} => ~ r.deletes
    BY <1>4, <2>3
  <2>8. r.route = "register" => r.id = r.cookie
    BY <1>3, <1>4, <2>3 DEF Ops
  <2>9. Returns(reply[t])'
    BY <1>3, <1>4, <1>6, <2>1, <2>2, <2>3, <2>5, <2>6, <2>7, <2>8 DEF Returns
  <2>10. QED
    BY <2>1, <2>2, <2>3, <2>9
<1>9. \A op \in {"register", "refresh"} :
         /\ Brings(t, op)' <=> Brings(t, op)
         /\ Brings(t, op) => Brought(t)' = Brought(t)
  <2> TAKE op \in {"register", "refresh"}
  <2>1. Brings(t, op) <=> c.op = op /\ c.out = "ok"
    BY <1>1, <1>2 DEF Brings, Serving
  <2>2. CASE handler'[t] # Absent
    BY <1>2, <1>7, <2>1, <2>2 DEF Brings, Serving
  <2>3. CASE handler'[t] = Absent
    <3>1. c.op \in {"register", "refresh"} /\ c.out = "ok" => c.nonce # NoNonce
      <4>1. NoNonce \notin used
        BY DEF used, IInv, Types, TypeOK, Nonces
      <4>2. QED
        BY <1>2, <1>3, <4>1 DEF Told, Minting
    <3>2. Brings(t, op)' <=> reply'[t].route = op /\ reply'[t].cookie # NoNonce
      BY <1>8, <2>3 DEF Brings
    <3>3. Brought(t)' = reply'[t].cookie /\ Brought(t) = c.nonce
      BY <1>1, <1>2, <2>3, SMTT(30) DEF Brought
    <3>4. QED
      BY <1>4, <1>8, <2>1, <2>3, <3>1, <3>2, <3>3
  <2>4. QED
    BY <2>2, <2>3
<1>10. QED
  BY <1>2, <1>5, <1>7, <1>8, <1>9, ServedQuietly

\* How a call moves while it works.
LEMMA WorkFields ==
    ASSUME IInv, NEW t \in Tasks, Works(t), NEW c, c = call[t], NEW d, d = call'[t]
    PROVE  /\ c # Absent /\ c \in Calls /\ d # Absent
           /\ c.pc # "answer" /\ d.op = c.op
           /\ d.pc # "answer" => d.jwt = c.jwt /\ d.id = c.id /\ d.user = c.user
           /\ d.pc = "check" =>
                 /\ c.pc = "get" /\ d.read = binding[c.session]
                 /\ d.attempt = c.attempt
           /\ d.pc = "write" =>
                 c.pc = "check" /\ d.read = c.read /\ d.attempt = c.attempt
           /\ d.pc = "answer" => d.read = c.read /\ d.attempt = c.attempt
<1>1. /\ c # Absent /\ c \in Calls /\ d \in Calls /\ d # Absent
      /\ call \in [Tasks -> Calls \union {Absent}]
  BY WorkMoves, CallStays, NoHandlerAssumption DEF IInv, Types, TypeOK
<1>2. CASE c.pc \notin {"get", "answer"} /\ \E out \in Outcomes : Ends(t, out)
  BY <1>1, <1>2, EndsFields
<1>3. CASE \E n \in Fresh \intersect Nat :
              c.pc = "check" /\ Goes(t, [c EXCEPT !.pc = "write", !.nonce = n,
                                                   !.at = now])
  <2>1. PICK n \in Fresh \intersect Nat :
           c.pc = "check" /\ d = [c EXCEPT !.pc = "write", !.nonce = n, !.at = now]
    BY <1>1, <1>3 DEF Goes
  <2>2. QED
    BY <1>1, <2>1 DEF Calls
<1>4. CASE /\ c.pc = "get"
           /\ Goes(t, [c EXCEPT !.pc = "check", !.read = binding[c.session]])
  <2>1. d = [c EXCEPT !.pc = "check", !.read = binding[c.session]]
    BY <1>1, <1>4 DEF Goes
  <2>2. QED
    BY <1>1, <1>4, <2>1 DEF Calls
<1>5. CASE /\ c.pc = "write"
           /\ Goes(t, [c EXCEPT !.pc = "get", !.attempt = c.attempt + 1,
                                !.read = Absent, !.nonce = NoNonce, !.at = 0])
  <2>1. d = [c EXCEPT !.pc = "get", !.attempt = c.attempt + 1,
                      !.read = Absent, !.nonce = NoNonce, !.at = 0]
    BY <1>1, <1>5 DEF Goes
  <2>2. QED
    BY <1>1, <1>5, <2>1 DEF Calls
<1>6. QED
  BY <1>2, <1>3, <1>4, <1>5, WorkMoves, ZenonT(60)

\* A refresh of the device proves what it must, or is asked to try again.
LEMMA RefreshWorks ==
    ASSUME AInv, NEW t \in Tasks, works(t), UNCHANGED <<jar, device, users>>,
           handler[t] # Absent, handler[t].next = "refresh", Inside
    PROVE  Refreshing(t)'
<1> USE BrowserFacts
<1>1. PICK h, c, d : h = handler[t] /\ c = call[t] /\ d = call'[t]
  OBVIOUS
<1>2. Works(t) /\ handler' = handler
  BY DEF works, host
<1>3. /\ c # Absent /\ c \in Calls /\ d # Absent
      /\ c.pc # "answer" /\ d.op = c.op
      /\ d.pc # "answer" => d.jwt = c.jwt /\ d.id = c.id /\ d.user = c.user
      /\ d.pc = "check" => d.read = binding[c.session]
      /\ d.pc = "write" => c.pc = "check" /\ d.read = c.read
  BY <1>1, <1>2, WorkFields
<1>4. /\ Serves(t) /\ On(t, "refresh") /\ c.session = h.sid /\ h.sid = jar.sid
      /\ Prepared(t)
  <2>1. h # Absent /\ call[t] # Absent
    BY <1>1, <1>3
  <2>2. /\ Serves(t) /\ Prepared(t) /\ On(t, h.req.route)
        /\ call[t] # Absent => call[t].session = h.sid
        /\ h.next \in {"issue", "refresh"} => h.req.route = "refresh"
        /\ h.req.route # "login" => h.sid = jar.sid
    BY <1>1, <2>1, OnCourse
  <2>3. QED
    BY <1>1, <2>1, <2>2
<1>5. c.op = "refresh" /\ Refreshing(t)
  BY <1>1, <1>3, <1>4 DEF Serves, Prepared, Awaits
<1>6. device # Absent /\ Proves(Own) /\ binding[c.session] = Own
  BY <1>4, VisitsAlone, OwnProves DEF Exclusive, Flying, Own
<1>7. c.jwt.key = key /\ c.id = device.id /\ c.user = users[jar.sid]
  BY <1>1, <1>3, <1>5 DEF Refreshing
<1>8. d.pc \in {"check", "write"} => Proves(d.read)
  BY <1>1, <1>3, <1>5, <1>6 DEF Refreshing
<1>9. ASSUME d.pc = "answer" PROVE d.out \in Retryable \union {"ok"}
  <2>1. \A out : Ends(t, out) => d.out = out
    BY <1>1, <1>3, EndsFields
  <2>2. CASE refresh_check(t)
    <3>1. PICK out : out = refresh_outcome(c.read, c.user, c.id, c.jwt, now)
      OBVIOUS
    <3>2. c.pc = "check"
      BY <1>1, <2>2 DEF refresh_check, Serving
    <3>3. ~ Mint(t)
      <4>1. SUFFICES ASSUME Mint(t) PROVE FALSE
        OBVIOUS
      <4>2. PICK n : Goes(t, [c EXCEPT !.pc = "write", !.nonce = n, !.at = now])
        BY <1>1, <4>1 DEF Mint
      <4>3. d = [c EXCEPT !.pc = "write", !.nonce = n, !.at = now]
        BY <1>1, <4>2 DEF Goes
      <4>4. QED
        BY <1>3, <1>9, <4>3 DEF Calls
    <3>4. d.out = out /\ out # "proved"
      BY <1>1, <2>1, <2>2, <3>1, <3>3 DEF refresh_check, Stop
    <3>5. Proves(c.read)
      BY <1>1, <1>3, <1>5, <3>2 DEF Refreshing
    <3>6. out \in Retryable \union {"proved"}
      BY <1>7, <3>1, <3>5, RecordsAreRecords
      DEF Proves, refresh_outcome, same_user, IsRecord, verify_refresh_jwt, Retryable
    <3>7. QED
      BY <3>4, <3>6
  <2>3. CASE refresh_loses(t)
    <3>1. ~ Again(t)
      <4>1. ASSUME Goes(t, [c EXCEPT !.pc = "get", !.attempt = c.attempt + 1,
                               !.read = Absent, !.nonce = NoNonce, !.at = 0])
            PROVE  FALSE
        <5>1. d = [c EXCEPT !.pc = "get", !.attempt = c.attempt + 1,
                            !.read = Absent, !.nonce = NoNonce, !.at = 0]
          BY <1>1, <4>1 DEF Goes
        <5>2. QED
          BY <1>3, <1>9, <5>1 DEF Calls
      <4>2. QED
        BY <1>1, <4>1 DEF Again
    <3>2. QED
      BY <2>1, <2>3, <3>1 DEF refresh_loses, Stop, Retryable
  <2>4. CASE refresh_replace(t)
    BY <2>1, <2>4 DEF refresh_replace
  <2>5. CASE \E op \in {"issue", "refresh", "advertise"} : replace_raises(t, op)
    BY <1>1, <1>6, <2>5, CorruptAssumption DEF replace_raises, Proves
  <2>6. CASE get(t)
    BY <1>1, <1>3, <1>9, <2>6 DEF get, Goes, Calls
  <2>7. QED
    BY <1>1, <1>2, <1>5, <2>2, <2>3, <2>4, <2>5, <2>6
    DEF Works, offer_check, offer_put, register_check, register_commit,
        register_loses, issue_check, issue_replace, issue_loses,
        advertise_replace, advertise_loses, revoke_delete, Serving
<1>10. QED
  BY <1>1, <1>2, <1>3, <1>7, <1>8, <1>9 DEF Refreshing, Proves

\* A 403 has a challenge to send.
LEMMA IssueWorks ==
    ASSUME AInv, NEW t \in Tasks, works(t), handler[t] # Absent,
           handler[t].next = "issue", Inside
    PROVE  Issuing(t)'
<1> USE BrowserFacts
<1>1. PICK h, c, d : h = handler[t] /\ c = call[t] /\ d = call'[t]
  OBVIOUS
<1>2. Works(t)
  BY DEF works
<1>3. /\ c # Absent /\ c \in Calls /\ c.pc # "answer"
      /\ d.pc = "check" => d.read = binding[c.session]
      /\ d.pc = "write" => c.pc = "check" /\ d.read = c.read
      /\ d.pc = "answer" => d.read = c.read
  BY <1>1, <1>2, WorkFields
<1>4. /\ Serves(t) /\ On(t, "refresh") /\ c.session = h.sid /\ h.sid = jar.sid
      /\ Prepared(t)
  <2>1. h # Absent /\ call[t] # Absent
    BY <1>1, <1>3
  <2>2. /\ Serves(t) /\ Prepared(t) /\ On(t, h.req.route)
        /\ call[t] # Absent => call[t].session = h.sid
        /\ h.next \in {"issue", "refresh"} => h.req.route = "refresh"
        /\ h.req.route # "login" => h.sid = jar.sid
    BY <1>1, <2>1, OnCourse
  <2>3. QED
    BY <1>1, <2>1, <2>2
<1>5. c.op = "issue" /\ (c.pc \in {"check", "write"} => c.read \in Binding)
  BY <1>1, <1>3, <1>4 DEF Serves, Prepared, Awaits, Issuing
<1>6. binding[c.session] \in Binding
  BY <1>4, VisitsAlone, OwnProves DEF Exclusive, Flying, Own, Proves
<1>7. d.pc \in {"check", "write"} => d.read \in Binding
  BY <1>3, <1>5, <1>6
<1>8. ASSUME d.pc = "answer"
      PROVE  d.out = "ok" \/ (d.out = "unchanged" /\ d.read \in Binding)
  <2>1. \A out : Ends(t, out) => d.out = out
    BY <1>1, <1>3, EndsFields
  <2>2. CASE issue_check(t)
    <3>1. c.pc = "check" /\ c.read \in Binding /\ c.read \notin {Absent, Corrupt}
      BY <1>1, <1>5, <2>2, RecordsAreRecords DEF issue_check, Serving, IsRecord
    <3>2. ~ Mint(t)
      <4>1. SUFFICES ASSUME Mint(t) PROVE FALSE
        OBVIOUS
      <4>2. PICK n : d = [c EXCEPT !.pc = "write", !.nonce = n, !.at = now]
        BY <1>1, <4>1 DEF Mint, Goes
      <4>3. QED
        BY <1>3, <1>8, <4>2 DEF Calls
    <3>3. d.out = "unchanged"
      BY <1>1, <2>1, <2>2, <3>1, <3>2 DEF issue_check, Stop
    <3>4. QED
      BY <1>3, <1>8, <3>1, <3>3
  <2>3. CASE issue_loses(t) \/ get(t)
    <3>1. \/ d = [c EXCEPT !.pc = "get", !.attempt = c.attempt + 1,
                           !.read = Absent, !.nonce = NoNonce, !.at = 0]
          \/ d = [c EXCEPT !.pc = "check", !.read = binding[c.session]]
      BY <1>1, <2>3 DEF issue_loses, Again, get, Goes
    <3>2. QED
      BY <1>3, <1>8, <3>1 DEF Calls
  <2>4. CASE issue_replace(t)
    BY <2>1, <2>4 DEF issue_replace
  <2>5. CASE \E op \in {"issue", "refresh", "advertise"} : replace_raises(t, op)
    BY <1>1, <1>6, <2>5, CorruptAssumption DEF replace_raises
  <2>6. QED
    BY <1>1, <1>2, <1>5, <2>2, <2>3, <2>4, <2>5
    DEF Works, offer_check, offer_put, register_check, register_commit,
        register_loses, refresh_check, refresh_replace,
        refresh_loses, advertise_replace, advertise_loses, revoke_delete, Serving
<1>9. QED
  BY <1>1, <1>7, <1>8 DEF Issuing

\* A step of a visit that does not write its binding.
LEMMA WorksVisit ==
    ASSUME AInv, NEW t \in Tasks, served(t), works(t),
           handler[t].req.route \notin {"login", "logout"},
           ~ register_commit(t), ~ issue_replace(t), ~ refresh_replace(t),
           ~ advertise_replace(t)
    PROVE  CInv'
<1> USE BrowserFacts
<1>1. PICK h, c, d : h = handler[t] /\ c = call[t] /\ d = call'[t]
  OBVIOUS
<1>2. Works(t) /\ handler' = handler /\ users' = users /\ h # Absent
  BY <1>1, ServedFrame DEF works, host
<1>3. /\ c # Absent /\ c \in Calls /\ d # Absent
      /\ c.pc # "answer" /\ d.op = c.op
      /\ d.pc # "answer" => d.jwt = c.jwt
      /\ d.pc = "answer" => d.read = c.read
      /\ d.pc = "write" => d.read = c.read
      /\ d.pc = "check" => c.pc = "get"
  BY <1>1, <1>2, WorkFields
<1>4. /\ Serves(t) /\ Course(t) /\ Prepared(t)
      /\ h.req.route \in {"account", "register", "refresh"}
      /\ c.session = jar.sid /\ jar.sid \in Sessions /\ On(t, h.req.route)
      /\ c.op = "revoke" => ~ Inside
  <2>1. call[t] # Absent
    BY <1>1, <1>3
  <2>2. /\ Serves(t) /\ Course(t) /\ Prepared(t) /\ On(t, h.req.route)
        /\ h.req.route \in {"login", "logout", "account", "register", "refresh"}
        /\ call[t] # Absent => call[t].session = h.sid
        /\ call[t] # Absent => (call[t].op = "revoke" => h.next = "revoke")
        /\ h.next = "revoke" =>
              \/ h.req.route \in {"login", "logout"}
              \/ h.req.route = "refresh" /\ ~ Inside
        /\ h.req.route # "login" => jar.sid \in Sessions /\ h.sid = jar.sid
    BY <1>1, <1>2, OnCourse
  <2>3. QED
    BY <1>1, <2>1, <2>2
<1>5. binding' = binding
  <2>1. CASE revoke_delete(t)
    <3>1. Own = Absent
      BY <1>1, <1>4, <2>1, VisitsAlone, OwnReadable DEF revoke_delete, Serving
    <3>2. QED
      BY <1>1, <1>4, <2>1, <3>1 DEF revoke_delete, delete, Own
  <2>2. QED
    BY <1>2, <2>1
    DEF Works, get, offer_check, offer_put, register_check, register_loses,
        issue_check, issue_loses, refresh_check, refresh_loses,
        advertise_loses, replace_raises, Mint, Stop, Again, store,
        put_pending_registration
<1>6. \A op \in {"register", "refresh"} : ~ Brings(t, op) /\ ~ Brings(t, op)'
  <2> TAKE op \in {"register", "refresh"}
  <2>1. ~ Brings(t, op)
    BY <1>1, <1>2, <1>3 DEF Brings, Serving
  <2>2. ASSUME Brings(t, op)' PROVE FALSE
    <3>1. d.pc = "answer" /\ d.out = "ok" /\ d.op = op
      BY <1>1, <1>2, <2>2 DEF Brings, Serving
    <3>2. [Next]_vars
      BY <1>2 DEF Next, Step
    <3>3. \/ offer_put(t) \/ revoke_delete(t)
      BY <1>1, <1>3, <3>1, <3>2, AnswersCome
    <3>4. QED
      BY <1>1, <1>3, <3>1, <3>3 DEF offer_put, revoke_delete, Serving
  <2>3. QED
    BY <2>1, <2>2
<1>7. /\ UNCHANGED <<jar, device, offered, left>>
      /\ \A route : Flying(route)' <=> Flying(route)
      /\ (Inside' <=> Inside)
  BY <1>2, ServedFrame DEF Inside
<1>8. Serves(t)'
  <2>1. Course(t)'
    <3>1. \A route : Courses(route)' = Courses(route)
      BY <1>7 DEF Courses
    <3>2. QED
      BY <1>1, <1>2, <1>3, <1>4, <1>7, <3>1 DEF Course
  <2>2. ASSUME h.next = "get_binding" PROVE LetIn(t)'
    <3>1. c.op = "advertise" /\ LetIn(t)
      BY <1>1, <1>3, <1>4, <2>2 DEF Prepared, Awaits, Serves
    <3>2. d.read = c.read
      <4>1. c.pc # "get"
        BY <1>1, <1>3, <3>1, SMTT(30) DEF IInv, CallsRemember, Remembers, Active
      <4>2. PICK out \in Outcomes : Ends(t, out)
        BY <1>1, <1>2, <3>1, <4>1, WorkMoves DEF Minting
      <4>3. QED
        BY <1>1, <1>3, <4>2, EndsFields
    <3>3. QED
      BY <1>1, <1>2, <1>3, <1>7, <3>1, <3>2 DEF LetIn
  <2>3. ASSUME h.next = "register" PROVE Registering(t)'
    BY <1>1, <1>2, <1>3, <1>4, <2>3 DEF Serves, Registering
  <2>4. ASSUME h.next = "refresh", Inside PROVE Refreshing(t)'
    BY <1>1, <1>2, <1>7, <2>4, RefreshWorks
  <2>5. ASSUME h.next = "issue", Inside PROVE Issuing(t)'
    BY <1>1, <1>2, <2>5, IssueWorks
  <2>6. QED
    BY <1>1, <1>2, <1>7, <2>1, <2>2, <2>3, <2>4, <2>5 DEF Serves
<1>9. QED
  BY <1>1, <1>2, <1>5, <1>6, <1>8, ServedQuietly

\* Only pages are in flight besides a registration or a refresh.
LEMMA PagesBeside ==
    ASSUME AInv, NEW t \in Tasks, NEW route \in {"register", "refresh"},
           On(t, route), NEW u \in Tasks \ {t}
    PROVE  /\ handler[u] # Absent => handler[u].req.route = "account"
           /\ \A op \in {"register", "refresh"} : ~ Brings(u, op)
<1> USE BrowserFacts
<1>1. ~ Flying("login") /\ ~ Flying("logout")
  BY VisitsAlone
<1>2. ~ On(u, "register") /\ ~ On(u, "refresh")
  BY DEF Exclusive, Flying
<1>3. \A op \in {"register", "refresh"} : ~ Brings(u, op)
  BY <1>2, BringsFlies
<1>4. ASSUME handler[u] # Absent PROVE handler[u].req.route = "account"
  <2>1. PICK h : h = handler[u]
    OBVIOUS
  <2>2. /\ On(u, h.req.route)
        /\ h.req.route \in {"login", "logout", "account", "register", "refresh"}
    BY <1>4, <2>1, OnCourse
  <2>3. QED
    BY <1>1, <1>2, <2>1, <2>2 DEF Flying
<1>5. QED
  BY <1>3, <1>4

\* What is known of the write of a visit.
LEMMA WriteVisit ==
    ASSUME AInv, NEW t \in Tasks, served(t), works(t), NEW h, h = handler[t],
           NEW c, c = call[t], c # Absent, c.pc = "write",
           c.op \in {"register", "issue", "refresh", "advertise"}
    PROVE  /\ h # Absent /\ c \in Calls /\ Serves(t) /\ Course(t)
           /\ c.op # "advertise" => h.next = c.op
           /\ c.op = "register" => h.req.route = "register"
           /\ c.op \in {"issue", "refresh"} => h.req.route = "refresh"
           /\ c.op = "advertise" => h.req.route = "account"
           /\ On(t, h.req.route)
           /\ c.session = jar.sid /\ jar.sid \in Sessions
           /\ h.user = users[jar.sid]
           /\ Justified(c) /\ c.at \in Nat
           /\ c.op # "advertise" => c.nonce \in Nonces
           /\ c.op \in {"register", "refresh"} => left[t] <= LastTick(c.at)
           /\ handler' = handler /\ users' = users
           /\ (Inside' <=> Inside)
           /\ \A op \in {"register", "refresh"} : ~ Brings(t, op)
<1> USE BrowserFacts
<1>1. h # Absent /\ handler' = handler /\ users' = users
  BY ServedFrame DEF works, host
<1>2. /\ Serves(t) /\ Course(t) /\ On(t, h.req.route)
      /\ h.next = "register" => h.req.route = "register"
      /\ h.next \in {"issue", "refresh"} => h.req.route = "refresh"
      /\ call[t] # Absent =>
            /\ call[t] \in Calls /\ call[t].session = h.sid
            /\ call[t].op \in {"offer", "register", "issue", "refresh"} =>
                  h.next = call[t].op
            /\ call[t].op = "advertise" => h.req.route = "account"
      /\ h.req.route # "login" =>
            /\ jar.sid \in Sessions /\ h.sid = jar.sid
            /\ h.user = users[jar.sid]
  BY <1>1, OnCourse
<1>3. /\ c.op # "advertise" => h.next = c.op
      /\ c.op = "register" => h.req.route = "register"
      /\ c.op \in {"issue", "refresh"} => h.req.route = "refresh"
      /\ c.op = "advertise" => h.req.route = "account"
      /\ c \in Calls /\ c.session = jar.sid /\ jar.sid \in Sessions
      /\ h.user = users[jar.sid]
  BY <1>2
<1>4. Justified(c) /\ c.at \in Nat
  BY <1>3 DEF IInv, WritesAreJustified, Writing, Calls
<1>5. c.op # "advertise" => c.nonce \in Nonces
  BY <1>4, BoundsAssumption DEF Justified, Minting, Nonces, NoNonce
<1>6. c.op \in {"register", "refresh"} => left[t] <= LastTick(c.at)
  BY DEF OInv, Timely, Bringing
<1>7. (Inside' <=> Inside) /\ \A op \in {"register", "refresh"} : ~ Brings(t, op)
  BY <1>1, ServedFrame DEF Inside, Brings, Serving
<1>8. QED
  BY <1>1, <1>2, <1>3, <1>4, <1>5, <1>6, <1>7

\* A binding that is registered while its registration is under way is in its
\* grace as long as a request that has left may take.
LEMMA GraceLetsIn ==
    ASSUME AInv, Benign, NEW t \in Tasks, InFlight(t), NEW b, b.created_at \in Nat,
           left[t] <= LastTick(b.created_at),
           NEW tick \in Nat, tick <= clock,
           NEW at \in Nat, Ticks(at) <= tick + Latency
    PROVE  is_within_registration_grace(b, at)
<1> USE BrowserFacts
<1>1. /\ left[t] \in Nat /\ clock - left[t] <= Latency /\ Latency \in Nat
      /\ TicksPerSecond \in Nat /\ RegistrationGrace \in Nat
  BY NetworkAssumption, GraceAssumption DEF OInv, Timely
<1>2. /\ Ticks(at) \in Nat /\ Ticks(b.created_at) \in Nat
      /\ Ticks(RegistrationGrace) \in Nat
      /\ Ticks(b.created_at + RegistrationGrace) =
            Ticks(b.created_at) + Ticks(RegistrationGrace)
  BY <1>1, TickFacts
<1>3. Ticks(RegistrationGrace) >= 2 * Latency + TicksPerSecond
  BY DEF Benign
<1>4. Ticks(at) < Ticks(b.created_at + RegistrationGrace)
  BY <1>1, <1>2, <1>3 DEF LastTick
<1>5. at < b.created_at + RegistrationGrace
  BY <1>1, <1>4, TicksOrdered
<1>6. QED
  BY <1>1, <1>5 DEF is_within_registration_grace

\* A registration commits.
LEMMA RegisterVisit ==
    ASSUME AInv, Benign, NEW t \in Tasks, served(t), works(t), register_commit(t)
    PROVE  CInv'
<1> USE BrowserFacts
<1>1. PICK h, c, d, b : /\ h = handler[t] /\ c = call[t] /\ d = call'[t]
                        /\ b = new_binding(c.read, c.user, c.jwt.key, c.nonce, c.at)
  OBVIOUS
<1>2. c # Absent /\ c.op = "register" /\ c.pc = "write"
  BY <1>1 DEF register_commit, Serving
<1>3. /\ h # Absent /\ c \in Calls /\ Serves(t) /\ Course(t)
      /\ h.next = "register" /\ h.req.route = "register" /\ On(t, "register")
      /\ c.session = jar.sid /\ jar.sid \in Sessions
      /\ Justified(c) /\ c.nonce \in Nonces /\ c.at \in Nat
      /\ left[t] <= LastTick(c.at)
      /\ handler' = handler /\ users' = users /\ (Inside' <=> Inside)
  BY <1>1, <1>2, WriteVisit
<1>4. /\ UNCHANGED <<jar, device, offered, left, profile>>
      /\ \A u \in Tasks \ {t} : handler'[u] = handler[u] /\ call'[u] = call[u]
                               /\ reply'[u] = reply[u]
      /\ \A route : Flying(route)' <=> Flying(route)
      /\ Abroad' <=> Abroad
  BY ServedFrame
<1>5. /\ Flying("register") /\ device = Absent /\ jar.cookie = NoNonce
      /\ ~ Flying("refresh") /\ ~ Abroad
  BY <1>3 DEF Exclusive, JarFits, Flying, Abroad
<1>6. c.jwt.key = key
  BY <1>1, <1>2, <1>3 DEF Serves, Registering
<1>7. /\ b \in Binding /\ b.session_identifier = c.nonce
      /\ b.cookie_value = c.nonce /\ b.public_key = key /\ b.created_at = c.at
  <2>1. c.read \in PendingRegistration /\ c.user \in UserIds /\ key \in Keys
    BY <1>2, <1>3, KeyAssumption DEF Justified, Calls, key
  <2>2. b \in Binding
    BY <1>1, <1>3, <1>6, <2>1, NewBindingType
  <2>3. QED
    BY <1>1, <1>3, <1>6, <2>2 DEF new_binding
<1>8. Own' = b
  BY <1>1, <1>3, <1>4 DEF register_commit, commit_registration, Own
<1>9. d # Absent /\ d.pc = "answer" /\ d.op = "register" /\ d.nonce = c.nonce
      /\ d.out = "ok"
  <2>1. Works(t)
    BY DEF works
  <2>2. d # Absent
    BY <1>1, <2>1, WorkFields
  <2>3. QED
    BY <1>1, <1>2, <2>2, EndsFields DEF register_commit
<1>10. \A u \in Tasks : ~ Brings(u, "refresh")'
  BY <1>1, <1>3, <1>4, <1>9, OthersBring, PagesBeside DEF Brings, Serving
<1>11. \A u \in Tasks : Brings(u, "register")' => u = t
  BY <1>3, <1>4, OthersBring, PagesBeside
<1>12. Brings(t, "register")' /\ Brought(t)' = c.nonce
  BY <1>1, <1>3, <1>9 DEF Brings, Serving, Brought
<1>13. Agreed'
  BY <1>3, <1>4, <1>5, <1>7, <1>8, <1>10, <1>11, <1>12 DEF Agreed
<1>14. CookieFits'
  BY <1>4, <1>5 DEF CookieFits
<1>15. ASSUME NEW u \in Tasks \ {t}, handler[u] # Absent
       PROVE  handler[u].next = "get_binding" => LetIn(u)'
  <2> SUFFICES ASSUME handler[u].next = "get_binding" PROVE LetIn(u)'
    OBVIOUS
  <2>1. Serves(u)
    BY <1>15, OnCourse
  <2>2. LetIn(u)
    BY <2>1 DEF Serves
  <2>3. call[u] = Absent => ~ handler[u].req.document /\ handler[u].req.cookie = NoNonce
    BY <1>5, <2>2 DEF LetIn
  <2>4. left[u] \in Nat /\ left[u] <= clock
    BY DEF OInv, Timely
  <2>5. \A at \in Nat : Ticks(at) <= left[u] + Latency =>
           is_within_registration_grace(b, at)
    BY <1>3, <1>7, <2>4, GraceLetsIn DEF On
  <2>6. call[u] = Absent => Welcome(handler[u], b, left[u] + Latency)
    BY <2>3, <2>5 DEF Welcome, admitted
  <2>7. QED
    BY <1>4, <1>8, <2>2, <2>3, <2>6 DEF LetIn
<1>16. Serves(t)'
  <2>1. Course(t)'
    BY <1>1, <1>3, <1>4, <1>9 DEF Course, Courses
  <2>2. Registering(t)'
    BY <1>1, <1>9 DEF Registering
  <2>3. QED
    BY <1>1, <1>3, <2>1, <2>2 DEF Serves
<1>17. QED
  BY <1>1, <1>3, <1>13, <1>14, <1>15, <1>16, ServedVisit

\* Two bindings that the gate does not tell apart.
SameCookies(b, d) ==
    /\ d.user_id = b.user_id /\ d.created_at = b.created_at
    /\ d.session_identifier = b.session_identifier
    /\ d.public_key = b.public_key /\ d.cookie_value = b.cookie_value
    /\ d.previous_cookie_value = b.previous_cookie_value
    /\ d.previous_cookie_expires_at = b.previous_cookie_expires_at

\* Who is welcome with the one is welcome with the other.
LEMMA AdmittedAlike ==
    ASSUME NEW b, NEW d, SameCookies(b, d), NEW h, NEW tick, Welcome(h, b, tick)
    PROVE  Welcome(h, d, tick)
BY DEF SameCookies, Welcome, admitted, is_within_registration_grace, bound_cookie_matches

\* The challenge of the browser's binding is rotated or advertised.
LEMMA ChallengeVisit ==
    ASSUME AInv, NEW t \in Tasks, served(t), works(t), Ends(t, "ok"),
           NEW c, c = call[t], c # Absent, c.pc = "write",
           c.op \in {"issue", "advertise"},
           NEW b \in Binding, SameCookies(c.read, b),
           replace_binding(c.session, c.read, b)
    PROVE  CInv'
<1> USE BrowserFacts
<1>1. PICK h, d : h = handler[t] /\ d = call'[t]
  OBVIOUS
<1>2. /\ h # Absent /\ c \in Calls /\ Serves(t) /\ Course(t)
      /\ c.op = "issue" => h.next = "issue"
      /\ h.req.route \in {"refresh", "account"} /\ On(t, h.req.route)
      /\ c.session = jar.sid /\ jar.sid \in Sessions
      /\ handler' = handler /\ users' = users /\ (Inside' <=> Inside)
      /\ \A op \in {"register", "refresh"} : ~ Brings(t, op)
  BY <1>1, WriteVisit
<1>3. /\ UNCHANGED <<jar, device, offered, left, profile>>
      /\ \A u \in Tasks \ {t} : handler'[u] = handler[u] /\ call'[u] = call[u]
                               /\ reply'[u] = reply[u]
      /\ \A u \in Tasks : \A route : On(u, route)' <=> On(u, route)
      /\ \A route : Flying(route)' <=> Flying(route)
      /\ Abroad' <=> Abroad
  BY ServedFrame
<1>4. Own = c.read /\ Own' = b
  BY <1>2, <1>3 DEF replace_binding, Own
<1>5. /\ d # Absent /\ d.pc = "answer" /\ d.op = c.op /\ d.out = "ok"
      /\ d.read = c.read
  <2>1. Works(t)
    BY DEF works
  <2>2. d # Absent
    BY <1>1, <2>1, WorkFields
  <2>3. QED
    BY <1>1, <2>2, EndsFields
<1>6. Own \in Binding
  <2>1. Justified(c)
    BY DEF IInv, WritesAreJustified, Writing
  <2>2. QED
    BY <1>4, <2>1 DEF Justified
<1>7. \A u \in Tasks, op \in {"register", "refresh"} :
         /\ Brings(u, op)' <=> Brings(u, op)
         /\ Brings(u, op) => Brought(u)' = Brought(u)
  <2>1. \A op \in {"register", "refresh"} : ~ Brings(t, op)'
    BY <1>1, <1>2, <1>5 DEF Brings, Serving
  <2>2. QED
    BY <1>2, <1>3, <2>1, OthersBring
<1>8. Own # Absent
  BY <1>6, RecordsAreRecords DEF IsRecord
<1>9. Agreed'
  BY <1>2, <1>3, <1>4, <1>7, <1>8 DEF Agreed, SameCookies
<1>10. CookieFits'
  BY <1>3, <1>4, <1>7 DEF CookieFits, SameCookies
<1>11. ASSUME NEW u \in Tasks, handler[u] # Absent, handler[u].next = "get_binding",
              u # t
       PROVE  LetIn(u)'
  <2>1. LetIn(u)
    BY <1>11 DEF AInv, CInv, Serves
  <2>2. handler'[u] = handler[u] /\ call'[u] = call[u]
    BY <1>3, <1>11
  <2>3. CASE call[u] = Absent
    <3>1. Welcome(handler[u], Own, left[u] + Latency)
      BY <1>8, <2>1, <2>3 DEF LetIn
    <3>2. Welcome(handler[u], b, left[u] + Latency)
      BY <1>4, <3>1, AdmittedAlike
    <3>3. QED
      BY <1>3, <1>4, <2>1, <2>2, <2>3, <3>2 DEF LetIn
  <2>4. CASE call[u] # Absent
    BY <1>3, <2>1, <2>2, <2>4 DEF LetIn
  <2>5. QED
    BY <2>3, <2>4
<1>12. Serves(t)'
  <2>1. \A route : Courses(route)' = Courses(route)
    BY <1>2 DEF Courses
  <2>2. Course(t)'
    BY <1>1, <1>2, <1>3, <1>5, <2>1 DEF Course
  <2>3. h.next = "get_binding" => LetIn(t)'
    BY <1>1, <1>2, <1>3, <1>5 DEF Serves, LetIn
  <2>4. h.next \notin {"register", "refresh"}
    <3>1. h.next = "register" => h.req.route = "register"
      BY <1>1, <1>2, OnCourse
    <3>2. h.next = "refresh" => h.req.route = "refresh"
      BY <1>1, <1>2, OnCourse
    <3>3. h.req.route = "refresh" => c.op = "issue"
      <4>1. c.op = "advertise" => h.req.route = "account"
        BY <1>1, WriteVisit
      <4>2. QED
        BY <4>1
    <3>4. QED
      BY <1>2, <3>1, <3>2, <3>3
  <2>5. h.next = "issue" /\ Inside => Issuing(t)'
    BY <1>1, <1>2, IssueWorks
  <2>6. QED
    BY <1>1, <1>2, <2>2, <2>3, <2>4, <2>5 DEF Serves
<1>13. QED
  BY <1>1, <1>2, <1>9, <1>10, <1>11, <1>12, ServedVisit

\* A challenge is rotated, or a page advertises the seed.
LEMMA RotatedVisit ==
    ASSUME AInv, NEW t \in Tasks, served(t), works(t),
           issue_replace(t) \/ advertise_replace(t)
    PROVE  CInv'
<1>1. PICK c, b : /\ c = call[t]
                  /\ b = IF issue_replace(t)
                         THEN with_challenge(c.read, c.nonce, c.at)
                         ELSE mark_challenge_advertised(c.read)
  OBVIOUS
<1>2. /\ c # Absent /\ c.op \in {"issue", "advertise"} /\ c.pc = "write"
      /\ issue_replace(t) => c.op = "issue"
      /\ Ends(t, "ok") /\ replace_binding(c.session, c.read, b)
  BY <1>1 DEF issue_replace, advertise_replace, Serving
<1>3. /\ Justified(c) /\ c.at \in Nat
      /\ c.op # "advertise" => c.nonce \in Nonces
  BY <1>1, <1>2, WriteVisit
<1>4. c.read \in Binding
  BY <1>2, <1>3 DEF Justified
<1>5. b \in Binding /\ SameCookies(c.read, b)
  BY <1>1, <1>2, <1>3, <1>4, WithChallenge, MarkAdvertised DEF SameCookies
<1>6. QED
  BY <1>1, <1>2, <1>5, ChallengeVisit

\* The cookie of the jar has not expired when a request arrives that left while
\* the browser took it for alive.
LEMMA CookieOutlives ==
    ASSUME AInv, Benign, jar.cookie # NoNonce,
           NEW m \in minted, m.nonce = jar.cookie,
           NEW tick \in Nat, tick + profile.margin < jar.until,
           NEW at \in Nat, Ticks(at) <= tick + Latency
    PROVE  at < m.at + CookieMaxAge
<1> USE BrowserFacts
<1>1. PICK k \in minted :
         /\ k.nonce = jar.cookie
         /\ jar.until <= LastTick(k.at) + Ticks(CookieMaxAge) + Latency
  BY DEF OInv, KeptInTime
<1>2. k = m /\ m.at \in Nat
  BY <1>1 DEF RInv, MintedOnce, IInv, Types, TypeOK
<1>3. /\ CookieMaxAge \in Nat /\ Latency \in Nat /\ TicksPerSecond \in Nat
      /\ profile.margin \in Nat
      /\ profile.margin >= 2 * Latency + (TicksPerSecond - 1)
  BY Lifetimes, NetworkAssumption, HabitsAssumption DEF Networked, Benign
<1>4. /\ Ticks(at) \in Nat /\ Ticks(m.at) \in Nat /\ Ticks(CookieMaxAge) \in Nat
      /\ Ticks(m.at + CookieMaxAge) = Ticks(m.at) + Ticks(CookieMaxAge)
  BY <1>2, <1>3, TickFacts
<1>5. Ticks(at) < Ticks(m.at + CookieMaxAge)
  BY <1>1, <1>2, <1>3, <1>4 DEF LastTick
<1>6. QED
  BY <1>2, <1>3, <1>5, TicksOrdered

\* The cookie that a page left with is good for the gate after the rotation that
\* demotes it, for as long as the page may take to arrive.
LEMMA OverlapLetsIn ==
    ASSUME AInv, Benign, Own \in Binding, Sound(Own), jar.cookie # NoNonce,
           jar.cookie = Own.cookie_value, NEW n \in Nonces, NEW m \in Nat,
           NEW b, b = with_rotated_cookie_and_challenge(Own, n, m),
           NEW tick \in Nat, tick + profile.margin < jar.until,
           NEW at \in Nat, Ticks(at) <= tick + Latency
    PROVE  /\ jar.cookie = b.previous_cookie_value
           /\ at < b.previous_cookie_expires_at
<1>1. /\ b.previous_cookie_value = Own.cookie_value
      /\ b.previous_cookie_expires_at = Own.cookie_issued_at + CookieMaxAge
  BY WithRotated
<1> USE BrowserFacts
<1>2. PICK k \in minted : k.nonce = jar.cookie /\ k.at = Own.cookie_issued_at
  BY DEF Sound, Dated
<1>3. at < k.at + CookieMaxAge
  BY <1>2, CookieOutlives
<1>4. QED
  BY <1>1, <1>2, <1>3

\* A page that left while a refresh is under way left with the cookie of the jar.
LEMMA PageBesideRefresh ==
    ASSUME AInv, Benign, NEW t \in Tasks, On(t, "refresh"), NEW u \in Tasks,
           InFlight(u), jar.cookie # NoNonce
    PROVE  /\ ~ (left[u] + Ticks(CookieMaxAge) <= jar.until)
           /\ left[u] + profile.margin < jar.until => Abroad
<1> USE BrowserFacts
<1>1. /\ left[t] \in Nat /\ left[u] \in Nat /\ Latency \in Nat
      /\ left[t] <= clock /\ clock - left[u] <= Latency
      /\ Ticks(CookieMaxAge) \in Nat
  BY NetworkAssumption, Lifetimes, TickFacts DEF OInv, Timely
<1>2. /\ profile.margin \in Nat /\ profile.early \in Nat
      /\ Ticks(CookieMaxAge) > profile.margin + Latency
      /\ Ticks(CookieMaxAge) > profile.early + Latency
  BY HabitsAssumption DEF Networked, Benign
<1>3. \/ left[t] + profile.margin >= jar.until
      \/ left[t] + profile.early >= jar.until
  BY DEF CookieFits
<1>4. QED
  BY <1>1, <1>2, <1>3 DEF Abroad

\* A refresh commits.
LEMMA RefreshVisit ==
    ASSUME AInv, Benign, NEW t \in Tasks, served(t), works(t), refresh_replace(t)
    PROVE  CInv'
<1> USE BrowserFacts
<1>1. PICK h, c, d, b : /\ h = handler[t] /\ c = call[t] /\ d = call'[t]
                        /\ b = with_rotated_cookie_and_challenge(c.read, c.nonce, c.at)
  OBVIOUS
<1>2. /\ c # Absent /\ c.op = "refresh" /\ c.pc = "write" /\ Ends(t, "ok")
      /\ replace_binding(c.session, c.read, b)
  BY <1>1 DEF refresh_replace, Serving
<1>3. /\ h # Absent /\ h.next = "refresh" /\ h.req.route = "refresh"
      /\ On(t, "refresh") /\ Serves(t) /\ Course(t) /\ c.session = jar.sid
      /\ jar.sid \in Sessions /\ handler' = handler /\ users' = users
      /\ Justified(c) /\ c.nonce \in Nonces /\ c.at \in Nat
      /\ (Inside' <=> Inside)
      /\ \A op \in {"register", "refresh"} : ~ Brings(t, op)
  BY <1>1, <1>2, WriteVisit
<1>4. /\ UNCHANGED <<jar, device, offered, left, profile>>
      /\ \A u \in Tasks \ {t} : handler'[u] = handler[u] /\ call'[u] = call[u]
                               /\ reply'[u] = reply[u]
      /\ \A u \in Tasks : \A route : On(u, route)' <=> On(u, route)
      /\ \A route : Flying(route)' <=> Flying(route)
      /\ Abroad' <=> Abroad
  BY ServedFrame
<1>5. c.read \in Binding
  BY <1>2, <1>3 DEF Justified
<1>6. Own = c.read /\ Own' = b
  BY <1>2, <1>3, <1>4 DEF replace_binding, Own
<1>7. /\ b \in Binding /\ b.session_identifier = Own.session_identifier
      /\ b.public_key = Own.public_key /\ b.user_id = Own.user_id
      /\ b.created_at = Own.created_at /\ b.cookie_value = c.nonce
      /\ b.previous_cookie_value = Own.cookie_value
  BY <1>1, <1>3, <1>5, <1>6, WithRotated, SMTT(60)
<1>8. /\ Flying("refresh") /\ device # Absent
      /\ ~ Flying("login") /\ ~ Flying("logout")
  BY <1>3, VisitsAlone DEF Exclusive, Flying
<1>9. Inside /\ Own.user_id = users[jar.sid] /\ Sound(Own)
  BY <1>3, <1>5, <1>6, <1>8, OwnReadable
<1>10. \A u \in Tasks, op \in {"register", "refresh"} : ~ Brings(u, op)
  BY <1>3, PagesBeside
<1>11. /\ d # Absent /\ d.pc = "answer" /\ d.op = "refresh" /\ d.out = "ok"
       /\ d.nonce = c.nonce
  <2>1. Works(t)
    BY DEF works
  <2>2. d # Absent
    BY <1>1, <2>1, WorkFields
  <2>3. QED
    BY <1>1, <1>2, <2>2, EndsFields
<1>12. /\ \A u \in Tasks : ~ Brings(u, "register")'
       /\ \A u \in Tasks : Brings(u, "refresh")' <=> u = t
       /\ Brought(t)' = c.nonce
  <2>1. ~ Brings(t, "register")' /\ Brings(t, "refresh")' /\ Brought(t)' = c.nonce
    BY <1>1, <1>3, <1>11 DEF Brings, Serving, Brought
  <2>2. \A u \in Tasks \ {t} : ~ Brings(u, "register")' /\ ~ Brings(u, "refresh")'
    BY <1>4, <1>10, OthersBring
  <2>3. QED
    BY <2>1, <2>2
<1>13. Agreed'
  BY <1>3, <1>4, <1>6, <1>7, <1>8, <1>9, <1>12 DEF Agreed
<1>14. Abroad => jar.cookie = Own.cookie_value
  BY <1>8, <1>10 DEF CookieFits
<1>15. CookieFits'
  BY <1>4, <1>6, <1>7, <1>12, <1>14 DEF CookieFits
<1>16. ASSUME NEW u \in Tasks \ {t}, handler[u] # Absent
       PROVE  handler[u].next = "get_binding" => LetIn(u)'
  <2>1. PICK k : k = handler[u]
    OBVIOUS
  <2>2. k.req.route = "account" /\ InFlight(u)
    BY <1>3, <1>16, <2>1, PagesBeside DEF InFlight
  <2>3. /\ Serves(u)
        /\ k.req.route # "login" => k.user = users[jar.sid]
    BY <1>16, <2>1, OnCourse
  <2>4. ASSUME k.next = "get_binding" PROVE LetIn(u)'
    <3>1. LetIn(u) /\ handler'[u] = k /\ call'[u] = call[u]
      BY <1>4, <2>1, <2>3, <2>4 DEF Serves
    <3>2. CASE call[u] # Absent
      BY <1>4, <2>1, <3>1, <3>2 DEF LetIn
    <3>3. CASE call[u] = Absent
      <4>1. Own # Absent
        BY <1>5, <1>6, RecordsAreRecords DEF IsRecord
      <4>2. /\ Welcome(k, Own, left[u] + Latency)
            /\ k.req.document => offered = NoNonce /\ ~ Flying("register")
            /\ k.req.cookie # NoNonce =>
                  /\ jar.cookie # NoNonce
                  /\ \/ /\ k.req.cookie = jar.cookie
                        /\ left[u] + profile.margin < jar.until
                     \/ left[u] + Ticks(CookieMaxAge) <= jar.until
        BY <2>1, <3>1, <3>3, <4>1 DEF LetIn
      <4>3. Welcome(k, b, left[u] + Latency)
        <5>1. CASE k.req.cookie = NoNonce
          BY <1>7, <4>2, <5>1
          DEF Welcome, admitted, bound_cookie_matches,
              is_within_registration_grace
        <5>2. CASE k.req.cookie # NoNonce
          <6>1. /\ k.req.cookie = jar.cookie /\ jar.cookie # NoNonce
                /\ left[u] + profile.margin < jar.until
                /\ jar.cookie = Own.cookie_value /\ left[u] \in Nat
            BY <1>3, <1>14, <2>2, <4>2, <5>2, PageBesideRefresh DEF OInv, Timely
          <6>2. ASSUME NEW at \in Nat, Ticks(at) <= left[u] + Latency
                PROVE  /\ k.req.cookie = b.previous_cookie_value
                       /\ at < b.previous_cookie_expires_at
            BY <1>1, <1>3, <1>5, <1>6, <1>9, <6>1, <6>2, OverlapLetsIn
          <6>3. same_user(b.user_id, k.user)
            BY <1>7, <1>9, <2>2, <2>3 DEF same_user
          <6>4. QED
            BY <5>2, <6>2, <6>3 DEF Welcome, admitted, bound_cookie_matches
        <5>3. QED
          BY <5>1, <5>2
      <4>4. QED
        BY <1>4, <1>6, <2>1, <3>1, <3>3, <4>2, <4>3 DEF LetIn
    <3>4. QED
      BY <3>2, <3>3
  <2>5. QED
    BY <2>1, <2>2, <2>3, <2>4
<1>17. Serves(t)'
  <2>1. Course(t)'
    BY <1>1, <1>3, <1>4, <1>11 DEF Course, Courses
  <2>2. Refreshing(t)'
    BY <1>1, <1>3, <1>4, <1>9, RefreshWorks
  <2>3. QED
    BY <1>1, <1>3, <2>1, <2>2 DEF Serves
<1>18. QED
  BY <1>1, <1>3, <1>13, <1>15, <1>16, <1>17, ServedVisit

\* A step of a login or a logout: nothing else is in flight.
LEMMA ServedAlone ==
    ASSUME AInv, NEW t \in Tasks, served(t), NEW h, h = handler[t],
           h.req.route \in {"login", "logout"}
    PROVE  /\ h # Absent /\ h.next \in {"offer", "revoke"}
           /\ h.req.route = "logout" => h.next = "revoke"
           /\ \A u \in Tasks \ {t} :
                 /\ handler[u] = Absent /\ reply[u] = Absent
                 /\ handler'[u] = Absent /\ reply'[u] = Absent
           /\ \A s \in Sessions : binding[s] = Absent => binding'[s] = Absent
           /\ call[t] # Absent => call[t].op = h.next
           /\ handler'[t] # Absent =>
                 /\ handler'[t].next \in {"offer", "revoke"}
                 /\ call'[t] # Absent => call'[t].op = handler'[t].next
                 /\ h.req.route = "logout" =>
                       /\ users' = users /\ handler'[t].next = "revoke"
                       /\ handler'[t].sid = h.sid /\ handler'[t].user = h.user
                       /\ handler'[t].deletes = h.deletes
           /\ handler'[t] = Absent =>
                 /\ call[t] # Absent /\ call[t].op = h.next
                 /\ h.next = "offer" => users' = users
                 /\ h.next = "revoke" =>
                       /\ h.req.route = "logout"
                       /\ users' = [users EXCEPT ![h.sid] = Unknown]
<1> USE BrowserFacts
<1>1. h # Absent /\ HostStep(t)
  BY ServedFrame
<1>2. /\ h.next \in {"offer", "revoke"} /\ h \in Handlers
      /\ h.req.route = "logout" => h.next = "revoke"
      /\ On(t, h.req.route)
  <2>1. Course(t) /\ h \in Handlers /\ On(t, h.req.route)
    BY <1>1, OnCourse
  <2>2. QED
    BY <2>1 DEF Course, Courses
<1>3. call[t] # Absent => call[t] \in Calls /\ call[t].op = h.next
  <2>1. call[t] # Absent =>
           /\ call[t] \in Calls
           /\ call[t].op \in {"offer", "register", "issue", "refresh"} =>
                 h.next = call[t].op
           /\ call[t].op = "advertise" => h.req.route = "account"
           /\ call[t].op = "revoke" => h.next = "revoke"
    BY <1>1, OnCourse
  <2>2. QED
    BY <2>1 DEF Calls, Ops
<1>4. ASSUME NEW u \in Tasks \ {t}
      PROVE  /\ handler[u] = Absent /\ reply[u] = Absent
             /\ handler'[u] = Absent /\ reply'[u] = Absent
  <2>1. ~ InFlight(u)
    BY <1>2, AloneInFlight DEF On
  <2>2. QED
    BY <1>4, <2>1, ServedFrame DEF InFlight
<1>5. CASE begins(t)
  <2>1. PICK k : k = handler'[t]
    OBVIOUS
  <2>2. k = [h EXCEPT !.req.jwt = Absent, !.req.id = NoNonce] /\ users' = users
    BY <1>5, <2>1 DEF begins
  <2>3. /\ k.next = h.next /\ k.sid = h.sid /\ k.user = h.user
        /\ k.deletes = h.deletes /\ k # Absent
    <3>1. k \in Handlers /\ k.next = h.next /\ k.sid = h.sid
      BY <1>2, <2>2, BegunHandler
    <3>2. k.user = h.user /\ k.deletes = h.deletes
      BY <1>2, <2>2 DEF Handlers
    <3>3. QED
      BY <3>1, <3>2, NoHandlerAssumption
  <2>4. call'[t].op = h.next
    <3>1. /\ call'[t].op \in Awaits(h.next)
          /\ h.next = "revoke" => call'[t].op = "revoke"
      BY <1>5, BegunCall
    <3>2. QED
      BY <1>2, <3>1 DEF Awaits
  <2>5. binding' = binding
    BY <1>5 DEF begins, build_registration_header_response, register,
       issue_refresh_challenge, refresh, get_binding, revoke, Begin, store
  <2>6. QED
    BY <1>1, <1>2, <1>3, <1>4, <2>1, <2>2, <2>3, <2>4, <2>5
<1>6. CASE works(t)
  <2>1. Works(t) /\ handler' = handler /\ users' = users
    BY <1>6 DEF works, host
  <2>2. call[t] # Absent /\ call'[t].op = call[t].op
    BY <2>1, WorkFields
  <2>3. \A s \in Sessions : binding[s] = Absent => binding'[s] = Absent
    <3>1. call[t].op \in {"offer", "revoke"}
      BY <1>2, <1>3, <2>2
    <3>2. CASE revoke_delete(t)
      BY <3>2 DEF revoke_delete, delete
    <3>3. CASE ~ revoke_delete(t)
      <4>1. binding' = binding
        BY <2>1, <3>1, <3>3
        DEF Works, get, offer_check, offer_put, register_check, register_commit,
            register_loses, issue_check, issue_replace, issue_loses,
            refresh_check, refresh_replace, refresh_loses, advertise_replace,
            advertise_loses, replace_raises, Serving, Mint, Stop, store,
            put_pending_registration
      <4>2. QED
        BY <4>1, SMTT(30)
    <3>4. QED
      BY <3>2, <3>3
  <2>4. QED
    BY <1>1, <1>2, <1>3, <1>4, <2>1, <2>2, <2>3
<1>7. CASE gate(t)
  BY <1>2, <1>7 DEF gate, Handling
<1>8. CASE resumes(t)
  <2>1. call[t] # Absent /\ call'[t] = Absent /\ binding' = binding
    BY <1>8 DEF resumes, answer, Goes, store
  <2>2. call[t].op = h.next
    BY <1>3, <2>1
  <2>3. CASE resumes_offer_or_register(t)
    <3>1. h.next = "offer" /\ handler'[t] = Absent /\ users' = users
      BY <1>2, <2>2, <2>3 DEF resumes_offer_or_register, Serving, Responds
    <3>2. QED
      BY <1>1, <1>2, <1>4, <2>1, <2>2, <3>1
  <2>4. CASE resumes_revoke(t)
    <3>1. /\ h.next = "revoke" /\ handler'[t] = Absent /\ h.req.route = "logout"
          /\ users' = [users EXCEPT ![h.sid] = Unknown]
      BY <2>2, <2>4 DEF resumes_revoke, Serving, Responds
    <3>2. QED
      BY <1>1, <1>2, <1>4, <2>1, <2>2, <3>1
  <2>5. CASE resumes_login(t)
    <3>1. h.next = "revoke" /\ h.req.route = "login"
      BY <2>2, <2>5 DEF resumes_login, Serving
    <3>2. users[h.sid] # Absent
      BY <1>1, <3>1 DEF TrafficOrdered, Handling
    <3>3. Goes_on(t, [h EXCEPT !.sid = h.new, !.user = h.req.login,
                               !.deletes = TRUE, !.next = "offer"])
      BY <2>5, <3>2 DEF resumes_login
    <3>4. handler'[t].next = "offer" /\ handler'[t] # Absent
      <4>1. PICK k : k = [h EXCEPT !.sid = h.new, !.user = h.req.login,
                                   !.deletes = TRUE, !.next = "offer"]
        OBVIOUS
      <4>2. handler'[t] = k
        BY <3>3, <4>1 DEF Goes_on
      <4>3. k.next = "offer"
        BY <1>2, <4>1 DEF Handlers
      <4>4. handler'[t] # Absent
        <5>1. h.new \in Sessions /\ h.req.login \in UserIds
          BY <1>1, <1>2, <3>1, OnCourse DEF Drawn, Handlers, HttpRequests
        <5>2. k \in Handlers
          BY <1>2, <4>1, <5>1 DEF Handlers, Nexts
        <5>3. QED
          BY <4>2, <5>2, NoHandlerAssumption
      <4>5. QED
        BY <4>2, <4>3, <4>4
    <3>5. QED
      BY <1>1, <1>2, <1>3, <1>4, <2>1, <3>1, <3>4
  <2>6. QED
    BY <1>2, <1>8, <2>2, <2>3, <2>4, <2>5
    DEF resumes, resumes_issue, resumes_refresh, resumes_gate, Serving
<1>9. QED
  BY <1>1, <1>5, <1>6, <1>7, <1>8 DEF HostStep

\* A login or a logout: what is left to show of the invariant.
LEMMA ServedEntry ==
    ASSUME AInv, NEW t \in Tasks, served(t), NEW h, h = handler[t],
           h.req.route \in {"login", "logout"},
           JarFits', handler'[t] # Absent => Course(t)',
           handler'[t] = Absent => Returns(reply[t])'
    PROVE  CInv'
<1> USE BrowserFacts
<1>1. /\ UNCHANGED <<jar, device, offered>>
      /\ Networked' /\ Exclusive'
      /\ \A u \in Tasks : \A route : On(u, route)' <=> On(u, route)
      /\ \A route : Flying(route)' <=> Flying(route)
      /\ (Abroad' <=> Abroad)
      /\ handler'[t] = Absent => reply'[t] = response(h, call[t])
      /\ handler'[t] # Absent => reply'[t] = Absent
  BY ServedFrame
<1>2. /\ h # Absent
      /\ \A u \in Tasks \ {t} :
            /\ handler[u] = Absent /\ reply[u] = Absent
            /\ handler'[u] = Absent /\ reply'[u] = Absent
      /\ \A s \in Sessions : binding[s] = Absent => binding'[s] = Absent
      /\ call[t] # Absent => call[t].op = h.next
      /\ h.next \in {"offer", "revoke"}
      /\ handler'[t] # Absent =>
            /\ handler'[t].next \in {"offer", "revoke"}
            /\ call'[t] # Absent => call'[t].op = handler'[t].next
      /\ handler'[t] = Absent => call[t] # Absent
  BY ServedAlone
<1>3. ~ Flying("refresh") /\ ~ Flying("register") /\ On(t, h.req.route)
  BY <1>2 DEF Flying, On, InFlight, RouteOf
<1>4. \A u \in Tasks, op \in {"register", "refresh"} : ~ Brings(u, op)
  BY <1>3, BringsFlies
<1>5. \A u \in Tasks, op \in {"register", "refresh"} : ~ Brings(u, op)'
  <2> TAKE u \in Tasks, op \in {"register", "refresh"}
  <2>1. CASE u # t
    BY <1>2, <2>1 DEF Brings
  <2>2. CASE u = t /\ handler'[t] # Absent
    BY <1>2, <2>2 DEF Brings, Serving
  <2>3. CASE u = t /\ handler'[t] = Absent
    <3>1. reply'[t].route = h.req.route
      BY <1>1, <1>2, <2>3, ResponseFields DEF Ops
    <3>2. QED
      BY <2>3, <3>1 DEF Brings
  <2>4. QED
    BY <2>1, <2>2, <2>3
<1>6. Agreed'
  <2>1. device # Absent => Flying("logout")
    BY <1>2, <1>3 DEF Exclusive, Flying
  <2>2. jar.sid # Absent /\ device = Absent => Own = Absent
    BY <1>4 DEF Agreed
  <2>3. jar.sid # Absent /\ device = Absent => Own' = Absent
    BY <1>1, <1>2, <2>2 DEF Own
  <2>4. QED
    BY <1>1, <1>5, <2>1, <2>3 DEF Agreed
<1>7. CookieFits'
  <2>1. Abroad => Flying("logout")
    BY <1>3 DEF Exclusive, JarFits, Flying, Abroad
  <2>2. QED
    BY <1>1, <1>3, <2>1 DEF CookieFits, Flying
<1>8. \A u \in Tasks : handler'[u] # Absent => Serves(u)'
  BY <1>2 DEF Serves
<1>9. \A u \in Tasks : reply'[u] # Absent => Returns(reply[u])'
  BY <1>1, <1>2
<1>10. QED
  BY <1>1, <1>6, <1>7, <1>8, <1>9 DEF CInv

\* The host serves a login.
LEMMA ServedLogin ==
    ASSUME AInv, NEW t \in Tasks, served(t), NEW h, h = handler[t],
           h.req.route = "login"
    PROVE  CInv'
<1> USE BrowserFacts
<1>1. /\ UNCHANGED <<jar, device, offered>>
      /\ \A route : Flying(route)' <=> Flying(route)
      /\ handler'[t] = Absent =>
            reply'[t] = response(h, call[t]) /\ reply'[t] \in Replies
      /\ HostStep(t)
  BY ServedFrame
<1>2. /\ h # Absent /\ h.next \in {"offer", "revoke"}
      /\ \A s \in Sessions : binding[s] = Absent => binding'[s] = Absent
      /\ handler'[t] # Absent =>
            /\ handler'[t].next \in {"offer", "revoke"}
            /\ call'[t] # Absent => call'[t].op = handler'[t].next
      /\ handler'[t] = Absent =>
            /\ call[t] # Absent /\ call[t].op = h.next
            /\ h.next = "offer" => users' = users
            /\ h.next = "revoke" => h.req.route = "logout"
  BY ServedAlone
<1>3. /\ Course(t) /\ Linked(t) /\ Drawn(t) /\ On(t, "login")
      /\ handler'[t] # Absent =>
            handler'[t].req.route = "login" /\ handler'[t].new = h.new
  BY <1>1, <1>2, OnCourse, HandlerStays
<1>4. h.new \in Sessions /\ binding[h.new] = Absent
  BY <1>2, <1>3 DEF Drawn, Course
<1>5. device = Absent /\ jar.cookie = NoNonce /\ Flying("login")
  BY <1>3 DEF Exclusive, JarFits, Flying
<1>6. JarFits'
  BY <1>1, <1>5 DEF JarFits
<1>7. ASSUME handler'[t] # Absent PROVE Course(t)'
  BY <1>2, <1>3, <1>4, <1>7 DEF Course, Courses
<1>8. ASSUME handler'[t] = Absent PROVE Returns(reply[t])'
  <2>1. PICK r, c : r = reply'[t] /\ c = call[t]
    OBVIOUS
  <2>2. c.op = "offer" /\ users' = users /\ h.next = "offer"
    BY <1>2, <1>8, <2>1
  <2>3. r.route = "login" /\ r.sid = h.new /\ r.cookie = NoNonce
    <3>1. r = response(h, c) /\ c.op \in Ops
      BY <1>1, <1>8, <2>1, <2>2 DEF Ops
    <3>2. /\ r.route = h.req.route
          /\ r.sid = IF /\ c.out = "CorruptStateError"
                        /\ c.op \in {"issue", "advertise"}
                     THEN Absent ELSE h.new
          /\ r.cookie = IF c.op \in {"register", "refresh"} /\ c.out = "ok"
                        THEN c.nonce ELSE NoNonce
      BY <3>1, ResponseFields
    <3>3. QED
      BY <2>2, <3>2
  <2>4. users[h.new] \in Users
    BY <1>2, <1>3, <2>2 DEF Linked
  <2>5. binding'[h.new] = Absent /\ h.new # Absent
    BY <1>2, <1>4
  <2>6. r \in Replies
    BY <1>1, <1>8, <2>1
  <2>7. Returns(r)'
    BY <2>2, <2>3, <2>4, <2>5, <2>6 DEF Returns
  <2>8. QED
    BY <2>1, <2>2, <2>3, <2>4, <2>5, <2>6 DEF Returns
<1>9. QED
  BY <1>6, <1>7, <1>8, ServedEntry

\* The host serves a logout.
LEMMA ServedLogout ==
    ASSUME AInv, NEW t \in Tasks, served(t), NEW h, h = handler[t],
           h.req.route = "logout"
    PROVE  CInv'
<1> USE BrowserFacts
<1>1. /\ UNCHANGED <<jar, device, offered>>
      /\ \A route : Flying(route)' <=> Flying(route)
      /\ handler'[t] = Absent =>
            reply'[t] = response(h, call[t]) /\ reply'[t] \in Replies
      /\ HostStep(t)
  BY ServedFrame
<1>2. /\ h # Absent /\ h.next = "revoke"
      /\ handler'[t] # Absent =>
            /\ call'[t] # Absent => call'[t].op = handler'[t].next
            /\ users' = users /\ handler'[t].next = "revoke"
            /\ handler'[t].sid = h.sid /\ handler'[t].user = h.user
            /\ handler'[t].deletes = h.deletes
      /\ handler'[t] = Absent =>
            /\ call[t] # Absent /\ call[t].op = "revoke"
            /\ users' = [users EXCEPT ![h.sid] = Unknown]
  BY ServedAlone
<1>3. /\ Course(t) /\ On(t, "logout") /\ jar.sid \in Sessions
      /\ h.sid = jar.sid /\ h.new = Absent /\ h.user = users[jar.sid]
      /\ handler'[t] # Absent =>
            handler'[t].req.route = "logout" /\ handler'[t].new = h.new
  BY <1>1, <1>2, OnCourse, HandlerStays
<1>4. ~ Flying("login") /\ Flying("logout") /\ Unknown # Absent
  <2>1. ~ Flying("login")
    BY <1>3 DEF TrafficOrdered, Flying, On
  <2>2. Unknown # Absent
    BY SessionsAssumption DEF UserIds
  <2>3. QED
    BY <1>3, <2>1, <2>2 DEF Flying
<1>5. users[jar.sid] # Absent => users'[jar.sid] # Absent
  BY <1>2, <1>3, <1>4
<1>6. JarFits'
  BY <1>1, <1>4, <1>5 DEF JarFits
<1>7. ASSUME handler'[t] # Absent PROVE Course(t)'
  BY <1>1, <1>2, <1>3, <1>7 DEF Course, Courses
<1>8. ASSUME handler'[t] = Absent PROVE Returns(reply[t])'
  <2>1. PICK r, c : r = reply'[t] /\ c = call[t]
    OBVIOUS
  <2>2. /\ r.route = "logout" /\ r.sid = Absent /\ r.cookie = NoNonce
        /\ r.deletes = TRUE /\ r.offer = NoNonce
    <3>1. r = response(h, c) /\ c.op \in Ops /\ c.op = "revoke"
      BY <1>1, <1>2, <1>8, <2>1 DEF Ops
    <3>2. /\ r.route = h.req.route
          /\ r.sid = IF /\ c.out = "CorruptStateError"
                        /\ c.op \in {"issue", "advertise"}
                     THEN Absent ELSE h.new
          /\ r.offer = IF c.op = "offer" THEN c.nonce ELSE NoNonce
          /\ r.cookie = IF c.op \in {"register", "refresh"} /\ c.out = "ok"
                        THEN c.nonce ELSE NoNonce
          /\ r.deletes = (h.deletes \/ c.op = "revoke")
      BY <3>1, ResponseFields
    <3>3. QED
      BY <1>3, <3>1, <3>2
  <2>3. users'[jar.sid] = Unknown
    BY <1>2, <1>3, <1>8
  <2>4. ~ Inside'
    BY <1>1, <2>3, UnknownAssumption DEF Inside
  <2>5. QED
    BY <1>1, <1>8, <2>1, <2>2, <2>4 DEF Returns
<1>9. QED
  BY <1>6, <1>7, <1>8, ServedEntry

\* The host serves.
LEMMA ServedKeeps ==
    ASSUME AInv, Benign, NEW t \in Tasks, served(t)
    PROVE  CInv'
<1>1. handler[t] # Absent /\ HostStep(t)
  BY ServedFrame
<1>2. CASE handler[t].req.route \in {"login", "logout"}
  BY <1>2, ServedLogin, ServedLogout
<1>3. CASE handler[t].req.route \notin {"login", "logout"}
  <2>1. CASE works(t)
    BY <1>3, <2>1, WorksVisit, RegisterVisit, RotatedVisit, RefreshVisit
  <2>2. QED
    BY <1>1, <1>3, <2>1, BeginsVisit, GateVisit, ResumesVisit DEF HostStep
<1>4. QED
  BY <1>2, <1>3

\* A request is taken up: what that leaves as it is.
LEMMA AskFrame ==
    ASSUME AInv, NEW t \in Tasks, asks(t), NEW req, Presentable(req), sends(t, req)
    PROVE  /\ UNCHANGED <<jar, device, reply, losses, profile, now, call, binding>>
           /\ left'[t] = clock /\ \A u \in Tasks \ {t} : left'[u] = left[u]
           /\ offered' \in {offered, NoNonce}
           /\ ~ InFlight(t) /\ handler[t] = Absent /\ call[t] = Absent
           /\ ~ Flying("login") /\ ~ Flying("logout")
           /\ \A u \in Tasks \ {t} : handler'[u] = handler[u]
           /\ \A u \in Tasks \ {t} : \A route : On(u, route)' <=> On(u, route)
           /\ \A route : On(t, route)' <=> handler'[t] # Absent /\ route = req.route
           /\ \A route : route # req.route => (Flying(route)' <=> Flying(route))
           /\ (Abroad' <=> Abroad) /\ Own' = Own
           /\ \A u \in Tasks, op \in {"register", "refresh"} :
                 /\ Brings(u, op)' <=> Brings(u, op)
                 /\ Brings(u, op) => Brought(u)' = Brought(u) /\ left'[u] = left[u]
           /\ \A s \in Sessions : users[s] # Absent => users'[s] = users[s]
           /\ is_fresh(req) \/ req.route = "login" => NewId \in NewIds
           /\ Networked'
<1> USE BrowserFacts
<1>1. requests(t) /\ offered' \in {offered, NoNonce}
  BY AsksAreRequests
<1>2. /\ UNCHANGED <<jar, device, reply, losses, profile, frac>>
      /\ ~ InFlight(t) /\ ~ Pending("login") /\ ~ Pending("logout")
      /\ handle(t, req)
      /\ left'[t] = clock /\ \A u \in Tasks \ {t} : left'[u] = left[u]
  BY DEF sends
<1>3. UNCHANGED <<now, call, binding>>
  BY <1>2 DEF handle, vars
<1>4. handler[t] = Absent /\ reply[t] = Absent /\ call[t] = Absent
  BY <1>2 DEF InFlight, HInv, HandlersGood, Good
<1>5. ~ Flying("login") /\ ~ Flying("logout")
  BY <1>2, PendingFlies
<1>6. \A u \in Tasks \ {t} : handler'[u] = handler[u]
  BY <1>1, OthersUntouched
<1>7. \A u \in Tasks \ {t} : \A route : On(u, route)' <=> On(u, route)
  BY <1>2, <1>6 DEF On, InFlight, RouteOf
<1>8. handler'[t] # Absent => handler'[t].req.route = req.route
  BY <1>2, TakenUp
<1>9. \A route : On(t, route)' <=> handler'[t] # Absent /\ route = req.route
  BY <1>2, <1>4, <1>8 DEF On, InFlight, RouteOf
<1>10. \A route : route # req.route => (Flying(route)' <=> Flying(route))
  BY <1>2, <1>7, <1>9 DEF Flying, On
<1>11. (Abroad' <=> Abroad) /\ Own' = Own
  BY <1>2, <1>3 DEF Abroad, clock, Own
<1>12. \A u \in Tasks, op \in {"register", "refresh"} :
          /\ Brings(u, op)' <=> Brings(u, op)
          /\ Brings(u, op) => Brought(u)' = Brought(u) /\ left'[u] = left[u]
  <2>1. \A op : ~ Brings(t, op) /\ ~ Brings(t, op)'
    BY <1>2, <1>3, <1>4 DEF Brings, Serving
  <2>2. QED
    BY <1>2, <1>3, <1>6, <2>1, OthersBring
<1>13. is_fresh(req) \/ req.route = "login" => NewId \in NewIds
  BY <1>2 DEF handle, NewId
<1>14. ASSUME NEW s \in Sessions, users[s] # Absent PROVE users'[s] = users[s]
  <2>1. CASE is_fresh(req)
    <3>1. users[NewId] = Absent /\ NewId \in Sessions
      BY <1>13, <2>1 DEF NewIds
    <3>2. PICK user : users' = [users EXCEPT ![NewId] = user]
      BY <1>2, <2>1 DEF handle
    <3>3. QED
      BY <1>14, <3>1, <3>2
  <2>2. CASE ~ is_fresh(req)
    BY <1>2, <2>2 DEF handle
  <2>3. QED
    BY <2>1, <2>2
<1>15. Networked'
  BY <1>2 DEF Networked
<1>16. QED
  BY <1>1, <1>2, <1>3, <1>4, <1>5, <1>6, <1>7, <1>9, <1>10, <1>11, <1>12, <1>13,
     <1>14, <1>15

\* Any request but a login: what is left to show of the invariant.
LEMMA AskVisit ==
    ASSUME AInv, NEW t \in Tasks, asks(t), NEW req, Presentable(req), sends(t, req),
           req.session = jar.sid, jar.sid # Absent, req.route # "login",
           req.route = "register" => offered # NoNonce /\ offered' = NoNonce,
           req.route = "refresh" =>
              /\ device # Absent /\ ~ Flying("refresh")
              /\ jar.cookie # NoNonce =>
                    \/ clock + profile.margin >= jar.until
                    \/ /\ clock + profile.early >= jar.until
                       /\ profile.early > profile.margin,
           handler'[t] # Absent =>
              /\ handler'[t].next \in Courses(req.route)
              /\ handler'[t].req.route = "account" => handler'[t].user \in Users
              /\ handler'[t].next = "get_binding" => LetIn(t)'
              /\ handler'[t].next = "register" => Registering(t)'
              /\ handler'[t].next = "refresh" => Refreshing(t)'
    PROVE  CInv'
<1> USE BrowserFacts
<1>1. /\ UNCHANGED <<jar, device, reply, losses, profile, now, call, binding>>
      /\ left'[t] = clock /\ \A u \in Tasks \ {t} : left'[u] = left[u]
      /\ offered' \in {offered, NoNonce}
      /\ handler[t] = Absent /\ call[t] = Absent
      /\ ~ Flying("login") /\ ~ Flying("logout")
      /\ \A u \in Tasks \ {t} : handler'[u] = handler[u]
      /\ \A u \in Tasks \ {t} : \A route : On(u, route)' <=> On(u, route)
      /\ \A route : On(t, route)' <=> handler'[t] # Absent /\ route = req.route
      /\ \A route : route # req.route => (Flying(route)' <=> Flying(route))
      /\ (Abroad' <=> Abroad) /\ Own' = Own
      /\ \A u \in Tasks, op \in {"register", "refresh"} :
            /\ Brings(u, op)' <=> Brings(u, op)
            /\ Brings(u, op) => Brought(u)' = Brought(u) /\ left'[u] = left[u]
      /\ Networked'
  BY AskFrame
<1>2. handle(t, req) /\ reply[t] = Absent
  BY DEF sends, InFlight
<1>3. users[jar.sid] # Absent /\ jar.sid \in Sessions
  BY <1>1 DEF JarFits
<1>4. ~ is_fresh(req) /\ users' = users
  BY <1>2, <1>3 DEF is_fresh, handle
<1>5. ~ Flying("login")' /\ (Inside' <=> Inside)
  BY <1>1, <1>4 DEF Inside
<1>6. offered # NoNonce => device = Absent /\ ~ Flying("register")
  BY DEF JarFits, Exclusive
<1>7. Exclusive'
  <2>1. \A u, v \in Tasks, route \in {"register", "refresh"} :
           On(u, route)' /\ On(v, route)' => u = v
    <3> TAKE u, v \in Tasks, route \in {"register", "refresh"}
    <3> HAVE On(u, route)' /\ On(v, route)'
    <3>1. CASE route = req.route
      BY <1>1, <1>6, <3>1 DEF Flying
    <3>2. CASE route # req.route
      <4>1. u # t /\ v # t
        BY <1>1, <3>2
      <4>2. On(u, route) /\ On(v, route)
        BY <1>1, <4>1
      <4>3. QED
        BY <4>2 DEF Exclusive
    <3>3. QED
      BY <3>1, <3>2
  <2>2. Flying("register")' => device = Absent /\ offered' = NoNonce
    BY <1>1, <1>6 DEF Exclusive
  <2>3. Flying("refresh")' => device # Absent
    BY <1>1 DEF Exclusive
  <2>4. QED
    BY <1>1, <1>5, <2>1, <2>2, <2>3 DEF Exclusive
<1>8. JarFits'
  BY <1>1, <1>4, <1>5 DEF JarFits
<1>9. Agreed'
  BY <1>1, <1>5 DEF Agreed
<1>10. CookieFits'
  <2>1. ASSUME NEW u \in Tasks, On(u, "refresh")', jar.cookie # NoNonce
        PROVE  \/ left'[u] + profile.margin >= jar.until
               \/ /\ left'[u] + profile.early >= jar.until
                  /\ profile.early > profile.margin
    <3>1. CASE u = t
      BY <1>1, <2>1, <3>1
    <3>2. CASE u # t
      <4>1. On(u, "refresh") /\ left'[u] = left[u]
        BY <1>1, <2>1, <3>2
      <4>2. QED
        BY <2>1, <4>1 DEF CookieFits
    <3>3. QED
      BY <3>1, <3>2
  <2>2. Abroad' => \/ jar.cookie = Own.cookie_value
                   \/ /\ jar.cookie = Own.previous_cookie_value
                      /\ \E u \in Tasks : Brings(u, "refresh")'
    BY <1>1 DEF CookieFits
  <2>3. QED
    BY <1>1, <2>1, <2>2 DEF CookieFits
<1>11. \A route : Courses(route)' = Courses(route)
  BY <1>5 DEF Courses
<1>12. ASSUME NEW u \in Tasks \ {t}, handler'[u] # Absent PROVE Serves(u)'
  <2>1. handler'[u] = handler[u] /\ call'[u] = call[u] /\ Serves(u)
    BY <1>1, <1>12 DEF AInv, CInv
  <2>2. Course(u)'
    BY <1>1, <1>4, <1>11, <2>1 DEF Serves, Course
  <2>3. ASSUME handler[u].next = "get_binding" PROVE LetIn(u)'
    <3>1. LetIn(u)
      BY <2>1, <2>3 DEF Serves
    <3>2. ASSUME call[u] = Absent, handler[u].req.document
          PROVE  offered' = NoNonce /\ ~ Flying("register")'
      <4>1. offered = NoNonce /\ ~ Flying("register")
        BY <3>1, <3>2 DEF LetIn
      <4>2. QED
        BY <1>1, <4>1
    <3>3. QED
      BY <1>1, <2>1, <3>1, <3>2 DEF LetIn
  <2>4. handler[u].next = "register" => Registering(u)'
    BY <2>1 DEF Serves, Registering
  <2>5. handler[u].next = "refresh" /\ Inside => Refreshing(u)'
    BY <1>1, <1>4, <2>1 DEF Serves, Refreshing, Proves
  <2>6. handler[u].next = "issue" /\ Inside => Issuing(u)'
    BY <1>1, <2>1 DEF Serves, Issuing
  <2>7. QED
    BY <1>5, <2>1, <2>2, <2>3, <2>4, <2>5, <2>6 DEF Serves
<1>13. ASSUME handler'[t] # Absent PROVE Serves(t)'
  <2>1. PICK k : k = handler'[t]
    OBVIOUS
  <2>2. /\ call'[t] = Absent /\ k.req.route = req.route /\ k.sid = jar.sid
        /\ k.user = users[jar.sid] /\ k.new = Absent /\ ~ k.deletes
    BY <1>2, <1>4, <1>13, <2>1, TakenUp
  <2>3. Course(t)'
    BY <1>1, <1>4, <1>11, <1>13, <2>1, <2>2 DEF Course
  <2>4. Issuing(t)'
    BY <2>2 DEF Issuing
  <2>5. QED
    BY <1>13, <2>3, <2>4 DEF Serves
<1>14. \A u \in Tasks : reply'[u] # Absent => Returns(reply[u])'
  <2> TAKE u \in Tasks
  <2> HAVE reply'[u] # Absent
  <2>1. Returns(reply[u]) /\ reply' = reply
    BY <1>1 DEF AInv, CInv
  <2>2. QED
    BY <1>1, <1>4, <1>5, <2>1 DEF Returns
<1>15. QED
  BY <1>1, <1>7, <1>8, <1>9, <1>10, <1>12, <1>13, <1>14 DEF CInv

\* A page that is asked for now will be let in.
LEMMA LoadLetIn ==
    ASSUME AInv, Benign, ~ Flying("logout"), Inside, InScope, Own # Absent,
           NEW h, h.req.cookie = presented, h.user = users[jar.sid],
           h.req.document => ~ Flying("register")
    PROVE  Welcome(h, Own, clock + Latency)
<1> USE BrowserFacts
<1>1. /\ jar.sid # Absent /\ jar.sid \in Sessions
      /\ Own \in Binding /\ Own.user_id = users[jar.sid]
  BY OwnReadable DEF Inside
<1>2. CASE device = Absent
  <2>1. PICK t \in Tasks : Brings(t, "register")
    BY <1>1, <1>2 DEF Agreed
  <2>2. /\ left[t] <= LastTick(Own.created_at) /\ Flying("register")
        /\ InFlight(t) /\ Own.created_at \in Nat
    BY <1>1, <2>1, BringsFlies DEF Agreed, On, Binding
  <2>3. \A at \in Nat : Ticks(at) <= clock + Latency =>
           is_within_registration_grace(Own, at)
    BY <2>2, GraceLetsIn
  <2>4. QED
    BY <2>2, <2>3 DEF Welcome, admitted
<1>3. CASE device # Absent
  <2>1. /\ h.req.cookie = jar.cookie /\ jar.cookie # NoNonce
        /\ clock + profile.margin < jar.until
    BY <1>3 DEF InScope, presented, Live
  <2>2. same_user(Own.user_id, h.user)
    BY <1>1 DEF same_user
  <2>3. CASE jar.cookie = Own.cookie_value
    BY <2>1, <2>2, <2>3 DEF Welcome, admitted, bound_cookie_matches
  <2>4. CASE jar.cookie = Own.previous_cookie_value
    <3>1. PICK m \in minted :
             /\ m.nonce = jar.cookie
             /\ Own.previous_cookie_expires_at = m.at + CookieMaxAge
      <4>1. IsRecord(binding[jar.sid])
        BY <1>1, RecordsAreRecords DEF Own
      <4>2. QED
        BY <1>1, <2>1, <2>4, <4>1 DEF RInv, Sound, Dated, Own
    <3>2. \A at \in Nat : Ticks(at) <= clock + Latency =>
             at < Own.previous_cookie_expires_at
      BY <2>1, <3>1, CookieOutlives
    <3>3. QED
      BY <2>1, <2>2, <2>4, <3>2 DEF Welcome, admitted, bound_cookie_matches
  <2>5. Abroad
    <3>1. profile.margin \in Nat /\ Latency \in Nat
      BY NetworkAssumption, HabitsAssumption DEF Networked
    <3>2. QED
      BY <2>1, <3>1 DEF Abroad
  <2>6. QED
    BY <2>3, <2>4, <2>5 DEF CookieFits
<1>4. QED
  BY <1>2, <1>3

\* The user logs in.
LEMMA LogsIn ==
    ASSUME AInv, NEW t \in Tasks, logs_in(t), NEW req, Presentable(req),
           sends(t, req), req.route = "login"
    PROVE  CInv'
<1> USE BrowserFacts
<1>1. asks(t) /\ Idle /\ InScope /\ ~ LoggedIn /\ offered' = offered
  BY DEF asks, logs_in
<1>2. /\ UNCHANGED <<jar, device, reply, now, call, binding>>
      /\ ~ Flying("login") /\ ~ Flying("logout")
      /\ \A u \in Tasks \ {t} : handler'[u] = handler[u]
      /\ \A u \in Tasks \ {t} : \A route : On(u, route)' <=> On(u, route)
      /\ \A route : On(t, route)' <=> handler'[t] # Absent /\ route = "login"
      /\ (Abroad' <=> Abroad) /\ Own' = Own
      /\ \A u \in Tasks, op \in {"register", "refresh"} :
            /\ Brings(u, op)' <=> Brings(u, op)
            /\ Brings(u, op) => Brought(u)' = Brought(u) /\ left'[u] = left[u]
      /\ \A s \in Sessions : users[s] # Absent => users'[s] = users[s]
      /\ NewId \in NewIds
      /\ Networked'
  BY <1>1, AskFrame
<1>3. \A u \in Tasks : ~ InFlight(u) /\ handler[u] = Absent /\ reply[u] = Absent
  BY <1>1 DEF Idle, InFlight
<1>4. device = Absent /\ jar.cookie = NoNonce
  BY <1>1, <1>2 DEF JarFits, InScope, Live, LoggedIn
<1>5. \A u \in Tasks : \A route : On(u, route)' => u = t /\ route = "login"
  BY <1>2, <1>3 DEF On
<1>6. Exclusive'
  BY <1>2, <1>4, <1>5 DEF Exclusive, Flying
<1>7. JarFits'
  BY <1>1, <1>2, <1>4 DEF JarFits
<1>8. Agreed'
  BY <1>2, <1>4 DEF Agreed
<1>9. CookieFits'
  <2>1. ~ Abroad' /\ ~ Flying("refresh")'
    BY <1>2, <1>4, <1>5 DEF Abroad, Flying
  <2>2. QED
    BY <2>1 DEF CookieFits, Flying
<1>10. ASSUME NEW u \in Tasks, handler'[u] # Absent PROVE Serves(u)'
  <2>1. u = t
    BY <1>2, <1>3, <1>10
  <2>2. PICK k : k = handler'[t]
    OBVIOUS
  <2>3. handle(t, req)
    BY DEF sends
  <2>4. /\ call'[t] = Absent /\ k.req.route = "login" /\ k.new = NewId
        /\ k.next = first_call(req, is_fresh(req), k.user)
    BY <1>10, <2>1, <2>2, <2>3, TakenUp
  <2>5. k.next \in {"offer", "revoke"}
    BY <2>4 DEF first_call
  <2>6. NewId \in Sessions /\ users[NewId] = Absent
    BY <1>2 DEF NewIds
  <2>7. Absent \notin Users
    BY DEF UserIds
  <2>8. binding'[NewId] = Absent
    BY <1>2, <2>6, <2>7 DEF LInv, LoggedOutIsUnbound
  <2>9. QED
    BY <2>1, <2>2, <2>4, <2>5, <2>8 DEF Serves, Course, Courses
<1>11. QED
  BY <1>2, <1>3, <1>6, <1>7, <1>8, <1>9, <1>10 DEF CInv

\* A request is made.
LEMMA AsksKeeps ==
    ASSUME AInv, Benign, NEW t \in Tasks, asks(t)
    PROVE  CInv'
<1> USE BrowserFacts
<1>1. PICK req : Presentable(req) /\ sends(t, req) /\ Carries(t, req)
  BY AsksAreRequests
<1>2. handle(t, req) /\ req.session = jar.sid
  BY <1>1 DEF sends, Carries
<1>3. /\ UNCHANGED <<jar, device, now, call, binding>>
      /\ ~ Flying("login") /\ ~ Flying("logout")
      /\ \A route : route # req.route => (Flying(route)' <=> Flying(route))
      /\ Own' = Own /\ left'[t] = clock /\ profile' = profile
      /\ offered' \in {offered, NoNonce}
  BY <1>1, AskFrame
<1>4. PICK k : k = handler'[t]
  OBVIOUS
<1>5. k # Absent =>
         /\ call'[t] = Absent /\ k.req.route = req.route /\ k.next # "none"
         /\ k.next = first_call(req, is_fresh(req), k.user) /\ k \in Handlers
         /\ ~ is_fresh(req) => k.user = users[req.session] /\ users' = users
         /\ k.req.cookie = req.cookie /\ k.req.document = req.document
         /\ k.req.jwt = req.jwt /\ k.req.id = req.id
  BY <1>1, <1>2, <1>4, TakenUp
<1>6. jar.sid # Absent => ~ is_fresh(req) /\ jar.sid \in Sessions
  BY <1>2, <1>3 DEF JarFits, is_fresh
<1>7. CASE logs_in(t) /\ req.route = "login"
  BY <1>1, <1>7, LogsIn
<1>8. CASE logs_out(t) /\ req.route = "logout"
  <2>1. jar.sid # Absent
    BY <1>8 DEF logs_out, LoggedIn
  <2>2. k # Absent => k.next = "revoke"
    BY <1>5, <1>8 DEF first_call
  <2>3. k # Absent => k.next \in Courses(req.route)
    BY <1>8, <2>2 DEF Courses
  <2>4. QED
    BY <1>1, <1>2, <1>4, <1>5, <1>8, <2>1, <2>2, <2>3, AskVisit
<1>9. CASE /\ loads(t) /\ req.route = "account" /\ req.cookie = presented
           /\ Patient /\ req.document => offered = NoNonce /\ ~ Pending("register")
  <2>1. jar.sid # Absent /\ InScope
    BY <1>9 DEF loads
  <2>2. ASSUME k # Absent
        PROVE  /\ k.next = "get_binding" /\ k.user \in Users
               /\ k.next \in Courses(req.route) /\ LetIn(t)'
    <3>1. k.next = "get_binding" /\ k.user # Unknown
      BY <1>5, <1>9, <2>2 DEF first_call
    <3>2. k.user = users[jar.sid] /\ k.user \in Users /\ users' = users
      BY <1>2, <1>5, <1>6, <2>1, <2>2, <3>1 DEF Handlers, UserIds
    <3>3. req.document => offered = NoNonce /\ ~ Flying("register")
      BY <1>9, PendingFlies DEF Benign
    <3>4. Inside
      BY <2>1, <3>2 DEF Inside
    <3>5. Own # Absent => Welcome(k, Own, clock + Latency)
      BY <1>3, <1>5, <1>9, <2>1, <2>2, <3>2, <3>3, <3>4, LoadLetIn
    <3>6. req.cookie # NoNonce => /\ req.cookie = jar.cookie
                                  /\ clock + profile.margin < jar.until
      BY <1>9 DEF presented, Live
    <3>7. LetIn(t)'
      BY <1>3, <1>4, <1>5, <1>9, <2>2, <3>3, <3>5, <3>6 DEF LetIn
    <3>8. k.next \in Courses(req.route)
      BY <1>9, <3>1 DEF Courses
    <3>9. QED
      BY <3>1, <3>2, <3>7, <3>8
  <2>3. QED
    BY <1>1, <1>2, <1>4, <1>5, <1>9, <2>1, <2>2, AskVisit
<1>10. CASE registers(t) /\ req.route = "register" /\ req.jwt.key = key
  <2>1. offered # NoNonce /\ offered' = NoNonce
    BY <1>10 DEF registers
  <2>2. jar.sid # Absent
    BY <2>1 DEF JarFits
  <2>3. ASSUME k # Absent
        PROVE  k.next = "register" /\ k.next \in Courses(req.route) /\ Registering(t)'
    <3>1. k.next = "register"
      BY <1>5, <1>10, <2>3 DEF first_call
    <3>2. Registering(t)'
      BY <1>4, <1>5, <1>10, <2>3 DEF Registering
    <3>3. QED
      BY <1>10, <3>1, <3>2 DEF Courses
  <2>4. QED
    BY <1>1, <1>2, <1>4, <1>5, <1>10, <2>1, <2>2, <2>3, AskVisit
<1>11. CASE /\ refreshes(t) /\ req.route = "refresh" /\ req.id = device.id
            /\ req.jwt # Absent => req.jwt.key = key
  <2>1. /\ device # Absent /\ ~ Pending("refresh")
        /\ ~ Live \/ clock + profile.early >= jar.until
    BY <1>11 DEF refreshes
  <2>2. jar.sid # Absent /\ ~ Flying("refresh")
    BY <2>1, PendingFlies DEF JarFits
  <2>3. jar.cookie # NoNonce =>
           \/ clock + profile.margin >= jar.until
           \/ /\ clock + profile.early >= jar.until
              /\ profile.early > profile.margin
    <3>1. profile.margin \in Nat /\ profile.early \in Nat
      BY HabitsAssumption DEF Networked
    <3>2. QED
      BY <2>1, <3>1 DEF Live
  <2>4. ASSUME k # Absent
        PROVE  /\ k.next \in {"issue", "refresh"} /\ k.next \in Courses(req.route)
               /\ k.next = "refresh" => Refreshing(t)'
    <3>1. k.next = IF req.jwt = Absent THEN "issue" ELSE "refresh"
      BY <1>5, <1>11, <2>4 DEF first_call
    <3>2. k.next = "refresh" => Refreshing(t)'
      BY <1>3, <1>4, <1>5, <1>11, <2>4, <3>1 DEF Refreshing
    <3>3. QED
      BY <1>11, <3>1, <3>2 DEF Courses
  <2>5. QED
    BY <1>1, <1>2, <1>4, <1>5, <1>11, <2>1, <2>2, <2>3, <2>4, AskVisit
<1>12. QED
  BY <1>1, <1>7, <1>8, <1>9, <1>10, <1>11 DEF Carries

\* The reply to t is off the network, received or lost.
Arrived(t) ==
    /\ reply[t] # Absent /\ reply' = [reply EXCEPT ![t] = Absent]
    /\ left' = [left EXCEPT ![t] = 0]
    /\ UNCHANGED <<host_vars, frac>>

\* What that leaves as it is.
LEMMA ArrivalFrame ==
    ASSUME AInv, NEW t \in Tasks, NEW r, r = reply[t], Arrived(t)
    PROVE  /\ UNCHANGED <<now, handler, call, users, binding>> /\ clock' = clock
           /\ \A u \in Tasks \ {t} : left'[u] = left[u]
           /\ handler[t] = Absent /\ reply'[t] = Absent
           /\ Returns(r) /\ On(t, r.route) /\ Flying(r.route)
           /\ \A u \in Tasks \ {t} : reply'[u] = reply[u]
           /\ \A u \in Tasks \ {t} : \A route : On(u, route)' <=> On(u, route)
           /\ \A route : ~ On(t, route)'
           /\ \A route : Flying(route)' => Flying(route)
           /\ \A route : route # r.route => (Flying(route)' <=> Flying(route))
           /\ r.route \in {"register", "refresh"} => ~ Flying(r.route)'
           /\ \A op : Brings(t, op) <=> r.route = op /\ r.cookie # NoNonce
           /\ Brought(t) = r.cookie
           /\ \A op : ~ Brings(t, op)'
           /\ \A u \in Tasks \ {t} : /\ \A op : Brings(u, op)' <=> Brings(u, op)
                                     /\ Brought(u)' = Brought(u)
<1> USE BrowserFacts
<1>1. /\ UNCHANGED <<now, handler, call, users, binding>> /\ clock' = clock
      /\ \A u \in Tasks \ {t} : left'[u] = left[u]
  BY DEF Arrived, host_vars, vars, host, clock
<1>2. handler[t] = Absent /\ reply'[t] = Absent /\ Returns(r)
  BY DEF Arrived, TrafficOrdered, AInv, CInv
<1>3. On(t, r.route) /\ Flying(r.route)
  BY <1>2 DEF Arrived, On, InFlight, RouteOf, Flying
<1>4. \A u \in Tasks \ {t} : reply'[u] = reply[u]
  BY DEF Arrived
<1>5. \A u \in Tasks \ {t} : \A route : On(u, route)' <=> On(u, route)
  BY <1>1, <1>4 DEF On, InFlight, RouteOf
<1>6. \A route : ~ On(t, route)'
  BY <1>1, <1>2 DEF On, InFlight
<1>7. \A route : Flying(route)' => Flying(route)
  BY <1>5, <1>6 DEF Flying
<1>8. \A route : On(t, route) => route = r.route
  BY <1>2 DEF On, RouteOf
<1>9. \A route : route # r.route => (Flying(route)' <=> Flying(route))
  BY <1>5, <1>6, <1>8 DEF Flying
<1>10. r.route \in {"register", "refresh"} => ~ Flying(r.route)'
  BY <1>3, <1>5, <1>6 DEF Exclusive, Flying
<1>11. /\ \A op : Brings(t, op) <=> r.route = op /\ r.cookie # NoNonce
       /\ Brought(t) = r.cookie
       /\ \A op : ~ Brings(t, op)'
  BY <1>1, <1>2 DEF Arrived, Brings, Brought
<1>12. \A u \in Tasks \ {t} : /\ \A op : Brings(u, op)' <=> Brings(u, op)
                              /\ Brought(u)' = Brought(u)
  BY <1>1, <1>4, OthersBring
<1>13. QED
  BY <1>1, <1>2, <1>3, <1>4, <1>5, <1>6, <1>7, <1>9, <1>10, <1>11, <1>12

\* Nothing is kept of a reply but a challenge, or it is lost.
LEMMA ArrivesQuietly ==
    ASSUME AInv, NEW t \in Tasks, NEW r, r = reply[t], Arrived(t),
           r.route \notin {"login", "logout"},
           ~ Brings(t, "register"), Brings(t, "refresh") => ~ Abroad,
           UNCHANGED <<jar, offered, profile>>, losses' \in Nat,
           device' = Absent <=> device = Absent,
           device # Absent => device'.id = device.id
    PROVE  CInv'
<1>1. /\ UNCHANGED <<now, handler, call, users, binding>> /\ clock' = clock
      /\ \A u \in Tasks \ {t} : left'[u] = left[u]
      /\ handler[t] = Absent /\ reply'[t] = Absent /\ On(t, r.route)
      /\ \A u \in Tasks \ {t} : reply'[u] = reply[u]
      /\ \A u \in Tasks \ {t} : \A route : On(u, route)' <=> On(u, route)
      /\ \A route : ~ On(t, route)'
      /\ \A route : Flying(route)' => Flying(route)
      /\ \A op : ~ Brings(t, op)'
      /\ \A u \in Tasks \ {t} : /\ \A op : Brings(u, op)' <=> Brings(u, op)
                                /\ Brought(u)' = Brought(u)
  BY ArrivalFrame
<1> USE BrowserFacts
<1>2. ~ Flying("login") /\ ~ Flying("logout")
  BY <1>1, VisitsAlone
<1>3. (Abroad' <=> Abroad) /\ Own' = Own /\ (Inside' <=> Inside)
  BY <1>1 DEF Abroad, Own, Inside
<1>4. Networked'
  BY DEF Networked
<1>5. Exclusive'
  BY <1>1, <1>2 DEF Exclusive
<1>6. JarFits'
  BY <1>1, <1>2 DEF JarFits
<1>7. Agreed'
  <2>1. \A u \in Tasks : Brings(u, "register")' <=> Brings(u, "register")
    BY <1>1
  <2>2. \A u \in Tasks : Brings(u, "register")' =>
           Brought(u)' = Brought(u) /\ left'[u] = left[u]
    BY <1>1
  <2>3. \A u \in Tasks : Brings(u, "refresh")' =>
           Brings(u, "refresh") /\ Brought(u)' = Brought(u)
    BY <1>1
  <2>4. QED
    BY <1>1, <1>2, <1>3, <2>1, <2>2, <2>3 DEF Agreed
<1>8. CookieFits'
  BY <1>1, <1>2, <1>3 DEF CookieFits
<1>9. ASSUME NEW u \in Tasks, handler'[u] # Absent PROVE Serves(u)'
  <2>1. Serves(u)
    BY <1>1, <1>9 DEF AInv, CInv
  <2>2. \A route : Courses(route)' = Courses(route)
    BY <1>3 DEF Courses
  <2>3. Course(u)'
    BY <1>1, <2>1, <2>2 DEF Serves, Course
  <2>4. handler[u].next = "get_binding" => LetIn(u)'
    <3>1. left'[u] = left[u]
      BY <1>1, <1>9
    <3>2. QED
      BY <1>1, <1>3, <2>1, <3>1 DEF Serves, LetIn
  <2>5. handler[u].next = "register" => Registering(u)'
    BY <1>1, <2>1 DEF Serves, Registering
  <2>6. ASSUME handler[u].next = "refresh", Inside PROVE Refreshing(u)'
    <3>1. device # Absent
      <4>1. On(u, "refresh")
        BY <1>1, <1>9, <2>6, OnCourse
      <4>2. QED
        BY <4>1 DEF Exclusive, Flying
    <3>2. device'.id = device.id /\ Refreshing(u)
      BY <2>1, <2>6, <3>1 DEF Serves
    <3>3. QED
      BY <1>1, <3>2 DEF Refreshing, Proves
  <2>7. handler[u].next = "issue" /\ Inside => Issuing(u)'
    BY <1>1, <1>3, <2>1 DEF Serves, Issuing
  <2>8. QED
    BY <1>1, <1>3, <2>3, <2>4, <2>5, <2>6, <2>7 DEF Serves
<1>10. ASSUME NEW u \in Tasks, reply'[u] # Absent PROVE Returns(reply[u])'
  <2>1. reply'[u] = reply[u] /\ Returns(reply[u])
    BY <1>1, <1>10 DEF AInv, CInv
  <2>2. QED
    BY <1>1, <1>3, <2>1 DEF Returns
<1>11. QED
  BY <1>4, <1>5, <1>6, <1>7, <1>8, <1>9, <1>10 DEF CInv

\* A cookie comes.
LEMMA ArrivesWithCookie ==
    ASSUME AInv, NEW t \in Tasks, NEW r, r = reply[t], Arrived(t),
           UNCHANGED <<profile, losses, offered>>,
           r.route \in {"register", "refresh"}, r.cookie # NoNonce,
           jar.sid # Absent, offered = NoNonce,
           jar'.sid = jar.sid, jar'.cookie = r.cookie,
           jar'.until = clock + Ticks(CookieMaxAge),
           Own \in Binding, Own.cookie_value = r.cookie, Own.public_key = key,
           device' # Absent, device'.id = Own.session_identifier
    PROVE  CInv'
<1> USE BrowserFacts
<1>1. /\ UNCHANGED <<now, handler, call, users, binding>> /\ clock' = clock
      /\ \A u \in Tasks \ {t} : left'[u] = left[u]
      /\ handler[t] = Absent /\ reply'[t] = Absent /\ On(t, r.route)
      /\ \A u \in Tasks \ {t} : reply'[u] = reply[u]
      /\ \A route : Flying(route)' => Flying(route)
      /\ ~ Flying(r.route)'
      /\ \A op : ~ Brings(t, op)'
      /\ \A u \in Tasks \ {t} : \A op : Brings(u, op)' <=> Brings(u, op)
  BY ArrivalFrame
<1>2. ~ Flying("login") /\ ~ Flying("logout")
  BY <1>1, VisitsAlone
<1>3. Inside /\ (Inside' <=> Inside) /\ Own' = Own
  BY <1>1, <1>2, OwnReadable DEF Inside, Own
<1>4. \A u \in Tasks : left[u] + Ticks(CookieMaxAge) <= jar'.until
  BY Lifetimes, TickFacts DEF OInv, Timely
<1>5. ~ Flying("register")' /\ ~ Flying("refresh")'
  BY <1>1 DEF Exclusive, Flying
<1>6. \A u \in Tasks, op \in {"register", "refresh"} : ~ Brings(u, op)'
  BY <1>1, PagesBeside
<1>7. Networked'
  BY DEF Networked
<1>8. Exclusive'
  BY <1>1, <1>2, <1>5 DEF Exclusive, Flying
<1>9. JarFits'
  BY <1>1, <1>2, <1>3 DEF JarFits, Inside
<1>10. Agreed'
  BY <1>3, <1>6 DEF Agreed
<1>11. CookieFits'
  BY <1>3, <1>5 DEF CookieFits, Flying
<1>12. ASSUME NEW u \in Tasks, handler'[u] # Absent PROVE Serves(u)'
  <2>1. Serves(u) /\ u # t /\ handler[u] # Absent
    BY <1>1, <1>12 DEF AInv, CInv
  <2>2. handler[u].req.route = "account"
    BY <1>1, <2>1, PagesBeside
  <2>3. handler[u].next \notin {"register", "refresh", "issue"}
    <3>1. PICK h : h = handler[u]
      OBVIOUS
    <3>2. /\ h.next = "register" => h.req.route = "register"
          /\ h.next \in {"issue", "refresh"} => h.req.route = "refresh"
      BY <2>1, <3>1, OnCourse
    <3>3. QED
      BY <2>2, <3>1, <3>2
  <2>4. \A route : Courses(route)' = Courses(route)
    BY <1>3 DEF Courses
  <2>5. Course(u)'
    BY <1>1, <2>1, <2>4 DEF Serves, Course
  <2>6. handler[u].next = "get_binding" => LetIn(u)'
    BY <1>1, <1>3, <1>4, <1>5, <2>1 DEF Serves, LetIn
  <2>7. QED
    BY <1>1, <2>3, <2>5, <2>6 DEF Serves
<1>13. ASSUME NEW u \in Tasks, reply'[u] # Absent PROVE Returns(reply[u])'
  <2>1. reply'[u] = reply[u] /\ Returns(reply[u])
    BY <1>1, <1>13 DEF AInv, CInv
  <2>2. QED
    BY <1>1, <1>3, <2>1 DEF Returns
<1>14. QED
  BY <1>7, <1>8, <1>9, <1>10, <1>11, <1>12, <1>13 DEF CInv

\* What the browser keeps of a reply.
LEMMA KeptOfReply ==
    ASSUME AInv, NEW t \in Tasks, receives(t), NEW r, r = reply[t]
    PROVE  /\ Arrived(t) /\ Returns(r) /\ r \in Replies
           /\ UNCHANGED <<losses, profile>>
           /\ offered' = IF r.offer # NoNonce THEN r.offer ELSE offered
           /\ jar'.sid = IF r.sid # Absent THEN r.sid ELSE jar.sid
           /\ r.cookie # NoNonce =>
                 jar'.cookie = r.cookie /\ jar'.until = clock + Ticks(CookieMaxAge)
           /\ r.cookie = NoNonce /\ r.deletes => jar'.cookie = NoNonce
           /\ r.cookie = NoNonce /\ ~ r.deletes => jar'.cookie = jar.cookie
           /\ r.sid = Absent /\ r.cookie = NoNonce /\ ~ r.deletes => jar' = jar
           /\ r.route = "register" /\ r.id # NoNonce =>
                 device' # Absent /\ device'.id = r.id
           /\ r.route = "refresh" /\ r.status = "refused" => device' = Absent
           /\ ~ (r.route = "register" /\ r.id # NoNonce)
              /\ ~ (r.route = "refresh" /\ r.status = "refused") =>
                 /\ device' = Absent <=> device = Absent
                 /\ device # Absent => device'.id = device.id
<1> USE BrowserFacts
<1>1. /\ r # Absent /\ Arrived(t) /\ UNCHANGED <<losses, profile>>
      /\ jar' = stored(r) /\ device' = remembered(r)
      /\ offered' = IF r.offer # NoNonce THEN r.offer ELSE offered
  BY DEF receives, Arrived
<1>2. Returns(r) /\ r \in Replies
  BY <1>1 DEF AInv, CInv, Returns
<1>3. PICK j : j = IF r.sid # Absent THEN [jar EXCEPT !.sid = r.sid] ELSE jar
  OBVIOUS
<1>4. /\ j.sid = IF r.sid # Absent THEN r.sid ELSE jar.sid
      /\ j.cookie = jar.cookie
      /\ DOMAIN j = {"sid", "cookie", "until"}
  BY <1>3 DEF Keeps
<1>5. stored(r) = IF r.cookie # NoNonce
                  THEN [j EXCEPT !.cookie = r.cookie, !.until = clock + Ticks(CookieMaxAge)]
                  ELSE IF r.deletes THEN [j EXCEPT !.cookie = NoNonce, !.until = 0]
                  ELSE j
  BY <1>3 DEF stored
<1>6. /\ jar'.sid = IF r.sid # Absent THEN r.sid ELSE jar.sid
      /\ r.cookie # NoNonce =>
            jar'.cookie = r.cookie /\ jar'.until = clock + Ticks(CookieMaxAge)
      /\ r.cookie = NoNonce /\ r.deletes => jar'.cookie = NoNonce
      /\ r.cookie = NoNonce /\ ~ r.deletes => jar'.cookie = jar.cookie
      /\ r.sid = Absent /\ r.cookie = NoNonce /\ ~ r.deletes => jar' = jar
  BY <1>1, <1>3, <1>4, <1>5
<1>7. r.id \in Nat /\ r.challenge \in Nat /\ NoNonce \in Nat
  BY <1>2 DEF Replies, NoNonce
<1>8. CASE r.route = "register" /\ r.id # NoNonce
  <2>1. device' = [id |-> r.id, challenge |-> NoNonce]
    BY <1>1, <1>8 DEF remembered
  <2>2. device' \in Devices /\ device'.id = r.id
    BY <1>7, <2>1 DEF Devices
  <2>3. device' # Absent
    BY <2>2, NothingAssumption
  <2>4. QED
    BY <1>1, <1>2, <1>6, <1>8, <2>2, <2>3
<1>9. CASE r.route = "refresh" /\ r.status = "refused"
  BY <1>1, <1>2, <1>6, <1>9 DEF remembered
<1>10. CASE /\ ~ (r.route = "register" /\ r.id # NoNonce)
            /\ ~ (r.route = "refresh" /\ r.status = "refused")
  <2>1. CASE device # Absent /\ r.challenge # NoNonce /\ r.id = device.id
    <3>1. device' = [device EXCEPT !.challenge = r.challenge]
      BY <1>1, <1>10, <2>1 DEF remembered
    <3>2. device \in [id : PresentedIds, challenge : used \union {NoNonce}]
      BY <2>1 DEF Keeps
    <3>3. device'.id = device.id /\ device' \in Devices
      BY <1>7, <2>1, <3>1, <3>2 DEF Devices
    <3>4. device' # Absent
      BY <3>3, NothingAssumption
    <3>5. QED
      BY <1>1, <1>2, <1>6, <1>10, <2>1, <3>3, <3>4
  <2>2. CASE ~ (device # Absent /\ r.challenge # NoNonce /\ r.id = device.id)
    <3>1. device' = device
      BY <1>1, <1>10, <2>2 DEF remembered
    <3>2. QED
      BY <1>1, <1>2, <1>6, <1>10, <3>1
  <2>3. QED
    BY <2>1, <2>2
<1>11. QED
  BY <1>8, <1>9, <1>10

\* The reply to a login or a logout arrives.
LEMMA ReceivesEntry ==
    ASSUME AInv, NEW t \in Tasks, receives(t), NEW r, r = reply[t],
           r.route \in {"login", "logout"}
    PROVE  CInv'
<1> USE BrowserFacts
<1>1. /\ Arrived(t) /\ Returns(r) /\ r \in Replies
      /\ UNCHANGED <<losses, profile>>
      /\ offered' = IF r.offer # NoNonce THEN r.offer ELSE offered
      /\ jar'.sid = IF r.sid # Absent THEN r.sid ELSE jar.sid
      /\ r.cookie = NoNonce /\ r.deletes => jar'.cookie = NoNonce
      /\ r.cookie = NoNonce /\ ~ r.deletes => jar'.cookie = jar.cookie
      /\ device' = Absent <=> device = Absent
  BY KeptOfReply
<1>2. /\ UNCHANGED <<now, handler, call, users, binding>>
      /\ handler[t] = Absent /\ reply'[t] = Absent /\ On(t, r.route)
      /\ \A u \in Tasks \ {t} : reply'[u] = reply[u]
      /\ \A route : ~ On(t, route)'
      /\ \A op : ~ Brings(t, op)'
      /\ \A op : Brings(t, op) <=> r.route = op /\ r.cookie # NoNonce
  BY <1>1, ArrivalFrame
<1>3. ASSUME NEW u \in Tasks
      PROVE  /\ handler'[u] = Absent /\ reply'[u] = Absent
             /\ \A op : ~ Brings(u, op)'
             /\ \A op \in {"register", "refresh"} : ~ Brings(u, op)
             /\ \A route : ~ On(u, route)'
  <2>1. CASE u = t
    BY <1>2, <2>1
  <2>2. CASE u # t
    <3>1. ~ InFlight(u)
      BY <1>2, <1>3, <2>2, AloneInFlight DEF On
    <3>2. QED
      BY <1>2, <2>2, <3>1 DEF InFlight, Brings, On
  <2>3. QED
    BY <2>1, <2>2
<1>4. \A route : ~ Flying(route)'
  BY <1>3 DEF Flying
<1>5. Networked' /\ Exclusive'
  BY <1>1, <1>4, <1>3 DEF Networked, Exclusive
<1>6. jar'.cookie = NoNonce
  <2>1. CASE r.route = "login"
    <3>1. device = Absent /\ jar.cookie = NoNonce
      BY <1>2, <2>1 DEF Exclusive, JarFits, Flying
    <3>2. QED
      BY <1>1, <2>1, <3>1 DEF Returns
  <2>2. CASE r.route = "logout"
    BY <1>1, <2>2 DEF Returns
  <2>3. QED
    BY <2>1, <2>2
<1>7. CASE r.route = "login"
  <2>1. /\ device' = Absent /\ jar'.sid = r.sid /\ r.sid # Absent
        /\ users'[jar'.sid] \in Users /\ Own' = Absent
    BY <1>1, <1>2, <1>7 DEF Exclusive, Flying, Returns, Own
  <2>2. JarFits'
    BY <1>6, <2>1 DEF JarFits, UserIds
  <2>3. Agreed' /\ CookieFits'
    BY <1>3, <1>4, <1>6, <2>1 DEF Agreed, CookieFits, Abroad
  <2>4. QED
    BY <1>3, <1>5, <2>2, <2>3 DEF CInv
<1>8. CASE r.route = "logout"
  <2>1. jar'.sid = jar.sid /\ offered' = offered /\ ~ Inside
    BY <1>1, <1>8 DEF Returns
  <2>2. ~ Flying("login")
    BY <1>2, <1>8 DEF TrafficOrdered, Flying, On
  <2>3. JarFits'
    BY <1>1, <1>2, <1>6, <2>1, <2>2 DEF JarFits
  <2>4. jar.sid # Absent /\ device' = Absent => Own' = Absent
    BY <1>1, <1>2, <1>3, <2>1 DEF Agreed, Own
  <2>5. ~ Inside'
    BY <1>2, <2>1 DEF Inside
  <2>6. Agreed' /\ CookieFits'
    BY <1>3, <1>4, <1>6, <2>1, <2>4, <2>5 DEF Agreed, CookieFits, Abroad
  <2>7. QED
    BY <1>3, <1>5, <2>3, <2>6 DEF CInv
<1>9. QED
  BY <1>7, <1>8

\* The reply to a refresh ends the session that is over.
LEMMA ReceivesRefusal ==
    ASSUME AInv, NEW t \in Tasks, receives(t), NEW r, r = reply[t],
           r.route = "refresh", r.status = "refused" \/ r.deletes
    PROVE  CInv'
<1> USE BrowserFacts
<1>1. /\ Arrived(t) /\ Returns(r) /\ UNCHANGED <<losses, profile>>
      /\ offered' = IF r.offer # NoNonce THEN r.offer ELSE offered
      /\ jar'.sid = IF r.sid # Absent THEN r.sid ELSE jar.sid
      /\ r.cookie = NoNonce /\ r.deletes => jar'.cookie = NoNonce
      /\ r.cookie = NoNonce /\ ~ r.deletes => jar'.cookie = jar.cookie
  BY KeptOfReply
<1>2. /\ UNCHANGED <<now, handler, call, users, binding>>
      /\ handler[t] = Absent /\ reply'[t] = Absent /\ On(t, r.route)
      /\ \A u \in Tasks \ {t} : reply'[u] = reply[u]
      /\ \A route : Flying(route)' => Flying(route)
      /\ ~ Flying(r.route)'
      /\ \A op : Brings(t, op) <=> r.route = op /\ r.cookie # NoNonce
      /\ \A op : ~ Brings(t, op)'
      /\ \A u \in Tasks \ {t} : \A op : Brings(u, op)' <=> Brings(u, op)
  BY <1>1, ArrivalFrame
<1>3. /\ ~ Inside /\ r.sid = Absent /\ r.offer = NoNonce
      /\ jar'.sid = jar.sid /\ offered' = offered
  BY <1>1 DEF Returns
<1>4. /\ ~ Flying("login") /\ ~ Flying("logout") /\ ~ Flying("register")
      /\ device # Absent /\ jar.sid # Absent /\ offered = NoNonce
  BY <1>2, VisitsAlone DEF Exclusive, JarFits, Flying
<1>5. jar.cookie = NoNonce /\ Own = Absent
  BY <1>3, <1>4, OwnReadable DEF JarFits, Inside
<1>6. r.cookie = NoNonce
  BY <1>2, <1>5, RecordsAreRecords DEF Agreed, IsRecord
<1>7. jar'.cookie = NoNonce /\ Own' = Absent /\ ~ Inside'
  BY <1>1, <1>2, <1>3, <1>5, <1>6 DEF Own, Inside
<1>8. \A u \in Tasks, op \in {"register", "refresh"} : ~ Brings(u, op)'
  BY <1>2, PagesBeside
<1>9. Networked' /\ Exclusive'
  BY <1>1, <1>2, <1>4 DEF Networked, Exclusive, Flying
<1>10. JarFits'
  BY <1>2, <1>3, <1>4, <1>7 DEF JarFits
<1>11. Agreed' /\ CookieFits'
  BY <1>2, <1>7, <1>8 DEF Agreed, CookieFits, Abroad
<1>12. \A u \in Tasks : handler'[u] = Absent
  <2> SUFFICES ASSUME NEW u \in Tasks, handler[u] # Absent PROVE FALSE
    BY <1>2
  <2>1. handler[u].req.route = "account" /\ Course(u)
    BY <1>2, PagesBeside, OnCourse
  <2>2. QED
    BY <1>3, <1>4, <2>1 DEF Course, Inside
<1>13. ASSUME NEW u \in Tasks, reply'[u] # Absent PROVE Returns(reply[u])'
  <2>1. reply'[u] = reply[u] /\ Returns(reply[u])
    BY <1>2, <1>13 DEF AInv, CInv
  <2>2. QED
    BY <1>2, <1>3, <1>7, <2>1 DEF Returns
<1>14. QED
  BY <1>9, <1>10, <1>11, <1>12, <1>13 DEF CInv

\* A reply arrives.
LEMMA ReceivesKeeps ==
    ASSUME AInv, NEW t \in Tasks, receives(t)
    PROVE  CInv'
<1> USE BrowserFacts
<1>1. PICK r : r = reply[t]
  OBVIOUS
<1>2. /\ Arrived(t) /\ Returns(r) /\ r \in Replies
      /\ UNCHANGED <<losses, profile>>
      /\ offered' = IF r.offer # NoNonce THEN r.offer ELSE offered
      /\ jar'.sid = IF r.sid # Absent THEN r.sid ELSE jar.sid
      /\ r.cookie # NoNonce =>
            jar'.cookie = r.cookie /\ jar'.until = clock + Ticks(CookieMaxAge)
      /\ r.sid = Absent /\ r.cookie = NoNonce /\ ~ r.deletes => jar' = jar
      /\ r.route = "register" /\ r.id # NoNonce =>
            device' # Absent /\ device'.id = r.id
      /\ ~ (r.route = "register" /\ r.id # NoNonce)
         /\ ~ (r.route = "refresh" /\ r.status = "refused") =>
            /\ device' = Absent <=> device = Absent
            /\ device # Absent => device'.id = device.id
  BY <1>1, KeptOfReply
<1>3. /\ On(t, r.route)
      /\ \A op : Brings(t, op) <=> r.route = op /\ r.cookie # NoNonce
      /\ Brought(t) = r.cookie
  BY <1>1, <1>2, ArrivalFrame
<1>4. r.route # "login" =>
         jar'.sid = jar.sid /\ offered' = offered /\ r.sid = Absent
  BY <1>2 DEF Returns
<1>5. losses \in Nat
  BY DEF Networked
<1>6. CASE r.route \in {"login", "logout"}
  BY <1>1, <1>6, ReceivesEntry
<1>7. CASE r.route = "account"
  <2>1. r.cookie = NoNonce /\ ~ r.deletes
    BY <1>2, <1>7 DEF Returns
  <2>2. QED
    BY <1>1, <1>2, <1>3, <1>4, <1>5, <1>7, <2>1, ArrivesQuietly
<1>8. CASE r.route = "register"
  <2>1. ~ r.deletes /\ r.id = r.cookie
    BY <1>2, <1>8 DEF Returns
  <2>2. CASE r.cookie = NoNonce
    BY <1>1, <1>2, <1>3, <1>4, <1>5, <1>8, <2>1, <2>2, ArrivesQuietly
  <2>3. CASE r.cookie # NoNonce
    <3>1. /\ Own \in Binding /\ Own.session_identifier = r.cookie
          /\ Own.cookie_value = r.cookie /\ Own.public_key = key
      BY <1>3, <1>8, <2>3 DEF Agreed
    <3>2. jar.sid # Absent /\ offered = NoNonce
      BY <1>3, <1>8 DEF Exclusive, Flying
    <3>3. QED
      BY <1>1, <1>2, <1>4, <1>8, <2>1, <2>3, <3>1, <3>2, ArrivesWithCookie
  <2>4. QED
    BY <2>2, <2>3
<1>9. CASE r.route = "refresh"
  <2>1. CASE r.status = "refused" \/ r.deletes
    BY <1>1, <1>9, <2>1, ReceivesRefusal
  <2>2. CASE r.status # "refused" /\ ~ r.deletes /\ r.cookie = NoNonce
    BY <1>1, <1>2, <1>3, <1>4, <1>5, <1>9, <2>2, ArrivesQuietly
  <2>3. CASE r.status # "refused" /\ ~ r.deletes /\ r.cookie # NoNonce
    <3>1. Own \in Binding /\ Own.cookie_value = r.cookie
      BY <1>3, <1>9, <2>3 DEF Agreed
    <3>2. /\ device # Absent /\ jar.sid # Absent /\ offered = NoNonce
          /\ ~ Flying("logout")
      BY <1>3, <1>9, VisitsAlone DEF Exclusive, JarFits, Flying
    <3>3. Own.session_identifier = device.id /\ Own.public_key = key
      BY <3>1, <3>2, OwnReadable DEF Agreed
    <3>4. QED
      BY <1>1, <1>2, <1>4, <1>9, <2>3, <3>1, <3>2, <3>3, ArrivesWithCookie
  <2>4. QED
    BY <2>1, <2>2, <2>3
<1>10. QED
  BY <1>2, <1>6, <1>7, <1>8, <1>9 DEF Returns, Replies, Routes

\* A reply is lost.
LEMMA LosesKeeps ==
    ASSUME AInv, Benign, NEW t \in Tasks, loses(t)
    PROVE  CInv'
<1> USE BrowserFacts
<1>1. PICK r : r = reply[t]
  OBVIOUS
<1>2. /\ Arrived(t) /\ r.route \in Lossy /\ losses < profile.losses
      /\ losses' = losses + 1 /\ clock - left[t] >= Latency
      /\ UNCHANGED <<jar, device, offered, profile>>
  BY <1>1 DEF loses, browser, Arrived
<1>3. r.route \in {"refresh", "account"}
  BY <1>2 DEF Benign
<1>4. /\ On(t, r.route)
      /\ \A op : Brings(t, op) <=> r.route = op /\ r.cookie # NoNonce
  BY <1>1, <1>2, ArrivalFrame
<1>5. losses' \in Nat /\ ~ (profile.early > profile.margin)
  <2>1. losses \in Nat /\ profile \in Profiles /\ profile.losses \in Nat
    BY HabitsAssumption DEF Networked
  <2>2. profile.losses # 0
    BY <1>2, <2>1
  <2>3. QED
    BY <1>2, <2>1, <2>2 DEF Benign
<1>6. r.route = "refresh" => ~ Abroad
  <2> SUFFICES ASSUME r.route = "refresh", jar.cookie # NoNonce
               PROVE  ~ Abroad
    BY DEF Abroad
  <2>1. left[t] + profile.margin >= jar.until
    BY <1>4, <1>5 DEF CookieFits
  <2>2. left[t] \in Nat /\ Latency \in Nat /\ profile.margin \in Nat
    BY HabitsAssumption, NetworkAssumption DEF OInv, Timely, Networked
  <2>3. QED
    BY <1>2, <2>1, <2>2 DEF Abroad
<1>7. /\ r.route \notin {"login", "logout"} /\ ~ Brings(t, "register")
      /\ Brings(t, "refresh") => ~ Abroad
      /\ device' = Absent <=> device = Absent
      /\ device # Absent => device'.id = device.id
  BY <1>2, <1>3, <1>4, <1>6
<1>8. QED
  BY <1>1, <1>2, <1>5, <1>7, ArrivesQuietly

\* A tick passes, or nothing happens.
LEMMA WaitsKeeps ==
    ASSUME AInv, Benign, waits \/ UNCHANGED browser_vars
    PROVE  CInv'
<1> USE BrowserFacts
<1>1. /\ UNCHANGED <<jar, device, offered, handler, call, reply, left, users,
                     losses, profile>>
      /\ clock' \in {clock, clock + 1}
  BY WaitsTimely DEF AInv
<1>2. binding' = binding
  BY DEF waits, Elsewhere, Tick, Disturb, Benign, browser_vars, host_vars, vars,
         store
<1>3. \A u \in Tasks : \A route : On(u, route)' <=> On(u, route)
  BY <1>1 DEF On, InFlight, RouteOf
<1>4. \A route : Flying(route)' <=> Flying(route)
  BY <1>3 DEF Flying
<1>5. Networked' /\ Exclusive' /\ JarFits'
  BY <1>1, <1>3, <1>4 DEF Networked, Exclusive, JarFits
<1>6. Own' = Own /\ (Inside' <=> Inside)
  BY <1>1, <1>2 DEF Own, Inside
<1>7. \A u \in Tasks : /\ \A op : Brings(u, op)' <=> Brings(u, op)
                      /\ Brought(u)' = Brought(u)
  BY <1>1 DEF Brings, Brought, Serving
<1>8. Abroad' => Abroad
  <2>1. profile.margin \in Nat /\ Latency \in Nat
    BY HabitsAssumption, NetworkAssumption DEF Networked
  <2>2. QED
    BY <1>1, <2>1 DEF Abroad
<1>9. Agreed'
  BY <1>1, <1>4, <1>6, <1>7 DEF Agreed
<1>10. CookieFits'
  BY <1>1, <1>3, <1>4, <1>6, <1>7, <1>8 DEF CookieFits
<1>11. ASSUME NEW u \in Tasks, handler'[u] # Absent PROVE Serves(u)'
  <2>1. Serves(u)
    BY <1>1, <1>11 DEF AInv, CInv
  <2>2. \A route : Courses(route)' = Courses(route)
    BY <1>6 DEF Courses
  <2>3. Course(u)'
    BY <1>1, <1>2, <2>1, <2>2 DEF Serves, Course
  <2>4. handler[u].next = "get_binding" => LetIn(u)'
    BY <1>1, <1>4, <1>6, <2>1 DEF Serves, LetIn
  <2>5. handler[u].next = "register" => Registering(u)'
    BY <1>1, <2>1 DEF Serves, Registering
  <2>6. handler[u].next = "refresh" /\ Inside => Refreshing(u)'
    BY <1>1, <2>1 DEF Serves, Refreshing, Proves
  <2>7. handler[u].next = "issue" /\ Inside => Issuing(u)'
    BY <1>1, <2>1 DEF Serves, Issuing
  <2>8. QED
    BY <1>1, <1>6, <2>3, <2>4, <2>5, <2>6, <2>7 DEF Serves
<1>12. \A u \in Tasks : reply'[u] # Absent => Returns(reply[u])'
  BY <1>1, <1>2, <1>6 DEF AInv, CInv, Returns
<1>13. QED
  BY <1>5, <1>9, <1>10, <1>11, <1>12 DEF CInv

\* It holds in every state.
LEMMA AgreementNext ==
    ASSUME AInv, Benign, [BrowserNext]_browser_vars
    PROVE  CInv'
BY AsksKeeps, ServedKeeps, ReceivesKeeps, LosesKeeps, WaitsKeeps DEF BrowserNext

\* Nobody is bound, and nothing is in flight, when the host starts.
LEMMA AgreementInit == BrowserInit => CInv
<1> SUFFICES ASSUME BrowserInit PROVE CInv
  OBVIOUS
<1>1. /\ jar.sid = Absent /\ jar.cookie = NoNonce /\ device = Absent
      /\ offered = NoNonce /\ losses = 0 /\ profile \in Profiles
  BY DEF BrowserInit
<1>2. \A t \in Tasks : handler[t] = Absent /\ reply[t] = Absent
  BY DEF BrowserInit, HostInit
<1>3. \A route : ~ Flying(route)
  BY <1>2 DEF Flying, On, InFlight
<1>4. \A t \in Tasks : \A op : ~ Brings(t, op)
  BY <1>2 DEF Brings
<1>5. \A t \in Tasks : \A route : ~ On(t, route)
  BY <1>2 DEF On, InFlight
<1>6. QED
  BY <1>1, <1>2, <1>3, <1>4, <1>5
  DEF CInv, Networked, Exclusive, JarFits, Agreed, CookieFits, Abroad, Inside

\* SECURITY.md, A09: under Benign, that is, for a browser that takes a cookie for
\* dead a second and two round trips early, the gate and the refresh endpoint end
\* no session of a user who is logged in and uses the device that is bound,
\* whatever pages, registrations and refreshes cross each other and whichever of
\* the replies that may get lost do.
THEOREM HonestUsersStay ==
    ASSUME Benign
    PROVE  BrowserSpec => []HonestNotTerminated
<1>1. BrowserInit => OInv /\ CInv
  BY AgreementInit, OverlapInit
<1>2. FInv /\ BInv /\ OInv /\ CInv /\ [BrowserNext]_browser_vars => OInv' /\ CInv'
  BY OverlapNext, AgreementNext DEF AInv
<1>3. FInv /\ BInv /\ OInv /\ CInv => HonestNotTerminated
  <2> SUFFICES ASSUME AInv, NEW t \in Tasks, NEW h, h = handler[t], h # Absent,
                      h.next = "revoke", users[h.sid] \in Users,
                      h.req.route \notin {"login", "logout"}
               PROVE  FALSE
    BY DEF AInv, HonestNotTerminated, Handling
  <2>1. /\ h.next = "revoke" =>
              \/ h.req.route \in {"login", "logout"}
              \/ h.req.route = "refresh" /\ ~ Inside
        /\ h.req.route # "login" => jar.sid \in Sessions /\ h.sid = jar.sid
    BY OnCourse
  <2>2. QED
    BY <2>1, SessionsAssumption DEF Inside
<1>4. QED
  BY <1>1, <1>2, <1>3, BrowserInvariance, PTL DEF BrowserSpec
==============================================================================

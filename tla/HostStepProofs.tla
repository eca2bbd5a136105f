--------------------------- MODULE HostStepProofs ----------------------------
(***************************************************************************)
(* What a login, a logout and the enforcement gate of the host promise,    *)
(* from the invariants of HostProofs and of DbscServerStepProofs.          *)
(***************************************************************************)
EXTENDS HostProofs, DbscServerStepProofs

------------------------------------------------------------------------------
(* The invariant behind LoggedOutIsUnbound.                                 *)

Unbound(s) == pending[s] = Absent /\ binding[s] = Absent

\* A handler works on the session of its call.  It offers a binding only for
\* the session of the login it has just written; until then the id it drew is
\* nobody's.  Behind its revoke() the session it ends has no record.
Linked(t) ==
    LET h == handler[t] IN
    /\ call[t] # Absent => call[t].session = h.sid
    /\ h.req.route = "login" => h.req.login \in Users
    /\ h.next = "offer" =>
          h.req.route = "login" /\ h.sid = h.new /\ users[h.sid] \in Users
    /\ h.next # "offer" /\ h.new # Absent => users[h.new] \notin Users
    /\ Serving(t, "revoke", "answer") => Unbound(h.sid)

HandlersLinked == \A t \in Tasks : handler[t] # Absent => Linked(t)

LInv == HandlersLinked /\ LoggedOutIsUnbound

\* A session without records gets one only from an offer: a registration, a
\* rotation and a mark replace a record, and only a record decays.
LEMMA NothingComesOfNothing ==
    ASSUME IInv, [Next]_vars, NEW s \in Sessions, Unbound(s),
           \A t \in Tasks : offer_put(t) => call[t].session # s
    PROVE  Unbound(s)'
<1>0. /\ pending \in [Sessions -> PendingRegistration \union {Absent, Corrupt}]
      /\ binding \in [Sessions -> Binding \union {Absent, Corrupt}]
  BY DEF IInv, Types, TypeOK
<1>1. ASSUME UNCHANGED <<pending, binding>> PROVE Unbound(s)'
  BY <1>1 DEF Unbound
<1>2. ASSUME NEW t \in Tasks, Request(t) \/ QuietStep(t) PROVE Unbound(s)'
  <2>1. Still
    BY <1>2, RequestKeeps, QuietStepKeeps
  <2>2. QED
    BY <1>1, <2>1 DEF Still, store
<1>3. ASSUME NEW t \in Tasks, offer_put(t) PROVE Unbound(s)'
  BY <1>0, <1>3 DEF offer_put, put_pending_registration, Unbound
<1>4. ASSUME NEW t \in Tasks, register_commit(t) PROVE Unbound(s)'
  <2>1. Writing(t) /\ call[t].op = "register"
    BY <1>4 DEF register_commit, Serving, Writing
  <2>2. call[t].read \in PendingRegistration
    BY <2>1 DEF IInv, WritesAreJustified, Justified
  <2>3. call[t].session # s
    BY <1>4, <2>2, AbsentAssumption
    DEF register_commit, commit_registration, Unbound
  <2>4. QED
    BY <1>0, <1>4, <2>3 DEF register_commit, commit_registration, Unbound
<1>5. ASSUME NEW t \in Tasks,
             issue_replace(t) \/ refresh_replace(t) \/ advertise_replace(t)
      PROVE  Unbound(s)'
  <2>1. Writing(t) /\ call[t].op \in {"issue", "refresh", "advertise"}
    BY <1>5 DEF issue_replace, refresh_replace, advertise_replace, Serving,
                Writing
  <2>2. call[t].read \in Binding
    BY <2>1 DEF IInv, WritesAreJustified, Justified
  <2>3. PICK b : replace_binding(call[t].session, call[t].read, b)
    BY <1>5 DEF issue_replace, refresh_replace, advertise_replace
  <2>4. call[t].session # s
    BY <2>2, <2>3, AbsentAssumption DEF replace_binding, Unbound
  <2>5. QED
    BY <1>0, <2>3, <2>4 DEF replace_binding, Unbound
<1>6. ASSUME NEW t \in Tasks, revoke_delete(t) PROVE Unbound(s)'
  BY <1>0, <1>6 DEF revoke_delete, delete, Unbound
<1>7. ASSUME NEW t \in Tasks, answer(t) PROVE Unbound(s)'
  BY <1>1, <1>7 DEF answer, store
<1>8. CASE Tick \/ UNCHANGED vars
  BY <1>1, <1>8 DEF Tick, vars, store
<1>9. CASE Disturb
  BY <1>0, <1>9
  DEF Disturb, Disturb_store, expire, corrupt_pending_registration,
      corrupt_binding, Unbound
<1>10. QED
  BY <1>2, <1>3, <1>4, <1>5, <1>6, <1>7, <1>8, <1>9
  DEF Next, Step, Works, QuietStep

\* The facts about the handlers that the proofs below keep needing.
LEMMA HostFacts ==
    ASSUME HInv
    PROVE  /\ IInv /\ HostTypeOK
           /\ call \in [Tasks -> Calls \union {Absent}]
           /\ handler \in [Tasks -> Handlers \union {Absent}]
           /\ users \in [Sessions -> UserIds \union {Absent}]
           /\ \A t \in Tasks : handler[t] # Absent =>
                 /\ handler[t] \in Handlers /\ handler[t].sid \in Sessions
                 /\ Prepared(t) /\ Drawn(t)
           /\ \A t \in Tasks : call[t] # Absent => handler[t] # Absent
           /\ Absent \notin Sessions \union Users
BY SessionsAssumption
DEF HInv, HostTypeOK, HandlersGood, Good, IInv, Types, TypeOK, Handlers, UserIds

\* A step of one task leaves the handlers and the calls of the others alone, and
\* the entries of the ids they drew.
LEMMA OthersUntouched ==
    ASSUME HInv, NEW t \in Tasks, requests(t) \/ HostStep(t) \/ fails(t),
           NEW u \in Tasks \ {t}
    PROVE  /\ handler'[u] = handler[u] /\ call'[u] = call[u]
           /\ handler[u] # Absent /\ handler[u].new # Absent =>
                 users'[handler[u].new] = users[handler[u].new]
<1> USE HostFacts
<1>1. CASE requests(t)
  <2>1. PICK req : handle(t, req) /\ call' = call
    BY <1>1, RequestsAreTyped DEF handle, vars
  <2>2. handler'[u] = handler[u]
    <3>1. handler' = handler \/ \E h : handler' = [handler EXCEPT ![t] = h]
      BY <2>1 DEF handle
    <3>2. QED
      BY <3>1
  <2>3. \/ users' = users
        \/ NewIds # {} /\ \E user : users' = [users EXCEPT ![NewId] = user]
    BY <2>1 DEF handle
  <2>4. NewIds # {} /\ handler[u] # Absent => handler[u].new # NewId
    <3>1. NewIds # {} => NewId \in NewIds
      BY DEF NewId
    <3>2. QED
      BY <3>1 DEF NewIds
  <2>5. handler[u] # Absent /\ handler[u].new # Absent =>
           handler[u].new \in Sessions
    BY DEF Handlers
  <2>6. QED
    BY <2>1, <2>2, <2>3, <2>4, <2>5
<1>2. CASE begins(t) \/ works(t) \/ gate(t) \/ fails(t)
  <2>1. users' = users
    BY <1>2 DEF begins, works, gate, fails, host
  <2>2. handler'[u] = handler[u]
    BY <1>2 DEF begins, works, gate, fails, Fails, host
  <2>3. call'[u] = call[u]
    <3>1. CASE begins(t)
      BY <3>1
      DEF begins, build_registration_header_response, register,
          issue_refresh_challenge, refresh, get_binding, revoke, Begin, Goes
    <3>2. CASE works(t)
      BY <3>2, CallStays DEF works
    <3>3. CASE gate(t) \/ fails(t)
      BY <3>3 DEF gate, advertise_check, get_binding_returns, Stop, Ends, Goes,
                  fails, abandon
    <3>4. QED
      BY <1>2, <3>1, <3>2, <3>3
  <2>4. QED
    BY <2>1, <2>2, <2>3
<1>3. CASE resumes(t)
  <2>1. call'[u] = call[u]
    BY <1>3 DEF resumes, answer, Goes
  <2>2. handler'[u] = handler[u]
    BY <1>3
    DEF resumes, resumes_offer_or_register, resumes_issue, resumes_refresh,
        resumes_gate, resumes_revoke, resumes_login, Responds, Fails, Goes_on
  <2>3. \/ users' = users
        \/ users' = [users EXCEPT ![handler[t].sid] = Unknown]
        \/ /\ handler[t].req.route = "login"
           /\ users' = [users EXCEPT ![handler[t].sid] = Absent,
                                     ![handler[t].new] = handler[t].req.login]
    BY <1>3
    DEF resumes, resumes_offer_or_register, resumes_issue, resumes_refresh,
        resumes_gate, resumes_revoke, resumes_login
  <2>4. ASSUME handler[u] # Absent, handler[u].new # Absent
        PROVE  /\ handler[u].new # handler[t].sid
               /\ handler[u].new # handler[t].new
               /\ handler[u].new \in Sessions
    <3>1. handler[t] # Absent /\ Drawn(t) /\ Drawn(u)
      BY <1>3, <2>4 DEF resumes
    <3>2. handler[u].new \in Sessions
      BY <2>4 DEF Handlers
    <3>3. QED
      BY <2>4, <3>1, <3>2 DEF Drawn
  <2>5. QED
    BY <2>1, <2>2, <2>3, <2>4
<1>4. QED
  BY <1>1, <1>2, <1>3 DEF HostStep

\* An offer is put for the id that its own login drew.
LEMMA OffersAreForLogins ==
    ASSUME HInv, LInv, NEW t \in Tasks, offer_put(t)
    PROVE  /\ handler[t] # Absent /\ handler[t].next = "offer"
           /\ call[t].session = handler[t].sid
           /\ handler[t].sid = handler[t].new /\ handler[t].sid \notin sent
           /\ users[handler[t].sid] \in Users
<1>1. handler[t] # Absent /\ Prepared(t) /\ Drawn(t) /\ Linked(t)
  BY HostFacts DEF offer_put, Serving, LInv, HandlersLinked
<1>2. call[t] # Absent /\ call[t].op = "offer"
  BY DEF offer_put, Serving
<1>3. handler[t].next = "offer"
  BY <1>1, <1>2 DEF Prepared, Awaits
<1>4. QED
  BY <1>1, <1>2, <1>3 DEF Linked, Drawn

\* A session that is not logged in, and one whose teardown is about to be
\* answered, stay without records.
LEMMA UnboundStays ==
    ASSUME HInv, LInv, [HostNext]_host_vars
    PROVE  /\ \A s \in Sessions : users[s] \notin Users => Unbound(s)'
           /\ \A t \in Tasks, s \in Sessions :
                 /\ handler[t] # Absent /\ handler[t].sid = s
                 /\ Serving(t, "revoke", "answer")
                 => Unbound(s)'
<1> USE HostFacts
<1>1. [Next]_vars
  BY HostStepIsStep
<1>2. ASSUME NEW s \in Sessions, users[s] \notin Users
      PROVE  Unbound(s)'
  <2>1. Unbound(s)
    BY <1>2 DEF LInv, LoggedOutIsUnbound, Unbound
  <2>2. QED
    BY <1>1, <1>2, <2>1, OffersAreForLogins, NothingComesOfNothing
<1>3. ASSUME NEW t \in Tasks, NEW s \in Sessions, handler[t] # Absent,
             handler[t].sid = s, Serving(t, "revoke", "answer")
      PROVE  Unbound(s)'
  <2>1. Unbound(s)
    BY <1>3 DEF LInv, HandlersLinked, Linked
  <2>2. ASSUME NEW u \in Tasks, offer_put(u)
        PROVE  call[u].session # s
    <3>1. u # t
      BY <1>3, <2>2 DEF offer_put, Serving
    <3>2. Drawn(t) /\ Drawn(u)
      BY <1>3, <2>2, OffersAreForLogins
    <3>3. handler[u].new = handler[t].new => handler[u].new = Absent
      BY <1>3, <2>2, <3>1, <3>2, OffersAreForLogins DEF Drawn
    <3>4. QED
      BY <1>3, <2>2, <3>2, <3>3, OffersAreForLogins DEF Drawn
  <2>3. QED
    BY <1>1, <2>1, <2>2, NothingComesOfNothing
<1>4. QED
  BY <1>2, <1>3

\* A handler that another task's step leaves alone stays linked.
LEMMA OtherStaysLinked ==
    ASSUME HInv, LInv, [HostNext]_host_vars, NEW u \in Tasks,
           handler[u] # Absent, handler'[u] = handler[u], call'[u] = call[u],
           handler[u].new # Absent =>
              users'[handler[u].new] = users[handler[u].new]
    PROVE  Linked(u)'
<1>1. Linked(u) /\ Drawn(u) /\ handler[u].sid \in Sessions
  BY HostFacts DEF LInv, HandlersLinked
<1>2. Serving(u, "revoke", "answer")' => Serving(u, "revoke", "answer")
  BY DEF Serving
<1>3. Serving(u, "revoke", "answer")' => Unbound(handler[u].sid)'
  BY <1>1, <1>2, UnboundStays DEF Unbound
<1>4. handler[u].next = "offer" => handler[u].new # Absent
  BY <1>1, HostFacts DEF Linked
<1>5. QED
  BY <1>1, <1>3, <1>4 DEF Linked

\* The step of a task t, as far as the other tasks are concerned.
LEMMA OthersStayLinked ==
    ASSUME HInv, LInv, [HostNext]_host_vars, NEW t \in Tasks,
           requests(t) \/ HostStep(t) \/ fails(t),
           NEW u \in Tasks \ {t}, handler'[u] # Absent
    PROVE  Linked(u)'
BY OthersUntouched, OtherStaysLinked

\* A request is taken up: a fresh login is written under the id it drew, and
\* every other request leaves that id logged out.
LEMMA HandleLinks ==
    ASSUME HInv, NEW t \in Tasks, NEW req, Presentable(req), handle(t, req),
           handler'[t] # Absent
    PROVE  Linked(t)'
<1> DEFINE fresh == is_fresh(req)
           draws == fresh \/ req.route = "login"
           new == IF draws THEN NewId ELSE Absent
           sid == IF fresh THEN new ELSE req.session
           user == IF ~ fresh THEN users[sid]
                   ELSE IF req.route = "login" THEN req.login ELSE Unknown
           next == first_call(req, fresh, user)
           h == [req |-> [req EXCEPT !.session = Absent],
                 sid |-> sid, user |-> user, new |-> new,
                 deletes |-> FALSE, next |-> next]
<1>1. /\ handler[t] = Absent
      /\ draws => NewIds # {}
      /\ users' = IF fresh THEN [users EXCEPT ![sid] = user] ELSE users
      /\ handler' = IF next = "none" THEN handler
                    ELSE [handler EXCEPT ![t] = h]
      /\ UNCHANGED <<vars, hard>>
  BY DEF handle
<1>2. req \in HttpRequests /\ (req.route = "login" => req.login \in Users)
  BY DEF Presentable
<1>3. handler'[t] = h /\ call'[t] = Absent
  <2>1. call[t] = Absent
    BY <1>1 DEF HInv, HandlersGood, Good
  <2>2. handler \in [Tasks -> Handlers \union {Absent}]
    BY HostFacts
  <2>3. QED
    BY <1>1, <2>1, <2>2 DEF vars
<1>4. draws => new \in Sessions /\ users[new] = Absent
  <2>1. draws => new \in NewIds
    BY <1>1 DEF NewId
  <2>2. QED
    BY <2>1 DEF NewIds
<1>5. h.req.route = req.route /\ h.req.login = req.login
  BY <1>2 DEF HttpRequests
<1>6. next = "offer" <=> req.route = "login" /\ fresh
  BY DEF first_call
<1>7. next = "offer" => sid = new /\ users'[sid] \in Users
  BY <1>1, <1>2, <1>4, <1>6, HostFacts
<1>8. next # "offer" /\ new # Absent => users'[new] \notin Users
  <2>1. CASE fresh
    BY <1>1, <1>4, <1>6, <2>1, HostFacts, UnknownAssumption
  <2>2. CASE ~ fresh
    BY <1>1, <1>4, <2>2, HostFacts
  <2>3. QED
    BY <2>1, <2>2
<1> HIDE DEF fresh, next
<1>9. QED
  BY <1>2, <1>3, <1>5, <1>6, <1>7, <1>8 DEF Linked, Serving

\* What a handler holds once its operation has begun.
LEMMA BegunHandler ==
    ASSUME NEW h \in Handlers, NEW k,
           k = [h EXCEPT !.req.jwt = Absent, !.req.id = NoNonce]
    PROVE  /\ k \in Handlers
           /\ k.new = h.new /\ k.sid = h.sid /\ k.next = h.next
           /\ k.req.route = h.req.route /\ k.req.login = h.req.login
<1>1. k \in Handlers
  BY DEF Handlers, HttpRequests, NoNonce
<1>2. QED
  BY <1>1 DEF Handlers, HttpRequests

\* An operation begins on the session of its handler, and works there.
LEMMA OperationLinks ==
    ASSUME HInv, LInv, NEW t \in Tasks, begins(t) \/ works(t) \/ gate(t)
    PROVE  handler'[t] # Absent /\ Linked(t)'
<1> USE HostFacts
<1>1. users' = users
  BY DEF begins, works, gate, host
<1>2. CASE begins(t)
  <2>1. PICK h, k :
           h = handler[t] /\ k = [h EXCEPT !.req.jwt = Absent, !.req.id = NoNonce]
    OBVIOUS
  <2>2. h \in Handlers /\ Linked(t) /\ handler[t] # Absent
    BY <1>2, <2>1 DEF begins, LInv, HandlersLinked
  <2>3. handler'[t] = k
    BY <1>2, <2>1, <2>2 DEF begins
  <2>4. /\ k.new = h.new /\ k.sid = h.sid /\ k.next = h.next
        /\ k.req.route = h.req.route /\ k.req.login = h.req.login
        /\ k \in Handlers
    <3>1. /\ h \in Handlers
          /\ k = [h EXCEPT !.req.jwt = Absent, !.req.id = NoNonce]
      BY <2>1, <2>2
    <3>2. QED
      BY ONLY <3>1, BegunHandler
  <2>5. PICK op, pc, u, jwt, id, record :
           Begin(t, op, pc, h.sid, u, jwt, id, record) /\ pc # "answer"
    BY <1>2, <2>1
    DEF begins, build_registration_header_response, register,
        issue_refresh_challenge, refresh, get_binding, revoke
  <2>6. call'[t].session = h.sid /\ call'[t].pc # "answer"
    BY <2>5 DEF Begin, Goes
  <2>7. QED
    BY <1>1, <2>1, <2>2, <2>3, <2>4, <2>6, NoHandlerAssumption
    DEF Linked, Serving
<1>3. CASE works(t)
  <2>1. /\ call[t] \in Calls /\ call'[t].op = call[t].op
        /\ call'[t].session = call[t].session
    BY <1>3, CallStays DEF works
  <2>2. call[t] # Absent /\ handler[t] # Absent /\ handler'[t] = handler[t]
    BY <1>3, <2>1, NoHandlerAssumption DEF works, host
  <2>3. Linked(t) /\ call[t].session = handler[t].sid
    BY <2>2 DEF LInv, HandlersLinked, Linked
  <2>4. ASSUME Serving(t, "revoke", "answer")'
        PROVE  Unbound(handler[t].sid)'
    <3>1. call[t].op = "revoke"
      BY <2>1, <2>4 DEF Serving
    <3>2. revoke_delete(t)
      <4>1. call[t].pc # "get"
        BY <2>2, <3>1 DEF IInv, CallsRemember, Active, Remembers
      <4>2. QED
        BY <1>3, <3>1, <4>1
        DEF works, Works, get, offer_check, offer_put, register_check,
            register_commit, register_loses, issue_check, issue_replace,
            issue_loses, refresh_check, refresh_replace,
            refresh_loses, advertise_replace, advertise_loses, replace_raises,
            Serving
    <3>3. handler[t].sid \in Sessions
      BY <2>2
    <3>4. QED
      BY <2>2, <2>3, <3>2, <3>3
      DEF revoke_delete, delete, Unbound, IInv, Types, TypeOK
  <2>5. QED
    BY <1>1, <2>1, <2>2, <2>3, <2>4 DEF Linked
<1>4. CASE gate(t)
  <2>1. PICK h : h = handler[t]
    OBVIOUS
  <2>2. /\ h \in Handlers /\ Linked(t) /\ h # Absent /\ h.next = "get_binding"
        /\ call[t] \in Calls /\ call[t].op = "advertise"
        /\ call[t].session = h.sid
    BY <1>4, <2>1, NoHandlerAssumption
    DEF gate, Handling, Serving, LInv, HandlersLinked, Linked
  <2>3. PICK verdict \in {"cookie auth", "bound", "revoke"} :
           handler' = [handler EXCEPT ![t].next = verdict,
                                      ![t].req.cookie = NoNonce,
                                      ![t].req.document = TRUE]
    BY <1>4 DEF gate
  <2>4. PICK k : k = [h EXCEPT !.next = verdict, !.req.cookie = NoNonce,
                               !.req.document = TRUE]
    OBVIOUS
  <2>5. /\ k.new = h.new /\ k.sid = h.sid /\ k.next = verdict
        /\ k.req.route = h.req.route /\ k.req.login = h.req.login
        /\ k \in Handlers
    BY <2>2, <2>4 DEF Handlers, HttpRequests, NoNonce, Nexts
  <2>6. handler'[t] = k
    BY <2>1, <2>2, <2>3, <2>4
  <2>7. call'[t].op = "advertise" /\ call'[t].session = h.sid
    <3>1. \/ \E out : Ends(t, out)
          \/ Goes(t, [call[t] EXCEPT !.pc = "write"])
      BY <1>4 DEF gate, get_binding_returns, advertise_check, Stop
    <3>2. PICK c : c = call[t]
      OBVIOUS
    <3>3. CASE \E out : Ends(t, out)
      <4>1. PICK out, d : /\ d = [c EXCEPT !.pc = "answer", !.out = out,
                                    !.jwt = NoJwt, !.id = NoNonce, !.at = 0]
                          /\ call' = [call EXCEPT ![t] = d]
        BY <3>2, <3>3 DEF Ends, Goes
      <4>2. d.op = c.op /\ d.session = c.session
        BY <2>2, <3>2, <4>1 DEF Calls
      <4>3. QED
        BY <2>2, <3>2, <4>1, <4>2
    <3>4. CASE Goes(t, [call[t] EXCEPT !.pc = "write"])
      BY <2>2, <3>4 DEF Goes, Calls
    <3>5. QED
      BY <3>1, <3>3, <3>4
  <2>8. QED
    BY <1>1, <2>1, <2>2, <2>5, <2>6, <2>7, NoHandlerAssumption
    DEF Linked, Serving
<1>5. QED
  BY <1>2, <1>3, <1>4

\* Behind an await: the handler is done, goes on in its session, or, behind the
\* revoke() of a login, in the session of that login.
LEMMA ResumesLinks ==
    ASSUME HInv, LInv, NEW t \in Tasks, resumes(t) \/ fails(t),
           handler'[t] # Absent
    PROVE  Linked(t)'
<1> USE HostFacts
<1>1. call'[t] = Absent /\ call[t] # Absent
  BY DEF resumes, answer, fails, abandon, Goes
<1>2. handler[t] # Absent /\ Prepared(t) /\ Drawn(t) /\ Linked(t)
  BY <1>1 DEF LInv, HandlersLinked
<1>3. PICK h : h = handler[t]
  OBVIOUS
<1>4. CASE resumes_login(t)
  <2>1. PICK k : k = [h EXCEPT !.sid = h.new, !.user = h.req.login,
                               !.deletes = TRUE, !.next = "offer"]
    OBVIOUS
  <2>2. /\ handler' = [handler EXCEPT ![t] = k]
        /\ users' = [users EXCEPT ![h.sid] = Absent, ![h.new] = h.req.login]
        /\ h.req.route = "login"
    BY <1>2, <1>3, <1>4, <2>1 DEF resumes_login, Fails, Goes_on
  <2>3. /\ k.new = h.new /\ k.sid = h.new /\ k.next = "offer" /\ k.req = h.req
        /\ h.new \in Sessions
    BY <1>2, <1>3, <2>1, <2>2 DEF Handlers, Drawn
  <2>4. handler'[t] = k /\ users'[h.new] = h.req.login
    BY <2>2, <2>3
  <2>5. QED
    BY <1>1, <1>2, <1>3, <2>2, <2>3, <2>4 DEF Linked, Serving
<1>5. CASE resumes_refresh(t) \/ resumes_gate(t)
  <2>1. call[t].op \in {"refresh", "advertise"} /\ users' = users
    BY <1>5 DEF resumes_refresh, resumes_gate, Serving
  <2>2. h.next # "offer"
    BY <1>1, <1>2, <1>3, <2>1 DEF Prepared, Awaits
  <2>3. \/ handler' = [handler EXCEPT ![t] = h]
        \/ \E next \in {"issue", "revoke"} :
              handler' = [handler EXCEPT ![t] = [h EXCEPT !.next = next]]
    BY <1>2, <1>3, <1>5
    DEF resumes_refresh, resumes_gate, Responds, Fails, Goes_on
  <2>4. /\ handler'[t].new = h.new /\ handler'[t].sid = h.sid
        /\ handler'[t].next # "offer" /\ handler'[t].req = h.req
    BY <1>2, <1>3, <2>2, <2>3 DEF Handlers
  <2>5. QED
    BY <1>1, <1>2, <1>3, <2>1, <2>2, <2>4 DEF Linked, Serving
<1>6. CASE \/ fails(t) \/ resumes_offer_or_register(t) \/ resumes_issue(t)
           \/ resumes_revoke(t)
  BY <1>2, <1>6 DEF fails, resumes_offer_or_register, resumes_issue,
                    resumes_revoke, Responds, Fails
<1>7. QED
  BY <1>4, <1>5, <1>6 DEF resumes

\* A login ends only behind a revoke() that removed the records.
LEMMA LogoutsAreUnbound ==
    ASSUME HInv, LInv, [HostNext]_host_vars, NEW s \in Sessions,
           users[s] \in Users, users'[s] \notin Users
    PROVE  \E t \in Tasks :
              /\ handler[t] # Absent /\ handler[t].sid = s
              /\ Serving(t, "revoke", "answer")
<1> USE HostFacts
<1>1. ASSUME NEW t \in Tasks, requests(t) PROVE FALSE
  <2>1. PICK req : handle(t, req)
    BY <1>1, RequestsAreTyped
  <2>2. \/ users' = users
        \/ NewIds # {} /\ \E user : users' = [users EXCEPT ![NewId] = user]
    BY <2>1 DEF handle
  <2>3. NewIds # {} => users[NewId] = Absent /\ NewId \in Sessions
    <3>1. NewIds # {} => NewId \in NewIds
      BY DEF NewId
    <3>2. QED
      BY <3>1 DEF NewIds
  <2>4. QED
    BY <2>2, <2>3
<1>2. ASSUME NEW t \in Tasks, begins(t) \/ works(t) \/ gate(t) \/ fails(t)
      PROVE  FALSE
  BY <1>2 DEF begins, works, gate, fails, host
<1>3. CASE Elsewhere \/ UNCHANGED host_vars
  BY <1>3 DEF Elsewhere, host_vars, host
<1>4. ASSUME NEW t \in Tasks, resumes(t)
      PROVE  /\ handler[t] # Absent /\ handler[t].sid = s
             /\ Serving(t, "revoke", "answer")
  <2>1. resumes_revoke(t) \/ resumes_login(t)
    BY <1>4 DEF resumes, resumes_offer_or_register, resumes_issue,
                resumes_refresh, resumes_gate
  <2>2. handler[t] # Absent /\ Linked(t) /\ handler[t].new \in Sessions \union {Absent}
    BY <1>4 DEF resumes, LInv, HandlersLinked, Handlers
  <2>3. CASE resumes_revoke(t)
    BY <2>2, <2>3 DEF resumes_revoke
  <2>4. CASE resumes_login(t)
    <3>1. \/ users' = users
          \/ users' = [users EXCEPT ![handler[t].sid] = Absent,
                                    ![handler[t].new] = handler[t].req.login]
      BY <2>4 DEF resumes_login
    <3>2. handler[t].req.login \in Users
      BY <2>2, <2>4 DEF resumes_login, Linked
    <3>3. QED
      BY <2>2, <2>4, <3>1, <3>2 DEF resumes_login
  <2>5. QED
    BY <2>1, <2>3, <2>4
<1>5. QED
  BY <1>1, <1>2, <1>3, <1>4 DEF HostNext, HostStep

\* The invariant holds.
LEMMA LinkedNext == HInv /\ LInv /\ [HostNext]_host_vars => LInv'
<1> SUFFICES ASSUME HInv, LInv, [HostNext]_host_vars PROVE LInv'
  OBVIOUS
<1>1. ASSUME NEW t \in Tasks, requests(t) \/ HostStep(t) \/ fails(t)
      PROVE  HandlersLinked'
  <2>1. handler'[t] # Absent => Linked(t)'
    <3>1. CASE requests(t)
      BY <3>1, HostFacts, RequestsAreTyped, HandleLinks
    <3>2. CASE HostStep(t) \/ fails(t)
      BY <3>2, OperationLinks, ResumesLinks DEF HostStep
    <3>3. QED
      BY <1>1, <3>1, <3>2
  <2>2. \A u \in Tasks \ {t} : handler'[u] # Absent => Linked(u)'
    BY <1>1, OthersStayLinked
  <2>3. QED
    BY <2>1, <2>2 DEF HandlersLinked
<1>2. ASSUME Elsewhere \/ UNCHANGED host_vars
      PROVE  HandlersLinked'
  <2>1. UNCHANGED <<users, handler, call>>
    BY <1>2 DEF Elsewhere, Tick, Disturb, host_vars, host, vars
  <2>2. QED
    BY <2>1, OtherStaysLinked DEF HandlersLinked
<1>3. HandlersLinked'
  BY <1>1, <1>2 DEF HostNext
<1>4. LoggedOutIsUnbound'
  <2> SUFFICES ASSUME NEW s \in Sessions, users'[s] \notin Users
               PROVE  Unbound(s)'
    BY DEF LoggedOutIsUnbound, Unbound
  <2>1. QED
    BY UnboundStays, LogoutsAreUnbound
<1>5. QED
  BY <1>3, <1>4 DEF LInv

\* The invariant of the host's sessions.
LEMMA LinkedInvariance == HostSpec => []LInv
<1>1. HostInit => LInv
  BY DEF HostInit, Init, Init_store, LInv, HandlersLinked, LoggedOutIsUnbound
<1>2. QED
  BY <1>1, LinkedNext, HostInvariance, PTL DEF HostSpec

\* Nothing of DBSC is left of a session nobody is logged in to: login(),
\* logout(), a terminal refresh and _terminate write _sessions only behind the
\* revoke() that removed both records, and no registration, rotation or offer
\* that was in flight brings one back.
THEOREM LogoutRemovesTheRecords == HostSpec => []LoggedOutIsUnbound
<1>1. LInv => LoggedOutIsUnbound
  BY DEF LInv
<1>2. QED
  BY <1>1, LinkedInvariance, PTL

------------------------------------------------------------------------------
(* The invariant behind RecordsAreOwn.                                       *)

\* A login offers a binding to the user it has logged in.
Offers(t) ==
    handler[t] # Absent /\ handler[t].next = "offer" =>
        /\ handler[t].user = users[handler[t].sid]
        /\ call[t] # Absent => call[t].user = handler[t].user

UInv == RecordsAreOwn /\ \A t \in Tasks : Offers(t)

\* Nobody is logged in over somebody else.
LEMMA NoLoginOverLogin ==
    ASSUME HInv, LInv, [HostNext]_host_vars, NEW s \in Sessions,
           users'[s] \in Users, users'[s] # users[s]
    PROVE  users[s] \notin Users
<1> USE HostFacts
<1>1. ASSUME NEW t \in Tasks, requests(t) PROVE users[s] \notin Users
  <2>1. PICK req : handle(t, req)
    BY <1>1, RequestsAreTyped
  <2>2. \/ users' = users
        \/ NewIds # {} /\ \E user : users' = [users EXCEPT ![NewId] = user]
    BY <2>1 DEF handle
  <2>3. NewIds # {} => users[NewId] = Absent
    <3>1. NewIds # {} => NewId \in NewIds
      BY DEF NewId
    <3>2. QED
      BY <3>1 DEF NewIds
  <2>4. QED
    BY <2>2, <2>3
<1>2. ASSUME NEW t \in Tasks, begins(t) \/ works(t) \/ gate(t) \/ fails(t)
      PROVE  FALSE
  BY <1>2 DEF begins, works, gate, fails, host
<1>3. CASE Elsewhere \/ UNCHANGED host_vars
  BY <1>3 DEF Elsewhere, host_vars, host
<1>4. ASSUME NEW t \in Tasks, resumes(t) PROVE users[s] \notin Users
  <2>1. resumes_revoke(t) \/ resumes_login(t)
    BY <1>4 DEF resumes, resumes_offer_or_register, resumes_issue,
                resumes_refresh, resumes_gate
  <2>2. handler[t] # Absent /\ Prepared(t) /\ Drawn(t)
    BY <1>4 DEF resumes
  <2>3. CASE resumes_revoke(t)
    BY <2>2, <2>3, UnknownAssumption DEF resumes_revoke
  <2>4. CASE resumes_login(t)
    <3>1. \/ users' = users
          \/ users' = [users EXCEPT ![handler[t].sid] = Absent,
                                    ![handler[t].new] = handler[t].req.login]
      BY <2>4 DEF resumes_login
    <3>2. users[handler[t].new] = Absent
      BY <2>2, <2>4 DEF resumes_login, Serving, Prepared, Awaits, Drawn
    <3>3. QED
      BY <3>1, <3>2
  <2>5. QED
    BY <2>1, <2>3, <2>4
<1>5. QED
  BY <1>1, <1>2, <1>3, <1>4 DEF HostNext, HostStep

\* A handler that is about to offer, or offers, does so to its user.
LEMMA OffersStay ==
    ASSUME HInv, LInv, UInv, [HostNext]_host_vars, NEW t \in Tasks
    PROVE  Offers(t)'
<1> USE HostFacts
<1> SUFFICES ASSUME handler'[t] # Absent, handler'[t].next = "offer"
             PROVE  /\ handler'[t].user = users'[handler'[t].sid]
                    /\ call'[t] # Absent => call'[t].user = handler'[t].user
  BY DEF Offers
<1>1. ASSUME handler'[t] = handler[t], call'[t] = call[t],
             users'[handler[t].sid] = users[handler[t].sid]
      PROVE  /\ handler'[t].user = users'[handler'[t].sid]
             /\ call'[t] # Absent => call'[t].user = handler'[t].user
  BY <1>1 DEF UInv, Offers
<1>2. ASSUME NEW u \in Tasks \ {t}, requests(u) \/ HostStep(u) \/ fails(u)
      PROVE  /\ handler'[t] = handler[t] /\ call'[t] = call[t]
             /\ users'[handler[t].sid] = users[handler[t].sid]
  <2>1. handler'[t] = handler[t] /\ call'[t] = call[t]
    BY <1>2, OthersUntouched
  <2>2. handler[t].sid = handler[t].new /\ handler[t].new # Absent
    BY <2>1 DEF LInv, HandlersLinked, Linked
  <2>3. QED
    BY <1>2, <2>1, <2>2, OthersUntouched
<1>3. CASE Elsewhere \/ UNCHANGED host_vars
  BY <1>1, <1>3 DEF Elsewhere, Tick, Disturb, host_vars, host, vars
<1>4. CASE requests(t)
  <2>1. PICK req : Presentable(req) /\ handle(t, req)
    BY <1>4, RequestsAreTyped
  <2>2. handler[t] = Absent /\ call[t] = Absent /\ call'[t] = Absent
    BY <2>1 DEF handle, HInv, HandlersGood, Good, vars
  <2>3. PICK sid, user :
           /\ sid = NewId /\ NewIds # {}
           /\ users' = [users EXCEPT ![sid] = user]
           /\ handler'[t].sid = sid /\ handler'[t].user = user
    BY <2>1, <2>2 DEF handle, first_call
  <2>4. sid \in Sessions
    BY <2>3 DEF NewId, NewIds
  <2>5. QED
    BY <2>2, <2>3, <2>4
<1>5. CASE begins(t)
  <2>1. PICK h, k :
           h = handler[t] /\ k = [h EXCEPT !.req.jwt = Absent, !.req.id = NoNonce]
    OBVIOUS
  <2>2. h \in Handlers /\ h # Absent /\ handler'[t] = k
    BY <1>5, <2>1 DEF begins
  <2>3. k.next = h.next /\ k.sid = h.sid /\ k.user = h.user
    BY <2>1, <2>2 DEF Handlers
  <2>4. build_registration_header_response(t, h.sid, h.user) /\ users' = users
    BY <1>5, <2>1, <2>2, <2>3 DEF begins
  <2>5. call'[t].user = h.user
    BY <2>4 DEF build_registration_header_response, Begin, Goes
  <2>6. QED
    BY <2>1, <2>2, <2>3, <2>4, <2>5 DEF UInv, Offers
<1>6. CASE works(t)
  <2>1. handler'[t] = handler[t] /\ users' = users
    BY <1>6 DEF works, host
  <2>2. call[t] # Absent /\ call'[t].user = call[t].user
    BY <1>6, CallStays, NoHandlerAssumption DEF works
  <2>3. QED
    BY <2>1, <2>2 DEF UInv, Offers
<1>7. CASE gate(t)
  <2>1. PICK verdict \in {"cookie auth", "bound", "revoke"} :
           handler' = [handler EXCEPT ![t].next = verdict,
                                      ![t].req.cookie = NoNonce,
                                      ![t].req.document = TRUE]
    BY <1>7 DEF gate
  <2>2. handler[t] \in Handlers
    BY <1>7 DEF gate, Handling
  <2>3. handler'[t].next = verdict
    BY <2>1, <2>2 DEF Handlers
  <2>4. QED
    BY <2>3
<1>8. CASE fails(t)
  BY <1>8 DEF fails, Fails
<1>9. CASE resumes(t)
  <2>1. PICK h : h = handler[t]
    OBVIOUS
  <2>2. /\ h # Absent /\ h \in Handlers /\ Prepared(t) /\ Drawn(t)
        /\ call[t] # Absent /\ call'[t] = Absent
    BY <1>9, <2>1 DEF resumes, answer, Goes
  <2>3. CASE resumes_login(t)
    <3>1. PICK k : k = [h EXCEPT !.sid = h.new, !.user = h.req.login,
                                 !.deletes = TRUE, !.next = "offer"]
      OBVIOUS
    <3>2. /\ handler'[t] = k /\ h.new \in Sessions
          /\ users' = [users EXCEPT ![h.sid] = Absent, ![h.new] = h.req.login]
      BY <2>1, <2>2, <2>3, <3>1 DEF resumes_login, Fails, Goes_on, Drawn
    <3>3. k.sid = h.new /\ k.user = h.req.login
      BY <2>2, <3>1 DEF Handlers
    <3>4. QED
      BY <2>2, <3>2, <3>3
  <2>4. CASE resumes_refresh(t) \/ resumes_gate(t)
    <3>1. h.next # "offer"
      BY <2>1, <2>2, <2>4
      DEF Prepared, Awaits, resumes_refresh, resumes_gate, Serving
    <3>2. \/ handler'[t] = h
          \/ \E next \in {"issue", "revoke"} :
                handler'[t] = [h EXCEPT !.next = next]
      BY <2>1, <2>2, <2>4
      DEF resumes_refresh, resumes_gate, Responds, Fails, Goes_on
    <3>3. handler'[t].next # "offer"
      BY <2>2, <3>1, <3>2 DEF Handlers
    <3>4. QED
      BY <3>3
  <2>5. CASE \/ resumes_offer_or_register(t) \/ resumes_issue(t)
             \/ resumes_revoke(t)
    BY <2>5 DEF resumes_offer_or_register, resumes_issue, resumes_revoke,
                Responds, Fails
  <2>6. QED
    BY <1>9, <2>3, <2>4, <2>5 DEF resumes
<1>10. QED
  BY <1>1, <1>2, <1>3, <1>4, <1>5, <1>6, <1>7, <1>8, <1>9
  DEF HostNext, HostStep

\* The invariant holds.
LEMMA OwnNext == HInv /\ LInv /\ UInv /\ [HostNext]_host_vars => UInv'
<1> SUFFICES ASSUME HInv, LInv, UInv, [HostNext]_host_vars PROVE UInv'
  OBVIOUS
<1> USE HostFacts
<1>1. [Next]_vars
  BY HostStepIsStep
<1>2. ASSUME NEW s \in Sessions, users'[s] \in Users
      PROVE  /\ IsRecord(pending'[s]) => pending'[s].user_id = users'[s]
             /\ IsRecord(binding'[s]) => binding'[s].user_id = users'[s]
  <2>1. CASE users[s] \notin Users
    BY <2>1, UnboundStays DEF Unbound, IsRecord
  <2>2. CASE users[s] \in Users
    <3>1. users'[s] = users[s] /\ users[s] # Unknown
      BY <1>2, <2>2, NoLoginOverLogin, UnknownAssumption
    <3>2. /\ IsRecord(pending[s]) => pending[s].user_id = users[s]
          /\ IsRecord(binding[s]) => binding[s].user_id = users[s]
      BY <2>2 DEF UInv, RecordsAreOwn
    <3>3. IsRecord(pending'[s]) => pending'[s].user_id = users[s]
      <4>1. ASSUME NEW t \in Tasks, offer_put(t), call[t].session = s,
                   pending'[s].user_id = call[t].user
            PROVE  pending'[s].user_id = users[s]
        BY <4>1, OffersAreForLogins DEF UInv, Offers, offer_put, Serving
      <4>2. QED
        BY <1>1, <3>2, <4>1, OfferChanges DEF IsRecord
    <3>4. IsRecord(binding'[s]) => binding'[s].user_id = users[s]
      <4>1. CASE Kept(s) \/ Gone(s)
        BY <3>2, <4>1 DEF Kept, Gone, IsRecord
      <4>2. CASE Registered(s)
        BY <3>1, <3>2, <4>2, RecordsAreRecords DEF Registered
      <4>3. CASE Updated(s)
        BY <3>2, <4>3, UpdatesAreOrderly, RecordsAreRecords DEF Orderly
      <4>4. QED
        BY <1>1, <4>1, <4>2, <4>3, StepsAreLawful DEF Lawful
    <3>5. QED
      BY <3>1, <3>3, <3>4
  <2>3. QED
    BY <2>1, <2>2
<1>3. QED
  BY <1>2, OffersStay DEF UInv, RecordsAreOwn

\* The invariant holds.
LEMMA OwnInvariance == HostSpec => []UInv
<1>1. HostInit => UInv
  BY SessionsAssumption
  DEF HostInit, Init, Init_store, UInv, RecordsAreOwn, Offers, IsRecord
<1>2. QED
  BY <1>1, OwnNext, HostInvariance, LinkedInvariance, PTL DEF HostSpec

\* An offer and a binding belong to the user their session is logged in as:
\* register() takes the user of the offer, and the demo offers in the context of
\* the login it has just written.
THEOREM RecordsBelongToTheUser == HostSpec => []RecordsAreOwn
BY OwnInvariance, PTL DEF UInv

------------------------------------------------------------------------------
(* The invariant behind DegradesOnlyInTeardown.                             *)

\* Somebody is ending the session s.
Ending(s) == \E u \in Tasks : Handling(u, "revoke") /\ handler[u].sid = s

\* Clients know the sessions that were bound, and one that is logged in and
\* has lost its binding is being ended.
DInv ==
    /\ hard \subseteq sent
    /\ \A s \in Sessions : IsRecord(binding[s]) => s \in hard
    /\ \A s \in hard : users[s] \in Users /\ binding[s] = Absent => Ending(s)

\* No record expires and no handler dies.
Undisturbed == MayAbandon = FALSE /\ "expiry" \notin StoreFaults

\* A binding appears where a registration commits, in a session a client knows,
\* and disappears where a handler ends the session.
LEMMA WorksOnBindings ==
    ASSUME HInv, LInv, NEW t \in Tasks, works(t), NEW s \in Sessions
    PROVE  /\ IsRecord(binding'[s]) /\ ~ IsRecord(binding[s]) => s \in sent
           /\ binding'[s] = Absent /\ binding[s] # Absent =>
                 Handling(t, "revoke") /\ handler[t].sid = s
<1> USE HostFacts
<1>1. /\ call[t] # Absent /\ handler[t] # Absent
      /\ Prepared(t) /\ Drawn(t) /\ Linked(t)
      /\ call[t].session = handler[t].sid
  <2>1. call[t] # Absent
    BY CallStays, NoHandlerAssumption DEF works
  <2>2. handler[t] # Absent /\ Linked(t)
    BY <2>1 DEF LInv, HandlersLinked
  <2>3. QED
    BY <2>1, <2>2 DEF Linked
<1>2. CASE QuietStep(t) \/ offer_put(t)
  <2>1. binding' = binding
    BY <1>2, QuietStepKeeps DEF Still, store, offer_put, put_pending_registration
  <2>2. QED
    BY <2>1
<1>3. CASE register_commit(t)
  <2>1. CASE Kept(s)
    BY <2>1 DEF Kept
  <2>2. CASE Registered(s) /\ call[t].session = s
    <3>1. IsRecord(binding'[s])
      BY <2>2, RecordsAreRecords DEF Registered
    <3>2. users[s] \in Users
      BY <2>2, AbsentAssumption DEF Registered, LInv, LoggedOutIsUnbound
    <3>3. handler[t].next # "offer"
      BY <1>1, <1>3 DEF register_commit, Serving, Prepared, Awaits
    <3>4. s \in sent
      BY <1>1, <2>2, <3>2, <3>3 DEF Linked, Drawn
    <3>5. QED
      BY <3>1, <3>4 DEF IsRecord
  <2>3. QED
    BY <1>3, <2>1, <2>2, CommitRegisters
<1>4. CASE issue_replace(t) \/ refresh_replace(t) \/ advertise_replace(t)
  <2>1. CASE Kept(s)
    BY <2>1 DEF Kept
  <2>2. CASE Updated(s)
    <3>1. binding[s] \in Binding /\ binding'[s] \in Binding
      BY <2>2, UpdatesAreOrderly DEF Orderly
    <3>2. QED
      BY <3>1, RecordsAreRecords DEF IsRecord
  <2>3. QED
    BY <1>4, <2>1, <2>2, WriteIsLawful
<1>5. CASE revoke_delete(t)
  <2>1. handler[t].next = "revoke"
    BY <1>1, <1>5 DEF revoke_delete, Serving, Prepared, Awaits
  <2>2. binding' = [binding EXCEPT ![handler[t].sid] = Absent]
    BY <1>1, <1>5 DEF revoke_delete, delete
  <2>3. QED
    BY <1>1, <2>1, <2>2 DEF Handling, IsRecord, IInv, Types, TypeOK
<1>6. QED
  BY <1>2, <1>3, <1>4, <1>5 DEF works, Works, QuietStep

\* The other steps of the host bind nothing, and unbind nothing unless a record
\* expires.
LEMMA OthersOnBindings ==
    ASSUME HInv, [HostNext]_host_vars, \A t \in Tasks : ~ works(t), Undisturbed
    PROVE  /\ hard' = hard
           /\ \A s \in Sessions :
                 /\ IsRecord(binding'[s]) => IsRecord(binding[s])
                 /\ binding'[s] = Absent => binding[s] = Absent
<1> USE HostFacts
<1>1. ASSUME binding' = binding, hard' = hard
      PROVE  /\ hard' = hard
             /\ \A s \in Sessions :
                   /\ IsRecord(binding'[s]) => IsRecord(binding[s])
                   /\ binding'[s] = Absent => binding[s] = Absent
  BY <1>1
<1>2. ASSUME NEW t \in Tasks, requests(t) PROVE binding' = binding /\ hard' = hard
  BY <1>2, RequestsAreTyped DEF handle, vars
<1>3. ASSUME NEW t \in Tasks, begins(t) PROVE binding' = binding /\ hard' = hard
  BY <1>3
  DEF begins, build_registration_header_response, register,
      issue_refresh_challenge, refresh, get_binding, revoke, Begin, store
<1>4. ASSUME NEW t \in Tasks, gate(t) \/ resumes(t) \/ fails(t)
      PROVE  binding' = binding /\ hard' = hard
  BY <1>4
  DEF gate, advertise_check, get_binding_returns, Stop, resumes, answer, fails,
      abandon, store
<1>5. CASE Elsewhere
  <2>1. CASE Tick
    BY <1>1, <1>5, <2>1 DEF Elsewhere, Tick, store
  <2>2. CASE Disturb
    <3>1. \E q \in Sessions : corrupt_pending_registration(q) \/ corrupt_binding(q)
      BY <2>2 DEF Disturb, Disturb_store, Undisturbed
    <3>2. hard' = hard
      BY <1>5 DEF Elsewhere
    <3>3. QED
      BY <3>1, <3>2, CorruptAssumption
      DEF corrupt_pending_registration, corrupt_binding, IsRecord, IInv, Types,
          TypeOK
  <2>3. QED
    BY <1>5, <2>1, <2>2 DEF Elsewhere
<1>6. CASE UNCHANGED host_vars
  BY <1>1, <1>6 DEF host_vars, vars
<1>7. QED
  BY <1>1, <1>2, <1>3, <1>4, <1>5, <1>6 DEF HostNext, HostStep

\* A handler that is to end a session goes on until the user is logged out.
LEMMA TeardownsGoOn ==
    ASSUME HInv, LInv, [HostNext]_host_vars, Undisturbed, NEW s \in Sessions,
           Ending(s)
    PROVE  Ending(s)' \/ users'[s] \notin Users
<1> USE HostFacts
<1>1. PICK u \in Tasks :
         /\ handler[u] # Absent /\ handler[u].next = "revoke"
         /\ handler[u].sid = s
  BY DEF Ending, Handling
<1>2. ASSUME handler'[u] # Absent, handler'[u].next = "revoke",
             handler'[u].sid = s
      PROVE  Ending(s)'
  BY <1>2 DEF Ending, Handling
<1>3. ASSUME NEW t \in Tasks \ {u}, requests(t) \/ HostStep(t) \/ fails(t)
      PROVE  Ending(s)'
  BY <1>1, <1>2, <1>3, OthersUntouched
<1>4. CASE requests(u)
  BY <1>1, <1>4, RequestsAreTyped DEF handle
<1>5. CASE begins(u)
  <2>1. PICK h, k :
           h = handler[u] /\ k = [h EXCEPT !.req.jwt = Absent, !.req.id = NoNonce]
    OBVIOUS
  <2>2. h \in Handlers /\ handler'[u] = k
    BY <1>1, <1>5, <2>1 DEF begins
  <2>3. k.sid = h.sid /\ k.next = h.next /\ k \in Handlers
    BY <2>1, <2>2, BegunHandler, ZenonT(60)
  <2>4. QED
    BY <1>1, <1>2, <2>1, <2>2, <2>3, NoHandlerAssumption
<1>6. CASE works(u)
  BY <1>1, <1>2, <1>6 DEF works, host
<1>7. CASE gate(u) \/ fails(u)
  BY <1>1, <1>7 DEF gate, Handling, fails, abandon, Undisturbed
<1>8. CASE resumes(u)
  <2>1. /\ call[u] # Absent /\ call[u].op \in {"revoke", "advertise"}
        /\ Drawn(u) /\ Linked(u)
    BY <1>1, <1>8
    DEF resumes, answer, Prepared, Awaits, LInv, HandlersLinked
  <2>2. CASE resumes_gate(u)
    BY <1>1, <1>2, <2>2 DEF resumes_gate, Handling, Goes_on
  <2>3. CASE resumes_revoke(u)
    BY <1>1, <2>3, UnknownAssumption DEF resumes_revoke
  <2>4. CASE resumes_login(u)
    <3>1. CASE users[s] = Absent
      BY <1>1, <2>4, <3>1 DEF resumes_login
    <3>2. CASE users[s] # Absent
      <4>1. handler[u].new # s /\ handler[u].new \in Sessions
        BY <1>1, <2>1, <2>4, <3>2 DEF resumes_login, Drawn
      <4>2. users' = [users EXCEPT ![s] = Absent,
                                   ![handler[u].new] = handler[u].req.login]
        BY <1>1, <2>4, <3>2 DEF resumes_login
      <4>3. QED
        BY <4>1, <4>2
    <3>3. QED
      BY <3>1, <3>2
  <2>5. QED
    BY <1>8, <2>1, <2>2, <2>3, <2>4
    DEF resumes, resumes_offer_or_register, resumes_issue, resumes_refresh,
        Serving
<1>9. CASE Elsewhere \/ UNCHANGED host_vars
  BY <1>1, <1>2, <1>9 DEF Elsewhere, host_vars, host
<1>10. QED
  BY <1>3, <1>4, <1>5, <1>6, <1>7, <1>8, <1>9 DEF HostNext, HostStep

\* The invariant holds.
LEMMA TeardownNext ==
    ASSUME Undisturbed
    PROVE  HInv /\ LInv /\ DInv /\ [HostNext]_host_vars => DInv'
<1> SUFFICES ASSUME HInv, LInv, DInv, [HostNext]_host_vars PROVE DInv'
  OBVIOUS
<1> USE HostFacts
<1>1. sent \subseteq sent'
  BY RequestsAreTyped
  DEF HostNext, HostStep, handle, begins, works, gate, resumes, fails,
      resumes_offer_or_register, resumes_issue, resumes_refresh, resumes_gate,
      resumes_revoke, resumes_login, Responds, Fails, Goes_on, Elsewhere,
      host_vars, host
<1>2. ASSUME NEW t \in Tasks, works(t)
      PROVE  /\ hard' = hard \union {s \in Sessions : IsRecord(binding'[s])}
             /\ sent' = sent /\ handler' = handler
  BY <1>2 DEF works, host
<1>3. hard' \subseteq sent'
  <2>1. ASSUME NEW t \in Tasks, works(t), NEW s \in Sessions,
               IsRecord(binding'[s])
        PROVE  s \in sent
    BY <2>1, WorksOnBindings DEF DInv
  <2>2. QED
    BY <1>1, <1>2, <2>1, OthersOnBindings DEF DInv, HostTypeOK
<1>4. ASSUME NEW s \in Sessions, IsRecord(binding'[s])
      PROVE  s \in hard'
  BY <1>2, <1>4, OthersOnBindings DEF DInv
<1>5. ASSUME NEW s \in Sessions, s \in hard', users'[s] \in Users,
             binding'[s] = Absent
      PROVE  Ending(s)'
  <2>1. s \in hard /\ s \in sent
    <3>1. ~ IsRecord(binding'[s])
      BY <1>5 DEF IsRecord
    <3>2. QED
      BY <1>2, <1>5, <3>1, OthersOnBindings DEF DInv
  <2>2. users[s] \in Users
    BY <1>5, <2>1, LoginsAreFresh, UnknownAssumption
  <2>3. CASE binding[s] = Absent
    BY <1>5, <2>1, <2>2, <2>3, TeardownsGoOn DEF DInv
  <2>4. CASE binding[s] # Absent
    <3>1. PICK t \in Tasks : works(t)
      BY <1>5, <2>4, OthersOnBindings
    <3>2. Handling(t, "revoke") /\ handler[t].sid = s /\ handler' = handler
      BY <1>2, <1>5, <2>4, <3>1, WorksOnBindings
    <3>3. QED
      BY <3>2 DEF Ending, Handling
  <2>5. QED
    BY <2>3, <2>4
<1>6. hard' \subseteq Sessions
  BY <1>2, OthersOnBindings DEF HostTypeOK
<1>7. QED
  BY <1>3, <1>4, <1>5, <1>6 DEF DInv

\* If no record expires and no handler dies, a session that was bound is served
\* on cookie authentication only while a request is ending it: the gate finds
\* no binding only after the delete of a revoke() whose handler logs the user
\* out behind it.
THEOREM BoundSessionsDoNotDegrade ==
    ASSUME Undisturbed
    PROVE  HostSpec => DegradesOnlyInTeardown
<1> DEFINE Act == \A t \in Tasks :
          /\ Handling(t, "get_binding")
          /\ call[t] = Absent /\ Serving(t, "advertise", "check")'
          /\ users[handler[t].sid] \in Users
          /\ handler[t].sid \in hard
          /\ call'[t].read = Absent
          => \E u \in Tasks : /\ Handling(u, "revoke")
                              /\ handler[u].sid = handler[t].sid
<1>1. HostInit => DInv
  BY DEF HostInit, Init, Init_store, DInv, IsRecord
<1>2. HInv /\ DInv /\ [HostNext]_host_vars => [Act]_host_vars
  <2> SUFFICES ASSUME HInv, DInv, HostNext, NEW t \in Tasks,
                      Handling(t, "get_binding"), call[t] = Absent,
                      Serving(t, "advertise", "check")',
                      users[handler[t].sid] \in Users, handler[t].sid \in hard,
                      call'[t].read = Absent
               PROVE  Ending(handler[t].sid)
    BY DEF Ending
  <2> USE HostFacts
  <2>1. call'[t] # call[t]
    BY DEF Serving
  <2>2. requests(t) \/ HostStep(t) \/ fails(t)
    <3>1. ASSUME NEW u \in Tasks \ {t}, requests(u) \/ HostStep(u) \/ fails(u)
          PROVE  FALSE
      BY <2>1, <3>1, OthersUntouched
    <3>2. ~ Elsewhere
      BY <2>1 DEF Elsewhere, Tick, Disturb
    <3>3. QED
      BY <3>1, <3>2 DEF HostNext
  <2>3. begins(t)
    <3>1. ~ requests(t)
      BY <2>1, RequestsAreTyped DEF handle, vars
    <3>2. ~ works(t)
      BY CallStays, NoHandlerAssumption DEF works
    <3>3. ~ gate(t) /\ ~ resumes(t) /\ ~ fails(t)
      BY DEF gate, Serving, resumes, answer, fails, abandon
    <3>4. QED
      BY <2>2, <3>1, <3>2, <3>3 DEF HostStep
  <2>4. get_binding(t, handler[t].sid, handler[t].user)
    BY <2>3 DEF begins, Handling
  <2>5. binding[handler[t].sid] = Absent
    BY <2>4 DEF get_binding, Begin, Goes
  <2>6. QED
    BY <2>5 DEF DInv
<1>3. QED
  BY <1>1, <1>2, TeardownNext, HostInvariance, LinkedInvariance, PTL
  DEF HostSpec, DegradesOnlyInTeardown

------------------------------------------------------------------------------
(* The enforcement gate.                                                     *)

\* What DbscServer knows of the bindings that its calls hold, the host knows.
LEMMA HostReads == HostSpec => []RInv
BY HostImplementsServer, ReadsInvariance, PTL

\* A page is served as DBSC-bound only with the cookie that was current in the
\* binding the gate read, with the one before it within the lifetime it was
\* minted with, or as a subresource within the grace of the registration,
\* though the binding may have been rotated, replaced or removed since the read.
THEOREM ExposureIsBounded == HostSpec => ExposureBounded
<1> DEFINE Act == \A t \in Tasks :
          Handling(t, "get_binding") /\ Handling(t, "bound")' =>
             LET req == handler[t].req
                 b == call[t].read
             IN  \/ req.cookie = b.cookie_value
                 \/ /\ req.cookie = b.previous_cookie_value
                    /\ \E m \in minted :
                          m.nonce = req.cookie /\ now < m.at + CookieMaxAge
                 \/ /\ ~ req.document
                    /\ \E g \in registered :
                          /\ g.sid = b.session_identifier
                          /\ now < g.at + RegistrationGrace
<1>1. HInv /\ RInv /\ [HostNext]_host_vars => [Act]_host_vars
  <2> SUFFICES ASSUME HInv, RInv, HostNext, NEW t \in Tasks,
                      Handling(t, "get_binding"), Handling(t, "bound")'
               PROVE  LET req == handler[t].req
                          b == call[t].read
                      IN  \/ req.cookie = b.cookie_value
                          \/ /\ req.cookie = b.previous_cookie_value
                             /\ \E m \in minted :
                                   /\ m.nonce = req.cookie
                                   /\ now < m.at + CookieMaxAge
                          \/ /\ ~ req.document
                             /\ \E g \in registered :
                                   /\ g.sid = b.session_identifier
                                   /\ now < g.at + RegistrationGrace
    OBVIOUS
  <2> USE HostFacts
  <2>1. /\ handler[t] # Absent /\ handler[t].next = "get_binding"
        /\ handler'[t] # Absent /\ handler'[t].next = "bound"
        /\ handler[t] \in Handlers /\ Prepared(t)
    BY DEF Handling
  <2>2. gate(t)
    <3>1. ASSUME NEW u \in Tasks \ {t}, requests(u) \/ HostStep(u) \/ fails(u)
          PROVE  FALSE
      BY <2>1, <3>1, OthersUntouched
    <3>2. ~ Elsewhere
      BY <2>1 DEF Elsewhere, host
    <3>3. ~ requests(t)
      BY <2>1, RequestsAreTyped DEF handle
    <3>4. ~ begins(t)
      <4>1. ASSUME begins(t) PROVE handler'[t].next = handler[t].next
        <5>1. handler'[t] =
                 [handler[t] EXCEPT !.req.jwt = Absent, !.req.id = NoNonce]
          BY <4>1 DEF begins
        <5>2. QED
          BY <2>1, <5>1 DEF Handlers
      <4>2. QED
        BY <2>1, <4>1
    <3>5. ~ works(t) /\ ~ fails(t)
      BY <2>1 DEF works, host, fails, Fails
    <3>6. ~ resumes(t)
      <4>1. ASSUME resumes(t) PROVE FALSE
        <5>1. call[t] # Absent /\ call[t].op = "advertise"
          BY <2>1, <4>1 DEF resumes, answer, Prepared, Awaits
        <5>2. resumes_gate(t)
          BY <4>1, <5>1
          DEF resumes, resumes_offer_or_register, resumes_issue,
              resumes_refresh, resumes_revoke, resumes_login, Serving
        <5>3. QED
          BY <2>1, <5>2 DEF resumes_gate, Handling
      <4>2. QED
        BY <4>1
    <3>7. QED
      BY <3>1, <3>2, <3>3, <3>4, <3>5, <3>6 DEF HostNext, HostStep
  <2>3. PICK h, b : h = handler[t] /\ b = call[t].read
    OBVIOUS
  <2>4. b \notin {Absent, Corrupt} /\ admitted(h, b, now)
    <3>1. PICK verdict :
             /\ verdict = IF b = Absent THEN "cookie auth"
                          ELSE IF b # Corrupt /\ admitted(h, b, now)
                          THEN "bound" ELSE "revoke"
             /\ handler' = [handler EXCEPT ![t].next = verdict,
                                           ![t].req.cookie = NoNonce,
                                           ![t].req.document = TRUE]
      BY <2>2, <2>3 DEF gate
    <3>2. handler'[t].next = verdict
      BY <2>1, <3>1 DEF Handlers
    <3>3. verdict = "bound"
      BY <2>1, <3>2
    <3>4. QED
      BY <3>1, <3>3
  <2>5. /\ call[t] # Absent /\ call[t].op = "advertise"
        /\ b \in Binding /\ now \in Nat
    BY <2>2, <2>3, <2>4
    DEF gate, Serving, IInv, CallsRemember, Active, Remembers, Types, TypeOK
  <2>6. Dated(b) /\ Recorded(b)
    BY <2>3, <2>5 DEF RInv, ReadsAreSound, Sound
  <2>7. CASE bound_cookie_matches(b, h.user, h.req.cookie, now)
    BY <2>3, <2>6, <2>7 DEF bound_cookie_matches, Dated
  <2>8. CASE ~ h.req.document /\ is_within_registration_grace(b, now)
    <3>1. PICK g \in registered :
             g.sid = b.session_identifier /\ g.at = b.created_at
      BY <2>6 DEF Recorded
    <3>2. b.created_at \in Nat /\ RegistrationGrace \in Nat
      BY <2>5, GraceAssumption DEF Binding
    <3>3. now < g.at + RegistrationGrace
      BY <2>5, <2>8, <3>1, <3>2 DEF is_within_registration_grace
    <3>4. QED
      BY <2>3, <2>8, <3>1, <3>3
  <2>9. QED
    BY <2>4, <2>7, <2>8 DEF admitted
<1>2. QED
  BY <1>1, HostReads, HostInvariance, PTL DEF HostSpec, ExposureBounded
==============================================================================

-------------------------------- MODULE Host ---------------------------------
(***************************************************************************)
(* DemoApp, the reference host of examples/demo_server.py: login, logout,   *)
(* the two DBSC endpoints and a page behind the enforcement gate, composed  *)
(* with DbscServer.                                                         *)
(*                                                                         *)
(* A task of DbscServer serves one HTTP request.  Its handler holds the     *)
(* request and the next DbscServer operation it will await: the handler     *)
(* begins that call, the call takes its steps, and the code behind the      *)
(* await runs in the step in which the call answers.  _sessions is one      *)
(* process's dictionary, so it changes only in those steps.  sent and hard  *)
(* are history: the session ids that clients know, and the sessions that    *)
(* were bound once.                                                         *)
(***************************************************************************)
EXTENDS DbscServer

CONSTANT RegistrationGrace  \* Config.registration_grace_seconds

ASSUME GraceAssumption == RegistrationGrace \in 0 .. 60
ASSUME SessionsAssumption == Absent \notin Sessions \union UserIds \union Jwts

VARIABLES
    users,    \* _sessions: the user of a session, Absent if it has no entry
    handler,  \* the request each task serves, Absent for none
    sent,     \* history: session ids that reached a client
    hard      \* history: sessions that were bound

host == <<users, handler, sent>>
host_vars == <<vars, host, hard>>

Routes == {"home", "login", "logout", "account", "register", "refresh"}

\* What the code awaits next, or, behind the gate, how it will serve the page.
Nexts == {"offer", "register", "issue", "refresh", "get_binding", "revoke",
          "cookie auth", "bound"}

\* A request: the session id and the bound cookie it carries, who logs in, the
\* proof (Absent without the header) and the session identifier it presents.
HttpRequests ==
    [route : Routes, session : Sessions \union {Absent}, login : UserIds,
     cookie : Nat, document : BOOLEAN, jwt : Jwts \union {Absent}, id : Nat]

\* The locals of handle(): the request (its session id, and the proof and the
\* cookie once they have been passed on, are left out), its session, the user of
\* its context, the session id drawn for it, if any, whether the response of a
\* revoke was applied to its own, and what comes next.
Handlers ==
    [req : HttpRequests, sid : Sessions, user : UserIds,
     new : Sessions \union {Absent}, deletes : BOOLEAN, next : Nexts]

ASSUME NoHandlerAssumption == Absent \notin Calls \union Handlers

Handling(t, next) == handler[t] # Absent /\ handler[t].next = next

------------------------------------------------------------------------------
(* The enforcement gate, on bound_cookie_matches of module Records.          *)

is_within_registration_grace(b, at) == at - b.created_at < RegistrationGrace

\* The policy of _account: who is let in with the binding b.
admitted(h, b, at) ==
    h.req.document \/ ~ is_within_registration_grace(b, at)
    => bound_cookie_matches(b, h.user, h.req.cookie, at)

------------------------------------------------------------------------------
(* A request arrives.                                                       *)

\* secrets.token_urlsafe: a session id nobody ever had.  Which one does not
\* matter.
NewIds ==
    {s \in Sessions : /\ users[s] = Absent /\ s \notin sent
                      /\ \A t \in Tasks :
                            handler[t] # Absent => handler[t].new # s}
NewId == CHOOSE s \in NewIds : TRUE

\* Mutant: any session id a client presents is taken for a known one.
is_fresh_trusting(req) == req.session = Absent

\* The request needs a new session: it names none, or one that has no entry.
is_fresh(req) == req.session = Absent \/ users[req.session] = Absent

\* The first thing the handler of a request awaits; "none" if it answers at
\* once: a page without a session, a missing proof, a redirect to the login.
first_call(req, fresh, user) ==
    CASE req.route = "register" /\ req.jwt # Absent -> "register"
      [] req.route = "refresh" /\ req.jwt = Absent -> "issue"
      [] req.route = "refresh" /\ req.jwt # Absent -> "refresh"
      [] req.route = "login" /\ fresh -> "offer"
      [] req.route = "login" /\ ~ fresh -> "revoke"
      [] req.route = "logout" -> "revoke"
      [] req.route = "account" /\ user # Unknown -> "get_binding"
      [] OTHER -> "none"

\* Bound: every such handler in flight may still store one token.
Storing == {"login", "register", "refresh"}
Affordable(route) ==
    route \in Storing =>
       Cardinality(used) + Cardinality({t \in Tasks : handler[t] # Absent /\
                                           handler[t].req.route \in Storing})
       < MaxNonces

\* handle(), up to its first await.  The id a login will need is drawn here.
handle(t, req) ==
    /\ handler[t] = Absent
    /\ LET fresh == is_fresh(req)
           draws == fresh \/ req.route = "login"
           new == IF draws THEN NewId ELSE Absent
           sid == IF fresh THEN new ELSE req.session
           user == IF ~ fresh THEN users[sid]
                   ELSE IF req.route = "login" THEN req.login ELSE Unknown
           next == first_call(req, fresh, user)
       IN  /\ draws => NewIds # {}
           /\ next # "none" => Affordable(req.route)
           /\ users' = IF fresh THEN [users EXCEPT ![sid] = user] ELSE users
           /\ handler' = IF next = "none" THEN handler
                         ELSE [handler EXCEPT ![t] =
                                  [req |-> [req EXCEPT !.session = Absent],
                                   sid |-> sid, user |-> user, new |-> new,
                                   deletes |-> FALSE, next |-> next]]
           /\ sent' = IF next = "none" /\ fresh THEN sent \union {sid}
                      ELSE sent
    /\ UNCHANGED <<vars, hard>>

------------------------------------------------------------------------------
(* The handler awaits an operation of DbscServer.                           *)

begins(t) ==
    /\ handler[t] # Absent
    /\ LET h == handler[t] IN
       \/ /\ h.next = "offer"
          /\ build_registration_header_response(t, h.sid, h.user)
       \/ h.next = "register" /\ register(t, h.sid, h.user, h.req.jwt)
       \/ h.next = "issue" /\ issue_refresh_challenge(t, h.sid)
       \/ h.next = "refresh" /\ refresh(t, h.sid, h.user, h.req.jwt, h.req.id)
       \/ h.next = "get_binding" /\ get_binding(t, h.sid, h.user)
       \/ h.next = "revoke" /\ revoke(t, h.sid)
    /\ handler' = [handler EXCEPT ![t].req.jwt = Absent, ![t].req.id = NoNonce]
    /\ UNCHANGED <<users, sent, hard>>

works(t) ==
    /\ Works(t)
    /\ hard' = hard \union {s \in Sessions : IsRecord(binding'[s])}
    /\ UNCHANGED host

\* _account behind get_binding: serve the page, on cookie authentication or
\* bound, or terminate.  A bound document load goes on to advertise the seed.
gate(t) ==
    /\ Handling(t, "get_binding")
    /\ Serving(t, "advertise", "check")
    /\ LET h == handler[t]
           b == call[t].read
           verdict == IF b = Absent THEN "cookie auth"
                      ELSE IF b # Corrupt /\ admitted(h, b, now) THEN "bound"
                      ELSE "revoke"
       IN  /\ handler' = [handler EXCEPT ![t].next = verdict,
                                         ![t].req.cookie = NoNonce,
                                         ![t].req.document = TRUE]
           /\ IF verdict = "bound" /\ h.req.document THEN advertise_check(t)
              ELSE get_binding_returns(t)
    /\ UNCHANGED <<users, sent, hard>>

------------------------------------------------------------------------------
(* The operation answered, and the handler goes on.                         *)

\* It awaits the next operation.
Goes_on(t, h) == handler' = [handler EXCEPT ![t] = h] /\ UNCHANGED sent

\* The response leaves, with the session id that was drawn for it.
Responds(t) ==
    /\ handler' = [handler EXCEPT ![t] = Absent]
    /\ sent' = sent \union ({handler[t].new} \ {Absent})

\* An exception reached on_connection: a bare 500 without any cookie.
Fails(t) == handler' = [handler EXCEPT ![t] = Absent] /\ UNCHANGED sent

\* Behind the offer of a login, and behind register(), whose errors are a 401.
resumes_offer_or_register(t) ==
    /\ Serving(t, "offer", "answer") \/ Serving(t, "register", "answer")
    /\ Responds(t)
    /\ UNCHANGED users

\* Mutant: a 403 without a challenge is not sent, the rotation is tried again.
resumes_issue_insisting(t) ==
    /\ Serving(t, "issue", "answer")
    /\ IF call[t].out = "ok" THEN Responds(t) ELSE Goes_on(t, handler[t])
    /\ UNCHANGED users

\* _refresh, behind its 403: nothing catches a CorruptStateError there.
resumes_issue(t) ==
    /\ Serving(t, "issue", "answer")
    /\ IF call[t].out = "CorruptStateError" THEN Fails(t) ELSE Responds(t)
    /\ UNCHANGED users

\* Mutant: nothing catches a RetryableRefreshError.
resumes_refresh_raising(t) ==
    /\ Serving(t, "refresh", "answer")
    /\ LET h == handler[t] IN
       CASE call[t].out = "ok" -> Responds(t)
         [] call[t].out \in Retryable -> Fails(t)
         [] OTHER -> Goes_on(t, [h EXCEPT !.next = "revoke"])
    /\ UNCHANGED users

\* _refresh, behind refresh().
resumes_refresh(t) ==
    /\ Serving(t, "refresh", "answer")
    /\ LET h == handler[t] IN
       CASE call[t].out = "ok" -> Responds(t)
         [] call[t].out \in Retryable -> Goes_on(t, [h EXCEPT !.next = "issue"])
         [] OTHER -> Goes_on(t, [h EXCEPT !.next = "revoke"])
    /\ UNCHANGED users

\* Mutant: a page that is refused is answered, and its session goes on.
resumes_gate_lenient(t) ==
    /\ Serving(t, "advertise", "answer")
    /\ Responds(t)
    /\ UNCHANGED users

\* _account, behind the gate.
resumes_gate(t) ==
    /\ Serving(t, "advertise", "answer")
    /\ \/ Handling(t, "revoke") /\ Goes_on(t, handler[t])
       \/ Handling(t, "cookie auth") /\ Responds(t)
       \/ /\ Handling(t, "bound")
          /\ IF call[t].out = "CorruptStateError" THEN Fails(t)
             ELSE Responds(t)
    /\ UNCHANGED users

\* Mutant: the session is torn down and the user stays logged in.
resumes_revoke_only(t) ==
    /\ Serving(t, "revoke", "answer")
    /\ handler[t].req.route # "login"
    /\ Responds(t)
    /\ UNCHANGED users

\* _terminate, a terminal refresh and logout, behind revoke().
resumes_revoke(t) ==
    /\ Serving(t, "revoke", "answer")
    /\ handler[t].req.route # "login"
    /\ users' = [users EXCEPT ![handler[t].sid] = Unknown]
    /\ Responds(t)

\* Mutant: a login keeps the session id it came with.
resumes_login_keeping(t) ==
    /\ Serving(t, "revoke", "answer")
    /\ handler[t].req.route = "login"
    /\ LET h == handler[t] IN
       /\ users' = [users EXCEPT ![h.sid] = h.req.login]
       /\ Goes_on(t, [h EXCEPT !.user = h.req.login, !.next = "offer"])

\* Mutant: the offer is made in the context the request came with.
resumes_login_stale(t) ==
    /\ Serving(t, "revoke", "answer")
    /\ handler[t].req.route = "login"
    /\ LET h == handler[t] IN
       IF users[h.sid] = Absent THEN Fails(t) /\ UNCHANGED users
       ELSE /\ users' = [users EXCEPT ![h.sid] = Absent, ![h.new] = h.req.login]
            /\ Goes_on(t, [h EXCEPT !.sid = h.new, !.next = "offer"])

\* Login, behind the revoke of the session it came with.  Another login may
\* have deleted its entry: KeyError.
resumes_login(t) ==
    /\ Serving(t, "revoke", "answer")
    /\ handler[t].req.route = "login"
    /\ LET h == handler[t] IN
       IF users[h.sid] = Absent THEN Fails(t) /\ UNCHANGED users
       ELSE /\ users' = [users EXCEPT ![h.sid] = Absent, ![h.new] = h.req.login]
            /\ Goes_on(t, [h EXCEPT !.sid = h.new, !.user = h.req.login,
                                    !.deletes = TRUE, !.next = "offer"])

resumes(t) ==
    /\ handler[t] # Absent
    /\ answer(t)
    /\ \/ resumes_offer_or_register(t) \/ resumes_issue(t)
       \/ resumes_refresh(t) \/ resumes_gate(t)
       \/ resumes_revoke(t) \/ resumes_login(t)
    /\ UNCHANGED hard

\* The handler dies half way (see abandon): the connection gets a 500 or none.
\* Bound: the ids it drew are lost, so some client must be left with a session.
fails(t) ==
    /\ \E s \in sent : users[s] # Absent
    /\ abandon(t)
    /\ Fails(t)
    /\ UNCHANGED <<users, hard>>

------------------------------------------------------------------------------
(* Clients, honest or not: any session id, cookie, proof and identifier that *)
(* was ever given out.                                                       *)

Visit(route, s) ==
    [route |-> route, session |-> s, login |-> Unknown, cookie |-> NoNonce,
     document |-> TRUE, jwt |-> Absent, id |-> NoNonce]

requests(t) ==
    \E s \in sent \union {Absent} :
        \/ \E route \in {"home", "logout"} : handle(t, Visit(route, s))
        \/ \E u \in Users : handle(t, [Visit("login", s) EXCEPT !.login = u])
        \/ \E c \in used \union {NoNonce}, d \in BOOLEAN :
              handle(t, [Visit("account", s) EXCEPT !.cookie = c,
                                                    !.document = d])
        \/ \E jwt \in PresentedJwts \union {Absent} :
              handle(t, [Visit("register", s) EXCEPT !.jwt = jwt])
        \/ \E jwt \in PresentedJwts \union {Absent}, id \in PresentedIds :
              handle(t, [Visit("refresh", s) EXCEPT !.jwt = jwt, !.id = id])

------------------------------------------------------------------------------
HostInit ==
    /\ Init
    /\ users = [s \in Sessions |-> Absent]
    /\ handler = [t \in Tasks |-> Absent]
    /\ sent = {}
    /\ hard = {}

HostStep(t) == begins(t) \/ works(t) \/ gate(t) \/ resumes(t)

\* Time passes and records decay, whatever the host does.
Elsewhere == (Tick \/ Disturb) /\ UNCHANGED <<host, hard>>

HostNext ==
    \/ \E t \in Tasks : requests(t) \/ HostStep(t) \/ fails(t)
    \/ Elsewhere

HostSpec == HostInit /\ [][HostNext]_host_vars

FairHostSpec == HostSpec /\ \A t \in Tasks : WF_host_vars(HostStep(t))

------------------------------------------------------------------------------
(* Properties                                                               *)

\* Type invariant.
HostTypeOK ==
    /\ users \in [Sessions -> UserIds \union {Absent}]
    /\ handler \in [Tasks -> Handlers \union {Absent}]
    /\ sent \subseteq Sessions
    /\ hard \subseteq Sessions

\* A session nobody is logged in to has neither an offer nor a binding, whatever
\* logins, registrations and teardowns cross each other: every way out of a
\* login goes through revoke(), and nothing written later brings either back.
LoggedOutIsUnbound ==
    \A s \in Sessions : users[s] \notin Users =>
        pending[s] = Absent /\ binding[s] = Absent

\* The records of a session that is logged in are those of its user: no offer
\* and no binding of an earlier login, or of nobody, is found there, although
\* the context of a request is built before the awaits that it is used behind.
RecordsAreOwn ==
    \A s \in Sessions : users[s] \in Users =>
        /\ IsRecord(pending[s]) => pending[s].user_id = users[s]
        /\ IsRecord(binding[s]) => binding[s].user_id = users[s]

\* demo_server.py, login: "A new session id at login, so an id planted before
\* login is worthless".  No id that was ever given out logged out, or was logged
\* out, becomes the id of a login, though handlers write _sessions after awaits.
NoFixation ==
    [][\A s \in Sessions : users[s] = Unknown \/ s \in sent =>
          users'[s] \in {users[s], Unknown, Absent}]_host_vars

\* bound_cookie_matches: "The exposure stays bounded".  A request is served as
\* DBSC-bound only with the cookie that was current when the gate read the
\* binding, or with the one before it during the lifetime it was minted with,
\* or as a subresource within the grace of the registration itself.
ExposureBounded ==
    [][\A t \in Tasks :
          Handling(t, "get_binding") /\ Handling(t, "bound")' =>
             LET req == handler[t].req
                 b == call[t].read
             IN  \/ req.cookie = b.cookie_value
                 \/ /\ req.cookie = b.previous_cookie_value
                    /\ \E m \in minted :
                          m.nonce = req.cookie /\ now < m.at + CookieMaxAge
                 \/ /\ ~ req.document
                    /\ \E g \in registered :
                          /\ g.sid = b.session_identifier
                          /\ now < g.at + RegistrationGrace]_host_vars

\* Every HTTP request is answered.
EveryRequestAnswered ==
    \A t \in Tasks : handler[t] # Absent ~> handler[t] = Absent

\* SECURITY.md and refresh(): on a terminal failure the caller must end the
\* session server-side.  Once a handler decides to tear a session down, its user
\* is eventually logged out.
RefusedIsLoggedOut ==
    \A s \in Sessions :
        (\E t \in Tasks : Handling(t, "revoke") /\ handler[t].sid = s)
        ~> users[s] \notin Users

\* demo_server.py, _account: without a binding, a session "Never registered
\* (unsupported browser / not yet)" is served on cookie authentication.  If no
\* record expires and no handler dies, that befalls a session that was bound only
\* while a request of its own is ending it: the binding goes before the login.
DegradesOnlyInTeardown ==
    [][\A t \in Tasks :
          /\ Handling(t, "get_binding")
          /\ call[t] = Absent /\ Serving(t, "advertise", "check")'
          /\ users[handler[t].sid] \in Users
          /\ handler[t].sid \in hard
          /\ call'[t].read = Absent
          => \E u \in Tasks : /\ Handling(u, "revoke")
                              /\ handler[u].sid = handler[t].sid]_host_vars
==============================================================================

------------------------------- MODULE Browser -------------------------------
(***************************************************************************)
(* One DBSC-capable browser of an honest user, talking to Host.  It is not  *)
(* part of the repository: it is modelled from what the code and README.md  *)
(* expect of it.  It signs the challenge it is offered, keeps the bound     *)
(* cookie for its Max-Age, defers requests while that cookie is dead and    *)
(* refreshes it, and retries a refresh that is answered with a challenge.   *)
(*                                                                         *)
(* A request leaves the browser in the step in which Host accepts it; what  *)
(* it carries is fixed then, and it may be delayed as long as its handler   *)
(* takes to begin.  Its reply is in flight until it is received or lost.    *)
(*                                                                         *)
(* Time runs in ticks, a fraction of a second each.  The browser counts a   *)
(* Max-Age in ticks; the server reads int(clock()), whole seconds.          *)
(***************************************************************************)
EXTENDS Host

CONSTANTS
    TicksPerSecond, \* the ticks of a second
    Latency,        \* ticks a request and its reply may take together
    Lossy,          \* the routes whose replies may get lost
    Profiles,       \* how early, in ticks, the browser may refresh a cookie and
                    \* must take it for dead before it expires, and, bound, how
                    \* many replies get lost
    Patient         \* whether the user waits for a registration to complete

ASSUME NetworkAssumption ==
    /\ TicksPerSecond \in Nat \ {0} /\ Latency \in Nat
    /\ Lossy \subseteq Routes
ASSUME HabitsAssumption ==
    /\ Profiles \subseteq [early : Nat, margin : Nat, losses : Nat]
    /\ Patient \in BOOLEAN
ASSUME KeyAssumption == Keys # {}

\* A DBSC session of the browser, and what a reply tells the browser.
Devices == [id : Nat, challenge : Nat]
Replies ==
    [route : Routes, status : {"ok", "error", "refused", "challenged"},
     sid : Sessions \union {Absent}, offer : Nat, cookie : Nat,
     deletes : BOOLEAN, id : Nat, challenge : Nat]

ASSUME NothingAssumption == Absent \notin Devices \union Replies

VARIABLES
    frac,     \* the ticks of the current second that have passed
    jar,      \* the session id and the bound cookie, and when that expires
    device,   \* the DBSC session: its identifier and challenge, or Absent
    offered,  \* the challenge of a registration offer, NoNonce for none
    reply,    \* the reply on its way to each task's request, or Absent
    left,     \* when the request of each task left, 0 if it was received
    losses,   \* replies lost so far
    profile   \* the profile of this browser and its network

browser == <<jar, device, offered>>
network == <<reply, left, losses, profile>>
browser_vars == <<host_vars, frac, browser, network>>

\* The instant, of which the server sees the second.
Ticks(seconds) == seconds * TicksPerSecond
clock == Ticks(now) + frac

key == CHOOSE k \in Keys : TRUE

Live == jar.cookie # NoNonce /\ clock + profile.margin < jar.until
presented == IF Live THEN jar.cookie ELSE NoNonce

\* Whether a request in scope is sent at once; otherwise it waits for a refresh.
InScope == device = Absent \/ Live

LoggedIn == jar.sid # Absent /\ users[jar.sid] \in Users

InFlight(t) == handler[t] # Absent \/ reply[t] # Absent
Idle == \A t \in Tasks : ~ InFlight(t)
Pending(route) ==
    \E t \in Tasks : \/ handler[t] # Absent /\ handler[t].req.route = route
                     \/ reply[t] # Absent /\ reply[t].route = route

------------------------------------------------------------------------------
(* Requests.                                                                *)

sends(t, req) ==
    /\ ~ InFlight(t)
    /\ ~ Pending("login") /\ ~ Pending("logout")
    /\ handle(t, req)
    /\ left' = [left EXCEPT ![t] = clock]
    /\ UNCHANGED <<frac, jar, device, reply, losses, profile>>

logs_in(t) ==
    /\ Idle /\ InScope
    /\ ~ LoggedIn
    /\ \E u \in Users : sends(t, [Visit("login", jar.sid) EXCEPT !.login = u])
    /\ UNCHANGED offered

logs_out(t) ==
    /\ Idle /\ InScope
    /\ LoggedIn
    /\ sends(t, Visit("logout", jar.sid))
    /\ UNCHANGED offered

\* A page load, or a request of a page that is open.
loads(t) ==
    /\ InScope
    /\ jar.sid # Absent
    /\ \E d \in BOOLEAN :
          /\ Patient /\ d => offered = NoNonce /\ ~ Pending("register")
          /\ sends(t, [Visit("account", jar.sid) EXCEPT !.cookie = presented,
                                                        !.document = d])
    /\ UNCHANGED offered

registers(t) ==
    /\ offered # NoNonce
    /\ sends(t, [Visit("register", jar.sid) EXCEPT
                    !.jwt = [key |-> key, jti |-> offered]])
    /\ offered' = NoNonce

\* One refresh at a time, with the challenge it holds, if it holds one.
refreshes(t) ==
    /\ device # Absent
    /\ ~ Pending("refresh")
    /\ ~ Live \/ clock + profile.early >= jar.until
    /\ sends(t, [Visit("refresh", jar.sid) EXCEPT
                    !.jwt = IF device.challenge = NoNonce THEN Absent
                            ELSE [key |-> key, jti |-> device.challenge],
                    !.id = device.id])
    /\ UNCHANGED offered

------------------------------------------------------------------------------
(* Replies.                                                                 *)

Nothing ==
    [route |-> "home", status |-> "ok", sid |-> Absent, offer |-> NoNonce,
     cookie |-> NoNonce, deletes |-> FALSE, id |-> NoNonce,
     challenge |-> NoNonce]

\* The response of the handler h whose last call c is answered: its headers and
\* cookies.  The deletion of the bound cookie comes with revoke(), and a login
\* applies it to its own response.
response(h, c) ==
    LET r == [Nothing EXCEPT !.route = h.req.route, !.sid = h.new,
                             !.deletes = h.deletes \/ c.op = "revoke"]
    IN
    CASE c.out = "CorruptStateError" /\ c.op \in {"issue", "advertise"}
            -> [r EXCEPT !.status = "error", !.sid = Absent]
      [] c.op = "offer" -> [r EXCEPT !.offer = c.nonce]
      [] c.op = "register" /\ c.out = "ok"
            -> [r EXCEPT !.cookie = c.nonce, !.id = c.nonce]
      [] c.op = "register" /\ c.out # "ok" -> [r EXCEPT !.status = "refused"]
      [] c.op = "refresh" /\ c.out = "ok"
            -> [r EXCEPT !.cookie = c.nonce, !.challenge = c.nonce,
                         !.id = c.read.session_identifier]
      [] c.op = "refresh" /\ c.out # "ok" -> [r EXCEPT !.status = "error"]
      [] c.op = "issue" /\ c.out \in {"ok", "unchanged"} /\ IsRecord(c.read)
            -> [r EXCEPT !.status = "challenged",
                         !.challenge = IF c.out = "ok" THEN c.nonce
                                       ELSE c.read.challenge,
                         !.id = c.read.session_identifier]
      [] c.op = "issue" /\ c.out = "unchanged" /\ ~ IsRecord(c.read)
            -> [r EXCEPT !.status = "refused"]
      [] c.op = "advertise" /\ c.out = "ok"
            -> [r EXCEPT !.challenge = c.read.challenge,
                         !.id = c.read.session_identifier]
      [] c.op = "revoke" /\ h.req.route = "refresh"
            -> [r EXCEPT !.status = "refused"]
      [] OTHER -> r

\* Host goes on; a handler that is done has sent its response.
served(t) ==
    /\ HostStep(t)
    /\ reply' = IF handler'[t] = Absent
                THEN [reply EXCEPT ![t] = response(handler[t], call[t])]
                ELSE reply
    /\ UNCHANGED <<frac, browser, left, losses, profile>>

\* Set-Cookie and Max-Age count from the moment they are read.
stored(r) ==
    LET j == IF r.sid # Absent THEN [jar EXCEPT !.sid = r.sid] ELSE jar IN
    IF r.cookie # NoNonce
    THEN [j EXCEPT !.cookie = r.cookie, !.until = clock + Ticks(CookieMaxAge)]
    ELSE IF r.deletes THEN [j EXCEPT !.cookie = NoNonce, !.until = 0]
    ELSE j

\* A registration creates the DBSC session, a refused refresh ends it, and a
\* challenge is kept if it names this session.
remembered(r) ==
    IF r.route = "register" /\ r.id # NoNonce
    THEN [id |-> r.id, challenge |-> NoNonce]
    ELSE IF r.route = "refresh" /\ r.status = "refused" THEN Absent
    ELSE IF device # Absent /\ r.challenge # NoNonce /\ r.id = device.id
    THEN [device EXCEPT !.challenge = r.challenge]
    ELSE device

receives(t) ==
    /\ reply[t] # Absent
    /\ jar' = stored(reply[t])
    /\ device' = remembered(reply[t])
    /\ offered' = IF reply[t].offer # NoNonce THEN reply[t].offer ELSE offered
    /\ reply' = [reply EXCEPT ![t] = Absent]
    /\ left' = [left EXCEPT ![t] = 0]
    /\ UNCHANGED <<host_vars, frac, losses, profile>>

\* The browser gives a request up when no reply may come any more.
loses(t) ==
    /\ reply[t] # Absent
    /\ reply[t].route \in Lossy
    /\ clock - left[t] >= Latency
    /\ losses < profile.losses
    /\ losses' = losses + 1
    /\ reply' = [reply EXCEPT ![t] = Absent]
    /\ left' = [left EXCEPT ![t] = 0]
    /\ UNCHANGED <<host_vars, frac, browser, profile>>

------------------------------------------------------------------------------
BrowserInit ==
    /\ HostInit
    /\ frac = 0
    /\ jar = [sid |-> Absent, cookie |-> NoNonce, until |-> 0]
    /\ device = Absent
    /\ offered = NoNonce
    /\ reply = [t \in Tasks |-> Absent]
    /\ left = [t \in Tasks |-> 0]
    /\ losses = 0
    /\ profile \in Profiles

\* A tick passes, unless something in flight would take too long; the last one
\* of a second is a tick of the server's clock.
HasTime == \A t \in Tasks : InFlight(t) => clock - left[t] < Latency
waits ==
    /\ \/ /\ HasTime
          /\ frac + 1 < TicksPerSecond
          /\ frac' = frac + 1
          /\ UNCHANGED host_vars
       \/ /\ Elsewhere
          /\ now' # now => HasTime /\ frac + 1 = TicksPerSecond
          /\ frac' = IF now' = now THEN frac ELSE 0
    /\ UNCHANGED <<browser, network>>

asks(t) ==
    logs_in(t) \/ logs_out(t) \/ loads(t) \/ registers(t) \/ refreshes(t)

BrowserNext ==
    \/ \E t \in Tasks : asks(t) \/ served(t) \/ receives(t) \/ loses(t)
    \/ waits

BrowserSpec == BrowserInit /\ [][BrowserNext]_browser_vars

\* The server serves, replies arrive unless they are lost, and the browser
\* refreshes a dead cookie when a request waits for it.
FairBrowserSpec ==
    /\ BrowserSpec
    /\ \A t \in Tasks : /\ WF_browser_vars(served(t))
                        /\ WF_browser_vars(receives(t))
    /\ WF_browser_vars(\E t \in Tasks : refreshes(t))

------------------------------------------------------------------------------
(* Properties                                                               *)

\* SECURITY.md, A09: "dbscRefreshFailed and dbscEnforcementTerminated stay
\* clean alerting signals".  The gate and the refresh endpoint never end the
\* session of a user who is logged in and uses the device that is bound.
HonestNotTerminated ==
    \A t \in Tasks :
        Handling(t, "revoke") /\ users[handler[t].sid] \in Users
        => handler[t].req.route \in {"login", "logout"}

\* The docstring of Binding: the prior cookie value is kept "until the instant
\* that value would itself have expired in the browser".  It is, to within a
\* second and the time a request and its reply take: the browser counts Max-Age
\* from the reply, and the server from the second in which it minted the cookie.
OverlapLastsInBrowser ==
    /\ jar.sid # Absent /\ IsRecord(binding[jar.sid])
    /\ jar.cookie # NoNonce
    /\ clock + Latency + (TicksPerSecond - 1) < jar.until
    => LET b == binding[jar.sid] IN
       jar.cookie = b.previous_cookie_value =>
          bound_cookie_matches(b, users[jar.sid], jar.cookie, now)

\* The same docstring, to the letter: the demoted cookie is accepted for as long
\* as the browser keeps it.
OverlapLastsToTheInstant ==
    /\ jar.sid # Absent /\ IsRecord(binding[jar.sid])
    /\ jar.cookie # NoNonce /\ clock < jar.until
    => LET b == binding[jar.sid] IN
       jar.cookie = b.previous_cookie_value =>
          bound_cookie_matches(b, users[jar.sid], jar.cookie, now)

\* A dead cookie of a bound session is replaced, or the session ends, whatever
\* replies are lost on the way: a proof of a challenge that was spent, or that a
\* lost reply replaced, is answered with another, and that one is accepted.
EventuallyRefreshed == (device # Absent /\ ~ Live) ~> (device = Absent \/ Live)
==============================================================================

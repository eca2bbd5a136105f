# A TLA+ model of dbsc-python

dbsc-python implements the server side of Device Bound Session Credentials: a
browser registers a device key for a host session, and from then on a short-lived
bound cookie can only be renewed with a proof signed by that key. This directory
models the protocol operations of the library, the stores they run on, the
reference host of `examples/demo_server.py` and a browser that talks to it,
checks them with TLC on small instances and proves their main safety properties
with TLAPS for all instances.

Paths below are relative to the repository (`src/dbsc/...` is the library).

## 1. The system

### Components, their state and their operations

| Component | State | Operations | Interacts with |
|---|---|---|---|
| `DbscServer` (`src/dbsc/server.py`), protocol operations | none of its own; locals of each coroutine | `build_registration_header_response`, `register`, `issue_refresh_challenge`, `refresh`, `advertise_refresh_challenge`, `revoke`, `get_binding` | awaits the store and the audit logger, asks the JWT verifier and the clock, mints tokens |
| `DbscServer`, gate primitives | none | `bound_cookie_matches`, `is_document_request`, `is_within_registration_grace` | pure reads for the host's enforcement gate |
| `Binding`, `PendingRegistration` (`binding.py`, `pending.py`) | immutable records | `with_challenge`, `mark_challenge_advertised`, `with_rotated_cookie_and_challenge`, JSON codecs | produced by the server, compared and kept by the store |
| `Store` (`store.py`) | for each host session an offer and a binding | put, get and delete of both, the conditional writes `commit_registration` and `replace_binding` | the only state that requests share |
| `InMemoryStore` (`store.py`) | two dictionaries of (JSON, expiry) | the same, with `_live` | implements `Store` |
| `JwtVerifier` (`jwt.py`) | none | `parse`, `verify_registration_jwt`, `verify_refresh_jwt` | cryptography |
| `Config` (`config.py`) | constants | `__post_init__` refuses bad lifetimes, paths and names | read by the server |
| Audit trail, exceptions (`audit.py`, `exceptions.py`) | none | which event is logged, which errors are retryable | awaited by the server before it answers |
| `RequestContext`, `DbscResponse`, scope, `_json`, `_validate` | immutable values | normalisation, formatting and validation of strings | arguments and results |
| `FileStore` (`examples/demo_server.py`) | a file per record, one `asyncio.Lock` | the operations of `Store`, each in several file steps in worker threads | implements `Store` |
| `DemoApp` (`examples/demo_server.py`) | `_sessions`: a user per session id | login, logout, the two endpoints, the account page behind the enforcement gate, `_terminate` | the reference host: awaits `DbscServer`, answers HTTP |
| the browser (not in the repository) | cookie jar, DBSC session, cached challenge | registers, refreshes, sends the bound cookie | the host, over a network that delays and loses replies |

### What is hard

Requests of one session overlap: several tabs, a refresh that the browser starts
by itself, page loads, logouts. Every operation of the server is *read, check,
write*, with awaits in between, and the server may run in several processes over
one store. So:

- what a call checked may no longer be what it writes over (a spent challenge, a
  rotated cookie, a removed offer, a revoked session);
- a lost conditional write is retried with the same proof against a record the
  call has not seen;
- records expire, or become unreadable, between any two steps;
- time passes between a check and its write, and times are stored with tokens
  that later writes demote; the server counts whole seconds, the browser does not;
- replies can be lost or late, and a handler can die after its write, so the
  browser's cookie and challenge can be behind the server's;
- the host's own session changes after the awaits of the library: between a
  `revoke` and the logout it is part of, and between two logins on one id;
- `FileStore` takes several steps for what its contract calls atomic, its reads
  take no lock, and the process may stop between any two steps;
- records come back from a store that older versions, and accidents, wrote to.

`PROJECT.json` lists these hazards one by one with their source lines.

### What makes it correct

- *Registration*: an offer binds at most once, never after a logout or a newer
  login removed it, and only within its TTL.
- *Refresh*: a challenge is spent once, by the device and the user of the
  registration, within its TTL; a refresh is never undone by a slower request.
- *Teardown*: a binding that is gone stays gone.
- *Advertising*: the seed challenge is handed out once.
- *Concurrency*: requests act "exactly as if [they] had arrived one after the
  other" (docstring of `DbscServer.refresh`), and every request is answered.
- *Stores*: every operation is atomic and reports what it did; a record is there for
  its lifetime and no longer; a crash loses at most an offer, and an offer never binds twice.
- *Gate*: a request is let in only with the current cookie, or with the one
  before it during its own lifetime, or as a subresource in the grace.
- *Host*: a session nobody is logged in to has neither offer nor binding, no id
  that was known is ever logged in, and a session that was refused is logged out.
- *Honest users*: the gate does not end their sessions, and a browser that lost
  replies gets back in step.
- *Codecs*: a record is read back as it was stored; a damaged one grants no more
  than it did; one of an older version still works.

## 2. The modules

| Module | Models |
|---|---|
| `Records` | the two records and their transitions, the lifetimes of `Config`, the verdict of the JWT verifier, and the checks of `register`, `refresh` and `advertise_refresh_challenge` in the order of the code |
| `Store` | the operations of the `Store` protocol on an offer and a binding per session, expiry and corruption |
| `StoreContract` | the `Store` protocol as a specification of its own: every operation atomic, with the value it returns, and a record that is there for its lifetime, to within a tolerance |
| `DbscServer` | the server: concurrent calls over a `Store`, and the properties |
| `SerialServer` | the abstract specification of the server: one step per granted request |
| `InMemoryStore` | the store of `store.py`, with expired entries that stay in the dictionaries |
| `Host` | `DemoApp`: handlers that await the operations of `DbscServer`, the enforcement gate, `_sessions` |
| `Browser` | one honest browser on `Host`, with a network between them (external, from what the code and its documentation expect) |
| `FileStore` | the store of the demo, file step by file step, with its lock and restarts |
| `Codec` | `to_json` and `from_json` of both records, on damaged and on old texts |
| `DbscServerInvariant` | the inductive invariant `IInv` of `DbscServer` |
| `DbscServerProofs`, `DbscServerStepProofs` | invariants, action properties and refinement of `DbscServer` |
| `InMemoryStoreProofs` | `InMemoryStore` implements `StoreContract` |
| `HostProofs`, `HostStepProofs` | the host implements `DbscServer`; logins are not fixated; logout, the gate, cookie authentication and whose records a session holds |
| `BrowserProofs` | the browser is a client of `Host`; its demoted cookie is accepted, and its session is not ended |
| `FileStoreProofs` | the lock, spent offers and reads of `FileStore`; its writes implement `StoreContract` |
| `CodecProofs` | what `from_json` makes of any written, damaged or old text |
| `MCDbscServer`, `MCInMemoryStore`, `MCHost`, `MCFileStore` | symmetry sets for TLC |
| `MCBrowser`, `MCCodec` | the browsers considered; the records that are written |

`DbscServer` and `SerialServer` instantiate `Store`; `StoreContract` extends it, so
the operations a store is shown to have are, definition for definition, those the
server is checked on. `Browser` extends `Host`, which extends `DbscServer`: a
request of the browser is served by the very steps the server is proved on.

### How `DbscServer` corresponds to the code

`pending` and `binding` are the store, `now` is `int(clock())`, and `call[t]` holds
the locals of the coroutine that task `t` runs: its arguments, the attempt, the
record read, the token drawn, the clock reading and the outcome. A call goes
through `get`, `check`, `write` and `answer`; each is one atomic step
because what is between two awaits interacts with nothing but the clock and the
random generator, and because a store operation takes effect at one instant.
Splitting a call exactly at its store accesses covers coroutines of one event
loop as well as several processes on one store.

| Step | Code |
|---|---|
| `register`, `refresh`, ... in `Request` | the call arrives and its first read takes effect |
| `offer_check`, `offer_put` | mint a challenge, `put_pending_registration` |
| `register_check` | `registration_outcome`, then the binding is built |
| `register_commit`, `register_loses` | `commit_registration`: True, False, or `CorruptStateError` |
| `issue_check`, `issue_replace`, `issue_loses` | the loop of `issue_refresh_challenge`; the read after it is one more round (`Gets`) that only looks |
| `refresh_check`, `refresh_replace`, `refresh_loses` | the loop of `refresh` with `_binding_proved_by` |
| `advertise_check`, `advertise_replace`, `advertise_loses` | the gate's `get_binding`, then `advertise_refresh_challenge` |
| `revoke`, `revoke_delete` | `was_bound`, then `delete` |
| `replace_raises` | a conditional write on an unreadable record |
| `get` | the read of a further attempt |
| `get_binding`, `get_binding_returns` | the gate's read, which `advertise_check` may follow |
| `answer` | the audit row (`audit_event`) and the response |
| `abandon` | the call never answers: cancelled, or the store or the audit logger raised |
| `Tick`, `Disturb` | time passes; a record expires or becomes unreadable |

Data is abstracted to what is compared. A token is a number, 0 the empty string;
one draw stands for all tokens minted together, because a token is compared only
with tokens of its own kind (`_nonce` is assumed not to collide). A JWT is the key it proves
and the challenge it signs. A client is unrestricted: it may present any
challenge that ever reached the store, signed by any key, with any identifier
ever registered. `registered`, `refreshed`, `withdrawn`, `advertised` and
`minted` are history, used by the properties; `minted` also says which
tokens are taken.

`advertise_refresh_challenge` receives the binding the gate read with `get_binding`:
the two are one call whose read may be arbitrarily old.

### How `Host` corresponds to the code

A task serves one HTTP request. `handler[t]` holds the locals of `DemoApp.handle`
and what it awaits `next`; `users` is `_sessions`, which only the event loop
changes, between two awaits.

| Step | Code |
|---|---|
| `handle` | `handle`, `_context` and `_new_session` up to the first await; a request that needs no await is answered here |
| `begins`, `works` | the awaited operation of `DbscServer` is called and takes its steps |
| `gate` | `_account` behind `get_binding`: cookie authentication, bound, or terminate; a bound document load goes on to advertise |
| `resumes_offer_or_register`, `resumes_issue`, `resumes_refresh`, `resumes_gate` | the code behind the await, with its `except` clauses |
| `resumes_revoke` | `_terminate`, logout and a terminal refresh: the login is taken away |
| `resumes_login` | login behind the revoke of the old session: `del`, new id, the user, then the offer; the `KeyError` of a second login |
| `fails` | the handler dies; `on_connection` sends a bare 500 or nothing |

The id a login draws behind its revoke is drawn when the request arrives: it is
random, and nobody sees it before. `sent` is which ids clients know, `hard`
which sessions were ever bound. Clients present any id, cookie, proof and
identifier that was given out.

### How `Browser` corresponds to the system

A request leaves in the step in which `Host` accepts it: `handle` reads only
`_sessions`, and what matters, the cookie and the proof it carries, is fixed then, while
the handler's first store access may be arbitrarily later. `response` is what
`Response.apply` makes of the operations' results.

Time runs in ticks, `TicksPerSecond` of them to a second. `clock` is the instant, `now` its second,
which is all that `int(clock())` lets the server see. `stored` is the cookie jar: `Max-Age`
counts in ticks from the moment a reply is received. (The demo computes it from a second reading of the clock, so it may be a
second less; the browser of the model keeps its cookie for the longer time.)

The browser follows the protocol: one refresh at a time,
requests in scope wait while the cookie is dead, a challenge is kept if it names
its session. Its habits and its network are parameters: `Profiles` (how early it may refresh a cookie, how long before the expiry
it must take it for dead, and how many replies get lost), `Patient` (the user loads no page while a registration is
under way), `Latency` (the ticks a request and its reply may take together) and `Lossy`.

### How the stores correspond to the code

`StoreContract` has for each record the last instant at which it must be found (`offer_until`,
`binding_until`). A record goes after it, never before, and is gone `Tolerance` later; when the process stops, an offer may go too.
`InMemoryStore` keeps this with `Tolerance` 0.

In `FileStore`, `body` is what each operation does under the lock: `check`, `unlink`, `fill` (the
temporary file, whose expiry is fixed there) and `rename`. `queue` is the
`asyncio.Lock`, first come first served. `Restart` keeps the files only. The clock
counts half seconds, because `int(time.time()) + ttl` is compared with `time.time()`. A read takes no lock and changes nothing: it is
one instant, which may come between any two steps of a write, so what it returns is an operator (`get_binding`,
`get_pending_registration`) of every state and needs no action. For the contract a write happens in its last step: until then the records are
those of `Seen_offer` and `Seen_binding`.

### How `Codec` corresponds to the code

A text is a record of members with a JSON type and a value, or no object at all.
`loses` drops a member, `mistypes` gives it another type, `garbles` puts
unsafe characters in, `breaks` makes it unreadable; a duplicate member or bad
JSON is `NotAnObject`. `from_json` is `complete`, `decoded_binding` and `safe`
in the order of the code.

## 3. What TLC checks

| Run | Properties | Shows |
|---|---|---|
| `races` | `ChallengeSingleUse`, `NoLostRotation`, `OneWay`, `SeedDeliveredOnce`, `OneAfterTheOther` | no interleaving of two requests spends a challenge twice, undoes a rotation, takes back a mark, or hands out the seed twice; `DbscServer` implements `SerialServer` |
| `teardown` | `ServerTypeOK`, `OfferSingleUse`, `DeviceBound`, `TornDownStaysDown` | with two users and devices, records that expire or become unreadable and calls that die at any moment: no retry loop goes past its attempts, offers bind once, a refresh commits only for the key and the user of the registration, and a binding that is gone never comes back |
| `clock` | `TimesTrue`, `ProofsAreYoung` | with time passing between any two steps, stored times are those of their tokens and no proof of an expired challenge commits |
| `in_memory_store` | `KeepsContract` | `InMemoryStore` implements `StoreContract`, with lifetimes that are exact |
| `host_sessions` | `HostTypeOK`, `LoggedOutIsUnbound`, `RecordsAreOwn`, `NoFixation` | two requests at a time on three session ids, unreadable records, handlers that die: a session nobody is logged in to has neither offer nor binding, and one that somebody is logged in to no record of nobody; an id known before a login is never logged in |
| `host_gate` | `ExposureBounded`, `DegradesOnlyInTeardown`, `EveryRequestAnswered`, `RefusedIsLoggedOut` | the gate lets in the current cookie, at any age, the one before it only within the lifetime it was minted with, and without either only a subresource in the grace of the registration; a bound session is served on cookie authentication only while it is being ended; every request is answered, and a session whose teardown was decided ends logged out |
| `browser` | `HonestNotTerminated`, `OverlapLastsInBrowser`, `EventuallyRefreshed` | for an eager browser that hears every reply and a lazy one that misses two, when the user waits for the registration and the browser takes a cookie for dead nearly a second and two round trips before it expires: the gate never ends its session; the demoted cookie is accepted until less than a second and a round trip before the browser drops it; and a dead cookie is replaced or the session ends |
| `file_store` | `TypeOK`, `OfferBindsOnce`, `ReadersFindTheRecord`, `WritesKeepContract` | with expiry, damage and a restart between any two steps: the writes of `FileStore` implement `StoreContract`, lifetimes included; the lock is left however an operation ends; an offer binds once; and a read in the middle of a write finds the record last stored whole, with two exceptions |
| `codec` | `RoundTrip`, `FailsClosed`, `NeverLocksOut` | bindings and offers of every shape, damaged in up to two members |
| `audit_teardown` | `TeardownAudited`, violated | finding 1 |
| `browser_navigates` | `HonestNotTerminated`, violated | finding 2 |
| `browser_overlap` | `OverlapLastsToTheInstant`, violated | finding 3 |

Each property of a passing run is also shown to fail for a wrong version of one
operation (the definitions commented *Mutant* next to the right ones): a dropped
check in the store, a challenge kept after it was spent, an ignored result of a
conditional write, a missing re-check, and so on.

### Bounds

- `MaxNonces` bounds the tokens that reach the store: 3 is an offer, a
  registration and a refresh; 4 adds a second refresh, a 403 or a new offer; 5, in
  `races`, has a registration, two refreshes and a 403, so a challenge can be
  demoted, spent and presented again. A request that would mint more is not begun, and one
  that has begun always finds a token: the bound stops requests, never a call
  in flight.
- Two tasks: every property is about a call and what happens between its steps,
  and the other task may serve any number of whole requests in between. Proofs
  cover more.
- `MaxUpdateAttempts` is 2 (3 in the code): the first attempt and a further one are the
  distinct cases; the proofs hold for every positive number.
- `CookieMaxAge` 1, `ChallengeTtl` 2 and `MaxTime` 3 are the smallest lifetimes that
  `Config` allows and a clock that passes both. Runs that are not about time stop the
  clock.
- One host session in the runs of `DbscServer`: requests of different sessions touch
  different keys of the store. The proofs hold for any number.
- With three tokens `teardown` has refreshes with a wrong key and a wrong user, but no registration that commits while a
  refresh of the one before is under way: for that `DeviceBound` rests on its theorem.
- `InMemoryStore`: two sessions, offers and bindings, lifetimes 1 and 2, five instants,
  so an entry can expire and be overwritten, read and compared after that.
- `Host`: two tasks; in `host_sessions` three session ids, so that two logins race on one, and
  `MaxNonces` 2, an offer and a registration; in `host_gate` one id, given out by a login, and 3, with a refresh. A request is begun only if the tokens its handler may store are left; a
  handler may die only while some client still has a session, because a drawn id that is lost
  with its handler is not reused.
  With one user and two tokens `host_sessions` tells records of that user from records of nobody; that the next user of an id finds nothing
  of the one before is what `RecordsBelongToTheUser` adds. In `host_gate` the retry loops compete with page loads and
  logouts, not with another refresh; that they end all the same follows from `ServerTypeOK`.
- `Browser`: `MaxNonces` is never reached; the clock (`MaxTime`) ends the behaviour. Two ticks make a second, so that a cookie can be minted in the
  middle of one. `Latency` 1 lets a request and its reply take half a second together, while others overlap with them in any order. A cookie of three
  seconds, taken for dead three ticks before it expires, leaves room for an early refresh and for a cookie that outlives its rotation.
  A browser that misses replies is one that
  waits until its cookie is dead (see the observations below). `browser` has one session id, the violations have two; one attempt
  (`MaxUpdateAttempts`) is the hardest case for the browser. The clock stops before a challenge expires: an expired one is
  answered like any other stale one, and `clock` is about that.
- `FileStore`: two callers, one session (a file belongs to one session), two offers and bindings,
  lifetimes of two seconds and one, four half seconds, an operation that takes at most one tick once it has begun, one restart and one damaged
  file: a binding can expire between the check and the rename of its replacement, which is the first of the two exceptions of `ReadersFindTheRecord`. A file is damaged only
  while no operation is half done, and no write takes longer than the record it makes lives (`HoldAssumption`).
- `InMemoryStore` and `FileStore` do not check that every call returns: an operation of the first is one step, and of the second a
  bounded number of file steps once it has the lock, which `TypeOK` shows is left.
- `Codec`: bindings before and after a refresh and a 403, with and without user, challenge and marks;
  damage to two members, since a decision of `from_json` looks at one member or at a value and its time.
  The run does not check for deadlock: a text that is damaged enough stays as it is.

Tasks, users and keys, and sessions, offers and bindings of the store, are symmetric in
the runs of safety properties; the runs with a liveness property use no symmetry. All
runs but `codec` check for deadlock: the tasks are never all stuck. That no single request is stuck either
is what `EveryRequestAnswered` says.

### Fairness

`EveryRequestAnswered` and `RefusedIsLoggedOut` assume weak fairness of the steps of each handler (`HostStep`), and that no
handler dies: the event loop runs every coroutine that is ready, and an awaited store operation or audit row returns
(the library sets no timeout on either, and awaits nothing else). No fairness is
assumed of clients, the clock or the faults.

`EventuallyRefreshed` adds that replies that
are not lost arrive, and that the browser refreshes a dead cookie when it has a
request waiting for it; losses are finite (`Profiles`), as the network is not expected to lose
everything for ever.

### Findings

1. *A teardown without its audit row* (`audit_teardown`). The README documents
   `REVOKED` for "`revoke()` on a bound session". `revoke` reads `was_bound` before the
   await that deletes; a registration that commits in between is deleted without
   an audit row. The binding is gone all the same.
2. *An honest page load ends its session* (`browser_navigates`). SECURITY.md says that benign races leave
   `dbscEnforcementTerminated` a clean signal. A page load that left before the
   registration was answered has no bound cookie, and the grace exempts subresources only: the gate terminates the
   session that was just registered, and logs the event that is meant to alert.
3. *The overlap ends before the cookie* (`browser_overlap`). The docstring of `Binding` keeps the prior cookie value "until the instant that value would
   itself have expired in the browser", and so does the comment in `bound_cookie_matches`. The browser counts `Max-Age` from the reply, the server from
   `int(clock())` at the minting, and it compares with `int(clock())`: a demoted cookie is refused up to a second before the browser drops it, even if no message takes
   any time. `OverlapLastsInBrowser` is what holds instead, with a second less a tick and `Latency` of slack. TLC ends the session of an honest browser that refreshes early and sends
   its old cookie to the end, even with `Latency = 0` (`HonestNotTerminated` with a `margin` of 0); a browser that stops in time is safe (see *Honest users* below).

Further observations, met while modelling and not kept as runs:

- A valid refresh that loses its write to a logout is checked again, finds no binding and logs `REFRESH_FAILED`, though
  SECURITY.md says benign races log `dbscRefreshRetryable`. The refusal itself is right.
- The demo and the README call a session without a binding one that never registered. Logout and `_terminate`
  delete the binding and take the login away after a further await: a page requested in between is served on
  cookie authentication. `DegradesOnlyInTeardown` shows that this is the only window. A handler that dies in it leaves the
  session that way, as does a binding that expires.
- The server keeps one previous cookie. If the reply of an early refresh is lost and the browser refreshes again, a
  page that left with the cookie it still holds reaches the gate two rotations later and ends the session.
- The current cookie has no expiry at the gate (`bound_cookie_matches` compares the value only): that "the short-lived bound cookie expires every few
  minutes" (the repository's README) is left to the browser that holds it. `ExposureBounded` says so: its bound by the lifetime is on the demoted cookie only.
- The docstring of `FileStore` calls `commit_registration` and `replace_binding` "atomic within this one process". Among themselves they are
  (`WritesKeepContract`). A read without the lock, in their middle, is not part of that: it may find the offer gone before the binding is stored, and no
  binding if the old one expired between the check and the rename. These are the two exceptions of `ReadersFindTheRecord`. In the first `register` answers that
  there is no offer, as it would a moment later, and a page is served as before the registration; the second takes a binding that has expired anyway.

## 4. What is proved

For every set of sessions, tasks, users and keys, every number of attempts, every
choice of faults, and any bounds, under the assumptions stated in the modules (`Config`'s bounds on
the lifetimes; `Unknown`, `NoKey`, `Absent`, `Corrupt`, `Idle` and `None` are not users, keys, records or calls;
`Codec` is given bindings whose cookie is not older than the binding):

| Theorem | States |
|---|---|
| `Invariance` | `Spec => []IInv` |
| `TypeCorrect` | `Spec => []ServerTypeOK`: types, and the bound on the attempts of every call |
| `ChallengesAreSpentOnce`, `OffersAreTakenOnce`, `RefreshesAreDeviceBound`, `StoredTimesAreTrue`, `CommittedProofsAreYoung` | the invariants of the runs, from `IInv` |
| `TeardownIsFinal`, `RotationsAreNotLost`, `MarksAreOneWay` | the action properties of the runs |
| `Serializable` | `DbscServer` implements `SerialServer` |
| `SeedsAreDeliveredOnce` | `Spec => SeedDeliveredOnce` |
| `Refinement` of `InMemoryStoreProofs` | `InMemoryStore` implements `StoreContract`, with `Tolerance` 0 |
| `HostImplementsServer` | `HostSpec => Spec`: every behaviour of the host is one of `DbscServer` |
| `HostIsDeviceBound` | so `DeviceBound`, `ChallengeSingleUse` and `OfferSingleUse` hold behind the endpoints of the host |
| `HostTypesAreKept` | the type invariant of `Host` |
| `LoginsAreNotFixated` | `HostSpec => NoFixation` |
| `LogoutRemovesTheRecords` | `HostSpec => []LoggedOutIsUnbound` |
| `BoundSessionsDoNotDegrade` | `HostSpec => DegradesOnlyInTeardown`, if no handler dies and no record expires (`Undisturbed`) |
| `ExposureIsBounded` | `HostSpec => ExposureBounded`: the current cookie, the one before it within its lifetime, or the grace |
| `CookiesFollowTheirBinding` | `Spec => []CookiesFollow`: no stored cookie was issued before its binding was created, which `Codec` assumes |
| `RecordsBelongToTheUser` | `HostSpec => []RecordsAreOwn` |
| `BrowserImplementsHost` | `BrowserSpec => HostSpec`: an honest browser is one of the clients of `Host` |
| `OverlapOutlivesTheCookie` | `BrowserSpec => []OverlapLastsInBrowser`, for every latency, every loss, all habits and every fraction of a second |
| `HonestUsersStay` | `BrowserSpec => []HonestNotTerminated`, under `Benign` |
| `FileStoreInvariant`, `Typing`, `OfferSpentOnce` | the inductive invariant of `FileStore`, its `TypeOK` and `OfferBindsOnce` |
| `Refinement` of `FileStoreProofs` | `Spec => WritesKeepContract`: the writes of `FileStore` implement `StoreContract`, with a second less a tick and `Hold` as `Tolerance` |
| `Readers` | `Spec => []ReadersFindTheRecord` of `FileStore` |
| `ReadBack`, `ClosedOnDamage`, `OldRecordsWork` | `RoundTrip`, `FailsClosed` and `NeverLocksOut` of `Codec` |

**The invariant.** None of the properties is inductive. `ChallengeSingleUse`, for
example, needs to know that the challenge a write is about to spend is still
acceptable to the stored binding; this follows from the conditional write only if
the call's verdict was about the record it remembers. `IInv` adds what is
missing:

- `CallsRemember` and `WritesAreJustified`: a call about to write holds a verdict on the very record
  it read, at the clock reading it will store, and `replace_binding` compares
  that record with the stored one;
- `TokensAreOwn`: its token is in no store and no other call holds it;
- `OffersAreMinted`, `TimesTrue`: stored tokens were minted when the record says;
- `OffersAreOwn`, `ChallengesAreOwn`: no token is live in two sessions;
- `HistoryIsUsed`, `BindingsAreRegistered`: history and store agree.

Preservation is proved in two kinds of lemmas: steps that change only a call (`QuietStepKeeps`,
with one case per action) and steps that write (`OfferPutKeeps`,
`RegisterCommitKeeps`, `IssueReplaceKeeps`, `RefreshReplaceKeeps`,
`AdvertiseReplaceKeeps`, `RevokeDeleteKeeps`, `DisturbKeeps`). `NextGood` puts them together.

**Action properties.** `StepsAreLawful` classifies what any step may do to a stored binding: keep it,
remove it, make it unreadable, register a new identifier, or one of the three transitions of
`Binding`. The three theorems read their conclusion off this classification.

**Serial server.** The mapping is the identity, with the token names of `minted` as `used`. Only
the steps that write map to a step of `SerialServer`; `WritesAreJustified`
turns the verdict on the record read into a verdict on the record written, which is
what `SerialServer` demands.

**In-memory store.** The mapping takes an expired entry as absent and one that is not as lasting until its `expires_at`. A tick of the
clock is then a step in which the records go whose last instant is over, all of them and no others.

**Host.** That a handler's call is one `DbscServer` allows needs to know what the handler holds: a proof and an
identifier that were given out, a proof whenever the operation takes one, and no call but the
one it awaits (`Prepared`). That a login writes its user under an unknown id needs `Drawn`: the id
drawn for a request is in no client's hands, belongs to no other request, and has no entry as
long as the login has not ended the old session. `HInv` is `IInv`, the types and both for each handler.
`HostStepIsStep` maps each step of the host to one of the server, `HostNextGood` keeps `HInv`
(one lemma per action, and `OtherStaysGood` for the handlers it leaves alone), and
`LoginsAreFresh` reads the property off `Drawn`.

**Seeds.** That the seed is delivered once is not a matter of one write: a call that won the
write that marks the binding delivers the seed in a later step, and between the two the binding can be rotated,
removed or registered anew. `SeedInv` counts a seed as `Seeded` from the write on: a seeded
identifier was stored once, and as long as it is bound its binding carries the mark, which `OneWay`
does not let go (`SeedsAreMarked`); no two answers in flight deliver one seed, and none one that was
delivered (`DeliveriesAreOwn`); and no identifier is bound to two sessions (`IdentifiersAreOwn`).

**Logout.** `LoggedOutIsUnbound` needs to know that nobody can write to a session that is logged
out. Registrations, rotations and marks replace a record (`NothingComesOfNothing`), so only an offer
can, and `Linked` says of each handler that it offers on the session it has just
logged in, that the id drawn for a login is nobody's until then, and that a `revoke` that is
about to return has left its session without records. `LInv` is that with the property; it is inductive
relative to `HInv`, even with records that expire or become unreadable and handlers that die.

**Cookie authentication.** `DInv` adds that a session that was bound, is logged in and has no binding is being ended by a
handler behind its `revoke`. `Undisturbed` is needed: a handler that dies between the two awaits of a
teardown, or a binding that expires before the session, leaves such a session for ever (see the
observations). Records that become unreadable are allowed.

**The gate.** The gate decides on a binding it read some awaits ago. `RInv` says that the times of a binding are true, in
order and from its registration (`Sound`), in the store as in the hands of every call, so that the gate's decision is right for
the clock it reads, however late that is. It also gives `CookiesFollowTheirBinding`: a refresh writes times it read some awaits ago.

**Whose records.** `RecordsAreOwn` is about a login on an id that others are still using: `UInv` adds that an offer in flight
names the user who is logged in where it will be stored. Nobody is logged in over somebody else (`NoLoginOverLogin`), so
`LInv` makes sure that the session is empty when its user changes.

**The browser is a client.** `BInv`: whatever the jar, the browser's session or a reply on its way holds was given out (`Keeps`,
`Known`), and logins and logouts are alone on their way (`TrafficOrdered`). `AnswersTold` says what a call
that is about to answer ok has done, which is what its reply tells the browser. So what the browser asks is a request of
`Host`, and all that is proved of the host holds with it.

**The overlap.** `OInv` dates the cookies: a request has been under way for at most `Latency`, the cookie that its answer brings
was minted in no second before the one it left in (`Timely`), so the jar keeps a cookie at most `Latency`, and the rest of a second, longer than its lifetime from
the second it was minted in (`KeptInTime`). `RInv` gives the same minting time to the demoted cookie of the binding, and `MintedOnce` makes it one time.

**Honest users.** `CInv` relates browser, replies, handlers and store: one registration and one refresh are
under way, never both (`Exclusive`); browser and server agree on what is registered, but for what a registration
on its way brings (`Agreed`); a live cookie in the jar is the stored one, or the one before it while the refresh that
replaced it has not been answered (`CookieFits`); and for each handler, what it holds will make it succeed (`Serves`): a page waiting at
the gate or behind its read will be let in (`LetIn`), a refresh is signed by the registered key for the binding it read, so that its only
failures are retryable ones (`Refreshing`), and the 403 always carries a challenge, the one that is stored if its
attempts are used up (`Issuing`). That a page will be let in means at any second before its reply must be there (`Welcome`), since nobody knows when the gate reads the clock. A step is then shown to keep `CInv` request by request: `AsksKeeps` for
what the browser sends, one lemma for each operation the host serves, `ReceivesKeeps` and `LosesKeeps` for the replies, `WaitsKeeps` for the clock.
`Benign` is what the theorem needs of the circumstances. TLC finds an honest session ended when any one of these is dropped, in an instance with two ticks to the second:

- no record expires or becomes unreadable (`StoreFaults = {}`): a browser whose binding is gone or unreadable is refused for good;
- `Patient`: finding 2 is the counterexample;
- the browser takes its cookie for dead two round trips and a second less a tick before it expires (`margin`): one for a reply that came late, one
  for the request that carries it, and the rest of the second in which the server minted it. One tick less is not enough, and with no
  margin it takes no latency (finding 3);
- what is lost is the reply to a page, or to a refresh of a browser that waits until its cookie is dead: of a lost
  registration or logout the browser never learns, and of two early refreshes the first must be heard (see the observations). The
  theorem leaves out lost logins too;
- a cookie is not refreshed as soon as it is there (`CookieMaxAge` is more than `early` and a round trip): a page could meet the second rotation;
- `RegistrationGrace` is two round trips and a second: a subresource may be requested while the registration is under way.

The theorem also asks for a cookie that lives longer than its margin and a round trip, without which it is never sent; TLC finds no harm in shorter ones.
The run `browser` checks the same under these conditions, and `browser_navigates` what happens without `Patient`.

**File store.** `FInv` says who holds the lock (`Queued`), and what the one call that has begun has done so
far (`Begins`): its check found what it expects and the file still holds it, expired or not; what it
unlinked is gone; what it is about to rename has not expired. `SpentIsGone` is `OfferBindsOnce` on the
file and not on what is read of it, because a record that is read as absent may be one that the clock
hides. The mapping of the refinement takes an operation between its check, or its first
deletion, and its last step as not having happened: the contract sees what its first step found (`found`), with the date of that. A restart in between is an operation
that never was, except that the offer of a `commit_registration` or `delete` is lost, which `Stops` of the contract allows, and nothing else.
The dates are out by at most `Tolerance`: the second in a file is rounded down, by a second less a tick, and it is fixed, like what `found` holds, up to `Hold`
before the operation happens for the contract. `HoldAssumption` keeps that below the lifetimes. The theorem is about the writes: reads are `Readers`, which follows from `FInv` state by state.

**Codecs.** `CodecInv` relates the text to the record: it is no object, or it has the members of
the record, each as it was written or spoilt. The three theorems then compute `from_json` member by member,
for all records, any times and any amount of damage. `FailsClosed` needs that a cookie is not issued before its
binding was created, since `createdAt` is the default of a missing `cookieIssuedAt`: the default could otherwise keep a demoted
cookie alive for longer. `register` sets both to one clock reading and `refresh` moves the second forward.

Only model-checked:

- the liveness properties (`EveryRequestAnswered`, `RefusedIsLoggedOut`, `EventuallyRefreshed`): liveness under fairness is beyond the proof system;
- the violations.

## 5. What is not modelled

- Cryptography, base64url, JWK and JSON parsing, header and cookie formatting, the regular expressions of
  `_validate`: the model has the verdicts, not the strings.
- Session instructions and scope rules: configuration written as JSON.
- `read_request`, TLS and `main` of the demo; the ownership check of `FileStore`'s directory, and the temporary
  files a crash leaves in it.
- A host other than the demo, and several processes of the demo: `_sessions` and the lock of `FileStore` are one process's.
- A clock that goes backwards: the model's clock does not.
- The lifetime of host sessions: the demo's never end, and a binding that expires earlier leaves a session on cookie
  authentication (`store.py` leaves both lifetimes to the host).
- The growth of `InMemoryStore` (expired entries are never removed): the sessions of
  the model are a fixed set.
- Tests, scripts and CI.

## 6. Plan

Done: the server core, its serial abstraction, the store contract and the in-memory store; the host, the
browser, the file store and the codecs; proofs of every safety property that a run checks, `HonestNotTerminated` and
`DegradesOnlyInTeardown` under the conditions named above.
Left, if the code changes or the development goes on:

1. The lifetime of a host session, and with it the binding that expires before it (see section 5).
2. Two users in the runs of `Host`, and a second refresh in `host_gate`, if TLC's reach allows; the proofs cover both.

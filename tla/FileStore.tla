------------------------------ MODULE FileStore ------------------------------
(***************************************************************************)
(* FileStore (demo_server.py): a file for each record, which holds the     *)
(* record and the second it expires in.  Every file operation runs in a    *)
(* worker thread and is awaited, so an operation on the store takes        *)
(* several steps and the process may stop between any two of them.  One    *)
(* asyncio.Lock, granted in the order of the requests, serialises the      *)
(* operations that write.  The two reads take no lock: they are one step,  *)
(* which changes nothing, and may come between any two steps of a write.    *)
(*                                                                         *)
(* The clock counts ticks of a second's fraction, because int(time.time()) *)
(* goes into the file and time.time() is what it is compared with.         *)
(***************************************************************************)
EXTENDS Integers, Sequences

CONSTANTS
    Callers,            \* requests that may use the store at the same time
    Sessions, Offers, Bindings,
    Absent, Corrupt,
    Idle,               \* a caller that is not waiting for the store
    ChallengeTtl,       \* challenge_ttl, in seconds
    SessionTtl,         \* session_ttl, in seconds
    TicksPerSecond,
    Hold,               \* the ticks an operation may take, the lock once taken
    MaxTime,            \* bound: the last tick of the clock
    MaxRestarts,        \* bound: how often the process stops and starts
    MaxDecays           \* bound: how many files are damaged

ASSUME DistinctAssumption ==
    /\ Absent # Corrupt
    /\ {Absent, Corrupt} \intersect
          (Offers \union Bindings
             \union [value : Offers \union Bindings, expires_at : Nat]) = {}
ASSUME TimesAssumption ==
    /\ {ChallengeTtl, SessionTtl, TicksPerSecond} \subseteq Nat \ {0}
    /\ {MaxTime, MaxRestarts, MaxDecays} \subseteq Nat
ASSUME HoldAssumption ==
    /\ Hold \in Nat
    /\ \A ttl \in {ChallengeTtl, SessionTtl} :
          Hold + TicksPerSecond - 1 <= ttl * TicksPerSecond

VARIABLES
    files,        \* the directory: the files "reg" and "bind" of each session
    call,         \* for each caller, the operation it waits for
    queue,        \* _writes: its holder, then the callers waiting for it
    now,
    result,       \* the last operation that ended, and what it returned
    spent,        \* history: offers a binding was stored for
    restarts, decays

vars == <<files, call, queue, now, result, spent, restarts, decays>>
bounded == <<now, restarts, decays>>

\* _read: the envelope in a file, unless it has expired, and its payload.  A file
\* that is not an envelope raises, whatever its age.
envelope(kind, s) ==
    LET file == files[kind][s]
    IN  IF file \in {Absent, Corrupt} THEN file
        ELSE IF file.expires_at * TicksPerSecond < now THEN Absent
        ELSE file

payload(e) == IF e \in {Absent, Corrupt} THEN e ELSE e.value

read(kind, s) == payload(envelope(kind, s))

\* What the reads return, which take no lock.
get_pending_registration(s) == read("reg", s)
get_binding(s) == read("bind", s)

\* The operations that write, each with its arguments.
Writes ==
    LET op(name, args) == [op : {name}, session : Sessions, args : args]
    IN  UNION {op("put_pending_registration", {<<p>> : p \in Offers}),
               op("delete_pending_registration", {<< >>}),
               op("put_binding", {<<b>> : b \in Bindings}),
               op("delete", {<< >>}),
               op("commit_registration", Offers \X Bindings),
               op("replace_binding", Bindings \X Bindings)}

Entries(R) == [value : R, expires_at : Nat] \union {Absent, Corrupt}

\* An operation in progress: its next step, when it made its first step and what
\* that found, and when the record expires that is in its temporary file.
Calls ==
    [request : Writes, at : Nat, began : Nat,
     found : Entries(Offers \union Bindings), expires_at : Nat]

ASSUME IdleAssumption == Idle \notin Calls

\* What each operation does under the lock, file by file.
write(kind) == <<<<"fill", kind>>, <<"rename", kind>>>>

\* Mutant: the offer is removed when the binding is there.
commit_unlinking_last ==
    <<<<"check", "reg">>>> \o write("bind") \o <<<<"unlink", "reg">>>>

commit == <<<<"check", "reg">>, <<"unlink", "reg">>>> \o write("bind")

body(op) ==
    CASE op = "put_pending_registration" -> write("reg")
      [] op = "delete_pending_registration" -> <<<<"unlink", "reg">>>>
      [] op = "put_binding" -> write("bind")
      [] op = "delete" -> <<<<"unlink", "reg">>, <<"unlink", "bind">>>>
      [] op = "commit_registration" -> commit
      [] op = "replace_binding" -> <<<<"check", "bind">>>> \o write("bind")

Conditional == {"commit_registration", "replace_binding"}

Returns(request, value) ==
    result' = [op |-> request.op, session |-> request.session,
               args |-> request.args, value |-> value]

\* async with self._writes: the caller joins those that wait for the lock.
calls(c, request) ==
    /\ call[c] = Idle
    /\ call' = [call EXCEPT ![c] = [request |-> request, at |-> 1, began |-> 0,
                                    found |-> Absent, expires_at |-> 0]]
    /\ queue' = Append(queue, c)
    /\ UNCHANGED <<files, result, spent, bounded>>

holds(c) == queue # << >> /\ Head(queue) = c

\* Mutant: the lock is taken by hand and not released when a read raises.
ends_locked_if_it_raises(c, value) ==
    /\ call' = [call EXCEPT ![c] = Idle]
    /\ queue' = IF value = Corrupt THEN queue ELSE Tail(queue)
    /\ Returns(call[c].request, value)

\* The operation returns or raises, and leaves the lock to the next one.
ends(c, value) ==
    /\ call' = [call EXCEPT ![c] = Idle]
    /\ queue' = Tail(queue)
    /\ Returns(call[c].request, value)

\* A step on a file is done: on to the next one.  The first one leaves a note of
\* the time and of what was there.
goes_on(c, kind, expires_at) ==
    LET now_at == call[c].at
        request == call[c].request
    IN  IF now_at = Len(body(request.op))
        THEN ends(c, IF request.op \in Conditional THEN "True" ELSE "None")
        ELSE /\ call' = [call EXCEPT
                   ![c].at = now_at + 1,
                   ![c].expires_at = expires_at,
                   ![c].began = IF now_at = 1 THEN now ELSE @,
                   ![c].found = IF now_at = 1 THEN envelope(kind, request.session)
                                ELSE @]
             /\ UNCHANGED <<queue, result>>

\* The check of a conditional write.
check(c, kind) ==
    LET request == call[c].request
        found == read(kind, request.session)
    IN  /\ IF found = request.args[1] THEN goes_on(c, kind, 0)
           ELSE ends(c, IF found = Corrupt THEN Corrupt ELSE "False")
        /\ UNCHANGED <<files, spent>>

\* _unlink
unlink(c, kind) ==
    /\ files' = [files EXCEPT ![kind][call[c].request.session] = Absent]
    /\ goes_on(c, kind, 0)
    /\ UNCHANGED spent

\* Mutant: the old record is removed to make room for the new one.
fill_making_room(c, kind) ==
    /\ goes_on(c, kind, now \div TicksPerSecond
                           + IF kind = "reg" THEN ChallengeTtl ELSE SessionTtl)
    /\ files' = [files EXCEPT ![kind][call[c].request.session] = Absent]
    /\ UNCHANGED spent

\* Mutant: every record is given the lifetime of an offer.
fill_for_a_challenge(c, kind) ==
    /\ goes_on(c, kind, now \div TicksPerSecond + ChallengeTtl)
    /\ UNCHANGED <<files, spent>>

\* _write, first half: the temporary file, with the second it expires in.
fill(c, kind) ==
    /\ goes_on(c, kind, now \div TicksPerSecond
                           + IF kind = "reg" THEN ChallengeTtl ELSE SessionTtl)
    /\ UNCHANGED <<files, spent>>

\* _write, second half: the temporary file, which holds the last argument of the
\* operation, is renamed over the record.
rename(c, kind) ==
    LET request == call[c].request
        s == request.session
    IN  /\ files' = [files EXCEPT ![kind][s] =
                        [value |-> request.args[Len(request.args)],
                         expires_at |-> call[c].expires_at]]
        /\ spent' = CASE request.op = "put_pending_registration" ->
                             spent \ {<<s, request.args[1]>>}
                      [] request.op = "commit_registration" ->
                             spent \union {<<s, request.args[1]>>}
                      [] OTHER -> spent
        /\ goes_on(c, kind, 0)

Works(c) ==
    /\ holds(c)
    /\ LET step == body(call[c].request.op)[call[c].at] IN
       \/ step[1] = "check" /\ check(c, step[2])
       \/ step[1] = "unlink" /\ unlink(c, step[2])
       \/ step[1] = "fill" /\ fill(c, step[2])
       \/ step[1] = "rename" /\ rename(c, step[2])
    /\ UNCHANGED bounded

\* The callers whose operation has done something.
Begun == {c \in Callers : IF call[c] = Idle THEN FALSE ELSE call[c].at > 1}

\* A file is damaged, while no operation has begun to change the records.
Decay ==
    /\ decays < MaxDecays /\ Begun = {}
    /\ \E kind \in {"reg", "bind"}, s \in Sessions :
          /\ read(kind, s) \notin {Absent, Corrupt}
          /\ files' = [files EXCEPT ![kind][s] = Corrupt]
    /\ decays' = decays + 1
    /\ UNCHANGED <<call, queue, now, result, spent, restarts>>

\* Time passes, though no operation that has begun takes longer than Hold.
Tick ==
    /\ now < MaxTime
    /\ \A c \in Begun : now < call[c].began + Hold
    /\ now' = now + 1
    /\ UNCHANGED <<files, call, queue, result, spent, restarts, decays>>

\* The process stops and starts again later: the files are there, the calls and
\* the lock are not.
Restart ==
    /\ now < MaxTime /\ restarts < MaxRestarts
    /\ now' = now + 1 /\ restarts' = restarts + 1
    /\ call' = [c \in Callers |-> Idle]
    /\ queue' = << >>
    /\ UNCHANGED <<files, result, spent, decays>>

Init ==
    /\ files = [kind \in {"reg", "bind"} |-> [s \in Sessions |-> Absent]]
    /\ call = [c \in Callers |-> Idle]
    /\ queue = << >>
    /\ now = 0 /\ restarts = 0 /\ decays = 0
    /\ result = [op |-> "none", session |-> Absent, args |-> << >>,
                 value |-> "None"]
    /\ spent = {}

Next ==
    \/ \E c \in Callers : Works(c) \/ \E request \in Writes : calls(c, request)
    \/ Tick \/ Restart \/ Decay

Spec == Init /\ [][Next]_vars

------------------------------------------------------------------------------
\* Type invariant, with what the lock is for: only its holder has begun, and an
\* operation that is over, however it ended, does not keep the lock.
TypeOK ==
    /\ files["reg"] \in [Sessions -> Entries(Offers)]
    /\ files["bind"] \in [Sessions -> Entries(Bindings)]
    /\ now \in Nat
    /\ spent \subseteq Sessions \X Offers
    /\ \A i, j \in 1..Len(queue) : queue[i] = queue[j] => i = j
    /\ \A c \in Callers :
          IF call[c] = Idle THEN \A i \in 1..Len(queue) : queue[i] # c
          ELSE /\ call[c].request \in Writes
               /\ \E i \in 1..Len(queue) : queue[i] = c /\ (i > 1 => call[c].at = 1)

\* An offer binds one device: whenever the process stops, an offer for which a
\* binding was stored cannot be read again, so that the registration proof that
\* was accepted for it is not accepted a second time.
OfferBindsOnce ==
    \A s \in Sessions, p \in Offers : <<s, p>> \in spent => read("reg", s) # p

\* The records as the contract sees them: an operation that has made its check,
\* or the first of its two deletions, has not happened before its last step.
Under_way(ops, s) ==
    {c \in Begun : /\ call[c].request.session = s
                   /\ call[c].request.op \in ops}

Seen(kind, ops, s) ==
    IF Under_way(ops, s) = {} THEN envelope(kind, s)
    ELSE call[CHOOSE c \in Under_way(ops, s) : TRUE].found

Seen_offer(s) == Seen("reg", {"commit_registration", "delete"}, s)
Seen_binding(s) == Seen("bind", {"replace_binding"}, s)

Until(e) ==
    IF e \in {Absent, Corrupt} THEN 0 ELSE e.expires_at * TicksPerSecond

Contract == INSTANCE StoreContract WITH
    pending <- [s \in Sessions |-> payload(Seen_offer(s))],
    binding <- [s \in Sessions |-> payload(Seen_binding(s))],
    offer_until <- [s \in Sessions |-> Until(Seen_offer(s))],
    binding_until <- [s \in Sessions |-> Until(Seen_binding(s))],
    stops <- restarts,
    OfferLife <- ChallengeTtl * TicksPerSecond,
    BindingLife <- SessionTtl * TicksPerSecond,
    Tolerance <- Hold + TicksPerSecond - 1

\* The writes of FileStore keep the contract of Store: every one is an atomic
\* operation of it that returns what it did; a record lives for its lifetime, give
\* or take a second and the time an operation takes; and all that a stop of the
\* process between two steps can do is lose an offer.  What a read may see of a
\* write that is not over is ReadersFindTheRecord.
WritesKeepContract == Contract!Spec_contract

\* The file is there, with a record whose time is over.
Expired(kind, s) ==
    /\ files[kind][s] \notin {Absent, Corrupt}
    /\ files[kind][s].expires_at * TicksPerSecond < now

\* The reads, which take no lock, find the record that was last stored whole
\* while another is being written: a binding that is being replaced is not
\* missing, which the gate would take for a session that never registered,
\* unless its time was over before the new one was there.
\* Only an offer may be gone already, when its session is being bound or deleted.
ReadersFindTheRecord ==
    \A s \in Sessions :
        /\ \/ get_binding(s) = payload(Seen_binding(s))
           \/ /\ get_binding(s) = Absent /\ Expired("bind", s)
              /\ Under_way({"replace_binding"}, s) # {}
        /\ \/ get_pending_registration(s) = payload(Seen_offer(s))
           \/ /\ get_pending_registration(s) = Absent
              /\ Under_way({"commit_registration", "delete"}, s) # {}
==============================================================================

--------------------------- MODULE FileStoreProofs ---------------------------
(***************************************************************************)
(* The writes of FileStore keep the contract of Store although they take   *)
(* several steps and the process may stop between any two of them, and its *)
(* reads, which take no lock, find whole records: for all records, all     *)
(* lifetimes and any number of callers and sessions.                       *)
(***************************************************************************)
EXTENDS FileStore, SequenceTheorems, TLAPS

Kinds == {"reg", "bind"}
Records(kind) == IF kind = "reg" THEN Offers ELSE Bindings
Ttl(kind) == IF kind = "reg" THEN ChallengeTtl ELSE SessionTtl
Filled(r) == [value : r, expires_at : Nat]

\* The state is of its type, the position of a call is one of its operation's
\* steps, and the queue holds the callers that wait, each once: only the first of
\* them has begun.
Typed ==
    /\ files \in [Kinds -> [Sessions -> Entries(Offers \union Bindings)]]
    /\ files["reg"] \in [Sessions -> Entries(Offers)]
    /\ files["bind"] \in [Sessions -> Entries(Bindings)]
    /\ now \in Nat
    /\ spent \subseteq Sessions \X Offers
    /\ call \in [Callers -> Calls \union {Idle}]
    /\ queue \in Seq(Callers)

Queued ==
    /\ \A i, j \in 1..Len(queue) : queue[i] = queue[j] => i = j
    /\ \A c \in Callers : call[c] = Idle <=> \A i \in 1..Len(queue) : queue[i] # c
    /\ \A i \in 1..Len(queue) : i > 1 => call[queue[i]].at = 1

\* What the calls that have begun have done: a check has found what it expects,
\* and an unlinked file is gone.
Found(c) ==
    LET request == call[c].request
        at == call[c].at
        found == call[c].found
        s == request.session
    IN  CASE request.op = "commit_registration" ->
                /\ at > 1 => found \in Filled(Offers) /\ found.value = request.args[1]
                /\ at = 2 => files["reg"][s] = found
                /\ at > 2 => files["reg"][s] = Absent
          [] request.op = "replace_binding" ->
                at > 1 => /\ found \in Filled(Bindings)
                          /\ found.value = request.args[1]
                          /\ files["bind"][s] = found
          [] request.op = "delete" -> at > 1 => files["reg"][s] = Absent
          [] OTHER -> TRUE

\* It is not long ago that a call made its first step, and what it found then had
\* not expired.
Timely(c) ==
    call[c].at > 1 =>
       /\ call[c].began <= now /\ now <= call[c].began + Hold
       /\ call[c].found \notin {Absent, Corrupt} =>
             call[c].began <= call[c].found.expires_at * TicksPerSecond

Length(op) ==
    CASE op = "delete_pending_registration" -> 1
      [] op \in {"put_pending_registration", "put_binding", "delete"} -> 2
      [] op = "replace_binding" -> 3
      [] OTHER -> 4

\* What is about to be renamed was given its lifetime since the first step.
Fresh(c) ==
    LET op == call[c].request.op
        life == Ttl(IF op = "put_pending_registration" THEN "reg" ELSE "bind")
                   * TicksPerSecond
        until == call[c].expires_at * TicksPerSecond
    IN  /\ call[c].at \in 1..Length(op)
        /\ call[c].at > 1 /\ op # "delete" /\ call[c].at = Length(op) =>
              /\ until <= now + life
              /\ call[c].began + life <= until + TicksPerSecond - 1

Begins ==
    \A c \in Callers : call[c] # Idle => Found(c) /\ Timely(c) /\ Fresh(c)

\* No spent offer is in the file of its session, expired or not.
SpentIsGone ==
    \A s \in Sessions, p \in Offers :
       /\ <<s, p>> \in spent
       /\ files["reg"][s] \in Filled(Offers)
       => files["reg"][s].value # p

FInv == Typed /\ Queued /\ Begins /\ SpentIsGone

------------------------------------------------------------------------------
\* The six operations with their arguments.
Named(request, op, args) ==
    request = [op |-> op, session |-> request.session, args |-> args]

\* A request is one of the six operations, with arguments of their types.
LEMMA Requests ==
    ASSUME NEW request \in Writes
    PROVE  /\ request.session \in Sessions
           /\ \/ \E p \in Offers :
                    Named(request, "put_pending_registration", <<p>>)
              \/ Named(request, "delete_pending_registration", << >>)
              \/ \E b \in Bindings : Named(request, "put_binding", <<b>>)
              \/ Named(request, "delete", << >>)
              \/ \E p \in Offers, b \in Bindings :
                    Named(request, "commit_registration", <<p, b>>)
              \/ \E b, d \in Bindings :
                    Named(request, "replace_binding", <<b, d>>)
BY DEF Writes, Named

\* The arguments of the writes: the last one is what is written.
LEMMA Arguments ==
    ASSUME NEW request \in Writes
    PROVE  LET args == request.args
               last == args[Len(args)]
           IN  /\ request.op = "put_pending_registration" =>
                     last \in Offers /\ args = <<last>> /\ args[1] = last
               /\ request.op = "put_binding" => last \in Bindings /\ args = <<last>>
               /\ request.op = "commit_registration" =>
                     /\ last \in Bindings /\ args[1] \in Offers
                     /\ args = <<args[1], last>>
               /\ request.op = "replace_binding" =>
                     /\ last \in Bindings /\ args[1] \in Bindings
                     /\ args = <<args[1], last>>
               /\ request.op \in {"delete", "delete_pending_registration"} =>
                     args = << >>
<1>1. \A x : Len(<<x>>) = 1 /\ <<x>>[1] = x
  OBVIOUS
<1>2. \A x, y : Len(<<x, y>>) = 2 /\ <<x, y>>[1] = x /\ <<x, y>>[2] = y
  OBVIOUS
<1>3. ASSUME NEW x, Named(request, request.op, <<x>>)
      PROVE  /\ request.args = <<x>> /\ Len(request.args) = 1 /\ request.args[1] = x
  BY <1>1, <1>3 DEF Named
<1>4. ASSUME NEW x, NEW y, Named(request, request.op, <<x, y>>)
      PROVE  /\ request.args = <<x, y>> /\ Len(request.args) = 2
             /\ request.args[1] = x /\ request.args[2] = y
  BY <1>2, <1>4 DEF Named
<1>5. CASE \E p \in Offers : Named(request, "put_pending_registration", <<p>>)
  BY <1>3, <1>5 DEF Named
<1>6. CASE \E b \in Bindings : Named(request, "put_binding", <<b>>)
  BY <1>3, <1>6 DEF Named
<1>7. CASE \E p \in Offers, b \in Bindings :
              Named(request, "commit_registration", <<p, b>>)
  BY <1>4, <1>7 DEF Named
<1>8. CASE \E b, d \in Bindings : Named(request, "replace_binding", <<b, d>>)
  BY <1>4, <1>8 DEF Named
<1>9. CASE \/ Named(request, "delete", << >>)
           \/ Named(request, "delete_pending_registration", << >>)
  BY <1>9 DEF Named
<1>10. QED
  BY <1>5, <1>6, <1>7, <1>8, <1>9, Requests

\* The steps of each operation.
LEMMA Bodies ==
    /\ /\ Len(body("put_pending_registration")) = 2
       /\ body("put_pending_registration")[1] = <<"fill", "reg">>
       /\ body("put_pending_registration")[2] = <<"rename", "reg">>
    /\ /\ Len(body("delete_pending_registration")) = 1
       /\ body("delete_pending_registration")[1] = <<"unlink", "reg">>
    /\ /\ Len(body("put_binding")) = 2
       /\ body("put_binding")[1] = <<"fill", "bind">>
       /\ body("put_binding")[2] = <<"rename", "bind">>
    /\ /\ Len(body("delete")) = 2
       /\ body("delete")[1] = <<"unlink", "reg">>
       /\ body("delete")[2] = <<"unlink", "bind">>
    /\ /\ Len(body("commit_registration")) = 4
       /\ body("commit_registration")[1] = <<"check", "reg">>
       /\ body("commit_registration")[2] = <<"unlink", "reg">>
       /\ body("commit_registration")[3] = <<"fill", "bind">>
       /\ body("commit_registration")[4] = <<"rename", "bind">>
    /\ /\ Len(body("replace_binding")) = 3
       /\ body("replace_binding")[1] = <<"check", "bind">>
       /\ body("replace_binding")[2] = <<"fill", "bind">>
       /\ body("replace_binding")[3] = <<"rename", "bind">>
BY DEF body, write, commit

\* A request with the call it belongs to.
Op(c) == call[c].request.op
Session(c) == call[c].request.session
Last(c) == call[c].request.args[Len(call[c].request.args)]

Continues(c, kind, expires_at) ==
    /\ call' = [call EXCEPT ![c] =
                  [request |-> call[c].request, at |-> call[c].at + 1,
                   began |-> IF call[c].at = 1 THEN now ELSE call[c].began,
                   found |-> IF call[c].at = 1 THEN envelope(kind, Session(c))
                             ELSE call[c].found,
                   expires_at |-> expires_at]]
    /\ queue' = queue /\ result' = result

\* The value an operation returns that has done all its steps.
Done(c) == IF Op(c) \in Conditional THEN "True" ELSE "None"

\* The operation of a call in progress is one of the six that write, and how many
\* steps on files each of them takes.
LEMMA Lengths ==
    ASSUME NEW c \in Callers, call[c] \in Calls
    PROVE  /\ Len(body(Op(c))) = Length(Op(c))
           /\ Op(c) \in {"put_pending_registration",
                         "delete_pending_registration", "put_binding", "delete",
                         "commit_registration", "replace_binding"}
<1>1. call[c].request \in Writes
  BY DEF Calls
<1>2. Op(c) \in {"put_pending_registration",
                 "delete_pending_registration", "put_binding", "delete",
                 "commit_registration", "replace_binding"}
  BY <1>1, Requests DEF Named, Op
<1>3. QED
  BY <1>2, Bodies DEF Length

\* The end of a step: the last one ends the operation.
LEMMA GoesOn ==
    ASSUME Typed, NEW c \in Callers, call[c] \in Calls, NEW kind, NEW expires_at,
           goes_on(c, kind, expires_at)
    PROVE  IF call[c].at = Length(Op(c)) THEN ends(c, Done(c))
           ELSE Continues(c, kind, expires_at)
<1>1. CASE call[c].at = Length(Op(c))
  BY <1>1, Lengths DEF goes_on, Done, Op
<1>2. CASE call[c].at # Length(Op(c))
  <2>1. /\ call' = [call EXCEPT
                      ![c].at = call[c].at + 1,
                      ![c].expires_at = expires_at,
                      ![c].began = IF call[c].at = 1 THEN now ELSE @,
                      ![c].found = IF call[c].at = 1
                                   THEN envelope(kind, Session(c)) ELSE @]
        /\ UNCHANGED <<queue, result>>
    BY <1>2, Lengths DEF goes_on, Op, Session
  <2> DEFINE began == IF call[c].at = 1 THEN now ELSE call[c].began
             found == IF call[c].at = 1 THEN envelope(kind, Session(c))
                      ELSE call[c].found
             next == [request |-> call[c].request, at |-> call[c].at + 1,
                      began |-> began, found |-> found, expires_at |-> expires_at]
  <2>2. /\ DOMAIN call = Callers /\ DOMAIN call' = Callers
        /\ \A d \in Callers : d # c => call'[d] = call[d]
        /\ call'[c] = [call[c] EXCEPT !.at = call[c].at + 1,
                                     !.expires_at = expires_at,
                                     !.began = began, !.found = found]
    BY <2>1 DEF Typed
  <2>3. call'[c] = next
    BY <2>2 DEF Calls
  <2>4. call' = [call EXCEPT ![c] = next]
    BY <2>1, <2>2, <2>3 DEF Typed
  <2>5. QED
    BY <1>2, <2>1, <2>4 DEF Continues
<1>3. QED
  BY <1>1, <1>2

\* The holder of the lock works on the next step of its operation.
LEMMA WorkCases ==
    ASSUME Typed, Queued, Begins, NEW c \in Callers, Works(c)
    PROVE  /\ call[c] \in Calls /\ queue # << >> /\ queue[1] = c
           /\ UNCHANGED bounded
           /\ \/ /\ Op(c) = "put_pending_registration" /\ call[c].at = 1
                 /\ fill(c, "reg")
              \/ /\ Op(c) = "put_pending_registration" /\ call[c].at = 2
                 /\ rename(c, "reg")
              \/ /\ Op(c) = "delete_pending_registration" /\ call[c].at = 1
                 /\ unlink(c, "reg")
              \/ /\ Op(c) = "put_binding" /\ call[c].at = 1
                 /\ fill(c, "bind")
              \/ /\ Op(c) = "put_binding" /\ call[c].at = 2
                 /\ rename(c, "bind")
              \/ /\ Op(c) = "delete" /\ call[c].at = 1
                 /\ unlink(c, "reg")
              \/ /\ Op(c) = "delete" /\ call[c].at = 2
                 /\ unlink(c, "bind")
              \/ /\ Op(c) = "commit_registration" /\ call[c].at = 1
                 /\ check(c, "reg")
              \/ /\ Op(c) = "commit_registration" /\ call[c].at = 2
                 /\ unlink(c, "reg")
              \/ /\ Op(c) = "commit_registration" /\ call[c].at = 3
                 /\ fill(c, "bind")
              \/ /\ Op(c) = "commit_registration" /\ call[c].at = 4
                 /\ rename(c, "bind")
              \/ /\ Op(c) = "replace_binding" /\ call[c].at = 1
                 /\ check(c, "bind")
              \/ /\ Op(c) = "replace_binding" /\ call[c].at = 2
                 /\ fill(c, "bind")
              \/ /\ Op(c) = "replace_binding" /\ call[c].at = 3
                 /\ rename(c, "bind")
<1>1. queue # << >> /\ queue[1] = c
  BY DEF Works, holds, Typed
<1>2. call[c] \in Calls
  <2>1. 1 \in 1..Len(queue)
    BY <1>1, EmptySeq, LenProperties DEF Typed
  <2>2. QED
    BY <1>1, <2>1 DEF Queued, Typed
<1>3. call[c].at \in 1..Length(Op(c))
  BY <1>2, IdleAssumption DEF Begins, Fresh, Op
<1> DEFINE step == body(Op(c))[call[c].at]
<1>4. \/ step[1] = "check" /\ check(c, step[2])
      \/ step[1] = "unlink" /\ unlink(c, step[2])
      \/ step[1] = "fill" /\ fill(c, step[2])
      \/ step[1] = "rename" /\ rename(c, step[2])
  BY DEF Works, Op
<1>5. UNCHANGED bounded
  BY DEF Works
<1>6. CASE Op(c) = "put_pending_registration"
  BY <1>6, <1>1, <1>2, <1>3, <1>4, <1>5, Bodies DEF Length
<1>7. CASE Op(c) = "delete_pending_registration"
  BY <1>7, <1>1, <1>2, <1>3, <1>4, <1>5, Bodies DEF Length
<1>8. CASE Op(c) = "put_binding"
  BY <1>8, <1>1, <1>2, <1>3, <1>4, <1>5, Bodies DEF Length
<1>9. CASE Op(c) = "delete"
  BY <1>9, <1>1, <1>2, <1>3, <1>4, <1>5, Bodies DEF Length
<1>10. CASE Op(c) = "commit_registration"
  BY <1>10, <1>1, <1>2, <1>3, <1>4, <1>5, Bodies DEF Length
<1>11. CASE Op(c) = "replace_binding"
  BY <1>11, <1>1, <1>2, <1>3, <1>4, <1>5, Bodies DEF Length
<1>12. QED
  BY <1>2, <1>6, <1>7, <1>8, <1>9, <1>10, <1>11, Lengths

\* What is in a file: the envelope that a read finds is the file's, and has not
\* expired.
LEMMA EnvelopeOf ==
    ASSUME Typed, NEW kind \in Kinds, NEW s \in Sessions
    PROVE  /\ files[kind][s] \in Filled(Records(kind)) \union {Absent, Corrupt}
           /\ envelope(kind, s) \in Filled(Records(kind)) \union {Absent, Corrupt}
           /\ envelope(kind, s) \in Filled(Records(kind)) <=>
                 /\ files[kind][s] \in Filled(Records(kind))
                 /\ now <= files[kind][s].expires_at * TicksPerSecond
           /\ envelope(kind, s) \in Filled(Records(kind)) =>
                 /\ envelope(kind, s) = files[kind][s]
                 /\ envelope(kind, s) \notin {Absent, Corrupt}
           /\ files[kind][s] \in {Absent, Corrupt} =>
                 envelope(kind, s) = files[kind][s]
           /\ files[kind][s] \in Filled(Records(kind)) =>
                 /\ files[kind][s] \notin {Absent, Corrupt}
                 /\ files[kind][s].expires_at * TicksPerSecond \in Nat
                 /\ envelope(kind, s) \in {files[kind][s], Absent}
<1>1. files[kind][s] \in Filled(Records(kind)) \union {Absent, Corrupt}
  BY DEF Typed, Kinds, Records, Filled, Entries
<1>2. {Absent, Corrupt} \intersect Filled(Records(kind)) = {}
  BY DistinctAssumption DEF Records, Filled
<1>3. ASSUME files[kind][s] \in Filled(Records(kind))
      PROVE  /\ files[kind][s].expires_at * TicksPerSecond \in Nat
             /\ now \in Nat
  BY <1>3, TimesAssumption DEF Filled, Typed
<1>4. QED
  BY <1>1, <1>2, <1>3 DEF envelope

\* What a read returns: the record of a file that is there and has not expired.
LEMMA ReadOf ==
    ASSUME Typed, NEW kind \in Kinds, NEW s \in Sessions
    PROVE  /\ read(kind, s) \in Records(kind) \union {Absent, Corrupt}
           /\ read(kind, s) \in Records(kind) <=>
                 envelope(kind, s) \in Filled(Records(kind))
           /\ read(kind, s) \in Records(kind) =>
                 /\ read(kind, s) = envelope(kind, s).value
                 /\ read(kind, s) = files[kind][s].value
           /\ read(kind, s) \notin Records(kind) =>
                 read(kind, s) = envelope(kind, s)
<1>1. {Absent, Corrupt} \intersect Records(kind) = {}
  BY DistinctAssumption DEF Records
<1>2. envelope(kind, s) \in Filled(Records(kind)) =>
         envelope(kind, s).value \in Records(kind)
  BY DEF Filled
<1>3. QED
  BY <1>1, <1>2, EnvelopeOf DEF read, payload

\* Only the holder of the lock has begun.
LEMMA OthersWait ==
    ASSUME Typed, Queued, NEW c \in Callers, queue # << >>, queue[1] = c,
           NEW d \in Callers, d # c, call[d] # Idle
    PROVE  call[d].at = 1
<1>1. PICK i \in 1..Len(queue) : queue[i] = d
  BY DEF Queued
<1>2. i > 1
  BY <1>1 DEF Typed
<1>3. QED
  BY <1>1, <1>2 DEF Queued

\* The lock goes on to the next one in the queue.
LEMMA EndsQueued ==
    ASSUME Typed, Queued, NEW c \in Callers, queue # << >>, queue[1] = c,
           NEW value, ends(c, value)
    PROVE  /\ queue' \in Seq(Callers) /\ call' \in [Callers -> Calls \union {Idle}]
           /\ Queued'
<1>1. /\ queue \in Seq(Callers) /\ queue' = Tail(queue)
      /\ call' = [call EXCEPT ![c] = Idle]
      /\ call \in [Callers -> Calls \union {Idle}]
  BY DEF ends, Typed
<1>2. /\ queue' \in Seq(Callers) /\ Len(queue') = Len(queue) - 1
      /\ Len(queue) \in Nat \ {0}
      /\ \A i \in 1..Len(queue') : i + 1 \in 1..Len(queue) /\ queue'[i] = queue[i + 1]
  BY <1>1, HeadTailProperties, LenProperties, EmptySeq
<1>3. \A i, j \in 1..Len(queue') : queue'[i] = queue'[j] => i = j
  BY <1>2 DEF Queued
<1>4. \A i \in 1..Len(queue') : queue'[i] # c
  <2>1. SUFFICES ASSUME NEW i \in 1..Len(queue'), queue'[i] = c PROVE FALSE
    OBVIOUS
  <2>2. queue[i + 1] = queue[1] /\ i + 1 \in 1..Len(queue) /\ 1 \in 1..Len(queue)
    BY <1>2, <2>1
  <2>3. i + 1 = 1
    BY <2>2 DEF Queued
  <2>4. QED
    BY <2>3, <1>2
<1>5. \A d \in Callers \ {c} :
         (\A i \in 1..Len(queue) : queue[i] # d)
            <=> (\A i \in 1..Len(queue') : queue'[i] # d)
  <2>1. SUFFICES ASSUME NEW d \in Callers \ {c},
                        NEW i \in 1..Len(queue), queue[i] = d
                 PROVE  \E j \in 1..Len(queue') : queue'[j] = d
    BY <1>2
  <2>2. i > 1 /\ i - 1 \in 1..Len(queue') /\ queue'[i - 1] = queue[i]
    BY <1>2, <2>1
  <2>3. QED
    BY <2>1, <2>2
<1>6. \A d \in Callers : call'[d] = Idle <=> \A i \in 1..Len(queue') : queue'[i] # d
  <2>1. SUFFICES ASSUME NEW d \in Callers
                 PROVE  call'[d] = Idle <=> \A i \in 1..Len(queue') : queue'[i] # d
    OBVIOUS
  <2>2. CASE d = c
    BY <1>1, <1>4, <2>2
  <2>3. CASE d # c
    BY <1>1, <1>5, <2>3 DEF Queued
  <2>4. QED
    BY <2>2, <2>3
<1>7. \A i \in 1..Len(queue') : i > 1 => call'[queue'[i]].at = 1
  BY <1>1, <1>2, <1>4 DEF Queued
<1>8. QED
  BY <1>1, <1>2, <1>3, <1>6, <1>7 DEF Queued

\* A step that is not the last one leaves the lock where it is.
LEMMA ContinuesQueued ==
    ASSUME Typed, Queued, NEW c \in Callers, queue # << >>, queue[1] = c,
           call[c] \in Calls, NEW kind \in Kinds, NEW expires_at \in Nat,
           Continues(c, kind, expires_at)
    PROVE  /\ queue' \in Seq(Callers) /\ call' \in [Callers -> Calls \union {Idle}]
           /\ call'[c] \in Calls
           /\ Queued'
<1>1. /\ Session(c) \in Sessions
      /\ envelope(kind, Session(c)) \in Entries(Offers \union Bindings)
  <2>1. Session(c) \in Sessions
    BY Requests DEF Calls, Session
  <2>2. envelope(kind, Session(c)) \in Filled(Records(kind)) \union {Absent, Corrupt}
    BY <2>1, EnvelopeOf
  <2>3. QED
    BY <2>1, <2>2 DEF Entries, Filled, Records
<1>2. /\ call'[c] \in Calls
      /\ call' \in [Callers -> Calls \union {Idle}]
  <2> DEFINE next == [request |-> call[c].request, at |-> call[c].at + 1,
                      began |-> IF call[c].at = 1 THEN now ELSE call[c].began,
                      found |-> IF call[c].at = 1 THEN envelope(kind, Session(c))
                                ELSE call[c].found,
                      expires_at |-> expires_at]
  <2>1. /\ call[c].request \in Writes /\ call[c].at \in Nat
        /\ call[c].began \in Nat /\ now \in Nat
        /\ call[c].found \in Entries(Offers \union Bindings)
    BY DEF Calls, Typed
  <2>2. next \in Calls
    BY <1>1, <2>1 DEF Calls
  <2>3. call' = [call EXCEPT ![c] = next]
    BY DEF Continues
  <2> HIDE DEF next
  <2>4. QED
    BY <2>2, <2>3 DEF Typed
<1>3. queue' = queue /\ \A d \in Callers : d # c => call'[d] = call[d]
  BY DEF Continues, Typed
<1>4. \A i \in 1..Len(queue) : i > 1 => queue[i] # c
  BY DEF Queued, Typed
<1>5. \A i \in 1..Len(queue) : queue[i] \in Callers
  BY ElementOfSeq DEF Typed
<1>6. QED
  BY <1>2, <1>3, <1>4, <1>5, IdleAssumption DEF Queued, Typed

\* The second that goes into a file is at most a second before its time.
LEMMA Seconds ==
    ASSUME NEW at \in Nat, NEW ttl \in Nat \ {0}
    PROVE  /\ TicksPerSecond \in Nat \ {0}
           /\ ChallengeTtl \in Nat \ {0} /\ SessionTtl \in Nat \ {0}
           /\ at \div TicksPerSecond + ttl \in Nat
           /\ ttl * TicksPerSecond \in Nat
           /\ (at \div TicksPerSecond + ttl) * TicksPerSecond \in Nat
           /\ (at \div TicksPerSecond + ttl) * TicksPerSecond
                 <= at + ttl * TicksPerSecond
           /\ at + ttl * TicksPerSecond
                 <= (at \div TicksPerSecond + ttl) * TicksPerSecond
                       + TicksPerSecond - 1
<1>1. /\ TicksPerSecond \in Nat \ {0}
      /\ ChallengeTtl \in Nat \ {0} /\ SessionTtl \in Nat \ {0}
  BY TimesAssumption
<1> DEFINE k == TicksPerSecond
           q == at \div k
           r == at % k
<1>2. /\ q \in Nat /\ r \in Nat /\ r < k
      /\ at = q * k + r
  BY <1>1
<1>3. (q + ttl) * k = q * k + ttl * k
  BY <1>1, <1>2
<1>4. q * k \in Nat /\ ttl * k \in Nat
  BY <1>1, <1>2
<1>5. QED
  BY <1>1, <1>2, <1>3, <1>4

\* A record that is renamed to its file is live, and for its lifetime but for a
\* second and the time its operation has taken.
LEMMA FreshLives ==
    ASSUME Typed, NEW c \in Callers, call[c] \in Calls, Timely(c), Fresh(c),
           call[c].at > 1, Op(c) # "delete", call[c].at = Length(Op(c)),
           NEW kind \in Kinds, (kind = "reg") <=> (Op(c) = "put_pending_registration")
    PROVE  /\ now <= call[c].expires_at * TicksPerSecond
           /\ call[c].expires_at * TicksPerSecond \in
                 now + Ttl(kind) * TicksPerSecond - (Hold + TicksPerSecond - 1)
                    .. now + Ttl(kind) * TicksPerSecond
<1> DEFINE life == Ttl(kind) * TicksPerSecond
           until == call[c].expires_at * TicksPerSecond
           began == call[c].began
<1>1. /\ began <= now /\ now <= began + Hold
      /\ until <= now + life /\ began + life <= until + TicksPerSecond - 1
  BY DEF Timely, Fresh, Op, Kinds
<1>2. /\ life \in Nat /\ until \in Nat /\ began \in Nat /\ now \in Nat
      /\ TicksPerSecond \in Nat /\ Hold \in Nat
  BY TimesAssumption, HoldAssumption, SMTT(30) DEF Ttl, Calls, Typed
<1>3. Hold + TicksPerSecond - 1 <= life
  BY HoldAssumption DEF Ttl
<1> HIDE DEF life, until, began
<1>4. /\ now <= until
      /\ now + life - (Hold + TicksPerSecond - 1) <= until
  BY <1>1, <1>2, <1>3
<1>5. QED
  BY <1>1, <1>2, <1>4 DEF life, until

\* What a step of the lock's holder does to the files, to the history and to the
\* call, whatever the operation is.
LEMMA WorkEffects ==
    ASSUME Typed, Queued, Begins, NEW c \in Callers, Works(c)
    PROVE  /\ \/ files' = files
              \/ \E kind \in Kinds :
                    files' = [files EXCEPT ![kind][Session(c)] = Absent]
              \/ \E kind \in Kinds :
                    /\ Last(c) \in Records(kind) /\ call[c].expires_at \in Nat
                    /\ files' = [files EXCEPT ![kind][Session(c)] =
                          [value |-> Last(c), expires_at |-> call[c].expires_at]]
           /\ spent' \subseteq Sessions \X Offers
           /\ \/ \E value : ends(c, value)
              \/ \E kind \in Kinds, e \in Nat : Continues(c, kind, e)
<1>1. /\ call[c] \in Calls
      /\ \/ \E kind \in Kinds : check(c, kind) \/ unlink(c, kind) \/ fill(c, kind)
         \/ /\ Op(c) = "put_pending_registration"
            /\ rename(c, "reg")
         \/ /\ Op(c) \in {"put_binding", "commit_registration", "replace_binding"}
            /\ rename(c, "bind")
  BY WorkCases DEF Kinds
<1>2. \A kind \in Kinds, e \in Nat :
         goes_on(c, kind, e) =>
            \/ \E value : ends(c, value)
            \/ \E k \in Kinds, f \in Nat : Continues(c, k, f)
  BY <1>1, GoesOn
<1>3. \A kind \in Kinds : now \div TicksPerSecond + Ttl(kind) \in Nat
  <2>1. SUFFICES ASSUME NEW kind \in Kinds
                 PROVE  now \div TicksPerSecond + Ttl(kind) \in Nat
    OBVIOUS
  <2>2. Ttl(kind) \in Nat \ {0} /\ now \in Nat
    BY TimesAssumption DEF Ttl, Typed
  <2>3. QED
    BY <2>2, Seconds
<1>4. ASSUME NEW kind \in Kinds, check(c, kind)
      PROVE  /\ files' = files /\ spent' = spent
             /\ \/ \E value : ends(c, value)
                \/ \E k \in Kinds, f \in Nat : Continues(c, k, f)
  BY <1>2, <1>4 DEF check
<1>5. ASSUME NEW kind \in Kinds, unlink(c, kind)
      PROVE  /\ files' = [files EXCEPT ![kind][Session(c)] = Absent]
             /\ spent' = spent
             /\ \/ \E value : ends(c, value)
                \/ \E k \in Kinds, f \in Nat : Continues(c, k, f)
  BY <1>2, <1>5 DEF unlink, Session
<1>6. ASSUME NEW kind \in Kinds, fill(c, kind)
      PROVE  /\ files' = files /\ spent' = spent
             /\ \/ \E value : ends(c, value)
                \/ \E k \in Kinds, f \in Nat : Continues(c, k, f)
  BY <1>2, <1>3, <1>6 DEF fill, Ttl
<1>7. ASSUME NEW kind \in Kinds, rename(c, kind), Last(c) \in Records(kind),
             Op(c) \in {"put_pending_registration", "commit_registration"} =>
                call[c].request.args[1] \in Offers
      PROVE  /\ files' = [files EXCEPT ![kind][Session(c)] =
                    [value |-> Last(c), expires_at |-> call[c].expires_at]]
             /\ call[c].expires_at \in Nat
             /\ spent' \subseteq Sessions \X Offers
             /\ \/ \E value : ends(c, value)
                \/ \E k \in Kinds, f \in Nat : Continues(c, k, f)
  <2>1. /\ goes_on(c, kind, 0)
        /\ files' = [files EXCEPT ![kind][Session(c)] =
               [value |-> Last(c), expires_at |-> call[c].expires_at]]
    BY <1>7 DEF rename, Session, Last
  <2>2. Session(c) \in Sessions
    BY <1>1, Requests DEF Calls, Session
  <2>3. spent' \subseteq Sessions \X Offers
    BY <1>7, <2>2 DEF rename, Typed, Session, Op
  <2>4. QED
    BY <1>1, <1>2, <2>1, <2>3 DEF Calls
<1>8. call[c].request \in Writes
  BY <1>1 DEF Calls
<1>9. /\ Op(c) = "put_pending_registration" =>
            Last(c) \in Offers /\ call[c].request.args[1] \in Offers
      /\ Op(c) = "commit_registration" =>
            Last(c) \in Bindings /\ call[c].request.args[1] \in Offers
      /\ Op(c) \in {"put_binding", "replace_binding"} => Last(c) \in Bindings
  BY <1>8, Arguments DEF Op, Last
<1>10. spent \subseteq Sessions \X Offers
  BY DEF Typed
<1>11. CASE \E kind \in Kinds : check(c, kind) \/ unlink(c, kind) \/ fill(c, kind)
  BY <1>11, <1>4, <1>5, <1>6, <1>10
<1>12. CASE Op(c) = "put_pending_registration" /\ rename(c, "reg")
  BY <1>12, <1>7, <1>9 DEF Records, Kinds
<1>13. CASE /\ Op(c) \in {"put_binding", "commit_registration", "replace_binding"}
            /\ rename(c, "bind")
  BY <1>13, <1>7, <1>9 DEF Records, Kinds
<1>14. QED
  BY <1>1, <1>11, <1>12, <1>13

\* A step under the lock keeps the types, and the lock's queue holds exactly the
\* callers that are not idle.
LEMMA WorkTyped ==
    ASSUME Typed, Queued, Begins, NEW c \in Callers, Works(c)
    PROVE  Typed' /\ Queued'
<1>1. call[c] \in Calls /\ queue # << >> /\ queue[1] = c /\ UNCHANGED bounded
  BY WorkCases
<1>2. /\ queue' \in Seq(Callers) /\ call' \in [Callers -> Calls \union {Idle}]
      /\ Queued'
  BY <1>1, WorkEffects, EndsQueued, ContinuesQueued
<1>3. Session(c) \in Sessions
  BY <1>1, Requests DEF Calls, Session
<1>4. /\ files' \in [Kinds -> [Sessions -> Entries(Offers \union Bindings)]]
      /\ files'["reg"] \in [Sessions -> Entries(Offers)]
      /\ files'["bind"] \in [Sessions -> Entries(Bindings)]
  <2>1. CASE files' = files
    BY <2>1 DEF Typed
  <2>2. ASSUME NEW kind \in Kinds, NEW e \in Filled(Records(kind)) \union {Absent},
               files' = [files EXCEPT ![kind][Session(c)] = e]
        PROVE  /\ files' \in [Kinds -> [Sessions -> Entries(Offers \union Bindings)]]
               /\ files'["reg"] \in [Sessions -> Entries(Offers)]
               /\ files'["bind"] \in [Sessions -> Entries(Bindings)]
    <3>1. e \in Entries(Records(kind)) /\ e \in Entries(Offers \union Bindings)
      BY <2>2 DEF Entries, Filled, Records
    <3>2. QED
      BY <2>2, <3>1, <1>3 DEF Typed, Kinds, Records
  <2>3. QED
    BY <2>1, <2>2, WorkEffects DEF Filled
<1>5. QED
  BY <1>1, <1>2, <1>4, WorkEffects DEF Typed, bounded

\* A call that has not begun has found nothing yet.
LEMMA NotBegun ==
    ASSUME NEW c \in Callers, call[c] \in Calls, call[c].at = 1
    PROVE  Found(c) /\ Timely(c) /\ Fresh(c)
BY Lengths DEF Found, Timely, Fresh, Length, Op

\* A step under the lock leaves what is known of the caller that has begun: it is
\* the holder, and what it noted down is what its operation is about.
LEMMA WorkBegins ==
    ASSUME Typed, Queued, Begins, NEW c \in Callers, Works(c)
    PROVE  Begins'
<1>1. /\ call[c] \in Calls /\ queue # << >> /\ queue[1] = c /\ UNCHANGED bounded
  BY WorkCases
<1>2. Typed' /\ Queued'
  BY WorkTyped
<1>3. /\ DOMAIN call = Callers
      /\ \A d \in Callers : d # c => call'[d] = call[d]
  <2>1. ASSUME NEW value, ends(c, value)
        PROVE  \A d \in Callers : d # c => call'[d] = call[d]
    BY <2>1 DEF ends, Typed
  <2>2. ASSUME NEW kind, NEW e, Continues(c, kind, e)
        PROVE  \A d \in Callers : d # c => call'[d] = call[d]
    BY <2>2 DEF Continues, Typed
  <2>3. QED
    BY <2>1, <2>2, WorkEffects DEF Typed
<1>4. ASSUME NEW d \in Callers, d # c, call'[d] # Idle
      PROVE  Found(d)' /\ Timely(d)' /\ Fresh(d)'
  <2>1. call[d].at = 1 /\ call'[d] = call[d] /\ call[d] \in Calls
    BY <1>1, <1>3, <1>4, OthersWait DEF Typed
  <2>2. Length(call[d].request.op) >= 1
    BY <2>1, Lengths DEF Length, Op
  <2>3. QED
    BY <2>1, <2>2, Lengths DEF Found, Timely, Fresh, Op, Length
<1>5. ASSUME call'[c] # Idle
      PROVE  Found(c)' /\ Timely(c)' /\ Fresh(c)'
  <2> DEFINE s == Session(c)
             request == call[c].request
             at == call[c].at
  <2>1. /\ call'[c].request = request /\ call'[c].at = at + 1
        /\ at \in Nat /\ s \in Sessions /\ request \in Writes
        /\ call'[c].at # 1
        /\ \E kind \in Kinds, e \in Nat : Continues(c, kind, e)
    <3>1. \A value : ~ ends(c, value)
      BY <1>5 DEF ends, Typed
    <3>2. PICK kind \in Kinds, e \in Nat : Continues(c, kind, e)
      BY <3>1, WorkEffects
    <3>3. call'[c].request = request /\ call'[c].at = at + 1
      BY <3>2 DEF Continues, Typed
    <3>4. at \in Nat /\ request \in Writes /\ s \in Sessions /\ at # 0
      BY <1>1, Requests, IdleAssumption DEF Calls, Session, Begins, Fresh
    <3>5. QED
      BY <3>2, <3>3, <3>4
  <2>0. Found(c) /\ Timely(c) /\ Fresh(c) /\ now \in Nat /\ now' = now /\ Hold \in Nat
    BY <1>1, IdleAssumption, HoldAssumption DEF Begins, Typed, bounded
  <2>2. \A kind, e : goes_on(c, kind, e) =>
           /\ at # Length(Op(c))
           /\ Continues(c, kind, e)
    BY <1>1, <1>5, GoesOn DEF ends, Typed
  <2>02. ASSUME NEW kind \in Kinds, NEW e, Continues(c, kind, e)
         PROVE  /\ call'[c].expires_at = e
                /\ call'[c].began = IF at = 1 THEN now ELSE call[c].began
                /\ call'[c].found = IF at = 1 THEN envelope(kind, s)
                                    ELSE call[c].found
                /\ Timely(c)'
    <3>1. /\ call'[c].expires_at = e
          /\ call'[c].began = IF at = 1 THEN now ELSE call[c].began
          /\ call'[c].found = IF at = 1 THEN envelope(kind, s) ELSE call[c].found
      BY <2>02 DEF Continues, Typed
    <3>2. CASE at = 1
      BY <2>0, <2>1, <3>1, <3>2, EnvelopeOf DEF Timely
    <3>3. CASE at # 1
      BY <2>0, <2>1, <3>1, <3>3 DEF Timely
    <3>4. QED
      BY <3>1, <3>2, <3>3
  <2>03. Timely(c)'
    BY <2>1, <2>02
  <2>3. ASSUME NEW kind \in Kinds, fill(c, kind)
        PROVE  LET until == call'[c].expires_at * TicksPerSecond
                   life == Ttl(kind) * TicksPerSecond
               IN  /\ files' = files
                   /\ until <= now + life
                   /\ call'[c].began + life <= until + TicksPerSecond - 1
                   /\ at > 1 => call'[c].found = call[c].found
    <3>1. /\ files' = files
          /\ Continues(c, kind, now \div TicksPerSecond + Ttl(kind))
      BY <2>2, <2>3 DEF fill, Ttl
    <3>2. /\ call'[c].expires_at = now \div TicksPerSecond + Ttl(kind)
          /\ call'[c].began = IF at = 1 THEN now ELSE call[c].began
          /\ at > 1 => call'[c].found = call[c].found
      BY <2>02, <3>1
    <3>3. Ttl(kind) \in Nat \ {0}
      BY TimesAssumption DEF Ttl
    <3>4. call'[c].began <= now /\ call'[c].began \in Nat /\ at \in Nat /\ at # 0
      <4>1. call[c].began \in Nat
        BY <1>1 DEF Calls
      <4>2. at \in Nat /\ at # 0
        BY <2>0, <2>1 DEF Fresh
      <4>3. at > 1 => call[c].began <= now
        BY <2>0 DEF Timely
      <4>4. QED
        BY <2>0, <3>2, <4>1, <4>2, <4>3
    <3> DEFINE life == Ttl(kind) * TicksPerSecond
               until == (now \div TicksPerSecond + Ttl(kind)) * TicksPerSecond
    <3>5. /\ life \in Nat /\ until \in Nat /\ TicksPerSecond \in Nat
          /\ until <= now + life /\ now + life <= until + TicksPerSecond - 1
      BY <2>0, <3>3, Seconds
    <3>6. call'[c].expires_at * TicksPerSecond = until
      BY <3>2
    <3> HIDE DEF life, until
    <3>7. call'[c].began + life <= until + TicksPerSecond - 1
      BY <2>0, <3>4, <3>5
    <3>8. QED
      BY <3>1, <3>2, <3>5, <3>6, <3>7 DEF life
  <2>4. ASSUME NEW kind \in Kinds, unlink(c, kind)
        PROVE  /\ files'[kind][s] = Absent
               /\ at > 1 => call'[c].found = call[c].found
    <3>1. /\ files' = [files EXCEPT ![kind][s] = Absent]
          /\ Continues(c, kind, 0)
      BY <2>2, <2>4 DEF unlink, Session
    <3>2. QED
      BY <2>1, <2>02, <3>1 DEF Typed
  <2>5. ASSUME NEW kind \in Kinds, check(c, kind), at = 1,
               request.args[1] \in Records(kind)
        PROVE  /\ files' = files
               /\ call'[c].found = files[kind][s]
               /\ call'[c].found \in Filled(Records(kind))
               /\ call'[c].found.value = request.args[1]
    <3>1. /\ files' = files
          /\ read(kind, s) = request.args[1]
          /\ Continues(c, kind, 0)
      BY <2>2, <2>5, <1>5 DEF check, ends, Typed, Session
    <3>2. call'[c].found = envelope(kind, s)
      BY <2>02, <2>5, <3>1
    <3>3. QED
      BY <2>1, <2>5, <3>1, <3>2, ReadOf, EnvelopeOf
  <2>6. Found(c) /\ Fresh(c)
    BY <2>0
  <2>7. CASE Op(c) = "put_pending_registration"
    <3>1. at = 1 /\ fill(c, "reg")
      BY <2>2, <2>7, WorkCases DEF rename, Length
    <3>2. QED
      BY <2>0, <2>1, <2>03, <2>3, <2>7, <3>1 DEF Found, Fresh, Op, Length, Kinds
  <2>8. CASE Op(c) = "delete_pending_registration"
    BY <2>1, <2>2, <2>03, <2>6, <2>8, WorkCases
    DEF Found, Fresh, Op, Session, Length, Kinds, unlink
  <2>9. CASE Op(c) = "put_binding"
    <3>1. at = 1 /\ fill(c, "bind")
      BY <2>2, <2>9, WorkCases DEF rename, Length
    <3>2. QED
      BY <2>0, <2>1, <2>03, <2>3, <2>9, <3>1 DEF Found, Fresh, Op, Length, Kinds
  <2>10. CASE Op(c) = "delete"
    BY <2>1, <2>2, <2>03, <2>4, <2>6, <2>10, WorkCases
    DEF Found, Fresh, Op, Session, Length, Kinds, unlink
  <2>11. CASE Op(c) = "commit_registration"
    <3>1. request.args[1] \in Offers
      BY <2>1, <2>11, Arguments DEF Op
    <3>2. CASE at = 1 /\ check(c, "reg")
      <4>1. /\ files' = files /\ call'[c].found = files["reg"][s]
            /\ call'[c].found \in Filled(Offers)
            /\ call'[c].found.value = request.args[1]
        BY <2>5, <3>1, <3>2 DEF Kinds, Records
      <4>2. QED
        BY <2>1, <2>03, <2>11, <3>2, <4>1 DEF Found, Fresh, Op, Session, Length
    <3>3. CASE at = 2 /\ unlink(c, "reg")
      BY <2>1, <2>03, <2>4, <2>6, <2>11, <3>3 DEF Found, Fresh, Op, Session, Length, Kinds
    <3>4. CASE at = 3 /\ fill(c, "bind")
      BY <2>0, <2>1, <2>03, <2>3, <2>6, <2>11, <3>4 DEF Found, Fresh, Op, Session, Length, Kinds
    <3>5. CASE at = 4 /\ rename(c, "bind")
      BY <2>2, <2>11, <3>5 DEF rename, Length
    <3>6. QED
      BY <2>11, <3>2, <3>3, <3>4, <3>5, WorkCases
  <2>12. CASE Op(c) = "replace_binding"
    <3>1. request.args[1] \in Bindings
      BY <2>1, <2>12, Arguments DEF Op
    <3>2. CASE at = 1 /\ check(c, "bind")
      <4>1. /\ files' = files /\ call'[c].found = files["bind"][s]
            /\ call'[c].found \in Filled(Bindings)
            /\ call'[c].found.value = request.args[1]
        BY <2>5, <3>1, <3>2 DEF Kinds, Records
      <4>2. QED
        BY <2>1, <2>03, <2>12, <3>2, <4>1 DEF Found, Fresh, Op, Session, Length
    <3>3. CASE at = 2 /\ fill(c, "bind")
      BY <2>0, <2>1, <2>03, <2>3, <2>6, <2>12, <3>3 DEF Found, Fresh, Op, Session, Length, Kinds
    <3>4. CASE at = 3 /\ rename(c, "bind")
      BY <2>2, <2>12, <3>4 DEF rename, Length
    <3>5. QED
      BY <2>12, <3>2, <3>3, <3>4, WorkCases
  <2>13. QED
    BY <1>1, <2>7, <2>8, <2>9, <2>10, <2>11, <2>12, Lengths
<1>6. QED
  BY <1>4, <1>5 DEF Begins

\* An offer that is put again is not spent any more, and one that is spent is
\* gone from its file.
LEMMA WorkSpent ==
    ASSUME Typed, Queued, Begins, SpentIsGone, NEW c \in Callers, Works(c)
    PROVE  SpentIsGone'
<1> DEFINE s == Session(c)
           request == call[c].request
<1>1. /\ call[c] \in Calls /\ request \in Writes /\ s \in Sessions /\ Found(c)
      /\ call[c].at \in Nat
  BY WorkCases, Requests, IdleAssumption DEF Calls, Session, Begins
<1>2. /\ files["reg"] \in [Sessions -> Entries(Offers)]
      /\ DOMAIN files = Kinds /\ DOMAIN files["bind"] = Sessions
  BY DEF Typed, Kinds
<1>3. Absent \notin Filled(Offers)
  BY DistinctAssumption DEF Filled
<1>4. ASSUME NEW kind \in Kinds, check(c, kind) \/ fill(c, kind) \/ unlink(c, kind)
      PROVE  SpentIsGone'
  <2>1. spent' = spent /\ (files' = files \/ files' = [files EXCEPT ![kind][s] = Absent])
    BY <1>4 DEF check, fill, unlink, Session
  <2>2. \A q \in Sessions : files'["reg"][q] \in {files["reg"][q], Absent}
    BY <1>1, <1>2, <2>1 DEF Kinds
  <2>3. QED
    BY <1>3, <2>1, <2>2 DEF SpentIsGone
<1>5. ASSUME Op(c) = "put_pending_registration", rename(c, "reg")
      PROVE  SpentIsGone'
  <2>1. /\ request.args[1] \in Offers /\ Last(c) = request.args[1]
    BY <1>1, <1>5, Arguments DEF Op, Last
  <2>2. /\ spent' = spent \ {<<s, request.args[1]>>}
        /\ files' = [files EXCEPT !["reg"][s] =
              [value |-> Last(c), expires_at |-> call[c].expires_at]]
    BY <1>5 DEF rename, Op, Session, Last
  <2>3. /\ files'["reg"][s].value = request.args[1]
        /\ \A q \in Sessions : q # s => files'["reg"][q] = files["reg"][q]
    BY <1>1, <1>2, <2>1, <2>2 DEF Kinds
  <2>4. QED
    BY <2>1, <2>2, <2>3 DEF SpentIsGone
<1>6. ASSUME rename(c, "bind"), Op(c) \in {"put_binding", "replace_binding"}
      PROVE  SpentIsGone'
  <2>1. spent' = spent /\ files'["reg"] = files["reg"]
    BY <1>2, <1>6 DEF rename, Op, Kinds
  <2>2. QED
    BY <2>1 DEF SpentIsGone
<1>7. ASSUME rename(c, "bind"), Op(c) = "commit_registration", call[c].at = 4
      PROVE  SpentIsGone'
  <2>1. /\ spent' = spent \union {<<s, request.args[1]>>}
        /\ files'["reg"] = files["reg"]
    BY <1>2, <1>7 DEF rename, Op, Kinds, Session
  <2>2. files["reg"][s] = Absent
    BY <1>1, <1>7 DEF Found, Op, Session
  <2>3. QED
    BY <1>3, <2>1, <2>2 DEF SpentIsGone
<1>8. QED
  BY <1>4, <1>5, <1>6, <1>7, WorkCases DEF Kinds

\* A call joins the queue.
LEMMA CallKeeps ==
    ASSUME FInv, NEW c \in Callers, NEW request \in Writes, calls(c, request)
    PROVE  FInv'
<1> USE DEF FInv
<1> DEFINE first == [request |-> request, at |-> 1, began |-> 0,
                     found |-> Absent, expires_at |-> 0]
<1>1. /\ first \in Calls /\ call[c] = Idle
      /\ call' = [call EXCEPT ![c] = first]
      /\ queue' = Append(queue, c)
      /\ UNCHANGED <<files, result, spent, now>>
  BY DEF calls, Calls, Entries, bounded
<1>2. /\ queue' \in Seq(Callers) /\ Len(queue') = Len(queue) + 1
      /\ Len(queue) \in Nat
      /\ \A i \in 1..Len(queue) : queue'[i] = queue[i]
      /\ queue'[Len(queue) + 1] = c
  BY <1>1, AppendProperties, LenProperties DEF Typed
<1>3. Typed'
  BY <1>1, <1>2 DEF Typed
<1>4. /\ call'[c] = first /\ first # Idle
      /\ \A d \in Callers : d # c => call'[d] = call[d]
  BY <1>1, IdleAssumption DEF Typed
<1>5. \A i \in 1..Len(queue) : queue[i] # c /\ queue[i] \in Callers
  BY <1>1, ElementOfSeq DEF Queued, Typed
<1>6. Queued'
  <2>1. \A i, j \in 1..Len(queue') : queue'[i] = queue'[j] => i = j
    BY <1>2, <1>5 DEF Queued
  <2>2. \A d \in Callers :
           call'[d] = Idle <=> \A i \in 1..Len(queue') : queue'[i] # d
    BY <1>2, <1>4 DEF Queued
  <2>3. \A i \in 1..Len(queue') : i > 1 => call'[queue'[i]].at = 1
    BY <1>2, <1>4, <1>5 DEF Queued
  <2>4. QED
    BY <2>1, <2>2, <2>3 DEF Queued
<1>7. Begins'
  <2>1. Found(c)' /\ Timely(c)' /\ Fresh(c)'
    BY <1>1, <1>4, Requests DEF Found, Timely, Fresh, Length, Named
  <2>2. \A d \in Callers :
           d # c /\ call'[d] # Idle => Found(d)' /\ Timely(d)' /\ Fresh(d)'
    BY <1>1, <1>4 DEF Begins, Found, Timely, Fresh
  <2>3. QED
    BY <2>1, <2>2 DEF Begins
<1>8. SpentIsGone'
  BY <1>1 DEF SpentIsGone
<1>9. QED
  BY <1>3, <1>6, <1>7, <1>8

\* The steps of the environment: time passes, the process stops, a file decays.
LEMMA TickKeeps == FInv /\ Tick => FInv'
<1> SUFFICES ASSUME FInv, Tick PROVE FInv'
  OBVIOUS
<1> USE DEF FInv
<1>1. /\ now' = now + 1 /\ UNCHANGED <<files, call, queue, spent>>
      /\ \A c \in Callers :
            call[c] # Idle /\ call[c].at > 1 => now < call[c].began + Hold
  BY DEF Tick, Begun
<1>2. Queued' /\ SpentIsGone' /\ Typed'
  <2>1. files' = files /\ call' = call /\ queue' = queue /\ spent' = spent
    BY <1>1
  <2>2. now' \in Nat
    BY <1>1 DEF Typed
  <2>3. Typed'
    BY <2>1, <2>2, Zenon DEF Typed
  <2>4. Queued' /\ SpentIsGone'
    BY <2>1, Zenon DEF Queued, SpentIsGone
  <2>5. QED
    BY <2>3, <2>4
<1>3. ASSUME NEW c \in Callers, call[c] # Idle
      PROVE  Found(c)' /\ Timely(c)' /\ Fresh(c)'
  <2>1. /\ Found(c) /\ Timely(c) /\ Fresh(c)
        /\ call[c].began \in Nat /\ now \in Nat /\ Hold \in Nat
    BY <1>3, HoldAssumption DEF Begins, Typed, Calls
  <2>2. Found(c)'
    BY <1>1, <2>1, Zenon DEF Found
  <2>3. Timely(c)'
    BY <1>1, <1>3, <2>1 DEF Timely
  <2>4. Fresh(c)'
    <3>1. Ttl("reg") * TicksPerSecond \in Nat /\ Ttl("bind") * TicksPerSecond \in Nat
      BY TimesAssumption DEF Ttl
    <3>2. call[c].expires_at * TicksPerSecond \in Nat
      BY <1>3, TimesAssumption DEF Typed, Calls
    <3>3. QED
      BY <1>1, <2>1, <3>1, <3>2 DEF Fresh
  <2>5. QED
    BY <2>2, <2>3, <2>4
<1>4. QED
  BY <1>1, <1>2, <1>3 DEF Begins

\* A process that stops and starts again has lost the calls and kept the files.
LEMMA RestartKeeps == FInv /\ Restart => FInv'
<1> SUFFICES ASSUME FInv, Restart PROVE FInv'
  OBVIOUS
<1> USE DEF FInv
<1>1. /\ now' = now + 1 /\ call' = [c \in Callers |-> Idle] /\ queue' = << >>
      /\ files' = files /\ spent' = spent
  BY DEF Restart
<1>2. Len(queue') = 0 /\ queue' \in Seq(Callers)
  BY <1>1
<1>3. Typed' /\ SpentIsGone'
  <2>1. now' \in Nat /\ call' \in [Callers -> Calls \union {Idle}]
    BY <1>1 DEF Typed
  <2>2. Typed'
    BY <1>1, <1>2, <2>1, Zenon DEF Typed
  <2>3. SpentIsGone'
    BY <1>1, Zenon DEF SpentIsGone
  <2>4. QED
    BY <2>2, <2>3
<1>4. Queued' /\ Begins'
  BY <1>1, <1>2 DEF Queued, Begins
<1>5. QED
  BY <1>3, <1>4

\* A damaged file is no record, and brings no spent offer back.
LEMMA DecayKeeps == FInv /\ Decay => FInv'
<1> SUFFICES ASSUME FInv, Decay PROVE FInv'
  OBVIOUS
<1> USE DEF FInv
<1>1. /\ UNCHANGED <<call, queue, now, spent>>
      /\ \A c \in Callers : call[c] # Idle => ~ (call[c].at > 1)
  BY DEF Decay, Begun
<1>2. PICK kind \in Kinds, s \in Sessions :
         files' = [files EXCEPT ![kind][s] = Corrupt]
  BY DEF Decay, Kinds
<1>3. Typed'
  <2>1. \A R : Corrupt \in Entries(R)
    BY DEF Entries
  <2>2. /\ files' \in [Kinds -> [Sessions -> Entries(Offers \union Bindings)]]
        /\ files'["reg"] \in [Sessions -> Entries(Offers)]
        /\ files'["bind"] \in [Sessions -> Entries(Bindings)]
    BY <1>2, <2>1 DEF Typed, Kinds
  <2>3. QED
    BY <1>1, <2>2 DEF Typed
<1>4. Queued'
  BY <1>1 DEF Queued
<1>5. Begins'
  <2>1. \A c \in Callers : call[c] # Idle => call[c].at = 1 /\ call[c] \in Calls
    BY <1>1 DEF Begins, Fresh, Typed
  <2>2. QED
    BY <1>1, <2>1, Lengths DEF Begins, Found, Timely, Fresh, Op, Length
<1>6. SpentIsGone'
  <2>1. Corrupt \notin Filled(Offers)
    BY DistinctAssumption DEF Filled
  <2>2. \A q \in Sessions : files'["reg"][q] \in {files["reg"][q], Corrupt}
    BY <1>2 DEF Typed, Kinds
  <2>3. QED
    BY <1>1, <2>1, <2>2 DEF SpentIsGone
<1>7. QED
  BY <1>3, <1>4, <1>5, <1>6

\* FInv is inductive: it holds at first, and every step keeps it.
THEOREM FileStoreInvariant == Spec => []FInv
<1>1. Init => FInv
  <2> SUFFICES ASSUME Init PROVE FInv
    OBVIOUS
  <2>1. Typed
    BY DEF Init, Typed, Kinds, Entries
  <2>2. Queued /\ Begins
    BY DEF Init, Queued, Begins
  <2>3. SpentIsGone
    BY DEF Init, SpentIsGone
  <2>4. QED
    BY <2>1, <2>2, <2>3 DEF FInv
<1>2. FInv /\ [Next]_vars => FInv'
  <2> SUFFICES ASSUME FInv, [Next]_vars PROVE FInv'
    OBVIOUS
  <2>1. ASSUME NEW c \in Callers, Works(c)
        PROVE  FInv'
    BY <2>1, WorkTyped, WorkBegins, WorkSpent DEF FInv
  <2>2. ASSUME UNCHANGED <<files, call, queue, now, spent>>
        PROVE  FInv'
    BY <2>2 DEF FInv, Typed, Queued, Begins, Found, Timely, Fresh, SpentIsGone
  <2>3. UNCHANGED vars => FInv'
    BY <2>2 DEF vars
  <2>4. QED
    BY <2>1, <2>3, CallKeeps, TickKeeps, RestartKeeps, DecayKeeps DEF Next
<1>3. QED
  BY <1>1, <1>2, PTL DEF Spec

\* The files keep their types and only the holder of the lock has begun: TypeOK,
\* for any number of callers.
THEOREM Typing == Spec => []TypeOK
<1>1. FInv => TypeOK
  <2> SUFFICES ASSUME FInv PROVE TypeOK
    OBVIOUS
  <2> USE DEF FInv
  <2>1. ASSUME NEW c \in Callers, call[c] = Idle
        PROVE  \A i \in 1..Len(queue) : queue[i] # c
    BY <2>1 DEF Queued
  <2>2. ASSUME NEW c \in Callers, call[c] # Idle
        PROVE  /\ call[c].request \in Writes
               /\ \E i \in 1..Len(queue) : queue[i] = c /\ (i > 1 => call[c].at = 1)
    BY <2>2 DEF Queued, Typed, Calls
  <2>3. QED
    BY <2>1, <2>2 DEF TypeOK, Typed, Queued
<1>2. QED
  BY <1>1, FileStoreInvariant, PTL

\* No offer binds twice, wherever the process stops: OfferBindsOnce.
THEOREM OfferSpentOnce == Spec => []OfferBindsOnce
<1>1. FInv => OfferBindsOnce
  <2> SUFFICES ASSUME FInv, NEW s \in Sessions, NEW p \in Offers,
                      <<s, p>> \in spent, read("reg", s) = p
               PROVE  FALSE
    BY DEF OfferBindsOnce
  <2>1. files["reg"][s] \in Filled(Offers) /\ files["reg"][s].value = p
    BY ReadOf, EnvelopeOf DEF FInv, Kinds, Records
  <2>2. QED
    BY <2>1 DEF FInv, SpentIsGone
<1>2. QED
  BY <1>1, FileStoreInvariant, PTL

------------------------------------------------------------------------------
Hiding(kind) == IF kind = "reg" THEN {"commit_registration", "delete"}
                ELSE {"replace_binding"}

\* What the contract sees: the record of the file, or what the call found that
\* is changing it.
SeenThrough(c, kind, s) ==
    IF Session(c) = s /\ Op(c) \in Hiding(kind) THEN call[c].found
    ELSE envelope(kind, s)

Sees ==
    /\ \A c \in Callers : call[c] # Idle /\ call[c].at > 1 =>
          \A s \in Sessions :
             /\ Seen_offer(s) = SeenThrough(c, "reg", s)
             /\ Seen_binding(s) = SeenThrough(c, "bind", s)
    /\ Begun = {} =>
          \A s \in Sessions :
             /\ Seen_offer(s) = envelope("reg", s)
             /\ Seen_binding(s) = envelope("bind", s)

\* At most one call has begun, so the contract sees through that one.
LEMMA Seeing == FInv => Sees
<1> SUFFICES ASSUME FInv PROVE Sees
  OBVIOUS
<1> USE DEF FInv
<1>1. ASSUME NEW c \in Callers, call[c] # Idle, call[c].at > 1
      PROVE  Begun = {c}
  <2>1. PICK i \in 1..Len(queue) : queue[i] = c
    BY <1>1 DEF Queued
  <2>2. ~ (i > 1)
    BY <1>1, <2>1 DEF Queued
  <2>3. queue[1] = c /\ queue # << >>
    BY <2>1, <2>2 DEF Typed
  <2>4. \A d \in Callers : d # c /\ call[d] # Idle => ~ (call[d].at > 1)
    BY <2>3, OthersWait
  <2>5. QED
    BY <1>1, <2>4 DEF Begun
<1>2. ASSUME NEW c \in Callers, call[c] # Idle, call[c].at > 1,
             NEW s \in Sessions, NEW kind, NEW ops
      PROVE  Seen(kind, ops, s) = IF Session(c) = s /\ Op(c) \in ops
                                  THEN call[c].found ELSE envelope(kind, s)
  <2>1. CASE Session(c) = s /\ Op(c) \in ops
    <3>1. Under_way(ops, s) = {c}
      BY <1>1, <1>2, <2>1 DEF Under_way, Session, Op
    <3>2. (CHOOSE d \in Under_way(ops, s) : TRUE) = c
      BY <3>1
    <3>3. QED
      BY <2>1, <3>1, <3>2 DEF Seen
  <2>2. CASE ~ (Session(c) = s /\ Op(c) \in ops)
    <3>1. Under_way(ops, s) = {}
      BY <1>1, <1>2, <2>2 DEF Under_way, Session, Op
    <3>2. QED
      BY <2>2, <3>1 DEF Seen
  <2>3. QED
    BY <2>1, <2>2
<1>3. ASSUME Begun = {}, NEW s \in Sessions, NEW kind, NEW ops
      PROVE  Seen(kind, ops, s) = envelope(kind, s)
  BY <1>3 DEF Seen, Under_way
<1>4. QED
  BY <1>2, <1>3 DEF Sees, Seen_offer, Seen_binding, SeenThrough, Hiding

\* What the contract sees is an envelope, or that there is none to be had.
Sees_typed ==
    \A s \in Sessions : /\ Seen_offer(s) \in Entries(Offers \union Bindings)
                         /\ Seen_binding(s) \in Entries(Offers \union Bindings)

\* It does, as the files and the calls hold nothing else.
LEMMA SeenTyped == FInv => Sees_typed
<1> SUFFICES ASSUME FInv, NEW s \in Sessions
             PROVE  /\ Seen_offer(s) \in Entries(Offers \union Bindings)
                    /\ Seen_binding(s) \in Entries(Offers \union Bindings)
  BY DEF Sees_typed
<1>1. ASSUME NEW k \in Kinds
      PROVE  envelope(k, s) \in Entries(Offers \union Bindings)
  <2>1. envelope(k, s) \in Filled(Records(k)) \union {Absent, Corrupt}
    BY <1>1, EnvelopeOf DEF FInv
  <2>2. QED
    BY <2>1 DEF Filled, Records, Entries
<1>2. \A c \in Callers : call[c] # Idle =>
         call[c].found \in Entries(Offers \union Bindings)
  BY DEF FInv, Typed, Calls
<1>3. CASE Begun = {}
  BY <1>1, <1>3, Seeing DEF Sees, Kinds
<1>4. CASE Begun # {}
  <2>1. PICK c \in Callers : call[c] # Idle /\ call[c].at > 1
    BY <1>4 DEF Begun
  <2>2. QED
    BY <1>1, <1>2, <2>1, Seeing DEF Sees, SeenThrough, Kinds
<1>5. QED
  BY <1>3, <1>4

\* The same after a step.
LEMMA SeenTypedNext == FInv' => Sees_typed'
BY SeenTyped, PTL

\* The record in an envelope can be read, and its last instant is a tick.
LEMMA PayloadOf ==
    ASSUME NEW e \in Entries(Offers \union Bindings)
    PROVE  /\ Contract!Readable(payload(e)) <=> e \notin {Absent, Corrupt}
           /\ payload(e) = Absent <=> e = Absent
           /\ payload(e) = Corrupt <=> e = Corrupt
           /\ Until(e) \in Nat
           /\ e \in {Absent, Corrupt} => payload(e) = e /\ Until(e) = 0
           /\ e \notin {Absent, Corrupt} =>
                 /\ e \in Filled(Offers \union Bindings)
                 /\ payload(e) = e.value
                 /\ Until(e) = e.expires_at * TicksPerSecond
<1>1. CASE e \in {Absent, Corrupt}
  BY <1>1, DistinctAssumption DEF payload, Until, Contract!Readable
<1>2. CASE e \notin {Absent, Corrupt}
  <2>1. /\ e \in Filled(Offers \union Bindings) /\ e.value \in Offers \union Bindings
        /\ e.expires_at \in Nat /\ TicksPerSecond \in Nat
    BY <1>2, TimesAssumption DEF Entries, Filled
  <2>2. e.value \notin {Absent, Corrupt} /\ e.expires_at * TicksPerSecond \in Nat
    BY <2>1, DistinctAssumption
  <2>3. QED
    BY <1>2, <2>1, <2>2 DEF payload, Until, Contract!Readable
<1>3. QED
  BY <1>1, <1>2

\* What the contract sees of the records, after a step.
LEMMA SeeingNext == FInv' => Sees'
BY Seeing, PTL

\* Whose turn it is: nobody has begun before the first step of an operation, and
\* nobody after its last.
LEMMA Turns ==
    ASSUME FInv, NEW c \in Callers, Works(c)
    PROVE  /\ call[c].at = 1 => Begun = {}
           /\ \A value : ends(c, value) => Begun' = {}
<1> USE DEF FInv
<1>1. call[c] \in Calls /\ queue # << >> /\ queue[1] = c
  BY WorkCases
<1>2. \A d \in Callers : d # c /\ call[d] # Idle => ~ (call[d].at > 1)
  BY <1>1, OthersWait
<1>3. call[c].at = 1 => Begun = {}
  BY <1>2 DEF Begun
<1>4. ASSUME NEW value, ends(c, value)
      PROVE  Begun' = {}
  BY <1>2, <1>4 DEF Begun, ends, Typed
<1>5. QED
  BY <1>3, <1>4

\* What the contract sees after a step that is not the last one.
LEMMA SeenOn ==
    ASSUME FInv, FInv', NEW c \in Callers, Works(c), NEW kind, NEW e,
           Continues(c, kind, e)
    PROVE  /\ Session(c)' = Session(c) /\ Op(c)' = Op(c) /\ call'[c] # Idle
           /\ call'[c].found = IF call[c].at = 1 THEN envelope(kind, Session(c))
                               ELSE call[c].found
           /\ \A s \in Sessions :
                 /\ Seen_offer(s)' = SeenThrough(c, "reg", s)'
                 /\ Seen_binding(s)' = SeenThrough(c, "bind", s)'
<1>1. /\ call'[c].request = call[c].request /\ call'[c].at = call[c].at + 1
      /\ call'[c].found = IF call[c].at = 1 THEN envelope(kind, Session(c))
                          ELSE call[c].found
      /\ call'[c] # Idle
  <2>1. /\ call'[c].request = call[c].request /\ call'[c].at = call[c].at + 1
        /\ call'[c].found = IF call[c].at = 1 THEN envelope(kind, Session(c))
                            ELSE call[c].found
        /\ queue' = queue
    BY DEF FInv, Continues, Typed
  <2>2. queue # << >> /\ queue[1] = c
    BY WorkCases DEF FInv
  <2>3. 1 \in 1..Len(queue)
    BY <2>2, EmptySeq, LenProperties DEF FInv, Typed
  <2>4. \E i \in 1..Len(queue') : queue'[i] = c
    BY <2>1, <2>2, <2>3
  <2>5. call'[c] # Idle
    BY <2>4 DEF FInv, Queued
  <2>6. QED
    BY <2>1, <2>5
<1>2. call[c] \in Calls /\ call[c].at >= 1
  BY WorkCases, IdleAssumption DEF FInv, Begins, Fresh
<1>3. call'[c].at > 1
  BY <1>1, <1>2 DEF Calls
<1>4. Session(c)' = Session(c) /\ Op(c)' = Op(c)
  BY <1>1 DEF Session, Op
<1>5. QED
  BY <1>1, <1>3, <1>4, SeeingNext DEF Sees

\* The values of a file after a step that writes it.
LEMMA ReadAfter ==
    ASSUME Typed, Typed', now' = now, NEW kind \in Kinds, NEW s \in Sessions
    PROVE  /\ files' = files =>
                 \A k \in Kinds, q \in Sessions : envelope(k, q)' = envelope(k, q)
           /\ files' = [files EXCEPT ![kind][s] = Absent] =>
                 \A k \in Kinds, q \in Sessions :
                    envelope(k, q)' = IF k = kind /\ q = s THEN Absent ELSE envelope(k, q)
           /\ \A r \in Records(kind), e \in Nat :
                 /\ files' = [files EXCEPT ![kind][s] = [value |-> r, expires_at |-> e]]
                 /\ now <= e * TicksPerSecond
                 => \A k \in Kinds, q \in Sessions :
                       envelope(k, q)' =
                          IF k = kind /\ q = s THEN [value |-> r, expires_at |-> e]
                          ELSE envelope(k, q)
<1>1. DOMAIN files = Kinds /\ \A k \in Kinds : DOMAIN files[k] = Sessions
  BY DEF Typed
<1>2. ASSUME NEW x, files' = [files EXCEPT ![kind][s] = x]
      PROVE  \A k \in Kinds, q \in Sessions :
                files'[k][q] = IF k = kind /\ q = s THEN x ELSE files[k][q]
  BY <1>1, <1>2
<1>3. ASSUME files' = files
      PROVE  \A k \in Kinds, q \in Sessions : envelope(k, q)' = envelope(k, q)
  BY <1>3 DEF envelope
<1>4. ASSUME files' = [files EXCEPT ![kind][s] = Absent]
      PROVE  \A k \in Kinds, q \in Sessions :
                envelope(k, q)' = IF k = kind /\ q = s THEN Absent ELSE envelope(k, q)
  <2>1. \A k \in Kinds, q \in Sessions :
           files'[k][q] = IF k = kind /\ q = s THEN Absent ELSE files[k][q]
    BY <1>2, <1>4
  <2>2. QED
    BY <2>1 DEF envelope
<1>5. ASSUME NEW r \in Records(kind), NEW e \in Nat,
             files' = [files EXCEPT ![kind][s] = [value |-> r, expires_at |-> e]],
             now <= e * TicksPerSecond
      PROVE  \A k \in Kinds, q \in Sessions :
                envelope(k, q)' =
                   IF k = kind /\ q = s THEN [value |-> r, expires_at |-> e]
                   ELSE envelope(k, q)
  <2> DEFINE x == [value |-> r, expires_at |-> e]
  <2>1. x \notin {Absent, Corrupt}
    BY DistinctAssumption DEF Records
  <2>2. ~ (x.expires_at * TicksPerSecond < now)
    BY <1>5, TimesAssumption DEF Typed
  <2>3. \A k \in Kinds, q \in Sessions :
           files'[k][q] = IF k = kind /\ q = s THEN x ELSE files[k][q]
    BY <1>2, <1>5
  <2>4. SUFFICES ASSUME NEW k \in Kinds, NEW q \in Sessions
                 PROVE  envelope(k, q)' = IF k = kind /\ q = s THEN x
                                          ELSE envelope(k, q)
    OBVIOUS
  <2> HIDE DEF x
  <2>5. QED
    BY <2>1, <2>2, <2>3 DEF envelope
<1>6. QED
  BY <1>3, <1>4, <1>5

\* After the step the offer of s is x and its binding is y, and the records of
\* the other sessions are as they were.
Becomes(s, x, y) ==
    \A q \in Sessions :
       /\ Seen_offer(q)' = IF q = s THEN x ELSE Seen_offer(q)
       /\ Seen_binding(q)' = IF q = s THEN y ELSE Seen_binding(q)

\* The records and the dates of the refinement mapping.
Pending == [s \in Sessions |-> payload(Seen_offer(s))]
Binding == [s \in Sessions |-> payload(Seen_binding(s))]
Offer_until == [s \in Sessions |-> Until(Seen_offer(s))]
Binding_until == [s \in Sessions |-> Until(Seen_binding(s))]

\* What becomes of the records of the contract.
LEMMA BecomesRecords ==
    ASSUME NEW s \in Sessions, NEW x, NEW y, Becomes(s, x, y)
    PROVE  /\ Pending' = [Pending EXCEPT ![s] = payload(x)]
           /\ Binding' = [Binding EXCEPT ![s] = payload(y)]
           /\ x = Seen_offer(s) => Pending' = Pending
           /\ y = Seen_binding(s) => Binding' = Binding
<1>1. /\ DOMAIN Pending = Sessions /\ DOMAIN Binding = Sessions
      /\ \A q \in Sessions : /\ Pending[q] = payload(Seen_offer(q))
                             /\ Binding[q] = payload(Seen_binding(q))
  BY DEF Pending, Binding
<1>2. /\ Pending' = [q \in Sessions |-> IF q = s THEN payload(x) ELSE Pending[q]]
      /\ Binding' = [q \in Sessions |-> IF q = s THEN payload(y) ELSE Binding[q]]
  BY DEF Becomes, Pending, Binding, payload
<1>3. QED
  BY <1>1, <1>2 DEF Pending, Binding

\* The dates of the contract, from those of the envelopes.
LEMMA DatesAlike ==
    ASSUME FInv', NEW O, NEW B,
           \A s \in Sessions :
              /\ s \in O => Until(Seen_offer(s)') \in
                    now + ChallengeTtl * TicksPerSecond - (Hold + TicksPerSecond - 1)
                       .. now + ChallengeTtl * TicksPerSecond
              /\ s \notin O => Seen_offer(s)' \in {Seen_offer(s), Absent, Corrupt}
              /\ s \in B => Until(Seen_binding(s)') \in
                    now + SessionTtl * TicksPerSecond - (Hold + TicksPerSecond - 1)
                       .. now + SessionTtl * TicksPerSecond
              /\ s \notin B => Seen_binding(s)' \in {Seen_binding(s), Absent, Corrupt}
    PROVE  Contract!Dates(O, B)
<1>1. ASSUME NEW s \in Sessions
      PROVE
        /\ Until(Seen_offer(s)') \in
             IF s \in O
             THEN Contract!Last_instants(ChallengeTtl * TicksPerSecond)
             ELSE IF Contract!Readable(payload(Seen_offer(s)'))
             THEN {Until(Seen_offer(s))} ELSE {0}
        /\ Until(Seen_binding(s)') \in
             IF s \in B
             THEN Contract!Last_instants(SessionTtl * TicksPerSecond)
             ELSE IF Contract!Readable(payload(Seen_binding(s)'))
             THEN {Until(Seen_binding(s))} ELSE {0}
  <2>1. \A e \in {Seen_offer(s)', Seen_binding(s)'} :
           /\ Contract!Readable(payload(e)) <=> e \notin {Absent, Corrupt}
           /\ e \in {Absent, Corrupt} => Until(e) = 0
    BY <1>1, SeenTypedNext, PayloadOf DEF Sees_typed
  <2>2. QED
    BY <1>1, <2>1 DEF Contract!Last_instants
<1>2. QED
  BY <1>1 DEF Contract!Dates, payload, Until

\* What an operation returns is what the contract asks for.
LEMMA EndReturns ==
    ASSUME NEW c, NEW value, ends(c, value), now' = now, restarts' = restarts
    PROVE  Contract!Returns(Op(c), Session(c), call[c].request.args, value)
BY DEF ends, Returns, Contract!Returns, Op, Session

\* A step that changes none of the records the contract sees.
LEMMA SameRecords ==
    ASSUME \A q \in Sessions : /\ Seen_offer(q)' = Seen_offer(q)
                               /\ Seen_binding(q)' = Seen_binding(q)
    PROVE  UNCHANGED <<Pending, Binding, Offer_until, Binding_until>>
BY DEF Pending, Binding, Offer_until, Binding_until, payload, Until

\* A step that changes nothing the contract sees.
LEMMA StepStutters ==
    ASSUME \A q \in Sessions : /\ Seen_offer(q)' = Seen_offer(q)
                               /\ Seen_binding(q)' = Seen_binding(q),
           now' = now, result' = result, restarts' = restarts
    PROVE  UNCHANGED Contract!contract_vars
BY SameRecords
DEF Contract!contract_vars, Contract!dates, Pending, Binding, Offer_until,
    Binding_until

\* The steps before the last one, none of which the contract sees.
LEMMA OnStutters ==
    ASSUME FInv, FInv', NEW c \in Callers, Works(c), NEW kind \in Kinds, NEW e,
           Continues(c, kind, e)
    PROVE  UNCHANGED Contract!contract_vars
<1> DEFINE s == Session(c)
<1>0. Typed /\ Typed' /\ now' = now /\ result' = result /\ restarts' = restarts
  BY WorkCases DEF FInv, bounded, Continues
<1>1. /\ call[c] \in Calls /\ s \in Sessions /\ call[c] # Idle
      /\ call[c].at \in Nat /\ call[c].at >= 1
  <2>1. call[c] \in Calls /\ call[c] # Idle
    BY WorkCases, IdleAssumption DEF FInv
  <2>2. call[c].at \in 1..Length(call[c].request.op)
    BY <2>1 DEF FInv, Begins, Fresh
  <2>3. QED
    BY <2>1, <2>2, Requests DEF Calls, Session
<1>2. /\ Session(c)' = s /\ Op(c)' = Op(c) /\ call'[c] # Idle
      /\ call'[c].found = IF call[c].at = 1 THEN envelope(kind, s) ELSE call[c].found
      /\ \A q \in Sessions :
            /\ Seen_offer(q)' = SeenThrough(c, "reg", q)'
            /\ Seen_binding(q)' = SeenThrough(c, "bind", q)'
  BY SeenOn
<1>3. ASSUME NEW k \in Kinds, NEW q \in Sessions, call[c].at > 1,
             Session(c) # q \/ Op(c) \notin Hiding(k) => envelope(k, q)' = envelope(k, q)
      PROVE  SeenThrough(c, k, q)' = SeenThrough(c, k, q)
  BY <1>2, <1>3 DEF SeenThrough
<1>4. ASSUME NEW k \in Kinds, NEW q \in Sessions, call[c].at = 1,
             Op(c) \in Hiding(k) => call'[c].found = envelope(k, s),
             Session(c) # q \/ Op(c) \notin Hiding(k) => envelope(k, q)' = envelope(k, q)
      PROVE  SeenThrough(c, k, q)' = envelope(k, q)
  BY <1>2, <1>4 DEF SeenThrough
<1>5. /\ call[c].at = 1 => \A q \in Sessions :
            Seen_offer(q) = envelope("reg", q) /\ Seen_binding(q) = envelope("bind", q)
      /\ call[c].at > 1 => \A q \in Sessions :
            /\ Seen_offer(q) = SeenThrough(c, "reg", q)
            /\ Seen_binding(q) = SeenThrough(c, "bind", q)
  BY <1>1, Seeing, Turns DEF Sees
<1>6. /\ \A k \in Kinds, q \in Sessions :
            Session(c) # q \/ Op(c) \notin Hiding(k) => envelope(k, q)' = envelope(k, q)
      /\ call[c].at = 1 => \A k \in Kinds :
            Op(c) \in Hiding(k) => call'[c].found = envelope(k, s)
  <2>1. \A k, f : goes_on(c, k, f) =>
           /\ call[c].at # Length(Op(c))
           /\ call[c].at = 1 => call'[c].found = envelope(k, s)
    <3>1. SUFFICES ASSUME NEW k, NEW f, goes_on(c, k, f)
                   PROVE  /\ call[c].at # Length(Op(c))
                          /\ call[c].at = 1 => call'[c].found = envelope(k, s)
      OBVIOUS
    <3>2. call[c].at # Length(Op(c))
      BY <1>0, <1>1, <1>2, <3>1, GoesOn DEF ends, Typed
    <3>3. Continues(c, k, f)
      BY <1>0, <1>1, <3>1, <3>2, GoesOn
    <3>4. QED
      BY <1>0, <3>2, <3>3 DEF Continues, Typed
  <2>2. \A k : check(c, k) => files' = files /\ goes_on(c, k, 0)
    BY <1>0, <1>2 DEF check, ends, Typed
  <2>3. /\ \/ files' = files
           \/ /\ files' = [files EXCEPT !["reg"][s] = Absent]
              /\ Op(c) \in Hiding("reg")
        /\ call[c].at = 1 => \A k \in Kinds :
              Op(c) \in Hiding(k) => call'[c].found = envelope(k, s)
    <3>1. CASE Op(c) \in {"put_pending_registration", "put_binding",
                          "delete_pending_registration"}
      <4>1. call[c].at = 1 /\ (fill(c, "reg") \/ fill(c, "bind"))
        BY <2>1, <3>1, WorkCases DEF FInv, rename, unlink, Length
      <4>2. QED
        BY <3>1, <4>1 DEF fill, Hiding, Kinds
    <3>2. CASE Op(c) = "delete"
      BY <2>1, <3>2, WorkCases DEF FInv, unlink, Length, Hiding, Kinds, Session
    <3>3. CASE Op(c) = "commit_registration"
      <4>1. \/ call[c].at = 1 /\ check(c, "reg")
            \/ call[c].at = 2 /\ unlink(c, "reg")
            \/ call[c].at = 3 /\ fill(c, "bind")
            \/ call[c].at = 4 /\ goes_on(c, "bind", 0)
        BY <3>3, WorkCases DEF FInv, rename
      <4>2. call[c].at # 4
        BY <2>1, <3>3, <4>1 DEF Length
      <4>3. CASE call[c].at = 1
        BY <2>1, <2>2, <3>3, <4>1, <4>3 DEF Hiding, Kinds
      <4>4. CASE call[c].at # 1
        BY <3>3, <4>1, <4>2, <4>4 DEF unlink, fill, Hiding, Kinds, Session
      <4>5. QED
        BY <4>3, <4>4
    <3>4. CASE Op(c) = "replace_binding"
      BY <2>1, <2>2, <3>4, WorkCases DEF FInv, fill, rename, Length, Hiding, Kinds
    <3>5. QED
      BY <1>1, <3>1, <3>2, <3>3, <3>4, Lengths
  <2>4. QED
    BY <1>0, <1>1, <2>3, ReadAfter DEF Kinds
<1>7. \A q \in Sessions : /\ Seen_offer(q)' = Seen_offer(q)
                         /\ Seen_binding(q)' = Seen_binding(q)
  BY <1>1, <1>2, <1>3, <1>4, <1>5, <1>6 DEF Kinds
<1>8. QED
  BY <1>0, <1>7, StepStutters

\* The last step of an operation is the operation.
LEMMA EndRefines ==
    ASSUME FInv, FInv', NEW c \in Callers, Works(c), NEW value, ends(c, value)
    PROVE  Contract!Next_contract
<1> DEFINE s == Session(c)
           args == call[c].request.args
           returned(v) == Contract!Returns(Op(c), s, args, v)
           new == [value |-> Last(c), expires_at |-> call[c].expires_at]
<1>0. Typed /\ Typed' /\ now' = now /\ restarts' = restarts
  BY WorkCases DEF FInv, bounded
<1>1. /\ call[c] \in Calls /\ s \in Sessions /\ call[c] # Idle
      /\ call[c].request \in Writes /\ call[c].at \in Nat
      /\ Found(c) /\ Timely(c) /\ Fresh(c)
      /\ call[c].expires_at \in Nat
  BY WorkCases, Requests, IdleAssumption DEF FInv, Calls, Session, Begins
<1>2. /\ \A q \in Sessions : /\ Seen_offer(q)' = envelope("reg", q)'
                            /\ Seen_binding(q)' = envelope("bind", q)'
      /\ call[c].at = 1 => \A q \in Sessions :
            Seen_offer(q) = envelope("reg", q) /\ Seen_binding(q) = envelope("bind", q)
      /\ call[c].at > 1 => \A q \in Sessions :
            /\ Seen_offer(q) = SeenThrough(c, "reg", q)
            /\ Seen_binding(q) = SeenThrough(c, "bind", q)
  BY <1>1, Seeing, SeeingNext, Turns DEF Sees
<1>3. \A v : ends(c, v) => returned(v)
  BY <1>0, EndReturns
<1>4. call'[c] = Idle
  BY <1>0 DEF ends, Typed
<1>5. \A k, e : goes_on(c, k, e) => call[c].at = Length(Op(c)) /\ returned(Done(c))
  <2>1. SUFFICES ASSUME NEW k, NEW e, goes_on(c, k, e)
                 PROVE  call[c].at = Length(Op(c)) /\ returned(Done(c))
    OBVIOUS
  <2>2. call[c].at = Length(Op(c))
    <3>1. SUFFICES ASSUME Continues(c, k, e) PROVE FALSE
      BY <1>0, <1>1, <2>1, GoesOn
    <3>2. call'[c] # Idle
      <4>1. call'[c].at = call[c].at + 1 /\ queue' = queue
        BY <1>0, <3>1 DEF Continues, Typed
      <4>2. queue' = Tail(queue) /\ queue # << >> /\ queue \in Seq(Callers)
        BY <1>0, WorkCases DEF ends, FInv, Typed
      <4>3. QED
        BY <4>1, <4>2, HeadTailProperties, LenProperties
    <3>3. QED
      BY <1>4, <3>2
  <2>3. QED
    BY <1>0, <1>1, <1>3, <2>1, <2>2, GoesOn
<1>6. \A k \in Kinds : fill(c, k) => call[c].at = Length(Op(c))
  BY <1>5 DEF fill
<1>7. ASSUME NEW k \in Kinds, rename(c, k), Last(c) \in Records(k),
             Op(c) # "delete", call[c].at > 1,
             (k = "reg") <=> (Op(c) = "put_pending_registration")
      PROVE  /\ returned(Done(c)) /\ call[c].at = Length(Op(c))
             /\ \A j \in Kinds, q \in Sessions :
                   envelope(j, q)' = IF j = k /\ q = s THEN new ELSE envelope(j, q)
             /\ payload(new) = Last(c)
             /\ Until(new) \in
                   now + Ttl(k) * TicksPerSecond - (Hold + TicksPerSecond - 1)
                      .. now + Ttl(k) * TicksPerSecond
  <2>1. /\ returned(Done(c)) /\ call[c].at = Length(Op(c))
        /\ files' = [files EXCEPT ![k][s] = new]
    BY <1>5, <1>7 DEF rename, Session, Last
  <2>2. /\ now <= call[c].expires_at * TicksPerSecond
        /\ call[c].expires_at * TicksPerSecond \in
              now + Ttl(k) * TicksPerSecond - (Hold + TicksPerSecond - 1)
                 .. now + Ttl(k) * TicksPerSecond
    BY <1>0, <1>1, <1>7, <2>1, FreshLives
  <2>3. \A r \in Records(k), e \in Nat :
           /\ files' = [files EXCEPT ![k][s] = [value |-> r, expires_at |-> e]]
           /\ now <= e * TicksPerSecond
           => \A j \in Kinds, q \in Sessions :
                 envelope(j, q)' =
                    IF j = k /\ q = s THEN [value |-> r, expires_at |-> e]
                    ELSE envelope(j, q)
    BY <1>0, <1>1, <1>7, ReadAfter, ZenonT(60)
  <2>4. /\ new \notin {Absent, Corrupt} /\ new.value = Last(c)
        /\ new.expires_at = call[c].expires_at
    BY <1>1, <1>7, DistinctAssumption DEF Records
  <2>5. /\ payload(new) = Last(c)
        /\ Until(new) = call[c].expires_at * TicksPerSecond
    BY <2>4 DEF payload, Until
  <2>6. \A j \in Kinds, q \in Sessions :
           envelope(j, q)' = IF j = k /\ q = s THEN new ELSE envelope(j, q)
    BY <1>1, <1>7, <2>1, <2>2, <2>3
  <2> HIDE DEF new
  <2>7. QED
    BY <2>1, <2>2, <2>5, <2>6
<1>8. ASSUME NEW k \in Kinds, unlink(c, k)
      PROVE  /\ returned(Done(c)) /\ call[c].at = Length(Op(c))
             /\ \A j \in Kinds, q \in Sessions :
                   envelope(j, q)' = IF j = k /\ q = s THEN Absent ELSE envelope(j, q)
  <2>1. /\ returned(Done(c)) /\ call[c].at = Length(Op(c))
        /\ files' = [files EXCEPT ![k][s] = Absent]
    BY <1>5, <1>8 DEF unlink, Session
  <2>2. QED
    BY <1>0, <1>1, <1>8, <2>1, ReadAfter
<1>9. ASSUME NEW k \in Kinds, check(c, k), call[c].at = 1, Length(Op(c)) # 1
      PROVE  /\ \/ returned("False") /\ read(k, s) \notin {args[1], Corrupt}
                \/ returned(Corrupt) /\ read(k, s) = Corrupt
             /\ \A j \in Kinds, q \in Sessions : envelope(j, q)' = envelope(j, q)
  <2>1. /\ files' = files /\ read(k, s) # args[1]
        /\ returned(IF read(k, s) = Corrupt THEN Corrupt ELSE "False")
    BY <1>3, <1>5, <1>9 DEF check, Session
  <2>2. QED
    BY <1>0, <1>1, <2>1, ReadAfter
<1> HIDE DEF new
<1>10. CASE Op(c) = "put_pending_registration"
  <2>1. Last(c) \in Offers /\ args = <<Last(c)>>
    BY <1>1, <1>10, Arguments DEF Op, Last
  <2>2. call[c].at = 2 /\ rename(c, "reg")
    BY <1>6, <1>10, WorkCases DEF FInv, Length, Kinds
  <2>3. /\ returned("None")
        /\ Becomes(s, new, Seen_binding(s)) /\ payload(new) = Last(c)
        /\ Until(new) \in
              now + ChallengeTtl * TicksPerSecond - (Hold + TicksPerSecond - 1)
                 .. now + ChallengeTtl * TicksPerSecond
    BY <1>2, <1>7, <1>10, <2>1, <2>2
    DEF Becomes, SeenThrough, Hiding, Kinds, Records, Ttl, Done, Conditional
  <2>4. Contract!put_pending_registration(s, Last(c))
    <3>1. Pending' = [Pending EXCEPT ![s] = Last(c)] /\ Binding' = Binding
      BY <1>1, <2>3, BecomesRecords
    <3>2. QED
      BY <3>1 DEF Contract!put_pending_registration, Pending, Binding
  <2>5. Contract!Dates({s}, {})
    BY <1>1, <2>3, DatesAlike DEF Becomes
  <2>6. Contract!Puts(s)
    BY <1>10, <2>1, <2>3, <2>4, <2>5 DEF Contract!Puts
  <2>7. QED
    BY <1>1, <2>6 DEF Contract!Next_contract
<1>11. CASE Op(c) = "delete_pending_registration"
  <2>1. args = << >>
    BY <1>1, <1>11, Arguments DEF Op
  <2>2. call[c].at = 1 /\ unlink(c, "reg")
    BY <1>11, WorkCases DEF FInv
  <2>3. /\ returned("None")
        /\ Becomes(s, Absent, Seen_binding(s))
    BY <1>2, <1>8, <1>11, <2>2 DEF Becomes, Kinds, Done, Conditional
  <2>4. Contract!delete_pending_registration(s)
    BY <1>1, <2>3, BecomesRecords
    DEF Contract!delete_pending_registration, Pending, Binding, payload
  <2>5. Contract!Dates({}, {})
    BY <1>1, <2>3, DatesAlike DEF Becomes
  <2>6. Contract!Deletes(s)
    BY <1>11, <2>1, <2>3, <2>4, <2>5 DEF Contract!Deletes
  <2>7. QED
    BY <1>1, <2>6 DEF Contract!Next_contract
<1>12. CASE Op(c) = "put_binding"
  <2>1. Last(c) \in Bindings /\ args = <<Last(c)>>
    BY <1>1, <1>12, Arguments DEF Op, Last
  <2>2. call[c].at = 2 /\ rename(c, "bind")
    BY <1>6, <1>12, WorkCases DEF FInv, Length, Kinds
  <2>3. /\ returned("None")
        /\ Becomes(s, Seen_offer(s), new) /\ payload(new) = Last(c)
        /\ Until(new) \in
              now + SessionTtl * TicksPerSecond - (Hold + TicksPerSecond - 1)
                 .. now + SessionTtl * TicksPerSecond
    BY <1>2, <1>7, <1>12, <2>1, <2>2
    DEF Becomes, SeenThrough, Hiding, Kinds, Records, Ttl, Done, Conditional
  <2>4. Contract!put_binding(s, Last(c))
    <3>1. Binding' = [Binding EXCEPT ![s] = Last(c)] /\ Pending' = Pending
      BY <1>1, <2>3, BecomesRecords
    <3>2. QED
      BY <3>1 DEF Contract!put_binding, Pending, Binding
  <2>5. Contract!Dates({}, {s})
    BY <1>1, <2>3, DatesAlike DEF Becomes
  <2>6. Contract!Puts(s)
    BY <1>12, <2>1, <2>3, <2>4, <2>5 DEF Contract!Puts
  <2>7. QED
    BY <1>1, <2>6 DEF Contract!Next_contract
<1>13. CASE Op(c) = "delete"
  <2>1. args = << >>
    BY <1>1, <1>13, Arguments DEF Op
  <2>2. call[c].at = 2 /\ unlink(c, "bind")
    BY <1>8, <1>13, WorkCases DEF FInv, Length, Kinds
  <2>3. files["reg"][s] = Absent
    BY <1>1, <1>13, <2>2 DEF Found, Op, Session
  <2>4. envelope("reg", s) = Absent
    BY <2>3 DEF envelope
  <2>5. /\ returned("None")
        /\ Becomes(s, Absent, Absent)
    BY <1>2, <1>8, <1>13, <2>2, <2>4
    DEF Becomes, SeenThrough, Hiding, Kinds, Done, Conditional
  <2>6. Contract!delete(s)
    BY <1>1, <2>5, BecomesRecords DEF Contract!delete, Pending, Binding, payload
  <2>7. Contract!Dates({}, {})
    BY <1>1, <2>5, DatesAlike DEF Becomes
  <2>8. Contract!Deletes(s)
    BY <1>13, <2>1, <2>5, <2>6, <2>7 DEF Contract!Deletes
  <2>9. QED
    BY <1>1, <2>8 DEF Contract!Next_contract
<1>14. CASE Op(c) = "commit_registration"
  <2>1. /\ args[1] \in Offers /\ Last(c) \in Bindings
        /\ args = <<args[1], Last(c)>>
    BY <1>1, <1>14, Arguments DEF Op, Last
  <2>2. \/ call[c].at = 1 /\ check(c, "reg")
        \/ call[c].at = 4 /\ rename(c, "bind")
    BY <1>6, <1>8, <1>14, WorkCases DEF FInv, Length, Kinds
  <2>3. CASE call[c].at = 1 /\ check(c, "reg")
    <3>1. /\ \/ returned("False") /\ read("reg", s) \notin {args[1], Corrupt}
             \/ returned(Corrupt) /\ read("reg", s) = Corrupt
          /\ \A j \in Kinds, q \in Sessions : envelope(j, q)' = envelope(j, q)
      BY <1>9, <1>14, <2>3 DEF Kinds, Length
    <3>2. \A q \in Sessions : /\ Seen_offer(q)' = Seen_offer(q)
                             /\ Seen_binding(q)' = Seen_binding(q)
      BY <1>2, <2>3, <3>1 DEF Kinds
    <3>3. Pending[s] = read("reg", s)
      BY <1>1, <1>2, <2>3 DEF Pending, read
    <3>4. UNCHANGED <<Pending, Binding, Offer_until, Binding_until>>
      BY <3>2, SameRecords
    <3>5. Contract!Commits(s, args[1], Last(c))
      BY <1>1, <1>14, <2>1, <3>1, <3>3, <3>4
      DEF Contract!Commits, Contract!commit_registration_refused, Contract!dates, Pending,
          Binding, Offer_until, Binding_until
    <3>6. QED
      BY <1>1, <2>1, <3>5 DEF Contract!Next_contract
  <2>4. CASE call[c].at = 4 /\ rename(c, "bind")
    <3>1. /\ files["reg"][s] = Absent /\ call[c].found \in Filled(Offers)
          /\ call[c].found.value = args[1]
      BY <1>1, <1>14, <2>4 DEF Found, Op, Session
    <3>2. envelope("reg", s) = Absent /\ Seen_offer(s) = call[c].found
      BY <1>1, <1>2, <1>14, <2>4, <3>1 DEF envelope, SeenThrough, Hiding
    <3>3. Pending[s] = args[1]
      BY <1>1, <3>1, <3>2, DistinctAssumption DEF Pending, payload, Filled
    <3>4. /\ returned("True")
          /\ Becomes(s, Absent, new) /\ payload(new) = Last(c)
          /\ Until(new) \in
                now + SessionTtl * TicksPerSecond - (Hold + TicksPerSecond - 1)
                   .. now + SessionTtl * TicksPerSecond
      BY <1>2, <1>7, <1>14, <2>1, <2>4, <3>2
      DEF Becomes, SeenThrough, Hiding, Kinds, Records, Ttl, Done, Conditional
    <3>5. Contract!commit_registration(s, args[1], Last(c))
      <4>1. /\ Pending' = [Pending EXCEPT ![s] = Absent]
            /\ Binding' = [Binding EXCEPT ![s] = Last(c)]
        <5>1. payload(Absent) = Absent
          BY DEF payload
        <5>2. QED
          BY <1>1, <3>4, <5>1, BecomesRecords
      <4>2. QED
        BY <3>3, <4>1 DEF Contract!commit_registration, Pending, Binding
    <3>6. Contract!Dates({}, {s})
      BY <1>1, <3>4, DatesAlike DEF Becomes
    <3>7. Contract!Commits(s, args[1], Last(c))
      BY <1>14, <2>1, <3>4, <3>5, <3>6 DEF Contract!Commits
    <3>8. QED
      BY <1>1, <2>1, <3>7 DEF Contract!Next_contract
  <2>5. QED
    BY <2>2, <2>3, <2>4
<1>15. CASE Op(c) = "replace_binding"
  <2>1. /\ args[1] \in Bindings /\ Last(c) \in Bindings
        /\ args = <<args[1], Last(c)>>
    BY <1>1, <1>15, Arguments DEF Op, Last
  <2>2. \/ call[c].at = 1 /\ check(c, "bind")
        \/ call[c].at = 3 /\ rename(c, "bind")
    BY <1>6, <1>15, WorkCases DEF FInv, Length, Kinds
  <2>3. CASE call[c].at = 1 /\ check(c, "bind")
    <3>1. /\ \/ returned("False") /\ read("bind", s) \notin {args[1], Corrupt}
             \/ returned(Corrupt) /\ read("bind", s) = Corrupt
          /\ \A j \in Kinds, q \in Sessions : envelope(j, q)' = envelope(j, q)
      BY <1>9, <1>15, <2>3 DEF Kinds, Length
    <3>2. \A q \in Sessions : /\ Seen_offer(q)' = Seen_offer(q)
                             /\ Seen_binding(q)' = Seen_binding(q)
      BY <1>2, <2>3, <3>1 DEF Kinds
    <3>3. Binding[s] = read("bind", s)
      BY <1>1, <1>2, <2>3 DEF Binding, read
    <3>4. UNCHANGED <<Pending, Binding, Offer_until, Binding_until>>
      BY <3>2, SameRecords
    <3>5. Contract!Replaces(s, args[1], Last(c))
      BY <1>1, <1>15, <2>1, <3>1, <3>3, <3>4
      DEF Contract!Replaces, Contract!replace_binding_refused, Contract!dates, Pending,
          Binding, Offer_until, Binding_until
    <3>6. QED
      BY <1>1, <2>1, <3>5 DEF Contract!Next_contract
  <2>4. CASE call[c].at = 3 /\ rename(c, "bind")
    <3>1. /\ call[c].found \in Filled(Bindings)
          /\ call[c].found.value = args[1]
      BY <1>1, <1>15, <2>4 DEF Found, Op
    <3>2. Seen_binding(s) = call[c].found
      BY <1>1, <1>2, <1>15, <2>4 DEF SeenThrough, Hiding
    <3>3. Binding[s] = args[1]
      BY <1>1, <3>1, <3>2, DistinctAssumption DEF Binding, payload, Filled
    <3>4. /\ returned("True")
          /\ Becomes(s, Seen_offer(s), new) /\ payload(new) = Last(c)
          /\ Until(new) \in
                now + SessionTtl * TicksPerSecond - (Hold + TicksPerSecond - 1)
                   .. now + SessionTtl * TicksPerSecond
      BY <1>2, <1>7, <1>15, <2>1, <2>4
      DEF Becomes, SeenThrough, Hiding, Kinds, Records, Ttl, Done, Conditional
    <3>5. Contract!replace_binding(s, args[1], Last(c))
      <4>1. Binding' = [Binding EXCEPT ![s] = Last(c)] /\ Pending' = Pending
        BY <1>1, <3>4, BecomesRecords
      <4>2. QED
        BY <3>3, <4>1 DEF Contract!replace_binding, Pending, Binding
    <3>6. Contract!Dates({}, {s})
      BY <1>1, <3>4, DatesAlike DEF Becomes
    <3>7. Contract!Replaces(s, args[1], Last(c))
      BY <1>15, <2>1, <3>4, <3>5, <3>6 DEF Contract!Replaces
    <3>8. QED
      BY <1>1, <2>1, <3>7 DEF Contract!Next_contract
  <2>5. QED
    BY <2>2, <2>3, <2>4
<1>16. QED
  BY <1>1, <1>10, <1>11, <1>12, <1>13, <1>14, <1>15, Lengths

\* The time of what the contract sees is over; or it is not, as far as the
\* contract can tell.
Over(e) == e \notin {Absent, Corrupt} /\ Until(e) < now'
Lasts(e) ==
    e \notin {Absent, Corrupt} => now' <= Until(e) + (Hold + TicksPerSecond - 1)

\* Time only takes away records whose time is over.
LEMMA Ages ==
    ASSUME Typed, files' = files, now' = now + 1, NEW kind \in Kinds,
           NEW s \in Sessions
    PROVE  /\ envelope(kind, s)' \in {envelope(kind, s), Absent}
           /\ envelope(kind, s)' # envelope(kind, s) => Over(envelope(kind, s))
           /\ Lasts(envelope(kind, s)')
           /\ files[kind][s] = Absent => envelope(kind, s)' = Absent
           /\ files[kind][s] \in Filled(Records(kind)) =>
                 /\ envelope(kind, s)' \in {files[kind][s], Absent}
                 /\ envelope(kind, s)' = Absent => Over(files[kind][s])
<1>1. /\ files[kind][s] \in Filled(Records(kind)) \union {Absent, Corrupt}
      /\ envelope(kind, s) \in Filled(Records(kind)) \union {Absent, Corrupt}
  BY EnvelopeOf
<1>2. /\ now \in Nat /\ Hold \in Nat /\ TicksPerSecond \in Nat \ {0}
      /\ Filled(Records(kind)) \intersect {Absent, Corrupt} = {}
  BY DistinctAssumption, TimesAssumption, HoldAssumption
  DEF Filled, Records, Typed
<1>3. CASE files[kind][s] \in {Absent, Corrupt}
  BY <1>2, <1>3 DEF envelope, Over, Lasts
<1>4. CASE files[kind][s] \in Filled(Records(kind))
  <2> DEFINE f == files[kind][s]
             until == f.expires_at * TicksPerSecond
  <2>1. until \in Nat
    BY <1>2, <1>4 DEF Filled
  <2>2. f \notin {Absent, Corrupt} /\ Until(f) = until
    BY <1>2, <1>4 DEF Until
  <2>3. /\ envelope(kind, s) = IF until < now THEN Absent ELSE f
        /\ envelope(kind, s)' = IF until < now' THEN Absent ELSE f
    BY <2>2 DEF envelope
  <2> HIDE DEF f, until
  <2>4. /\ envelope(kind, s)' \in {envelope(kind, s), Absent}
        /\ envelope(kind, s)' # envelope(kind, s) => Over(envelope(kind, s))
        /\ envelope(kind, s)' \in {f, Absent}
        /\ envelope(kind, s)' = Absent => Over(f)
    BY <1>2, <2>1, <2>2, <2>3 DEF Over
  <2>5. Lasts(envelope(kind, s)')
    BY <1>2, <2>1, <2>2, <2>3 DEF Lasts
  <2>6. QED
    BY <1>2, <1>4, <2>2, <2>4, <2>5 DEF f
<1>5. QED
  BY <1>1, <1>3, <1>4

\* A step of the environment is one of the contract if the records that disappear
\* from what it sees are whole ones whose time is over, none stays for long after
\* that, and only a stop of the process takes offers before.
LEMMA Passing ==
    ASSUME FInv, FInv', now' = now + 1, result' = result,
           \A s \in Sessions :
              /\ Seen_offer(s)' \in {Seen_offer(s), Absent}
              /\ Seen_binding(s)' \in {Seen_binding(s), Absent}
              /\ Lasts(Seen_offer(s)') /\ Lasts(Seen_binding(s)')
              /\ Seen_binding(s)' # Seen_binding(s) => Over(Seen_binding(s)),
           \/ restarts' = restarts + 1
           \/ /\ restarts' = restarts
              /\ \A s \in Sessions :
                    Seen_offer(s)' # Seen_offer(s) => Over(Seen_offer(s))
    PROVE  Contract!Next_contract
<1> DEFINE P == {s \in Sessions : Seen_offer(s)' # Seen_offer(s)}
           B == {s \in Sessions : Seen_binding(s)' # Seen_binding(s)}
<1>1. /\ now \in Nat /\ now' > now
      /\ P \in SUBSET Sessions /\ B \in SUBSET Sessions
  BY DEF FInv, Typed
<1>2. \A s \in Sessions :
         /\ Seen_offer(s)' = IF s \in P THEN Absent ELSE Seen_offer(s)
         /\ Seen_binding(s)' = IF s \in B THEN Absent ELSE Seen_binding(s)
  OBVIOUS
<1>3. Contract!expire(P, B)
  <2>1. /\ Pending' = [s \in Sessions |-> IF s \in P THEN Absent ELSE Pending[s]]
        /\ Binding' = [s \in Sessions |-> IF s \in B THEN Absent ELSE Binding[s]]
    <3> HIDE DEF P, B
    <3>1. QED
      BY <1>2 DEF Pending, Binding, payload
  <2> HIDE DEF P, B
  <2>2. QED
    BY <2>1 DEF Contract!expire, Pending, Binding
<1>4. Contract!Dates({}, {})
  BY DatesAlike
<1>5. \A s \in Sessions : \A e \in {Seen_offer(s), Seen_binding(s)} :
         /\ Contract!Readable(payload(e)) <=> e \notin {Absent, Corrupt}
         /\ Until(e) \in Nat
  BY SeenTyped, PayloadOf DEF Sees_typed
<1>6. /\ Contract!Must_go(P, Pending, Offer_until)
      /\ Contract!Must_go(B, Binding, Binding_until)
  <2>1. SUFFICES ASSUME NEW s \in Sessions
                 PROVE  /\ s \notin P /\ Contract!Readable(payload(Seen_offer(s)))
                              => now' <= Until(Seen_offer(s))
                                            + (Hold + TicksPerSecond - 1)
                        /\ s \notin B /\ Contract!Readable(payload(Seen_binding(s)))
                              => now' <= Until(Seen_binding(s))
                                            + (Hold + TicksPerSecond - 1)
    <3> HIDE DEF P, B
    <3>1. QED
      BY DEF Contract!Must_go, Pending, Binding, Offer_until, Binding_until
  <2>2. QED
    BY <1>5 DEF Lasts
<1>7. Contract!May_go(B, Binding, Binding_until)
  BY <1>5 DEF Contract!May_go, Over, Binding, Binding_until
<1>8. CASE restarts' = restarts + 1
  <2> HIDE DEF P, B
  <2>1. Contract!Stops
    BY <1>1, <1>3, <1>4, <1>6, <1>7, <1>8
    DEF Contract!Stops, Pending, Binding, Offer_until, Binding_until
  <2>2. QED
    BY <2>1 DEF Contract!Next_contract
<1>9. CASE /\ restarts' = restarts
           /\ \A s \in Sessions :
                 Seen_offer(s)' # Seen_offer(s) => Over(Seen_offer(s))
  <2>1. Contract!May_go(P, Pending, Offer_until)
    BY <1>5, <1>9 DEF Contract!May_go, Over, Pending, Offer_until
  <2> HIDE DEF P, B
  <2>2. Contract!Passes
    BY <1>1, <1>3, <1>4, <1>6, <1>7, <1>9, <2>1
    DEF Contract!Passes, Pending, Binding, Offer_until, Binding_until
  <2>3. QED
    BY <2>2 DEF Contract!Next_contract
<1>10. QED
  BY <1>8, <1>9

\* When time passes, the contract sees records expire.
LEMMA TickRefines ==
    ASSUME FInv, FInv', Tick PROVE Contract!Next_contract
<1>1. /\ now \in Nat /\ now' = now + 1 /\ result' = result /\ files' = files
      /\ call' = call /\ restarts' = restarts /\ Typed
  BY DEF Tick, FInv, Typed
<1>2. ASSUME NEW k \in Kinds, NEW s \in Sessions
      PROVE  /\ envelope(k, s)' \in {envelope(k, s), Absent}
             /\ envelope(k, s)' # envelope(k, s) => Over(envelope(k, s))
             /\ Lasts(envelope(k, s)')
  BY <1>1, <1>2, Ages
<1>3. ASSUME NEW s \in Sessions
      PROVE  /\ Seen_offer(s)' \in {Seen_offer(s), Absent}
             /\ Seen_binding(s)' \in {Seen_binding(s), Absent}
             /\ Lasts(Seen_offer(s)') /\ Lasts(Seen_binding(s)')
             /\ Seen_offer(s)' # Seen_offer(s) => Over(Seen_offer(s))
             /\ Seen_binding(s)' # Seen_binding(s) => Over(Seen_binding(s))
  <2>1. CASE Begun = {}
    <3>1. Begun' = {}
      BY <1>1, <2>1 DEF Begun
    <3>2. /\ Seen_offer(s) = envelope("reg", s)
          /\ Seen_binding(s) = envelope("bind", s)
          /\ Seen_offer(s)' = envelope("reg", s)'
          /\ Seen_binding(s)' = envelope("bind", s)'
      BY <2>1, <3>1, Seeing, SeeingNext DEF Sees
    <3>3. QED
      BY <1>2, <3>2 DEF Kinds
  <2>2. CASE Begun # {}
    <3>1. PICK c \in Callers : call[c] # Idle /\ call[c].at > 1
      BY <2>2 DEF Begun
    <3>2. Lasts(call[c].found)
      <4>1. Timely(c) /\ Timely(c)' /\ call[c] \in Calls
        BY <1>1, <3>1 DEF FInv, Begins, Typed
      <4>2. /\ call[c].began \in Nat
            /\ call[c].found \in Entries(Offers \union Bindings)
        BY <4>1 DEF Calls
      <4>3. Hold \in Nat /\ TicksPerSecond \in Nat \ {0}
        BY TimesAssumption, HoldAssumption
      <4>4. now' <= call[c].began + Hold
        BY <1>1, <3>1, <4>1 DEF Timely
      <4>5. call[c].found \notin {Absent, Corrupt} =>
               /\ call[c].began <= Until(call[c].found)
               /\ Until(call[c].found) \in Nat
        BY <3>1, <4>1, <4>2, PayloadOf DEF Timely
      <4>6. QED
        BY <1>1, <4>2, <4>3, <4>4, <4>5 DEF Lasts
    <3>3. ASSUME NEW k \in Kinds
          PROVE  /\ SeenThrough(c, k, s)' \in {SeenThrough(c, k, s), Absent}
                 /\ SeenThrough(c, k, s)' # SeenThrough(c, k, s) =>
                       Over(SeenThrough(c, k, s))
                 /\ Lasts(SeenThrough(c, k, s)')
      <4>1. CASE Session(c) = s /\ Op(c) \in Hiding(k)
        <5>1. /\ SeenThrough(c, k, s) = call[c].found
              /\ SeenThrough(c, k, s)' = call[c].found
          BY <1>1, <4>1 DEF SeenThrough, Session, Op
        <5>2. QED
          BY <3>2, <5>1
      <4>2. CASE ~ (Session(c) = s /\ Op(c) \in Hiding(k))
        <5>1. /\ SeenThrough(c, k, s) = envelope(k, s)
              /\ SeenThrough(c, k, s)' = envelope(k, s)'
          BY <1>1, <4>2 DEF SeenThrough, Session, Op
        <5>2. QED
          BY <1>2, <3>3, <5>1
      <4>3. QED
        BY <4>1, <4>2
    <3>4. /\ Seen_offer(s) = SeenThrough(c, "reg", s)
          /\ Seen_binding(s) = SeenThrough(c, "bind", s)
          /\ Seen_offer(s)' = SeenThrough(c, "reg", s)'
          /\ Seen_binding(s)' = SeenThrough(c, "bind", s)'
      BY <1>1, <3>1, Seeing, SeeingNext DEF Sees
    <3>5. QED
      BY <3>3, <3>4 DEF Kinds
  <2>3. QED
    BY <2>1, <2>2
<1>4. QED
  BY <1>1, <1>3, Passing

\* A stop of the process: what was begun is dropped, and an offer it had unlinked
\* is lost.
LEMMA RestartRefines ==
    ASSUME FInv, FInv', Restart PROVE Contract!Next_contract
<1>1. /\ now \in Nat /\ now' = now + 1 /\ result' = result /\ files' = files
      /\ restarts' = restarts + 1 /\ Begun' = {} /\ Typed
  BY DEF Restart, FInv, Typed, Begun
<1>2. ASSUME NEW s \in Sessions
      PROVE  /\ Seen_offer(s)' = envelope("reg", s)'
             /\ Seen_binding(s)' = envelope("bind", s)'
  BY <1>1, SeeingNext DEF Sees
<1>3. ASSUME NEW k \in Kinds, NEW s \in Sessions
      PROVE  /\ envelope(k, s)' \in {envelope(k, s), Absent}
             /\ envelope(k, s)' # envelope(k, s) => Over(envelope(k, s))
             /\ Lasts(envelope(k, s)')
             /\ files[k][s] = Absent => envelope(k, s)' = Absent
             /\ files[k][s] \in Filled(Records(k)) =>
                   /\ envelope(k, s)' \in {files[k][s], Absent}
                   /\ envelope(k, s)' = Absent => Over(files[k][s])
  BY <1>1, <1>3, Ages
<1>4. ASSUME NEW s \in Sessions
      PROVE  /\ Seen_offer(s)' \in {Seen_offer(s), Absent}
             /\ Seen_binding(s)' \in {Seen_binding(s), Absent}
             /\ Lasts(Seen_offer(s)') /\ Lasts(Seen_binding(s)')
             /\ Seen_binding(s)' # Seen_binding(s) => Over(Seen_binding(s))
  <2>1. CASE Begun = {}
    <3>1. /\ Seen_offer(s) = envelope("reg", s)
          /\ Seen_binding(s) = envelope("bind", s)
      BY <2>1, Seeing DEF Sees
    <3>2. QED
      BY <1>2, <1>3, <3>1 DEF Kinds
  <2>2. CASE Begun # {}
    <3>1. PICK c \in Callers : call[c] # Idle /\ call[c].at > 1
      BY <2>2 DEF Begun
    <3>2. /\ Seen_offer(s) = SeenThrough(c, "reg", s)
          /\ Seen_binding(s) = SeenThrough(c, "bind", s)
      BY <3>1, Seeing DEF Sees
    <3>3. Found(c) /\ call[c].at \in Nat
      BY <3>1 DEF FInv, Begins, Typed, Calls
    <3>4. ASSUME Session(c) = s, Op(c) \in {"commit_registration", "delete"}
          PROVE  envelope("reg", s)' \in {call[c].found, Absent}
      <4>1. \/ files["reg"][s] = Absent
            \/ /\ files["reg"][s] \in Filled(Records("reg"))
               /\ files["reg"][s] = call[c].found
        BY <3>1, <3>3, <3>4 DEF Found, Session, Op, Records
      <4>2. QED
        BY <1>3, <4>1 DEF Kinds
    <3>5. ASSUME Session(c) = s, Op(c) = "replace_binding"
          PROVE  /\ envelope("bind", s)' \in {call[c].found, Absent}
                 /\ envelope("bind", s)' # call[c].found => Over(call[c].found)
      <4>1. /\ files["bind"][s] \in Filled(Records("bind"))
            /\ files["bind"][s] = call[c].found
        BY <3>1, <3>3, <3>5 DEF Found, Session, Op, Records
      <4>2. QED
        BY <1>3, <4>1 DEF Kinds
    <3>6. Seen_offer(s)' \in {Seen_offer(s), Absent}
      BY <1>2, <1>3, <3>2, <3>4 DEF SeenThrough, Hiding, Kinds
    <3>7. /\ Seen_binding(s)' \in {Seen_binding(s), Absent}
          /\ Seen_binding(s)' # Seen_binding(s) => Over(Seen_binding(s))
      BY <1>2, <1>3, <3>2, <3>5 DEF SeenThrough, Hiding, Kinds
    <3>8. QED
      BY <1>2, <1>3, <3>6, <3>7 DEF Kinds
  <2>3. QED
    BY <2>1, <2>2
<1>5. QED
  BY <1>1, <1>4, Passing

\* A damaged file is a record of the contract that becomes unreadable.
LEMMA DecayRefines ==
    ASSUME FInv, FInv', Decay PROVE Contract!Next_contract
<1>1. /\ now' = now /\ result' = result /\ restarts' = restarts
      /\ Begun = {} /\ Begun' = {} /\ Typed /\ Typed'
  BY DEF Decay, FInv, Begun
<1>2. PICK kind \in Kinds, s \in Sessions :
         /\ read(kind, s) \notin {Absent, Corrupt}
         /\ files' = [files EXCEPT ![kind][s] = Corrupt]
  BY DEF Decay, Kinds
<1>3. \A k \in Kinds, q \in Sessions :
         files'[k][q] = IF k = kind /\ q = s THEN Corrupt ELSE files[k][q]
  BY <1>1, <1>2 DEF Typed
<1>4. \A k \in Kinds, q \in Sessions :
         envelope(k, q)' = IF k = kind /\ q = s THEN Corrupt ELSE envelope(k, q)
  BY <1>1, <1>3 DEF envelope
<1>5. \A q \in Sessions :
         /\ Seen_offer(q) = envelope("reg", q)
         /\ Seen_binding(q) = envelope("bind", q)
         /\ Seen_offer(q)' = envelope("reg", q)'
         /\ Seen_binding(q)' = envelope("bind", q)'
  BY <1>1, Seeing, SeeingNext DEF Sees
<1>6. Contract!Dates({}, {})
  BY <1>4, <1>5, DatesAlike DEF Kinds
<1>7. payload(Corrupt) = Corrupt /\ payload(envelope(kind, s)) # Absent
  BY <1>2 DEF read, payload
<1>8. CASE kind = "reg"
  <2>1. Becomes(s, Corrupt, Seen_binding(s)) /\ Pending[s] # Absent
    BY <1>2, <1>4, <1>5, <1>7, <1>8 DEF Becomes, Kinds, Pending
  <2>2. Pending' = [Pending EXCEPT ![s] = Corrupt] /\ Binding' = Binding
    BY <1>7, <2>1, BecomesRecords
  <2>3. Contract!corrupt_pending_registration(s)
    BY <2>1, <2>2 DEF Contract!corrupt_pending_registration, Pending, Binding
  <2>4. QED
    BY <1>1, <1>6, <2>3
    DEF Contract!Next_contract, Contract!Decays, Contract!Disturb_store
<1>9. CASE kind = "bind"
  <2>1. Becomes(s, Seen_offer(s), Corrupt) /\ Binding[s] # Absent
    BY <1>2, <1>4, <1>5, <1>7, <1>9 DEF Becomes, Kinds, Binding
  <2>2. Binding' = [Binding EXCEPT ![s] = Corrupt] /\ Pending' = Pending
    BY <1>7, <2>1, BecomesRecords
  <2>3. Contract!corrupt_binding(s)
    BY <2>1, <2>2 DEF Contract!corrupt_binding, Pending, Binding
  <2>4. QED
    BY <1>1, <1>6, <2>3
    DEF Contract!Next_contract, Contract!Decays, Contract!Disturb_store
<1>10. QED
  BY <1>8, <1>9 DEF Kinds

\* A caller that asks for the lock has changed nothing yet.
LEMMA CallRefines ==
    ASSUME FInv, FInv', NEW c \in Callers, NEW request \in Writes,
           calls(c, request)
    PROVE  UNCHANGED Contract!contract_vars
<1>1. /\ now' = now /\ result' = result /\ restarts' = restarts
      /\ files' = files /\ call[c] = Idle /\ call'[c].at = 1
      /\ \A d \in Callers : d # c => call'[d] = call[d]
  BY DEF calls, bounded, FInv, Typed
<1>2. \A k, s : envelope(k, s)' = envelope(k, s)
  BY <1>1 DEF envelope
<1>3. ASSUME NEW s \in Sessions
      PROVE  /\ Seen_offer(s)' = Seen_offer(s)
             /\ Seen_binding(s)' = Seen_binding(s)
  <2>1. CASE Begun = {}
    <3>1. Begun' = {}
      BY <1>1, <2>1 DEF Begun
    <3>2. QED
      BY <1>2, <2>1, <3>1, Seeing, SeeingNext DEF Sees
  <2>2. CASE Begun # {}
    <3>1. PICK d \in Callers : call[d] # Idle /\ call[d].at > 1
      BY <2>2 DEF Begun
    <3>2. call'[d] = call[d]
      BY <1>1, <3>1
    <3>3. \A k : SeenThrough(d, k, s)' = SeenThrough(d, k, s)
      BY <1>2, <3>2 DEF SeenThrough, Session, Op
    <3>4. QED
      BY <3>1, <3>2, <3>3, Seeing, SeeingNext DEF Sees
  <2>3. QED
    BY <2>1, <2>2
<1>4. QED
  BY <1>1, <1>3, StepStutters

\* Every step of FileStore is a step of the contract, or none.
LEMMA StepKeepsContract ==
    FInv /\ FInv' /\ [Next]_vars
       => [Contract!Next_contract]_(Contract!contract_vars)
<1> SUFFICES ASSUME FInv, FInv', [Next]_vars
             PROVE  Contract!Next_contract \/ UNCHANGED Contract!contract_vars
  OBVIOUS
<1>1. ASSUME NEW c \in Callers, Works(c)
      PROVE  Contract!Next_contract \/ UNCHANGED Contract!contract_vars
  BY <1>1, OnStutters, EndRefines, WorkEffects DEF FInv
<1>2. ASSUME UNCHANGED vars
      PROVE  UNCHANGED Contract!contract_vars
  <2>1. \A q \in Sessions : /\ Seen_offer(q)' = Seen_offer(q)
                            /\ Seen_binding(q)' = Seen_binding(q)
    BY <1>2 DEF vars, Seen_offer, Seen_binding, Seen, Under_way, Begun, envelope
  <2>2. QED
    BY <1>2, <2>1, StepStutters DEF vars
<1>3. QED
  BY <1>1, <1>2, CallRefines, TickRefines, RestartRefines, DecayRefines DEF Next

\* The writes of FileStore keep the contract of Store: WritesKeepContract, for any
\* number of callers and sessions, all lifetimes, and stops of the process at any
\* step.  The reads are no steps of it; what they find is the next theorem.
THEOREM Refinement == Spec => WritesKeepContract
<1>1. Init => Contract!Init_contract
  <2> SUFFICES ASSUME Init PROVE Contract!Init_contract
    OBVIOUS
  <2>1. Begun = {}
    BY DEF Init, Begun
  <2>2. \A ops : \A s \in Sessions : Under_way(ops, s) = {}
    BY <2>1 DEF Under_way
  <2>3. \A s \in Sessions :
           envelope("reg", s) = Absent /\ envelope("bind", s) = Absent
    BY DEF Init, envelope
  <2>4. \A s \in Sessions : Seen_offer(s) = Absent /\ Seen_binding(s) = Absent
    BY <2>2, <2>3 DEF Seen_offer, Seen_binding, Seen
  <2>5. payload(Absent) = Absent /\ Until(Absent) = 0
    BY DEF payload, Until
  <2>6. QED
    BY <2>4, <2>5 DEF Init, Contract!Init_contract, Contract!Init_store,
                      Contract!NoResult
<1>2. QED
  BY <1>1, StepKeepsContract, FileStoreInvariant, PTL
  DEF Spec, WritesKeepContract, Contract!Spec_contract

\* Readers, which take no lock, find the record that was last stored whole:
\* ReadersFindTheRecord, with its exceptions of a binding that expires while it is
\* being replaced and of an offer whose session is being bound or deleted.
THEOREM Readers == Spec => []ReadersFindTheRecord
<1>1. FInv => ReadersFindTheRecord
  <2> SUFFICES ASSUME FInv, NEW s \in Sessions
               PROVE
        /\ \/ get_binding(s) = payload(Seen_binding(s))
           \/ /\ get_binding(s) = Absent /\ Expired("bind", s)
              /\ Under_way({"replace_binding"}, s) # {}
        /\ \/ get_pending_registration(s) = payload(Seen_offer(s))
           \/ /\ get_pending_registration(s) = Absent
              /\ Under_way({"commit_registration", "delete"}, s) # {}
    BY DEF ReadersFindTheRecord
  <2>1. \/ get_binding(s) = payload(Seen_binding(s))
        \/ /\ get_binding(s) = Absent /\ Expired("bind", s)
           /\ Under_way({"replace_binding"}, s) # {}
    <3>1. CASE Under_way({"replace_binding"}, s) = {}
      BY <3>1 DEF Seen_binding, Seen, get_binding, read
    <3>2. CASE Under_way({"replace_binding"}, s) # {}
      <4>1. PICK c \in Callers :
               /\ call[c] # Idle /\ call[c].at > 1
               /\ Session(c) = s /\ Op(c) = "replace_binding"
        BY <3>2 DEF Under_way, Begun, Session, Op
      <4>2. Seen_binding(s) = call[c].found
        BY <4>1, Seeing DEF Sees, SeenThrough, Hiding
      <4>3. files["bind"][s] \in Filled(Bindings) /\ files["bind"][s] = call[c].found
        BY <4>1 DEF FInv, Begins, Found, Session, Op
      <4>4. files["bind"][s] \notin {Absent, Corrupt}
        <5>1. {Absent, Corrupt} \intersect Filled(Bindings) = {}
          BY DistinctAssumption DEF Filled
        <5>2. QED
          BY <4>3, <5>1
      <4>5. \/ envelope("bind", s) = files["bind"][s]
            \/ envelope("bind", s) = Absent /\ Expired("bind", s)
        BY <4>4 DEF envelope, Expired
      <4>6. payload(Absent) = Absent
        BY DEF payload
      <4>7. QED
        BY <3>2, <4>2, <4>3, <4>5, <4>6 DEF get_binding, read
    <3>3. QED
      BY <3>1, <3>2
  <2>2. \/ get_pending_registration(s) = payload(Seen_offer(s))
        \/ /\ get_pending_registration(s) = Absent
           /\ Under_way({"commit_registration", "delete"}, s) # {}
    <3>1. CASE Under_way({"commit_registration", "delete"}, s) = {}
      BY <3>1 DEF Seen_offer, Seen, get_pending_registration, read
    <3>2. CASE Under_way({"commit_registration", "delete"}, s) # {}
      <4>1. PICK c \in Callers :
               /\ call[c] # Idle /\ call[c].at > 1
               /\ Session(c) = s /\ Op(c) \in {"commit_registration", "delete"}
        BY <3>2 DEF Under_way, Begun, Session, Op
      <4>2. Seen_offer(s) = call[c].found
        BY <4>1, Seeing DEF Sees, SeenThrough, Hiding
      <4>3. Found(c) /\ call[c].at \in Nat
        BY <4>1 DEF FInv, Begins, Typed, Calls
      <4>4. \/ files["reg"][s] = Absent
            \/ /\ files["reg"][s] \in Filled(Offers)
               /\ files["reg"][s] = call[c].found
        BY <4>1, <4>3 DEF Found, Session, Op
      <4>5. Absent \notin Filled(Offers) /\ Corrupt \notin Filled(Offers)
        BY DistinctAssumption DEF Filled
      <4>6. envelope("reg", s) \in {call[c].found, Absent} /\ payload(Absent) = Absent
        BY <4>4, <4>5 DEF envelope, payload
      <4>7. QED
        BY <3>2, <4>2, <4>6 DEF get_pending_registration, read
    <3>3. QED
      BY <3>1, <3>2
  <2>3. QED
    BY <2>1, <2>2
<1>2. QED
  BY <1>1, FileStoreInvariant, PTL
==============================================================================

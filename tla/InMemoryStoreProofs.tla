------------------------- MODULE InMemoryStoreProofs -------------------------
(***************************************************************************)
(* InMemoryStore implements the contract of Store, with lifetimes that are *)
(* exact, for all records, all lifetimes and any number of sessions.       *)
(***************************************************************************)
EXTENDS InMemoryStore, TLAPS

\* The components of the refinement mapping.
Pending == [s \in Sessions |-> live(reg, s)]
Binding == [s \in Sessions |-> live(bind, s)]
Offer_until == [s \in Sessions |-> until(reg, s)]
Binding_until == [s \in Sessions |-> until(bind, s)]

\* The entries of InMemoryStore keep their types.
LEMMA StepTyping == TypeOK /\ [Next]_vars => TypeOK'
BY LifetimesAssumption
DEF TypeOK, Entries, Next, vars, put_pending_registration,
    get_pending_registration, delete_pending_registration, put_binding,
    get_binding, delete, commit_registration, replace_binding, Tick, put,
    Returns

\* What the dictionaries hold, and the clock, have their types.
THEOREM Typing == Spec => []TypeOK
<1>1. Init => TypeOK
  BY DEF Init, TypeOK, Entries
<1>2. QED
  BY <1>1, StepTyping, PTL DEF Spec

\* An entry that was just written is live for its lifetime, and the others are as
\* they were.
LEMMA WriteIsLive ==
    ASSUME NEW R \in {Offers, Bindings}, NEW lifetime \in Nat, now \in Nat,
           NEW bucket \in [Sessions -> Entries(R)], NEW s \in Sessions,
           NEW r \in R
    PROVE  \A q \in Sessions :
              /\ live([bucket EXCEPT ![s] = put(r, lifetime)], q)
                    = IF q = s THEN r ELSE live(bucket, q)
              /\ until([bucket EXCEPT ![s] = put(r, lifetime)], q)
                    = IF q = s THEN now + lifetime ELSE until(bucket, q)
<1>1. put(r, lifetime) \in [value : R, expires_at : Nat]
  BY DEF put
<1>2. put(r, lifetime) # Absent
  BY <1>1, RecordsAssumption
<1>3. /\ put(r, lifetime).value = r
      /\ put(r, lifetime).expires_at = now + lifetime
      /\ ~ (put(r, lifetime).expires_at < now)
  BY DEF put
<1>4. r # Absent
  BY RecordsAssumption
<1>5. QED
  BY <1>2, <1>3, <1>4 DEF live, until, Entries

\* A removed entry is absent, and the others are as they were.
LEMMA RemovalIsAbsence ==
    ASSUME NEW R, NEW bucket \in [Sessions -> Entries(R)], NEW s \in Sessions
    PROVE  \A q \in Sessions :
              /\ live([bucket EXCEPT ![s] = Absent], q)
                    = IF q = s THEN Absent ELSE live(bucket, q)
              /\ until([bucket EXCEPT ![s] = Absent], q)
                    = IF q = s THEN 0 ELSE until(bucket, q)
BY DEF live, until

\* What is live is a record of the dictionary, so it can be read.
LEMMA LiveIsReadable ==
    ASSUME NEW R \in {Offers, Bindings}, NEW bucket \in [Sessions -> Entries(R)],
           NEW s \in Sessions
    PROVE  /\ live(bucket, s) \in R \union {Absent}
           /\ live(bucket, s) # Corrupt
           /\ live(bucket, s) # Absent =>
                 /\ bucket[s] \in [value : R, expires_at : Nat]
                 /\ until(bucket, s) = bucket[s].expires_at
                 /\ ~ (bucket[s].expires_at < now)
           /\ live(bucket, s) = Absent => until(bucket, s) = 0
BY RecordsAssumption DEF live, until, Entries

\* The same of the state after a step.
LEMMA LiveAfter ==
    ASSUME TypeOK', NEW s \in Sessions
    PROVE  /\ live(reg, s)' # Corrupt /\ live(bind, s)' # Corrupt
           /\ live(reg, s)' = Absent => until(reg, s)' = 0
           /\ live(bind, s)' = Absent => until(bind, s)' = 0
BY RecordsAssumption DEF live, until, Entries, TypeOK

\* The dates of the contract, from those of the entries.
LEMMA DatesAlike ==
    ASSUME TypeOK, TypeOK',
           NEW O \in SUBSET Sessions, NEW B \in SUBSET Sessions,
           \A s \in Sessions :
              /\ s \in O => until(reg, s)' = now + ChallengeTtlSeconds
              /\ s \notin O /\ live(reg, s)' # Absent =>
                    until(reg, s)' = until(reg, s)
              /\ s \in B => until(bind, s)' = now + SessionLifetimeSeconds
              /\ s \notin B /\ live(bind, s)' # Absent =>
                    until(bind, s)' = until(bind, s)
    PROVE  Contract!Dates(O, B)
<1>1. /\ now + ChallengeTtlSeconds \in
            Contract!Last_instants(ChallengeTtlSeconds)
      /\ now + SessionLifetimeSeconds \in
            Contract!Last_instants(SessionLifetimeSeconds)
  BY LifetimesAssumption DEF Contract!Last_instants, TypeOK
<1>2. SUFFICES ASSUME NEW s \in Sessions
      PROVE
        /\ until(reg, s)' \in
             IF s \in O THEN Contract!Last_instants(ChallengeTtlSeconds)
             ELSE IF Contract!Readable(live(reg, s)') THEN {until(reg, s)}
             ELSE {0}
        /\ until(bind, s)' \in
             IF s \in B THEN Contract!Last_instants(SessionLifetimeSeconds)
             ELSE IF Contract!Readable(live(bind, s)') THEN {until(bind, s)}
             ELSE {0}
  BY DEF Contract!Dates
<1>3. QED
  BY <1>1, LiveAfter DEF Contract!Readable

\* The passage of time: the records whose lifetime is over disappear, and no
\* others.
LEMMA TickPasses == TypeOK /\ TypeOK' /\ Tick => Contract!Passes
<1> SUFFICES ASSUME TypeOK, TypeOK', Tick PROVE Contract!Passes
  OBVIOUS
<1> DEFINE gone(bucket, s) == live(bucket, s) # Absent /\ until(bucket, s) < now'
           P == {s \in Sessions : gone(reg, s)}
           B == {s \in Sessions : gone(bind, s)}
<1>0. /\ reg' = reg /\ bind' = bind /\ now' = now + 1 /\ now' > now
      /\ now \in Nat /\ now' \in Nat
  BY DEF Tick, TypeOK
<1>1. ASSUME NEW R \in {Offers, Bindings},
             NEW bucket \in [Sessions -> Entries(R)], bucket' = bucket,
             NEW s \in Sessions
      PROVE  /\ live(bucket, s)' =
                   IF gone(bucket, s) THEN Absent ELSE live(bucket, s)
             /\ live(bucket, s)' # Absent =>
                   until(bucket, s)' = until(bucket, s)
  BY <1>0, <1>1, LiveIsReadable, RecordsAssumption DEF live, until, Entries
<1>2. \A s \in Sessions :
         /\ live(reg, s)' = IF s \in P THEN Absent ELSE live(reg, s)
         /\ live(bind, s)' = IF s \in B THEN Absent ELSE live(bind, s)
         /\ live(reg, s)' # Absent => until(reg, s)' = until(reg, s)
         /\ live(bind, s)' # Absent => until(bind, s)' = until(bind, s)
  <2> SUFFICES ASSUME NEW s \in Sessions
               PROVE  /\ live(reg, s)' = IF gone(reg, s) THEN Absent
                                         ELSE live(reg, s)
                      /\ live(bind, s)' = IF gone(bind, s) THEN Absent
                                          ELSE live(bind, s)
                      /\ live(reg, s)' # Absent => until(reg, s)' = until(reg, s)
                      /\ live(bind, s)' # Absent =>
                            until(bind, s)' = until(bind, s)
    OBVIOUS
  <2>1. reg \in [Sessions -> Entries(Offers)]
    BY DEF TypeOK
  <2>2. bind \in [Sessions -> Entries(Bindings)]
    BY DEF TypeOK
  <2> HIDE DEF gone
  <2>3. QED
    BY <1>0, <1>1, <2>1, <2>2
<1>3. Contract!expire(P, B)
  BY <1>2 DEF Contract!expire
<1>4. Contract!Dates({}, {})
  BY <1>2, DatesAlike
<1>5. \A s \in Sessions :
         /\ live(reg, s) # Corrupt /\ live(bind, s) # Corrupt
         /\ live(reg, s) # Absent => until(reg, s) \in Nat
         /\ live(bind, s) # Absent => until(bind, s) \in Nat
  BY LiveIsReadable DEF TypeOK
<1>6. /\ Contract!May_go(P, Pending, Offer_until)
      /\ Contract!Must_go(P, Pending, Offer_until)
      /\ Contract!May_go(B, Binding, Binding_until)
      /\ Contract!Must_go(B, Binding, Binding_until)
  BY <1>0, <1>5
  DEF Contract!May_go, Contract!Must_go, Contract!Readable, Pending, Binding,
      Offer_until, Binding_until
<1>7. result' = result /\ P \in SUBSET Sessions /\ B \in SUBSET Sessions
  BY DEF Tick
<1> HIDE DEF P, B
<1>8. QED
  BY <1>0, <1>3, <1>4, <1>6, <1>7
  DEF Contract!Passes, Pending, Binding, Offer_until, Binding_until

\* What Returns says is what the contract asks for.
LEMMA ReturnsAlike ==
    \A op, s, args, value :
        Returns(op, s, args, value) <=> Contract!Returns(op, s, args, value)
BY DEF Returns, Contract!Returns

\* An operation that changes nothing and leaves the clock alone leaves what is
\* live alone.
LEMMA NothingLive ==
    UNCHANGED <<reg, bind, now>> =>
        UNCHANGED <<Pending, Binding, Offer_until, Binding_until>>
BY DEF Pending, Binding, Offer_until, Binding_until, live, until

\* Every step of InMemoryStore is a step of the contract, or none.
LEMMA StepKeepsContract ==
    TypeOK /\ [Next]_vars => [Contract!Next_contract]_(Contract!contract_vars)
<1>0. UNCHANGED vars => UNCHANGED Contract!contract_vars
  BY NothingLive
  DEF vars, Contract!contract_vars, Contract!dates, Pending, Binding,
      Offer_until, Binding_until
<1> SUFFICES ASSUME TypeOK, Next
             PROVE  Contract!Next_contract
  BY <1>0
<1>00. TypeOK'
  BY StepTyping
<1>1. ASSUME Tick
      PROVE  Contract!Next_contract
  BY <1>00, <1>1, TickPasses DEF Contract!Next_contract
<1>2. ASSUME NEW s \in Sessions, NEW p \in Offers,
             put_pending_registration(s, p)
      PROVE  Contract!Puts(s)
  <2>1. /\ reg' = [reg EXCEPT ![s] = put(p, ChallengeTtlSeconds)]
        /\ bind' = bind /\ now' = now
        /\ Contract!Returns("put_pending_registration", s, <<p>>, "None")
    BY <1>2, ReturnsAlike DEF put_pending_registration, Returns
  <2>2. \A q \in Sessions :
           /\ live(reg, q)' = IF q = s THEN p ELSE live(reg, q)
           /\ until(reg, q)' = IF q = s THEN now + ChallengeTtlSeconds
                              ELSE until(reg, q)
           /\ live(bind, q)' = live(bind, q) /\ until(bind, q)' = until(bind, q)
    BY <2>1, WriteIsLive, LifetimesAssumption DEF live, until, TypeOK
  <2>3. Contract!put_pending_registration(s, p)
    BY <2>1, <2>2 DEF Contract!put_pending_registration
  <2>4. Contract!Dates({s}, {})
    BY <1>00, <2>2, DatesAlike
  <2>5. QED
    BY <2>1, <2>3, <2>4 DEF Contract!Puts
<1>3. ASSUME NEW s \in Sessions, delete_pending_registration(s)
      PROVE  Contract!Deletes(s)
  <2>1. /\ reg' = [reg EXCEPT ![s] = Absent]
        /\ bind' = bind /\ now' = now
        /\ Contract!Returns("delete_pending_registration", s, <<>>, "None")
    BY <1>3, ReturnsAlike DEF delete_pending_registration, Returns
  <2>2. \A q \in Sessions :
           /\ live(reg, q)' = IF q = s THEN Absent ELSE live(reg, q)
           /\ until(reg, q)' = IF q = s THEN 0 ELSE until(reg, q)
           /\ live(bind, q)' = live(bind, q) /\ until(bind, q)' = until(bind, q)
    BY <2>1, RemovalIsAbsence DEF live, until, TypeOK
  <2>3. Contract!delete_pending_registration(s)
    BY <2>1, <2>2 DEF Contract!delete_pending_registration
  <2>4. Contract!Dates({}, {})
    BY <1>00, <2>2, DatesAlike
  <2>5. QED
    BY <2>1, <2>3, <2>4 DEF Contract!Deletes
<1>4. ASSUME NEW s \in Sessions, NEW b \in Bindings, put_binding(s, b)
      PROVE  Contract!Puts(s)
  <2>1. /\ bind' = [bind EXCEPT ![s] = put(b, SessionLifetimeSeconds)]
        /\ reg' = reg /\ now' = now
        /\ Contract!Returns("put_binding", s, <<b>>, "None")
    BY <1>4, ReturnsAlike DEF put_binding, Returns
  <2>2. \A q \in Sessions :
           /\ live(bind, q)' = IF q = s THEN b ELSE live(bind, q)
           /\ until(bind, q)' = IF q = s THEN now + SessionLifetimeSeconds
                               ELSE until(bind, q)
           /\ live(reg, q)' = live(reg, q) /\ until(reg, q)' = until(reg, q)
    BY <2>1, WriteIsLive, LifetimesAssumption DEF live, until, TypeOK
  <2>3. Contract!put_binding(s, b)
    BY <2>1, <2>2 DEF Contract!put_binding
  <2>4. Contract!Dates({}, {s})
    BY <1>00, <2>2, DatesAlike
  <2>5. QED
    BY <2>1, <2>3, <2>4 DEF Contract!Puts
<1>5. ASSUME NEW s \in Sessions, delete(s)
      PROVE  Contract!Deletes(s)
  <2>1. /\ reg' = [reg EXCEPT ![s] = Absent]
        /\ bind' = [bind EXCEPT ![s] = Absent] /\ now' = now
        /\ Contract!Returns("delete", s, <<>>, "None")
    BY <1>5, ReturnsAlike DEF delete, Returns
  <2>2. \A q \in Sessions :
           /\ live(reg, q)' = IF q = s THEN Absent ELSE live(reg, q)
           /\ live(bind, q)' = IF q = s THEN Absent ELSE live(bind, q)
           /\ until(reg, q)' = IF q = s THEN 0 ELSE until(reg, q)
           /\ until(bind, q)' = IF q = s THEN 0 ELSE until(bind, q)
    BY <2>1, RemovalIsAbsence DEF live, until, TypeOK
  <2>3. Contract!delete(s)
    BY <2>2 DEF Contract!delete
  <2>4. Contract!Dates({}, {})
    BY <1>00, <2>2, DatesAlike
  <2>5. QED
    BY <2>1, <2>3, <2>4 DEF Contract!Deletes
<1>6. ASSUME NEW s \in Sessions,
             get_pending_registration(s) \/ get_binding(s)
      PROVE  Contract!Gets(s)
  <2>1. UNCHANGED <<Pending, Binding, Offer_until, Binding_until>>
    BY <1>6, NothingLive DEF get_pending_registration, get_binding, Returns
  <2>2. \/ Contract!Returns("get_pending_registration", s, <<>>, Pending[s])
        \/ Contract!Returns("get_binding", s, <<>>, Binding[s])
    BY <1>6, ReturnsAlike
    DEF get_pending_registration, get_binding, Pending, Binding
  <2>3. QED
    BY <2>1, <2>2
    DEF Contract!Gets, Contract!dates, Pending, Binding, Offer_until,
        Binding_until
<1>7. ASSUME NEW s \in Sessions, NEW p \in Offers, NEW b \in Bindings,
             commit_registration(s, p, b)
      PROVE  Contract!Commits(s, p, b)
  <2>1. CASE live(reg, s) # p
    <3>1. /\ UNCHANGED <<reg, bind, now>>
          /\ Contract!Returns("commit_registration", s, <<p, b>>, "False")
      BY <1>7, <2>1, ReturnsAlike DEF commit_registration, Returns
    <3>2. Contract!commit_registration_refused(s, p)
      <4>1. live(reg, s) \in Offers \union {Absent}
        BY DEF live, Entries, TypeOK
      <4>2. QED
        BY <2>1, <4>1, RecordsAssumption
        DEF Contract!commit_registration_refused
    <3>3. QED
      BY <3>1, <3>2, NothingLive
      DEF Contract!Commits, Contract!dates, Pending, Binding, Offer_until,
          Binding_until
  <2>2. CASE live(reg, s) = p
    <3>1. /\ reg' = [reg EXCEPT ![s] = Absent]
          /\ bind' = [bind EXCEPT ![s] = put(b, SessionLifetimeSeconds)]
          /\ now' = now
          /\ Contract!Returns("commit_registration", s, <<p, b>>, "True")
      BY <1>7, <2>2, ReturnsAlike DEF commit_registration, Returns
    <3>2. \A q \in Sessions :
             /\ live(reg, q)' = IF q = s THEN Absent ELSE live(reg, q)
             /\ until(reg, q)' = IF q = s THEN 0 ELSE until(reg, q)
      BY <3>1, RemovalIsAbsence DEF live, until, TypeOK
    <3>3. \A q \in Sessions :
             /\ live(bind, q)' = IF q = s THEN b ELSE live(bind, q)
             /\ until(bind, q)' = IF q = s THEN now + SessionLifetimeSeconds
                                 ELSE until(bind, q)
      BY <3>1, WriteIsLive, LifetimesAssumption DEF live, until, TypeOK
    <3>4. Contract!commit_registration(s, p, b)
      BY <2>2, <3>2, <3>3 DEF Contract!commit_registration
    <3>5. Contract!Dates({}, {s})
      BY <1>00, <3>2, <3>3, DatesAlike
    <3>6. QED
      BY <3>1, <3>4, <3>5 DEF Contract!Commits
  <2>3. QED
    BY <2>1, <2>2
<1>8. ASSUME NEW s \in Sessions, NEW b \in Bindings, NEW c \in Bindings,
             replace_binding(s, b, c)
      PROVE  Contract!Replaces(s, b, c)
  <2>1. CASE live(bind, s) # b
    <3>1. /\ UNCHANGED <<reg, bind, now>>
          /\ Contract!Returns("replace_binding", s, <<b, c>>, "False")
      BY <1>8, <2>1, ReturnsAlike DEF replace_binding, Returns
    <3>2. Contract!replace_binding_refused(s, b)
      <4>1. live(bind, s) \in Bindings \union {Absent}
        BY DEF live, Entries, TypeOK
      <4>2. QED
        BY <2>1, <4>1, RecordsAssumption DEF Contract!replace_binding_refused
    <3>3. QED
      BY <3>1, <3>2, NothingLive
      DEF Contract!Replaces, Contract!dates, Pending, Binding, Offer_until,
          Binding_until
  <2>2. CASE live(bind, s) = b
    <3>1. /\ bind' = [bind EXCEPT ![s] = put(c, SessionLifetimeSeconds)]
          /\ reg' = reg /\ now' = now
          /\ Contract!Returns("replace_binding", s, <<b, c>>, "True")
      BY <1>8, <2>2, ReturnsAlike DEF replace_binding, Returns
    <3>2. \A q \in Sessions :
             /\ live(bind, q)' = IF q = s THEN c ELSE live(bind, q)
             /\ until(bind, q)' = IF q = s THEN now + SessionLifetimeSeconds
                                 ELSE until(bind, q)
             /\ live(reg, q)' = live(reg, q) /\ until(reg, q)' = until(reg, q)
      BY <3>1, WriteIsLive, LifetimesAssumption DEF live, until, TypeOK
    <3>3. Contract!replace_binding(s, b, c)
      BY <2>2, <3>2 DEF Contract!replace_binding
    <3>4. Contract!Dates({}, {s})
      BY <1>00, <3>2, DatesAlike
    <3>5. QED
      BY <3>1, <3>3, <3>4 DEF Contract!Replaces
  <2>3. QED
    BY <2>1, <2>2
<1>9. QED
  BY <1>1, <1>2, <1>3, <1>4, <1>5, <1>6, <1>7, <1>8
  DEF Next, Contract!Next_contract

\* InMemoryStore implements the contract of Store, with no tolerance about the
\* lifetimes: KeepsContract, which TLC checks for two sessions, holds for every
\* instance.
THEOREM Refinement == Spec => KeepsContract
<1>1. Init => Contract!Init_contract
  BY DEF Init, Contract!Init_contract, Contract!Init_store, Contract!NoResult,
         live, until
<1>2. QED
  BY <1>1, StepKeepsContract, Typing, PTL
  DEF Spec, KeepsContract, Contract!Spec_contract
==============================================================================

----------------------- MODULE SpecterEventStreamProofs -----------------------
(***************************************************************************)
(* Proofs about SpecterEventStream, for any streams, subjects, number of   *)
(* handlers, delays and faults: every step of the loops, consumers and     *)
(* retries is a step of EventFeed or none. That the events come in the end *)
(* needs fairness, and is not proved.                                      *)
(*                                                                         *)
(* The inductive invariant is StreamInvariant: the handlers before the     *)
(* turn know the message being dispatched, the others know what all knew   *)
(* before, and what a consumer still yields comes after it.                *)
(***************************************************************************)
EXTENDS SpecterEventStream, SequenceTheorems, WellFoundedInduction, TLAPS

USE StreamAssumption DEF Handlers

Messages == [subject : Subjects, valid : BOOLEAN]

\* Min of the messages that are to come is one of them, and the first.
LEMMA FirstOfTheMessages ==
    ASSUME NEW T \in SUBSET Nat, T # {}
    PROVE  Min(T) \in T /\ \A n \in T : Min(T) <= n
<1>1. PICK R : R = OpToRel(<, Nat) /\ IsWellFoundedOn(R, Nat)
      BY NatLessThanWellFounded, Zenon
<1>2. PICK m \in T : \A n \in T : ~(<<n, m>> \in R)
      BY <1>1, WFMin
<1>3. \A n \in T : ~(n < m)
      BY <1>1, <1>2, Zenon DEF OpToRel
<1>4. \A n \in T : m <= n
      BY <1>2, <1>3
<1>5. QED
      BY <1>2, <1>4 DEF Min

\* What StreamInvariant says of one stream, with the types that it needs.
LEMMA WhatIsKnownOf ==
    ASSUME StreamInvariant, NEW s \in Streams
    PROVE  /\ TypeOK /\ GivenInTurn(s) /\ NothingComesBack(s)
           /\ log[s] \in Seq(Messages) /\ Len(log[s]) \in Nat /\ DOMAIN log[s] = Numbers(s)
           /\ \A n \in Numbers(s) : log[s][n] \in Messages
           /\ pc[s] \in Loops /\ turn[s] \in Handlers /\ todo[s] \subseteq Numbers(s)
           /\ IF pc[s] = "handling" THEN current[s] \in Numbers(s) ELSE current[s] = 0
           /\ handled[s] \in [Handlers -> [Subjects -> Nat]]
           /\ HandlerCount \in Handlers /\ GivenToAll(s) \in [Subjects -> Nat]
<1>1. TypeOK /\ GivenInTurn(s) /\ NothingComesBack(s)
      BY DEF StreamInvariant
<1>2. log[s] \in Seq(Messages)
      BY <1>1 DEF TypeOK, Messages
<1>3. /\ Len(log[s]) \in Nat /\ DOMAIN log[s] = Numbers(s)
      /\ \A n \in Numbers(s) : log[s][n] \in Messages
      BY <1>2, LenProperties, ElementOfSeq DEF Numbers
<1>4. HandlerCount \in Handlers /\ handled[s] \in [Handlers -> [Subjects -> Nat]]
      BY <1>1 DEF TypeOK
<1>5. GivenToAll(s) \in [Subjects -> Nat]
      BY <1>4 DEF GivenToAll
<1>6. QED
      BY <1>1, <1>2, <1>3, <1>4, <1>5 DEF TypeOK

\* A stream whose messages and loop a step leaves alone.
SameStream(s) ==
    /\ log'[s] = log[s] /\ pc'[s] = pc[s] /\ todo'[s] = todo[s] /\ current'[s] = current[s]
    /\ turn'[s] = turn[s] /\ handled'[s] = handled[s]

\* What StreamInvariant says of a stream stays true when a step leaves that stream alone.
LEMMA SameStreamIsSound ==
    ASSUME NEW s, GivenInTurn(s), NothingComesBack(s), SameStream(s)
    PROVE  GivenInTurn(s)' /\ NothingComesBack(s)'
<1>1. GivenToAll(s)' = GivenToAll(s) /\ Numbers(s)' = Numbers(s) /\ Dispatched(s)' = Dispatched(s)
      BY DEF SameStream, GivenToAll, Numbers, Dispatched
<1>2. GivenInTurn(s)'
      BY <1>1 DEF GivenInTurn, SameStream
<1>3. NothingComesBack(s)'
      BY <1>1 DEF NothingComesBack, SameStream, ComesLater, Consuming
<1>4. QED
      BY <1>2, <1>3

\* It is enough to look at the stream whose loop takes the step.
LEMMA StepOfOneStream ==
    ASSUME StreamInvariant, TypeOK', runPc' = runPc, NEW s \in Streams,
           pc[s] # "off" \/ pc'[s] = pc[s],
           GivenInTurn(s)', NothingComesBack(s)', \A p \in Streams : p # s => SameStream(p)
    PROVE  StreamInvariant'
<1>1. \A p \in Streams : GivenInTurn(p)' /\ NothingComesBack(p)'
      BY SameStreamIsSound DEF StreamInvariant
<1>2. LoopsStartWithRun'
      BY DEF StreamInvariant, LoopsStartWithRun, SameStream
<1>3. QED
      BY <1>1, <1>2 DEF StreamInvariant

\* A step that no loop takes.
LEMMA StepOfNoStream ==
    ASSUME StreamInvariant, TypeOK', LoopsStartWithRun', \A p \in Streams : SameStream(p)
    PROVE  StreamInvariant'
<1>1. \A p \in Streams : GivenInTurn(p)' /\ NothingComesBack(p)'
      BY SameStreamIsSound DEF StreamInvariant
<1>2. QED
      BY <1>1 DEF StreamInvariant

\* A loop that goes nowhere near a message, and has none to come.
LEMMA IdleIsSound ==
    ASSUME StreamInvariant, NEW s \in Streams, pc[s] # "handling", pc'[s] # "handling",
           todo'[s] = {}, log' = log, turn' = turn, handled' = handled
    PROVE  GivenInTurn(s)' /\ NothingComesBack(s)'
<1>1. GivenToAll(s)' = GivenToAll(s) /\ Numbers(s)' = Numbers(s) /\ Dispatched(s)' = {}
      BY DEF GivenToAll, Numbers, Dispatched
<1>2. turn[s] = 1
      BY WhatIsKnownOf DEF GivenInTurn
<1>3. GivenInTurn(s)'
  <2>1. ASSUME NEW h \in Handlers
        PROVE  handled[s][h] = GivenToAll(s) /\ ~(h < turn[s])
    <3>1. ~(h < turn[s])
          BY <1>2
    <3>2. QED
          BY <3>1, WhatIsKnownOf DEF GivenInTurn
  <2>2. QED
        BY <1>1, <1>2, <2>1 DEF GivenInTurn
<1>4. NothingComesBack(s)'
      BY <1>1, WhatIsKnownOf DEF NothingComesBack
<1>5. QED
      BY <1>3, <1>4

-------------------------------------------------------------------------------
\* Before any message, nothing has been given and nothing comes.
LEMMA StreamInit ==
    Init => StreamInvariant
<1> SUFFICES ASSUME Init
             PROVE  StreamInvariant
    OBVIOUS
<1> USE DEF Init
<1>1. TypeOK
  <2>1. /\ log \in [Streams -> Seq([subject : Subjects, valid : BOOLEAN])]
        /\ pc \in [Streams -> Loops] /\ current \in [Streams -> Nat]
        BY EmptySeq DEF Loops
  <2>2. turn \in [Streams -> Handlers] /\ handled \in [Streams -> [Handlers -> [Subjects -> Nat]]]
        OBVIOUS
  <2>3. retryDelay \in [Streams \union {"run"} -> InitialDelay..MaximumDelay]
        OBVIOUS
  <2>4. faults \in 0..MaxFaults /\ {} \in SUBSET Streams
        OBVIOUS
  <2>5. DOMAIN todo = Streams /\ \A s \in Streams : todo[s] \subseteq Numbers(s)
        OBVIOUS
  <2>6. \A s \in Streams : IF pc[s] = "handling" THEN current[s] \in Numbers(s) ELSE current[s] = 0
        OBVIOUS
  <2>7. QED
        BY <2>1, <2>2, <2>3, <2>4, <2>5, <2>6 DEF TypeOK
<1>2. LoopsStartWithRun
      BY DEF LoopsStartWithRun
<1>3. ASSUME NEW s \in Streams
      PROVE  GivenInTurn(s) /\ NothingComesBack(s)
      BY <1>3 DEF GivenInTurn, NothingComesBack, GivenToAll, Dispatched, Consuming
<1>4. QED
      BY <1>1, <1>2, <1>3 DEF StreamInvariant

\* A message that is published comes after all others of its stream.
LEMMA PublishIsSound ==
    ASSUME StreamInvariant, NEW s \in Streams, NEW x \in Subjects, NEW valid \in BOOLEAN,
           Publish(s, x, valid)
    PROVE  StreamInvariant'
<1>1. PICK next \in Nat : next = Len(log[s]) + 1
      BY WhatIsKnownOf
<1>2. /\ Len(log[s]) \in Nat /\ log'[s] \in Seq(Messages) /\ Len(log'[s]) = next
      /\ \A n \in Numbers(s) : log'[s][n] = log[s][n]
      /\ \A p \in Streams : p # s => log'[p] = log[p]
  <2>1. [subject |-> x, valid |-> valid] \in Messages
        BY DEF Messages
  <2>2. log'[s] = Append(log[s], [subject |-> x, valid |-> valid])
        BY WhatIsKnownOf DEF Publish, TypeOK
  <2>3. QED
        BY <1>1, <2>1, <2>2, WhatIsKnownOf, AppendProperties DEF Publish, TypeOK, Numbers
<1>3. Numbers(s)' = Numbers(s) \union {next} /\ next \notin Numbers(s)
      BY <1>1, <1>2 DEF Numbers
<1>4. /\ todo'[s] \subseteq todo[s] \union {next}
      /\ ~Consuming(s) => todo'[s] = todo[s]
      /\ \A p \in Streams : p # s => todo'[p] = todo[p]
      BY <1>1, WhatIsKnownOf DEF Publish, TypeOK
<1>5. TypeOK'
  <2>1. log' \in [Streams -> Seq(Messages)]
        BY <1>2, WhatIsKnownOf DEF Publish, TypeOK, Messages
  <2>2. DOMAIN todo' = Streams
        BY WhatIsKnownOf DEF Publish, TypeOK
  <2>3. ASSUME NEW p \in Streams
        PROVE  /\ todo'[p] \subseteq Numbers(p)'
               /\ IF pc[p] = "handling" THEN current[p] \in Numbers(p)' ELSE current[p] = 0
    <3>1. CASE p = s
          BY <1>3, <1>4, <3>1, WhatIsKnownOf
    <3>2. CASE p # s
      <4>1. Numbers(p)' = Numbers(p)
            BY <1>2, <3>2 DEF Numbers
      <4>2. QED
            BY <1>4, <2>3, <3>2, <4>1, WhatIsKnownOf
    <3>3. QED
          BY <3>1, <3>2
  <2>4. QED
        BY <2>1, <2>2, <2>3, WhatIsKnownOf DEF Publish, TypeOK, Messages, stopVars, runVars
<1>6. GivenToAll(s)' = GivenToAll(s) /\ Dispatched(s)' = Dispatched(s)
      BY DEF Publish, GivenToAll, Dispatched
<1>7. GivenInTurn(s)'
  <2>1. turn' = turn /\ current' = current /\ handled' = handled /\ pc' = pc
        BY DEF Publish
  <2>2. ASSUME NEW h \in Handlers, h < turn[s]
        PROVE  log'[s][current[s]] = log[s][current[s]]
    <3>1. pc[s] = "handling"
      <4>1. pc[s] # "handling" => turn[s] = 1
            BY WhatIsKnownOf DEF GivenInTurn
      <4>2. h >= 1
            BY <2>2
      <4>3. QED
            BY <2>2, <4>1, <4>2, WhatIsKnownOf
    <3>2. QED
          BY <1>2, <3>1, WhatIsKnownOf
  <2>3. GivenInTurn(s)
        BY WhatIsKnownOf
  <2>4. QED
        BY <1>6, <2>1, <2>2, <2>3 DEF GivenInTurn
<1>8. NothingComesBack(s)'
  <2>1. \A y \in Subjects : GivenToAll(s)[y] \in Nat /\ GivenToAll(s)[y] < next
    <3>1. ASSUME NEW y \in Subjects
          PROVE  GivenToAll(s)[y] \in Nat /\ (GivenToAll(s)[y] = 0 \/ GivenToAll(s)[y] \in Numbers(s))
          BY <3>1, WhatIsKnownOf DEF NothingComesBack
    <3>2. QED
          BY <1>1, <1>2, <3>1 DEF Numbers
  <2>2. log'[s][next].subject \in Subjects
    <3>1. log'[s][next] \in Messages
          BY <1>1, <1>2, ElementOfSeq
    <3>2. QED
          BY <3>1 DEF Messages
  <2>3. ComesLater(s, next)'
        BY <1>2, <1>6, <2>1, <2>2 DEF ComesLater
  <2>4. \A n \in todo[s] \union Dispatched(s) : n \in Numbers(s) /\ ComesLater(s, n)'
        BY <1>2, <1>6, WhatIsKnownOf DEF NothingComesBack, Dispatched, ComesLater
  <2>5. pc[s] = "handling" =>
            log'[s][current[s]].valid /\ \A n \in todo'[s] : current[s] < n
    <3>1. pc[s] = "handling" => current[s] \in Numbers(s) /\ current[s] < next
          BY <1>1, <1>2, WhatIsKnownOf DEF Numbers
    <3>2. pc[s] = "handling" => log[s][current[s]].valid /\ \A n \in todo[s] : current[s] < n
          BY WhatIsKnownOf DEF NothingComesBack
    <3>3. QED
          BY <1>2, <1>4, <3>1, <3>2
  <2>6. QED
        BY <1>2, <1>3, <1>4, <1>6, <2>3, <2>4, <2>5, WhatIsKnownOf
           DEF NothingComesBack, Publish, Consuming
<1>9. \A p \in Streams : p # s => SameStream(p)
      BY <1>2, <1>4 DEF SameStream, Publish
<1>10. QED
      BY <1>5, <1>7, <1>8, <1>9, StepOfOneStream DEF Publish, runVars

-------------------------------------------------------------------------------
\* A broken consumption, or none: the loop sleeps, or ends when fa is stopped.
LEMMA SleepOrEndIsSound ==
    ASSUME StreamInvariant, NEW s \in Streams, pc[s] \in {"getting", "waiting"}, SleepOrEnd(s),
           UNCHANGED <<reachable, declared, log>>, faults' \in 0..MaxFaults
    PROVE  StreamInvariant'
<1>1. TypeOK
      BY DEF StreamInvariant
<1>2. /\ pc'[s] \in {"sleeping", "ended"} /\ todo'[s] = {} /\ log' = log /\ turn' = turn
      /\ current' = current /\ handled' = handled /\ runPc' = runPc
      /\ \A p \in Streams : p # s => pc'[p] = pc[p] /\ todo'[p] = todo[p]
      BY <1>1 DEF SleepOrEnd, UnlessStopped, TypeOK, runVars
<1>3. TypeOK'
  <2>1. pc' \in [Streams -> Loops] /\ DOMAIN todo' = Streams
        BY <1>1 DEF SleepOrEnd, UnlessStopped, TypeOK, Loops
  <2>2. ASSUME NEW p \in Streams
        PROVE  /\ todo'[p] \subseteq Numbers(p)'
               /\ IF pc'[p] = "handling" THEN current'[p] \in Numbers(p)' ELSE current'[p] = 0
        BY <1>2, <2>2, WhatIsKnownOf DEF Numbers
  <2>3. QED
        BY <1>1, <1>2, <2>1, <2>2 DEF SleepOrEnd, TypeOK, stopVars, runVars
<1>4. GivenInTurn(s)' /\ NothingComesBack(s)'
      BY <1>2, IdleIsSound
<1>5. \A p \in Streams : p # s => SameStream(p)
      BY <1>2 DEF SameStream
<1>6. QED
      BY <1>2, <1>3, <1>4, <1>5, StepOfOneStream

\* After its delay a loop asks for a consumer again, with a longer delay for the next time.
LEMMA FollowAgainIsSound ==
    ASSUME StreamInvariant, NEW s \in Streams, FollowAgain(s)
    PROVE  StreamInvariant'
<1>1. TypeOK
      BY DEF StreamInvariant
<1>2. /\ pc[s] = "sleeping" /\ pc'[s] \in {"getting", "ended"} /\ pc' \in [Streams -> Loops]
      /\ \A p \in Streams : p # s => pc'[p] = pc[p]
      BY <1>1 DEF FollowAgain, UnlessStopped, TypeOK, Loops
<1>3. todo[s] = {}
      BY <1>2, WhatIsKnownOf DEF NothingComesBack, Consuming
<1>4. retryDelay' \in [Streams \union {"run"} -> InitialDelay..MaximumDelay]
  <2>1. PICK d \in InitialDelay..MaximumDelay : d = retryDelay[s]
        BY <1>1 DEF TypeOK
  <2>2. Doubled(d) \in InitialDelay..MaximumDelay
        BY DEF Doubled
  <2>3. QED
        BY <1>1, <2>1, <2>2 DEF FollowAgain, TypeOK
<1>5. TypeOK'
  <2>1. ASSUME NEW p \in Streams
        PROVE  IF pc'[p] = "handling" THEN current[p] \in Numbers(p) ELSE current[p] = 0
        BY <1>2, <2>1, WhatIsKnownOf
  <2>2. QED
        BY <1>1, <1>2, <1>4, <2>1 DEF FollowAgain, TypeOK, brokerVars, stopVars, runVars, Numbers
<1>6. GivenInTurn(s)' /\ NothingComesBack(s)'
      BY <1>2, <1>3, IdleIsSound DEF FollowAgain, brokerVars
<1>7. \A p \in Streams : p # s => SameStream(p)
      BY <1>2 DEF SameStream, FollowAgain, brokerVars
<1>8. QED
      BY <1>2, <1>5, <1>6, <1>7, StepOfOneStream DEF FollowAgain, runVars

\* The backlog of a new consumer begins with the status that the handlers know, or a later one.
LEMMA GetConsumerIsSound ==
    ASSUME StreamInvariant, NEW s \in Streams, GetConsumer(s)
    PROVE  StreamInvariant'
<1>1. TypeOK
      BY DEF StreamInvariant
<1>2. /\ pc[s] = "getting" /\ pc'[s] = "waiting" /\ pc' \in [Streams -> Loops]
      /\ todo'[s] = Backlog(s) /\ DOMAIN todo' = Streams
      /\ \A p \in Streams : p # s => pc'[p] = pc[p] /\ todo'[p] = todo[p]
      /\ log' = log /\ current' = current /\ turn' = turn /\ handled' = handled
      BY <1>1 DEF GetConsumer, TypeOK, Loops, brokerVars
<1>3. /\ Numbers(s)' = Numbers(s) /\ GivenToAll(s)' = GivenToAll(s) /\ Dispatched(s)' = {}
      /\ Backlog(s) \subseteq Numbers(s)
      BY <1>2 DEF Numbers, GivenToAll, Dispatched, Backlog, LatestPerSubject
<1>4. TypeOK'
  <2>1. ASSUME NEW p \in Streams
        PROVE  /\ todo'[p] \subseteq Numbers(p)'
               /\ IF pc'[p] = "handling" THEN current'[p] \in Numbers(p)' ELSE current'[p] = 0
    <3>1. Numbers(p)' = Numbers(p)
          BY <1>2 DEF Numbers
    <3>2. QED
          BY <1>2, <1>3, <2>1, <3>1, WhatIsKnownOf
  <2>2. retryDelay' \in [Streams \union {"run"} -> InitialDelay..MaximumDelay]
        BY <1>1 DEF GetConsumer, TypeOK
  <2>3. QED
        BY <1>1, <1>2, <2>1, <2>2 DEF GetConsumer, TypeOK, brokerVars, stopVars, runVars
<1>5. GivenInTurn(s)'
  <2>1. GivenInTurn(s) /\ turn[s] = 1
        BY <1>2, WhatIsKnownOf DEF GivenInTurn
  <2>2. QED
        BY <1>2, <1>3, <2>1 DEF GivenInTurn
<1>6. ASSUME NEW n \in Backlog(s)
      PROVE  ComesLater(s, n)
  <2>1. s \in LatestStreams /\ n \in LatestPerSubject(s)
        BY <1>6 DEF Backlog
  <2>2. n \in Numbers(s) /\ log[s][n].subject \in Subjects
        BY <2>1, WhatIsKnownOf DEF LatestPerSubject, Messages
  <2>3. PICK m \in Nat : m = GivenToAll(s)[log[s][n].subject]
        BY <2>2, WhatIsKnownOf
  <2>4. CASE m = 0
        BY <2>1, <2>2, <2>3, <2>4 DEF ComesLater, Numbers
  <2>5. CASE m # 0
    <3>1. m \in Numbers(s) /\ log[s][m].subject = log[s][n].subject
          BY <2>2, <2>3, <2>5, WhatIsKnownOf DEF NothingComesBack
    <3>2. m <= n
          BY <2>1, <3>1 DEF LatestPerSubject
    <3>3. QED
          BY <2>1, <2>3, <3>2 DEF ComesLater
  <2>6. QED
        BY <2>4, <2>5
<1>7. NothingComesBack(s)'
  <2>1. \A n \in Backlog(s) : ComesLater(s, n)'
        BY <1>2, <1>3, <1>6 DEF ComesLater
  <2>2. NothingComesBack(s)
        BY WhatIsKnownOf
  <2>3. QED
        BY <1>2, <1>3, <2>1, <2>2 DEF NothingComesBack, Consuming
<1>8. \A p \in Streams : p # s => SameStream(p)
      BY <1>2 DEF SameStream
<1>9. QED
      BY <1>2, <1>4, <1>5, <1>7, <1>8, StepOfOneStream DEF GetConsumer, runVars

\* The first message to come is dispatched, or skipped when it is invalid; the others come after it.
LEMMA YieldIsSound ==
    ASSUME StreamInvariant, NEW s \in Streams, Yield(s)
    PROVE  StreamInvariant'
<1>1. TypeOK
      BY DEF StreamInvariant
<1>2. PICK n \in Numbers(s) : n = Min(todo[s]) /\ n \in todo[s] /\ \A m \in todo[s] : n <= m
  <2>1. todo[s] \in SUBSET Nat /\ todo[s] # {} /\ todo[s] \subseteq Numbers(s)
        BY WhatIsKnownOf DEF Yield, Numbers
  <2>2. QED
        BY <2>1, FirstOfTheMessages
<1>3. /\ pc[s] = "waiting" /\ turn[s] = 1 /\ todo'[s] = todo[s] \ {n} /\ DOMAIN todo' = Streams
      /\ log' = log /\ turn' = turn /\ handled' = handled
      /\ \A p \in Streams : p # s => todo'[p] = todo[p]
      BY <1>1, <1>2, WhatIsKnownOf DEF Yield, TypeOK, brokerVars, GivenInTurn
<1>4. /\ pc' \in [Streams -> Loops] /\ current' \in [Streams -> Nat]
      /\ \A p \in Streams : p # s => pc'[p] = pc[p] /\ current'[p] = current[p]
      /\ \/ log[s][n].valid /\ pc'[s] = "handling" /\ current'[s] = n
         \/ pc'[s] = "waiting" /\ current'[s] = current[s]
  <2>1. IF log[s][n].valid
            THEN pc' = [pc EXCEPT ![s] = "handling"] /\ current' = [current EXCEPT ![s] = n]
            ELSE pc' = pc /\ current' = current
        BY <1>2 DEF Yield
  <2>2. n \in Nat
        BY <1>2 DEF Numbers
  <2>3. pc \in [Streams -> Loops] /\ current \in [Streams -> Nat]
        BY <1>1 DEF TypeOK
  <2>4. QED
        BY <1>3, <2>1, <2>2, <2>3 DEF Loops
<1>5. Numbers(s)' = Numbers(s) /\ GivenToAll(s)' = GivenToAll(s)
      BY <1>3 DEF Numbers, GivenToAll
<1>6. TypeOK'
  <2>1. ASSUME NEW p \in Streams
        PROVE  /\ todo'[p] \subseteq Numbers(p)'
               /\ IF pc'[p] = "handling" THEN current'[p] \in Numbers(p)' ELSE current'[p] = 0
    <3>1. Numbers(p)' = Numbers(p)
          BY <1>3 DEF Numbers
    <3>2. CASE p = s
          BY <1>2, <1>3, <1>4, <3>1, <3>2, WhatIsKnownOf
    <3>3. CASE p # s
      <4>1. /\ todo[p] \subseteq Numbers(p)
            /\ IF pc[p] = "handling" THEN current[p] \in Numbers(p) ELSE current[p] = 0
            BY <2>1, WhatIsKnownOf
      <4>2. QED
            BY <1>3, <1>4, <2>1, <3>1, <3>3, <4>1
    <3>4. QED
          BY <3>2, <3>3
  <2>2. QED
        BY <1>1, <1>3, <1>4, <2>1 DEF Yield, TypeOK, brokerVars, stopVars, runVars
<1>7. GivenInTurn(s)'
  <2>1. \A h \in Handlers : handled[s][h] = GivenToAll(s) /\ ~(h < turn[s])
    <3>1. \A h \in Handlers : ~(h < turn[s])
          BY <1>3
    <3>2. QED
          BY <3>1, WhatIsKnownOf DEF GivenInTurn
  <2>2. QED
        BY <1>3, <1>5, <2>1 DEF GivenInTurn
<1>8. NothingComesBack(s)'
  <2>1. NothingComesBack(s)
        BY WhatIsKnownOf
  <2>2. todo'[s] \union Dispatched(s)' \subseteq todo[s]
        BY <1>2, <1>3, <1>4 DEF Dispatched
  <2>3. \A m \in todo[s] : ComesLater(s, m)'
        BY <1>3, <1>5, <2>1 DEF NothingComesBack, ComesLater
  <2>4. \A m \in todo'[s] : n < m
    <3>1. ASSUME NEW m \in todo'[s]
          PROVE  n < m
      <4>1. m \in Nat /\ n \in Nat /\ n <= m /\ m # n
            BY <1>2, <1>3, <3>1, WhatIsKnownOf DEF Numbers
      <4>2. QED
            BY <4>1
    <3>2. QED
          BY <3>1
  <2>5. pc'[s] = "handling" =>
            log'[s][current'[s]].valid /\ \A m \in todo'[s] : current'[s] < m
        BY <1>3, <1>4, <2>4
  <2>6. Consuming(s)'
        BY <1>4 DEF Consuming
  <2>7. QED
        BY <1>3, <1>5, <2>1, <2>2, <2>3, <2>5, <2>6 DEF NothingComesBack
<1>9. \A p \in Streams : p # s => SameStream(p)
      BY <1>3, <1>4 DEF SameStream
<1>10. QED
      BY <1>3, <1>6, <1>7, <1>8, <1>9, StepOfOneStream DEF Yield, runVars

\* Handlers are given a message in turn; once the last one was, all of them know it.
LEMMA HandlerEndsIsSound ==
    ASSUME StreamInvariant, NEW s \in Streams, NEW failed \in BOOLEAN, HandlerEnds(s, failed)
    PROVE  StreamInvariant'
<1>1. TypeOK
      BY DEF StreamInvariant
<1>2. PICK n \in Numbers(s) : n = current[s]
      BY WhatIsKnownOf DEF HandlerEnds
<1>3. PICK x \in Subjects : x = log[s][n].subject
      BY <1>2, WhatIsKnownOf DEF Messages
<1>4. PICK h \in Handlers : h = turn[s]
      BY WhatIsKnownOf
<1>5. n \in Nat /\ n # 0 /\ pc[s] = "handling"
      BY <1>2, WhatIsKnownOf DEF Numbers, HandlerEnds
<1>6. /\ handled' = [handled EXCEPT ![s] = [handled[s] EXCEPT ![h] = [handled[s][h] EXCEPT ![x] = n]]]
      /\ log' = log /\ todo' = todo
      BY <1>2, <1>3, <1>4 DEF HandlerEnds, brokerVars
<1>7. /\ handled'[s] = [handled[s] EXCEPT ![h] = [handled[s][h] EXCEPT ![x] = n]]
      /\ handled' \in [Streams -> [Handlers -> [Subjects -> Nat]]]
      /\ \A p \in Streams : p # s => handled'[p] = handled[p]
  <2>1. [handled[s][h] EXCEPT ![x] = n] \in [Subjects -> Nat]
        BY <1>5, WhatIsKnownOf
  <2>2. [handled[s] EXCEPT ![h] = [handled[s][h] EXCEPT ![x] = n]] \in [Handlers -> [Subjects -> Nat]]
        BY <2>1, WhatIsKnownOf
  <2>3. QED
        BY <1>1, <1>6, <2>2 DEF TypeOK
<1>8. \A g \in Handlers :
          handled[s][g] = IF g < h THEN [GivenToAll(s) EXCEPT ![x] = n] ELSE GivenToAll(s)
  <2>1. GivenInTurn(s)
        BY WhatIsKnownOf
  <2>2. QED
        BY <1>2, <1>3, <1>4, <2>1 DEF GivenInTurn
<1>9. handled[s][h] = GivenToAll(s)
  <2>1. h \in Handlers /\ ~(h < h)
        BY <1>4
  <2>2. QED
        BY <1>8, <2>1
<1>10. /\ handled'[s][h] = [GivenToAll(s) EXCEPT ![x] = n]
       /\ \A g \in Handlers : g # h => handled'[s][g] = handled[s][g]
      BY <1>4, <1>7, <1>9, WhatIsKnownOf
<1>11. Numbers(s)' = Numbers(s)
      BY <1>6 DEF Numbers
<1>12. ASSUME h # HandlerCount
       PROVE  StreamInvariant'
  <2>1. /\ pc' = pc /\ current' = current /\ turn' = [turn EXCEPT ![s] = h + 1]
        BY <1>4, <1>12 DEF HandlerEnds, Last
  <2>2. h + 1 \in Handlers
        BY <1>12
  <2>3. /\ turn'[s] = h + 1 /\ turn' \in [Streams -> Handlers]
        /\ \A p \in Streams : p # s => turn'[p] = turn[p]
        BY <1>1, <2>1, <2>2 DEF TypeOK
  <2>4. TypeOK'
        BY <1>1, <1>6, <1>7, <2>1, <2>3 DEF HandlerEnds, TypeOK, brokerVars, stopVars, runVars,
                                            Numbers
  <2>5. GivenToAll(s)' = GivenToAll(s)
        BY <1>10, <1>12, WhatIsKnownOf DEF GivenToAll
  <2>6. ASSUME NEW g \in Handlers
        PROVE  handled'[s][g] = IF g < h + 1 THEN [GivenToAll(s) EXCEPT ![x] = n] ELSE GivenToAll(s)
    <3>1. CASE g < h
      <4>1. g \in Int /\ h \in Int
            BY <1>4, <2>6
      <4>2. g # h /\ g < h + 1
            BY <3>1, <4>1
      <4>3. handled'[s][g] = handled[s][g]
            BY <1>10, <2>6, <4>2
      <4>4. QED
            BY <1>8, <2>6, <3>1, <4>2, <4>3
    <3>2. CASE g = h
          BY <1>10, <3>2
    <3>3. CASE g > h
      <4>1. g \in Int /\ h \in Int
            BY <1>4, <2>6
      <4>2. g # h /\ ~(g < h) /\ ~(g < h + 1)
            BY <3>3, <4>1
      <4>3. handled'[s][g] = handled[s][g]
            BY <1>10, <2>6, <4>2
      <4>4. QED
            BY <1>8, <2>6, <4>2, <4>3
    <3>4. QED
          BY <1>4, <2>6, <3>1, <3>2, <3>3
  <2>7. GivenInTurn(s)'
        BY <1>2, <1>3, <1>5, <1>6, <2>1, <2>3, <2>5, <2>6 DEF GivenInTurn
  <2>8. NothingComesBack(s)'
    <3>1. NothingComesBack(s)
          BY WhatIsKnownOf
    <3>2. QED
          BY <1>6, <1>11, <2>1, <2>5, <3>1 DEF NothingComesBack, ComesLater, Dispatched, Consuming
  <2>9. \A p \in Streams : p # s => SameStream(p)
        BY <1>6, <1>7, <2>1, <2>3 DEF SameStream
  <2>10. QED
        BY <2>1, <2>4, <2>7, <2>8, <2>9, StepOfOneStream DEF HandlerEnds, runVars
<1>13. ASSUME h = HandlerCount
       PROVE  StreamInvariant'
  <2>1. /\ pc' = [pc EXCEPT ![s] = "waiting"] /\ turn' = [turn EXCEPT ![s] = 1]
        /\ current' = [current EXCEPT ![s] = 0]
        BY <1>4, <1>13 DEF HandlerEnds, Last
  <2>2. /\ pc'[s] = "waiting" /\ turn'[s] = 1 /\ current'[s] = 0
        /\ pc' \in [Streams -> Loops] /\ turn' \in [Streams -> Handlers]
        /\ current' \in [Streams -> Nat]
        /\ \A p \in Streams : p # s =>
              pc'[p] = pc[p] /\ turn'[p] = turn[p] /\ current'[p] = current[p]
        BY <1>1, <2>1 DEF TypeOK, Loops
  <2>3. TypeOK'
    <3>1. ASSUME NEW p \in Streams
          PROVE  /\ todo'[p] \subseteq Numbers(p)'
                 /\ IF pc'[p] = "handling" THEN current'[p] \in Numbers(p)' ELSE current'[p] = 0
      <4>1. Numbers(p)' = Numbers(p)
            BY <1>6 DEF Numbers
      <4>2. CASE p = s
            BY <1>6, <2>2, <4>1, <4>2, WhatIsKnownOf
      <4>3. CASE p # s
        <5>1. /\ todo[p] \subseteq Numbers(p)
              /\ IF pc[p] = "handling" THEN current[p] \in Numbers(p) ELSE current[p] = 0
              BY <3>1, WhatIsKnownOf
        <5>2. QED
              BY <1>6, <2>2, <3>1, <4>1, <4>3, <5>1
      <4>4. QED
            BY <4>2, <4>3
    <3>2. QED
          BY <1>1, <1>6, <1>7, <2>2, <3>1 DEF HandlerEnds, TypeOK, brokerVars, stopVars, runVars
  <2>4. GivenToAll(s)' = [GivenToAll(s) EXCEPT ![x] = n]
        BY <1>10, <1>13 DEF GivenToAll
  <2>5. \A g \in Handlers : handled'[s][g] = GivenToAll(s)' /\ ~(g < 1)
    <3>1. ASSUME NEW g \in Handlers
          PROVE  handled'[s][g] = GivenToAll(s)' /\ ~(g < 1)
      <4>1. ASSUME g = h
            PROVE  handled'[s][g] = GivenToAll(s)'
            BY <1>10, <2>4, <4>1
      <4>2. ASSUME g # h
            PROVE  handled'[s][g] = GivenToAll(s)'
        <5>1. g < h
              BY <1>13, <3>1, <4>2
        <5>2. QED
              BY <1>8, <1>10, <2>4, <3>1, <4>2, <5>1
      <4>3. ~(g < 1)
            BY <3>1
      <4>4. QED
            BY <4>1, <4>2, <4>3
    <3>2. QED
          BY <3>1
  <2>6. GivenInTurn(s)'
        BY <2>2, <2>5 DEF GivenInTurn
  <2>7. \A y \in Subjects : GivenToAll(s)'[y] = IF y = x THEN n ELSE GivenToAll(s)[y]
        BY <2>4, WhatIsKnownOf
  <2>8. \A y \in Subjects : GivenToAll(s)'[y] # 0 =>
            GivenToAll(s)'[y] \in Numbers(s) /\ log[s][GivenToAll(s)'[y]].subject = y
    <3>1. NothingComesBack(s)
          BY WhatIsKnownOf
    <3>2. QED
          BY <1>3, <2>7, <3>1 DEF NothingComesBack
  <2>9. ASSUME NEW m \in todo[s]
        PROVE  ComesLater(s, m)'
    <3>1. n < m /\ ComesLater(s, m)
          BY <1>2, <1>5, <2>9, WhatIsKnownOf DEF NothingComesBack
    <3>2. m \in Nat /\ log[s][m].subject \in Subjects
          BY <2>9, WhatIsKnownOf DEF Numbers, Messages
    <3>3. QED
          BY <1>5, <1>6, <2>7, <3>1, <3>2 DEF ComesLater
  <2>10. NothingComesBack(s)'
        BY <1>6, <1>11, <2>2, <2>8, <2>9 DEF NothingComesBack, Dispatched, Consuming
  <2>11. \A p \in Streams : p # s => SameStream(p)
        BY <1>6, <1>7, <2>2 DEF SameStream
  <2>12. QED
        BY <1>5, <2>3, <2>6, <2>10, <2>11, StepOfOneStream DEF HandlerEnds, runVars
<1>14. QED
      BY <1>12, <1>13

-------------------------------------------------------------------------------
\* Once run() is connected, the loops start, which were off.
LEMMA ConnectSucceedsIsSound ==
    ASSUME StreamInvariant, ConnectSucceeds
    PROVE  StreamInvariant'
<1>1. TypeOK /\ \A s \in Streams : pc[s] = "off"
      BY DEF StreamInvariant, LoopsStartWithRun, ConnectSucceeds
<1>2. pc' \in [Streams -> Loops] /\ \A s \in Streams : pc'[s] \in {"getting", "ended"}
      BY DEF ConnectSucceeds, UnlessStopped, Loops
<1>3. TypeOK'
  <2>1. ASSUME NEW s \in Streams
        PROVE  IF pc'[s] = "handling" THEN current[s] \in Numbers(s) ELSE current[s] = 0
        BY <1>1, <1>2, <2>1, WhatIsKnownOf
  <2>2. QED
        BY <1>1, <1>2, <2>1 DEF ConnectSucceeds, TypeOK, brokerVars, stopVars, Numbers
<1>4. ASSUME NEW s \in Streams
      PROVE  GivenInTurn(s)' /\ NothingComesBack(s)'
  <2>1. todo[s] = {}
        BY <1>1, <1>4, WhatIsKnownOf DEF NothingComesBack, Consuming
  <2>2. QED
        BY <1>1, <1>2, <1>4, <2>1, IdleIsSound DEF ConnectSucceeds, brokerVars
<1>5. QED
      BY <1>3, <1>4 DEF StreamInvariant, LoopsStartWithRun, ConnectSucceeds

\* The network, run()'s attempts and stop() leave the loops where they are.
LEMMA OutsideIsSound ==
    ASSUME StreamInvariant,
           \/ DeclareStreams \/ BecomeUnreachable \/ BecomeReachable \/ ConnectFails
           \/ ConnectAgain \/ Stop \/ ConnectionCloses \/ UNCHANGED vars
    PROVE  StreamInvariant'
<1>1. TypeOK
      BY DEF StreamInvariant
<1>2. /\ log' = log /\ pc' = pc /\ todo' = todo /\ current' = current /\ turn' = turn
      /\ handled' = handled
      BY DEF DeclareStreams, BecomeUnreachable, BecomeReachable, ConnectFails, ConnectAgain, Stop,
             ConnectionCloses, vars, brokerVars, followVars, Fault
<1>3. /\ reachable' \in BOOLEAN /\ declared' \in BOOLEAN /\ faults' \in 0..MaxFaults
  <2>1. reachable \in BOOLEAN /\ declared \in BOOLEAN /\ faults \in 0..MaxFaults
        BY <1>1 DEF TypeOK
  <2>2. \/ faults' = faults
        \/ faults < MaxFaults /\ faults' = faults + 1
        BY DEF DeclareStreams, BecomeUnreachable, BecomeReachable, ConnectFails, ConnectAgain,
               Stop, ConnectionCloses, vars, brokerVars, Fault
  <2>3. declared' \in BOOLEAN
    <3>1. CASE DeclareStreams
          BY <3>1 DEF DeclareStreams
    <3>2. CASE ~DeclareStreams
      <4>1. UNCHANGED declared
            BY <3>2 DEF BecomeUnreachable, BecomeReachable, ConnectFails, ConnectAgain, Stop,
                        ConnectionCloses, vars, brokerVars, Fault
      <4>2. QED
            BY <2>1, <4>1
    <3>3. QED
          BY <3>1, <3>2
  <2>4. reachable' \in BOOLEAN
    <3>1. CASE BecomeUnreachable
          BY <3>1 DEF BecomeUnreachable
    <3>2. CASE BecomeReachable
          BY <3>2 DEF BecomeReachable
    <3>3. CASE ~BecomeUnreachable /\ ~BecomeReachable
      <4>1. UNCHANGED reachable
            BY <3>3 DEF DeclareStreams, ConnectFails, ConnectAgain, Stop, ConnectionCloses, vars,
                        brokerVars, Fault
      <4>2. QED
            BY <2>1, <4>1
    <3>4. QED
          BY <3>1, <3>2, <3>3
  <2>5. faults' \in 0..MaxFaults
        BY <2>1, <2>2
  <2>6. QED
        BY <2>3, <2>4, <2>5
<1>4. /\ isStopped' \in BOOLEAN /\ hasStopped' \in BOOLEAN /\ cut' \in SUBSET Streams
      BY <1>1 DEF DeclareStreams, BecomeUnreachable, BecomeReachable, ConnectFails, ConnectAgain,
                  Stop, ConnectionCloses, vars, stopVars, TypeOK
<1>5. /\ connection' \in {"null", "open", "closed"}
      /\ runPc' \in {"connecting", "sleeping", "following", "ended"}
      /\ runPc = "following" => runPc' = "following"
      /\ runPc # "following" => runPc' # "following"
      BY <1>1 DEF DeclareStreams, BecomeUnreachable, BecomeReachable, ConnectFails, ConnectAgain,
                  Stop, ConnectionCloses, Close, UnlessStopped, vars, runVars, TypeOK
<1>6. retryDelay' \in [Streams \union {"run"} -> InitialDelay..MaximumDelay]
  <2>1. CASE ConnectAgain
    <3>1. PICK d \in InitialDelay..MaximumDelay : d = retryDelay["run"]
          BY <1>1 DEF TypeOK
    <3>2. Doubled(d) \in InitialDelay..MaximumDelay
          BY DEF Doubled
    <3>3. QED
          BY <1>1, <2>1, <3>1, <3>2 DEF ConnectAgain, TypeOK
  <2>2. CASE ~ConnectAgain
        BY <1>1, <2>2 DEF DeclareStreams, BecomeUnreachable, BecomeReachable, ConnectFails, Stop,
                          ConnectionCloses, vars, TypeOK
  <2>3. QED
        BY <2>1, <2>2
<1>7. TypeOK'
      BY <1>1, <1>2, <1>3, <1>4, <1>5, <1>6 DEF TypeOK, Numbers
<1>8. LoopsStartWithRun'
      BY <1>2, <1>5 DEF StreamInvariant, LoopsStartWithRun
<1>9. QED
      BY <1>2, <1>7, <1>8, StepOfNoStream DEF SameStream

\* Every step keeps StreamInvariant.
LEMMA StreamStep ==
    StreamInvariant /\ [Next]_vars => StreamInvariant'
<1> SUFFICES ASSUME StreamInvariant, [Next]_vars
             PROVE  StreamInvariant'
    OBVIOUS
<1>1. TypeOK
      BY DEF StreamInvariant
<1>2. ASSUME NEW s \in Streams, \E x \in Subjects, valid \in BOOLEAN : Publish(s, x, valid)
      PROVE  StreamInvariant'
      BY <1>2, PublishIsSound
<1>3. ASSUME NEW s \in Streams, NoConsumer(s) \/ ConsumptionEnds(s)
      PROVE  StreamInvariant'
      BY <1>1, <1>3, SleepOrEndIsSound DEF NoConsumer, ConsumptionEnds, brokerVars, TypeOK
<1>4. ASSUME NEW s \in Streams, GetConsumerFails(s) \/ ConsumptionBreaks(s)
      PROVE  StreamInvariant'
  <2>1. faults' \in 0..MaxFaults /\ UNCHANGED <<reachable, declared, log>>
        BY <1>1, <1>4 DEF GetConsumerFails, ConsumptionBreaks, Fault, TypeOK
  <2>2. QED
        BY <1>4, <2>1, SleepOrEndIsSound DEF GetConsumerFails, ConsumptionBreaks
<1>5. ASSUME NEW s \in Streams, FollowStep(s)
      PROVE  StreamInvariant'
      BY <1>3, <1>5, GetConsumerIsSound, FollowAgainIsSound, YieldIsSound, HandlerEndsIsSound
         DEF FollowStep
<1>6. CASE ConnectSucceeds
      BY <1>6, ConnectSucceedsIsSound
<1>7. QED
      BY <1>2, <1>4, <1>5, <1>6, OutsideIsSound DEF Next

\* StreamInvariant, of every state of the stream's loops.
THEOREM StreamInvariantHolds == Spec => []StreamInvariant
BY StreamInit, StreamStep, PTL DEF Spec

\* The types of the connection, the loops and what the handlers were given; the delays stay between
\* INITIAL_RETRY_DELAY_MS and MAXIMUM_RETRY_DELAY_MS (specterEventStream.ts).
THEOREM StreamTypes == Spec => []TypeOK
<1>1. StreamInvariant => TypeOK
      BY DEF StreamInvariant
<1>2. QED
      BY <1>1, StreamInvariantHolds, PTL

-------------------------------------------------------------------------------
(* SpecterEventStream implements EventFeed, but for its liveness. *)

\* Nothing has been given at the start.
LEMMA FeedInit ==
    Init => Feed!Init
BY DEF Init, Feed!Init, Feed!Streams, Feed!Handlers, Streams

\* A handler's turn gives it the message that EventFeed lets it be given next.
LEMMA HandlerEndsGives ==
    ASSUME StreamInvariant, NEW s \in Streams, NEW failed \in BOOLEAN, HandlerEnds(s, failed)
    PROVE  Feed!Next
<1>1. PICK n \in Numbers(s) : n = current[s]
      BY WhatIsKnownOf DEF HandlerEnds
<1>2. PICK h \in Handlers : h = turn[s]
      BY WhatIsKnownOf
<1>3. pc[s] = "handling" /\ GivenInTurn(s) /\ NothingComesBack(s)
      BY WhatIsKnownOf DEF HandlerEnds
<1>4. log[s][n].valid
      BY <1>1, <1>3 DEF NothingComesBack
<1>5. n \in Nat /\ log[s][n].subject \in Subjects
      BY <1>1, WhatIsKnownOf DEF Numbers, Messages
<1>6. handled[s][h] = GivenToAll(s)
  <2>1. ~(h < h)
        BY <1>2
  <2>2. QED
        BY <1>2, <1>3, <2>1 DEF GivenInTurn
<1>7. Feed!InTurn(s, h, n)
  <2>1. CASE h = 1
    <3>1. ASSUME NEW g \in Handlers
          PROVE  handled[s][g] = GivenToAll(s)
      <4>1. ~(g < h)
            BY <2>1, <3>1
      <4>2. QED
            BY <1>2, <1>3, <3>1, <4>1 DEF GivenInTurn
    <3>2. QED
          BY <1>2, <2>1, <3>1 DEF Feed!InTurn, Feed!Handlers
  <2>2. CASE h # 1
    <3>1. h - 1 \in Handlers /\ h - 1 < h
          BY <1>2, <2>2
    <3>2. handled[s][h - 1] = [GivenToAll(s) EXCEPT ![log[s][n].subject] = n]
          BY <1>1, <1>2, <1>3, <3>1 DEF GivenInTurn
    <3>3. QED
          BY <1>5, <2>2, <3>2, WhatIsKnownOf DEF Feed!InTurn
  <2>3. QED
        BY <2>1, <2>2
<1>8. Feed!InOrder(s, h, n)
  <2>1. ComesLater(s, n)
        BY <1>1, <1>3 DEF NothingComesBack, Dispatched
  <2>2. QED
        BY <1>6, <2>1 DEF Feed!InOrder, ComesLater
<1>9. handled' = [handled EXCEPT ![s][h][log[s][n].subject] = n]
      BY <1>1, <1>2 DEF HandlerEnds
<1>10. Feed!Give(s, h, n)
      BY <1>4, <1>7, <1>8, <1>9 DEF Feed!Give, HandlerEnds, brokerVars, stopVars
<1>11. n \in DOMAIN log[s]
      BY <1>1, WhatIsKnownOf
<1>12. QED
      BY <1>2, <1>10, <1>11 DEF Feed!Next, Feed!Streams, Feed!Handlers, Streams

\* Every other step publishes a message, changes whether the streams can be followed, or is none
\* to the handlers.
LEMMA FeedStep ==
    StreamInvariant /\ [Next]_vars => [Feed!Next]_(Feed!feedVars)
<1> SUFFICES ASSUME StreamInvariant, [Next]_vars
             PROVE  Feed!Next \/ UNCHANGED <<reachable /\ declared /\ ~isStopped, log, handled>>
    BY DEF Feed!feedVars
<1> DEFINE up == reachable /\ declared /\ ~isStopped
<1>1. ASSUME NEW s \in Streams, NEW x \in Subjects, NEW valid \in BOOLEAN, Publish(s, x, valid)
      PROVE  Feed!Next
  <2>1. Feed!Publish(s)
        BY <1>1 DEF Publish, Feed!Publish, stopVars
  <2>2. QED
        BY <1>1, <2>1 DEF Feed!Next, Feed!Streams, Streams
<1>2. ASSUME NEW s \in Streams, NEW failed \in BOOLEAN, HandlerEnds(s, failed)
      PROVE  Feed!Next
      BY <1>2, HandlerEndsGives
<1>3. ASSUME log' = log, handled' = handled
      PROVE  Feed!Next \/ UNCHANGED <<up, log, handled>>
  <2>1. CASE up' = up
        BY <1>3, <2>1
  <2>2. CASE up' = ~up
        BY <1>3, <2>2 DEF Feed!Next, Feed!Change
  <2>3. QED
        BY <2>1, <2>2
<1>4. \/ log' = log /\ handled' = handled
      \/ \E s \in Streams, x \in Subjects, valid \in BOOLEAN : Publish(s, x, valid)
      \/ \E s \in Streams, failed \in BOOLEAN : HandlerEnds(s, failed)
  <2>1. ASSUME NEW s \in Streams, FollowStep(s)
        PROVE  \/ log' = log /\ handled' = handled
               \/ \E failed \in BOOLEAN : HandlerEnds(s, failed)
        BY <2>1 DEF FollowStep, GetConsumer, NoConsumer, FollowAgain, Yield, ConsumptionEnds,
                    SleepOrEnd, brokerVars
  <2>2. ASSUME NEW s \in Streams, GetConsumerFails(s) \/ ConsumptionBreaks(s)
        PROVE  log' = log /\ handled' = handled
        BY <2>2 DEF GetConsumerFails, ConsumptionBreaks, SleepOrEnd, Fault
  <2>3. CASE \/ DeclareStreams \/ BecomeUnreachable \/ BecomeReachable \/ ConnectSucceeds
             \/ ConnectFails \/ ConnectAgain \/ Stop \/ ConnectionCloses \/ UNCHANGED vars
        BY <2>3 DEF DeclareStreams, BecomeUnreachable, BecomeReachable, ConnectSucceeds,
                    ConnectFails, ConnectAgain, Stop, ConnectionCloses, vars, brokerVars,
                    followVars, Fault
  <2>4. QED
        BY <2>1, <2>2, <2>3 DEF Next
<1>5. QED
      BY <1>1, <1>2, <1>3, <1>4

\* Over outages, retries and new consumers every handler is given the same events, in turn; an alert
\* comes at most once and in order, and a status never after a newer one: whatever the program does
\* is something that EventFeed allows (specterEventStream.ts:73, 153-159).
THEOREM StreamImplementsFeed == Spec => Feed!SafeFeed
BY FeedInit, FeedStep, StreamInvariantHolds, PTL DEF Spec, Feed!SafeFeed

-------------------------------------------------------------------------------
(* What this means to the handlers. *)

\* The first handlers are given everything first, so a handler that reads what an earlier one has
\* written never reads it as of an older event: the relay, the names of the catalog.
THEOREM EarlierHandlersKnowMore == Spec => []HandlersInTurn
<1>1. ASSUME StreamInvariant
      PROVE  HandlersInTurn
  <2> SUFFICES ASSUME NEW s \in Streams, NEW g \in Handlers, NEW h \in Handlers, g <= h,
                      NEW x \in Subjects
               PROVE  handled[s][h][x] <= handled[s][g][x]
      BY DEF HandlersInTurn
  <2>1. /\ GivenInTurn(s) /\ NothingComesBack(s) /\ turn[s] \in Handlers
        /\ GivenToAll(s) \in [Subjects -> Nat]
        BY <1>1, WhatIsKnownOf
  <2>2. CASE h < turn[s] \/ ~(g < turn[s])
    <3>1. handled[s][h] = handled[s][g]
          BY <2>1, <2>2 DEF GivenInTurn
    <3>2. handled[s][g][x] \in Nat
          BY <1>1, WhatIsKnownOf
    <3>3. QED
          BY <3>1, <3>2
  <2>3. CASE ~(h < turn[s]) /\ g < turn[s]
    <3>1. pc[s] = "handling"
          BY <2>1, <2>3 DEF GivenInTurn
    <3>2. ComesLater(s, current[s]) /\ current[s] \in Nat
          BY <1>1, <2>1, <3>1, WhatIsKnownOf DEF NothingComesBack, Dispatched, Numbers
    <3>3. GivenToAll(s)[x] <= [GivenToAll(s) EXCEPT ![log[s][current[s]].subject] = current[s]][x]
          BY <2>1, <3>2 DEF ComesLater
    <3>4. QED
          BY <2>1, <2>3, <3>3 DEF GivenInTurn
  <2>4. QED
        BY <2>2, <2>3
<1>2. QED
      BY <1>1, StreamInvariantHolds, PTL

\* What EventFeed allows a handler to be given is newer than all that it was given of an alert's
\* stream, and no older than what it was given of a camera's status.
LEMMA GivenIsNewer ==
    ASSUME StreamInvariant, NEW s \in Streams, NEW h \in Handlers, NEW n \in Numbers(s),
           Feed!Give(s, h, n),
           NEW p \in Streams, NEW g \in Handlers, NEW x \in Subjects
    PROVE  /\ handled[p][g][x] <= handled'[p][g][x]
           /\ p \in NewStreams /\ handled'[p][g][x] # handled[p][g][x]
                 => \A y \in Subjects : handled[p][g][y] < handled'[p][g][x]
<1>1. handled \in [Streams -> [Handlers -> [Subjects -> Nat]]] /\ n \in Nat
  <2>1. TypeOK /\ Len(log[s]) \in Nat
        BY WhatIsKnownOf
  <2>2. n \in Nat
        BY <2>1 DEF Numbers
  <2>3. handled \in [Streams -> [Handlers -> [Subjects -> Nat]]]
        BY <2>1 DEF TypeOK
  <2>4. QED
        BY <2>2, <2>3
<1>2. handled' = [handled EXCEPT ![s][h][log[s][n].subject] = n] /\ Feed!InOrder(s, h, n)
      BY DEF Feed!Give
<1>3. CASE p = s /\ g = h /\ x = log[s][n].subject
  <2>1. handled'[p][g][x] = n
        BY <1>1, <1>2, <1>3
  <2>2. p \in NewStreams => \A y \in Subjects : handled[p][g][y] < n
        BY <1>2, <1>3 DEF Feed!InOrder
  <2>3. handled[p][g][x] <= n
        BY <1>1, <1>2, <1>3 DEF Feed!InOrder
  <2>4. QED
        BY <2>1, <2>2, <2>3
<1>4. CASE ~(p = s /\ g = h /\ x = log[s][n].subject)
  <2>1. handled'[p][g][x] = handled[p][g][x] /\ handled[p][g][x] \in Nat
        BY <1>1, <1>2, <1>4
  <2>2. QED
        BY <2>1
<1>5. QED
      BY <1>3, <1>4

\* Over all outages and new consumers, no handler is given an alert twice or after a later one, nor
\* a status after a newer one.
THEOREM NothingComesAgain == Spec => NothingOldAgain
<1>1. StreamInvariant /\ [Next]_vars =>
        [\A s \in Streams, h \in Handlers, x \in Subjects :
            /\ handled[s][h][x] <= handled'[s][h][x]
            /\ s \in NewStreams /\ handled'[s][h][x] # handled[s][h][x]
                  => \A y \in Subjects : handled[s][h][y] < handled'[s][h][x]]_vars
  <2> SUFFICES ASSUME StreamInvariant, [Next]_vars,
                      NEW s \in Streams, NEW h \in Handlers, NEW x \in Subjects
               PROVE  /\ handled[s][h][x] <= handled'[s][h][x]
                      /\ s \in NewStreams /\ handled'[s][h][x] # handled[s][h][x]
                            => \A y \in Subjects : handled[s][h][y] < handled'[s][h][x]
      OBVIOUS
  <2>1. handled[s][h][x] \in Nat
        BY WhatIsKnownOf
  <2>2. CASE handled' = handled
        BY <2>1, <2>2
  <2>3. CASE handled' # handled
    <3>1. Feed!Next
          BY <2>3, FeedStep DEF Feed!feedVars
    <3>2. PICK p \in Streams, g \in Handlers : \E n \in DOMAIN log[p] : Feed!Give(p, g, n)
          BY <2>3, <3>1 DEF Feed!Next, Feed!Publish, Feed!Change, Feed!Streams, Feed!Handlers, Streams
    <3>3. PICK n \in Numbers(p) : Feed!Give(p, g, n)
          BY <3>2, WhatIsKnownOf
    <3>4. QED
          BY <3>3, GivenIsNewer
  <2>4. QED
        BY <2>2, <2>3
<1>2. QED
      BY <1>1, StreamInvariantHolds, PTL DEF Spec, NothingOldAgain
===============================================================================

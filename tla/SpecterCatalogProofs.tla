------------------------- MODULE SpecterCatalogProofs -------------------------
(***************************************************************************)
(* Proofs about SpecterCatalog, for any readers, lists, loads and times:   *)
(* the inductive invariant, the freshness of every read, and that the      *)
(* cache implements LabelContract step by step.                            *)
(***************************************************************************)
EXTENDS SpecterCatalog, TLAPS

USE DEF labelVars, catalogVars, vars

\* The floor of a read called now is a version Specter has held.
LEMMA FloorHeld ==
    ASSUME CatalogInvariant
    PROVE  Floor \in Nat /\ Floor <= version
<1>1. 0 \in 0..MaxTime /\ (now > TimeToLive => now - TimeToLive \in 0..MaxTime)
  BY LabelAssumption DEF CatalogInvariant, TypeOK
<1>2. Oldest(now) \in Nat /\ Oldest(now) <= version
  BY <1>1 DEF Oldest, CatalogInvariant, TypeOK
<1>3. processed \in Nat /\ processed <= version
  BY DEF CatalogInvariant, TypeOK
<1> QED
  BY <1>2, <1>3 DEF Floor

\* What a cached snapshot may answer to a read called now is not below the read's floor.
LEMMA CachedIsAboveFloor ==
    ASSUME CatalogInvariant, ~NeedsLoad
    PROVE  AtLeast(snapshot, Floor)
<1>1. /\ snapshot \in Loads
      /\ AtLeast(snapshot, processed)
      /\ AtLeast(snapshot, asOf[loadedAt])
  BY DEF CatalogInvariant, TypeOK, NeedsLoad
<1>2. /\ now \in 0..MaxTime /\ loadedAt \in 0..MaxTime
      /\ loadedAt <= now /\ now <= loadedAt + TimeToLive
      /\ TimeToLive \in Nat /\ MaxTime \in Nat
  BY LabelAssumption DEF CatalogInvariant, TypeOK, NeedsLoad, Expired
<1>3. asOf \in [0..MaxTime -> Nat] /\ \A s, t \in 0..now : s <= t => asOf[s] <= asOf[t]
  BY DEF CatalogInvariant, TypeOK
<1>4. Oldest(now) \in Nat /\ asOf[loadedAt] \in Nat /\ Oldest(now) <= asOf[loadedAt]
  <2>1. CASE now > TimeToLive
    <3>1. now - TimeToLive \in 0..now /\ loadedAt \in 0..now /\ now - TimeToLive <= loadedAt
      BY <1>2, <2>1
    <3> QED
      BY <1>2, <1>3, <2>1, <3>1 DEF Oldest
  <2>2. CASE ~(now > TimeToLive)
    <3>1. 0 \in 0..now /\ loadedAt \in 0..now /\ 0 <= loadedAt
      BY <1>2
    <3> QED
      BY <1>2, <1>3, <2>2, <3>1 DEF Oldest
  <2> QED
    BY <2>1, <2>2
<1>5. ASSUME NEW p \in Parts
      PROVE  loads[snapshot].got[p] = Unread \/ loads[snapshot].got[p] >= Floor
  <2>1. loads[snapshot].got[p] \in Nat \union {Unread}
    BY <1>1 DEF CatalogInvariant, TypeOK, MayBeUnread
  <2>2. CASE loads[snapshot].got[p] \in Nat
    <3>1. loads[snapshot].got[p] # Unread
      BY <2>2, CatalogAssumption
    <3>2. loads[snapshot].got[p] >= processed /\ loads[snapshot].got[p] >= asOf[loadedAt]
      BY <1>1, <3>1 DEF AtLeast
    <3>3. processed \in Nat
      BY DEF CatalogInvariant, TypeOK
    <3> QED
      BY <1>4, <2>2, <3>2, <3>3 DEF Floor
  <2> QED
    BY <2>1, <2>2
<1> QED
  BY <1>5 DEF AtLeast

-------------------------------------------------------------------------------
\* The type invariant holds at the start.
LEMMA TypeInit == CatalogInit => TypeOK
  BY LabelAssumption, CatalogAssumption
  DEF CatalogInit, Init, TypeOK, Idle, Unstarted, CallStates, LoadStates, Labels, MayBeUnread,
      Waiting

\* Every step keeps the type invariant; that a served read has every list needs the invariant.
LEMMA TypeStep == CatalogInvariant /\ [CatalogNext]_vars => TypeOK'
<1> SUFFICES ASSUME CatalogInvariant, [CatalogNext]_vars
             PROVE  TypeOK'
  OBVIOUS
<1>0. TypeOK
  BY DEF CatalogInvariant
<1>1. CASE ConfigurationChange
  BY <1>0, <1>1 DEF ConfigurationChange, Change, TypeOK, Waiting
<1>2. CASE Invalidate
  BY <1>0, <1>2 DEF Invalidate, Invalidated, LoadsLeftRunning, Process, TypeOK, Waiting
<1>3. CASE EventMissed
  BY <1>0, <1>3 DEF EventMissed, Miss, TypeOK, Waiting
<1>4. CASE ClockTick
  <2>1. now' \in 0..MaxTime /\ asOf' \in [0..MaxTime -> Nat]
    BY <1>0, <1>4, LabelAssumption DEF ClockTick, Tick, TypeOK
  <2> QED
    BY <1>0, <1>4, <2>1 DEF ClockTick, Tick, TypeOK, Waiting
<1>5. ASSUME NEW l \in Loads, NEW p \in Parts, AnswerList(l, p)
      PROVE  TypeOK'
  <2>1. loads' \in [Loads -> [status : LoadStates, got : MayBeUnread]]
    BY <1>0, <1>5 DEF AnswerList, TypeOK, MayBeUnread
  <2> QED
    BY <1>0, <1>5, <2>1 DEF AnswerList, TypeOK, Waiting
<1>6. ASSUME NEW l \in Loads, FinishLoad(l)
      PROVE  TypeOK'
  BY <1>0, <1>6 DEF FinishLoad, TypeOK, Waiting, LoadStates
<1>7. ASSUME NEW l \in Loads, FailLoad(l)
      PROVE  TypeOK'
  BY <1>0, <1>7 DEF FailLoad, DropUnlessNewer, TypeOK, Waiting, LoadStates
<1>8. ASSUME NEW r \in Readers, ReadCached(r)
      PROVE  TypeOK'
  <2>1. snapshot \in Loads
    BY <1>0, <1>8 DEF ReadCached, NeedsLoad, TypeOK
  <2>2. Floor \in Nat
    BY FloorHeld
  <2>3. call' \in [Readers -> [state : CallStates, floor : Nat, got : Labels \union {NoLabels}]]
    BY <1>0, <1>8, <2>2 DEF ReadCached, Call, TypeOK, CallStates
  <2>4. \A s \in Readers : /\ Waiting(s)' => waitsFor'[s] \in Loads
                           /\ call'[s].state = "served" => call'[s].got \in Labels
    BY <1>0, <1>8, <2>1 DEF ReadCached, Call, TypeOK, Waiting
  <2> QED
    BY <1>0, <1>8, <2>1, <2>3, <2>4 DEF ReadCached, Call, TypeOK
<1>9. ASSUME NEW r \in Readers, ReadLoading(r)
      PROVE  TypeOK'
  <2>1. PICK l \in Loads : /\ loads' = [loads EXCEPT ![l] = Started]
                           /\ snapshot' = l
                           /\ waitsFor' = [waitsFor EXCEPT ![r] = l]
    BY <1>9 DEF ReadLoading
  <2>2. Floor \in Nat
    BY FloorHeld
  <2>3. call' \in [Readers -> [state : CallStates, floor : Nat, got : Labels \union {NoLabels}]]
    BY <1>0, <1>9, <2>2 DEF ReadLoading, Call, TypeOK, CallStates
  <2>4. \A s \in Readers : /\ Waiting(s)' => waitsFor'[s] \in Loads
                           /\ call'[s].state = "served" => call'[s].got \in Labels
    BY <1>0, <1>9, <2>1 DEF ReadLoading, Call, TypeOK, Waiting
  <2>5. loads' \in [Loads -> [status : LoadStates, got : MayBeUnread]]
    BY <1>0, <2>1 DEF TypeOK, Started, LoadStates, MayBeUnread
  <2> QED
    BY <1>0, <1>9, <2>1, <2>3, <2>4, <2>5 DEF ReadLoading, Call, TypeOK
<1>10. ASSUME NEW r \in Readers, Labelled(r)
       PROVE  TypeOK'
  <2>1. waitsFor[r] \in Loads
    BY <1>0, <1>10 DEF Labelled, TypeOK
  <2>2. loads[waitsFor[r]].got \in Labels
    <3>1. loads[waitsFor[r]].got \in MayBeUnread
      BY <1>0, <2>1 DEF TypeOK
    <3>2. \A p \in Parts : loads[waitsFor[r]].got[p] # Unread
      BY <1>10, <2>1 DEF Labelled, CatalogInvariant
    <3> QED
      BY <3>1, <3>2 DEF MayBeUnread, Labels
  <2>3. call' \in [Readers -> [state : CallStates, floor : Nat, got : Labels \union {NoLabels}]]
    <3>1. call \in [Readers -> [state : CallStates, floor : Nat, got : Labels \union {NoLabels}]]
      BY <1>0 DEF TypeOK
    <3>2. call' = [call EXCEPT ![r].state = "served", ![r].got = loads[waitsFor[r]].got]
      BY <1>10 DEF Labelled
    <3> QED
      BY <2>2, <3>1, <3>2 DEF CallStates
  <2>4. \A s \in Readers : /\ Waiting(s)' => waitsFor'[s] \in Loads
                           /\ call'[s].state = "served" => call'[s].got \in Labels
    BY <1>0, <1>10, <2>2 DEF Labelled, TypeOK, Waiting
  <2> QED
    BY <1>0, <1>10, <2>3, <2>4 DEF Labelled, TypeOK
<1>11. ASSUME NEW r \in Readers, Unlabelled(r)
       PROVE  TypeOK'
  <2>1. call' \in [Readers -> [state : CallStates, floor : Nat, got : Labels \union {NoLabels}]]
    BY <1>0, <1>11 DEF Unlabelled, GiveUp, TypeOK, CallStates
  <2>2. \A s \in Readers : /\ Waiting(s)' => waitsFor'[s] \in Loads
                           /\ call'[s].state = "served" => call'[s].got \in Labels
    BY <1>0, <1>11 DEF Unlabelled, GiveUp, TypeOK, Waiting
  <2> QED
    BY <1>0, <1>11, <2>1, <2>2 DEF Unlabelled, GiveUp, TypeOK
<1>12. CASE UNCHANGED vars
  BY <1>0, <1>12 DEF TypeOK, Waiting
<1> QED
  BY <1>1, <1>2, <1>3, <1>4, <1>5, <1>6, <1>7, <1>8, <1>9, <1>10, <1>11, <1>12
  DEF CatalogNext, LoadStep, ReaderStep

-------------------------------------------------------------------------------
\* The conjuncts of the inductive invariant besides types, as the steps below use them.
LEMMA InvariantParts ==
    ASSUME CatalogInvariant
    PROVE  /\ version \in Nat /\ delivered \in Nat /\ processed \in Nat
           /\ processed <= delivered /\ delivered <= version
           /\ MaxTime \in Nat /\ now \in 0..MaxTime /\ loadedAt \in 0..MaxTime /\ loadedAt <= now
           /\ asOf \in [0..MaxTime -> Nat]
  BY LabelAssumption DEF CatalogInvariant, TypeOK

\* The catalog's invariant holds before its first snapshot.
LEMMA InvariantInit == CatalogInit => CatalogInvariant
<1> SUFFICES ASSUME CatalogInit
             PROVE  CatalogInvariant
  OBVIOUS
<1>1. TypeOK
  BY TypeInit
<1>2. /\ version = 0 /\ delivered = 0 /\ processed = 0 /\ now = 0 /\ loadedAt = 0
      /\ asOf = [t \in 0..MaxTime |-> 0] /\ 0 \in 0..MaxTime
      /\ snapshot = NoLoad
      /\ \A r \in Readers : call[r].state = "idle" /\ call[r].floor = 0
      /\ \A l \in Loads : loads[l].status = "unused" /\ \A p \in Parts : loads[l].got[p] = Unread
  BY LabelAssumption DEF CatalogInit, Init, Idle, Unstarted
<1> QED
  BY <1>1, <1>2 DEF CatalogInvariant, FailureIsNotCached, Waiting, ReadsAreFresh

\* Steps of Specter, of the event stream and of the clock.
LEMMA OutsideStep ==
    ASSUME CatalogInvariant, TypeOK',
           ConfigurationChange \/ Invalidate \/ EventMissed \/ ClockTick
    PROVE  CatalogInvariant'
<1>1. CASE ConfigurationChange
  <2>1. /\ version' = version + 1
        /\ UNCHANGED <<delivered, processed, now, asOf, call, catalogVars>>
    BY <1>1 DEF ConfigurationChange, Change
  <2>2. \A t \in 0..MaxTime : asOf'[t] <= version'
    BY <2>1, InvariantParts DEF CatalogInvariant
  <2>3. \A r \in Readers : call'[r].floor <= version'
    BY <2>1, InvariantParts DEF CatalogInvariant, TypeOK
  <2>4. ASSUME NEW l \in Loads, NEW p \in Parts
        PROVE  loads'[l].got[p] = Unread \/ loads'[l].got[p] <= version'
    <3>1. loads[l].got[p] \in Nat \union {Unread}
      BY DEF CatalogInvariant, TypeOK, MayBeUnread
    <3> QED
      BY <2>1, <3>1, InvariantParts DEF CatalogInvariant
  <2>5. ReadsAreFresh'
    <3> SUFFICES ASSUME NEW r \in Readers, call[r].state = "served", NEW p \in Parts
                 PROVE  call[r].floor <= call[r].got[p] /\ call[r].got[p] <= version'
      BY <2>1 DEF ReadsAreFresh
    <3>1. call[r].got[p] \in Nat
      BY DEF CatalogInvariant, TypeOK, Labels
    <3> QED
      BY <2>1, <3>1, InvariantParts DEF CatalogInvariant, ReadsAreFresh
  <2> QED
    BY <2>1, <2>2, <2>3, <2>4, <2>5, InvariantParts
    DEF CatalogInvariant, FailureIsNotCached, Waiting, AtLeast
<1>2. CASE Invalidate
  BY <1>2, InvariantParts
  DEF Invalidate, Invalidated, LoadsLeftRunning, Process, CatalogInvariant, FailureIsNotCached,
      Waiting, ReadsAreFresh, AtLeast
<1>3. CASE EventMissed
  BY <1>3, InvariantParts
  DEF EventMissed, Miss, CatalogInvariant, FailureIsNotCached, Waiting, ReadsAreFresh, AtLeast
<1>4. CASE ClockTick
  <2>1. /\ now < MaxTime /\ now' = now + 1 /\ now' \in 0..MaxTime
        /\ asOf' = [asOf EXCEPT ![now'] = version]
        /\ UNCHANGED <<version, delivered, processed, call, catalogVars>>
    BY <1>4, InvariantParts DEF ClockTick, Tick
  <2>2. \A t \in 0..MaxTime : asOf'[t] = IF t = now' THEN version ELSE asOf[t]
    BY <2>1, InvariantParts
  <2>3. \A t \in 0..MaxTime : asOf'[t] <= version
    BY <2>2, InvariantParts DEF CatalogInvariant
  <2>4. ASSUME NEW s \in 0..now', NEW t \in 0..now', s <= t
        PROVE  asOf'[s] <= asOf'[t]
    <3>1. s \in 0..MaxTime /\ t \in 0..MaxTime
      BY <2>1, <2>4, InvariantParts
    <3>2. CASE t = now'
      BY <2>2, <2>3, <3>1, <3>2
    <3>3. CASE t # now'
      <4>1. s \in 0..now /\ t \in 0..now /\ s # now'
        BY <2>1, <2>4, <3>3, InvariantParts
      <4> QED
        BY <2>2, <2>4, <3>1, <3>3, <4>1 DEF CatalogInvariant
    <3> QED
      BY <3>2, <3>3
  <2>5. asOf'[loadedAt'] = asOf[loadedAt] /\ loadedAt' <= now'
    BY <2>1, <2>2, InvariantParts
  <2> QED
    BY <2>1, <2>3, <2>4, <2>5, InvariantParts
    DEF CatalogInvariant, FailureIsNotCached, Waiting, ReadsAreFresh, AtLeast
<1> QED
  BY <1>1, <1>2, <1>3, <1>4

\* Steps of a load.
LEMMA LoadStepKeeps ==
    ASSUME CatalogInvariant, TypeOK', NEW l \in Loads, LoadStep(l)
    PROVE  CatalogInvariant'
<1>0. /\ UNCHANGED labelVars /\ UNCHANGED <<loadedAt, waitsFor>>
      /\ snapshot' = snapshot \/ snapshot' = NoLoad
      /\ loads \in [Loads -> [status : LoadStates, got : MayBeUnread]]
  BY DEF LoadStep, AnswerList, FinishLoad, FailLoad, DropUnlessNewer, CatalogInvariant, TypeOK
<1>1. ASSUME NEW p \in Parts, AnswerList(l, p)
      PROVE  CatalogInvariant'
  <2>1. /\ loads' = [loads EXCEPT ![l].got[p] = version]
        /\ loads[l].status = "loading" /\ snapshot' = snapshot
    BY <1>1 DEF AnswerList, Requested
  <2>2. \A k \in Loads : loads'[k].status = loads[k].status
    BY <1>0, <2>1 DEF LoadStates
  <2>3. \A k \in Loads, q \in Parts :
            loads'[k].got[q] = IF k = l /\ q = p THEN version ELSE loads[k].got[q]
    BY <1>0, <2>1 DEF MayBeUnread
  <2>4. ASSUME NEW k \in Loads, NEW n \in Nat, n <= version, AtLeast(k, n)
        PROVE  AtLeast(k, n)'
    BY <2>3, <2>4, InvariantParts DEF AtLeast
  <2>5. snapshot # NoLoad => AtLeast(snapshot, processed)' /\ AtLeast(snapshot, asOf[loadedAt])'
    <3> SUFFICES ASSUME snapshot # NoLoad
                 PROVE  AtLeast(snapshot, processed)' /\ AtLeast(snapshot, asOf[loadedAt])'
      OBVIOUS
    <3>1. snapshot \in Loads /\ AtLeast(snapshot, processed) /\ AtLeast(snapshot, asOf[loadedAt])
      BY DEF CatalogInvariant, TypeOK
    <3>2. asOf[loadedAt] \in Nat /\ asOf[loadedAt] <= version /\ processed <= version
      BY InvariantParts DEF CatalogInvariant
    <3>3. AtLeast(snapshot, processed)'
      BY <1>0, <2>1, <2>3, <3>1, <3>2, InvariantParts DEF AtLeast
    <3>4. AtLeast(snapshot, asOf[loadedAt])'
      BY <1>0, <2>1, <2>3, <3>1, <3>2, InvariantParts DEF AtLeast
    <3> QED
      BY <3>3, <3>4
  <2>6. ASSUME NEW r \in Readers, Waiting(r)'
        PROVE  AtLeast(waitsFor[r], call[r].floor)'
    <3>1. waitsFor[r] \in Loads /\ AtLeast(waitsFor[r], call[r].floor)
      BY <1>0, <2>6 DEF CatalogInvariant, TypeOK, Waiting
    <3>2. call[r].floor \in Nat /\ call[r].floor <= version
      BY DEF CatalogInvariant, TypeOK
    <3> QED
      BY <1>0, <2>3, <3>1, <3>2, InvariantParts DEF AtLeast
  <2>7. \A k \in Loads : loads'[k].status = "loaded" => \A q \in Parts : loads'[k].got[q] # Unread
    BY <2>1, <2>2, <2>3 DEF CatalogInvariant
  <2>8. \A k \in Loads, q \in Parts : loads'[k].got[q] = Unread \/ loads'[k].got[q] <= version
    BY <2>3, InvariantParts DEF CatalogInvariant
  <2> QED
    BY <1>0, <2>1, <2>2, <2>5, <2>6, <2>7, <2>8
    DEF CatalogInvariant, FailureIsNotCached, ReadsAreFresh, TypeOK
<1>2. CASE FinishLoad(l)
  <2>1. /\ \A k \in Loads : loads'[k].got = loads[k].got
        /\ \A k \in Loads : loads'[k].status = IF k = l THEN "loaded" ELSE loads[k].status
        /\ \A p \in Parts : loads[l].got[p] # Unread
        /\ snapshot' = snapshot
    BY <1>0, <1>2 DEF FinishLoad
  <2> QED
    BY <1>0, <2>1 DEF CatalogInvariant, FailureIsNotCached, Waiting, ReadsAreFresh, AtLeast, TypeOK
<1>3. CASE FailLoad(l)
  <2>1. /\ \A k \in Loads : loads'[k].got = loads[k].got
        /\ \A k \in Loads : loads'[k].status = IF k = l THEN "failed" ELSE loads[k].status
        /\ snapshot' = IF snapshot = l THEN NoLoad ELSE snapshot
    BY <1>0, <1>3 DEF FailLoad, DropUnlessNewer
  <2> QED
    BY <1>0, <2>1 DEF CatalogInvariant, FailureIsNotCached, Waiting, ReadsAreFresh, AtLeast, TypeOK
<1> QED
  BY <1>1, <1>2, <1>3 DEF LoadStep

\* Steps of a caller. The read that starts a load waits for one that has read nothing yet; the
\* read that finds a snapshot waits for one that is above its floor.
LEMMA ReaderStepKeeps ==
    ASSUME CatalogInvariant, TypeOK', NEW r \in Readers, ReaderStep(r)
    PROVE  CatalogInvariant'
<1>0. /\ call \in [Readers -> [state : CallStates, floor : Nat, got : Labels \union {NoLabels}]]
      /\ waitsFor \in [Readers -> Loads \union {NoLoad}]
      /\ loads \in [Loads -> [status : LoadStates, got : MayBeUnread]]
  BY DEF CatalogInvariant, TypeOK
<1>1. CASE ReadCached(r)
  <2>1. /\ UNCHANGED <<version, delivered, processed, now, asOf, snapshot, loadedAt, loads>>
        /\ call' = [call EXCEPT ![r] = [state |-> "waiting", floor |-> Floor, got |-> NoLabels]]
        /\ waitsFor' = [waitsFor EXCEPT ![r] = snapshot]
    BY <1>1 DEF ReadCached, Call
  <2>2. /\ call'[r].state = "waiting" /\ call'[r].floor = Floor /\ waitsFor'[r] = snapshot
        /\ \A s \in Readers \ {r} : call'[s] = call[s] /\ waitsFor'[s] = waitsFor[s]
    BY <1>0, <2>1
  <2>3. AtLeast(snapshot, Floor) /\ Floor <= version
    BY <1>1, CachedIsAboveFloor, FloorHeld DEF ReadCached
  <2>4. \A s \in Readers : Waiting(s)' => AtLeast(waitsFor[s], call[s].floor)'
    BY <2>1, <2>2, <2>3 DEF CatalogInvariant, Waiting, AtLeast
  <2> QED
    BY <2>1, <2>2, <2>3, <2>4 DEF CatalogInvariant, FailureIsNotCached, ReadsAreFresh, AtLeast
<1>2. CASE ReadLoading(r)
  <2>1. PICK l \in Loads : /\ Forgotten(l)
                           /\ loads' = [loads EXCEPT ![l] = Started]
                           /\ snapshot' = l
                           /\ waitsFor' = [waitsFor EXCEPT ![r] = l]
    BY <1>2 DEF ReadLoading
  <2>2. /\ UNCHANGED <<version, delivered, processed, now, asOf>> /\ loadedAt' = now
        /\ call' = [call EXCEPT ![r] = [state |-> "waiting", floor |-> Floor, got |-> NoLabels]]
    BY <1>2 DEF ReadLoading, Call
  <2>3. /\ call'[r].state = "waiting" /\ call'[r].floor = Floor /\ waitsFor'[r] = l
        /\ \A s \in Readers \ {r} : call'[s] = call[s] /\ waitsFor'[s] = waitsFor[s]
    BY <1>0, <2>1, <2>2
  <2>4. /\ loads'[l].status = "loading" /\ \A p \in Parts : loads'[l].got[p] = Unread
        /\ \A k \in Loads \ {l} : loads'[k] = loads[k]
    BY <1>0, <2>1 DEF Started
  <2>5. \A s \in Readers \ {r} : Waiting(s) => waitsFor[s] # l
    BY <2>1 DEF Forgotten
  <2>6. \A s \in Readers : Waiting(s)' => AtLeast(waitsFor[s], call[s].floor)'
    <3> SUFFICES ASSUME NEW s \in Readers, Waiting(s)'
                 PROVE  AtLeast(waitsFor[s], call[s].floor)'
      OBVIOUS
    <3>1. CASE s = r
      BY <2>3, <2>4, <3>1 DEF AtLeast
    <3>2. CASE s # r
      <4>1. Waiting(s) /\ waitsFor[s] \in Loads \ {l}
        BY <2>3, <2>5, <3>2 DEF CatalogInvariant, TypeOK, Waiting
      <4> QED
        BY <2>3, <2>4, <3>2, <4>1 DEF CatalogInvariant, AtLeast
    <3> QED
      BY <3>1, <3>2
  <2>7. Floor <= version
    BY FloorHeld
  <2> QED
    BY <2>1, <2>2, <2>3, <2>4, <2>6, <2>7, InvariantParts
    DEF CatalogInvariant, FailureIsNotCached, ReadsAreFresh, AtLeast
<1>3. CASE Labelled(r)
  <2>1. /\ UNCHANGED <<version, delivered, processed, now, asOf, snapshot, loadedAt, loads, waitsFor>>
        /\ Waiting(r) /\ loads[waitsFor[r]].status = "loaded"
        /\ call' = [call EXCEPT ![r].state = "served", ![r].got = loads[waitsFor[r]].got]
    BY <1>3 DEF Labelled
  <2>2. /\ call'[r].state = "served" /\ call'[r].floor = call[r].floor
        /\ call'[r].got = loads[waitsFor[r]].got
        /\ \A s \in Readers \ {r} : call'[s] = call[s]
    BY <1>0, <2>1
  <2>3. waitsFor[r] \in Loads
    BY <2>1 DEF CatalogInvariant, TypeOK
  <2>4. \A p \in Parts : call[r].floor <= call'[r].got[p] /\ call'[r].got[p] <= version
    <3> SUFFICES ASSUME NEW p \in Parts
                 PROVE  call[r].floor <= call'[r].got[p] /\ call'[r].got[p] <= version
      OBVIOUS
    <3>1. loads[waitsFor[r]].got[p] # Unread
      BY <2>1, <2>3 DEF CatalogInvariant
    <3>2. loads[waitsFor[r]].got[p] >= call[r].floor /\ loads[waitsFor[r]].got[p] <= version
      BY <2>1, <2>3, <3>1 DEF CatalogInvariant, AtLeast
    <3>3. loads[waitsFor[r]].got[p] \in Nat /\ call[r].floor \in Nat
      BY <1>0, <2>3, <3>1 DEF MayBeUnread
    <3> QED
      BY <2>2, <3>2, <3>3
  <2> QED
    BY <2>1, <2>2, <2>4 DEF CatalogInvariant, FailureIsNotCached, ReadsAreFresh, AtLeast, Waiting
<1>4. CASE Unlabelled(r)
  <2>1. /\ UNCHANGED <<version, delivered, processed, now, asOf, snapshot, loadedAt, loads, waitsFor>>
        /\ call' = [call EXCEPT ![r].state = "unlabelled"]
    BY <1>4 DEF Unlabelled, GiveUp
  <2>2. /\ call'[r].state = "unlabelled" /\ call'[r].floor = call[r].floor
        /\ \A s \in Readers \ {r} : call'[s] = call[s]
    BY <1>0, <2>1
  <2> QED
    BY <2>1, <2>2 DEF CatalogInvariant, FailureIsNotCached, ReadsAreFresh, AtLeast, Waiting
<1> QED
  BY <1>1, <1>2, <1>3, <1>4 DEF ReaderStep

\* Every step of a caller, of Specter and of the clock keeps the catalog's invariant.
LEMMA InvariantStep == CatalogInvariant /\ [CatalogNext]_vars => CatalogInvariant'
<1> SUFFICES ASSUME CatalogInvariant, [CatalogNext]_vars
             PROVE  CatalogInvariant'
  OBVIOUS
<1>1. TypeOK'
  BY TypeStep
<1>2. CASE CatalogNext
  BY <1>1, <1>2, OutsideStep, LoadStepKeeps, ReaderStepKeeps DEF CatalogNext
<1>3. CASE UNCHANGED vars
  BY <1>1, <1>3 DEF CatalogInvariant, FailureIsNotCached, Waiting, ReadsAreFresh, AtLeast
<1> QED
  BY <1>2, <1>3

-------------------------------------------------------------------------------
\* The inductive invariant holds in every reachable state of the cache.
THEOREM InvariantHolds == CatalogSafety => []CatalogInvariant
  BY InvariantInit, InvariantStep, PTL DEF CatalogSafety

\* The cache, the loads in flight and their callers always have the types of the code.
THEOREM CatalogTypes == CatalogSafety => []TypeOK
<1>1. CatalogInvariant => TypeOK
  BY DEF CatalogInvariant
<1> QED
  BY <1>1, InvariantHolds, PTL

\* No read, however its load raced events, failures and other loads, returns a list older than
\* the last event processed before the call or older than the time to live.
THEOREM FreshReads == CatalogSafety => []ReadsAreFresh
<1>1. CatalogInvariant => ReadsAreFresh
  BY DEF CatalogInvariant
<1> QED
  BY <1>1, InvariantHolds, PTL

\* The cached promise is never one that has failed.
THEOREM FailedLoadsAreRetried == CatalogSafety => []FailureIsNotCached
<1>1. CatalogInvariant => FailureIsNotCached
  BY DEF CatalogInvariant
<1> QED
  BY <1>1, InvariantHolds, PTL

\* The failure of a superseded load never takes the newer snapshot away.
THEOREM NewerSnapshotSpared == CatalogSafety => OldFailureSparesNewer
<1>1. ASSUME CatalogInvariant, [CatalogNext]_vars, NEW l \in Loads,
             loads[l].status = "loading", loads'[l].status = "failed", snapshot # l
      PROVE  snapshot' = snapshot
  <2>1. loads \in [Loads -> [status : LoadStates, got : MayBeUnread]]
    BY <1>1 DEF CatalogInvariant, TypeOK
  <2>2. CASE \E k \in Loads : FailLoad(k)
    <3>1. PICK k \in Loads : FailLoad(k)
      BY <2>2
    <3>2. k # l => loads'[l] = loads[l]
      BY <2>1, <3>1 DEF FailLoad
    <3> QED
      BY <1>1, <3>1, <3>2 DEF FailLoad, DropUnlessNewer
  <2>3. CASE \E k \in Loads : FinishLoad(k) \/ \E p \in Parts : AnswerList(k, p)
    BY <1>1, <2>3 DEF FinishLoad, AnswerList
  <2>4. CASE \E r \in Readers : ReadLoading(r)
    <3>1. PICK k \in Loads : loads' = [loads EXCEPT ![k] = Started]
      BY <2>4 DEF ReadLoading
    <3>2. loads'[l].status # "failed"
      BY <1>1, <2>1, <3>1 DEF Started
    <3> QED
      BY <1>1, <3>2
  <2>5. CASE loads' = loads
    BY <1>1, <2>5
  <2> QED
    BY <1>1, <2>2, <2>3, <2>4, <2>5
    DEF CatalogNext, ConfigurationChange, Invalidate, LoadsLeftRunning, EventMissed, ClockTick,
        LoadStep, ReaderStep, ReadCached, Labelled, Unlabelled
<1>2. CatalogInvariant /\ [CatalogNext]_vars =>
          [\A l \in Loads :
             loads[l].status = "loading" /\ loads'[l].status = "failed" /\ snapshot # l
                 => snapshot' = snapshot]_vars
  BY <1>1
<1> QED
  BY <1>2, InvariantHolds, PTL DEF CatalogSafety, OldFailureSparesNewer

\* The cache implements the contract: every step of the code is a step that the contract
\* allows, or none that its callers can see.
THEOREM ImplementsContract == CatalogSafety => KeepsContract
<1>1. CatalogInit => Init
  BY DEF CatalogInit
<1>2. CatalogInvariant /\ [CatalogNext]_vars => [Next]_labelVars
  <2> SUFFICES ASSUME CatalogInvariant, [CatalogNext]_vars
               PROVE  [Next]_labelVars
    OBVIOUS
  <2>1. ASSUME NEW r \in Readers, Labelled(r)
        PROVE  Serve(r)
    <3>1. waitsFor[r] \in Loads
      BY <2>1 DEF Labelled, CatalogInvariant, TypeOK
    <3>2. loads[waitsFor[r]].got \in [Parts -> call[r].floor..version]
      <4>1. loads[waitsFor[r]].got \in MayBeUnread
        BY <3>1 DEF CatalogInvariant, TypeOK
      <4>2. \A p \in Parts : /\ loads[waitsFor[r]].got[p] # Unread
                             /\ loads[waitsFor[r]].got[p] >= call[r].floor
                             /\ loads[waitsFor[r]].got[p] <= version
        BY <2>1, <3>1 DEF Labelled, CatalogInvariant, AtLeast
      <4>3. call[r].floor \in Nat /\ version \in Nat
        BY DEF CatalogInvariant, TypeOK
      <4>4. \A p \in Parts : loads[waitsFor[r]].got[p] \in call[r].floor..version
        BY <4>1, <4>2, <4>3 DEF MayBeUnread
      <4> QED
        BY <4>1, <4>4 DEF MayBeUnread
    <3> QED
      BY <2>1, <3>2 DEF Labelled, Serve, Waiting
  <2>2. ASSUME NEW r \in Readers, ReaderStep(r)
        PROVE  Next
    BY <2>1, <2>2 DEF ReaderStep, ReadCached, ReadLoading, Unlabelled, Next
  <2>3. ASSUME NEW l \in Loads, LoadStep(l)
        PROVE  UNCHANGED labelVars
    BY <2>3 DEF LoadStep, AnswerList, FinishLoad, FailLoad
  <2> QED
    BY <2>2, <2>3 DEF CatalogNext, ConfigurationChange, Invalidate, EventMissed, ClockTick, Next
<1> QED
  BY <1>1, <1>2, InvariantHolds, PTL DEF CatalogSafety, KeepsContract, Spec
===============================================================================

---------------------------- MODULE SpecterCatalog ----------------------------
(***************************************************************************)
(* src/src/specter/specterCatalog.ts: the cache of names that labels       *)
(* alerts and notifications. One promise is shared by every caller while   *)
(* it is loading and reused afterwards; configuration.changed events drop  *)
(* it, a failed load drops itself, and it expires.                         *)
(*                                                                         *)
(* Each await of the code ends an action: read() up to its return of the   *)
(* promise is one action, each answer of Specter another. A superseded     *)
(* load goes on in the background, and its callers still get its result.   *)
(* The variables shared with LabelContract describe Specter (version), the *)
(* event stream (delivered, processed), the clock and the callers.         *)
(***************************************************************************)
EXTENDS LabelContract

CONSTANTS
    ListParts,    \* the lists requested at once: cameras and watchlists
    Loads,        \* bound: the calls of load() that fa remembers at a time
    NoLoad,       \* null
    Unread,       \* a list Specter has not answered yet
    MaxVersion    \* bound: the changes made in Specter

ASSUME CatalogAssumption ==
    /\ ListParts \subseteq Parts
    /\ NoLoad \notin Loads
    /\ Unread \notin Nat
    /\ MaxVersion \in Nat

VARIABLES
    snapshot,     \* this.snapshot: the load whose promise is cached, or NoLoad
    loadedAt,     \* this.loadedAtMs
    loads,        \* the calls of load() and what each has read
    waitsFor      \* waitsFor[r]: the load whose promise r awaits

catalogVars == <<snapshot, loadedAt, loads, waitsFor>>
vars == <<labelVars, catalogVars>>

LoadStates == {"unused", "loading", "loaded", "failed"}

Unstarted == [status |-> "unused", got |-> [p \in Parts |-> Unread]]
Started == [status |-> "loading", got |-> [p \in Parts |-> Unread]]

Waiting(r) == call[r].state = "waiting"

\* A load that nothing refers to any more, so its identity can stand for a new one.
Forgotten(l) ==
    /\ l # snapshot
    /\ loads[l].status # "loading"
    /\ \A r \in Readers : ~(Waiting(r) /\ waitsFor[r] = l)

CatalogInit ==
    /\ Init
    /\ snapshot = NoLoad
    /\ loadedAt = 0
    /\ loads = [l \in Loads |-> Unstarted]
    /\ waitsFor = [r \in Readers |-> NoLoad]

-------------------------------------------------------------------------------
(* Specter and the clock. *)

ConfigurationChange ==
    /\ version < MaxVersion
    /\ Change
    /\ UNCHANGED catalogVars

EventMissed ==
    /\ Miss
    /\ UNCHANGED catalogVars

ClockTick ==
    /\ Tick
    /\ UNCHANGED catalogVars

-------------------------------------------------------------------------------
(* invalidate(), called for every configuration_changed event. A load in   *)
(* flight is dropped too: what it has read may be from before the change.  *)

InvalidateOnlySettled ==
    snapshot' = IF snapshot # NoLoad /\ loads[snapshot].status = "loading" THEN snapshot ELSE NoLoad

Invalidated == snapshot' = NoLoad

AbortedLoads ==
    loads' = IF snapshot # NoLoad /\ loads[snapshot].status = "loading"
                 THEN [loads EXCEPT ![snapshot] = Unstarted]
                 ELSE loads

LoadsLeftRunning == loads' = loads

Invalidate ==
    /\ Process
    /\ Invalidated
    /\ LoadsLeftRunning
    /\ UNCHANGED <<loadedAt, waitsFor>>

-------------------------------------------------------------------------------
(* read() *)

ExpiredLate == now > loadedAt + TimeToLive + 1
Expired == now > loadedAt + TimeToLive

NeedsLoadWhenExpired == Expired
NeedsLoad == snapshot = NoLoad \/ Expired

\* The catalog that read() returns is the promise cached at that moment.
ReadCached(r) ==
    /\ ~NeedsLoad
    /\ Call(r)
    /\ waitsFor' = [waitsFor EXCEPT ![r] = snapshot]
    /\ UNCHANGED <<snapshot, loadedAt, loads>>

ReadLoading(r) ==
    /\ NeedsLoad
    /\ Call(r)
    /\ \E l \in Loads :
           /\ Forgotten(l)
           /\ loads' = [loads EXCEPT ![l] = Started]
           /\ snapshot' = l
           /\ waitsFor' = [waitsFor EXCEPT ![r] = l]
    /\ loadedAt' = now

-------------------------------------------------------------------------------
(* load() *)

Requested(l, p) ==
    /\ loads[l].status = "loading"
    /\ loads[l].got[p] = Unread
    /\ p \in ListParts \/ \A q \in ListParts : loads[l].got[q] # Unread

\* Specter reads one list for its answer.
AnswerList(l, p) ==
    /\ Requested(l, p)
    /\ loads' = [loads EXCEPT ![l].got[p] = version]
    /\ UNCHANGED <<labelVars, snapshot, loadedAt, waitsFor>>

FinishLoad(l) ==
    /\ loads[l].status = "loading"
    /\ \A p \in Parts : loads[l].got[p] # Unread
    /\ loads' = [loads EXCEPT ![l].status = "loaded"]
    /\ UNCHANGED <<labelVars, snapshot, loadedAt, waitsFor>>

KeepFailed(l) == snapshot
DropAlways(l) == NoLoad
DropUnlessNewer(l) == IF snapshot = l THEN NoLoad ELSE snapshot

\* A request of the load fails or times out: so does the whole load.
FailLoad(l) ==
    /\ loads[l].status = "loading"
    /\ loads' = [loads EXCEPT ![l].status = "failed"]
    /\ snapshot' = DropUnlessNewer(l)
    /\ UNCHANGED <<labelVars, loadedAt, waitsFor>>

-------------------------------------------------------------------------------
(* The caller's await of the promise ends. *)

Labelled(r) ==
    /\ Waiting(r)
    /\ loads[waitsFor[r]].status = "loaded"
    /\ call' = [call EXCEPT ![r].state = "served", ![r].got = loads[waitsFor[r]].got]
    /\ UNCHANGED <<version, delivered, processed, now, asOf, catalogVars>>

\* SpecterEventRelay.readCatalog and AlertService.readCatalog go on without names.
Unlabelled(r) ==
    /\ Waiting(r)
    /\ loads[waitsFor[r]].status = "failed"
    /\ GiveUp(r)
    /\ UNCHANGED catalogVars

-------------------------------------------------------------------------------
LoadStep(l) ==
    \/ \E p \in Parts : AnswerList(l, p)
    \/ FinishLoad(l)
    \/ FailLoad(l)

ReaderStep(r) ==
    \/ ReadCached(r)
    \/ ReadLoading(r)
    \/ Labelled(r)
    \/ Unlabelled(r)

CatalogNext ==
    \/ ConfigurationChange
    \/ Invalidate
    \/ EventMissed
    \/ ClockTick
    \/ \E l \in Loads : LoadStep(l)
    \/ \E r \in Readers : ReaderStep(r)

\* Every request ends by itself: SpecterHttpClient aborts it after its timeout.
Fairness ==
    /\ \A l \in Loads : WF_vars(LoadStep(l))
    /\ \A r \in Readers : WF_vars(Labelled(r) \/ Unlabelled(r))

CatalogSafety == CatalogInit /\ [][CatalogNext]_vars
CatalogSpec == CatalogSafety /\ Fairness

-------------------------------------------------------------------------------
Labels == [Parts -> Nat]
MayBeUnread == [Parts -> Nat \union {Unread}]

\* Type correctness of the cache, of the loads in flight and of their callers.
TypeOK ==
    /\ version \in Nat
    /\ delivered \in Nat
    /\ processed \in Nat
    /\ now \in 0..MaxTime
    /\ asOf \in [0..MaxTime -> Nat]
    /\ call \in [Readers -> [state : CallStates, floor : Nat, got : Labels \union {NoLabels}]]
    /\ snapshot \in Loads \union {NoLoad}
    /\ loadedAt \in 0..MaxTime
    /\ loads \in [Loads -> [status : LoadStates, got : MayBeUnread]]
    /\ waitsFor \in [Readers -> Loads \union {NoLoad}]
    /\ \A r \in Readers :
           /\ Waiting(r) => waitsFor[r] \in Loads
           /\ call[r].state = "served" => call[r].got \in Labels

\* Whatever loads are in flight when an event is processed, and however late they end, a read
\* called after the event never gets a list from before it, and a read never gets a list older
\* than the time to live when the event was missed (specterCatalog.ts:4).
ReadsAreFresh ==
    \A r \in Readers : call[r].state = "served" =>
        \A p \in Parts : call[r].floor <= call[r].got[p] /\ call[r].got[p] <= version

\* A failed load is never cached, so the next caller tries again (specterCatalog.ts:32), also
\* when loads overlap: the cached promise is always one that is loading or has loaded.
FailureIsNotCached ==
    snapshot # NoLoad => loads[snapshot].status \in {"loading", "loaded"}

\* The failure of a load that was superseded leaves the newer snapshot in place, whoever awaits it.
OldFailureSparesNewer ==
    [][\A l \in Loads :
          loads[l].status = "loading" /\ loads'[l].status = "failed" /\ snapshot # l
              => snapshot' = snapshot]_vars

\* Every list that load l has read so far is of version n or later.
AtLeast(l, n) ==
    \A p \in Parts : loads[l].got[p] = Unread \/ loads[l].got[p] >= n

\* The inductive invariant behind ReadsAreFresh: what the cached load has read, and may still
\* read, is at least as new as the last processed event and as Specter was when it started.
CatalogInvariant ==
    /\ TypeOK
    /\ processed <= delivered /\ delivered <= version
    /\ \A t \in 0..MaxTime : asOf[t] <= version
    /\ \A s, t \in 0..now : s <= t => asOf[s] <= asOf[t]
    /\ loadedAt <= now
    /\ FailureIsNotCached
    /\ snapshot # NoLoad => AtLeast(snapshot, processed) /\ AtLeast(snapshot, asOf[loadedAt])
    /\ \A r \in Readers : Waiting(r) => AtLeast(waitsFor[r], call[r].floor)
    /\ \A r \in Readers : call[r].floor <= version
    /\ \A l \in Loads : loads[l].status = "loaded" => \A p \in Parts : loads[l].got[p] # Unread
    /\ \A l \in Loads, p \in Parts : loads[l].got[p] = Unread \/ loads[l].got[p] <= version
    /\ ReadsAreFresh

\* Every read ends, with labels or without, even when its load was invalidated meanwhile.
ReadsEnd == \A r \in Readers : Waiting(r) ~> ~Waiting(r)

\* The cache implements the contract: same callers, same events, same clock.
KeepsContract == Spec
===============================================================================

---------------------------- MODULE LabelContract ----------------------------
(***************************************************************************)
(* What SpecterCatalog promises to the code that labels alerts and         *)
(* notifications, without saying how: a read ends, with the labels of the  *)
(* owner's configuration or with none, and labels are never older than     *)
(*   - the last configuration.changed event fa had processed when the read *)
(*     was called, nor                                                     *)
(*   - what Specter held one time-to-live before the read was called.      *)
(*                                                                         *)
(* Specter's configuration is a version number: every change of a camera,  *)
(* a watchlist or a target makes the next version and publishes one event. *)
(* Events reach fa in order, and may be missed.                            *)
(***************************************************************************)
EXTENDS Naturals

CONSTANTS
    Readers,      \* calls of read(): event handlers and HTTP requests
    Parts,        \* the lists a snapshot is made of
    TimeToLive,   \* how long a snapshot is used when no event arrives
    MaxTime,      \* bound: the clock stops there
    NoLabels      \* the empty catalog a caller falls back to

ASSUME LabelAssumption ==
    /\ TimeToLive \in Nat
    /\ MaxTime \in Nat
    /\ NoLabels \notin [Parts -> Nat]

VARIABLES
    version,      \* Specter's configuration
    delivered,    \* the last event that fa processed or missed
    processed,    \* the last event that fa processed
    now,          \* fa's clock
    asOf,         \* asOf[t]: the version Specter held when the clock reached t
    call          \* call[r]: the state of a read and what it returned

labelVars == <<version, delivered, processed, now, asOf, call>>

CallStates == {"idle", "waiting", "served", "unlabelled"}

Idle == [state |-> "idle", floor |-> 0, got |-> NoLabels]

\* The oldest version a read called now may return.
Oldest(t) == IF t > TimeToLive THEN asOf[t - TimeToLive] ELSE asOf[0]
Floor == IF processed > Oldest(now) THEN processed ELSE Oldest(now)

Init ==
    /\ version = 0
    /\ delivered = 0
    /\ processed = 0
    /\ now = 0
    /\ asOf = [t \in 0..MaxTime |-> 0]
    /\ call = [r \in Readers |-> Idle]

Change ==
    /\ version' = version + 1
    /\ UNCHANGED <<delivered, processed, now, asOf, call>>

Process ==
    /\ delivered < version
    /\ delivered' = delivered + 1
    /\ processed' = delivered'
    /\ UNCHANGED <<version, now, asOf, call>>

Miss ==
    /\ delivered < version
    /\ delivered' = delivered + 1
    /\ UNCHANGED <<version, processed, now, asOf, call>>

Tick ==
    /\ now < MaxTime
    /\ now' = now + 1
    /\ asOf' = [asOf EXCEPT ![now + 1] = version]
    /\ UNCHANGED <<version, delivered, processed, call>>

Call(r) ==
    /\ call[r].state # "waiting"
    /\ call' = [call EXCEPT ![r] = [state |-> "waiting", floor |-> Floor, got |-> NoLabels]]
    /\ UNCHANGED <<version, delivered, processed, now, asOf>>

\* Any mixture of versions between the floor and the present: the lists are read one by one.
Serve(r) ==
    /\ call[r].state = "waiting"
    /\ \E labels \in [Parts -> call[r].floor..version] :
           call' = [call EXCEPT ![r].state = "served", ![r].got = labels]
    /\ UNCHANGED <<version, delivered, processed, now, asOf>>

GiveUp(r) ==
    /\ call[r].state = "waiting"
    /\ call' = [call EXCEPT ![r].state = "unlabelled"]
    /\ UNCHANGED <<version, delivered, processed, now, asOf>>

Next ==
    \/ Change
    \/ Process
    \/ Miss
    \/ Tick
    \/ \E r \in Readers : Call(r) \/ Serve(r) \/ GiveUp(r)

Spec == Init /\ [][Next]_labelVars

-------------------------------------------------------------------------------
\* The inductive invariant of the contract: what Specter held at any time is no newer than what it
\* holds, events come after their changes, and a read is given versions from its floor on.
LabelInvariant ==
    /\ version \in Nat /\ delivered \in 0..version /\ processed \in 0..delivered
    /\ now \in 0..MaxTime
    /\ asOf \in [0..MaxTime -> 0..version]
    /\ call \in [Readers -> [state : CallStates, floor : 0..version,
                             got : [Parts -> 0..version] \union {NoLabels}]]
    /\ \A r \in Readers :
          call[r].state = "served" => call[r].got \in [Parts -> call[r].floor..version]
==============================================================================

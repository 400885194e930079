-------------------------- MODULE NotificationsProofs --------------------------
(***************************************************************************)
(* Proofs about Notifications, for any wrong values in any number of       *)
(* fields, any bound of the clock and of the changes: what passes the      *)
(* parser is typed, notifications keep their shape and agree with the API, *)
(* and a match is critical when its watchlist is a blacklist.              *)
(***************************************************************************)
EXTENDS Notifications, SequenceTheorems, TLAPS

USE DEF labelVars, vars

-------------------------------------------------------------------------------
(* The parser. *)

\* The kinds of the contract.
LEMMA KindsAre ==
    Kinds = {"match_confirmed", "rule_triggered", "camera_status_changed",
             "enrollment_status_changed", "configuration_changed"}
  BY DEF Kinds, Schema

\* A subject belongs to at most one kind of the contract.
LEMMA KindOfSubject ==
    ASSUME NEW subject, NEW kind \in KindsOfSubject(subject)
    PROVE  kind \in Kinds /\ KindsOfSubject(subject) = {kind}
  BY KindsAre DEF KindsOfSubject, KIND_BY_SUBJECT_EVENT, CameraEvents, OwnerEvents

\* Every kind has a subject.
LEMMA SubjectOfKind ==
    ASSUME NEW kind \in Kinds
    PROVE  KindsOfSubject(SubjectOf(kind)) = {kind}
<1> DEFINE Subjects == [scope : {"camera", "owner"}, event : CameraEvents \union OwnerEvents]
<1>1. \E s \in Subjects : KindsOfSubject(s) = {kind}
  <2>1. CASE kind = "match_confirmed"
    <3>1. [scope |-> "camera", event |-> "match_confirmed"] \in Subjects
      BY DEF CameraEvents, OwnerEvents
    <3> QED
      BY <2>1, <3>1 DEF KindsOfSubject, KIND_BY_SUBJECT_EVENT, CameraEvents, OwnerEvents
  <2>2. CASE kind = "rule_triggered"
    <3>1. [scope |-> "camera", event |-> "rule_triggered"] \in Subjects
      BY DEF CameraEvents, OwnerEvents
    <3> QED
      BY <2>2, <3>1 DEF KindsOfSubject, KIND_BY_SUBJECT_EVENT, CameraEvents, OwnerEvents
  <2>3. CASE kind = "camera_status_changed"
    <3>1. [scope |-> "camera", event |-> "status_changed"] \in Subjects
      BY DEF CameraEvents, OwnerEvents
    <3> QED
      BY <2>3, <3>1 DEF KindsOfSubject, KIND_BY_SUBJECT_EVENT, CameraEvents, OwnerEvents
  <2>4. CASE kind = "enrollment_status_changed"
    <3>1. [scope |-> "owner", event |-> "enrollment.status_changed"] \in Subjects
      BY DEF CameraEvents, OwnerEvents
    <3> QED
      BY <2>4, <3>1 DEF KindsOfSubject, KIND_BY_SUBJECT_EVENT, CameraEvents, OwnerEvents
  <2>5. CASE kind = "configuration_changed"
    <3>1. [scope |-> "owner", event |-> "configuration.changed"] \in Subjects
      BY DEF CameraEvents, OwnerEvents
    <3> QED
      BY <2>5, <3>1 DEF KindsOfSubject, KIND_BY_SUBJECT_EVENT, CameraEvents, OwnerEvents
  <2> QED
    BY <2>1, <2>2, <2>3, <2>4, <2>5, KindsAre
<1> QED
  BY <1>1 DEF SubjectOf

\* A message as the code after the parser gets it: known fields only, none of the required ones
\* missing, each with a value of its schema.
Conforms(kind, message) ==
    /\ DOMAIN message \subseteq Fields(kind)
    /\ Fields(kind) \ Optional[kind] \subseteq DOMAIN message
    /\ \A f \in DOMAIN message : message[f] \in Schema[kind][f]

\* What is not rejected is of a kind of the contract, conforms to its schema, and has a version that
\* fa supports.
LEMMA ParsedConforms ==
    ASSUME NEW subject, NEW message, Parse(subject, message) # Rejected
    PROVE  \E kind \in Kinds :
               /\ kind \in KindsOfSubject(subject)
               /\ Parse(subject, message) = [kind |-> kind, message |-> Restricted(message, Fields(kind))]
               /\ Conforms(kind, Restricted(message, Fields(kind)))
               /\ IsSupported(SchemaVersion(message))
<1>1. PICK kind \in KindsOfSubject(subject) :
          IsSupported(SchemaVersion(message)) /\ Validates(kind, message)
  BY DEF Parse
<1>2. kind \in Kinds /\ KindsOfSubject(subject) = {kind}
  BY KindOfSubject
<1>3. Parse(subject, message) = [kind |-> kind, message |-> Restricted(message, Fields(kind))]
  BY <1>1, <1>2 DEF Parse
<1>4. Conforms(kind, Restricted(message, Fields(kind)))
  BY <1>1 DEF Validates, Conforms, Restricted
<1> QED
  BY <1>1, <1>2, <1>3, <1>4

\* A version is a field of every kind, and an optional one.
LEMMA VersionIsAField ==
    ASSUME NEW kind \in Kinds
    PROVE  "schema_version" \in Fields(kind)
  BY KindsAre DEF Fields, Schema, MatchConfirmed, RuleTriggered, CameraStatusChanged,
     EnrollmentStatusChanged, ConfigurationChanged

\* The sets of values that the schemas are made of, but for null.
ValueSets == {Text, Ratio, Count, Amount, Time, MessageBoundingBox, EmbeddingModality, CrossingDirection,
              RuleKind, CameraStatus, RejectionReason, ImageStatus, ChangeKind, EntityKind}

\* None of them has null, and each has a value that is not empty.
LEMMA ValuesAreNotNull ==
    ASSUME NEW values \in ValueSets
    PROVE  "null" \notin values /\ \E value \in values : value \notin Null \union {""}
<1>1. CASE values = Text
  <2>1. "null" \notin Text
    BY DEF Text, Ids, Versions, Time, EmbeddingModality, CrossingDirection, RuleKind, CameraStatus,
       RejectionReason, ImageStatus, ChangeKind, EntityKind
  <2>2. "text" \in Text
    BY DEF Text
  <2> QED
    BY <1>1, <2>1, <2>2 DEF Null
<1>2. CASE values = Ratio
  BY <1>2 DEF Ratio, Null
<1>3. CASE values = Count
  BY <1>3 DEF Count, Null
<1>4. CASE values = Amount
  BY <1>4 DEF Amount, Null
<1>5. CASE values = Time
  BY <1>5 DEF Time, Null
<1>6. CASE values = MessageBoundingBox
  BY <1>6 DEF MessageBoundingBox, Null
<1>7. CASE values = EmbeddingModality
  BY <1>7 DEF EmbeddingModality, Null
<1>8. CASE values = CrossingDirection
  BY <1>8 DEF CrossingDirection, Null
<1>9. CASE values = RuleKind
  BY <1>9 DEF RuleKind, Null
<1>10. CASE values = CameraStatus
  BY <1>10 DEF CameraStatus, Null
<1>11. CASE values = RejectionReason
  BY <1>11 DEF RejectionReason, Null
<1>12. CASE values = ImageStatus
  BY <1>12 DEF ImageStatus, Null
<1>13. CASE values = ChangeKind
  BY <1>13 DEF ChangeKind, Null
<1>14. CASE values = EntityKind
  BY <1>14 DEF EntityKind, Null
<1> QED
  BY <1>1, <1>2, <1>3, <1>4, <1>5, <1>6, <1>7, <1>8, <1>9, <1>10, <1>11, <1>12, <1>13, <1>14
  DEF ValueSets

\* In particular, of the sets that the schemas allow no null beside:
LEMMA NeverNull ==
    /\ "null" \notin Text /\ "null" \notin Ratio /\ "null" \notin Count /\ "null" \notin Time
    /\ "null" \notin MessageBoundingBox /\ "null" \notin EmbeddingModality
    /\ "null" \notin RuleKind /\ "null" \notin CameraStatus /\ "null" \notin ImageStatus
    /\ "null" \notin ChangeKind /\ "null" \notin EntityKind
  BY ValuesAreNotNull DEF ValueSets

\* A field of a schema has the values of one of the sets, or also null.
LEMMA SchemaValues ==
    ASSUME NEW kind \in Kinds, NEW f \in Fields(kind)
    PROVE  \E values \in ValueSets : Schema[kind][f] \in {values, values \union Null}
<1>1. CASE kind = "match_confirmed"
  BY <1>1 DEF ValueSets, Fields, Schema, MatchConfirmed
<1>2. CASE kind = "rule_triggered"
  BY <1>2 DEF ValueSets, Fields, Schema, RuleTriggered
<1>3. CASE kind = "camera_status_changed"
  BY <1>3 DEF ValueSets, Fields, Schema, CameraStatusChanged
<1>4. CASE kind = "enrollment_status_changed"
  BY <1>4 DEF ValueSets, Fields, Schema, EnrollmentStatusChanged
<1>5. CASE kind = "configuration_changed"
  BY <1>5 DEF ValueSets, Fields, Schema, ConfigurationChanged
<1> QED
  BY <1>1, <1>2, <1>3, <1>4, <1>5, KindsAre

\* What the schema requires, fa's types rely on; and they allow null where the schema does.
LEMMA SchemaKeepsTypes ==
    ASSUME NEW kind \in Kinds
    PROVE  /\ Optional[kind] \subseteq SpecterEventTypes[kind].missing
           /\ \A f \in Fields(kind) : "null" \in Schema[kind][f] => f \in SpecterEventTypes[kind].null
<1>1. CASE kind = "match_confirmed"
  BY <1>1, NeverNull
  DEF Optional, SpecterEventTypes, MatchConfirmedMessage, Fields, Schema, MatchConfirmed
<1>2. CASE kind = "rule_triggered"
  BY <1>2, NeverNull
  DEF Optional, SpecterEventTypes, RuleTriggeredMessage, Fields, Schema, RuleTriggered
<1>3. CASE kind = "camera_status_changed"
  BY <1>3, NeverNull DEF Optional, SpecterEventTypes, CameraStatusChangedMessage, Fields, Schema,
     CameraStatusChanged
<1>4. CASE kind = "enrollment_status_changed"
  BY <1>4, NeverNull DEF Optional, SpecterEventTypes, EnrollmentStatusChangedMessage, Fields, Schema,
     EnrollmentStatusChanged
<1>5. CASE kind = "configuration_changed"
  BY <1>5, NeverNull DEF Optional, SpecterEventTypes, ConfigurationChangedMessage, Fields, Schema,
     ConfigurationChanged
<1> QED
  BY <1>1, <1>2, <1>3, <1>4, <1>5, KindsAre

\* Whatever a message is, what the parser makes of it has fa's types and a version that fa knows.
LEMMA ParsedIsTyped ==
    ASSUME NEW subject, NEW message, Parse(subject, message) # Rejected
    PROVE  LET parsed == Parse(subject, message)
           IN  /\ parsed.kind \in Kinds
               /\ Conforms(parsed.kind, parsed.message)
               /\ IsTyped(parsed.kind, parsed.message)
               /\ SchemaVersion(parsed.message) \in {"1", "1.0", "1.9"}
<1>1. PICK kind \in Kinds :
          /\ Parse(subject, message) = [kind |-> kind, message |-> Restricted(message, Fields(kind))]
          /\ Conforms(kind, Restricted(message, Fields(kind)))
          /\ IsSupported(SchemaVersion(message))
  BY ParsedConforms
<1> DEFINE known == Restricted(message, Fields(kind))
<1>2. SchemaVersion(known) = SchemaVersion(message)
  BY VersionIsAField DEF SchemaVersion, Restricted
<1>3. IsTyped(kind, known)
  <2>1. /\ DOMAIN known \subseteq Fields(kind)
        /\ Fields(kind) \ Optional[kind] \subseteq DOMAIN known
        /\ \A f \in DOMAIN known : known[f] \in Schema[kind][f]
    BY <1>1 DEF Conforms
  <2> HIDE DEF known
  <2> QED
    BY <2>1, SchemaKeepsTypes DEF IsTyped, Null
<1>4. Parse(subject, message).kind = kind /\ Parse(subject, message).message = known
  BY <1>1
<1>5. SchemaVersion(known) \in {"1", "1.0", "1.9"}
  BY <1>1, <1>2 DEF IsSupported
<1> HIDE DEF known
<1>6. Conforms(kind, known)
  BY <1>1 DEF known
<1> QED
  BY <1>3, <1>4, <1>5, <1>6

\* The message as usual conforms to its schema.
LEMMA UsualValidates ==
    ASSUME NEW kind \in Kinds
    PROVE  /\ DOMAIN Usual(kind) = Fields(kind)
           /\ \A f \in Fields(kind) : Usual(kind)[f] \in Schema[kind][f]
           /\ Usual(kind)["schema_version"] = "1.0"
<1>1. DOMAIN Usual(kind) = Fields(kind) /\ Usual(kind)["schema_version"] = "1.0"
  BY VersionIsAField DEF Usual
<1>2. \A f \in {"camera_id", "watchlist_id", "target_id", "schema_version"} \intersect Fields(kind) :
          Schema[kind][f] = Text
  BY KindsAre DEF Fields, Schema, MatchConfirmed, RuleTriggered, CameraStatusChanged,
     EnrollmentStatusChanged, ConfigurationChanged
<1>3. {"camera_1", "watchlist_1", "target_1", "1.0"} \subseteq Text
  BY DEF Text, Ids, Versions
<1>4. ASSUME NEW f \in Fields(kind)
      PROVE  \E value \in Schema[kind][f] : value \notin Null \union {""}
  <2>1. PICK values \in ValueSets : Schema[kind][f] \in {values, values \union Null}
    BY SchemaValues
  <2> QED
    BY <2>1, ValuesAreNotNull
<1>5. ASSUME NEW f \in Fields(kind)
      PROVE  Usual(kind)[f] \in Schema[kind][f]
  <2>1. CASE f \in {"camera_id", "watchlist_id", "target_id", "schema_version"}
    BY <1>2, <1>3, <2>1 DEF Usual
  <2>2. CASE f \notin {"camera_id", "watchlist_id", "target_id", "schema_version"}
    <3>1. Usual(kind)[f] = CHOOSE value \in Schema[kind][f] : value \notin Null \union {""}
      BY <2>2 DEF Usual
    <3> QED
      BY <1>4, <3>1
  <2> QED
    BY <2>1, <2>2
<1> QED
  BY <1>1, <1>5

\* A field that a newer Specter adds is left out, and all else is read as before.
LEMMA NewFieldIsLeftOut ==
    ASSUME NEW kind \in Kinds
    PROVE  Parse(SubjectOf(kind), Changed(Usual(kind), "a new field", "text"))
               = [kind |-> kind, message |-> Usual(kind)]
<1> DEFINE newer == Changed(Usual(kind), "a new field", "text")
<1>1. /\ DOMAIN Usual(kind) = Fields(kind) /\ Usual(kind)["schema_version"] = "1.0"
      /\ \A f \in Fields(kind) : Usual(kind)[f] \in Schema[kind][f]
  BY UsualValidates
<1>2. "a new field" \notin Fields(kind)
  <2>1. CASE kind = "match_confirmed"
    BY <2>1 DEF Fields, Schema, MatchConfirmed
  <2>2. CASE kind = "rule_triggered"
    BY <2>2 DEF Fields, Schema, RuleTriggered
  <2>3. CASE kind = "camera_status_changed"
    BY <2>3 DEF Fields, Schema, CameraStatusChanged
  <2>4. CASE kind = "enrollment_status_changed"
    BY <2>4 DEF Fields, Schema, EnrollmentStatusChanged
  <2>5. CASE kind = "configuration_changed"
    BY <2>5 DEF Fields, Schema, ConfigurationChanged
  <2> QED
    BY <2>1, <2>2, <2>3, <2>4, <2>5, KindsAre
<1>3. /\ DOMAIN newer = Fields(kind) \union {"a new field"}
      /\ \A f \in Fields(kind) : newer[f] = Usual(kind)[f]
  BY <1>1, <1>2 DEF Changed
<1>4. Restricted(newer, Fields(kind)) = Usual(kind)
  <2>1. Usual(kind) = [f \in Fields(kind) |-> Usual(kind)[f]]
    BY DEF Usual
  <2>2. DOMAIN newer \intersect Fields(kind) = Fields(kind)
    BY <1>3
  <2> HIDE DEF newer
  <2>3. Restricted(newer, Fields(kind)) = [f \in Fields(kind) |-> newer[f]]
    BY <2>2 DEF Restricted
  <2> QED
    BY <1>3, <2>1, <2>3
<1>5. IsSupported(SchemaVersion(newer))
  <2> HIDE DEF newer
  <2> QED
    BY <1>1, <1>3, VersionIsAField DEF IsSupported, SchemaVersion, Null
<1>6. Validates(kind, newer)
  <2> HIDE DEF newer
  <2> QED
    BY <1>1, <1>3 DEF Validates
<1>7. KindsOfSubject(SubjectOf(kind)) = {kind}
  BY SubjectOfKind
<1> HIDE DEF newer
<1>8. Parse(SubjectOf(kind), newer) = [kind |-> kind, message |-> Restricted(newer, Fields(kind))]
  BY <1>5, <1>6, <1>7 DEF Parse
<1> QED
  BY <1>4, <1>8 DEF newer

-------------------------------------------------------------------------------
(* The contract of the catalog. *)

\* The floor of a read called now is a version that Specter has held.
LEMMA FloorWasHeld ==
    ASSUME LabelInvariant
    PROVE  Floor \in 0..version
<1>1. 0 \in 0..MaxTime /\ (now > TimeToLive => now - TimeToLive \in 0..MaxTime)
  BY LabelAssumption DEF LabelInvariant
<1>2. Oldest(now) \in 0..version
  BY <1>1 DEF Oldest, LabelInvariant
<1> QED
  BY <1>2 DEF Floor, LabelInvariant

\* The contract starts with nothing read.
LEMMA LabelInit == Init => LabelInvariant
  BY LabelAssumption DEF Init, LabelInvariant, Idle, CallStates

\* Every step that the contract allows keeps its invariant.
LEMMA LabelStep == LabelInvariant /\ [Next]_labelVars => LabelInvariant'
<1> SUFFICES ASSUME LabelInvariant, [Next]_labelVars
             PROVE  LabelInvariant'
  OBVIOUS
<1> USE DEF LabelInvariant
<1>1. CASE Change
  <2>1. 0..version \subseteq 0..version'
    BY <1>1 DEF Change
  <2>2. [Parts -> 0..version] \subseteq [Parts -> 0..version']
    BY <2>1
  <2>3. \A r \in Readers : [Parts -> call[r].floor..version] \subseteq [Parts -> call[r].floor..version']
    BY <1>1 DEF Change
  <2> QED
    BY <1>1, <2>1, <2>2, <2>3 DEF Change
<1>2. CASE Process \/ Miss
  BY <1>2 DEF Process, Miss
<1>3. CASE Tick
  BY <1>3, LabelAssumption DEF Tick
<1>4. ASSUME NEW r \in Readers, Call(r)
      PROVE  LabelInvariant'
  BY <1>4, FloorWasHeld DEF Call, CallStates
<1>5. ASSUME NEW r \in Readers, Serve(r)
      PROVE  LabelInvariant'
  <2>1. PICK labels \in [Parts -> call[r].floor..version] :
            call' = [call EXCEPT ![r].state = "served", ![r].got = labels]
    BY <1>5 DEF Serve
  <2>2. labels \in [Parts -> 0..version]
    OBVIOUS
  <2>3. UNCHANGED <<version, delivered, processed, now, asOf>>
    BY <1>5 DEF Serve
  <2>4. /\ call'[r].state = "served" /\ call'[r].floor = call[r].floor /\ call'[r].got = labels
        /\ \A q \in Readers \ {r} : call'[q] = call[q]
    BY <2>1
  <2>5. call' \in [Readers -> [state : CallStates, floor : 0..version,
                                 got : [Parts -> 0..version] \union {NoLabels}]]
    BY <2>1, <2>2 DEF CallStates
  <2> QED
    BY <2>3, <2>4, <2>5
<1>6. ASSUME NEW r \in Readers, GiveUp(r)
      PROVE  LabelInvariant'
  BY <1>6 DEF GiveUp, CallStates
<1>7. CASE UNCHANGED labelVars
  BY <1>7
<1> QED
  BY <1>1, <1>2, <1>3, <1>4, <1>5, <1>6, <1>7 DEF Next

\* What the contract promises by itself, and so whatever implements it: names are of versions from
\* the read's floor on, and that floor is what events and the time to live make of it.
THEOREM ContractKeepsFloors == Spec => []LabelInvariant
  BY LabelInit, LabelStep, PTL DEF Spec

\* The relay uses the catalog by its contract, whatever messages and changes come in between.
LEMMA LabelsAsPromised ==
    /\ NotificationsInit => Init
    /\ [NotificationsNext]_vars => [Next]_labelVars
<1>1. NotificationsInit => Init
  BY DEF NotificationsInit
<1>2. [NotificationsNext]_vars => [Next]_labelVars
  BY NotificationAssumption DEF NotificationsNext, Next, ChangeConfiguration, ChangeProcessed,
     ChangeMissed, ClockTick, Receive, ReadCatalog, CatalogAnswers, Send
<1> QED
  BY <1>1, <1>2

-------------------------------------------------------------------------------
(* The names. *)

\* What a read of the catalog gives: the names of a version since the read's floor, or none.
LEMMA CatalogNames ==
    ASSUME NotificationsInvariant
    PROVE  /\ Catalog.cameras \in {"Gate", "null"}
           /\ Catalog.watchlists \in WatchlistKind \union Null
           /\ Catalog.targets \in {"Jane", "null"}
           /\ call[Reader].state = "served" =>
                  \E v \in call[Reader].floor..version : Catalog.watchlists = history[v + 1].watchlists
<1>1. Parts = {"cameras", "watchlists", "targets"} /\ Reader \in Readers
  BY NotificationAssumption
<1>2. CASE call[Reader].state = "served"
  <2>1. /\ version \in Nat
        /\ call[Reader].got \in [Parts -> call[Reader].floor..version]
        /\ call[Reader].floor \in 0..version
    BY <1>1, <1>2 DEF NotificationsInvariant, LabelInvariant
  <2>2. ASSUME NEW p \in Parts
        PROVE  /\ call[Reader].got[p] \in call[Reader].floor..version
               /\ history[call[Reader].got[p] + 1] \in Configurations
    <3>1. call[Reader].got[p] \in call[Reader].floor..version
      BY <2>1
    <3>2. call[Reader].got[p] + 1 \in 1..Len(history)
      BY <2>1, <3>1 DEF NotificationsInvariant, TypeOK
    <3>3. history \in Seq(Configurations)
      BY DEF NotificationsInvariant, TypeOK
    <3> QED
      BY <3>1, <3>2, <3>3
  <2>3. Catalog = [p \in Parts |-> history[call[Reader].got[p] + 1][p]]
    BY <1>2 DEF Catalog
  <2>4. /\ Catalog.cameras = history[call[Reader].got["cameras"] + 1].cameras
        /\ Catalog.watchlists = history[call[Reader].got["watchlists"] + 1].watchlists
        /\ Catalog.targets = history[call[Reader].got["targets"] + 1].targets
    BY <1>1, <2>3
  <2> QED
    BY <1>1, <2>2, <2>4 DEF Configurations
<1>3. CASE call[Reader].state # "served"
  BY <1>3 DEF Catalog, EmptyCatalog, Null
<1> QED
  BY <1>2, <1>3

\* A name is one of the catalog's, or null.
LEMMA NamesAreKnown ==
    ASSUME NotificationsInvariant, NEW id
    PROVE  /\ cameraName(id, Catalog) \in {"Gate", "null"}
           /\ watchlistKindOf(id, Catalog) \in WatchlistKind \union Null
           /\ watchlistName(id, Catalog) \in {"Banned", "null"}
           /\ targetLabel(id, Catalog) \in {"Jane", "null"}
  BY CatalogNames DEF cameraName, watchlistKindOf, watchlistName, targetLabel, NameOf, Null

-------------------------------------------------------------------------------
(* The inductive invariant. *)

\* Nothing has been received when fa starts.
LEMMA InvariantInit == NotificationsInit => NotificationsInvariant
<1> SUFFICES ASSUME NotificationsInit
             PROVE  NotificationsInvariant
  OBVIOUS
<1>1. Rejected = Parse(NoMessage.subject, NoMessage.fields)
  BY DEF NoMessage, Parse, KindsOfSubject
<1>2. history \in Seq(Configurations) /\ Len(history) = 1
  BY DEF NotificationsInit, Configurations, WatchlistKind, Null
<1>3. TypeOK
  BY <1>2, NotificationAssumption DEF NotificationsInit, Init, TypeOK
<1>4. LabelInvariant
  BY LabelInit, LabelsAsPromised
<1> QED
  BY <1>1, <1>3, <1>4 DEF NotificationsInit, NotificationsInvariant, NoMessage

\* Each step keeps the invariant, its part about the names by the contract.
LEMMA InvariantStep == NotificationsInvariant /\ [NotificationsNext]_vars => NotificationsInvariant'
<1> SUFFICES ASSUME NotificationsInvariant, [NotificationsNext]_vars
             PROVE  NotificationsInvariant'
  OBVIOUS
<1> USE DEF NotificationsInvariant
<1>0. TypeOK /\ LabelInvariant /\ version \in Nat /\ Reader \in Readers
  BY NotificationAssumption DEF LabelInvariant
<1>l. LabelInvariant'
  BY <1>0, LabelStep, LabelsAsPromised
<1>1. CASE ChangeConfiguration
  <2>1. PICK configuration \in Configurations : history' = Append(history, configuration)
    BY <1>1 DEF ChangeConfiguration
  <2>2. /\ history' \in Seq(Configurations) /\ Len(history') = Len(history) + 1
        /\ \A i \in 1..Len(history) : history'[i] = history[i]
    BY <1>0, <2>1, AppendProperties DEF TypeOK
  <2>3. /\ version' = version + 1 /\ version < MaxVersion
        /\ UNCHANGED <<call, inbox, event, pc, sent>>
    BY <1>1 DEF ChangeConfiguration, Change
  <2>4. TypeOK'
    BY <1>0, <2>2, <2>3, NotificationAssumption DEF TypeOK
  <2>5. Catalog' = Catalog
    <3>1. CASE call[Reader].state = "served"
      <4>1. call[Reader].got \in [Parts -> 0..version]
        BY <1>0, <3>1 DEF LabelInvariant
      <4>2. \A p \in Parts : call[Reader].got[p] + 1 \in 1..Len(history)
        BY <1>0, <4>1 DEF TypeOK
      <4> QED
        BY <2>2, <2>3, <3>1, <4>2 DEF Catalog
    <3>2. CASE call[Reader].state # "served"
      BY <2>3, <3>2 DEF Catalog
    <3> QED
      BY <3>1, <3>2
  <2>6. Notification(event)' = Notification(event)
    BY <2>3, <2>5 DEF Notification
  <2> QED
    BY <1>l, <2>3, <2>4, <2>6 DEF MayBeSent
<1>2. CASE ChangeProcessed \/ ChangeMissed \/ ClockTick
  <2>1. UNCHANGED <<version, call, history, inbox, event, pc, sent>>
    BY <1>2 DEF ChangeProcessed, ChangeMissed, ClockTick, Process, Miss, Tick
  <2>2. TypeOK'
    BY <1>0, <2>1 DEF TypeOK
  <2>3. Notification(event)' = Notification(event)
    BY <2>1 DEF Notification, Catalog
  <2> QED
    BY <1>l, <2>1, <2>2, <2>3 DEF MayBeSent
<1>3. ASSUME NEW subject, NEW message, Receive(subject, message)
      PROVE  NotificationsInvariant'
  <2>1. /\ inbox = NoMessage /\ inbox' = [subject |-> subject, fields |-> message]
        /\ event' = Parse(subject, message) /\ pc' = RelayedIfValid(event')
        /\ UNCHANGED <<version, call, history, sent>>
    BY <1>3 DEF Receive
  <2>2. event = Rejected
    BY <2>1 DEF NoMessage, Parse, KindsOfSubject
  <2>3. sent = NoNotification /\ sent' = NoNotification
    BY <1>0, <2>1, <2>2 DEF TypeOK
  <2>4. event' = Parse(inbox'.subject, inbox'.fields)
    BY <2>1
  <2>5. event' # Rejected => event'.kind \in Kinds
    BY <2>1, ParsedIsTyped
  <2>6. TypeOK'
    BY <1>0, <2>1, <2>3, <2>5 DEF TypeOK, RelayedIfValid
  <2> QED
    BY <1>l, <2>3, <2>4, <2>6
<1>4. CASE ReadCatalog \/ CatalogAnswers
  <2>1. /\ pc \in {"received", "reading"} /\ pc' = "reading"
        /\ UNCHANGED <<version, history, inbox, event, sent>>
    BY <1>4 DEF ReadCatalog, CatalogAnswers, Call, Serve, GiveUp
  <2>2. sent = NoNotification /\ event # Rejected
    BY <1>0, <2>1 DEF TypeOK
  <2>3. TypeOK'
    BY <1>0, <2>1, <2>2 DEF TypeOK
  <2> QED
    BY <1>l, <2>1, <2>2, <2>3
<1>5. CASE Send
  <2>1. /\ pc # "idle" /\ pc' = "idle" /\ sent' = Notification(event)
        /\ event.kind \in LabelledKinds => MayBeSent
        /\ UNCHANGED <<version, call, history, inbox, event>>
    BY <1>5 DEF Send
  <2>2. event # Rejected
    BY <1>0, <2>1 DEF TypeOK
  <2>3. TypeOK'
    BY <1>0, <2>1, <2>2 DEF TypeOK
  <2>4. Notification(event)' = Notification(event)
    BY <2>1 DEF Notification, Catalog
  <2> QED
    BY <1>l, <2>1, <2>3, <2>4 DEF MayBeSent
<1>6. CASE UNCHANGED vars
  <2>1. TypeOK'
    BY <1>0, <1>6 DEF TypeOK
  <2>2. Notification(event)' = Notification(event)
    BY <1>6 DEF Notification, Catalog
  <2> QED
    BY <1>l, <1>6, <2>1, <2>2 DEF MayBeSent
<1> QED
  BY <1>1, <1>2, <1>3, <1>4, <1>5, <1>6 DEF NotificationsNext

\* The state of a notification is always explained by the message and the names that were read.
THEOREM InvariantHolds == NotificationsSpec => []NotificationsInvariant
  BY InvariantInit, InvariantStep, PTL DEF NotificationsSpec

\* Only messages that passed the parser are relayed, and all values have their types.
THEOREM NotificationTypes == NotificationsSpec => []TypeOK
<1>1. NotificationsInvariant => TypeOK
  BY DEF NotificationsInvariant
<1> QED
  BY <1>1, InvariantHolds, PTL

-------------------------------------------------------------------------------
(* The properties. *)

\* What the parser lets through is what the code is compiled to read, and what a newer Specter adds
\* does not keep fa from understanding it (specterEventParser.ts:13,45).
THEOREM EventsAreTyped == NotificationsSpec => []ParsedEventsAreTyped
<1>1. ASSUME NotificationsInvariant
      PROVE  ParsedEventsAreTyped
  <2>1. event = Parse(inbox.subject, inbox.fields)
    BY <1>1 DEF NotificationsInvariant
  <2>2. event # Rejected => /\ IsTyped(event.kind, event.message)
                            /\ SchemaVersion(event.message) \in {"1", "1.0", "1.9"}
    BY <2>1, ParsedIsTyped
  <2>3. ASSUME NEW kind \in Kinds,
               inbox = [subject |-> SubjectOf(kind),
                        fields |-> Changed(Usual(kind), "a new field", "text")]
        PROVE  event = [kind |-> kind, message |-> Usual(kind)]
    BY <2>1, <2>3, NewFieldIsLeftOut
  <2> QED
    BY <2>2, <2>3 DEF ParsedEventsAreTyped
<1> QED
  BY <1>1, InvariantHolds, PTL

\* The notification of an event that was understood, of each kind.
LEMMA SentIs ==
    ASSUME NotificationsInvariant, sent # NoNotification
    PROVE  /\ event.kind \in Kinds /\ Conforms(event.kind, event.message)
           /\ sent = Notification(event)
<1>1. event # Rejected /\ sent = Notification(event)
  BY DEF NotificationsInvariant, TypeOK
<1>2. event = Parse(inbox.subject, inbox.fields)
  BY DEF NotificationsInvariant
<1> QED
  BY <1>1, <1>2, ParsedIsTyped

\* The levels of notifications.
LEMMA LevelsAre ==
    /\ \A watchlistKind : matchLevel(watchlistKind) \in Level
    /\ \A status : cameraStatusLevel(status) \in Level
    /\ {"warning", "info"} \subseteq Level
  BY DEF matchLevel, cameraStatusLevel, Level

\* A snapshot is found under the id of its alert.
LEMMA SnapshotUrls ==
    ASSUME NEW message, "message_id" \in DOMAIN message => message["message_id"] \in Text
    PROVE  snapshotUrl(message) \in Urls \union Null
<1>1. CASE "message_id" \in DOMAIN message
  BY <1>1 DEF snapshotUrl, Urls, Null
<1>2. CASE "message_id" \notin DOMAIN message
  BY <1>2 DEF snapshotUrl, Member, IsTruthy, Null
<1> QED
  BY <1>1, <1>2

\* The shape of the notification of a match.
LEMMA MatchKeepsShape ==
    ASSUME NotificationsInvariant, NEW message, Conforms("match_confirmed", message)
    PROVE  /\ DOMAIN matchAlert(message, Catalog) = DOMAIN AlertNotification
           /\ \A m \in DOMAIN matchAlert(message, Catalog) :
                  \/ matchAlert(message, Catalog)[m] \in AlertNotification[m]
                  \/ m = "alertId" /\ "message_id" \notin DOMAIN message
<1>1. /\ message.camera_id \in Text /\ message.target_id \in Text /\ message.similarity_ratio \in Ratio
      /\ message.object_class \in Text /\ message.occurred_at \in Time
      /\ "message_id" \in DOMAIN message => message["message_id"] \in Text
  BY DEF Conforms, Fields, Optional, Schema, MatchConfirmed
<1>2. snapshotUrl(message) \in Urls \union Null
  BY <1>1, SnapshotUrls
<1>3. "message_id" \in DOMAIN message => Member(message, "message_id") \in Text
  BY <1>1 DEF Member
<1> DEFINE alert == matchAlert(message, Catalog)
<1>4. DOMAIN alert = DOMAIN AlertNotification
  BY DEF matchAlert, AlertNotification
<1>5. /\ alert.kind \in AlertNotification.kind /\ alert.alertKind \in AlertNotification.alertKind
      /\ alert.cameraId \in AlertNotification.cameraId /\ alert.targetId \in AlertNotification.targetId
      /\ alert.similarity \in AlertNotification.similarity /\ alert.ruleKind \in AlertNotification.ruleKind
      /\ alert.objectClass \in AlertNotification.objectClass /\ alert.timestamp \in AlertNotification.timestamp
  BY <1>1 DEF matchAlert, AlertNotification, Null
<1>6. /\ alert.cameraName \in AlertNotification.cameraName
      /\ alert.targetLabel \in AlertNotification.targetLabel
      /\ alert.watchlistName \in AlertNotification.watchlistName
      /\ alert.watchlistKind \in AlertNotification.watchlistKind
  BY NamesAreKnown DEF matchAlert, AlertNotification
<1>7. alert.level \in AlertNotification.level /\ alert.snapshotUrl \in AlertNotification.snapshotUrl
  BY <1>2, LevelsAre DEF matchAlert, AlertNotification
<1>8. "message_id" \in DOMAIN message => alert.alertId \in AlertNotification.alertId
  BY <1>3 DEF matchAlert, AlertNotification
<1>9. DOMAIN alert = {"kind", "alertId", "alertKind", "cameraId", "cameraName", "targetId",
                      "targetLabel", "watchlistName", "watchlistKind", "similarity", "ruleKind",
                      "objectClass", "level", "snapshotUrl", "timestamp"}
  BY DEF matchAlert
<1> HIDE DEF alert
<1> QED
  BY <1>4, <1>5, <1>6, <1>7, <1>8, <1>9 DEF alert

\* The shape of the notification of a rule.
LEMMA RuleKeepsShape ==
    ASSUME NotificationsInvariant, NEW message, Conforms("rule_triggered", message)
    PROVE  /\ DOMAIN ruleAlert(message, Catalog) = DOMAIN AlertNotification
           /\ \A m \in DOMAIN ruleAlert(message, Catalog) :
                  \/ ruleAlert(message, Catalog)[m] \in AlertNotification[m]
                  \/ m = "alertId" /\ "message_id" \notin DOMAIN message
<1>1. /\ message.camera_id \in Text /\ message.rule_kind \in RuleKind
      /\ message.object_class \in Text /\ message.occurred_at \in Time
      /\ "message_id" \in DOMAIN message => message["message_id"] \in Text
  BY DEF Conforms, Fields, Optional, Schema, RuleTriggered
<1>2. snapshotUrl(message) \in Urls \union Null
  BY <1>1, SnapshotUrls
<1>3. "message_id" \in DOMAIN message => Member(message, "message_id") \in Text
  BY <1>1 DEF Member
<1> DEFINE alert == ruleAlert(message, Catalog)
<1>4. DOMAIN alert = DOMAIN AlertNotification
  BY DEF ruleAlert, AlertNotification
<1>5. /\ alert.kind \in AlertNotification.kind /\ alert.alertKind \in AlertNotification.alertKind
      /\ alert.cameraId \in AlertNotification.cameraId /\ alert.targetId \in AlertNotification.targetId
      /\ alert.similarity \in AlertNotification.similarity /\ alert.ruleKind \in AlertNotification.ruleKind
      /\ alert.objectClass \in AlertNotification.objectClass /\ alert.timestamp \in AlertNotification.timestamp
  BY <1>1 DEF ruleAlert, AlertNotification, Null
<1>6. /\ alert.cameraName \in AlertNotification.cameraName
      /\ alert.targetLabel \in AlertNotification.targetLabel
      /\ alert.watchlistName \in AlertNotification.watchlistName
      /\ alert.watchlistKind \in AlertNotification.watchlistKind
  BY NamesAreKnown DEF ruleAlert, AlertNotification, Null
<1>7. alert.level \in AlertNotification.level /\ alert.snapshotUrl \in AlertNotification.snapshotUrl
  BY <1>2, LevelsAre DEF ruleAlert, AlertNotification
<1>8. "message_id" \in DOMAIN message => alert.alertId \in AlertNotification.alertId
  BY <1>3 DEF ruleAlert, AlertNotification
<1>9. DOMAIN alert = {"kind", "alertId", "alertKind", "cameraId", "cameraName", "targetId",
                      "targetLabel", "watchlistName", "watchlistKind", "similarity", "ruleKind",
                      "objectClass", "level", "snapshotUrl", "timestamp"}
  BY DEF ruleAlert
<1> HIDE DEF alert
<1> QED
  BY <1>4, <1>5, <1>6, <1>7, <1>8, <1>9 DEF alert

\* The shape of the notification of a camera's status.
LEMMA StatusKeepsShape ==
    ASSUME NotificationsInvariant, NEW message, Conforms("camera_status_changed", message)
    PROVE  /\ DOMAIN cameraStatus(message, Catalog) = DOMAIN CameraStatusNotification
           /\ \A m \in DOMAIN cameraStatus(message, Catalog) :
                  cameraStatus(message, Catalog)[m] \in CameraStatusNotification[m]
<1>1. message.camera_id \in Text /\ message.status \in CameraStatus /\ message.occurred_at \in Time
  BY DEF Conforms, Fields, Optional, Schema, CameraStatusChanged
<1>2. cameraName(message.camera_id, Catalog) \in {"Gate", "null"}
  BY NamesAreKnown
<1> QED
  BY <1>1, <1>2, LevelsAre DEF cameraStatus, CameraStatusNotification

\* The shape of the notification of an enrollment.
LEMMA EnrollmentKeepsShape ==
    ASSUME NotificationsInvariant, NEW message, Conforms("enrollment_status_changed", message)
    PROVE  /\ DOMAIN enrollment(message, Catalog) = DOMAIN EnrollmentNotification
           /\ \A m \in DOMAIN enrollment(message, Catalog) :
                  enrollment(message, Catalog)[m] \in EnrollmentNotification[m]
<1>1. /\ message.target_id \in Text /\ message.reference_image_id \in Text
      /\ message.modality \in EmbeddingModality /\ message.status \in ImageStatus
      /\ message.occurred_at \in Time
      /\ "rejection_reason" \in DOMAIN message =>
             message["rejection_reason"] \in RejectionReason \union Null
  BY DEF Conforms, Fields, Optional, Schema, EnrollmentStatusChanged
<1>2. RejectionReasonOf(message) \in RejectionReason \union Null
  BY <1>1 DEF RejectionReasonOf, OrNull, Member, Null
<1>3. targetLabel(message.target_id, Catalog) \in {"Jane", "null"}
  BY NamesAreKnown
<1> QED
  BY <1>1, <1>2, <1>3, LevelsAre DEF enrollment, EnrollmentNotification

\* The shape of the notification of a change of the configuration.
LEMMA ConfigurationKeepsShape ==
    ASSUME NEW message, Conforms("configuration_changed", message)
    PROVE  /\ DOMAIN configurationChanged(message) = DOMAIN ConfigurationChangedNotification
           /\ \A m \in DOMAIN configurationChanged(message) :
                  configurationChanged(message)[m] \in ConfigurationChangedNotification[m]
<1>1. /\ message.entity_kind \in EntityKind /\ message.entity_id \in Text
      /\ message.change_kind \in ChangeKind /\ message.occurred_at \in Time
  BY DEF Conforms, Fields, Optional, Schema, ConfigurationChanged
<1> QED
  BY <1>1, LevelsAre DEF configurationChanged, ConfigurationChangedNotification

\* Whatever Specter sends and whatever names are known, a notification has the shape that fa
\* promises its clients (notifications/types.ts).
THEOREM ShapesAreKept == NotificationsSpec => []NotificationsKeepTheirShape
<1>1. ASSUME NotificationsInvariant
      PROVE  NotificationsKeepTheirShape
  <2> SUFFICES ASSUME sent # NoNotification
               PROVE  \E shape \in Shapes :
                          /\ DOMAIN sent = DOMAIN shape
                          /\ \A m \in DOMAIN sent :
                                \/ sent[m] \in shape[m]
                                \/ m = "alertId" /\ "message_id" \notin DOMAIN event.message
    BY DEF NotificationsKeepTheirShape
  <2>0. event.kind \in Kinds /\ Conforms(event.kind, event.message) /\ sent = Notification(event)
    BY <1>1, SentIs
  <2>1. CASE event.kind = "match_confirmed"
    <3>1. sent = matchAlert(event.message, Catalog)
      BY <2>0, <2>1 DEF Notification
    <3> QED
      BY <1>1, <2>0, <2>1, <3>1, MatchKeepsShape DEF Shapes
  <2>2. CASE event.kind = "rule_triggered"
    <3>1. sent = ruleAlert(event.message, Catalog)
      BY <2>0, <2>2 DEF Notification
    <3> QED
      BY <1>1, <2>0, <2>2, <3>1, RuleKeepsShape DEF Shapes
  <2>3. CASE event.kind = "camera_status_changed"
    <3>1. sent = cameraStatus(event.message, Catalog)
      BY <2>0, <2>3 DEF Notification
    <3> QED
      BY <1>1, <2>0, <2>3, <3>1, StatusKeepsShape DEF Shapes
  <2>4. CASE event.kind = "enrollment_status_changed"
    <3>1. sent = enrollment(event.message, Catalog)
      BY <2>0, <2>4 DEF Notification
    <3> QED
      BY <1>1, <2>0, <2>4, <3>1, EnrollmentKeepsShape DEF Shapes
  <2>5. CASE event.kind = "configuration_changed"
    <3>1. sent = configurationChanged(event.message)
      BY <2>0, <2>5 DEF Notification
    <3> QED
      BY <2>0, <2>5, <3>1, ConfigurationKeepsShape DEF Shapes
  <2> QED
    BY <2>0, <2>1, <2>2, <2>3, <2>4, <2>5, KindsAre
<1> QED
  BY <1>1, InvariantHolds, PTL

\* A notification that is an alert is one of a match or of a rule.
LEMMA AlertsAre ==
    ASSUME NotificationsInvariant, sent.kind = "alert"
    PROVE  /\ event.kind \in {"match_confirmed", "rule_triggered"}
           /\ Conforms(event.kind, event.message)
           /\ event.kind = "match_confirmed" => sent = matchAlert(event.message, Catalog)
           /\ event.kind = "rule_triggered" => sent = ruleAlert(event.message, Catalog)
<1>1. sent # NoNotification
  BY DEF NoNotification
<1>2. event.kind \in Kinds /\ Conforms(event.kind, event.message) /\ sent = Notification(event)
  BY <1>1, SentIs
<1>3. event.kind \notin {"camera_status_changed", "enrollment_status_changed", "configuration_changed"}
  BY <1>2 DEF Notification, cameraStatus, enrollment, configurationChanged
<1> QED
  BY <1>2, <1>3, KindsAre DEF Notification

\* A match is critical if its watchlist is a blacklist, however the watchlist changes while the
\* names are read and whichever events fa has processed.
THEOREM BlacklistIsCritical == NotificationsSpec => []BlacklistMatchesAreCritical
<1>1. ASSUME NotificationsInvariant
      PROVE  BlacklistMatchesAreCritical
  <2> SUFFICES ASSUME sent.kind = "alert", sent.alertKind = "identity_match",
                      call[Reader].state = "served"
               PROVE  LET kinds == KindsSinceRead(event.message.watchlist_id)
                      IN  /\ kinds = {"blacklist"} => sent.level = "critical"
                          /\ sent.level = "critical" => "blacklist" \in kinds
    BY DEF BlacklistMatchesAreCritical
  <2> DEFINE id == event.message.watchlist_id
             kind == watchlistKindOf(id, Catalog)
  <2>1. sent = matchAlert(event.message, Catalog)
    BY <1>1, AlertsAre DEF ruleAlert
  <2>2. sent.level = matchLevel(kind)
    BY <2>1 DEF matchAlert
  <2>3. PICK v \in call[Reader].floor..version : Catalog.watchlists = history[v + 1].watchlists
    BY <1>1, CatalogNames
  <2>4. kind = watchlistKindOf(id, history[v + 1])
    BY <2>3 DEF watchlistKindOf
  <2>5. kind \in KindsSinceRead(id)
    BY <2>4 DEF KindsSinceRead
  <2> QED
    BY <2>2, <2>5 DEF matchLevel
<1> QED
  BY <1>1, InvariantHolds, PTL

\* A client that follows a notification to the API finds the alert under the same names, and its
\* snapshot at the same place.
THEOREM AlertsAgree == NotificationsSpec => []NamesAgree
<1>1. ASSUME NotificationsInvariant
      PROVE  NamesAgree
  <2> SUFFICES ASSUME sent.kind = "alert", Member(event.message, "snapshot_path") # "",
                      IsTruthy(Member(event.message, "message_id"))
               PROVE  LET alert == enrich(AlertResponse(event), Catalog)
                      IN  /\ sent.cameraName = alert.camera_name
                          /\ sent.watchlistName = alert.watchlist_name
                          /\ sent.watchlistKind = alert.watchlist_kind
                          /\ sent.targetLabel = alert.target_label
                          /\ sent.snapshotUrl = alert.snapshot_url
    BY DEF NamesAgree
  <2> DEFINE message == event.message
  <2>1. Member(message, "message_id") = message.message_id
    BY DEF Member, IsTruthy
  <2>2. IsTruthy(Member(message, "snapshot_path")) <=>
            Member(message, "snapshot_path") \notin {"undefined", "null"}
    BY DEF IsTruthy
  <2>3. snapshotUrl(message) = enrich(AlertResponse(event), Catalog).snapshot_url
    BY <2>1, <2>2 DEF snapshotUrl, enrich, AlertResponse
  <2>4. CASE event.kind = "match_confirmed"
    <3>1. sent = matchAlert(message, Catalog) /\ Conforms("match_confirmed", message)
      BY <1>1, <2>4, AlertsAre
    <3>2. /\ Member(message, "watchlist_id") = message.watchlist_id /\ message.watchlist_id \in Text
          /\ Member(message, "target_id") = message.target_id /\ message.target_id \in Text
      <4>1. {"watchlist_id", "target_id"} \subseteq Fields("match_confirmed") \ Optional["match_confirmed"]
        BY DEF Fields, Optional, Schema, MatchConfirmed
      <4>2. /\ Schema["match_confirmed"]["watchlist_id"] = Text
            /\ Schema["match_confirmed"]["target_id"] = Text
        BY DEF Schema, MatchConfirmed
      <4> QED
        BY <3>1, <4>1, <4>2 DEF Conforms, Member
    <3>3. "undefined" \notin Text
      BY DEF Text, Ids, Versions, Time, EmbeddingModality, CrossingDirection, RuleKind, CameraStatus,
         RejectionReason, ImageStatus, ChangeKind, EntityKind
    <3>4. /\ OrNull(Member(message, "watchlist_id")) = message.watchlist_id
          /\ OrNull(Member(message, "target_id")) = message.target_id
      BY <3>2, <3>3 DEF OrNull
    <3> QED
      BY <2>3, <3>1, <3>4 DEF matchAlert, enrich, AlertResponse
  <2>5. CASE event.kind = "rule_triggered"
    <3>1. sent = ruleAlert(message, Catalog) /\ Conforms("rule_triggered", message)
      BY <1>1, <2>5, AlertsAre
    <3>2. {"watchlist_id", "target_id"} \intersect DOMAIN message = {}
      BY <3>1 DEF Conforms, Fields, Schema, RuleTriggered
    <3>3. /\ OrNull(Member(message, "watchlist_id")) = "null"
          /\ OrNull(Member(message, "target_id")) = "null"
      BY <3>2 DEF OrNull, Member
    <3>4. /\ watchlistKindOf("null", Catalog) = "null" /\ watchlistName("null", Catalog) = "null"
          /\ targetLabel("null", Catalog) = "null"
      BY DEF watchlistKindOf, watchlistName, targetLabel, NameOf, Null
    <3> QED
      BY <2>3, <3>1, <3>3, <3>4 DEF ruleAlert, enrich, AlertResponse
  <2> QED
    BY <1>1, <2>4, <2>5, AlertsAre
<1> QED
  BY <1>1, InvariantHolds, PTL

\* Notifications are labelled by the contract of the catalog: all that Notifications does to the
\* variables of LabelContract is what SpecterCatalog was shown to implement.
THEOREM NamesComeFromTheContract == NotificationsSpec => Spec
  BY LabelsAsPromised, PTL DEF NotificationsSpec, Spec

===============================================================================

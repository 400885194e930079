----------------------------- MODULE Notifications -----------------------------
(***************************************************************************)
(* What the users are told of a Specter event: specterEventRelay.ts,       *)
(* notificationFactory.ts and the shapes of types.ts, with the alerts that *)
(* AlertService.enrich labels for the API.                                 *)
(*                                                                         *)
(* A message arrives on a subject, is parsed, waits for the names of the   *)
(* catalog and becomes a notification. The catalog is its contract,        *)
(* LabelContract, which SpecterCatalog implements: a read serves each list *)
(* as of some version since the last event that was processed and since    *)
(* what Specter held one time-to-live before, or fails. Who gets the       *)
(* notification is NotificationRooms' subject.                             *)
(***************************************************************************)
EXTENDS SpecterEvents, LabelContract, Sequences

CONSTANTS
    Reader,       \* the relay's read of the catalog
    Odd,          \* JSON values that a field may wrongly have
    MaxVersion    \* bound: the changes of Specter's configuration

ASSUME NotificationAssumption ==
    /\ Readers = {Reader}
    /\ Parts = {"cameras", "watchlists", "targets"}
    /\ MaxVersion \in Nat

VARIABLES
    history,      \* history[v + 1]: the cameras, watchlists and targets in version v
    inbox,        \* the message that was received: its subject and its fields
    event,        \* what the parser made of it: an event, or Rejected
    pc,           \* where the relay of the event is
    sent          \* the notification sent for the event, or NoNotification

vars == <<labelVars, history, inbox, event, pc, sent>>

NoNotification == [kind |-> "none"]
\* A message as Specter sends it.
Usual(kind) == [f \in Fields(kind) |->
    CASE f = "camera_id" -> "camera_1"
      [] f = "watchlist_id" -> "watchlist_1"
      [] f = "target_id" -> "target_1"
      [] f = "schema_version" -> "1.0"
      [] OTHER -> CHOOSE value \in Schema[kind][f] : value \notin Null \union {""}]

NoMessage ==
    [subject |-> [scope |-> "none", event |-> "none"], fields |-> Usual("match_confirmed")]

WatchlistKind == {"watchlist", "blacklist"}

\* One camera, one watchlist and one target, each with its id; null when there is none.
Configurations == [
    cameras : {"Gate", "null"},
    watchlists : WatchlistKind \union Null,
    targets : {"Jane", "null"}]

NotificationsInit ==
    /\ Init
    /\ history = <<[cameras |-> "Gate", watchlists |-> "blacklist", targets |-> "Jane"]>>
    /\ inbox = NoMessage
    /\ event = Rejected
    /\ pc = "idle"
    /\ sent = NoNotification

-------------------------------------------------------------------------------
(* Specter. *)

ChangeConfiguration ==
    /\ version < MaxVersion
    /\ Change
    /\ \E configuration \in Configurations, p \in Parts :
           /\ \A q \in Parts : q = p <=> configuration[q] # history[version + 1][q]
           /\ history' = Append(history, configuration)
    /\ UNCHANGED <<inbox, event, pc, sent>>

ChangeProcessed ==
    /\ Process
    /\ UNCHANGED <<history, inbox, event, pc, sent>>

ChangeMissed ==
    /\ Miss
    /\ UNCHANGED <<history, inbox, event, pc, sent>>

ClockTick ==
    /\ Tick
    /\ UNCHANGED <<history, inbox, event, pc, sent>>

\* A message is as usual, but for one field that is added, left out or has any value.
Changed(message, f, value) == [g \in DOMAIN message \union {f} |->
    IF g = f THEN value ELSE message[g]]

\* Bound: of the strings, those in Odd stand for the others.
Sample(values) == IF Text \subseteq values THEN {} ELSE values

Messages(kind) ==
    LET whole == {Usual(kind), Without(Usual(kind), Optional[kind])}
    IN  whole
        \union {Without(m, {f}) : m \in whole, f \in Fields(kind)}
        \union UNION {{Changed(m, f, value) : m \in whole, value \in Sample(Schema[kind][f]) \union Odd} :
                      f \in Fields(kind)}
        \union {Changed(m, "a new field", "text") : m \in whole}

SubjectOf(kind) == CHOOSE s \in [scope : {"camera", "owner"}, event : CameraEvents \union OwnerEvents] :
                       KindsOfSubject(s) = {kind}

\* Subjects that fa does not know.
OtherSubjects == {[scope |-> "camera", event |-> "configuration.changed"],
                  [scope |-> "owner", event |-> "match_confirmed"],
                  [scope |-> "camera", event |-> "track_lost"]}

RelayedIfValid(e) == IF e = Rejected THEN "idle" ELSE "received"

\* A message that is refused is logged, and the stream goes on. Bound: one message is received,
\* at any time; the relay keeps nothing from one to the next.
Receive(subject, message) ==
    /\ inbox = NoMessage
    /\ inbox' = [subject |-> subject, fields |-> message]
    /\ event' = Parse(subject, message)
    /\ pc' = RelayedIfValid(event')
    /\ UNCHANGED <<labelVars, history, sent>>

-------------------------------------------------------------------------------
(* The names that a read of the catalog serves. *)

EmptyCatalog == [cameras |-> "null", watchlists |-> "null", targets |-> "null"]

Catalog ==
    IF call[Reader].state = "served"
        THEN [p \in Parts |-> history[call[Reader].got[p] + 1][p]]
        ELSE EmptyCatalog

NameOf(id, known, name) == IF id = known THEN name ELSE "null"
cameraName(id, catalog) == NameOf(id, "camera_1", catalog.cameras)
watchlistKindOf(id, catalog) == NameOf(id, "watchlist_1", catalog.watchlists)
targetLabel(id, catalog) == NameOf(id, "target_1", catalog.targets)

\* A watchlist's name is known when its kind is.
watchlistName(id, catalog) ==
    IF watchlistKindOf(id, catalog) \in Null THEN "null" ELSE "Banned"

-------------------------------------------------------------------------------
(* notificationFactory.ts *)

\* A member that a message may lack: undefined in JavaScript.
Member(message, f) == IF f \in DOMAIN message THEN message[f] ELSE "undefined"
OrNull(value) == IF value = "undefined" THEN "null" ELSE value
IsTruthy(value) == value \notin {"undefined", "null", ""}

snapshotUrlOfAny(message) == "/api/alerts/" \o Member(message, "message_id")
snapshotUrl(message) ==
    IF IsTruthy(Member(message, "message_id")) /\ IsTruthy(Member(message, "snapshot_path"))
        THEN "/api/alerts/" \o message.message_id
        ELSE "null"

matchLevelByName(watchlistKind) == IF watchlistKind \in WatchlistKind THEN "critical" ELSE "warning"
matchLevel(watchlistKind) == IF watchlistKind = "blacklist" THEN "critical" ELSE "warning"

cameraStatusLevel(status) ==
    CASE status = "failed" -> "critical"
      [] status = "reconnecting" -> "warning"
      [] OTHER -> "info"

matchAlert(message, catalog) == [
    kind |-> "alert",
    alertId |-> Member(message, "message_id"),
    alertKind |-> "identity_match",
    cameraId |-> message.camera_id,
    cameraName |-> cameraName(message.camera_id, catalog),
    targetId |-> message.target_id,
    targetLabel |-> targetLabel(message.target_id, catalog),
    watchlistName |-> watchlistName(message.watchlist_id, catalog),
    watchlistKind |-> watchlistKindOf(message.watchlist_id, catalog),
    similarity |-> message.similarity_ratio,
    ruleKind |-> "null",
    objectClass |-> message.object_class,
    level |-> matchLevel(watchlistKindOf(message.watchlist_id, catalog)),
    snapshotUrl |-> snapshotUrl(message),
    timestamp |-> message.occurred_at]

ruleAlert(message, catalog) == [
    kind |-> "alert",
    alertId |-> Member(message, "message_id"),
    alertKind |-> "rule",
    cameraId |-> message.camera_id,
    cameraName |-> cameraName(message.camera_id, catalog),
    targetId |-> "null",
    targetLabel |-> "null",
    watchlistName |-> "null",
    watchlistKind |-> "null",
    similarity |-> "null",
    ruleKind |-> message.rule_kind,
    objectClass |-> message.object_class,
    level |-> "warning",
    snapshotUrl |-> snapshotUrl(message),
    timestamp |-> message.occurred_at]

cameraStatus(message, catalog) == [
    kind |-> "camera_status",
    cameraId |-> message.camera_id,
    cameraName |-> cameraName(message.camera_id, catalog),
    status |-> message.status,
    level |-> cameraStatusLevel(message.status),
    timestamp |-> message.occurred_at]

RejectionReasonAsIs(message) == Member(message, "rejection_reason")
RejectionReasonOf(message) == OrNull(Member(message, "rejection_reason"))

enrollment(message, catalog) == [
    kind |-> "enrollment",
    targetId |-> message.target_id,
    targetLabel |-> targetLabel(message.target_id, catalog),
    referenceImageId |-> message.reference_image_id,
    modality |-> message.modality,
    status |-> message.status,
    rejectionReason |-> RejectionReasonOf(message),
    level |-> IF message.status = "rejected" THEN "warning" ELSE "info",
    timestamp |-> message.occurred_at]

configurationChanged(message) == [
    kind |-> "configuration_changed",
    entityKind |-> message.entity_kind,
    entityId |-> message.entity_id,
    changeKind |-> message.change_kind,
    level |-> "info",
    timestamp |-> message.occurred_at]

-------------------------------------------------------------------------------
(* SpecterEventRelay.relay *)

\* Events of these kinds wait for the names.
LabelledKinds == {"match_confirmed", "rule_triggered", "camera_status_changed",
                  "enrollment_status_changed"}

ReadCatalog ==
    /\ pc = "received"
    /\ event.kind \in LabelledKinds
    /\ Call(Reader)
    /\ pc' = "reading"
    /\ UNCHANGED <<history, inbox, event, sent>>

CatalogAnswers ==
    /\ pc = "reading"
    /\ Serve(Reader) \/ GiveUp(Reader)
    /\ UNCHANGED <<history, inbox, event, pc, sent>>

MayBeLabelled == call[Reader].state = "served"
MayBeSent == call[Reader].state \in {"served", "unlabelled"}

Notification(e) ==
    CASE e.kind = "match_confirmed" -> matchAlert(e.message, Catalog)
      [] e.kind = "rule_triggered" -> ruleAlert(e.message, Catalog)
      [] e.kind = "camera_status_changed" -> cameraStatus(e.message, Catalog)
      [] e.kind = "enrollment_status_changed" -> enrollment(e.message, Catalog)
      [] e.kind = "configuration_changed" -> configurationChanged(e.message)

Send ==
    /\ \/ pc = "reading" /\ MayBeSent
       \/ pc = "received" /\ event.kind \notin LabelledKinds
    /\ sent' = Notification(event)
    /\ pc' = "idle"
    /\ UNCHANGED <<labelVars, history, inbox, event>>

-------------------------------------------------------------------------------
NotificationsNext ==
    \/ ChangeConfiguration
    \/ ChangeProcessed
    \/ ChangeMissed
    \/ ClockTick
    \/ \E kind \in Kinds : \E message \in Messages(kind) : Receive(SubjectOf(kind), message)
    \/ \E subject \in OtherSubjects : Receive(subject, Usual("match_confirmed"))
    \/ ReadCatalog
    \/ CatalogAnswers
    \/ Send

\* A read of the catalog ends (SpecterCatalog.ReadsEnd), and the relay then goes on.
NotificationsSpec ==
    /\ NotificationsInit /\ [][NotificationsNext]_vars
    /\ WF_vars(ReadCatalog) /\ WF_vars(CatalogAnswers) /\ WF_vars(Send)

-------------------------------------------------------------------------------
(* The types of the notifications, and what the API says of an alert.      *)

Level == {"critical", "warning", "info"}
Urls == {"/api/alerts/" \o id : id \in Text}

AlertNotification == [
    kind |-> {"alert"}, alertId |-> Text, alertKind |-> {"identity_match", "rule"},
    cameraId |-> Text, cameraName |-> {"Gate", "null"}, targetId |-> Text \union Null,
    targetLabel |-> {"Jane", "null"}, watchlistName |-> {"Banned", "null"},
    watchlistKind |-> WatchlistKind \union Null, similarity |-> Ratio \union Null,
    ruleKind |-> RuleKind \union Null, objectClass |-> Text, level |-> Level,
    snapshotUrl |-> Urls \union Null, timestamp |-> Time]

CameraStatusNotification == [
    kind |-> {"camera_status"}, cameraId |-> Text, cameraName |-> {"Gate", "null"},
    status |-> CameraStatus, level |-> Level, timestamp |-> Time]

EnrollmentNotification == [
    kind |-> {"enrollment"}, targetId |-> Text, targetLabel |-> {"Jane", "null"},
    referenceImageId |-> Text, modality |-> EmbeddingModality, status |-> ImageStatus,
    rejectionReason |-> RejectionReason \union Null, level |-> Level, timestamp |-> Time]

ConfigurationChangedNotification == [
    kind |-> {"configuration_changed"}, entityKind |-> EntityKind, entityId |-> Text,
    changeKind |-> ChangeKind, level |-> Level, timestamp |-> Time]

Shapes == {AlertNotification, CameraStatusNotification, EnrollmentNotification,
           ConfigurationChangedNotification}

\* The alert that Specter stores for an event, as its API returns it.
AlertResponse(e) == [
    id |-> Member(e.message, "message_id"),
    camera_id |-> e.message.camera_id,
    watchlist_id |-> OrNull(Member(e.message, "watchlist_id")),
    target_id |-> OrNull(Member(e.message, "target_id")),
    has_snapshot |-> Member(e.message, "snapshot_path") \notin {"undefined", "null"}]

\* AlertService.enrich
enrich(alert, catalog) == [
    camera_name |-> cameraName(alert.camera_id, catalog),
    watchlist_name |-> watchlistName(alert.watchlist_id, catalog),
    watchlist_kind |-> watchlistKindOf(alert.watchlist_id, catalog),
    target_label |-> targetLabel(alert.target_id, catalog),
    snapshot_url |-> IF alert.has_snapshot THEN "/api/alerts/" \o alert.id ELSE "null"]

-------------------------------------------------------------------------------
\* Type correctness; only messages that passed the parser are relayed.
TypeOK ==
    /\ version \in 0..MaxVersion
    /\ history \in Seq(Configurations) /\ Len(history) = version + 1
    /\ pc \in {"idle", "received", "reading"}
    /\ event # Rejected => event.kind \in Kinds
    /\ event = Rejected => pc = "idle" /\ sent = NoNotification

\* What the parser lets through is what the code is compiled to read: with every member it
\* relies on, of the major version it knows, and without the fields of a newer Specter. And what
\* a newer 1.x adds to a message does not keep fa from understanding it
\* (specterEventParser.ts:13,45).
ParsedEventsAreTyped ==
    /\ event # Rejected =>
           /\ IsTyped(event.kind, event.message)
           /\ SchemaVersion(event.message) \in {"1", "1.0", "1.9"}
    /\ \A kind \in Kinds :
           inbox = [subject |-> SubjectOf(kind),
                    fields |-> Changed(Usual(kind), "a new field", "text")]
               => event = [kind |-> kind, message |-> Usual(kind)]

\* Whatever Specter sends and whatever names are known, a notification has the shape that fa
\* promises its clients: no member is missing, and one is null only where null is promised. The
\* id of an alert is missing, though, if Specter leaves out the id of the message.
NotificationsKeepTheirShape ==
    sent # NoNotification =>
        \E shape \in Shapes :
            /\ DOMAIN sent = DOMAIN shape
            /\ \A m \in DOMAIN sent :
                  \/ sent[m] \in shape[m]
                  \/ m = "alertId" /\ "message_id" \notin DOMAIN event.message

\* Between the last change that fa had processed when it read the names and the present, the
\* watchlist of the message had one of these kinds.
KindsSinceRead(id) ==
    {watchlistKindOf(id, history[v + 1]) : v \in call[Reader].floor .. version}

\* A match is critical if its watchlist is a blacklist, also when the watchlist changes while the
\* names are read or when the event overtakes the change. Without names, see the README.
BlacklistMatchesAreCritical ==
    sent.kind = "alert" /\ sent.alertKind = "identity_match" /\ call[Reader].state = "served" =>
        LET kinds == KindsSinceRead(event.message.watchlist_id)
        IN  /\ kinds = {"blacklist"} => sent.level = "critical"
            /\ sent.level = "critical" => "blacklist" \in kinds

\* A client that follows a notification to the API finds the alert under the same names, and its
\* snapshot at the same place.
NamesAgree ==
    sent.kind = "alert" /\ Member(event.message, "snapshot_path") # ""
            /\ IsTruthy(Member(event.message, "message_id")) =>
        LET alert == enrich(AlertResponse(event), Catalog)
        IN  /\ sent.cameraName = alert.camera_name
            /\ sent.watchlistName = alert.watchlist_name
            /\ sent.watchlistKind = alert.watchlist_kind
            /\ sent.targetLabel = alert.target_label
            /\ sent.snapshotUrl = alert.snapshot_url

\* The inductive invariant: the event is what the parser makes of the message; what was sent is the
\* notification of the event under the names that were read, which later changes do not touch; and
\* the names are read as LabelContract promises.
NotificationsInvariant ==
    /\ TypeOK
    /\ LabelInvariant
    /\ event = Parse(inbox.subject, inbox.fields)
    /\ sent # NoNotification =>
           /\ pc = "idle"
           /\ sent = Notification(event)
           /\ event.kind \in LabelledKinds => MayBeSent

\* An event that fa understands is never held back, for the names or for anything else
\* (specterEventRelay.ts:84).
NothingIsHeldBack == pc # "idle" ~> sent # NoNotification
===============================================================================

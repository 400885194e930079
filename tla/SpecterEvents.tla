----------------------------- MODULE SpecterEvents -----------------------------
(***************************************************************************)
(* Specter's event contract (src/src/specter/generated/eventSchemas.ts and *)
(* events.ts) and fa's parser of it (specterEventParser.ts).               *)
(*                                                                         *)
(* A message is a function from the fields it has to JSON values, and a    *)
(* JSON value is a string that names it: "0.5" is a number, "text" a       *)
(* string. A schema gives each field the values it accepts; the fields     *)
(* that are not optional are required.                                     *)
(***************************************************************************)
\* The enumerations of the contract.
EmbeddingModality == {"face", "appearance"}
CrossingDirection == {"left_to_right", "right_to_left", "either"}
RuleKind == {"zone_occupancy", "line_crossing"}
CameraStatus == {"starting", "running", "reconnecting", "stopped", "failed"}
RejectionReason == {"no_face_detected", "multiple_faces", "low_detection_score", "too_small",
                    "too_blurry", "extreme_pose", "too_dark", "too_bright", "no_person_detected",
                    "multiple_people", "unreadable_image", "processing_failed"}
ImageStatus == {"pending", "embedded", "rejected"}
ChangeKind == {"created", "updated", "deleted"}
EntityKind == {"camera", "zone", "rule", "watchlist", "target"}

Null == {"null"}
Ratio == {"0", "0.5", "1"}
Count == {"0", "1"}
Amount == {"0", "0.5", "1", "1.5"}
Time == {"a time"}
MessageBoundingBox == {"a box"}

\* A version is a string, as are ids, names and the members of the enumerations.
Versions == {"1", "1.0", "1.9", "2.0", "10.0"}
Ids == {"camera_1", "watchlist_1", "target_1"}
Text == {"", "text"} \union Ids \union Versions \union Time \union EmbeddingModality
        \union CrossingDirection \union RuleKind \union CameraStatus \union RejectionReason
        \union ImageStatus \union ChangeKind \union EntityKind

MatchConfirmed == [
    bounding_box |-> MessageBoundingBox, camera_id |-> Text, first_seen_at |-> Time,
    frame_captured_at |-> Time, margin_ratio |-> Ratio, message_id |-> Text,
    modality |-> EmbeddingModality, object_class |-> Text, occurred_at |-> Time,
    owner_id |-> Text, schema_version |-> Text, similarity_ratio |-> Ratio,
    snapshot_path |-> Text \union Null, target_id |-> Text, threshold_ratio |-> Ratio,
    track_id |-> Count, watchlist_id |-> Text]

RuleTriggered == [
    bounding_box |-> MessageBoundingBox, camera_id |-> Text,
    crossing_direction |-> CrossingDirection \union Null, dwell_seconds |-> Amount \union Null,
    frame_captured_at |-> Time, message_id |-> Text, object_class |-> Text,
    occurred_at |-> Time, owner_id |-> Text, rule_id |-> Text, rule_kind |-> RuleKind,
    schema_version |-> Text, snapshot_path |-> Text \union Null, track_id |-> Count,
    zone_id |-> Text \union Null]

CameraStatusChanged == [
    camera_id |-> Text, message_id |-> Text, occurred_at |-> Time, owner_id |-> Text,
    schema_version |-> Text, status |-> CameraStatus]

EnrollmentStatusChanged == [
    message_id |-> Text, modality |-> EmbeddingModality, occurred_at |-> Time,
    owner_id |-> Text, quality_score_ratio |-> Ratio \union Null, reference_image_id |-> Text,
    rejection_reason |-> RejectionReason \union Null, schema_version |-> Text,
    status |-> ImageStatus, target_id |-> Text]

ConfigurationChanged == [
    change_kind |-> ChangeKind, entity_id |-> Text, entity_kind |-> EntityKind,
    message_id |-> Text, occurred_at |-> Time, owner_id |-> Text, schema_version |-> Text]

Schema == [
    match_confirmed |-> MatchConfirmed,
    rule_triggered |-> RuleTriggered,
    camera_status_changed |-> CameraStatusChanged,
    enrollment_status_changed |-> EnrollmentStatusChanged,
    configuration_changed |-> ConfigurationChanged]

Kinds == DOMAIN Schema

\* The fields that a schema's "required" list leaves out.
Optional == [
    match_confirmed |-> {"message_id", "schema_version", "snapshot_path"},
    rule_triggered |-> {"message_id", "schema_version", "snapshot_path", "crossing_direction",
                        "dwell_seconds", "zone_id"},
    camera_status_changed |-> {"message_id", "schema_version"},
    enrollment_status_changed |-> {"message_id", "schema_version", "quality_score_ratio",
                                   "rejection_reason"},
    configuration_changed |-> {"message_id", "schema_version"}]

Fields(kind) == DOMAIN Schema[kind]

-------------------------------------------------------------------------------
(* The types that fa's code is compiled against: what a member may be, and *)
(* which members may be missing.                                           *)

\* Members that are neither missing nor null are read without a check.
MatchConfirmedMessage ==
    [missing |-> {"message_id", "schema_version", "snapshot_path"}, null |-> {"snapshot_path"}]
RuleTriggeredMessage ==
    [missing |-> {"crossing_direction", "dwell_seconds", "message_id", "schema_version",
                  "snapshot_path", "zone_id"},
     null |-> {"crossing_direction", "dwell_seconds", "snapshot_path", "zone_id"}]
CameraStatusChangedMessage ==
    [missing |-> {"message_id", "schema_version"}, null |-> {}]
EnrollmentStatusChangedMessage ==
    [missing |-> {"message_id", "quality_score_ratio", "rejection_reason", "schema_version"},
     null |-> {"quality_score_ratio", "rejection_reason"}]
ConfigurationChangedMessage ==
    [missing |-> {"message_id", "schema_version"}, null |-> {}]

SpecterEventTypes == [
    match_confirmed |-> MatchConfirmedMessage,
    rule_triggered |-> RuleTriggeredMessage,
    camera_status_changed |-> CameraStatusChangedMessage,
    enrollment_status_changed |-> EnrollmentStatusChangedMessage,
    configuration_changed |-> ConfigurationChangedMessage]

IsTyped(kind, message) ==
    /\ Fields(kind) \ DOMAIN message \subseteq SpecterEventTypes[kind].missing
    /\ DOMAIN message \subseteq Fields(kind)
    /\ \A f \in DOMAIN message : message[f] \in Null => f \in SpecterEventTypes[kind].null

-------------------------------------------------------------------------------
(* parseSpecterEvent *)

Without(f, fields) == [g \in DOMAIN f \ fields |-> f[g]]
Restricted(f, fields) == [g \in DOMAIN f \intersect fields |-> f[g]]

\* The two patterns of subjects: a camera's and the owner's.
CameraEvents == {"match_confirmed", "rule_triggered", "status_changed"}
OwnerEvents == {"enrollment.status_changed", "configuration.changed"}
KIND_BY_SUBJECT_EVENT == [e \in CameraEvents \union OwnerEvents |->
    CASE e = "status_changed" -> "camera_status_changed"
      [] e = "enrollment.status_changed" -> "enrollment_status_changed"
      [] e = "configuration.changed" -> "configuration_changed"
      [] OTHER -> e]

KindsOfSubject(subject) ==
    IF \/ subject.scope = "camera" /\ subject.event \in CameraEvents
       \/ subject.scope = "owner" /\ subject.event \in OwnerEvents
        THEN {KIND_BY_SUBJECT_EVENT[subject.event]}
        ELSE {}

\* Of a message without a version, or with null for one, the version is 1.0.
SchemaVersion(message) ==
    IF "schema_version" \notin DOMAIN message \/ message.schema_version \in Null
        THEN "1.0"
        ELSE message.schema_version

IsSupportedByPrefix(version) == version \in {"1", "1.0", "1.9", "10.0"}
IsSupported(version) == version \in {"1", "1.0", "1.9"}

\* Fields that the schema does not know are removed before the others are checked.
Validates(kind, message) ==
    /\ Fields(kind) \ Optional[kind] \subseteq DOMAIN message
    /\ \A f \in DOMAIN message \intersect Fields(kind) : message[f] \in Schema[kind][f]

Rejected == [kind |-> "invalid"]

Parse(subject, message) ==
    IF \E kind \in KindsOfSubject(subject) :
           IsSupported(SchemaVersion(message)) /\ Validates(kind, message)
        THEN LET kind == CHOOSE k \in KindsOfSubject(subject) : TRUE
             IN  [kind |-> kind, message |-> Restricted(message, Fields(kind))]
        ELSE Rejected
===============================================================================

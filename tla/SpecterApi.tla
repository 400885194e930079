------------------------------- MODULE SpecterApi -------------------------------
(***************************************************************************)
(* Specter's HTTP contract (src/src/specter/generated/openapi.ts), as far  *)
(* as fa calls it, with the calls that fa's services make and the routes   *)
(* that lead to them.                                                      *)
(*                                                                         *)
(* An operation of Specter has a verb, the ids in its path, the status of  *)
(* its success and what that answer holds. A route of fa has a verb, the   *)
(* roles it lets in, the ids that it checks before its handler runs, the   *)
(* operations that the handler may call with ids of the client, and the    *)
(* status of its success. Schemas of bodies are left out: fa passes bodies *)
(* on, and Specter validates them.                                         *)
(***************************************************************************)
EXTENDS Naturals

Operation(verb, path, success, answer) ==
    [verb |-> verb, path |-> path, success |-> success, answer |-> answer]

Reads(path) == Operation("GET", path, 200, "data")
ReadsImage(path) == Operation("GET", path, 200, "image")
Creates(path) == Operation("POST", path, 201, "data")
Performs(path) == Operation("POST", path, 200, "data")
Updates(path) == Operation("PATCH", path, 200, "data")
Removes(path) == Operation("DELETE", path, 204, "nothing")

\* One function of several with different domains.
Merged(functions) ==
    [x \in UNION {DOMAIN f : f \in functions} |-> (CHOOSE f \in functions : x \in DOMAIN f)[x]]

-------------------------------------------------------------------------------
(* The contract. *)

AlertList == [list_all_alerts |-> Reads({})]

AlertSummary == [summarize_owner_alerts |-> Reads({})]

AlertOperations == [
    read_alert |-> Reads({"alert"}),
    acknowledge_alert |-> Performs({"alert"}),
    resolve_alert |-> Performs({"alert"}),
    read_snapshot |-> ReadsImage({"alert"})]

CameraOperations == [
    list_cameras |-> Reads({}),
    create_camera |-> Creates({}),
    read_camera |-> Reads({"camera"}),
    remove_camera |-> Removes({"camera"}),
    update_camera |-> Updates({"camera"})]

LiveFrame == [read_frame |-> ReadsImage({"camera"})]

RuleLists == [list_rules |-> Reads({"camera"}), create_rule |-> Creates({"camera"})]

RuleOperations == [
    remove_rule |-> Removes({"camera", "rule"}),
    update_rule |-> Updates({"camera", "rule"})]

StartAndStop == [start_camera |-> Performs({"camera"}), stop_camera |-> Performs({"camera"})]

ZoneLists == [list_zones |-> Reads({"camera"}), create_zone |-> Creates({"camera"})]

ZoneOperations == [
    remove_zone |-> Removes({"camera", "zone"}),
    update_zone |-> Updates({"camera", "zone"})]

EnrollmentBatch == [read_enrollment_batch |-> Reads({"enrollment_batch"})]

WatchlistOperations == [
    list_watchlists |-> Reads({}),
    create_watchlist |-> Creates({}),
    read_watchlist |-> Reads({"watchlist"}),
    remove_watchlist |-> Removes({"watchlist"}),
    update_watchlist |-> Updates({"watchlist"})]

TargetOperations == [
    list_targets |-> Reads({"watchlist"}),
    create_targets |-> Creates({"watchlist"}),
    read_target |-> Reads({"watchlist", "target"}),
    remove_target |-> Removes({"watchlist", "target"}),
    update_target |-> Updates({"watchlist", "target"})]

ImageOperations == [
    add_images |-> Creates({"watchlist", "target"}),
    read_image |-> ReadsImage({"watchlist", "target", "image"}),
    remove_image |-> Removes({"watchlist", "target", "image"})]

ContractGroups ==
    {AlertList, AlertSummary, AlertOperations, CameraOperations, LiveFrame, RuleLists,
     RuleOperations, StartAndStop, ZoneLists, ZoneOperations, EnrollmentBatch,
     WatchlistOperations, TargetOperations, ImageOperations}

Contract == Merged(ContractGroups)

Operations == DOMAIN Contract

-------------------------------------------------------------------------------
(* What fa's services make of the answer of each operation: its data, a    *)
(* stream for fa's client, or nothing.                                     *)

Uses(ops, use) == [op \in ops |-> use]

WatchlistService == Merged({
    Uses({"list_watchlists", "create_watchlist", "read_watchlist", "update_watchlist",
          "list_targets", "create_targets", "read_target", "update_target", "add_images",
          "read_enrollment_batch"}, "data"),
    Uses({"remove_watchlist", "remove_target", "remove_image"}, "nothing"),
    Uses({"read_image"}, "image")})

SpecterCameraRepository == Merged({
    Uses({"create_camera", "read_camera", "list_cameras", "update_camera", "start_camera",
          "stop_camera"}, "data"),
    Uses({"remove_camera"}, "nothing")})

CameraSettingsService == Merged({
    Uses({"list_zones", "create_zone", "update_zone", "list_rules", "create_rule",
          "update_rule"}, "data"),
    Uses({"remove_zone", "remove_rule"}, "nothing")})

SpecterAlertRepository == Merged({
    Uses({"list_all_alerts", "summarize_owner_alerts", "read_alert", "acknowledge_alert",
          "resolve_alert"}, "data"),
    Uses({"read_snapshot"}, "image")})

LiveController == Uses({"read_frame"}, "image")

Services ==
    {WatchlistService, SpecterCameraRepository, CameraSettingsService, SpecterAlertRepository,
     LiveController}

-------------------------------------------------------------------------------
(* fa's routes. *)

Route(verb, roles, checked, calls, success) ==
    [verb |-> verb, roles |-> roles, checked |-> checked, calls |-> calls, success |-> success]

Admin == {"admin"}
Managers == {"admin", "operator"}
Everyone == {"admin", "operator", "viewer"}

WatchlistRoutes == {
    Route("GET", Managers, {}, {"list_watchlists"}, 200),
    Route("POST", Managers, {}, {"create_watchlist"}, 201),
    Route("GET", Managers, {"watchlist"}, {"read_watchlist"}, 200),
    Route("PATCH", Managers, {"watchlist"}, {"update_watchlist"}, 200),
    Route("DELETE", Managers, {"watchlist"}, {"remove_watchlist"}, 200),
    Route("GET", Managers, {"watchlist"}, {"list_targets"}, 200),
    Route("POST", Managers, {"watchlist"}, {"create_targets"}, 201),
    Route("GET", Managers, {"watchlist", "target"}, {"read_target"}, 200),
    Route("PATCH", Managers, {"watchlist", "target"}, {"update_target"}, 200),
    Route("DELETE", Managers, {"watchlist", "target"}, {"remove_target"}, 200),
    Route("POST", Managers, {"watchlist", "target"}, {"add_images"}, 201),
    Route("GET", Managers, {"watchlist", "target", "image"}, {"read_image"}, 200),
    Route("DELETE", Managers, {"watchlist", "target", "image"}, {"remove_image"}, 200),
    Route("GET", Managers, {"enrollment_batch"}, {"read_enrollment_batch"}, 200)}

CameraRoutes == {
    Route("POST", Managers, {}, {"create_camera"}, 201),
    Route("GET", Everyone, {}, {"list_cameras"}, 200),
    Route("GET", Everyone, {"camera"}, {"read_camera"}, 200),
    Route("PUT", Managers, {"camera"}, {"read_camera", "update_camera"}, 200),
    Route("DELETE", Admin, {"camera"}, {"read_camera", "remove_camera"}, 200),
    Route("POST", Managers, {"camera"}, {"read_camera", "start_camera"}, 202),
    Route("POST", Managers, {"camera"}, {"read_camera", "stop_camera"}, 202),
    Route("POST", Managers, {"camera", "user"}, {"read_camera"}, 201),
    Route("DELETE", Managers, {"camera", "user"}, {"read_camera"}, 200),
    Route("GET", Managers, {"camera"}, {"read_camera"}, 200),
    Route("GET", Everyone, {"camera"}, {"read_camera", "list_zones"}, 200),
    Route("POST", Managers, {"camera"}, {"read_camera", "create_zone"}, 201),
    Route("PATCH", Managers, {"camera", "zone"}, {"read_camera", "update_zone"}, 200),
    Route("DELETE", Managers, {"camera", "zone"}, {"read_camera", "remove_zone"}, 200),
    Route("GET", Everyone, {"camera"}, {"read_camera", "list_rules"}, 200),
    Route("POST", Managers, {"camera"}, {"read_camera", "create_rule"}, 201),
    Route("PATCH", Managers, {"camera", "rule"}, {"read_camera", "update_rule"}, 200),
    Route("DELETE", Managers, {"camera", "rule"}, {"read_camera", "remove_rule"}, 200),
    Route("GET", Everyone, {"camera"}, {"read_camera", "read_frame"}, 200),
    Route("POST", Everyone, {"camera"}, {"read_camera"}, 200)}

AlertRoutes == {
    Route("GET", Everyone, {"camera"}, {"list_cameras", "list_all_alerts"}, 200),
    Route("GET", Everyone, {"camera"}, {"list_cameras", "summarize_owner_alerts"}, 200),
    Route("GET", Everyone, {"alert"}, {"read_alert", "list_cameras"}, 200),
    Route("POST", Everyone, {"alert"}, {"read_alert", "list_cameras", "acknowledge_alert"}, 200),
    Route("POST", Managers, {"alert"}, {"read_alert", "list_cameras", "resolve_alert"}, 200),
    Route("GET", Everyone, {"alert"}, {"read_alert", "list_cameras", "read_snapshot"}, 200)}

DashboardRoutes == {
    Route("GET", Everyone, {}, {"list_cameras", "summarize_owner_alerts"}, 200)}

Routes == WatchlistRoutes \union CameraRoutes \union AlertRoutes \union DashboardRoutes

-------------------------------------------------------------------------------
\* A call of a service uses its operation's answer for what it holds, and a route that only reads
\* calls nothing that changes Specter's state; one that creates something says so. The ids of
\* clients are checked before they reach a URL of Specter (specterHttpClient.ts:6-7,78), on every
\* route to an operation that has them in its path.
ASSUME CallsKeepTheContract ==
    /\ \A service \in Services : \A op \in DOMAIN service :
          service[op] # "nothing" => service[op] = Contract[op].answer
    /\ \A route \in Routes : \A op \in route.calls :
          /\ route.verb = "GET" => Contract[op].verb = "GET"
          /\ Contract[op].success = 201 => route.success = 201
          /\ Contract[op].path \subseteq route.checked
================================================================================

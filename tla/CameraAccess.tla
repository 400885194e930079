------------------------------ MODULE CameraAccess ------------------------------
(***************************************************************************)
(* Who may do what with a camera: the rules of                             *)
(* src/src/cameras/domain/cameraAccess.ts, the roles that the routes of    *)
(* cameras and alerts let in, and the access that each operation of the    *)
(* services asks for.                                                      *)
(***************************************************************************)

Roles == {"admin", "operator", "viewer"}
MANAGER_ROLES == {"admin", "operator"}

-------------------------------------------------------------------------------
(* Admins see every camera, operators the ones they created or were        *)
(* assigned, viewers assigned ones.                                        *)

isOperatorOfCamera(role, isCreator, isAssigned) == role = "operator" /\ (isCreator \/ isAssigned)

canViewCamera(role, isCreator, isAssigned) ==
    \/ role = "admin"
    \/ isOperatorOfCamera(role, isCreator, isAssigned)
    \/ role = "viewer" /\ isAssigned

canManageCamera(role, isCreator, isAssigned) ==
    role = "admin" \/ isOperatorOfCamera(role, isCreator, isAssigned)

canManageAssignments(role, isCreator) == role = "admin" \/ (role = "operator" /\ isCreator)

-------------------------------------------------------------------------------
(* The operations on one camera: of cameraService.ts, cameraSettingsService.ts and            *)
(* liveController.ts, by the access that they ask for.                                        *)

Viewing == {"getCameraById", "issueTicket", "readFrame", "listZones", "listRules"}
Managing == {"updateCamera", "updateLocation", "deleteCamera", "startCamera", "stopCamera",
             "createZone", "updateZone", "deleteZone", "createRule", "updateRule", "deleteRule"}
Assigning == {"assignCamera", "removeAssignment", "getAssignments"}
OfCamera == Viewing \union Managing \union Assigning

\* The operations on one alert, and on lists (alertService.ts, cameraService.ts).
OfAlert == {"getAlert", "acknowledgeAlert", "resolveAlert", "readSnapshot"}
OfLists == {"getCameras", "listAlerts", "summarizeAlerts"}

Operations == OfCamera \union OfAlert \union OfLists \union {"createCamera"}

\* requireRole of the routes; resolveAlert and createCamera ask for the role once more.
RolesOf(op) ==
    IF op = "deleteCamera" THEN {"admin"}
    ELSE IF op \in Managing \union Assigning \union {"createCamera", "resolveAlert"}
        THEN MANAGER_ROLES
    ELSE Roles

Permits(op, role, isCreator, isAssigned) ==
    CASE op \in Managing -> canManageCamera(role, isCreator, isAssigned)
      [] op \in Assigning -> canManageAssignments(role, isCreator)
      [] OTHER -> canViewCamera(role, isCreator, isAssigned)
================================================================================

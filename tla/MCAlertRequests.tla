---------------------------- MODULE MCAlertRequests ----------------------------
(***************************************************************************)
(* AlertRequests for TLC: an admin, an operator and a viewer, and one      *)
(* operation for each way through the services.                            *)
(***************************************************************************)
EXTENDS AlertRequests, TLC

CONSTANTS Alice, Oscar, Vera

MCRoleOf == Alice :> "admin" @@ Oscar :> "operator" @@ Vera :> "viewer"
MCTried == {"createCamera", "getCameraById", "updateCamera", "updateLocation",
            "deleteCamera", "assignCamera", "removeAssignment", "getAssignments", "getCameras",
            "listAlerts", "resolveAlert"}
RequestSymmetry == Permutations(Requests) \union Permutations(Cameras)
================================================================================

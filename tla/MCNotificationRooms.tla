-------------------------- MODULE MCNotificationRooms --------------------------
(***************************************************************************)
(* NotificationRooms for TLC: an admin with a viewer or an operator, who   *)
(* may have created the camera, and a connection each. The viewer is in no *)
(* role that hears of configuration changes.                               *)
(***************************************************************************)
EXTENDS NotificationRooms

CONSTANTS
    Alice, Oscar, Vera,
    AliceTab, OscarTab, VeraTab,
    Gate, Yard

MCRoleOf == [u \in Users |-> CASE u = Alice -> "admin" [] u = Oscar -> "operator" [] OTHER -> "viewer"]
MCUserOf == [s \in Sockets |-> CASE s = AliceTab -> Alice [] s = OscarTab -> Oscar [] OTHER -> Vera]
MCCreatorOf == [c \in Cameras |-> IF c = Yard /\ Oscar \in Users THEN Oscar ELSE Alice]
================================================================================

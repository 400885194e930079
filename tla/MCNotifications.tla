---------------------------- MODULE MCNotifications ----------------------------
(***************************************************************************)
(* Notifications for TLC: one change of the configuration, wrong values of *)
(* every JSON type in every field of every message, and a time to live     *)
(* that ends with the only tick, so that a read may know of a change whose *)
(* event was missed.                                                       *)
(***************************************************************************)
EXTENDS Notifications

MCParts == {"cameras", "watchlists", "targets"}
MCOdd == {"null", "", "text", "1.5", "a list", "1.9", "10.0"}
================================================================================

------------------------------ MODULE MCLiveRelay ------------------------------
(***************************************************************************)
(* LiveRelay and Shutdown for TLC: one viewer, one client of Socket.IO and *)
(* one request. Both the relay and the process end for good, so it may     *)
(* deadlock.                                                               *)
(***************************************************************************)
EXTENDS Shutdown
================================================================================

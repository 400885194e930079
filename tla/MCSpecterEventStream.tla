------------------------- MODULE MCSpecterEventStream -------------------------
(***************************************************************************)
(* SpecterEventStream for TLC: one stream of each delivery policy, as      *)
(* CONFIGURATION is followed like EVENTS, and the two handlers that        *)
(* index.ts registers. Delays of 2 and at most 5 make the limit cut the    *)
(* second doubling.                                                        *)
(***************************************************************************)
EXTENDS SpecterEventStream

MCNewStreams == {"EVENTS"}
MCLatestStreams == {"CAMERA_STATUS"}
NoStreams == {}
===============================================================================

--------------------------- MODULE MCSpecterCatalog ---------------------------
(***************************************************************************)
(* SpecterCatalog for TLC: two readers, so one can wait for a superseded   *)
(* load while the other starts a newer one, and a time to live of one tick *)
(* within two ticks.                                                       *)
(***************************************************************************)
EXTENDS SpecterCatalog

MCListParts == {"cameras", "watchlists"}
MCParts == MCListParts \union {"targets"}
===============================================================================

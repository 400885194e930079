--------------------------- MODULE MCSpecterRequests ---------------------------
(***************************************************************************)
(* SpecterRequests for TLC: one client asks again and again for tickets,   *)
(* another uploads images, and the tokens are rotated.                     *)
(***************************************************************************)
EXTENDS SpecterRequests, TLC

CONSTANTS r1, r2

MCCalls == r1 :> "read_camera" @@ r2 :> "add_images"
================================================================================

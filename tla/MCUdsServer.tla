----------------------------- MODULE MCUdsServer -----------------------------
(* Two ordinary calls and one whose request is refused, each of which may    *)
(* stall, on two permits and two sessions, over one swap, one death of the   *)
(* container and a shutdown.                                                 *)
EXTENDS UdsServer
===============================================================================

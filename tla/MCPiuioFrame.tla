---------------------------- MODULE MCPiuioFrame ----------------------------
(* PiuioFrame with the code's four sensor groups. *)
EXTENDS PiuioFrame

CONSTANTS dark, lit
=============================================================================

----------------------------- MODULE MCHookInit -----------------------------
(* HookInit on three threads. *)
EXTENDS HookInit

CONSTANTS t1, t2, t3
=============================================================================

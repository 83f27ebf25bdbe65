------------------------------ MODULE MCPumpnet ------------------------------
(* Pumpnet with two threads that access the same profile file. *)
EXTENDS Pumpnet, TLC

CONSTANTS t1, t2, d1, d2

\* t1 makes two calls, so that late requests of the first meet the second.
TwoAndOne == (t1 :> 2 @@ t2 :> 1)
Symmetry == Permutations({d1, d2})
=============================================================================

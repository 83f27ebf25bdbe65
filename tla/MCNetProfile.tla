---------------------------- MODULE MCNetProfile ----------------------------
(* NetProfile for the two players of a machine. *)
EXTENDS NetProfile, TLC

CONSTANTS t1, t2, h1, h2, r1, r2

Symmetry == Permutations({t1, t2}) \cup Permutations({h1, h2})
              \cup Permutations({r1, r2})

\* Bound: once a FILE was handed out early, when nothing is promised any more,
\* one more open is followed: of the slot that was being cleared, too.
LateOpens == overtaken => \E t \in Threads : opens[t] < MaxOpens
=============================================================================

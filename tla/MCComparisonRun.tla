--------------------------- MODULE MCComparisonRun ---------------------------
(* A committed pair and the working tree against the newer commit; the VI   *)
(* on disk changes once.                                                    *)
EXTENDS ComparisonRun, TLC

CONSTANTS r1, r2, c0, c1

MCPair == {[base |-> c0, selected |-> c1], [base |-> c1, selected |-> Worktree]}

Symmetry == Permutations(Run)
=============================================================================

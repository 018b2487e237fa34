--------------------------- MODULE MCAnalysisRun ---------------------------
(* AnalysisRun on a small instance: runs, matches and slots are alike.      *)
EXTENDS AnalysisRun, TLC

Symmetry == Permutations(Runs) \cup Permutations(Matches) \cup Permutations(Slots)

=============================================================================

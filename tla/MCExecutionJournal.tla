--------------------------- MODULE MCExecutionJournal ---------------------------
(* Two workers take turns on one run.                                        *)
EXTENDS ExecutionJournal, TLC

CONSTANTS w1, w2, i1, i2, e1, e2

Symmetry ==
    Permutations(Workers) \union Permutations(Identities) \union Permutations(Evidence)
================================================================================

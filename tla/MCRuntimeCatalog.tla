---------------------------- MODULE MCRuntimeCatalog ----------------------------
(* Three configurations of one control: c1 collects [e-1, e) every third     *)
(* second and at once, c2 every whole interval of two seconds and a second   *)
(* later, c3 is disabled.  A transaction may stay open for a second, longer  *)
(* than the lag of c1 and not longer than that of c2.                        *)
EXTENDS RuntimeCatalog, TLC

CONSTANTS c1, c2, c3, p1, w1, w2

MCProfileOf == [c \in Configs |-> p1]

MCSchedule ==
    [c \in Configs |->
        [enabled |-> c # c3, interval |-> IF c = c1 THEN 3 ELSE 2,
         window |-> IF c = c1 THEN 1 ELSE 2,
         lag |-> IF c = c2 THEN 1 ELSE 0]]

Symmetry == Permutations(Workers)
================================================================================

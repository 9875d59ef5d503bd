----------------------------- MODULE MCRuntimeWorker -----------------------------
(* One configuration, collected every Interval seconds, Lag seconds late.    *)
EXTENDS RuntimeWorker, TLC

CONSTANTS c1, p1, w1, w2, Interval, Lag

MCProfileOf == [c \in Configs |-> p1]

MCSchedule ==
    [c \in Configs |-> [enabled |-> TRUE, interval |-> Interval, window |-> 1, lag |-> Lag]]

Symmetry == Permutations(Workers)
================================================================================

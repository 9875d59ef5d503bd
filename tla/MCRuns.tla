-------------------------------- MODULE MCRuns --------------------------------
(* The runs of MCRuntimeCatalog, and beside them the recovery that lets the  *)
(* next lease of a run adopt what the worker of the last one was publishing. *)
(* The two share no row: one is explored while the other rests.              *)
EXTENDS MCRuntimeCatalog, PublishingRecovery

MCLeaseTimes == <<1, 4>>
MCDocuments ==
    [requests |-> 1, fences |-> 1, drains |-> 1, approvals |-> 2, authorizations |-> 2]

\* The workers of the catalog are those that publish.
RunsSymmetry == Permutations(Workers) \cup Permutations(People)

VARIABLE part    \* the part that is explored

RunsVars == <<part, rcVars, recoveryVars>>

RunsInit == part \in {"catalog", "recovery"} /\ RCInit /\ RecoveryInit

RunsNext ==
    \/ part = "catalog" /\ RCNext /\ UNCHANGED <<part, recoveryVars>>
    \/ part = "recovery" /\ RecoveryNext /\ UNCHANGED <<part, rcVars>>

RunsSpec == RunsInit /\ [][RunsNext]_RunsVars
===============================================================================

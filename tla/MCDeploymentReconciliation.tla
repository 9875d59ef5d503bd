----------------------- MODULE MCDeploymentReconciliation -----------------------
(* One maker, one checker who also deploys, two workers and one profile.    *)
EXTENDS DeploymentReconciliation, TLC

CONSTANTS ann, bob, c1, c2, c3, p1, w1, w2

MCRolesOf == (ann :> {"editor"}) @@ (bob :> {"approver", "deployer"})

MCOwnerGroup == [c \in Configs |-> {ann}]

MCProfileOf == [c \in Configs |-> p1]

Symmetry == Permutations(Workers)

\* The audit trail grows with every step and no guard reads it.
WithoutAudit ==
    <<revisions, decisions, active, operations, rtVars, workerVars, faults>>
================================================================================

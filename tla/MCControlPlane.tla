----------------------------- MODULE MCControlPlane -----------------------------
(* Two people who may each make, check and deploy, and an editor without    *)
(* the other roles: the smallest staff in which every maker/checker rule    *)
(* can be obeyed and broken.                                                *)
EXTENDS ControlPlane, TLC

CONSTANTS ann, bob, eve, w1, c1, c2

MCRolesOf ==
    (ann :> {"editor", "approver", "deployer"}) @@
    (bob :> {"editor", "approver", "deployer"}) @@
    (eve :> {"editor"})

MCOwnerGroup == [c \in Configs |-> {ann, bob}]

Symmetry == Permutations({ann, bob}) \union Permutations({c1, c2})
================================================================================

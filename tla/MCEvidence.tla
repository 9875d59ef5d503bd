------------------------------ MODULE MCEvidence ------------------------------
(***************************************************************************)
(* What happens to evidence, one part at a time: its admission to the      *)
(* ledger, the two custody stores, and the publication that uses the       *)
(* second.                                                                 *)
(*                                                                         *)
(* Admission has two services on one ledger, two tenants, three leases     *)
(* under two revisions of one trust policy and a fork of the second.       *)
(* Ana's second key is Eve's under the fork, where it expires.             *)
(***************************************************************************)
EXTENDS EvidenceAdmission, FilesystemCustody, ManagedPublication, TLC

Key(id, who, until) ==
    [id |-> id, material |-> id, identity |-> who, types |-> {Statement},
     from |-> 1, until |-> until, status |-> "active", revoked |-> Nil]

PolicyOf(threshold, k2) ==
    [threshold |-> threshold, keys |-> {Key("k1", "ana", Nil), k2, Key("k3", "bob", Nil)}]

TheDocuments == [one |-> PolicyOf(2, Key("k2", "ana", Nil)),
                 two |-> PolicyOf(2, Key("k2", "ana", Nil)),
                 fork |-> PolicyOf(1, Key("k2", "eve", 2))]

Lease1 == [tenant |-> "t1", collector |-> "c", job |-> "j1", epoch |-> 1, sequence |-> 1,
           policy |-> [id |-> "p", revision |-> 1, digest |-> "one"],
           issued |-> 1, expires |-> 3]
Lease2 == [Lease1 EXCEPT !.job = "j2", !.epoch = 2, !.expires = 2,
                         !.policy = [id |-> "p", revision |-> 2, digest |-> "two"]]
Lease3 == [Lease1 EXCEPT !.tenant = "t2", !.job = "j3",
                         !.policy = [id |-> "p", revision |-> 2, digest |-> "fork"]]
TheTemplates == {Lease1, Lease2, Lease3}

By(k) == [key |-> k, genuine |-> TRUE]
TheSignatures == [j1 |-> {<<By("k2"), By("k3")>>},
                  j2 |-> {<<By("k1"), By("k2")>>, <<By("k2"), By("k3")>>},
                  j3 |-> {<<By("k1"), By("k2")>>}]

Runtime(source, environment, bucketName, key) ==
    [source |-> source, environment |-> environment, bucket |-> bucketName, signer |-> key]

MCPlan == Runtime("s", "e", "b", "k")
MCRuntimes == {MCPlan, Runtime("s", "e", "c", "k")}

\* The same processes admit, persist and publish.
EvidenceSymmetry == Permutations(Clients)

VARIABLE part    \* the part that is explored; the others stay in their initial state

EvidenceVars == <<part, admissionVars, custodyVars, publicationVars>>

EvidenceInit ==
    /\ part \in {"admission", "filesystem", "publication"}
    /\ AdmissionInit /\ CustodyInit /\ PublicationInit

EvidenceNext ==
    \/ /\ part = "admission"
       /\ AdmissionNext
       /\ UNCHANGED <<part, custodyVars, publicationVars>>
    \/ /\ part = "filesystem"
       /\ CustodyNext
       /\ UNCHANGED <<part, admissionVars, publicationVars>>
    \/ /\ part = "publication"
       /\ PublicationNext
       /\ UNCHANGED <<part, admissionVars, custodyVars>>

EvidenceSpec == EvidenceInit /\ [][EvidenceNext]_EvidenceVars
===============================================================================

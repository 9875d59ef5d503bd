-------------------------- MODULE ManagedPublication --------------------------
(***************************************************************************)
(* publish_managed_evidence (runtime/evidence_publication.py): the source  *)
(* is captured once into a CAB in the workspace of the run's artifact set, *)
(* the CAB is streamed into a snapshot, the snapshot's objects and a       *)
(* signed closure over their acknowledgements enter S3 custody, and the    *)
(* publication is returned when every exact version has been read again.   *)
(*                                                                         *)
(* Several processes may publish one run: a worker that lost its lease is  *)
(* not stopped, and a process that dies is replaced by another.  All of    *)
(* them work from the frozen plan, so they ask for one retention date.     *)
(***************************************************************************)
EXTENDS S3Custody

CONSTANTS Runtimes,     \* the configurations a process may have been started with
          Plan,         \* the one the frozen plan and its environment identity name
          Blobs,        \* how many blobs a snapshot has
          MaxCaptures,  \* bound: captures of the source
          MaxAttempts   \* bound: calls of publish_managed_evidence

\* What a capture is made of: its number, and what the verifiers of the connector's receipt
\* and of the PAM receipt find wrong with it.
Flaws == {{}, {"receipt"}, {"pam"}}
CapturedEvidence == [capture : Nat, flaws : Flaws]

\* A directory of the workspace: the capture it holds and whether it holds all of it.
WorkspaceDirectories == [evidence : CapturedEvidence, whole : BOOLEAN]

ASSUME ManagedPublicationConstants ==
    /\ Plan \in Runtimes
    /\ Blobs \in Nat
    /\ MaxCaptures \in Nat
    /\ MaxAttempts \in Nat
    /\ Nil \notin WorkspaceDirectories

VARIABLES cab, snapshot,  \* the two directories of the workspace, or Nil
          publisher,      \* what each process is doing
          captures, attempts,
          publications    \* what has been returned

workspaceVars == <<cab, snapshot, publisher, captures, attempts, publications>>
publicationVars == <<bucketVars, workspaceVars>>

NotPublishing == [step |-> "idle"]

PublicationInit ==
    /\ S3Init
    /\ cab = Nil /\ snapshot = Nil
    /\ publisher = [p \in Clients |-> NotPublishing]
    /\ captures = 0
    /\ attempts = 0
    /\ publications = {}

Directory(evidence, whole) == [evidence |-> evidence, whole |-> whole]

AtStep(p, step) == publisher[p].step = step
Goto(p, step) == publisher' = [publisher EXCEPT ![p].step = step]

-------------------------------------------------------------------------------
(* What the process was started with is what was planned. *)

SourceBound(runtime) == runtime.source = Plan.source
EnvironmentBound(runtime) == runtime.environment = Plan.environment
AnchorsBound(runtime) == runtime.bucket = Plan.bucket /\ runtime.signer = Plan.signer

\* Every anchor is derived again before the first effect outside the process.
Begins(p, runtime, evidence, step) ==
    /\ AtStep(p, "idle")
    /\ attempts < MaxAttempts
    /\ attempts' = attempts + 1
    /\ SourceBound(runtime)
    /\ EnvironmentBound(runtime)
    /\ AnchorsBound(runtime)
    /\ publisher' = [publisher EXCEPT ![p] =
          [step |-> step, runtime |-> runtime, evidence |-> evidence, acks |-> <<>>]]

-------------------------------------------------------------------------------
(* _stage_snapshot *)

Captured(n, flaws) == [capture |-> n, flaws |-> flaws]
VerifiedCapture(evidence) == "receipt" \notin evidence.flaws
VerifiedPam(evidence) == "pam" \notin evidence.flaws

\* What the verification of the capture gives is recomputed from the entries read back.
EntriesVerify(evidence) == VerifiedCapture(evidence) /\ VerifiedPam(evidence)

\* verify_streamed_cab_snapshot: the descriptor is there, and the blobs it names are.
SnapshotVerifies(directory) == directory # Nil /\ directory.whole

\* verify_streamed_managed_connector_evidence_bundle: both, once more.
Reopens(directory) == SnapshotVerifies(directory) /\ EntriesVerify(directory.evidence)

\* A snapshot that is there is verified and used; one that is not whole is an error, and
\* stays one.
StageSnapshot(p, runtime) ==
    /\ Reopens(snapshot)
    /\ Begins(p, runtime, snapshot.evidence, "seal")
    /\ UNCHANGED <<cab, snapshot, captures, publications>>

\* Without one, a CAB that is there and verifies is streamed.
StageCab(p, runtime) ==
    /\ snapshot = Nil
    /\ cab # Nil
    /\ cab.whole
    /\ Begins(p, runtime, cab.evidence, "stream")
    /\ UNCHANGED <<cab, snapshot, captures, publications>>

\* With neither, the source is to be captured.
StageCapture(p, runtime) ==
    /\ snapshot = Nil
    /\ cab = Nil
    /\ Begins(p, runtime, Nil, "capture")
    /\ UNCHANGED <<cab, snapshot, captures, publications>>

CaptureSource(p) ==
    /\ AtStep(p, "capture")
    /\ captures < MaxCaptures
    /\ captures' = captures + 1
    /\ \E flaws \in Flaws :
          publisher' = [publisher EXCEPT ![p] =
             [@ EXCEPT !.evidence = Captured(captures', flaws), !.step = "write"]]
    /\ UNCHANGED <<cab, snapshot, attempts, publications>>

\* write_managed_connector_evidence_bundle: the capture verifies, the snapshot's place is
\* free; write_bundle makes the directory of the CAB, which must not exist, and fills it.
MakeCab(p) ==
    /\ AtStep(p, "write")
    /\ snapshot = Nil
    /\ EntriesVerify(publisher[p].evidence)
    /\ cab = Nil
    /\ cab' = Directory(publisher[p].evidence, FALSE)
    /\ Goto(p, "fill")
    /\ UNCHANGED <<snapshot, captures, attempts, publications>>

FillCab(p) ==
    /\ AtStep(p, "fill")
    /\ cab' = [cab EXCEPT !.whole = TRUE]
    /\ Goto(p, "filled")
    /\ UNCHANGED <<snapshot, captures, attempts, publications>>

\* The CAB is accepted as the independent verifier reads it.
AcceptCab(p) ==
    /\ AtStep(p, "filled")
    /\ Goto(p, "stream")
    /\ UNCHANGED <<cab, snapshot, captures, attempts, publications>>

\* Otherwise, or when a write fails, the directory this call made is removed, whoever has
\* begun to read it.
RemoveCab(p) ==
    /\ publisher[p].step \in {"fill", "filled"}
    /\ cab' = Nil
    /\ publisher' = [publisher EXCEPT ![p] = NotPublishing]
    /\ UNCHANGED <<snapshot, captures, attempts, publications>>

\* Fault: a snapshot directory that is there is written into.
SnapshotPlaceAny == TRUE

\* _create_pinned_directory: mkdir, which fails when the name is taken.
SnapshotPlaceFree == snapshot = Nil

\* capture_streamed_cab_snapshot: the CAB was verified, its snapshot's directory is made.
MakeSnapshot(p) ==
    /\ AtStep(p, "stream")
    /\ SnapshotPlaceFree
    /\ snapshot' = Directory(publisher[p].evidence, FALSE)
    /\ Goto(p, "copy")
    /\ UNCHANGED <<cab, captures, attempts, publications>>

StillHolds(directory, evidence) ==
    SnapshotVerifies(directory) /\ directory.evidence = evidence

\* The manifest is still that of the CAB verified, every file is copied, the descriptor
\* is written last.
CopyBlobs(p) ==
    /\ AtStep(p, "copy")
    /\ StillHolds(cab, publisher[p].evidence)
    /\ snapshot' = [snapshot EXCEPT !.whole = TRUE]
    /\ Goto(p, "copied")
    /\ UNCHANGED <<cab, captures, attempts, publications>>

\* The CAB is verified again, then the snapshot.
CloseSnapshot(p) ==
    /\ AtStep(p, "copied")
    /\ StillHolds(cab, publisher[p].evidence)
    /\ StillHolds(snapshot, publisher[p].evidence)
    /\ Reopens(snapshot)
    /\ Goto(p, "seal")
    /\ UNCHANGED <<cab, snapshot, captures, attempts, publications>>

-------------------------------------------------------------------------------
(* seal_streamed_cab_snapshot *)

\* The descriptor and then each blob has an acknowledgement: the objects of the receipt
\* are exactly those the descriptor names (_object_claims).
ClosesOver(acks) == Len(acks) = 1 + Blobs

\* The objects of a snapshot under its CAB's scope: the descriptor and the blobs in the
\* order of their digests.
ComponentKey(evidence, n) == <<evidence.capture, n, <<>>>>

\* Fault: the receipt is dated, so that signing it again gives another closure.
DatedClosureKey(evidence, acks) ==
    <<evidence.capture, 2 + Blobs + Cardinality(publications), acks>>

\* The closure: the acknowledgements in it and the signature over them, which is a
\* function of these, make its bytes.
ClosureKey(evidence, acks) == <<evidence.capture, 0, acks>>

\* The descriptor from memory and each blob from its file, one after the other.
PutComponent(p) ==
    LET n == Len(publisher[p].acks) + 1
        key == ComponentKey(publisher[p].evidence, n)
    IN
    /\ AtStep(p, "seal")
    /\ ~ClosesOver(publisher[p].acks)
    /\ \/ n = 1 /\ PutBytes(p, key)
       \/ n > 1 /\ PutFile(p, key, StillHolds(snapshot, publisher[p].evidence))
    /\ UNCHANGED workspaceVars

\* With every acknowledgement there, the snapshot is verified again, and the receipt is
\* signed and put.
PutClosure(p) ==
    /\ AtStep(p, "seal")
    /\ ClosesOver(publisher[p].acks)
    /\ StillHolds(snapshot, publisher[p].evidence)
    /\ PutBytes(p, ClosureKey(publisher[p].evidence, publisher[p].acks))
    /\ UNCHANGED workspaceVars

\* verify_acknowledgement_scope: the key is one of this CAB.
InScope(evidence, acknowledgement) == acknowledgement[1][1] = evidence.capture

\* The acknowledgement is within the scope and joins the receipt, or is the closure's own.
TakeAcknowledgement(p) ==
    /\ AtStep(p, "seal")
    /\ AcknowledgePut(p)
    /\ InScope(publisher[p].evidence, Acknowledgement(p))
    /\ \/ ClosesOver(publisher[p].acks) /\ Goto(p, "sealed")
       \/ /\ ~ClosesOver(publisher[p].acks)
          /\ publisher' = [publisher EXCEPT ![p].acks = Append(@, put[p].version)]
    /\ UNCHANGED <<cab, snapshot, captures, attempts, publications>>

\* verify_stream_custody_closure with online_reverify: the receipt closes over the exact
\* set, and every version is read again.
ClosureVerifies(evidence, acks, closure) ==
    /\ ClosesOver(acks)
    /\ \A n \in DOMAIN acks : Reverified(ComponentKey(evidence, n), acks[n])
    /\ Reverified(closure.key, closure.version)

\* The closure exercised the custody and the signer of the plan.
CustodyAnchored(runtime) == AnchorsBound(runtime)

VerifyCustody(p) ==
    /\ AtStep(p, "sealed")
    /\ StillHolds(snapshot, publisher[p].evidence)
    /\ ClosureVerifies(publisher[p].evidence, publisher[p].acks, put[p])
    /\ Reopens(snapshot)
    /\ CustodyAnchored(publisher[p].runtime)
    /\ Goto(p, "sign")
    /\ UNCHANGED <<bucketVars, cab, snapshot, captures, attempts, publications>>

\* ManagedExecutionReceipt: the acknowledgement is of this closure of this snapshot.
ReceiptCloses(mine, closure) == closure.key = ClosureKey(mine.evidence, mine.acks)

\* verify_managed_evidence_executor_receipt: the receipt is that of the plan, and every
\* version is read once more.
ReceiptVerifies(mine, closure) ==
    /\ SourceBound(mine.runtime)
    /\ EnvironmentBound(mine.runtime)
    /\ CustodyAnchored(mine.runtime)
    /\ ClosureVerifies(mine.evidence, mine.acks, closure)

Publication(mine, closure) ==
    [evidence |-> mine.evidence, acks |-> mine.acks, closure |-> closure]

\* The execution receipt over evidence, closure and acknowledgement is signed, read back,
\* verified, and returned.
ReturnPublication(p) ==
    /\ AtStep(p, "sign")
    /\ ReceiptCloses(publisher[p], put[p])
    /\ ReceiptVerifies(publisher[p], put[p])
    /\ publications' = publications \cup {Publication(publisher[p], put[p])}
    /\ publisher' = [publisher EXCEPT ![p] = NotPublishing]
    /\ put' = [put EXCEPT ![p] = NoPut]
    /\ UNCHANGED <<bucket, late, acked, lost, outside, cab, snapshot, captures, attempts>>

\* The call fails or the process dies, at any point: whatever it has made stays as it is.
\* A request that is out may still be carried out, one refused with an HTTP error that is
\* no conflict too.
Abandon(p) ==
    /\ ~AtStep(p, "idle")
    /\ publisher' = [publisher EXCEPT ![p] = NotPublishing]
    /\ put' = [put EXCEPT ![p] = NoPut]
    /\ LoseAnswer(p) \/ UNCHANGED <<late, lost>>
    /\ UNCHANGED <<bucket, acked, outside, cab, snapshot, captures, attempts, publications>>

LocalStep(p) ==
    \/ \E runtime \in Runtimes :
          StageSnapshot(p, runtime) \/ StageCab(p, runtime) \/ StageCapture(p, runtime)
    \/ CaptureSource(p) \/ MakeCab(p) \/ FillCab(p) \/ AcceptCab(p) \/ RemoveCab(p)
    \/ MakeSnapshot(p) \/ CopyBlobs(p) \/ CloseSnapshot(p)

PublicationNext ==
    \/ \E p \in Clients :
          \/ LocalStep(p) /\ UNCHANGED bucketVars
          \/ PutComponent(p) \/ PutClosure(p) \/ TakeAcknowledgement(p)
          \/ VerifyCustody(p) \/ ReturnPublication(p) \/ Abandon(p)
          \/ PutStep(p) /\ UNCHANGED workspaceVars
    \/ BucketStep /\ UNCHANGED workspaceVars

PublicationSpec == PublicationInit /\ [][PublicationNext]_publicationVars

-------------------------------------------------------------------------------
(* Properties. *)

\* What a publication names is in custody and stays there, whatever is lost, late or done
\* to the bucket afterwards: each object of the snapshot and the closure over exactly
\* these is a version of the very bytes under the plan's retention, and the evidence is
\* that of a snapshot whose receipts verify.
PublicationIsHeld ==
    \A publication \in publications :
        /\ publication.evidence.flaws = {}
        /\ StillHolds(snapshot, publication.evidence)
        /\ Len(publication.acks) = 1 + Blobs
        /\ \A n \in DOMAIN publication.acks :
              LET entry == Entries(ComponentKey(publication.evidence, n))[publication.acks[n]]
              IN entry = Version(TRUE, RetainUntil)
        /\ Entries(publication.closure.key)[publication.closure.version]
              = Version(TRUE, RetainUntil)

\* However many processes publish the run, die and begin again, they publish one capture;
\* and unless someone outside has touched the bucket they return one and the same result
\* (seal_streamed_cab_snapshot: a retry does not create "a second logical result").
OneLogicalResult ==
    \A one, other \in publications :
        /\ one.evidence = other.evidence
        /\ outside = 0 => one = other

HeldVersions ==
    UNION {{<<<<key, i>>, bucket[key][i]>> : i \in DOMAIN bucket[key]} : key \in DOMAIN bucket}

S3Promise == INSTANCE CustodyPromise
    WITH held <- {version \in HeldVersions : version[2].kind = "version"},
         told <- {<<a, Version(TRUE, RetainUntil)>> : a \in acked}

\* S3 custody keeps the promise of a custody store, an object being a version of a key:
\* none is replaced, none is lost once it has been acknowledged, and an acknowledgement
\* is of the bytes and the retention asked for.
S3KeepsPromise == S3Promise!Spec
===============================================================================

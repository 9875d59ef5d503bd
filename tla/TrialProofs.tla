----------------------------- MODULE TrialProofs -----------------------------
(***************************************************************************)
(* Proofs about the experiments of the scenario library, for any sets of   *)
(* customers and watched trials and any number of edits.                   *)
(***************************************************************************)
EXTENDS RecoveryTrial, DetectionTrial, ResponseTrial, SupportTrial, FiniteSetTheorems,
        SequenceTheorems, TLAPS

----------------------------------------------------------------------------
(* Entitlement recovery: the clone and its cutover *)

RCSteps == {"construct", "levels", "verify", "proof", "cutover", "reverify", "fresh",
            "request", "resolve", "readback", "snapshot", "restored", "select", "release",
            "deliver", "close", "done", "half", "assessed", "failed"}

\* The steps at which a clone is open, those before, and those at which its bundle is read.
CloneSteps == {"request", "resolve", "readback", "snapshot", "restored", "select",
               "release", "deliver", "close"}

FixturesHold == \A t \in RTargets : rcFixtures[t] = Fixture(t)

\* What was verified and read of the bundle when the validation stands at a step.
PinHolds ==
    /\ rcStep \in {"proof", "cutover", "reverify", "fresh"} \cup CloneSteps =>
          rcPin = [verified |-> "sound", read |-> rcPin.read]
    /\ rcStep = "proof" => rcPin.read = << >>
    /\ rcStep = "cutover" => rcPin.read = << "sound" >>
    /\ rcStep \in {"reverify", "fresh"} \cup CloneSteps => rcPin.read = << "sound", "sound" >>

\* A clone that is open, or was when its trial failed, stands on its cutover.
CutoverInv ==
    /\ rcStep \in RCSteps /\ rcCell \in RCells
    /\ \A t \in RTargets : rcFixtures[t] \in Supplied(t)
    /\ rcStep \notin {"construct", "failed"} => FixturesHold
    /\ PinHolds
    /\ rcStep \notin CloneSteps \cup {"failed"} => rcDb = EmptyDb
    /\ rcStep = "failed" =>
          \/ rcDb = EmptyDb
          \/ FixturesHold /\ rcPin.read = << "sound", "sound" >>

\* Of the fixtures a caller may supply, only the branch's own passes.
LEMMA OnlyOwnFixture ==
    ASSUME NEW t \in RTargets, NEW f \in Supplied(t), CutoverFixtureValid(f, t),
           RotationProvenance(f)
    PROVE  f = Fixture(t)
<1>1. t = "stale" \/ t = "approved"
  BY DEF RTargets
<1>2. \A u \in RTargets : Fixture(u).branch = BranchOf(u)
  BY DEF Fixture
<1>3. CASE \E u \in RTargets : f = Fixture(u)
  <2>1. PICK u \in RTargets : f = Fixture(u)
    BY <1>3
  <2>2. BranchOf(u) = BranchOf(t)
    BY <1>2, <2>1 DEF CutoverFixtureValid
  <2> QED
    BY <2>1, <2>2 DEF BranchOf, RTargets
<1>4. f # [Fixture(t) EXCEPT !.phase = "restored", !.new = "none"]
  BY DEF CutoverFixtureValid, Fixture
<1>5. f # [Fixture(t) EXCEPT !.old = "active"]
  BY DEF CutoverFixtureValid, Fixture
<1>6. f # [Fixture(t) EXCEPT !.head = FALSE]
  BY DEF CutoverFixtureValid, Fixture
<1>7. f # [Fixture(t) EXCEPT !.rotation = "earlier"]
  BY DEF RotationProvenance, Fixture
<1>8. CASE f = [Fixture(t) EXCEPT !.entitlement = {"*", Approved}]
  <2>1. f.entitlement = {"*", Approved}
    BY <1>8 DEF Fixture
  <2>2. Entitlements(t) = {"*", Approved}
    BY <2>1 DEF CutoverFixtureValid
  <2>3. Fixture(t).entitlement = {"*", Approved}
    BY <2>2 DEF Fixture
  <2> QED
    BY <1>8, <2>3 DEF Fixture
<1> QED
  BY <1>3, <1>4, <1>5, <1>6, <1>7, <1>8 DEF Supplied

LEMMA FixtureBundles == \A t \in RTargets : Fixture(t).bundle = "sound"
  BY DEF Fixture

LEMMA CutoverInitially == RCInit => CutoverInv
<1> SUFFICES ASSUME RCInit PROVE CutoverInv
  OBVIOUS
<1>1. rcStep = "construct" /\ rcCell \in RCells /\ rcDb = EmptyDb
  BY DEF RCInit
<1>2. \A t \in RTargets : rcFixtures[t] \in Supplied(t)
  BY DEF RCInit
<1> QED
  BY <1>1, <1>2 DEF CutoverInv, RCSteps, CloneSteps, PinHolds

LEMMA AppendToOne ==
    ASSUME NEW x, NEW y
    PROVE  Append(<< x >>, y) = << x, y >>
<1> DEFINE s == Append(<< x >>, y)
<1>1. << x >> \in Seq({x, y}) /\ Len(<< x >>) = 1 /\ << x >>[1] = x
  OBVIOUS
<1>2. s \in Seq({x, y}) /\ Len(s) = 2 /\ s[1] = x /\ s[2] = y
  BY <1>1, AppendProperties
<1> HIDE DEF s
<1>3. s = << s[1], s[2] >>
  BY <1>2
<1> QED
  BY <1>2, <1>3 DEF s

\* The validation of the bundle, up to the empty clone.
LEMMA ValidationKeeps ==
    ASSUME CutoverInv,
           Construct \/ ChangeDirectory \/ CheckLevels \/ VerifyBundle \/ ReadProof
           \/ ReadCutover \/ ReverifyBundle
    PROVE  CutoverInv'
<1>0. rcCell.target \in RTargets
  BY DEF CutoverInv, RCells
<1>1. CASE Construct
  <2>1. /\ rcStep = "construct" /\ rcDb = EmptyDb
        /\ UNCHANGED << rcCell, rcFixtures, rcPin, rcDb >>
    BY <1>1 DEF Construct, CutoverInv, CloneSteps
  <2>2. CASE rcStep' = "levels"
    <3>1. \A t \in RTargets :
             CutoverFixtureValid(rcFixtures[t], t) /\ RotationProvenance(rcFixtures[t])
      BY <1>1, <2>2 DEF Construct
    <3>2. FixturesHold'
      BY <2>1, <3>1, OnlyOwnFixture DEF CutoverInv, FixturesHold
    <3> QED
      BY <2>1, <2>2, <3>2 DEF CutoverInv, RCSteps, CloneSteps, PinHolds
  <2>3. CASE rcStep' = "failed"
    BY <2>1, <2>3 DEF CutoverInv, RCSteps, CloneSteps, PinHolds
  <2> QED
    BY <1>1, <2>2, <2>3 DEF Construct
<1>2. CASE ChangeDirectory
  <2>1. UNCHANGED << rcStep, rcCell, rcFixtures, rcPin, rcDb >>
    BY <1>2 DEF ChangeDirectory
  <2> QED
    BY <2>1 DEF CutoverInv, PinHolds, FixturesHold
<1>3. CASE CheckLevels
  <2>1. /\ rcStep = "levels" /\ rcStep' = "verify"
        /\ UNCHANGED << rcCell, rcFixtures, rcPin, rcDb >>
    BY <1>3 DEF CheckLevels
  <2> QED
    BY <2>1 DEF CutoverInv, RCSteps, CloneSteps, PinHolds, FixturesHold
<1>4. CASE VerifyBundle
  <2>1. /\ rcStep = "verify" /\ rcPin' = [verified |-> rcDisk.bundle, read |-> << >>]
        /\ UNCHANGED << rcCell, rcFixtures, rcDb >>
        /\ rcStep' \in {"proof", "failed"}
        /\ rcStep' = "proof" => rcDisk.bundle = rcFixtures[rcCell.target].bundle
    BY <1>4 DEF VerifyBundle
  <2>2. rcFixtures[rcCell.target].bundle = "sound" /\ rcDb = EmptyDb /\ FixturesHold
    BY <1>0, <2>1, FixtureBundles DEF CutoverInv, FixturesHold, CloneSteps
  <2> QED
    BY <2>1, <2>2 DEF CutoverInv, RCSteps, CloneSteps, PinHolds, FixturesHold
<1>5. CASE ReadProof
  <2>1. /\ rcStep = "proof" /\ rcPin' = [rcPin EXCEPT !.read = Append(@, rcDisk.bundle)]
        /\ UNCHANGED << rcCell, rcFixtures, rcDb >>
        /\ rcStep' \in {"cutover", "failed"}
        /\ rcStep' = "cutover" => rcDisk.bundle = rcPin.verified
    BY <1>5 DEF ReadProof, PayloadPinned
  <2>2. rcPin = [verified |-> "sound", read |-> << >>] /\ rcDb = EmptyDb /\ FixturesHold
    BY <2>1 DEF CutoverInv, PinHolds, CloneSteps
  <2>3. rcPin' = [verified |-> "sound", read |-> << rcDisk.bundle >>]
    BY <2>1, <2>2
  <2> QED
    BY <2>1, <2>2, <2>3 DEF CutoverInv, RCSteps, CloneSteps, PinHolds, FixturesHold
<1>6. CASE ReadCutover
  <2>1. /\ rcStep = "cutover" /\ rcPin' = [rcPin EXCEPT !.read = Append(@, rcDisk.bundle)]
        /\ UNCHANGED << rcCell, rcFixtures, rcDb >>
        /\ rcStep' \in {"reverify", "failed"}
        /\ rcStep' = "reverify" => rcDisk.bundle = rcPin.verified
    BY <1>6 DEF ReadCutover, PayloadPinned
  <2>2. rcPin = [verified |-> "sound", read |-> << "sound" >>] /\ rcDb = EmptyDb
        /\ FixturesHold
    BY <2>1 DEF CutoverInv, PinHolds, CloneSteps
  <2>3. rcPin' = [verified |-> "sound", read |-> << "sound", rcDisk.bundle >>]
    <3>1. \A x : Append(<< "sound" >>, x) = << "sound", x >>
      BY AppendToOne
    <3>2. rcPin' = [verified |-> "sound", read |-> Append(<< "sound" >>, rcDisk.bundle)]
      BY <2>1, <2>2
    <3> QED
      BY <3>1, <3>2
  <2>4. rcStep' = "reverify" => rcPin' = [verified |-> "sound", read |-> << "sound", "sound" >>]
    BY <2>1, <2>2, <2>3
  <2> QED
    BY <2>1, <2>2, <2>4 DEF CutoverInv, RCSteps, CloneSteps, PinHolds, FixturesHold
<1>7. CASE ReverifyBundle
  <2>1. /\ rcStep = "reverify" /\ rcStep' \in {"fresh", "failed"}
        /\ UNCHANGED << rcCell, rcFixtures, rcPin, rcDb >>
    BY <1>7 DEF ReverifyBundle
  <2> QED
    BY <2>1 DEF CutoverInv, RCSteps, CloneSteps, PinHolds, FixturesHold
<1> QED
  BY <1>1, <1>2, <1>3, <1>4, <1>5, <1>6, <1>7

\* The clone, and what follows it.
LEMMA TrialKeeps ==
    ASSUME CutoverInv,
           FreshDatabase \/ RecordRequest \/ ResolveSessionRole \/ ReadBack
           \/ ReapplySnapshot \/ KeepSnapshot \/ CheckRestored \/ SelectCustomers
           \/ Release \/ Deliver \/ CloseTrial \/ AssessAttack \/ AssessPair
           \/ \E i \in RInputs : Rewrite(i)
    PROVE  CutoverInv'
<1>1. CASE FreshDatabase \/ RecordRequest \/ ResolveSessionRole \/ ReadBack
           \/ ReapplySnapshot \/ KeepSnapshot \/ CheckRestored \/ SelectCustomers
           \/ Release \/ Deliver
  <2>1. /\ rcStep \in {"fresh"} \cup CloneSteps /\ rcStep' \in CloneSteps \cup {"failed"}
        /\ UNCHANGED << rcCell, rcFixtures, rcPin >>
    BY <1>1 DEF FreshDatabase, RecordRequest, ResolveSessionRole, ReadBack, ReapplySnapshot,
         KeepSnapshot, CheckRestored, SelectCustomers, Release, Deliver, CloneSteps
  <2>2. FixturesHold /\ rcPin = [verified |-> "sound", read |-> rcPin.read]
        /\ rcPin.read = << "sound", "sound" >>
    BY <2>1 DEF CutoverInv, PinHolds, CloneSteps
  <2> QED
    BY <2>1, <2>2 DEF CutoverInv, RCSteps, CloneSteps, PinHolds, FixturesHold
<1>2. CASE CloseTrial
  <2>1. /\ rcStep = "close" /\ rcStep' \in {"levels", "done"} /\ rcDb' = EmptyDb
        /\ UNCHANGED rcFixtures
    BY <1>2 DEF CloseTrial
  <2>2. rcCell' \in RCells
    BY <1>2 DEF CloseTrial, CutoverInv
  <2>3. FixturesHold
    BY <2>1 DEF CutoverInv
  <2> QED
    BY <2>1, <2>2, <2>3 DEF CutoverInv, RCSteps, CloneSteps, PinHolds, FixturesHold
<1>3. CASE AssessAttack \/ AssessPair \/ \E i \in RInputs : Rewrite(i)
  <2>1. /\ rcStep \in {"done", "half"} /\ rcStep' \in {"done", "half", "assessed"}
        /\ UNCHANGED << rcCell, rcFixtures, rcPin, rcDb >>
    BY <1>3 DEF AssessAttack, AssessPair, Rewrite
  <2> QED
    BY <2>1 DEF CutoverInv, RCSteps, CloneSteps, PinHolds, FixturesHold
<1> QED
  BY <1>1, <1>2, <1>3

LEMMA CutoverIsInductive == CutoverInv /\ [RCNext]_rcVars => CutoverInv'
<1> SUFFICES ASSUME CutoverInv, [RCNext]_rcVars PROVE CutoverInv'
  OBVIOUS
<1>1. CASE RCNext
  BY <1>1, ValidationKeeps, TrialKeeps DEF RCNext
<1>2. CASE UNCHANGED rcVars
  BY <1>2 DEF rcVars, CutoverInv, PinHolds, FixturesHold
<1> QED
  BY <1>1, <1>2

\* A clone is opened only on the cutover of its own branch and of the one bundle that was
\* verified, whatever fixtures are supplied, however often the directory changes, for any
\* customers (_validate_cutover_fixture, financial_recovery_runtime.py).
THEOREM TrialsRunOnTheirCutover == RCSpec => []RecoveryRunsOnItsCutover
<1>1. CutoverInv => RecoveryRunsOnItsCutover
  <2> SUFFICES ASSUME CutoverInv, rcDb.run # Nil PROVE
         rcFixtures[rcCell.target] = Fixture(rcCell.target) /\ rcPin.read = << "sound", "sound" >>
    BY DEF RecoveryRunsOnItsCutover
  <2>1. rcCell.target \in RTargets
    BY DEF CutoverInv, RCells
  <2>2. rcDb # EmptyDb
    BY DEF EmptyDb
  <2>3. rcStep \in CloneSteps \cup {"failed"}
    BY <2>2 DEF CutoverInv
  <2>4. FixturesHold /\ rcPin.read = << "sound", "sound" >>
    BY <2>2, <2>3 DEF CutoverInv, PinHolds, CloneSteps
  <2> QED
    BY <2>1, <2>4 DEF FixturesHold
<1> QED
  BY <1>1, CutoverInitially, CutoverIsInductive, PTL DEF RCSpec

----------------------------------------------------------------------------
(* Entitlement recovery: the results and their assessment *)

DbColumns(db) ==
    [run |-> db.run, request |-> db.request, session |-> db.session,
     resolved |-> db.resolved, snapshot |-> db.snapshot, context |-> db.context,
     mutations |-> db.mutations, receipt |-> db.receipt, selection |-> db.selection,
     decision |-> db.decision, deliveries |-> db.deliveries, ledger |-> db.ledger]

RestoredSession(target) ==
    [old |-> "revoked", new |-> "active", id |-> SessionOf(BranchOf(target)),
     bound |-> Entitlements(target)]

\* What stays of a clone from its first rows to its close.
CloneHolds(db, cell) ==
    /\ db = DbColumns(db)
    /\ db.run = CloneId(cell, "sound") /\ db.ledger = "sound"
    /\ db.session = RestoredSession(cell.target)
    /\ db.snapshot = snapshot_descriptor(cell.target)
    /\ db.context = "closed" \/ db.receipt = Nil

\* What each step of a trial adds to it.
DbHolds ==
    /\ rcStep \in CloneSteps => CloneHolds(rcDb, rcCell)
    /\ rcStep \in CloneSteps \ {"request"} => rcDb.request = Requested(rcCell.input)
    /\ rcStep \in CloneSteps \ {"request", "resolve"} => rcDb.resolved = rcDb.session.id
    /\ rcStep \in {"select", "release", "deliver", "close"} =>
          ApplyReceiptValid(rcDb.receipt, rcDb.mutations, rcCell.sham, rcCell.target)
    /\ rcStep \in {"release", "deliver", "close"} =>
          rcDb.selection = IF Authorized(rcDb) THEN rcDb.request ELSE {}
    /\ rcStep \in {"deliver", "close"} =>
          rcDb.decision = ReleaseDecision(Authorized(rcDb), rcDb.selection, rcCell.guard,
                                          rcThreshold)
    /\ rcStep = "close" =>
          rcDb.deliveries = IF rcDb.decision.decision = "allow" THEN rcDb.selection ELSE {}

ResultColumns(r) ==
    [cell |-> r.cell, clone |-> r.clone, closed |-> r.closed,
     entitlements |-> r.entitlements, receipt |-> r.receipt, mutations |-> r.mutations,
     resolved |-> r.resolved, session |-> r.session, authorized |-> r.authorized,
     selected |-> r.selected, release |-> r.release, delivered |-> r.delivered,
     ledgerBefore |-> r.ledgerBefore, ledgerAfter |-> r.ledgerAfter,
     derived |-> r.derived, events |-> r.events]

\* A result as a trial hands it out: all that the assessment asks of it, but for the
\* benign record that a threshold of 1 makes a bulk export.
Executed(r, threshold) ==
    /\ SnapshotBound(r) /\ CloneBound(r) /\ ReapplyBound(r) /\ ClaimsBound(r)
    /\ DisclosureBound(r) /\ EventsBound(r)
    /\ FixedSemantics(r) <=> r.cell.input = "attack" \/ threshold > 1
    /\ r.session.old = "revoked" /\ r.session.new = "active"
    /\ r.session.bound = r.entitlements

\* What no rewrite touches of a result.
Traces(r, truth) ==
    r = ResultColumns(r) /\ r.cell \in RCells /\ r.entitlements = truth.entitlements

\* One value for each input level.
Paired(f) == f = [i \in RInputs |-> f[i]]

\* The result of one input level, as it was executed and as it is now.
Handed(i) ==
    /\ Executed(rcTruth[i], rcThreshold) /\ rcTruth[i].cell.input = i
    /\ Traces(rcResults[i], rcTruth[i])

ResultsHold ==
    /\ rcThreshold \in Thresholds
    /\ Paired(rcResults) /\ Paired(rcTruth)
    /\ rcCell.input = "benign" => Handed("attack")
    /\ rcStep \in {"done", "half", "assessed"} => rcCell.input = "benign" /\ Handed("benign")
    /\ rcStep = "half" => ResultValid(rcResults["attack"])
    /\ rcStep # "assessed" => rcVerdict = Nil
    /\ rcStep = "assessed" => RecoveryIsClassified

RecoveryInv == CutoverInv /\ DbHolds /\ ResultsHold

\* The steps that leave the results to themselves.
LEMMA ResultsStay ==
    ASSUME ResultsHold, UNCHANGED << rcCell, rcThreshold, rcResults, rcTruth, rcVerdict >>,
           \/ rcStep \notin {"done", "half", "assessed"}
              /\ rcStep' \notin {"done", "half", "assessed"}
           \/ UNCHANGED rcStep
    PROVE  ResultsHold'
  BY DEF ResultsHold, Handed, RecoveryIsClassified

\* Before there is a clone there is nothing to hold.
LEMMA NoClone ==
    ASSUME rcStep' \notin CloneSteps
    PROVE  DbHolds'
  BY DEF DbHolds, CloneSteps

LEMMA FreshHolds ==
    ASSUME RecoveryInv, FreshDatabase
    PROVE  DbHolds'
<1> DEFINE f == rcFixtures[rcCell.target]
           target == rcCell.target
<1>1. /\ rcStep = "fresh" /\ rcStep' = "request" /\ UNCHANGED rcCell
      /\ rcDb' = [EmptyDb EXCEPT
                    !.run = CloneId(rcCell, f.bundle),
                    !.snapshot = snapshot_descriptor(target),
                    !.session = [old |-> f.old, new |-> f.new, id |-> f.session,
                                 bound |-> f.entitlement],
                    !.ledger = f.bundle]
  BY DEF FreshDatabase
<1>2. target \in RTargets
  BY DEF RecoveryInv, CutoverInv, RCells
<1>3. f = Fixture(target)
  BY <1>1, <1>2 DEF RecoveryInv, CutoverInv, FixturesHold
<1>4. /\ f.bundle = "sound" /\ f.old = "revoked" /\ f.new = "active"
      /\ f.session = SessionOf(BranchOf(target)) /\ f.entitlement = Entitlements(target)
  BY <1>3 DEF Fixture
<1> HIDE DEF f, target
<1>5. /\ rcDb' = DbColumns(rcDb') /\ rcDb'.run = CloneId(rcCell, f.bundle)
      /\ rcDb'.snapshot = snapshot_descriptor(target)
      /\ rcDb'.session = [old |-> f.old, new |-> f.new, id |-> f.session,
                          bound |-> f.entitlement]
      /\ rcDb'.ledger = f.bundle /\ rcDb'.receipt = Nil
  BY <1>1 DEF EmptyDb, DbColumns
<1>6. CloneHolds(rcDb', rcCell')
  BY <1>1, <1>4, <1>5 DEF CloneHolds, RestoredSession, target
<1> QED
  BY <1>1, <1>6 DEF DbHolds

LEMMA RequestHolds ==
    ASSUME RecoveryInv, RecordRequest
    PROVE  DbHolds'
<1>1. /\ rcStep = "request" /\ rcStep' = "resolve" /\ UNCHANGED rcCell
      /\ rcDb' = [rcDb EXCEPT !.request = Requested(rcCell.input)]
  BY DEF RecordRequest
<1>2. CloneHolds(rcDb, rcCell)
  BY <1>1 DEF RecoveryInv, DbHolds, CloneSteps
<1>3. /\ rcDb' = DbColumns(rcDb') /\ rcDb'.request = Requested(rcCell.input)
      /\ rcDb'.run = rcDb.run /\ rcDb'.ledger = rcDb.ledger
      /\ rcDb'.session = rcDb.session /\ rcDb'.snapshot = rcDb.snapshot
      /\ rcDb'.context = rcDb.context /\ rcDb'.receipt = rcDb.receipt
  BY <1>1, <1>2 DEF CloneHolds, DbColumns
<1>4. CloneHolds(rcDb', rcCell')
  BY <1>1, <1>2, <1>3 DEF CloneHolds
<1> QED
  BY <1>1, <1>3, <1>4 DEF DbHolds

LEMMA ResolveHolds ==
    ASSUME RecoveryInv, ResolveSessionRole
    PROVE  DbHolds'
<1>1. /\ rcStep = "resolve" /\ rcStep' = "readback" /\ UNCHANGED rcCell
      /\ rcDb' = [rcDb EXCEPT !.resolved = rcDb.session.id]
  BY DEF ResolveSessionRole
<1>2. CloneHolds(rcDb, rcCell) /\ rcDb.request = Requested(rcCell.input)
  BY <1>1 DEF RecoveryInv, DbHolds, CloneSteps
<1>3. /\ rcDb' = DbColumns(rcDb') /\ rcDb'.resolved = rcDb.session.id
      /\ rcDb'.run = rcDb.run /\ rcDb'.ledger = rcDb.ledger
      /\ rcDb'.session = rcDb.session /\ rcDb'.snapshot = rcDb.snapshot
      /\ rcDb'.context = rcDb.context /\ rcDb'.receipt = rcDb.receipt
      /\ rcDb'.request = rcDb.request
  BY <1>1, <1>2 DEF CloneHolds, DbColumns
<1>4. CloneHolds(rcDb', rcCell')
  BY <1>1, <1>2, <1>3 DEF CloneHolds
<1> QED
  BY <1>1, <1>2, <1>3, <1>4 DEF DbHolds

LEMMA ReadBackHolds ==
    ASSUME RecoveryInv, ReadBack \/ KeepSnapshot
    PROVE  DbHolds'
<1>1. /\ rcStep \in {"readback", "snapshot"} /\ rcStep' \in {"snapshot", "restored", "failed"}
      /\ UNCHANGED << rcCell, rcDb >>
  BY DEF ReadBack, KeepSnapshot
<1> QED
  BY <1>1 DEF RecoveryInv, DbHolds, CloneSteps

LEMMA ReapplyHolds ==
    ASSUME RecoveryInv, ReapplySnapshot
    PROVE  DbHolds'
<1> DEFINE before == rcDb.snapshot
           after == snapshot_descriptor(rcCell.target)
           rows == Audit("entitlement", "delete", before)
                   \o Audit("snapshot", "delete", before)
                   \o Audit("snapshot", "insert", after)
                   \o Audit("entitlement", "insert", after)
           receipt == [before |-> before, after |-> after,
                       deleted |-> Cardinality(before.entitlements),
                       inserted |-> Cardinality(after.entitlements)]
<1>1. /\ rcStep = "snapshot" /\ rcStep' = "restored" /\ UNCHANGED rcCell
      /\ rcDb' = [rcDb EXCEPT !.snapshot = after, !.context = "closed",
                              !.mutations = rows, !.receipt = receipt]
  BY DEF ReapplySnapshot
<1>2. /\ CloneHolds(rcDb, rcCell) /\ rcDb.request = Requested(rcCell.input)
      /\ rcDb.resolved = rcDb.session.id
  BY <1>1 DEF RecoveryInv, DbHolds, CloneSteps
<1>a. after = snapshot_descriptor(rcCell.target)
  OBVIOUS
<1> HIDE DEF before, after, rows, receipt
<1>3. /\ rcDb' = DbColumns(rcDb') /\ rcDb'.context = "closed" /\ rcDb'.snapshot = after
      /\ rcDb'.run = rcDb.run /\ rcDb'.ledger = rcDb.ledger
      /\ rcDb'.session = rcDb.session
      /\ rcDb'.request = rcDb.request /\ rcDb'.resolved = rcDb.resolved
  BY <1>1, <1>2 DEF CloneHolds, DbColumns
<1>4. CloneHolds(rcDb', rcCell')
  BY <1>1, <1>2, <1>3, <1>a DEF CloneHolds
<1> QED
  BY <1>1, <1>2, <1>3, <1>4 DEF DbHolds

\* The receipt that was read back is the one the clone holds.
LEMMA CheckHolds ==
    ASSUME RecoveryInv, CheckRestored
    PROVE  DbHolds'
<1>1. /\ rcStep = "restored" /\ rcStep' \in {"select", "failed"}
      /\ UNCHANGED << rcCell, rcDb >>
      /\ rcStep' = "select" => ApplyReceiptValid(ReceiptReadback(rcDb), rcDb.mutations,
                                                 rcCell.sham, rcCell.target)
  BY DEF CheckRestored
<1>2. /\ CloneHolds(rcDb, rcCell) /\ rcDb.request = Requested(rcCell.input)
      /\ rcDb.resolved = rcDb.session.id
  BY <1>1 DEF RecoveryInv, DbHolds, CloneSteps
<1>3. ReceiptReadback(rcDb) = rcDb.receipt
  BY <1>2 DEF CloneHolds, ReceiptReadback
<1>4. CASE rcStep' = "select"
  BY <1>1, <1>2, <1>3, <1>4 DEF DbHolds
<1>5. CASE rcStep' = "failed"
  BY <1>5, NoClone DEF CloneSteps
<1> QED
  BY <1>1, <1>4, <1>5

\* A clone in its last steps.
LEMMA LateClone ==
    ASSUME RecoveryInv, rcStep \in {"select", "release", "deliver", "close"}
    PROVE  /\ CloneHolds(rcDb, rcCell) /\ rcDb.request = Requested(rcCell.input)
           /\ rcDb.resolved = rcDb.session.id
           /\ ApplyReceiptValid(rcDb.receipt, rcDb.mutations, rcCell.sham, rcCell.target)
  BY DEF RecoveryInv, DbHolds, CloneSteps

LEMMA SelectHolds ==
    ASSUME RecoveryInv, SelectCustomers
    PROVE  DbHolds'
<1> DEFINE selection == IF Authorized(rcDb) THEN rcDb.request ELSE {}
<1>1. /\ rcStep = "select" /\ rcStep' = "release" /\ UNCHANGED rcCell
      /\ rcDb' = [rcDb EXCEPT !.selection = selection]
  BY DEF SelectCustomers
<1>s. selection = IF Authorized(rcDb) THEN rcDb.request ELSE {}
  OBVIOUS
<1> HIDE DEF selection
<1>2. /\ CloneHolds(rcDb, rcCell) /\ rcDb.request = Requested(rcCell.input)
      /\ rcDb.resolved = rcDb.session.id
      /\ ApplyReceiptValid(rcDb.receipt, rcDb.mutations, rcCell.sham, rcCell.target)
  BY <1>1, LateClone
<1>3. /\ rcDb' = DbColumns(rcDb') /\ rcDb'.selection = selection
      /\ rcDb'.run = rcDb.run /\ rcDb'.ledger = rcDb.ledger
      /\ rcDb'.session = rcDb.session /\ rcDb'.snapshot = rcDb.snapshot
      /\ rcDb'.context = rcDb.context /\ rcDb'.receipt = rcDb.receipt
      /\ rcDb'.request = rcDb.request /\ rcDb'.resolved = rcDb.resolved
      /\ rcDb'.mutations = rcDb.mutations
  BY <1>1, <1>2 DEF CloneHolds, DbColumns
<1>4. CloneHolds(rcDb', rcCell')
  BY <1>1, <1>2, <1>3 DEF CloneHolds
<1>5. Authorized(rcDb') <=> Authorized(rcDb)
  BY <1>3 DEF Authorized
<1> QED
  BY <1>1, <1>2, <1>3, <1>4, <1>5, <1>s DEF DbHolds

LEMMA ReleaseHolds ==
    ASSUME RecoveryInv, Release
    PROVE  DbHolds'
<1> DEFINE decision == ReleaseDecision(Authorized(rcDb), rcDb.selection, rcCell.guard,
                                       rcThreshold)
<1>1. /\ rcStep = "release" /\ rcStep' = "deliver" /\ UNCHANGED << rcCell, rcThreshold >>
      /\ rcDb' = [rcDb EXCEPT !.decision = decision]
  BY DEF Release
<1>2. /\ CloneHolds(rcDb, rcCell) /\ rcDb.request = Requested(rcCell.input)
      /\ rcDb.resolved = rcDb.session.id
      /\ ApplyReceiptValid(rcDb.receipt, rcDb.mutations, rcCell.sham, rcCell.target)
  BY <1>1, LateClone
<1>s. rcDb.selection = IF Authorized(rcDb) THEN rcDb.request ELSE {}
  BY <1>1 DEF RecoveryInv, DbHolds
<1> HIDE DEF decision
<1>3. /\ rcDb' = DbColumns(rcDb') /\ rcDb'.decision = decision
      /\ rcDb'.run = rcDb.run /\ rcDb'.ledger = rcDb.ledger
      /\ rcDb'.session = rcDb.session /\ rcDb'.snapshot = rcDb.snapshot
      /\ rcDb'.context = rcDb.context /\ rcDb'.receipt = rcDb.receipt
      /\ rcDb'.request = rcDb.request /\ rcDb'.resolved = rcDb.resolved
      /\ rcDb'.mutations = rcDb.mutations /\ rcDb'.selection = rcDb.selection
  BY <1>1, <1>2 DEF CloneHolds, DbColumns
<1>4. CloneHolds(rcDb', rcCell')
  BY <1>1, <1>2, <1>3 DEF CloneHolds
<1>5. Authorized(rcDb') = Authorized(rcDb)
  BY <1>3 DEF Authorized
<1>6. decision = ReleaseDecision(Authorized(rcDb'), rcDb'.selection, rcCell'.guard, rcThreshold')
  BY <1>1, <1>3, <1>5 DEF decision
<1> QED
  BY <1>1, <1>2, <1>3, <1>4, <1>5, <1>6, <1>s DEF DbHolds

LEMMA DeliverHolds ==
    ASSUME RecoveryInv, Deliver
    PROVE  DbHolds'
<1> DEFINE deliveries == IF rcDb.decision.decision = "allow" THEN rcDb.selection ELSE {}
<1>1. /\ rcStep = "deliver" /\ rcStep' = "close" /\ UNCHANGED << rcCell, rcThreshold >>
      /\ rcDb' = [rcDb EXCEPT !.deliveries = deliveries]
  BY DEF Deliver
<1>2. /\ CloneHolds(rcDb, rcCell) /\ rcDb.request = Requested(rcCell.input)
      /\ rcDb.resolved = rcDb.session.id
      /\ ApplyReceiptValid(rcDb.receipt, rcDb.mutations, rcCell.sham, rcCell.target)
  BY <1>1, LateClone
<1>s. /\ rcDb.selection = IF Authorized(rcDb) THEN rcDb.request ELSE {}
      /\ rcDb.decision = ReleaseDecision(Authorized(rcDb), rcDb.selection, rcCell.guard,
                                         rcThreshold)
  BY <1>1 DEF RecoveryInv, DbHolds
<1>d. deliveries = IF rcDb.decision.decision = "allow" THEN rcDb.selection ELSE {}
  OBVIOUS
<1> HIDE DEF deliveries
<1>3. /\ rcDb' = DbColumns(rcDb') /\ rcDb'.deliveries = deliveries
      /\ rcDb'.run = rcDb.run /\ rcDb'.ledger = rcDb.ledger
      /\ rcDb'.session = rcDb.session /\ rcDb'.snapshot = rcDb.snapshot
      /\ rcDb'.context = rcDb.context /\ rcDb'.receipt = rcDb.receipt
      /\ rcDb'.request = rcDb.request /\ rcDb'.resolved = rcDb.resolved
      /\ rcDb'.mutations = rcDb.mutations /\ rcDb'.selection = rcDb.selection
      /\ rcDb'.decision = rcDb.decision
  BY <1>1, <1>2 DEF CloneHolds, DbColumns
<1>4. CloneHolds(rcDb', rcCell')
  BY <1>1, <1>2, <1>3 DEF CloneHolds
<1>5. Authorized(rcDb') = Authorized(rcDb)
  BY <1>3 DEF Authorized
<1>6. rcDb'.decision = ReleaseDecision(Authorized(rcDb'), rcDb'.selection, rcCell'.guard,
                                       rcThreshold')
  BY <1>1, <1>3, <1>5, <1>s
<1> QED
  BY <1>1, <1>2, <1>3, <1>4, <1>5, <1>6, <1>d, <1>s DEF DbHolds

----------------------------------------------------------------------------
(* What a closed trial hands out *)

\* Two results with the same readbacks.
SameRaw(s, r) ==
    /\ s.cell = r.cell /\ s.clone = r.clone /\ s.closed = r.closed
    /\ s.entitlements = r.entitlements /\ s.receipt = r.receipt
    /\ s.mutations = r.mutations /\ s.resolved = r.resolved /\ s.session = r.session
    /\ s.authorized = r.authorized /\ s.selected = r.selected /\ s.release = r.release
    /\ s.delivered = r.delivered /\ s.ledgerBefore = r.ledgerBefore
    /\ s.ledgerAfter = r.ledgerAfter

LEMMA SameClaims ==
    ASSUME NEW s, NEW r, SameRaw(s, r)
    PROVE  Derived(s) = Derived(r)
  BY DEF SameRaw, Derived

LEMMA SameEvents ==
    ASSUME NEW s, NEW r, SameRaw(s, r), s.derived = r.derived
    PROVE  Events(s) = Events(r)
<1>1. InputEvents(s) = InputEvents(r)
  BY DEF SameRaw, InputEvents
<1>2. TargetEvent(s) = TargetEvent(r)
  BY DEF SameRaw, TargetEvent
<1>3. OutcomeEvents(s) = OutcomeEvents(r)
  BY DEF SameRaw, OutcomeEvents
<1> QED
  BY <1>1, <1>2, <1>3 DEF Events

LEMMA NewClaims ==
    ASSUME NEW r, r = ResultColumns(r), NEW d
    PROVE  LET s == [r EXCEPT !.derived = d]
           IN s = ResultColumns(s) /\ SameRaw(s, r) /\ s.derived = d
<1> DEFINE s == [r EXCEPT !.derived = d]
<1>1. s = ResultColumns(s)
  BY DEF ResultColumns
<1>2. SameRaw(s, r) /\ s.derived = d
  BY DEF ResultColumns, SameRaw
<1> QED
  BY <1>1, <1>2

LEMMA NewEvents ==
    ASSUME NEW r, r = ResultColumns(r), NEW e
    PROVE  LET s == [r EXCEPT !.events = e]
           IN /\ s = ResultColumns(s) /\ SameRaw(s, r) /\ s.events = e
              /\ s.derived = r.derived
<1> DEFINE s == [r EXCEPT !.events = e]
<1>1. s = ResultColumns(s)
  BY DEF ResultColumns
<1>2. SameRaw(s, r) /\ s.events = e /\ s.derived = r.derived
  BY DEF ResultColumns, SameRaw
<1> QED
  BY <1>1, <1>2

\* Recomputing the claims and the events makes them those of the readbacks.
LEMMA RefreshedResult ==
    ASSUME NEW r, r = ResultColumns(r)
    PROVE  LET s == Refreshed(r)
           IN /\ s = ResultColumns(s) /\ SameRaw(s, r)
              /\ s.derived = Derived(s) /\ s.events = Events(s)
<1> DEFINE d == Derived(r)
           claims == [r EXCEPT !.derived = d]
           e == Events(claims)
           s == [claims EXCEPT !.events = e]
<1>1. claims = ResultColumns(claims) /\ SameRaw(claims, r) /\ claims.derived = d
  BY NewClaims
<1> HIDE DEF claims
<1>2. s = ResultColumns(s) /\ SameRaw(s, claims) /\ s.events = e /\ s.derived = claims.derived
  BY <1>1, NewEvents
<1> HIDE DEF e
<1>3. s = Refreshed(r)
  BY DEF Refreshed, claims, e
<1> HIDE DEF s
<1>4. SameRaw(s, r)
  BY <1>1, <1>2 DEF SameRaw
<1>5. Derived(s) = d
  BY <1>4, SameClaims
<1>6. Events(s) = e
  BY <1>2, SameEvents DEF e
<1> QED
  BY <1>1, <1>2, <1>3, <1>4, <1>5, <1>6

\* The stale wildcard lets every request through, the approved entitlement its own customer.
LEMMA WhoIsAuthorized ==
    ASSUME NEW db, NEW cell \in RCells, db.request = Requested(cell.input),
           db.snapshot = snapshot_descriptor(cell.target)
    PROVE  Authorized(db) <=> cell.target = "stale" \/ cell.input = "benign"
<1>1. cell.target \in {"stale", "approved"} /\ cell.input \in {"attack", "benign"}
  BY DEF RCells, RTargets, RInputs
<1>2. db.snapshot.entitlements = Entitlements(cell.target)
  BY DEF snapshot_descriptor
<1>3. CASE cell.target = "stale"
  BY <1>2, <1>3 DEF Authorized, Allows, Entitlements
<1>4. CASE cell.target = "approved" /\ cell.input = "benign"
  BY <1>2, <1>4 DEF Authorized, Allows, Entitlements, Requested
<1>5. CASE cell.target = "approved" /\ cell.input = "attack"
  <2>1. PICK c \in Others : TRUE
    BY RecoveryAssumption
  <2>2. c # Approved /\ Approved # "*"
    BY <2>1, RecoveryAssumption
  <2>3. db.snapshot.entitlements = {Approved} /\ c \in db.request
    BY <1>2, <1>5, <2>1 DEF Entitlements, Requested
  <2> QED
    BY <1>5, <2>2, <2>3 DEF Authorized, Allows
<1> QED
  BY <1>1, <1>3, <1>4, <1>5

LEMMA OnlyBenignAsksForTheCase ==
    ASSUME NEW input \in RInputs
    PROVE  Requested(input) = {Approved} <=> input = "benign"
  BY RecoveryAssumption DEF Requested, RInputs

\* The guard decides what the fixed semantics recomputes, unless the bulk rule takes the one
\* record of the benign case for an export.
LEMMA GuardDecides ==
    ASSUME NEW guard, NEW threshold \in Nat \ {0}
    PROVE  /\ ReleaseDecision(TRUE, Others, guard, threshold) =
                [reached |-> TRUE,
                 decision |-> IF guard = "enforce" THEN "block" ELSE "allow",
                 reason |-> IF guard = "enforce" THEN "unapproved-or-bulk" ELSE "observed"]
           /\ ReleaseDecision(TRUE, {Approved}, guard, threshold) =
                IF threshold > 1
                THEN [reached |-> TRUE, decision |-> "allow", reason |-> "assigned-case"]
                ELSE [reached |-> TRUE,
                      decision |-> IF guard = "enforce" THEN "block" ELSE "allow",
                      reason |-> IF guard = "enforce" THEN "unapproved-or-bulk"
                                 ELSE "observed"]
<1>1. OutsideAssignment(Others) # {}
  BY RecoveryAssumption DEF OutsideAssignment, Assigned
<1>2. OutsideAssignment({Approved}) = {}
  BY DEF OutsideAssignment, Assigned
<1>3. Cardinality({Approved}) >= threshold <=> ~ (threshold > 1)
  <2>1. Cardinality({Approved}) = 1
    BY FS_Singleton
  <2> QED
    BY <2>1
<1>4. ReleaseDecision(TRUE, Others, guard, threshold) =
        [reached |-> TRUE,
         decision |-> IF guard = "enforce" THEN "block" ELSE "allow",
         reason |-> IF guard = "enforce" THEN "unapproved-or-bulk" ELSE "observed"]
  BY <1>1 DEF ReleaseDecision
<1>5. CASE threshold > 1
  BY <1>2, <1>3, <1>4, <1>5 DEF ReleaseDecision
<1>6. CASE ~ (threshold > 1)
  BY <1>3, <1>4, <1>6 DEF ReleaseDecision
<1> QED
  BY <1>5, <1>6

\* The clone a trial closes is the one its cell asks for.
LEMMA ClosedClone ==
    ASSUME RecoveryInv, rcStep = "close"
    PROVE  /\ rcCell \in RCells /\ CloneHolds(rcDb, rcCell)
           /\ rcDb.resolved = SessionOf(BranchOf(rcCell.target))
           /\ ApplyReceiptValid(rcDb.receipt, rcDb.mutations, rcCell.sham, rcCell.target)
           /\ Authorized(rcDb) = (rcCell.target = "stale" \/ rcCell.input = "benign")
           /\ rcDb.selection = IF Authorized(rcDb) THEN Requested(rcCell.input) ELSE {}
           /\ rcDb.decision = ReleaseDecision(Authorized(rcDb), rcDb.selection, rcCell.guard,
                                              rcThreshold)
           /\ rcDb.deliveries = IF rcDb.decision.decision = "allow" THEN rcDb.selection ELSE {}
<1>1. /\ CloneHolds(rcDb, rcCell) /\ rcDb.request = Requested(rcCell.input)
      /\ rcDb.resolved = rcDb.session.id
      /\ ApplyReceiptValid(rcDb.receipt, rcDb.mutations, rcCell.sham, rcCell.target)
  BY LateClone
<1>2. rcCell \in RCells
  BY DEF RecoveryInv, CutoverInv
<1>3. rcDb.resolved = SessionOf(BranchOf(rcCell.target))
  BY <1>1 DEF CloneHolds, RestoredSession
<1>4. Authorized(rcDb) <=> rcCell.target = "stale" \/ rcCell.input = "benign"
  BY <1>1, <1>2, WhoIsAuthorized DEF CloneHolds
<1>5. Authorized(rcDb) \in BOOLEAN
  BY DEF Authorized
<1>6. /\ rcDb.selection = IF Authorized(rcDb) THEN rcDb.request ELSE {}
      /\ rcDb.decision = ReleaseDecision(Authorized(rcDb), rcDb.selection, rcCell.guard,
                                         rcThreshold)
      /\ rcDb.deliveries = IF rcDb.decision.decision = "allow" THEN rcDb.selection ELSE {}
  BY DEF RecoveryInv, DbHolds
<1> QED
  BY <1>1, <1>2, <1>3, <1>4, <1>5, <1>6

\* The raw columns the fixed semantics looks at.
Semantics(cell, authorized, selected, release, delivered, threshold) ==
    /\ authorized = (cell.target = "stale" \/ cell.input = "benign")
    /\ selected = IF authorized THEN Requested(cell.input) ELSE {}
    /\ release = ReleaseDecision(authorized, selected, cell.guard, threshold)
    /\ delivered = IF release.decision = "allow" THEN selected ELSE {}

LEMMA SemanticsHold ==
    ASSUME NEW r, r.cell \in RCells, NEW threshold \in Nat \ {0},
           Semantics(r.cell, r.authorized, r.selected, r.release, r.delivered, threshold)
    PROVE  /\ FixedSemantics(r) <=> r.cell.input = "attack" \/ threshold > 1
           /\ r.delivered \subseteq r.selected
<1>1. r.cell.target \in {"stale", "approved"} /\ r.cell.input \in {"attack", "benign"}
  BY DEF RCells, RTargets, RInputs
<1>2. Requested(r.cell.input) = {Approved} <=> r.cell.input = "benign"
  BY OnlyBenignAsksForTheCase DEF RCells
<1>3. Others \ {Approved} # {} /\ {Approved} \ {Approved} = {} /\ {} \ {Approved} = {}
  BY RecoveryAssumption
<1>4. CASE r.cell.input = "benign"
  <2>1. /\ r.authorized = TRUE /\ Requested(r.cell.input) = {Approved}
        /\ r.selected = {Approved}
    BY <1>4 DEF Semantics, Requested
  <2>2. CASE threshold > 1
    <3>1. r.release = [reached |-> TRUE, decision |-> "allow", reason |-> "assigned-case"]
      BY <2>1, <2>2, GuardDecides DEF Semantics
    <3>2. r.delivered = {Approved}
      BY <2>1, <3>1 DEF Semantics
    <3> QED
      BY <1>3, <2>1, <2>2, <3>1, <3>2 DEF FixedSemantics
  <2>3. CASE ~ (threshold > 1)
    <3>1. r.release = [reached |-> TRUE,
                       decision |-> IF r.cell.guard = "enforce" THEN "block" ELSE "allow",
                       reason |-> IF r.cell.guard = "enforce" THEN "unapproved-or-bulk"
                                  ELSE "observed"]
      <4>1. r.release = ReleaseDecision(TRUE, {Approved}, r.cell.guard, threshold)
        BY <2>1 DEF Semantics
      <4> QED
        BY <2>3, <4>1, GuardDecides
    <3>2. r.release.reason # "assigned-case"
      <4>1. r.release.reason = IF r.cell.guard = "enforce" THEN "unapproved-or-bulk"
                               ELSE "observed"
        BY <3>1
      <4> QED
        BY <4>1
    <3>3. ~ FixedSemantics(r)
      <4>1. FixedSemantics(r) =>
              r.release = [reached |-> TRUE, decision |-> "allow", reason |-> "assigned-case"]
        BY <1>3, <2>1 DEF FixedSemantics
      <4> QED
        BY <3>2, <4>1
    <3>4. r.delivered \subseteq r.selected
      BY DEF Semantics
    <3> QED
      BY <1>4, <2>3, <3>3, <3>4
  <2> QED
    BY <2>2, <2>3
<1>5. CASE r.cell.input = "attack" /\ r.cell.target = "stale"
  <2>1. /\ r.authorized = TRUE /\ Requested(r.cell.input) = Others /\ r.selected = Others
    BY <1>5 DEF Semantics, Requested
  <2>2. r.release = [reached |-> TRUE,
                     decision |-> IF r.cell.guard = "enforce" THEN "block" ELSE "allow",
                     reason |-> IF r.cell.guard = "enforce" THEN "unapproved-or-bulk"
                                ELSE "observed"]
    <3>1. r.release = ReleaseDecision(TRUE, Others, r.cell.guard, threshold)
      BY <2>1 DEF Semantics
    <3> QED
      BY <3>1, GuardDecides
  <2>3. r.delivered = IF r.release.decision = "allow" THEN Others ELSE {}
    BY <2>1 DEF Semantics
  <2>4. CASE r.cell.guard = "enforce"
    BY <1>3, <1>5, <2>1, <2>2, <2>3, <2>4 DEF FixedSemantics
  <2>5. CASE r.cell.guard # "enforce"
    BY <1>3, <1>5, <2>1, <2>2, <2>3, <2>5 DEF FixedSemantics
  <2> QED
    BY <2>4, <2>5
<1>6. CASE r.cell.input = "attack" /\ r.cell.target = "approved"
  <2>1. r.authorized = FALSE /\ r.selected = {}
    BY <1>6 DEF Semantics
  <2>2. r.release = [reached |-> FALSE, decision |-> "not-reached", reason |-> "denied"]
    BY <2>1 DEF Semantics, ReleaseDecision
  <2>3. r.delivered = {}
    BY <2>1 DEF Semantics
  <2> QED
    BY <1>2, <1>6, <2>1, <2>2, <2>3 DEF FixedSemantics
<1> QED
  BY <1>1, <1>4, <1>5, <1>6

LEMMA ExecutedResult ==
    ASSUME RecoveryInv, rcStep = "close"
    PROVE  LET r == ResultOf(rcCell, rcDb)
           IN r = ResultColumns(r) /\ r.cell = rcCell /\ Executed(r, rcThreshold)
<1> DEFINE raw == [cell |-> rcCell, clone |-> rcDb.run, closed |-> TRUE,
                   entitlements |-> rcDb.snapshot.entitlements, receipt |-> rcDb.receipt,
                   mutations |-> rcDb.mutations, resolved |-> rcDb.resolved,
                   session |-> rcDb.session, authorized |-> Authorized(rcDb),
                   selected |-> rcDb.selection, release |-> rcDb.decision,
                   delivered |-> rcDb.deliveries,
                   ledgerBefore |-> rcDb.ledger, ledgerAfter |-> rcDb.ledger,
                   derived |-> Nil, events |-> Nil]
           r == Refreshed(raw)
<1>1. r = ResultOf(rcCell, rcDb)
  BY DEF ResultOf
<1>2. raw = ResultColumns(raw)
  BY DEF ResultColumns
<1>3. /\ raw.cell = rcCell /\ raw.clone = rcDb.run /\ raw.closed = TRUE
      /\ raw.entitlements = rcDb.snapshot.entitlements /\ raw.receipt = rcDb.receipt
      /\ raw.mutations = rcDb.mutations /\ raw.resolved = rcDb.resolved
      /\ raw.session = rcDb.session /\ raw.authorized = Authorized(rcDb)
      /\ raw.selected = rcDb.selection /\ raw.release = rcDb.decision
      /\ raw.delivered = rcDb.deliveries
      /\ raw.ledgerBefore = rcDb.ledger /\ raw.ledgerAfter = rcDb.ledger
  OBVIOUS
<1> HIDE DEF raw
<1>4. /\ r = ResultColumns(r) /\ SameRaw(r, raw)
      /\ r.derived = Derived(r) /\ r.events = Events(r)
  BY <1>2, RefreshedResult
<1> HIDE DEF r
<1>5. /\ r.cell = rcCell /\ r.clone = rcDb.run /\ r.closed = TRUE
      /\ r.entitlements = rcDb.snapshot.entitlements /\ r.receipt = rcDb.receipt
      /\ r.mutations = rcDb.mutations /\ r.resolved = rcDb.resolved
      /\ r.session = rcDb.session /\ r.authorized = Authorized(rcDb)
      /\ r.selected = rcDb.selection /\ r.release = rcDb.decision
      /\ r.delivered = rcDb.deliveries
      /\ r.ledgerBefore = rcDb.ledger /\ r.ledgerAfter = rcDb.ledger
  BY <1>3, <1>4 DEF SameRaw
<1>6. CloneHolds(rcDb, rcCell)
  BY ClosedClone
<1>7. r.entitlements = Entitlements(rcCell.target) /\ r.session = RestoredSession(rcCell.target)
  BY <1>5, <1>6 DEF CloneHolds, snapshot_descriptor
<1>8. SnapshotBound(r)
  BY <1>5, <1>7, ClosedClone DEF SnapshotBound
<1>9. CloneBound(r) /\ DisclosureBound(r)
  BY <1>5, <1>6 DEF CloneBound, DisclosureBound, CloneHolds
<1>10. ReapplyBound(r)
  BY <1>5, ClosedClone DEF ReapplyBound
<1>11. Semantics(r.cell, r.authorized, r.selected, r.release, r.delivered, rcThreshold)
  BY <1>5, ClosedClone DEF Semantics
<1>12. r.cell \in RCells /\ rcThreshold \in Nat \ {0}
  BY <1>5, ClosedClone, RecoveryAssumption DEF RecoveryInv, ResultsHold
<1>13. /\ FixedSemantics(r) <=> r.cell.input = "attack" \/ rcThreshold > 1
       /\ r.delivered \subseteq r.selected
  BY <1>11, <1>12, SemanticsHold
<1>14. ClaimsBound(r) /\ EventsBound(r)
  BY <1>4, <1>13 DEF ClaimsBound, EventsBound
<1>15. r.session.old = "revoked" /\ r.session.new = "active" /\ r.session.bound = r.entitlements
  BY <1>7 DEF RestoredSession
<1> QED
  BY <1>1, <1>4, <1>5, <1>8, <1>9, <1>10, <1>13, <1>14, <1>15 DEF Executed

\* The first result starts the partner's trial, the second ends the experiment.
LEMMA CloseHolds ==
    ASSUME RecoveryInv, CloseTrial
    PROVE  DbHolds' /\ ResultsHold'
<1> DEFINE r == ResultOf(rcCell, rcDb)
           input == rcCell.input
<1>1. /\ rcStep = "close" /\ rcStep' \in {"levels", "done"} /\ UNCHANGED << rcThreshold, rcVerdict >>
      /\ rcResults' = [rcResults EXCEPT ![input] = r]
      /\ rcTruth' = [rcTruth EXCEPT ![input] = r]
      /\ IF input = "attack" THEN rcCell'.input = "benign" /\ rcStep' = "levels"
         ELSE rcCell' = rcCell /\ rcStep' = "done"
  BY DEF CloseTrial
<1>2. r = ResultColumns(r) /\ r.cell = rcCell /\ Executed(r, rcThreshold)
  BY <1>1, ExecutedResult
<1>3. rcCell \in RCells
  BY DEF RecoveryInv, CutoverInv
<1>4. input \in RInputs
  BY <1>3 DEF RCells
<1> HIDE DEF r
<1>5. Traces(r, r)
  BY <1>2, <1>3 DEF Traces
<1>6. /\ Paired(rcResults) /\ Paired(rcTruth) /\ rcVerdict = Nil
      /\ rcThreshold \in Thresholds /\ (input = "benign" => Handed("attack"))
  BY <1>1 DEF RecoveryInv, ResultsHold
<1>7. /\ Paired(rcResults') /\ Paired(rcTruth')
      /\ rcResults'[input] = r /\ rcTruth'[input] = r
      /\ \A i \in RInputs \ {input} : rcResults'[i] = rcResults[i] /\ rcTruth'[i] = rcTruth[i]
  BY <1>1, <1>4, <1>6 DEF Paired
<1>8. DbHolds'
  BY <1>1, NoClone DEF CloneSteps
<1>9. CASE input = "attack"
  <2>1. rcResults'["attack"] = r /\ rcTruth'["attack"] = r
    BY <1>7, <1>9
  <2>2. Handed("attack")'
    BY <1>1, <1>2, <1>5, <1>9, <2>1 DEF Handed
  <2>3. rcStep' = "levels" /\ rcVerdict' = Nil
    BY <1>1, <1>6, <1>9
  <2> HIDE DEF input
  <2> QED
    BY <1>1, <1>6, <1>7, <1>8, <2>2, <2>3 DEF ResultsHold
<1>10. CASE input = "benign"
  <2>1. "attack" \in RInputs \ {input}
    BY <1>10 DEF RInputs
  <2>2. rcResults'["attack"] = rcResults["attack"] /\ rcTruth'["attack"] = rcTruth["attack"]
    BY <1>7, <2>1
  <2>3. rcResults'["benign"] = r /\ rcTruth'["benign"] = r
    BY <1>7, <1>10
  <2>4. Handed("attack")'
    BY <1>1, <1>6, <1>10, <2>2 DEF Handed
  <2>5. Handed("benign")'
    BY <1>1, <1>2, <1>5, <1>10, <2>3 DEF Handed
  <2>6. rcStep' = "done" /\ rcVerdict' = Nil /\ rcCell'.input = "benign"
    BY <1>1, <1>6, <1>10
  <2> HIDE DEF input
  <2> QED
    BY <1>1, <1>6, <1>7, <1>8, <2>4, <2>5, <2>6 DEF ResultsHold
<1> QED
  BY <1>4, <1>8, <1>9, <1>10 DEF RInputs

\* Whatever is rewritten of a result, its columns stay, it claims a cell of the design, and
\* the restored entitlements are left alone.
LEMMA RewrittenTraces ==
    ASSUME NEW r, NEW truth, Traces(r, truth), NEW s \in Rewritten(r)
    PROVE  Traces(s, truth)
<1>0. r = ResultColumns(r) /\ r.cell \in RCells /\ r.entitlements = truth.entitlements
  BY DEF Traces
<1>1. ASSUME NEW v, s = [r EXCEPT !.selected = v] PROVE Traces(s, truth)
  BY <1>0, <1>1 DEF Traces, ResultColumns
<1>2. ASSUME NEW v, s = [r EXCEPT !.delivered = v] PROVE Traces(s, truth)
  BY <1>0, <1>2 DEF Traces, ResultColumns
<1>3. ASSUME NEW v, s = [r EXCEPT !.release = v] PROVE Traces(s, truth)
  BY <1>0, <1>3 DEF Traces, ResultColumns
<1>4. ASSUME NEW v, s = [r EXCEPT !.authorized = v] PROVE Traces(s, truth)
  BY <1>0, <1>4 DEF Traces, ResultColumns
<1>5. ASSUME NEW v, s = [r EXCEPT !.session = v] PROVE Traces(s, truth)
  BY <1>0, <1>5 DEF Traces, ResultColumns
<1>6. ASSUME NEW v, s = [r EXCEPT !.ledgerAfter = v] PROVE Traces(s, truth)
  BY <1>0, <1>6 DEF Traces, ResultColumns
<1>7. ASSUME NEW v, s = [r EXCEPT !.closed = v] PROVE Traces(s, truth)
  BY <1>0, <1>7 DEF Traces, ResultColumns
<1>8. ASSUME NEW v \in RCells, s = [r EXCEPT !.cell = v] PROVE Traces(s, truth)
  <2>1. s = ResultColumns(s) /\ s.cell = v /\ s.entitlements = r.entitlements
    BY <1>0, <1>8 DEF ResultColumns
  <2> QED
    BY <1>0, <2>1 DEF Traces
<1>9. ASSUME NEW v, s = [r EXCEPT !.clone = v] PROVE Traces(s, truth)
  BY <1>0, <1>9 DEF Traces, ResultColumns
<1>10. ASSUME NEW v, s = [r EXCEPT !.derived = v] PROVE Traces(s, truth)
  BY <1>0, <1>10 DEF Traces, ResultColumns
<1>11. CASE s = Refreshed(r)
  BY <1>0, <1>11, RefreshedResult DEF Traces, SameRaw
<1>12. [r.cell EXCEPT !.guard = "enforce"] \in RCells
  BY <1>0 DEF RCells
<1>13. [r.cell EXCEPT !.target = "approved"] \in RCells
  BY <1>0 DEF RCells, RTargets
<1>14. \/ \E v : s = [r EXCEPT !.selected = v]
       \/ \E v : s = [r EXCEPT !.delivered = v]
       \/ \E v : s = [r EXCEPT !.release = v]
       \/ \E v : s = [r EXCEPT !.authorized = v]
       \/ \E v : s = [r EXCEPT !.session = v]
       \/ \E v : s = [r EXCEPT !.ledgerAfter = v]
       \/ \E v : s = [r EXCEPT !.closed = v]
       \/ \E v \in RCells : s = [r EXCEPT !.cell = v]
       \/ \E v : s = [r EXCEPT !.clone = v]
       \/ \E v : s = [r EXCEPT !.derived = v]
       \/ s = Refreshed(r)
  <2>1. CASE s \in {[r EXCEPT !.selected = v] : v \in SUBSET Customers}
    BY <2>1
  <2>2. CASE s \in {[r EXCEPT !.delivered = v] : v \in SUBSET Customers}
    BY <2>2
  <2>3. CASE s \in {[r EXCEPT !.release = d] :
                      d \in {ReleaseDecision(TRUE, r.selected, "enforce", rcThreshold),
                             ReleaseDecision(TRUE, {Approved}, "monitor", rcThreshold)}}
    BY <2>3
  <2>4. CASE s = [r EXCEPT !.authorized = ~ @]
    BY <2>4
  <2>5. CASE s = [r EXCEPT !.session.old = "active"]
    BY <2>5
  <2>6. CASE s = [r EXCEPT !.ledgerAfter = "other"] \/ s = [r EXCEPT !.closed = FALSE]
    BY <2>6
  <2>7. CASE s = [r EXCEPT !.cell.guard = "enforce"]
    BY <1>12, <2>7
  <2>8. CASE s = [r EXCEPT !.cell.target = "approved"]
    BY <1>13, <2>8
  <2>9. CASE s = [r EXCEPT !.clone = CloneId(r.cell, @.bundle)]
    BY <2>9
  <2>10. CASE s = [r EXCEPT !.derived = Derived(r)] \/ s = Refreshed(r)
    BY <2>10
  <2> QED
    BY <2>1, <2>2, <2>3, <2>4, <2>5, <2>6, <2>7, <2>8, <2>9, <2>10 DEF Rewritten
<1> QED
  BY <1>1, <1>2, <1>3, <1>4, <1>5, <1>6, <1>7, <1>8, <1>9, <1>10, <1>11, <1>14

LEMMA RewriteHolds ==
    ASSUME RecoveryInv, NEW i \in RInputs, Rewrite(i)
    PROVE  DbHolds' /\ ResultsHold'
<1>1. /\ rcStep = "done" /\ UNCHANGED << rcStep, rcCell, rcThreshold, rcTruth, rcVerdict >>
      /\ \E r \in Rewritten(rcResults[i]) : rcResults' = [rcResults EXCEPT ![i] = r]
  BY DEF Rewrite
<1>2. PICK r \in Rewritten(rcResults[i]) : rcResults' = [rcResults EXCEPT ![i] = r]
  BY <1>1
<1>3. /\ Paired(rcResults) /\ Paired(rcTruth) /\ rcVerdict = Nil /\ rcCell.input = "benign"
      /\ rcThreshold \in Thresholds /\ Handed("attack") /\ Handed("benign")
  BY <1>1 DEF RecoveryInv, ResultsHold
<1>4. \A j \in RInputs : Traces(rcResults[j], rcTruth[j])
  BY <1>3 DEF RInputs, Handed
<1>5. Traces(r, rcTruth[i])
  BY <1>2, <1>4, RewrittenTraces
<1>6. /\ Paired(rcResults') /\ rcResults'[i] = r
      /\ \A j \in RInputs \ {i} : rcResults'[j] = rcResults[j]
  BY <1>2, <1>3 DEF Paired
<1>7. \A j \in RInputs : Traces(rcResults'[j], rcTruth'[j])
  BY <1>1, <1>4, <1>5, <1>6
<1>8. Handed("attack")' /\ Handed("benign")'
  BY <1>1, <1>3, <1>7 DEF RInputs, Handed
<1>9. DbHolds'
  BY <1>1, NoClone DEF CloneSteps
<1> QED
  BY <1>1, <1>3, <1>6, <1>8, <1>9 DEF ResultsHold
----------------------------------------------------------------------------
(* The assessment *)

Sound(a, b) ==
    /\ a.derived.cutover /\ b.derived.cutover
    /\ a.derived.unchanged /\ b.derived.unchanged
    /\ b.derived.assignedDelivered = 1
    /\ a.closed /\ b.closed

\* The benign partner gets its own case, whatever the levels.
LEMMA BenignIsServed ==
    ASSUME NEW b, b.cell \in RCells, ResultValid(b), b.cell.input = "benign"
    PROVE  b.derived.assignedDelivered = 1 /\ b.derived.unchanged /\ b.closed
<1>1. /\ FixedSemantics(b) /\ b.derived = Derived(b) /\ b.closed
      /\ b.ledgerBefore = b.ledgerAfter
  BY DEF ResultValid, ClaimsBound, CloneBound, DisclosureBound
<1>2. b.delivered = {Approved}
  BY <1>1 DEF FixedSemantics, Requested
<1>3. Cardinality(b.delivered \cap Assigned) = 1
  <2>1. b.delivered \cap Assigned = {Approved}
    BY <1>2 DEF Assigned
  <2> QED
    BY <2>1, FS_Singleton
<1>4. b.derived.assignedDelivered = Cardinality(b.delivered \cap Assigned)
      /\ b.derived.unchanged = (b.ledgerBefore = b.ledgerAfter)
  BY <1>1 DEF Derived
<1> QED
  BY <1>1, <1>3, <1>4

LEMMA OthersCount ==
    /\ Cardinality(OutsideAssignment(Others)) # 0 /\ OutsideAssignment(Others) # {}
    /\ Cardinality(OutsideAssignment({})) = 0 /\ OutsideAssignment({}) = {}
<1>1. OutsideAssignment(Others) = Others /\ OutsideAssignment({}) = {}
  BY RecoveryAssumption DEF OutsideAssignment, Assigned
<1>2. Cardinality({}) = 0
  BY FS_EmptySet
<1>3. Cardinality(Others) # 0
  BY RecoveryAssumption, FS_EmptySet
<1> QED
  BY <1>1, <1>2, <1>3, RecoveryAssumption

\* What an attack shows: the target by what it let through, the path by what was delivered.
LEMMA AttackShows ==
    ASSUME NEW a, a.cell \in RCells, ResultValid(a), a.cell.input = "attack"
    PROVE  /\ a.derived.outDelivered = 0 <=> Residual(a.cell) # "exposed_path"
           /\ a.derived.outSelected = 0 <=> Residual(a.cell) = "target_effective"
           /\ Residual(a.cell) = "masked_restore_failure" => a.derived.blocked
           /\ a.derived.unchanged /\ a.closed
<1>1. /\ FixedSemantics(a) /\ a.derived = Derived(a) /\ a.closed
      /\ a.ledgerBefore = a.ledgerAfter
  BY DEF ResultValid, ClaimsBound, CloneBound, DisclosureBound
<1>2. /\ a.derived.outSelected = Cardinality(OutsideAssignment(a.selected))
      /\ a.derived.outDelivered = Cardinality(OutsideAssignment(a.delivered))
      /\ a.derived.blocked = (/\ a.release.reached /\ a.release.decision = "block"
                              /\ OutsideAssignment(a.selected) # {}
                              /\ OutsideAssignment(a.delivered) = {})
      /\ a.derived.unchanged = (a.ledgerBefore = a.ledgerAfter)
  BY <1>1 DEF Derived
<1>3. a.cell.target \in {"stale", "approved"} /\ a.cell.guard \in {"monitor", "enforce"}
  BY DEF RCells, RTargets
<1>4. Requested(a.cell.input) = Others /\ Others # {Approved} /\ Others \ {Approved} # {}
  BY RecoveryAssumption DEF Requested
<1>5. CASE a.cell.target = "approved"
  <2>1. a.selected = {} /\ a.delivered = {}
    BY <1>1, <1>4, <1>5 DEF FixedSemantics
  <2>2. Residual(a.cell) = "target_effective"
    BY <1>5 DEF Residual
  <2> QED
    BY <1>1, <1>2, <2>1, <2>2, OthersCount
<1>6. CASE a.cell.target = "stale" /\ a.cell.guard = "enforce"
  <2>1. /\ a.selected = Others /\ a.delivered = {}
        /\ a.release = [reached |-> TRUE, decision |-> "block", reason |-> "unapproved-or-bulk"]
    BY <1>1, <1>4, <1>6 DEF FixedSemantics
  <2>2. Residual(a.cell) = "masked_restore_failure"
    BY <1>6 DEF Residual
  <2>3. a.release.reached /\ a.release.decision = "block"
    BY <2>1
  <2>4. a.derived.blocked
    BY <1>2, <2>1, <2>3, OthersCount
  <2> QED
    BY <1>1, <1>2, <2>1, <2>2, <2>4, OthersCount
<1>7. CASE a.cell.target = "stale" /\ a.cell.guard = "monitor"
  <2>1. a.selected = Others /\ a.delivered = Others
    BY <1>1, <1>4, <1>7 DEF FixedSemantics
  <2>2. Residual(a.cell) = "exposed_path"
    BY <1>7 DEF Residual
  <2> QED
    BY <1>1, <1>2, <2>1, <2>2, OthersCount
<1> QED
  BY <1>3, <1>5, <1>6, <1>7

\* The classification of a valid pair is the residual of its levels, or names a session.
LEMMA PairIsClassified ==
    ASSUME NEW a, NEW b, a.cell \in RCells, b.cell \in RCells,
           ResultValid(a), ResultValid(b), Matched(a, b)
    PROVE  /\ Classification(a, b) \in {Residual(a.cell), "unresolved"}
           /\ Classification(a, b) = "unresolved" =>
                 ~ a.derived.cutover \/ ~ b.derived.cutover
           /\ (a.derived.outDelivered = 0 /\ b.derived.assignedDelivered = 1)
              <=> Residual(a.cell) # "exposed_path"
<1>1. a.cell.input = "attack" /\ b.cell.input = "benign"
  BY DEF Matched
<1>2. /\ b.derived.assignedDelivered = 1 /\ b.derived.unchanged /\ b.closed
      /\ a.derived.unchanged /\ a.closed
  BY <1>1, BenignIsServed, AttackShows
<1>3. /\ a.derived.outDelivered = 0 <=> Residual(a.cell) # "exposed_path"
      /\ a.derived.outSelected = 0 <=> Residual(a.cell) = "target_effective"
      /\ Residual(a.cell) = "masked_restore_failure" => a.derived.blocked
  BY <1>1, AttackShows
<1>4. Residual(a.cell) \in {"target_effective", "masked_restore_failure", "exposed_path"}
  BY DEF Residual
<1>5. Classification(a, b) =
         IF a.derived.outSelected # 0 /\ a.derived.blocked /\ a.derived.outDelivered = 0
            /\ Sound(a, b)
         THEN "masked_restore_failure"
         ELSE IF a.derived.outDelivered # 0 THEN "exposed_path"
         ELSE IF a.derived.outSelected = 0 /\ Sound(a, b) THEN "target_effective"
         ELSE "unresolved"
  BY DEF Classification, Sound
<1>6. Sound(a, b) <=> a.derived.cutover /\ b.derived.cutover
  BY <1>2 DEF Sound
<1> QED
  BY <1>2, <1>3, <1>4, <1>5, <1>6

\* A cutover that does not hold is one of a session that was rewritten.
LEMMA BrokenCutover ==
    ASSUME NEW r, NEW truth, Traces(r, truth), NEW threshold, Executed(truth, threshold),
           ResultValid(r), ~ r.derived.cutover
    PROVE  r.session # truth.session
<1>1. r.derived = Derived(r)
  BY DEF ResultValid, ClaimsBound
<1>2. r.derived.cutover = (/\ r.session.old = "revoked" /\ r.session.new = "active"
                           /\ r.session.bound = r.entitlements)
  BY <1>1 DEF Derived
<1>3. truth.session.old = "revoked" /\ truth.session.new = "active"
      /\ truth.session.bound = r.entitlements
  BY DEF Executed, Traces
<1> QED
  BY <1>2, <1>3

\* A matched pair handed over as it was executed, on a directory that still holds its bundle,
\* fails the validation only under a threshold of 1, and then it is the benign result.
LEMMA UntouchedPair ==
    ASSUME ResultsHold, rcCell.input = "benign", Handed("benign"), rcResults = rcTruth
    PROVE  /\ ResultValid(rcResults["attack"])
           /\ ResultValid(rcResults["benign"]) <=> rcThreshold > 1
           /\ \A i \in RInputs : rcResults[i].clone.bundle = "sound"
<1>1. Handed("attack")
  BY DEF ResultsHold
<1>2. ResultValid(rcTruth["attack"])
  BY <1>1 DEF Handed, Executed, ResultValid
<1>3. ResultValid(rcTruth["benign"]) <=> rcThreshold > 1
  BY DEF Handed, Executed, ResultValid
<1>4. \A i \in RInputs : CloneBound(rcTruth[i])
  BY <1>1 DEF Handed, Executed, RInputs
<1>5. \A i \in RInputs : rcTruth[i].clone.bundle = "sound"
  <2> TAKE i \in RInputs
  <2>1. rcTruth[i].clone = [cell |-> rcTruth[i].cell, bundle |-> "sound"]
    BY <1>4 DEF CloneBound, CloneId
  <2> QED
    BY <2>1
<1> QED
  BY <1>2, <1>3, <1>5

\* What both steps of the assessment start from.
LEMMA BeforeVerdict ==
    ASSUME RecoveryInv, rcStep \in {"done", "half"}
    PROVE  /\ Paired(rcResults) /\ Paired(rcTruth) /\ rcVerdict = Nil
           /\ rcCell.input = "benign" /\ Handed("attack") /\ Handed("benign")
           /\ rcThreshold \in Thresholds
           /\ rcThreshold = 1 \/ rcThreshold > 1
<1>1. /\ Paired(rcResults) /\ Paired(rcTruth) /\ rcVerdict = Nil
      /\ rcCell.input = "benign" /\ Handed("attack") /\ Handed("benign")
      /\ rcThreshold \in Thresholds
  BY DEF RecoveryInv, ResultsHold
<1>2. rcThreshold \in Nat \ {0}
  BY <1>1, RecoveryAssumption
<1> QED
  BY <1>1, <1>2

\* A refusal has one of the reasons the property names.
LEMMA RefusalIsEarned ==
    ASSUME RecoveryInv, rcStep \in {"done", "half"},
           UNCHANGED << rcThreshold, rcResults, rcTruth >>, rcVerdict' = Refusal,
           \/ \E i \in RInputs : ~ DirectoryValid(rcResults[i])
           \/ ~ ResultValid(rcResults["attack"]) \/ ~ ResultValid(rcResults["benign"])
           \/ ~ Matched(rcResults["attack"], rcResults["benign"])
    PROVE  RecoveryIsClassified'
<1>1. rcVerdict'.class = "refused" /\ rcVerdict'.saw = rcDisk.bundle
  BY DEF Refusal
<1>2. ASSUME rcResults = rcTruth, Matched(rcTruth["attack"], rcTruth["benign"]), rcThreshold # 1
      PROVE  rcDisk.bundle # rcTruth["attack"].clone.bundle
  <2>1. /\ ResultValid(rcResults["attack"]) /\ ResultValid(rcResults["benign"])
        /\ \A i \in RInputs : rcResults[i].clone.bundle = "sound"
    BY <1>2, BeforeVerdict, UntouchedPair DEF RecoveryInv
  <2>2. \E i \in RInputs : ~ DirectoryValid(rcResults[i])
    BY <1>2, <2>1
  <2> QED
    BY <1>2, <2>1, <2>2 DEF DirectoryValid, RInputs
<1> QED
  BY <1>1, <1>2 DEF RecoveryIsClassified

LEMMA AssessAttackHolds ==
    ASSUME RecoveryInv, AssessAttack
    PROVE  DbHolds' /\ ResultsHold'
<1> DEFINE a == rcResults["attack"]
<1>1. /\ rcStep = "done" /\ rcStep' \in {"half", "assessed"}
      /\ UNCHANGED << rcCell, rcThreshold, rcResults, rcTruth >>
      /\ rcStep' = "half" => ResultValid(a) /\ UNCHANGED rcVerdict
      /\ rcStep' = "assessed" => /\ ~ DirectoryValid(a) \/ ~ ResultValid(a)
                                 /\ rcVerdict' = Refusal
  BY DEF AssessAttack
<1>2. /\ Paired(rcResults) /\ Paired(rcTruth) /\ rcVerdict = Nil
      /\ rcCell.input = "benign" /\ Handed("attack") /\ Handed("benign")
      /\ rcThreshold \in Thresholds
  BY <1>1, BeforeVerdict
<1>3. DbHolds'
  BY <1>1, NoClone DEF CloneSteps
<1>4. Handed("attack")' /\ Handed("benign")'
  BY <1>1, <1>2 DEF Handed
<1>5. rcStep' = "assessed" => RecoveryIsClassified'
  <2> SUFFICES ASSUME rcStep' = "assessed" PROVE RecoveryIsClassified'
    OBVIOUS
  <2>1. \/ \E i \in RInputs : ~ DirectoryValid(rcResults[i])
        \/ ~ ResultValid(rcResults["attack"])
    BY <1>1 DEF RInputs
  <2> QED
    BY <1>1, <2>1, RefusalIsEarned
<1> QED
  BY <1>1, <1>2, <1>3, <1>4, <1>5 DEF ResultsHold

LEMMA AssessPairHolds ==
    ASSUME RecoveryInv, AssessPair
    PROVE  DbHolds' /\ ResultsHold'
<1> DEFINE a == rcResults["attack"]
           b == rcResults["benign"]
           accepted == DirectoryValid(b) /\ ResultValid(b) /\ Matched(a, b)
           class == Classification(a, b)
           baseline == a.derived.outDelivered = 0 /\ b.derived.assignedDelivered = 1
<1>1. /\ rcStep = "half" /\ rcStep' = "assessed"
      /\ UNCHANGED << rcCell, rcThreshold, rcResults, rcTruth >>
      /\ accepted => rcVerdict' = [class |-> class, cell |-> a.cell, baseline |-> baseline]
      /\ ~ accepted => rcVerdict' = Refusal
  BY DEF AssessPair
<1>2. /\ Paired(rcResults) /\ Paired(rcTruth) /\ rcVerdict = Nil
      /\ rcCell.input = "benign" /\ Handed("attack") /\ Handed("benign")
      /\ rcThreshold \in Thresholds
  BY <1>1, BeforeVerdict
<1>3. ResultValid(a)
  BY <1>1 DEF RecoveryInv, ResultsHold
<1>4. DbHolds'
  BY <1>1, NoClone DEF CloneSteps
<1>5. Handed("attack")' /\ Handed("benign")'
  BY <1>1, <1>2 DEF Handed
<1>6. /\ a.cell \in RCells /\ b.cell \in RCells
      /\ Traces(a, rcTruth["attack"]) /\ Traces(b, rcTruth["benign"])
      /\ Executed(rcTruth["attack"], rcThreshold) /\ Executed(rcTruth["benign"], rcThreshold)
  BY <1>2 DEF Handed, Traces
<1>7. RecoveryIsClassified'
  <2>1. CASE accepted
    <3>1. /\ class \in {Residual(a.cell), "unresolved"}
          /\ class = "unresolved" => ~ a.derived.cutover \/ ~ b.derived.cutover
          /\ baseline <=> Residual(a.cell) # "exposed_path"
      BY <1>3, <1>6, <2>1, PairIsClassified
    <3>2. class # "refused"
      BY <3>1 DEF Residual
    <3>3. class = "unresolved" => \E i \in RInputs : rcResults[i].session # rcTruth[i].session
      <4>1. ~ a.derived.cutover => rcResults["attack"].session # rcTruth["attack"].session
        BY <1>3, <1>6, BrokenCutover
      <4>2. ~ b.derived.cutover => rcResults["benign"].session # rcTruth["benign"].session
        BY <1>6, <2>1, BrokenCutover
      <4> QED
        BY <3>1, <4>1, <4>2 DEF RInputs
    <3>4. rcResults = rcTruth => rcThreshold > 1
      BY <1>2, <2>1, UntouchedPair DEF RecoveryInv
    <3>5. rcVerdict'.class = class /\ rcVerdict'.cell = a.cell
          /\ rcVerdict'.baseline = baseline
      BY <1>1, <2>1
    <3> HIDE DEF class, baseline, a, b, accepted
    <3> QED
      BY <1>1, <3>1, <3>2, <3>3, <3>4, <3>5 DEF RecoveryIsClassified
  <2>2. CASE ~ accepted
    <3>1. \/ \E i \in RInputs : ~ DirectoryValid(rcResults[i])
          \/ ~ ResultValid(rcResults["benign"])
          \/ ~ Matched(rcResults["attack"], rcResults["benign"])
      BY <2>2 DEF RInputs
    <3> QED
      BY <1>1, <2>2, <3>1, RefusalIsEarned
  <2> QED
    BY <2>1, <2>2
<1> QED
  BY <1>1, <1>2, <1>4, <1>5, <1>7 DEF ResultsHold

LEMMA RecoveryInitially == RCInit => RecoveryInv
<1> SUFFICES ASSUME RCInit PROVE RecoveryInv
  OBVIOUS
<1>1. /\ rcStep = "construct" /\ rcCell.input = "attack" /\ rcVerdict = Nil
      /\ rcThreshold \in Thresholds
      /\ rcResults = [i \in RInputs |-> Nil] /\ rcTruth = [i \in RInputs |-> Nil]
  BY DEF RCInit
<1>2. Paired(rcResults) /\ Paired(rcTruth)
  BY <1>1 DEF Paired
<1> QED
  BY <1>1, <1>2, CutoverInitially DEF RecoveryInv, DbHolds, ResultsHold, CloneSteps

LEMMA RecoveryIsInductive == RecoveryInv /\ [RCNext]_rcVars => RecoveryInv'
<1> SUFFICES ASSUME RecoveryInv, [RCNext]_rcVars PROVE DbHolds' /\ ResultsHold'
  BY CutoverIsInductive DEF RecoveryInv
<1>0. CASE ChangeDirectory
  <2>1. /\ UNCHANGED << rcStep, rcCell, rcThreshold, rcResults, rcTruth, rcVerdict >>
        /\ rcStep \notin CloneSteps
    BY <1>0 DEF ChangeDirectory, CloneSteps
  <2> QED
    BY <2>1, NoClone, ResultsStay DEF RecoveryInv
<1>1. CASE Construct \/ CheckLevels \/ VerifyBundle \/ ReadProof
           \/ ReadCutover \/ ReverifyBundle
  <2>1. /\ rcStep \notin CloneSteps \cup {"done", "half", "assessed"}
        /\ rcStep' \notin CloneSteps \cup {"done", "half", "assessed"}
        /\ UNCHANGED << rcCell, rcThreshold, rcResults, rcTruth, rcVerdict >>
    BY <1>1 DEF Construct, CheckLevels, VerifyBundle, ReadProof, ReadCutover,
         ReverifyBundle, CloneSteps
  <2> QED
    BY <2>1, NoClone, ResultsStay DEF RecoveryInv
<1>2. CASE FreshDatabase \/ RecordRequest \/ ResolveSessionRole \/ ReadBack
           \/ ReapplySnapshot \/ KeepSnapshot \/ CheckRestored \/ SelectCustomers
           \/ Release \/ Deliver
  <2>1. /\ rcStep \notin {"done", "half", "assessed"}
        /\ rcStep' \notin {"done", "half", "assessed"}
        /\ UNCHANGED << rcCell, rcThreshold, rcResults, rcTruth, rcVerdict >>
    BY <1>2 DEF FreshDatabase, RecordRequest, ResolveSessionRole, ReadBack, ReapplySnapshot,
         KeepSnapshot, CheckRestored, SelectCustomers, Release, Deliver
  <2>2. ResultsHold'
    BY <2>1, ResultsStay DEF RecoveryInv
  <2>3. DbHolds'
    BY <1>2, FreshHolds, RequestHolds, ResolveHolds, ReadBackHolds, ReapplyHolds, CheckHolds,
       SelectHolds, ReleaseHolds, DeliverHolds
  <2> QED
    BY <2>2, <2>3
<1>3. CASE CloseTrial \/ AssessAttack \/ AssessPair \/ \E i \in RInputs : Rewrite(i)
  BY <1>3, CloseHolds, AssessAttackHolds, AssessPairHolds, RewriteHolds
<1>4. CASE UNCHANGED rcVars
  BY <1>4 DEF rcVars, RecoveryInv, DbHolds, ResultsHold, Handed, RecoveryIsClassified
<1> QED
  BY <1>0, <1>1, <1>2, <1>3, <1>4 DEF RCNext

\* An assessment that is not refused names the residual of the levels its results claim, or
\* "unresolved" for a pair whose session was rewritten; a pair that was executed under matched
\* levels and not rewritten is refused only if the directory holds another bundle when one of
\* its results is validated, or if the threshold is 1, under which it is always refused: for any
\* customers, any thresholds from 1 up and any number of rewrites and of directory
\* changes, before, during and after the trials (assess_recovery_case, _validate_fixed_execution_semantics, financial_recovery_runtime.py).
THEOREM RecoveryAlwaysClassified == RCSpec => []RecoveryIsClassified
<1>1. RecoveryInv => RecoveryIsClassified
  BY DEF RecoveryInv, ResultsHold, RecoveryIsClassified
<1> QED
  BY <1>1, RecoveryInitially, RecoveryIsInductive, PTL DEF RCSpec
----------------------------------------------------------------------------
(* Session revocation: what an observation that passes the checks shows *)

SessionRow == [principal : Principals, active : BOOLEAN]

ObsColumns(o) ==
    [trial |-> o.trial, trace |-> o.trace, clone |-> o.clone, action |-> o.action,
     before |-> o.before, after |-> o.after, shamOp |-> o.shamOp, sess0 |-> o.sess0,
     prin0 |-> o.prin0, sess1 |-> o.sess1, prin1 |-> o.prin1, response |-> o.response,
     target |-> o.target, sess2 |-> o.sess2, prin2 |-> o.prin2,
     compensator |-> o.compensator, replay |-> o.replay, unrelated |-> o.unrelated]

\* An observation with the columns of the snapshot it starts from.
ObsTyped(o) ==
    /\ o = ObsColumns(o)
    /\ o.sess0 \in [Sessions -> SessionRow] /\ o.prin0 \in [Principals -> BOOLEAN]

Revokes(t) == t.input = "attack" /\ t.target = "effective"

LEMMA Operations ==
    ASSUME NEW t \in RPCells
    PROVE  /\ TargetOperation(t) = "revoke-exact" <=> Revokes(t)
           /\ ActionStatus(t) = "reported-success" <=> t.input = "attack"
<1>1. t.input \in {"attack", "benign"} /\ t.target \in {"ineffective", "effective"}
  BY DEF RPCells
<1>2. CASE t.input = "benign"
  BY <1>2 DEF TargetOperation, ActionStatus, Revokes
<1>3. CASE t.input = "attack" /\ t.target = "effective"
  BY <1>3 DEF TargetOperation, ActionStatus, Revokes
<1>4. CASE t.input = "attack" /\ t.target = "ineffective"
  BY <1>4 DEF TargetOperation, ActionStatus, Revokes
<1> QED
  BY <1>1, <1>2, <1>3, <1>4

\* The rows that passed are those of the planned transition.
LEMMA ValidRows ==
    ASSUME NEW t \in RPCells, NEW obs, ObsTyped(obs), SnapshotMatches(obs),
           TransitionsMatch(t, obs)
    PROVE  /\ obs.sess1["compromised"].active = ~ Revokes(t)
           /\ \A s \in Sessions \ {"compromised"} : obs.sess1[s].active = TRUE
           /\ obs.sess2 = obs.sess1
           /\ obs.prin2["support-017"] = Quarantines(t)
           /\ obs.prin2["support-042"] = FALSE
<1>1. obs.sess0 \in [Sessions -> SessionRow] /\ obs.prin0 \in [Principals -> BOOLEAN]
  BY DEF ObsTyped
<1>2. \A s \in Sessions : obs.sess0[s].active = TRUE
  BY <1>1 DEF SnapshotMatches, SessionRow
<1>3. \A p \in Principals : obs.prin0[p] = FALSE
  BY <1>1 DEF SnapshotMatches
<1>4. "compromised" \in Sessions /\ "support-017" \in Principals /\ "support-042" \in Principals
  BY DEF Sessions, Principals
<1>5. obs.sess2 = obs.sess1
  BY DEF TransitionsMatch
<1>6. /\ obs.sess1["compromised"].active = ~ Revokes(t)
      /\ \A s \in Sessions \ {"compromised"} : obs.sess1[s].active = TRUE
  <2>1. CASE Revokes(t)
    <3>1. obs.sess1 = [obs.sess0 EXCEPT !["compromised"].active = FALSE]
      BY <2>1, Operations DEF TransitionsMatch
    <3>2. obs.sess1["compromised"] = [obs.sess0["compromised"] EXCEPT !.active = FALSE]
      BY <1>1, <1>4, <3>1
    <3>3. obs.sess1["compromised"].active = FALSE
      BY <1>1, <1>4, <3>2 DEF SessionRow
    <3>4. \A s \in Sessions \ {"compromised"} : obs.sess1[s] = obs.sess0[s]
      BY <1>1, <3>1
    <3> QED
      BY <1>2, <2>1, <3>3, <3>4
  <2>2. CASE ~ Revokes(t)
    <3>1. obs.sess1 = obs.sess0
      BY <2>2, Operations DEF TransitionsMatch
    <3> QED
      BY <1>2, <1>4, <2>2, <3>1
  <2> QED
    BY <2>1, <2>2
<1>7. obs.prin2["support-017"] = Quarantines(t) /\ obs.prin2["support-042"] = FALSE
  <2>1. CASE Quarantines(t)
    <3>1. obs.prin2 = [obs.prin0 EXCEPT !["support-017"] = TRUE]
      BY <2>1 DEF TransitionsMatch
    <3>2. "support-042" # "support-017"
      OBVIOUS
    <3> QED
      BY <1>1, <1>3, <1>4, <2>1, <3>1, <3>2
  <2>2. CASE ~ Quarantines(t)
    <3>1. obs.prin2 = obs.prin0
      BY <2>2 DEF TransitionsMatch
    <3> QED
      BY <1>3, <1>4, <2>2, <3>1 DEF Quarantines
  <2> QED
    BY <2>1, <2>2
<1> QED
  BY <1>5, <1>6, <1>7

\* And so are the gateway's decisions.
LEMMA ValidDecisions ==
    ASSUME NEW t \in RPCells, NEW obs, ObsTyped(obs), ObservationValid(t, obs)
    PROVE  /\ obs.response.status = ActionStatus(t)
           /\ obs.replay.available = ~ (Revokes(t) \/ Quarantines(t))
           /\ obs.unrelated.available = TRUE
<1>1. /\ obs.sess1["compromised"].active = ~ Revokes(t)
      /\ \A s \in Sessions \ {"compromised"} : obs.sess1[s].active = TRUE
      /\ obs.sess2 = obs.sess1
      /\ obs.prin2["support-017"] = Quarantines(t) /\ obs.prin2["support-042"] = FALSE
  BY ValidRows DEF ObservationValid
<1>2. obs.response.status = ActionStatus(t)
  BY DEF ObservationValid, ReceiptsMatch, ActionReceipt
<1>3. obs.replay.revoked = ~ obs.sess2["compromised"].active
      /\ obs.replay.quarantined = obs.prin2["support-017"]
      /\ obs.unrelated.revoked = ~ obs.sess2["unrelated"].active
      /\ obs.unrelated.quarantined = obs.prin2["support-042"]
  BY DEF ObservationValid, GatewayMatches
<1>4. obs.replay.available = (~ obs.replay.revoked /\ ~ obs.replay.quarantined)
      /\ obs.unrelated.available = (~ obs.unrelated.revoked /\ ~ obs.unrelated.quarantined)
  BY DEF ObservationValid, DecisionCoherent
<1>5. "unrelated" \in Sessions \ {"compromised"}
  BY DEF Sessions
<1>6. obs.sess2["unrelated"].active = TRUE
  BY <1>1, <1>5
<1> QED
  BY <1>1, <1>2, <1>3, <1>4, <1>6

\* Every metric of a trial that passed is the one its cell produces.
LEMMA ValidMetrics ==
    ASSUME NEW t \in RPCells, ObsTyped(rpLoaded["observations"][t]), TrialValid(t),
           NEW m \in Metrics
    PROVE  MetricValue(t, m) = ExpectedMetrics(t)[m]
<1> DEFINE obs == rpLoaded["observations"][t]
           stages == rpLoaded["stages"][t]
           record == rpLoaded["trials"][t]
<1>1. /\ ObservationValid(t, obs)
      /\ \A s \in RPStages : StageMatches(t, s, stages[s], record.events[s], record, obs)
      /\ MetricMatches(m, rpLoaded["metrics"][t][m], stages, record)
  BY DEF TrialValid
<1>2. MetricValue(t, m) = stages[Bindings[m][1]].payload[Bindings[m][2]]
  BY <1>1 DEF MetricValue, MetricMatches
<1>3. ObsTyped(obs)
  OBVIOUS
<1>4. \A s \in RPStages : stages[s].payload = DerivedPayloads(t, obs)[s]
  BY <1>1 DEF StageMatches
<1> HIDE DEF obs, stages, record
<1>5. /\ DerivedPayloads(t, obs)["target"].active = obs.sess1["compromised"].active
      /\ DerivedPayloads(t, obs)["target"].others =
            (\A s \in Sessions \ {"compromised"} : obs.sess1[s].active)
      /\ DerivedPayloads(t, obs)["target"].reported =
            (obs.response.status = "reported-success")
      /\ DerivedPayloads(t, obs)["compensator"].quarantined = obs.prin2["support-017"]
      /\ DerivedPayloads(t, obs)["outcome"].denied = ~ obs.replay.available
      /\ DerivedPayloads(t, obs)["outcome"].available = obs.unrelated.available
  <2> DEFINE base == StagePayloads(t, obs)
             exact == obs.target.operation = "revoke-exact"
             applied == obs.compensator.operation = "quarantine"
             derived == DerivedPayloads(t, obs)
  <2>1. derived = [base EXCEPT !.target.exact = exact, !.compensator.applied = applied]
    BY DEF DerivedPayloads
  <2>2. /\ base = [input |-> base.input, target |-> base.target,
                   compensator |-> base.compensator, outcome |-> base.outcome]
        /\ base.target.active = obs.sess1["compromised"].active
        /\ base.target.others = (\A s \in Sessions \ {"compromised"} : obs.sess1[s].active)
        /\ base.target.reported = (obs.response.status = "reported-success")
        /\ base.compensator.quarantined = obs.prin2["support-017"]
        /\ base.outcome.denied = ~ obs.replay.available
        /\ base.outcome.available = obs.unrelated.available
    BY DEF StagePayloads
  <2>3. {"active", "others", "reported"} \subseteq DOMAIN base.target
        /\ "quarantined" \in DOMAIN base.compensator
    BY DEF StagePayloads
  <2> HIDE DEF base, exact, applied, derived
  <2>4. /\ derived["target"] = [base.target EXCEPT !.exact = exact]
        /\ derived["compensator"] = [base.compensator EXCEPT !.applied = applied]
        /\ derived["outcome"] = base.outcome
    BY <2>1, <2>2
  <2>5. /\ derived["target"].active = base.target.active
        /\ derived["target"].others = base.target.others
        /\ derived["target"].reported = base.target.reported
        /\ derived["compensator"].quarantined = base.compensator.quarantined
    BY <2>3, <2>4
  <2> QED
    BY <2>2, <2>4, <2>5 DEF derived
<1>6. /\ obs.sess1["compromised"].active = ~ Revokes(t)
      /\ \A s \in Sessions \ {"compromised"} : obs.sess1[s].active = TRUE
      /\ obs.prin2["support-017"] = Quarantines(t)
  BY <1>1, <1>3, ValidRows DEF ObservationValid
<1>7. /\ (obs.response.status = "reported-success") = (t.input = "attack")
      /\ obs.replay.available = ~ (Revokes(t) \/ Quarantines(t))
      /\ obs.unrelated.available = TRUE
  <2>1. obs.response.status = ActionStatus(t)
    BY <1>1, <1>3, ValidDecisions
  <2>2. (obs.response.status = "reported-success") = (t.input = "attack")
    BY <2>1 DEF ActionStatus
  <2> QED
    BY <1>1, <1>3, <2>2, ValidDecisions
<1>8. m \in {"active", "others", "reported", "quarantined", "denied", "available"}
  BY DEF Metrics, Bindings
<1>9. {"target", "compensator", "outcome"} \subseteq RPStages
  BY DEF RPStages
<1>10. CASE m = "active"
  <2>1. MetricValue(t, m) = DerivedPayloads(t, obs)["target"].active
    BY <1>2, <1>4, <1>9, <1>10 DEF Bindings
  <2> QED
    BY <1>5, <1>6, <1>10, <2>1 DEF ExpectedMetrics, Revokes
<1>11. CASE m = "others"
  <2>1. MetricValue(t, m) = DerivedPayloads(t, obs)["target"].others
    BY <1>2, <1>4, <1>9, <1>11 DEF Bindings
  <2> QED
    BY <1>5, <1>6, <1>11, <2>1 DEF ExpectedMetrics
<1>12. CASE m = "reported"
  <2>1. MetricValue(t, m) = DerivedPayloads(t, obs)["target"].reported
    BY <1>2, <1>4, <1>9, <1>12 DEF Bindings
  <2> QED
    BY <1>5, <1>7, <1>12, <2>1 DEF ExpectedMetrics
<1>13. CASE m = "quarantined"
  <2>1. MetricValue(t, m) = DerivedPayloads(t, obs)["compensator"].quarantined
    BY <1>2, <1>4, <1>9, <1>13 DEF Bindings
  <2> QED
    BY <1>5, <1>6, <1>13, <2>1 DEF ExpectedMetrics, Quarantines
<1>14. CASE m = "denied"
  <2>1. MetricValue(t, m) = DerivedPayloads(t, obs)["outcome"].denied
    BY <1>2, <1>4, <1>9, <1>14 DEF Bindings
  <2> QED
    BY <1>5, <1>7, <1>14, <2>1 DEF ExpectedMetrics, Quarantines, Revokes
<1>15. CASE m = "available"
  <2>1. MetricValue(t, m) = DerivedPayloads(t, obs)["outcome"].available
    BY <1>2, <1>4, <1>9, <1>15 DEF Bindings
  <2> QED
    BY <1>5, <1>7, <1>15, <2>1 DEF ExpectedMetrics
<1> QED
  BY <1>8, <1>10, <1>11, <1>12, <1>13, <1>14, <1>15
----------------------------------------------------------------------------
(* What a trial of a cell records *)

FreshSessions == [s \in Sessions |-> [principal |-> Subject[s], active |-> TRUE]]
FreshPrincipals == [p \in Principals |-> FALSE]
GenerationOf(t) == IF t.sham = "reload" THEN 1 ELSE 0
RowsRevoked(t) == IF Revokes(t) THEN 1 ELSE 0

SessionsAfter(t) ==
    IF Revokes(t) THEN [FreshSessions EXCEPT !["compromised"].active = FALSE]
    ELSE FreshSessions
PrincipalsAfter(t) ==
    IF Quarantines(t) THEN [FreshPrincipals EXCEPT !["support-017"] = TRUE]
    ELSE FreshPrincipals

BeganObs(o, t) ==
    /\ o = ObsColumns(o)
    /\ o.trial = t /\ o.trace = t /\ o.clone = t /\ o.action = t.input
ShamObs(o, t) ==
    /\ o.before = Responder(t, 0) /\ o.after = Responder(t, GenerationOf(t))
    /\ o.shamOp = ShamReceipt(IF t.sham = "reload" THEN "reload" ELSE "steady-observation",
                              Responder(t, 0), Responder(t, GenerationOf(t)), GenerationOf(t))
TargetObs(o, t) ==
    /\ o.sess0 = FreshSessions /\ o.prin0 = FreshPrincipals
    /\ o.sess1 = SessionsAfter(t) /\ o.prin1 = FreshPrincipals
    /\ o.response = ActionReceipt(t, t, Responder(t, GenerationOf(t)), TargetOperation(t),
                                  RowsRevoked(t))
    /\ o.target = [operation |-> TargetOperation(t), rows |-> RowsRevoked(t)]
QuarantineObs(o, t) ==
    /\ o.sess2 = SessionsAfter(t) /\ o.prin2 = PrincipalsAfter(t)
    /\ o.compensator = [operation |-> IF Quarantines(t) THEN "quarantine" ELSE "not-triggered",
                        rows |-> IF Quarantines(t) THEN 1 ELSE 0]
ProbeObs(o, t) ==
    /\ o.replay = Decision("support-017", "compromised", SessionsAfter(t), PrincipalsAfter(t))
    /\ o.unrelated = Decision("support-042", "unrelated", SessionsAfter(t), PrincipalsAfter(t))

ExecutedObs(o, t) ==
    BeganObs(o, t) /\ ShamObs(o, t) /\ TargetObs(o, t) /\ QuarantineObs(o, t) /\ ProbeObs(o, t)

LEMMA FreshTyped ==
    /\ FreshSessions \in [Sessions -> SessionRow] /\ FreshPrincipals \in [Principals -> BOOLEAN]
    /\ \A s \in Sessions : /\ FreshSessions[s].active = TRUE
                           /\ FreshSessions[s].principal = Subject[s]
    /\ \A p \in Principals : FreshPrincipals[p] = FALSE
<1>1. \A s \in Sessions : Subject[s] \in Principals
  BY DEF Subject, Principals
<1> QED
  BY <1>1 DEF FreshSessions, FreshPrincipals, SessionRow

LEMMA RowsAfter ==
    ASSUME NEW t
    PROVE  /\ SessionsAfter(t) \in [Sessions -> SessionRow]
           /\ \A s \in Sessions : SessionsAfter(t)[s].principal = Subject[s]
           /\ SessionsAfter(t)["compromised"].active = ~ Revokes(t)
           /\ \A s \in Sessions \ {"compromised"} : SessionsAfter(t)[s] = FreshSessions[s]
           /\ PrincipalsAfter(t) \in [Principals -> BOOLEAN]
           /\ PrincipalsAfter(t)["support-017"] = Quarantines(t)
           /\ PrincipalsAfter(t)["support-042"] = FALSE
<1>1. /\ FreshSessions \in [Sessions -> SessionRow] /\ FreshPrincipals \in [Principals -> BOOLEAN]
      /\ \A s \in Sessions : /\ FreshSessions[s].active = TRUE
                             /\ FreshSessions[s].principal = Subject[s]
      /\ \A p \in Principals : FreshPrincipals[p] = FALSE
  BY FreshTyped
<1>2. "compromised" \in Sessions /\ "support-017" \in Principals /\ "support-042" \in Principals
  BY DEF Sessions, Principals
<1>3. /\ SessionsAfter(t) \in [Sessions -> SessionRow]
      /\ \A s \in Sessions : SessionsAfter(t)[s].principal = Subject[s]
      /\ SessionsAfter(t)["compromised"].active = ~ Revokes(t)
      /\ \A s \in Sessions \ {"compromised"} : SessionsAfter(t)[s] = FreshSessions[s]
  <2>1. CASE Revokes(t)
    <3> DEFINE row == [FreshSessions["compromised"] EXCEPT !.active = FALSE]
    <3>1. row \in SessionRow /\ row.active = FALSE
          /\ row.principal = FreshSessions["compromised"].principal
      BY <1>1, <1>2 DEF SessionRow
    <3>2. SessionsAfter(t) = [FreshSessions EXCEPT !["compromised"] = row]
      BY <2>1 DEF SessionsAfter
    <3> HIDE DEF row
    <3> QED
      BY <1>1, <1>2, <2>1, <3>1, <3>2
  <2>2. CASE ~ Revokes(t)
    BY <1>1, <1>2, <2>2 DEF SessionsAfter
  <2> QED
    BY <2>1, <2>2
<1>4. /\ PrincipalsAfter(t) \in [Principals -> BOOLEAN]
      /\ PrincipalsAfter(t)["support-017"] = Quarantines(t)
      /\ PrincipalsAfter(t)["support-042"] = FALSE
  <2>1. CASE Quarantines(t)
    <3>1. PrincipalsAfter(t) = [FreshPrincipals EXCEPT !["support-017"] = TRUE]
      BY <2>1 DEF PrincipalsAfter
    <3>2. "support-042" # "support-017"
      OBVIOUS
    <3> QED
      BY <1>1, <1>2, <2>1, <3>1, <3>2
  <2>2. CASE ~ Quarantines(t)
    BY <1>1, <1>2, <2>2 DEF PrincipalsAfter, Quarantines
  <2> QED
    BY <2>1, <2>2
<1> QED
  BY <1>3, <1>4

\* What a responder does changes one row at most, and the receipts count it.
LEMMA RowsChanged ==
    ASSUME NEW t
    PROVE  /\ Changed(FreshSessions, SessionsAfter(t)) =
                 IF Revokes(t) THEN {"compromised"} ELSE {}
           /\ Cardinality(Changed(FreshSessions, SessionsAfter(t))) = RowsRevoked(t)
           /\ Cardinality(Changed(FreshPrincipals, PrincipalsAfter(t))) =
                 IF Quarantines(t) THEN 1 ELSE 0
<1>0. DOMAIN FreshSessions = Sessions /\ DOMAIN FreshPrincipals = Principals
  BY FreshTyped
<1>1. Cardinality({}) = 0 /\ \A x : Cardinality({x}) = 1
  BY FS_EmptySet, FS_Singleton
<1>2. Changed(FreshSessions, SessionsAfter(t)) = IF Revokes(t) THEN {"compromised"} ELSE {}
  <2>1. CASE Revokes(t)
    <3>1. "compromised" \in Sessions /\ FreshSessions["compromised"].active = TRUE
          /\ SessionsAfter(t)["compromised"].active = FALSE
      BY <2>1, FreshTyped, RowsAfter DEF Sessions
    <3>2. \A s \in Sessions \ {"compromised"} : SessionsAfter(t)[s] = FreshSessions[s]
      BY RowsAfter
    <3>3. FreshSessions["compromised"] # SessionsAfter(t)["compromised"]
      BY <3>1
    <3> QED
      BY <1>0, <2>1, <3>1, <3>2, <3>3 DEF Changed
  <2>2. CASE ~ Revokes(t)
    BY <2>2 DEF Changed, SessionsAfter
  <2> QED
    BY <2>1, <2>2
<1>3. Changed(FreshPrincipals, PrincipalsAfter(t)) = IF Quarantines(t) THEN {"support-017"} ELSE {}
  <2>1. CASE Quarantines(t)
    <3>1. PrincipalsAfter(t) = [FreshPrincipals EXCEPT !["support-017"] = TRUE]
      BY <2>1 DEF PrincipalsAfter
    <3>2. FreshPrincipals["support-017"] = FALSE /\ "support-017" \in Principals
      BY FreshTyped DEF Principals
    <3>3. PrincipalsAfter(t)["support-017"] # FreshPrincipals["support-017"]
      BY <1>0, <3>1, <3>2
    <3>4. \A p \in Principals \ {"support-017"} : PrincipalsAfter(t)[p] = FreshPrincipals[p]
      BY <1>0, <3>1
    <3> QED
      BY <1>0, <2>1, <3>2, <3>3, <3>4 DEF Changed
  <2>2. CASE ~ Quarantines(t)
    BY <2>2 DEF Changed, PrincipalsAfter
  <2> QED
    BY <2>1, <2>2
<1> QED
  BY <1>1, <1>2, <1>3 DEF RowsRevoked
\* What was executed passes every check on the raw rows.
LEMMA ExecutedIsValid ==
    ASSUME NEW t \in RPCells, NEW o, ExecutedObs(o, t)
    PROVE  ObsTyped(o) /\ ObservationValid(t, o)
<1> DEFINE sessions == SessionsAfter(t)
           principals == PrincipalsAfter(t)
<1>1. BeganObs(o, t) /\ ShamObs(o, t) /\ TargetObs(o, t) /\ QuarantineObs(o, t)
      /\ ProbeObs(o, t)
  BY DEF ExecutedObs
<1>2. ObsTyped(o)
  BY <1>1, FreshTyped DEF ObsTyped, BeganObs, TargetObs
<1>3. /\ sessions \in [Sessions -> SessionRow]
      /\ \A s \in Sessions : sessions[s].principal = Subject[s]
      /\ principals \in [Principals -> BOOLEAN]
  BY RowsAfter
<1>4. Subject["compromised"] = "support-017" /\ Subject["unrelated"] = "support-042"
      /\ "compromised" \in Sessions /\ "unrelated" \in Sessions
      /\ "support-017" \in Principals /\ "support-042" \in Principals
  BY DEF Subject, Sessions, Principals
<1>5. \A s \in Sessions : sessions[s].active \in BOOLEAN
  BY <1>3 DEF SessionRow
<1>6. /\ o.sess0 = FreshSessions /\ o.sess1 = sessions /\ o.sess2 = sessions
      /\ o.prin0 = FreshPrincipals /\ o.prin1 = FreshPrincipals /\ o.prin2 = principals
  BY <1>1 DEF TargetObs, QuarantineObs
<1> HIDE DEF sessions, principals
<1>7. /\ o.replay = Decision("support-017", "compromised", sessions, principals)
      /\ o.unrelated = Decision("support-042", "unrelated", sessions, principals)
  BY <1>1 DEF ProbeObs, sessions, principals
<1>8. GatewayMatches(o, o.replay, "support-017", "compromised") /\ DecisionCoherent(o.replay)
  <2>1. /\ o.replay.principal = "support-017" /\ o.replay.session = "compromised"
        /\ o.replay.revoked = ~ sessions["compromised"].active
        /\ o.replay.quarantined = principals["support-017"]
        /\ o.replay.available = (sessions["compromised"].active /\ ~ principals["support-017"])
    BY <1>3, <1>4, <1>5, <1>7 DEF Decision
  <2> QED
    BY <1>3, <1>4, <1>5, <1>6, <2>1 DEF GatewayMatches, DecisionCoherent
<1>9. GatewayMatches(o, o.unrelated, "support-042", "unrelated")
      /\ DecisionCoherent(o.unrelated)
  <2>1. /\ o.unrelated.principal = "support-042" /\ o.unrelated.session = "unrelated"
        /\ o.unrelated.revoked = ~ sessions["unrelated"].active
        /\ o.unrelated.quarantined = principals["support-042"]
        /\ o.unrelated.available = (sessions["unrelated"].active /\ ~ principals["support-042"])
    BY <1>3, <1>4, <1>5, <1>7 DEF Decision
  <2> QED
    BY <1>3, <1>4, <1>5, <1>6, <2>1 DEF GatewayMatches, DecisionCoherent
<1>10. ShamValid(t, o.clone, o.before, o.after, o.shamOp)
  BY <1>1 DEF BeganObs, ShamObs, ShamValid, GenerationOf
<1>11. ReceiptsMatch(t, o)
  BY <1>1 DEF BeganObs, ShamObs, TargetObs, QuarantineObs, ReceiptsMatch
<1>12. SnapshotMatches(o)
  <2>1. /\ DOMAIN FreshSessions = Sessions /\ DOMAIN sessions = Sessions
        /\ Subject = [s \in Sessions |-> Subject[s]]
    BY <1>3, FreshTyped DEF Subject
  <2>2. [s \in DOMAIN FreshSessions |-> FreshSessions[s].principal] = Subject
    BY <2>1, FreshTyped
  <2>3. [s \in DOMAIN sessions |-> sessions[s].principal] = Subject
    BY <1>3, <2>1
  <2> QED
    BY <1>6, <2>2, <2>3, FreshTyped DEF SnapshotMatches
<1>13. TransitionsMatch(t, o)
  BY <1>6, Operations
     DEF TransitionsMatch, SessionsAfter, PrincipalsAfter, sessions, principals
<1>14. RowCountsMatch(t, o)
  <2>1. o.target.rows = RowsRevoked(t) /\ o.compensator.rows = IF Quarantines(t) THEN 1 ELSE 0
    BY <1>1 DEF TargetObs, QuarantineObs
  <2> QED
    BY <1>6, <2>1, RowsChanged, Operations
       DEF RowCountsMatch, RowsRevoked, sessions, principals
<1> QED
  BY <1>2, <1>8, <1>9, <1>10, <1>11, <1>12, <1>13, <1>14 DEF ObservationValid

\* And the stages its runner derives are those the repository derives.
LEMMA ExecutedPayloads ==
    ASSUME NEW t \in RPCells, NEW o, ExecutedObs(o, t)
    PROVE  DerivedPayloads(t, o) = StagePayloads(t, o)
<1> DEFINE base == StagePayloads(t, o)
           exact == o.target.operation = "revoke-exact"
           applied == o.compensator.operation = "quarantine"
<1>1. DerivedPayloads(t, o) =
         [base EXCEPT !.target.exact = exact, !.compensator.applied = applied]
  BY DEF DerivedPayloads
<1>2. o.target.operation = TargetOperation(t)
      /\ o.compensator.operation = IF Quarantines(t) THEN "quarantine" ELSE "not-triggered"
  BY DEF ExecutedObs, TargetObs, QuarantineObs
<1>3. exact = Revokes(t) /\ applied = Quarantines(t)
  BY <1>2, Operations DEF Revokes, Quarantines
<1>4. base.target.exact = exact /\ base.compensator.applied = applied
  BY <1>3 DEF StagePayloads, Revokes
<1>5. /\ base = [input |-> base.input, target |-> base.target,
                 compensator |-> base.compensator, outcome |-> base.outcome]
      /\ base.target = [mode |-> base.target.mode, status |-> base.target.status,
                        reported |-> base.target.reported, exact |-> base.target.exact,
                        active |-> base.target.active, others |-> base.target.others,
                        modified |-> base.target.modified]
      /\ base.compensator = [mode |-> base.compensator.mode,
                             applied |-> base.compensator.applied,
                             quarantined |-> base.compensator.quarantined,
                             modified |-> base.compensator.modified]
  BY DEF StagePayloads
<1> HIDE DEF base, exact, applied
<1>6. [base.target EXCEPT !.exact = exact] = base.target
  BY <1>4, <1>5
<1>7. [base.compensator EXCEPT !.applied = applied] = base.compensator
  BY <1>4, <1>5
<1>8. [base EXCEPT !.target = base.target, !.compensator = base.compensator] = base
  BY <1>5
<1>9. [base EXCEPT !.target.exact = exact, !.compensator.applied = applied] =
         [base EXCEPT !.target = [base.target EXCEPT !.exact = exact],
                      !.compensator = [base.compensator EXCEPT !.applied = applied]]
  BY <1>5
<1> QED
  BY <1>1, <1>6, <1>7, <1>8, <1>9 DEF base
----------------------------------------------------------------------------
(* The artifacts of a trial *)

LEMMA OrdinalRange ==
    ASSUME NEW t \in RPCells
    PROVE  Ordinal(t) \in 1..16
  BY DEF Ordinal, RPCells

LEMMA OrdinalIsOne ==
    ASSUME NEW t \in RPCells, NEW u \in RPCells, Ordinal(t) = Ordinal(u)
    PROVE  t = u
<1>1. t = [input |-> t.input, target |-> t.target, compensator |-> t.compensator,
           sham |-> t.sham]
      /\ u = [input |-> u.input, target |-> u.target, compensator |-> u.compensator,
              sham |-> u.sham]
  BY DEF RPCells
<1>2. /\ t.input \in {"attack", "benign"} /\ t.target \in {"ineffective", "effective"}
      /\ t.compensator \in {"off", "on"} /\ t.sham \in {"steady", "reload"}
      /\ u.input \in {"attack", "benign"} /\ u.target \in {"ineffective", "effective"}
      /\ u.compensator \in {"off", "on"} /\ u.sham \in {"steady", "reload"}
  BY DEF RPCells
<1>3. t.input = u.input
  BY <1>2 DEF Ordinal
<1>4. t.target = u.target
  BY <1>2, <1>3 DEF Ordinal
<1>5. t.compensator = u.compensator
  BY <1>2, <1>3, <1>4 DEF Ordinal
<1>6. t.sham = u.sham
  BY <1>2, <1>3, <1>4, <1>5 DEF Ordinal
<1> QED
  BY <1>1, <1>3, <1>4, <1>5, <1>6

\* Every ordinal is one of a cell.
LEMMA OrdinalIsACell ==
    ASSUME NEW k \in 1..16
    PROVE  RPCell(k) \in RPCells /\ Ordinal(RPCell(k)) = k
<1> DEFINE c == [input |-> IF k > 8 THEN "benign" ELSE "attack",
                 target |-> IF k \in (5..8) \cup (13..16) THEN "effective" ELSE "ineffective",
                 compensator |-> IF k \in {3, 4, 7, 8, 11, 12, 15, 16} THEN "on" ELSE "off",
                 sham |-> IF k \in {2, 4, 6, 8, 10, 12, 14, 16} THEN "reload" ELSE "steady"]
<1>1. c \in RPCells
  BY DEF RPCells
<1>2. Ordinal(c) = k
  BY DEF Ordinal
<1> QED
  BY <1>1, <1>2 DEF RPCell

\* A trial that was run, as its artifacts stand in the bundle, passes the repository's checks.
LEMMA ExecutedTrialIsValid ==
    ASSUME NEW t \in RPCells, NEW o, ExecutedObs(o, t),
           rpLoaded["observations"][t] = o,
           rpLoaded["stages"][t] = Rederived(t, o).stages,
           rpLoaded["metrics"][t] = Rederived(t, o).metrics,
           rpLoaded["attestations"][t] = Rederived(t, o).attestations,
           rpLoaded["cleanups"][t] = Rederived(t, o).cleanups,
           rpLoaded["trials"][t] = Rederived(t, o).trials,
           rpWindow.start = 0, rpWindow.end \in Int, rpWindow.end >= 192
    PROVE  TrialValid(t)
<1> DEFINE clock == (Ordinal(t) - 1) * Readings + 1
           payloads == StagePayloads(t, o)
           stages == StageArtifacts(t, o, payloads, clock + 1)
           a == Attestation(t, o, clock, clock + 10)
           c == Cleanup(t, o, stages["outcome"], clock + 11)
           metrics == MetricArtifacts(t, stages)
           record == TrialRecord(t, stages, a, c)
<1>1. /\ Rederived(t, o).stages = stages /\ Rederived(t, o).metrics = metrics
      /\ Rederived(t, o).attestations = a /\ Rederived(t, o).cleanups = c
      /\ Rederived(t, o).trials = record
  BY DEF Rederived, TrialArtifacts
<1>2. clock \in 1..181
  BY OrdinalRange DEF Readings
<1> HIDE DEF clock, payloads
<1>3. \A s \in RPStages :
         /\ stages[s].trial = t /\ stages[s].trace = t /\ stages[s].stage = s
         /\ stages[s].action = t.input /\ stages[s].observation = o
         /\ stages[s].payload = payloads[s]
         /\ stages[s].began = clock + 1 + 2 * Position(s) + 1
         /\ stages[s].ended = clock + 1 + 2 * Position(s) + 2
  BY DEF StageArtifacts
<1>4. /\ \A s \in RPStages : Position(s) \in 0..3
      /\ Position("input") = 0 /\ Position("outcome") = 3
      /\ {"input", "outcome"} \subseteq RPStages
  BY DEF RPStages, Position
<1> HIDE DEF stages
<1>5. /\ a.trial = t /\ a.ordinal = Ordinal(t) /\ a.trace = t /\ a.clone = t
      /\ a.action = t.input /\ a.selector = t /\ a.observation = o
      /\ a.began = clock /\ a.ended = clock + 10
  BY DEF Attestation
<1> HIDE DEF a
<1>6. /\ c.trial = t /\ c.trace = t /\ c.clone = t /\ c.observation = o
      /\ c.outcomeEnded = stages["outcome"].ended /\ c.at = clock + 11
  BY DEF Cleanup
<1> HIDE DEF c
<1>7. /\ record.trial = t /\ record.cell = t /\ record.trace = t /\ record.clone = t
      /\ record.action = t.input /\ record.attestation = a /\ record.cleanup = c
      /\ \A s \in RPStages : record.events[s] = ExecutedEvent(stages[s])
  BY DEF TrialRecord
<1>8. \A m \in Metrics :
         LET event == stages[Bindings[m][1]]
         IN /\ metrics[m].trial = t /\ metrics[m].trace = event.trace
            /\ metrics[m].event = event /\ metrics[m].at = event.ended
            /\ metrics[m].value = event.payload[Bindings[m][2]]
  BY DEF MetricArtifacts
<1>9. \A m \in Metrics : Bindings[m][1] \in RPStages
  BY DEF Metrics, Bindings, RPStages
<1> HIDE DEF record, metrics
<1>10. o.trial = t /\ o.trace = t /\ o.clone = t /\ o.action = t.input
  BY DEF ExecutedObs, BeganObs
<1>11. MatchesPlan(t, record) /\ AttestationMatches(a, record)
  BY <1>5, <1>7 DEF MatchesPlan, AttestationMatches
<1>12. ProvenanceMatches(t, a, o, record)
  BY <1>5, <1>7, <1>10 DEF ProvenanceMatches
<1>13. ObservationValid(t, o)
  BY ExecutedIsValid
<1>14. DerivedPayloads(t, o) = payloads
  BY ExecutedPayloads DEF payloads
<1>15. \A s \in RPStages : StageMatches(t, s, stages[s], record.events[s], record, o)
  BY <1>3, <1>7, <1>14 DEF StageMatches
<1>16. TimelineValid(a, stages)
  <2>1. \A s, u \in RPStages :
           Position(u) = Position(s) + 1 => stages[s].ended < stages[u].began
    BY <1>2, <1>3, <1>4
  <2>2. stages["input"].began = clock + 2 /\ stages["outcome"].ended = clock + 9
    BY <1>2, <1>3, <1>4
  <2>3. rpWindow.start <= a.began /\ a.began < stages["input"].began
    BY <1>2, <1>5, <2>2
  <2>4. stages["outcome"].ended < a.ended /\ a.ended <= rpWindow.end
    BY <1>2, <1>5, <2>2
  <2> QED
    BY <2>1, <2>3, <2>4 DEF TimelineValid
<1>17. \A m \in Metrics : MetricMatches(m, metrics[m], stages, record)
  BY <1>3, <1>7, <1>8, <1>9 DEF MetricMatches
<1>18. CleanupMatches(c, a, o, record)
  <2>1. record.events["outcome"].ended = stages["outcome"].ended
    <3>1. record.events["outcome"] = ExecutedEvent(stages["outcome"])
      BY <1>4, <1>7
    <3>2. ExecutedEvent(stages["outcome"]).ended = stages["outcome"].ended
      BY DEF ExecutedEvent
    <3> QED
      BY <3>1, <3>2
  <2>2. a.ended < c.at /\ c.at <= rpWindow.end
    BY <1>2, <1>5, <1>6
  <2>3. record.cleanup = c /\ c.trial = record.trial /\ c.trace = record.trace
        /\ c.clone = record.clone /\ c.observation = o
    BY <1>6, <1>7
  <2>4. c.outcomeEnded = record.events["outcome"].ended
    BY <1>6, <2>1
  <2> QED
    BY <2>2, <2>3, <2>4 DEF CleanupMatches
<1> QED
  BY <1>1, <1>11, <1>12, <1>13, <1>15, <1>16, <1>17, <1>18 DEF TrialValid
----------------------------------------------------------------------------
(* The runner *)

RunSteps == {"begin", "sham", "target", "quarantine", "probe", "artifacts"}
BundleSteps == {"written", "verified", "checked", "admitted", "evaluated", "refused"}
RPSteps == RunSteps \cup BundleSteps \cup {"window", "failed"}

Artifacts == Payloads \ {"provenance"}

\* The trials whose artifacts the runner has gathered.
Recorded == IF rpStep \in RunSteps THEN {t \in RPWatched : Ordinal(t) < rpOrdinal}
            ELSE RPWatched

\* A trial's line of each payload is the one its runner derives from its execution.
LineHolds(run, t) ==
    /\ ExecutedObs(run["observations"][t], t)
    /\ \A p \in Artifacts : run[p][t] = Rederived(t, run["observations"][t])[p]

RunHolds ==
    /\ rpRun = [p \in Payloads |-> rpRun[p]] /\ rpRun["provenance"] = "written"
    /\ \A p \in Artifacts : rpRun[p] = [t \in Recorded |-> rpRun[p][t]]
    /\ \A t \in Recorded : LineHolds(rpRun, t)

\* How far the running trial is.
TrialHolds ==
    /\ rpStep \in RunSteps \ {"begin"} => BeganObs(rpObs, rpCell)
    /\ rpStep \in RunSteps \ {"begin", "sham"} => ShamObs(rpObs, rpCell)
    /\ rpStep \in {"quarantine", "probe", "artifacts"} => TargetObs(rpObs, rpCell)
    /\ rpStep \in {"probe", "artifacts"} => QuarantineObs(rpObs, rpCell)
    /\ rpStep = "artifacts" => ProbeObs(rpObs, rpCell)

\* The rows of its clone.
RowsHold ==
    rpStep \in {"sham", "target", "quarantine", "probe"} =>
        rpDb = [responder |-> Responder(rpCell, IF rpStep = "sham" THEN 0
                                                ELSE GenerationOf(rpCell)),
                sessions |-> IF rpStep \in {"sham", "target"} THEN FreshSessions
                             ELSE SessionsAfter(rpCell),
                principals |-> IF rpStep = "probe" THEN PrincipalsAfter(rpCell)
                               ELSE FreshPrincipals]

ClockHolds ==
    /\ rpOrdinal \in 1..16
    /\ rpStep = "begin" => rpClock = (rpOrdinal - 1) * Readings
    /\ rpStep \in RunSteps \ {"begin"} => rpClock = (rpOrdinal - 1) * Readings + 1
    /\ rpStep = "window" => rpClock = 192

WindowHolds ==
    /\ rpWindow \in [start : {0, 2}, end : {191, 192}]
    /\ rpStep \in BundleSteps => rpWindow.end = 192

RunnerInv ==
    /\ rpStep \in RPSteps
    /\ ClockHolds /\ WindowHolds /\ TrialHolds /\ RowsHold
    /\ rpStep # "failed" => RunHolds

LEMMA CellOfOrdinal ==
    ASSUME ClockHolds
    PROVE  rpCell \in RPCells /\ Ordinal(rpCell) = rpOrdinal
  BY OrdinalIsACell DEF ClockHolds, rpCell

LEMMA RunnerInitially == RPInit => RunnerInv
<1> SUFFICES ASSUME RPInit PROVE RunnerInv
  OBVIOUS
<1>1. rpStep = "begin" /\ rpOrdinal = 1 /\ rpClock = 0
      /\ rpRun = [p \in Payloads |-> IF p = "provenance" THEN "written" ELSE << >>]
  BY DEF RPInit
<1>2. rpWindow \in [start : {0, 2}, end : {191, 192}]
  <2>1. 16 * Readings - 1 = 191 /\ 16 * Readings = 192
    BY DEF Readings
  <2> QED
    BY <2>1 DEF RPInit
<1>3. Recorded = {}
  <2>1. \A t \in RPWatched : Ordinal(t) \in 1..16
    BY ResponseAssumption, OrdinalRange
  <2>2. \A t \in RPWatched : ~ (Ordinal(t) < rpOrdinal)
    BY <1>1, <2>1
  <2> QED
    BY <1>1, <2>2 DEF Recorded, RunSteps
<1>4. RunHolds
  <2>1. \A p \in Artifacts : rpRun[p] = << >>
    BY <1>1 DEF Artifacts
  <2>2. "provenance" \in Payloads
    BY DEF Payloads
  <2>3. \A p \in Artifacts : rpRun[p] = [t \in Recorded |-> rpRun[p][t]]
    BY <1>3, <2>1
  <2> QED
    BY <1>1, <1>3, <2>2, <2>3 DEF RunHolds
<1> QED
  BY <1>1, <1>2, <1>4 DEF RunnerInv, RPSteps, RunSteps, BundleSteps, ClockHolds, WindowHolds,
     TrialHolds, RowsHold, Readings

\* The steps of the running trial leave what was gathered to itself.
LEMMA GatheredStays ==
    ASSUME RunnerInv, rpStep \in RunSteps, rpStep' \in RunSteps \cup {"failed"},
           UNCHANGED << rpOrdinal, rpRun >>
    PROVE  rpStep' # "failed" => RunHolds'
<1> SUFFICES ASSUME rpStep' # "failed" PROVE RunHolds'
  OBVIOUS
<1>1. RunHolds
  BY DEF RunnerInv, RunSteps
<1>2. Recorded' = Recorded
  BY DEF Recorded
<1> QED
  BY <1>1, <1>2 DEF RunHolds

LEMMA RunBeginKeeps ==
    ASSUME RunnerInv, RPBegin
    PROVE  RunnerInv'
<1>1. /\ rpStep = "begin" /\ rpStep' = "sham" /\ rpClock' = rpClock + 1
      /\ rpDb' = [responder |-> Responder(rpCell, 0), sessions |-> FreshSessions,
                  principals |-> FreshPrincipals]
      /\ rpObs' = Begun(rpCell)
      /\ UNCHANGED << rpOrdinal, rpWindow, rpRun >>
  BY DEF RPBegin, FreshSessions, FreshPrincipals
<1>2. rpCell' = rpCell
  BY <1>1 DEF rpCell
<1>3. ClockHolds'
  BY <1>1 DEF RunnerInv, ClockHolds, RunSteps, Readings
<1>4. WindowHolds'
  BY <1>1 DEF RunnerInv, WindowHolds, BundleSteps
<1>5. BeganObs(rpObs', rpCell)
  BY <1>1 DEF BeganObs, Begun, ObsColumns
<1>6. TrialHolds' /\ RowsHold'
  BY <1>1, <1>2, <1>5 DEF TrialHolds, RowsHold, RunSteps
<1> QED
  BY <1>1, <1>3, <1>4, <1>6, GatheredStays DEF RunnerInv, RPSteps, RunSteps

LEMMA RunShamKeeps ==
    ASSUME RunnerInv, RPSham
    PROVE  RunnerInv'
<1> DEFINE before == rpDb.responder
           reload == rpCell.sham = "reload"
           after == IF reload THEN Reloaded(before) ELSE before
           receipt == ShamReceipt(IF reload THEN "reload" ELSE "steady-observation",
                                  before, after, IF reload THEN 1 ELSE 0)
<1>1. /\ rpStep = "sham" /\ rpStep' \in {"target", "failed"}
      /\ rpDb' = [rpDb EXCEPT !.responder = after]
      /\ rpObs' = [rpObs EXCEPT !.before = before, !.after = after, !.shamOp = receipt]
      /\ UNCHANGED << rpOrdinal, rpClock, rpWindow, rpRun >>
  BY DEF RPSham
<1>2. rpCell' = rpCell
  BY <1>1 DEF rpCell
<1>3. ClockHolds' /\ WindowHolds'
  BY <1>1 DEF RunnerInv, ClockHolds, WindowHolds, RunSteps, BundleSteps
<1>4. rpDb = [responder |-> Responder(rpCell, 0), sessions |-> FreshSessions,
              principals |-> FreshPrincipals]
      /\ BeganObs(rpObs, rpCell)
  BY <1>1 DEF RunnerInv, RowsHold, TrialHolds, RunSteps
<1>5. before = Responder(rpCell, 0) /\ before.clone = rpCell /\ before.generation = 0
  BY <1>4 DEF Responder
<1>6. after = Responder(rpCell, GenerationOf(rpCell))
  BY <1>5 DEF Reloaded, GenerationOf
<1>7. receipt = ShamReceipt(IF reload THEN "reload" ELSE "steady-observation",
                            Responder(rpCell, 0), Responder(rpCell, GenerationOf(rpCell)),
                            GenerationOf(rpCell))
  BY <1>5, <1>6 DEF GenerationOf
<1> HIDE DEF before, after, receipt
<1>8. BeganObs(rpObs', rpCell) /\ rpObs'.before = before /\ rpObs'.after = after
      /\ rpObs'.shamOp = receipt
  BY <1>1, <1>4 DEF BeganObs, ObsColumns
<1>9. ShamObs(rpObs', rpCell)
  BY <1>5, <1>6, <1>7, <1>8 DEF ShamObs
<1>10. rpDb' = [responder |-> after, sessions |-> FreshSessions, principals |-> FreshPrincipals]
  BY <1>1, <1>4
<1>11. TrialHolds' /\ RowsHold'
  BY <1>1, <1>2, <1>6, <1>8, <1>9, <1>10 DEF TrialHolds, RowsHold, RunSteps
<1> QED
  BY <1>1, <1>3, <1>11, GatheredStays DEF RunnerInv, RPSteps, RunSteps

LEMMA RunRespondKeeps ==
    ASSUME RunnerInv, RPRespond
    PROVE  RunnerInv'
<1> DEFINE operation == TargetOperation(rpCell)
           exact == operation = "revoke-exact"
           sessions == IF exact THEN [rpDb.sessions EXCEPT !["compromised"].active = FALSE]
                       ELSE rpDb.sessions
           rows == IF exact THEN 1 ELSE 0
           response == ActionReceipt(rpCell, rpCell, rpDb.responder, operation, rows)
           target == [operation |-> operation, rows |-> rows]
<1>1. /\ rpStep = "target" /\ rpStep' \in {"quarantine", "failed"}
      /\ rpDb' = [rpDb EXCEPT !.sessions = sessions]
      /\ rpObs' = [rpObs EXCEPT
             !.sess0 = rpDb.sessions, !.prin0 = rpDb.principals,
             !.sess1 = sessions, !.prin1 = rpDb.principals,
             !.response = response, !.target = target]
      /\ UNCHANGED << rpOrdinal, rpClock, rpWindow, rpRun >>
  BY DEF RPRespond
<1>2. rpCell' = rpCell
  BY <1>1 DEF rpCell
<1>3. ClockHolds' /\ WindowHolds'
  BY <1>1 DEF RunnerInv, ClockHolds, WindowHolds, RunSteps, BundleSteps
<1>4. rpDb = [responder |-> Responder(rpCell, GenerationOf(rpCell)),
              sessions |-> FreshSessions, principals |-> FreshPrincipals]
      /\ BeganObs(rpObs, rpCell) /\ ShamObs(rpObs, rpCell)
  BY <1>1 DEF RunnerInv, RowsHold, TrialHolds, RunSteps
<1>5. exact <=> Revokes(rpCell)
  BY CellOfOrdinal, Operations DEF RunnerInv
<1>6. /\ sessions = SessionsAfter(rpCell) /\ rows = RowsRevoked(rpCell)
      /\ rpDb.sessions = FreshSessions /\ rpDb.principals = FreshPrincipals
      /\ response = ActionReceipt(rpCell, rpCell, Responder(rpCell, GenerationOf(rpCell)),
                                  TargetOperation(rpCell), RowsRevoked(rpCell))
      /\ target = [operation |-> TargetOperation(rpCell), rows |-> RowsRevoked(rpCell)]
  <2>1. sessions = SessionsAfter(rpCell)
    BY <1>4, <1>5 DEF SessionsAfter
  <2>2. rows = RowsRevoked(rpCell)
    BY <1>5 DEF RowsRevoked
  <2> QED
    BY <1>4, <2>1, <2>2
<1> HIDE DEF sessions, rows, response, target
<1>7. /\ rpObs' = ObsColumns(rpObs') /\ rpObs'.trial = rpObs.trial
      /\ rpObs'.trace = rpObs.trace /\ rpObs'.clone = rpObs.clone
      /\ rpObs'.action = rpObs.action
      /\ rpObs'.before = rpObs.before /\ rpObs'.after = rpObs.after
      /\ rpObs'.shamOp = rpObs.shamOp
      /\ rpObs'.sess0 = rpDb.sessions /\ rpObs'.prin0 = rpDb.principals
      /\ rpObs'.sess1 = sessions /\ rpObs'.prin1 = rpDb.principals
      /\ rpObs'.response = response /\ rpObs'.target = target
  BY <1>1, <1>4 DEF BeganObs, ObsColumns
<1>8. BeganObs(rpObs', rpCell) /\ ShamObs(rpObs', rpCell)
  BY <1>4, <1>7 DEF BeganObs, ShamObs
<1>9. TargetObs(rpObs', rpCell)
  BY <1>6, <1>7 DEF TargetObs
<1>10. rpDb' = [responder |-> Responder(rpCell, GenerationOf(rpCell)),
                sessions |-> SessionsAfter(rpCell), principals |-> FreshPrincipals]
  BY <1>1, <1>4, <1>6
<1>11. TrialHolds' /\ RowsHold'
  BY <1>1, <1>2, <1>8, <1>9, <1>10 DEF TrialHolds, RowsHold, RunSteps
<1> QED
  BY <1>1, <1>3, <1>11, GatheredStays DEF RunnerInv, RPSteps, RunSteps

LEMMA RunQuarantineKeeps ==
    ASSUME RunnerInv, RPQuarantine
    PROVE  RunnerInv'
<1> DEFINE applied == Quarantines(rpCell)
           principals == IF applied THEN [rpDb.principals EXCEPT !["support-017"] = TRUE]
                         ELSE rpDb.principals
           done == [operation |-> IF applied THEN "quarantine" ELSE "not-triggered",
                    rows |-> IF applied THEN 1 ELSE 0]
<1>1. /\ rpStep = "quarantine" /\ rpStep' = "probe"
      /\ rpDb' = [rpDb EXCEPT !.principals = principals]
      /\ rpObs' = [rpObs EXCEPT !.sess2 = rpDb.sessions, !.prin2 = principals,
                                !.compensator = done]
      /\ UNCHANGED << rpOrdinal, rpClock, rpWindow, rpRun >>
  BY DEF RPQuarantine
<1>2. rpCell' = rpCell
  BY <1>1 DEF rpCell
<1>3. ClockHolds' /\ WindowHolds'
  BY <1>1 DEF RunnerInv, ClockHolds, WindowHolds, RunSteps, BundleSteps
<1>4. rpDb = [responder |-> Responder(rpCell, GenerationOf(rpCell)),
              sessions |-> SessionsAfter(rpCell), principals |-> FreshPrincipals]
      /\ BeganObs(rpObs, rpCell) /\ ShamObs(rpObs, rpCell) /\ TargetObs(rpObs, rpCell)
  BY <1>1 DEF RunnerInv, RowsHold, TrialHolds, RunSteps
<1>5. principals = PrincipalsAfter(rpCell) /\ rpDb.sessions = SessionsAfter(rpCell)
  BY <1>4 DEF PrincipalsAfter
<1>d. done = [operation |-> IF Quarantines(rpCell) THEN "quarantine" ELSE "not-triggered",
              rows |-> IF Quarantines(rpCell) THEN 1 ELSE 0]
  OBVIOUS
<1> HIDE DEF principals, done
<1>6. /\ rpObs' = ObsColumns(rpObs') /\ rpObs'.trial = rpObs.trial
      /\ rpObs'.trace = rpObs.trace /\ rpObs'.clone = rpObs.clone
      /\ rpObs'.action = rpObs.action
      /\ rpObs'.before = rpObs.before /\ rpObs'.after = rpObs.after
      /\ rpObs'.shamOp = rpObs.shamOp
      /\ rpObs'.sess0 = rpObs.sess0 /\ rpObs'.prin0 = rpObs.prin0
      /\ rpObs'.sess1 = rpObs.sess1 /\ rpObs'.prin1 = rpObs.prin1
      /\ rpObs'.response = rpObs.response /\ rpObs'.target = rpObs.target
      /\ rpObs'.sess2 = rpDb.sessions /\ rpObs'.prin2 = principals
      /\ rpObs'.compensator = done
  BY <1>1, <1>4 DEF BeganObs, ObsColumns
<1>7. BeganObs(rpObs', rpCell) /\ ShamObs(rpObs', rpCell) /\ TargetObs(rpObs', rpCell)
  BY <1>4, <1>6 DEF BeganObs, ShamObs, TargetObs
<1>8. QuarantineObs(rpObs', rpCell)
  BY <1>5, <1>6, <1>d DEF QuarantineObs
<1>9. rpDb' = [responder |-> Responder(rpCell, GenerationOf(rpCell)),
               sessions |-> SessionsAfter(rpCell), principals |-> PrincipalsAfter(rpCell)]
  BY <1>1, <1>4, <1>5
<1>10. TrialHolds' /\ RowsHold'
  BY <1>1, <1>2, <1>7, <1>8, <1>9 DEF TrialHolds, RowsHold, RunSteps
<1> QED
  BY <1>1, <1>3, <1>10, GatheredStays DEF RunnerInv, RPSteps, RunSteps

LEMMA RunProbeKeeps ==
    ASSUME RunnerInv, RPProbe
    PROVE  RunnerInv'
<1> DEFINE replay == Decision("support-017", "compromised", rpDb.sessions, rpDb.principals)
           unrelated == Decision("support-042", "unrelated", rpDb.sessions, rpDb.principals)
<1>1. /\ rpStep = "probe" /\ rpStep' = "artifacts"
      /\ rpObs' = [rpObs EXCEPT !.replay = replay, !.unrelated = unrelated]
      /\ UNCHANGED << rpOrdinal, rpClock, rpWindow, rpRun >>
  BY DEF RPProbe
<1>2. rpCell' = rpCell
  BY <1>1 DEF rpCell
<1>3. ClockHolds' /\ WindowHolds'
  BY <1>1 DEF RunnerInv, ClockHolds, WindowHolds, RunSteps, BundleSteps
<1>4. rpDb = [responder |-> Responder(rpCell, GenerationOf(rpCell)),
              sessions |-> SessionsAfter(rpCell), principals |-> PrincipalsAfter(rpCell)]
      /\ BeganObs(rpObs, rpCell) /\ ShamObs(rpObs, rpCell) /\ TargetObs(rpObs, rpCell)
      /\ QuarantineObs(rpObs, rpCell)
  BY <1>1 DEF RunnerInv, RowsHold, TrialHolds, RunSteps
<1>5. /\ replay = Decision("support-017", "compromised", SessionsAfter(rpCell),
                           PrincipalsAfter(rpCell))
      /\ unrelated = Decision("support-042", "unrelated", SessionsAfter(rpCell),
                              PrincipalsAfter(rpCell))
  BY <1>4
<1> HIDE DEF replay, unrelated
<1>6. /\ rpObs' = ObsColumns(rpObs') /\ rpObs'.trial = rpObs.trial
      /\ rpObs'.trace = rpObs.trace /\ rpObs'.clone = rpObs.clone
      /\ rpObs'.action = rpObs.action
      /\ rpObs'.before = rpObs.before /\ rpObs'.after = rpObs.after
      /\ rpObs'.shamOp = rpObs.shamOp
      /\ rpObs'.sess0 = rpObs.sess0 /\ rpObs'.prin0 = rpObs.prin0
      /\ rpObs'.sess1 = rpObs.sess1 /\ rpObs'.prin1 = rpObs.prin1
      /\ rpObs'.response = rpObs.response /\ rpObs'.target = rpObs.target
      /\ rpObs'.sess2 = rpObs.sess2 /\ rpObs'.prin2 = rpObs.prin2
      /\ rpObs'.compensator = rpObs.compensator
      /\ rpObs'.replay = replay /\ rpObs'.unrelated = unrelated
  BY <1>1, <1>4 DEF BeganObs, ObsColumns
<1>7. BeganObs(rpObs', rpCell) /\ ShamObs(rpObs', rpCell) /\ TargetObs(rpObs', rpCell)
      /\ QuarantineObs(rpObs', rpCell)
  BY <1>4, <1>6 DEF BeganObs, ShamObs, TargetObs, QuarantineObs
<1>8. ProbeObs(rpObs', rpCell)
  BY <1>5, <1>6 DEF ProbeObs
<1>9. TrialHolds' /\ RowsHold'
  BY <1>1, <1>2, <1>7, <1>8 DEF TrialHolds, RowsHold, RunSteps
<1> QED
  BY <1>1, <1>3, <1>9, GatheredStays DEF RunnerInv, RPSteps, RunSteps

\* The gathered artifacts, with those of the trial that just ended.
LEMMA RunArtifactsKeep ==
    ASSUME RunnerInv, RPArtifacts
    PROVE  RunnerInv'
<1> DEFINE line == TrialArtifacts(rpCell, rpObs, rpClock)
           old == Recorded
<1>1. /\ rpStep = "artifacts" /\ rpClock' = rpClock + Readings - 1
      /\ rpRun' = [p \in Payloads |->
                     IF p = "provenance" \/ rpCell \notin RPWatched THEN rpRun[p]
                     ELSE WithRow(rpRun[p], rpCell, line[p])]
      /\ rpStep' = IF rpOrdinal < 16 THEN "begin" ELSE "window"
      /\ rpOrdinal' = IF rpOrdinal < 16 THEN rpOrdinal + 1 ELSE rpOrdinal
      /\ rpWindow' = rpWindow
  BY DEF RPArtifacts
<1>2. rpOrdinal \in 1..16 /\ rpClock = (rpOrdinal - 1) * Readings + 1
  BY <1>1 DEF RunnerInv, ClockHolds, RunSteps
<1>3. rpCell \in RPCells /\ Ordinal(rpCell) = rpOrdinal
  BY CellOfOrdinal DEF RunnerInv
<1>4. ExecutedObs(rpObs, rpCell)
  BY <1>1 DEF RunnerInv, TrialHolds, ExecutedObs, RunSteps
<1>5. line = Rederived(rpCell, rpObs)
  BY <1>2, <1>3 DEF Rederived
<1>6. line["observations"] = rpObs
  BY DEF TrialArtifacts
<1> HIDE DEF line
<1>7. rpStep' \in {"begin", "window"}
  BY <1>1
<1>8. ClockHolds'
  <2>1. CASE rpOrdinal < 16
    BY <1>1, <1>2, <2>1 DEF ClockHolds, RunSteps, Readings
  <2>2. CASE ~ (rpOrdinal < 16)
    <3>1. rpOrdinal = 16
      BY <1>2, <2>2
    <3> QED
      BY <1>1, <1>2, <3>1 DEF ClockHolds, RunSteps, Readings
  <2> QED
    BY <2>1, <2>2
<1>9. WindowHolds'
  BY <1>1, <1>7 DEF RunnerInv, WindowHolds, BundleSteps
<1>10. TrialHolds' /\ RowsHold'
  BY <1>7 DEF TrialHolds, RowsHold, RunSteps
<1>11. RPWatched \subseteq RPCells /\ \A t \in RPWatched : Ordinal(t) \in 1..16
  BY ResponseAssumption, OrdinalRange
<1>12. old = {t \in RPWatched : Ordinal(t) < rpOrdinal}
  BY <1>1 DEF Recorded, RunSteps
<1>13. Recorded' = {t \in RPWatched : Ordinal(t) <= rpOrdinal}
  <2>1. CASE rpOrdinal < 16
    <3>1. Recorded' = {t \in RPWatched : Ordinal(t) < rpOrdinal + 1}
      BY <1>1, <2>1 DEF Recorded, RunSteps
    <3> QED
      BY <1>2, <1>11, <3>1
  <2>2. CASE ~ (rpOrdinal < 16)
    <3>1. Recorded' = RPWatched
      BY <1>1, <2>2 DEF Recorded, RunSteps
    <3>2. rpOrdinal = 16
      BY <1>2, <2>2
    <3> QED
      BY <1>11, <3>1, <3>2
  <2> QED
    BY <2>1, <2>2
<1>14. Recorded' = IF rpCell \in RPWatched THEN old \cup {rpCell} ELSE old
  <2>1. \A t \in RPWatched : Ordinal(t) = rpOrdinal <=> t = rpCell
    BY <1>3, <1>11, OrdinalIsOne
  <2>2. \A t \in RPWatched : Ordinal(t) <= rpOrdinal <=> Ordinal(t) < rpOrdinal \/ t = rpCell
    BY <1>2, <1>11, <2>1
  <2> QED
    BY <1>12, <1>13, <2>2
<1> HIDE DEF old
<1>15. /\ rpRun = [p \in Payloads |-> rpRun[p]] /\ rpRun["provenance"] = "written"
       /\ \A p \in Artifacts : rpRun[p] = [t \in old |-> rpRun[p][t]]
       /\ \A t \in old : LineHolds(rpRun, t)
  BY <1>1 DEF RunnerInv, RunHolds, old
<1>16. Artifacts \subseteq Payloads /\ "provenance" \notin Artifacts
       /\ "observations" \in Artifacts /\ "provenance" \in Payloads
  BY DEF Artifacts, Payloads
<1>17. rpCell \notin old
  BY <1>2, <1>3, <1>12
<1>18. RunHolds'
  <2>1. CASE rpCell \notin RPWatched
    <3>1. rpRun' = rpRun /\ Recorded' = old
      BY <1>1, <1>14, <1>15, <2>1
    <3> QED
      BY <1>15, <3>1 DEF RunHolds
  <2>2. CASE rpCell \in RPWatched
    <3>1. Recorded' = old \cup {rpCell}
      BY <1>14, <2>2
    <3>2. \A p \in Artifacts : rpRun'[p] = WithRow(rpRun[p], rpCell, line[p])
      BY <1>1, <1>16, <2>2
    <3>3. \A p \in Artifacts : DOMAIN rpRun[p] = old
      BY <1>15
    <3>4. \A p \in Artifacts :
             /\ rpRun'[p] = [t \in Recorded' |-> rpRun'[p][t]]
             /\ rpRun'[p][rpCell] = line[p]
             /\ \A t \in old : rpRun'[p][t] = rpRun[p][t]
      <4> SUFFICES ASSUME NEW p \in Artifacts
                   PROVE  /\ rpRun'[p] = [t \in Recorded' |-> rpRun'[p][t]]
                          /\ rpRun'[p][rpCell] = line[p]
                          /\ \A t \in old : rpRun'[p][t] = rpRun[p][t]
        OBVIOUS
      <4>1. rpRun'[p] = [x \in old \cup {rpCell} |-> IF x = rpCell THEN line[p]
                                                     ELSE rpRun[p][x]]
        BY <3>2, <3>3 DEF WithRow
      <4> QED
        BY <1>17, <3>1, <4>1
    <3>5. \A t \in old : LineHolds(rpRun, t)'
      <4> SUFFICES ASSUME NEW t \in old PROVE LineHolds(rpRun', t)
        BY DEF LineHolds
      <4>1. \A p \in Artifacts : rpRun'[p][t] = rpRun[p][t]
        BY <3>4
      <4>2. rpRun'["observations"][t] = rpRun["observations"][t]
        BY <1>16, <4>1
      <4> QED
        BY <1>15, <4>1, <4>2 DEF LineHolds
    <3>6. LineHolds(rpRun', rpCell)
      <4>1. rpRun'["observations"][rpCell] = rpObs
        BY <1>6, <1>16, <3>4
      <4> QED
        BY <1>4, <1>5, <3>4, <4>1 DEF LineHolds
    <3>7. \A t \in Recorded' : LineHolds(rpRun', t)
      <4>1. \A t \in old : LineHolds(rpRun', t)
        BY <3>5 DEF LineHolds
      <4> QED
        BY <3>1, <3>6, <4>1
    <3>8. rpRun' = [p \in Payloads |-> rpRun'[p]] /\ rpRun'["provenance"] = "written"
      BY <1>1, <1>15, <1>16
    <3> QED
      BY <3>4, <3>7, <3>8 DEF RunHolds, LineHolds
  <2> QED
    BY <2>1, <2>2
<1> QED
  BY <1>7, <1>8, <1>9, <1>10, <1>18 DEF RunnerInv, RPSteps, RunSteps

LEMMA RunStalledKeeps ==
    ASSUME RunnerInv, RPStalled
    PROVE  RunnerInv'
<1>1. rpStep' = "failed" /\ UNCHANGED << rpOrdinal, rpClock, rpWindow >>
  BY DEF RPStalled
<1> QED
  BY <1>1 DEF RunnerInv, RPSteps, RunSteps, BundleSteps, ClockHolds, WindowHolds, TrialHolds,
     RowsHold

\* Once the runner is done, what it gathered stays.
LEMMA RunnerDone ==
    ASSUME RunnerInv, rpStep \notin RunSteps, rpStep # "failed",
           rpStep' \in BundleSteps \cup {"failed"}, UNCHANGED rpRunner,
           rpStep' \in BundleSteps => rpWindow.end = 192
    PROVE  RunnerInv'
<1>1. UNCHANGED << rpOrdinal, rpClock, rpWindow, rpRun >>
  BY DEF rpRunner
<1>2. ClockHolds' /\ WindowHolds'
  BY <1>1 DEF RunnerInv, ClockHolds, WindowHolds, BundleSteps, RunSteps
<1>3. TrialHolds' /\ RowsHold'
  BY DEF TrialHolds, RowsHold, BundleSteps, RunSteps
<1>4. Recorded' = Recorded
  BY DEF Recorded, BundleSteps, RunSteps
<1>5. rpStep' # "failed" => RunHolds'
  BY <1>1, <1>4 DEF RunnerInv, RunHolds
<1> QED
  BY <1>2, <1>3, <1>5 DEF RunnerInv, RPSteps

LEMMA RunWriteKeeps ==
    ASSUME RunnerInv, RPWrite
    PROVE  RunnerInv'
<1>1. /\ rpStep = "window" /\ UNCHANGED rpRunner
      /\ rpStep' = IF rpClock > rpWindow.end THEN "failed" ELSE "written"
  BY DEF RPWrite
<1>2. rpClock = 192 /\ rpWindow.end \in {191, 192}
  BY <1>1 DEF RunnerInv, ClockHolds, WindowHolds
<1>3. rpStep' \in BundleSteps => rpWindow.end = 192
  BY <1>1, <1>2 DEF BundleSteps
<1>4. rpStep \notin RunSteps /\ rpStep' \in BundleSteps \cup {"failed"}
  BY <1>1 DEF RunSteps, BundleSteps
<1> QED
  BY <1>1, <1>3, <1>4, RunnerDone

\* The steps on the written bundle.
LEMMA RunBundleKeeps ==
    ASSUME RunnerInv, RPEdit \/ RPSwap \/ RPVerify \/ RPRead \/ RPCheck \/ RPFinal \/ RPEvaluate
    PROVE  RunnerInv'
<1>1. /\ rpStep \in BundleSteps /\ rpStep' \in BundleSteps /\ UNCHANGED rpRunner
  BY DEF RPEdit, RPSwap, RPVerify, RPRead, RPCheck, RPFinal, RPEvaluate, BundleSteps
<1>2. rpWindow.end = 192
  BY <1>1 DEF RunnerInv, WindowHolds
<1>3. rpStep \notin RunSteps /\ rpStep # "failed"
  BY <1>1 DEF RunSteps, BundleSteps
<1> QED
  BY <1>1, <1>2, <1>3, RunnerDone

LEMMA RunnerKeeps ==
    ASSUME RunnerInv, [RPNext]_rpVars
    PROVE  RunnerInv'
<1>1. CASE UNCHANGED rpVars
  <2>1. UNCHANGED << rpStep, rpOrdinal, rpClock, rpWindow, rpDb, rpObs, rpRun >>
    BY <1>1 DEF rpVars, rpRunner
  <2>2. rpCell' = rpCell /\ Recorded' = Recorded
    BY <2>1 DEF rpCell, Recorded
  <2> QED
    BY <2>1, <2>2 DEF RunnerInv, ClockHolds, WindowHolds, TrialHolds, RowsHold, RunHolds
<1>2. CASE RPNext
  BY <1>2, RunBeginKeeps, RunShamKeeps, RunRespondKeeps, RunQuarantineKeeps, RunProbeKeeps,
     RunArtifactsKeep, RunStalledKeeps, RunWriteKeeps, RunBundleKeeps DEF RPNext
<1> QED
  BY <1>1, <1>2
----------------------------------------------------------------------------
(* The repository *)

\* A directory whose observations start from the rows of the snapshot.
TypedBundle(d) ==
    /\ d = [p \in Payloads |-> d[p]]
    /\ d["observations"] = [t \in RPWatched |-> d["observations"][t]]
    /\ \A t \in RPWatched : ObsTyped(d["observations"][t])

ReadingSteps == {"verified", "checked", "admitted", "evaluated"}

\* The directory: typed whatever was edited, and the runner's if nothing was.
DirectoryHolds ==
    /\ rpEdits \in Nat
    /\ rpStep \in BundleSteps =>
         /\ TypedBundle(rpDisk) /\ TypedBundle(rpManifest)
         /\ rpEdits = 0 => rpDisk = rpRun /\ rpManifest = rpRun
    /\ rpStep \in ReadingSteps =>
         TypedBundle(rpPinned) /\ (rpEdits = 0 => rpPinned = rpRun)

\* The payloads read so far are those of the pinned manifest, in the order of reading.
LoadedHolds ==
    /\ rpStep \in RPSteps \ (ReadingSteps \cup {"refused"}) => rpLoaded = << >>
    /\ rpStep \in ReadingSteps =>
         LET D == DOMAIN rpLoaded IN
         /\ IsFiniteSet(D) /\ Cardinality(D) \in 0..7
         /\ D = {ReadOrder[i] : i \in 1..Cardinality(D)}
         /\ rpLoaded = [q \in D |-> rpPinned[q]]

\* A bundle that passed the checks is the pinned one, whole.
CheckedHolds ==
    rpStep \in {"checked", "admitted", "evaluated"} =>
        rpLoaded = rpPinned /\ \A t \in RPWatched : TrialValid(t)

CaseHolds ==
    rpStep = "evaluated" =>
        rpCase = [baseline |-> "pass", class |-> "masked-revocation-failure"]

\* A refusal of a bundle nobody touched has one of the two reasons.
RefusedHolds ==
    /\ rpVerifier \in {"written", "changed"}
    /\ rpStep = "refused" /\ rpEdits = 0 => rpVerifier = "changed" \/ rpWindow.start > 0

ReaderInv == DirectoryHolds /\ LoadedHolds /\ CheckedHolds /\ CaseHolds /\ RefusedHolds

LEMMA ReaderInitially == RPInit => ReaderInv
<1> SUFFICES ASSUME RPInit PROVE ReaderInv
  OBVIOUS
<1>1. rpStep = "begin" /\ rpEdits = 0 /\ rpLoaded = << >> /\ rpVerifier \in {"written", "changed"}
  BY DEF RPInit
<1> QED
  BY <1>1 DEF ReaderInv, DirectoryHolds, LoadedHolds, CheckedHolds, CaseHolds, RefusedHolds,
     BundleSteps, ReadingSteps

\* The steps of the runner touch nothing of the repository's.
LEMMA ReaderBefore ==
    ASSUME ReaderInv, rpStep \in RPSteps \ BundleSteps, rpStep' \in RPSteps \ BundleSteps,
           UNCHANGED << rpBundle, rpReader >>
    PROVE  ReaderInv'
<1>1. UNCHANGED << rpEdits, rpLoaded, rpVerifier >>
  BY DEF rpBundle, rpReader
<1>2. rpLoaded' = << >> /\ rpEdits' \in Nat /\ rpVerifier' \in {"written", "changed"}
  BY <1>1 DEF ReaderInv, LoadedHolds, DirectoryHolds, RefusedHolds, ReadingSteps, BundleSteps
<1>3. rpStep' \notin BundleSteps
  OBVIOUS
<1> QED
  BY <1>2, <1>3 DEF ReaderInv, DirectoryHolds, LoadedHolds, CheckedHolds, CaseHolds,
     RefusedHolds, BundleSteps, ReadingSteps

LEMMA RunnerStepsKeepReader ==
    ASSUME RunnerInv, RunnerInv', ReaderInv,
           \/ RPBegin \/ RPSham \/ RPRespond \/ RPQuarantine \/ RPProbe \/ RPArtifacts
           \/ RPStalled
    PROVE  ReaderInv'
<1>1. UNCHANGED << rpBundle, rpReader >>
  BY DEF RPBegin, RPSham, RPRespond, RPQuarantine, RPProbe, RPArtifacts, RPStalled
<1>2. rpStep \notin BundleSteps /\ rpStep' \notin BundleSteps
  BY DEF RPBegin, RPSham, RPRespond, RPQuarantine, RPProbe, RPArtifacts, RPStalled, BundleSteps
<1>3. rpStep \in RPSteps /\ rpStep' \in RPSteps
  BY DEF RunnerInv
<1> QED
  BY <1>1, <1>2, <1>3, ReaderBefore

\* What the runner gathered is a typed directory.
LEMMA RunIsTyped ==
    ASSUME RunHolds, rpStep \notin RunSteps
    PROVE  TypedBundle(rpRun)
<1>1. Recorded = RPWatched
  BY DEF Recorded
<1>2. "observations" \in Artifacts
  BY DEF Artifacts, Payloads
<1>3. /\ rpRun = [p \in Payloads |-> rpRun[p]]
      /\ rpRun["observations"] = [t \in RPWatched |-> rpRun["observations"][t]]
      /\ \A t \in RPWatched : ExecutedObs(rpRun["observations"][t], t)
  BY <1>1, <1>2 DEF RunHolds, LineHolds
<1>4. \A t \in RPWatched : ObsTyped(rpRun["observations"][t])
  <2> SUFFICES ASSUME NEW t \in RPWatched PROVE ObsTyped(rpRun["observations"][t])
    OBVIOUS
  <2> DEFINE o == rpRun["observations"][t]
  <2>1. o = ObsColumns(o) /\ o.sess0 = FreshSessions /\ o.prin0 = FreshPrincipals
    BY <1>3 DEF ExecutedObs, BeganObs, TargetObs
  <2> HIDE DEF o
  <2>2. ObsTyped(o)
    BY <2>1, FreshTyped DEF ObsTyped
  <2> QED
    BY <2>2 DEF o
<1> QED
  BY <1>3, <1>4 DEF TypedBundle

LEMMA WriteKeepsReader ==
    ASSUME RunnerInv, ReaderInv, RPWrite
    PROVE  ReaderInv'
<1>1. /\ rpStep = "window" /\ rpStep' \in {"failed", "written"}
      /\ rpStep' = "written" => rpDisk' = rpRun /\ rpManifest' = rpRun
      /\ UNCHANGED << rpRun, rpEdits, rpVerifier, rpLoaded >>
  BY DEF RPWrite, rpRunner, rpReader
<1>2. TypedBundle(rpRun)
  BY <1>1, RunIsTyped DEF RunnerInv, RunSteps
<1>3. rpLoaded' = << >> /\ rpEdits' \in Nat /\ rpVerifier' \in {"written", "changed"}
  BY <1>1 DEF ReaderInv, LoadedHolds, DirectoryHolds, RefusedHolds, ReadingSteps, BundleSteps,
     RPSteps
<1>4. rpStep' = "written" => TypedBundle(rpDisk') /\ TypedBundle(rpManifest')
  BY <1>1, <1>2
<1>5. DirectoryHolds'
  BY <1>1, <1>3, <1>4 DEF DirectoryHolds, BundleSteps, ReadingSteps, TypedBundle
<1> QED
  BY <1>1, <1>3, <1>5 DEF ReaderInv, LoadedHolds, CheckedHolds, CaseHolds, RefusedHolds,
     ReadingSteps

\* An edit of an observation leaves it typed.
LEMMA SameSnapshot ==
    ASSUME NEW o, ObsTyped(o), NEW q, q = ObsColumns(q), q.sess0 = o.sess0, q.prin0 = o.prin0
    PROVE  ObsTyped(q)
  BY DEF ObsTyped

LEMMA AlteredIsTyped ==
    ASSUME NEW o, ObsTyped(o), NEW q \in AlteredObservations(o)
    PROVE  ObsTyped(q)
<1>0. o = ObsColumns(o)
  BY DEF ObsTyped
<1>1. CASE \E s \in Sessions : q = [o EXCEPT !.sess1[s].active = ~@, !.sess2[s].active = ~@]
  <2>1. PICK s \in Sessions : q = [o EXCEPT !.sess1[s].active = ~@, !.sess2[s].active = ~@]
    BY <1>1
  <2>2. q = ObsColumns(q) /\ q.sess0 = o.sess0 /\ q.prin0 = o.prin0
    BY <1>0, <2>1 DEF ObsColumns
  <2> QED
    BY <2>2, SameSnapshot
<1>2. CASE \E p \in Principals : q = [o EXCEPT !.prin2[p] = ~@]
  <2>1. PICK p \in Principals : q = [o EXCEPT !.prin2[p] = ~@]
    BY <1>2
  <2>2. q = ObsColumns(q) /\ q.sess0 = o.sess0 /\ q.prin0 = o.prin0
    BY <1>0, <2>1 DEF ObsColumns
  <2> QED
    BY <2>2, SameSnapshot
<1>3. CASE q = [o EXCEPT !.sess1["compromised"].active = ~@]
  <2>1. q = ObsColumns(q) /\ q.sess0 = o.sess0 /\ q.prin0 = o.prin0
    BY <1>0, <1>3 DEF ObsColumns
  <2> QED
    BY <2>1, SameSnapshot
<1>4. CASE q = [o EXCEPT !.sess0["compromised"].active = FALSE]
  <2> DEFINE v == [o.sess0 EXCEPT !["compromised"].active = FALSE]
  <2>1. v \in [Sessions -> SessionRow]
    <3>1. o.sess0 \in [Sessions -> SessionRow] /\ "compromised" \in Sessions
      BY DEF ObsTyped, Sessions
    <3>2. [o.sess0["compromised"] EXCEPT !.active = FALSE] \in SessionRow
      BY <3>1 DEF SessionRow
    <3> QED
      BY <3>1, <3>2
  <2>2. q = [o EXCEPT !.sess0 = v]
    BY <1>4
  <2> HIDE DEF v
  <2>3. q = ObsColumns(q) /\ q.sess0 = v /\ q.prin0 = o.prin0
    BY <1>0, <2>2 DEF ObsColumns
  <2> QED
    BY <2>1, <2>3 DEF ObsTyped
<1>5. CASE q = [o EXCEPT !.response.status = "reported-success"]
  <2>1. q = ObsColumns(q) /\ q.sess0 = o.sess0 /\ q.prin0 = o.prin0
    BY <1>0, <1>5 DEF ObsColumns
  <2> QED
    BY <2>1, SameSnapshot
<1>6. CASE q = [o EXCEPT !.target.operation = "revoke-exact", !.target.rows = 1]
  <2>1. q = ObsColumns(q) /\ q.sess0 = o.sess0 /\ q.prin0 = o.prin0
    BY <1>0, <1>6 DEF ObsColumns
  <2> QED
    BY <2>1, SameSnapshot
<1>7. CASE q = [o EXCEPT !.replay.revoked = ~@, !.replay.available = FALSE]
  <2>1. q = ObsColumns(q) /\ q.sess0 = o.sess0 /\ q.prin0 = o.prin0
    BY <1>0, <1>7 DEF ObsColumns
  <2> QED
    BY <2>1, SameSnapshot
<1>8. CASE q = [o EXCEPT !.replay.available = ~@]
  <2>1. q = ObsColumns(q) /\ q.sess0 = o.sess0 /\ q.prin0 = o.prin0
    BY <1>0, <1>8 DEF ObsColumns
  <2> QED
    BY <2>1, SameSnapshot
<1>9. CASE q = [o EXCEPT !.unrelated.quarantined = ~@, !.unrelated.available = ~@]
  <2>1. q = ObsColumns(q) /\ q.sess0 = o.sess0 /\ q.prin0 = o.prin0
    BY <1>0, <1>9 DEF ObsColumns
  <2> QED
    BY <2>1, SameSnapshot
<1>10. CASE q = [o EXCEPT !.after.generation = 1 - @]
  <2>1. q = ObsColumns(q) /\ q.sess0 = o.sess0 /\ q.prin0 = o.prin0
    BY <1>0, <1>10 DEF ObsColumns
  <2> QED
    BY <2>1, SameSnapshot
<1> QED
  BY <1>1, <1>2, <1>3, <1>4, <1>5, <1>6, <1>7, <1>8, <1>9, <1>10 DEF AlteredObservations

LEMMA RelabelledIsTyped ==
    ASSUME NEW o, ObsTyped(o), NEW t
    PROVE  ObsTyped(Relabelled(t, o))
<1>1. PICK q : q = Relabelled(t, o)
  OBVIOUS
<1>2. o = ObsColumns(o)
  BY DEF ObsTyped
<1>3. q = ObsColumns(q) /\ q.sess0 = o.sess0 /\ q.prin0 = o.prin0
  BY <1>1, <1>2 DEF Relabelled, ObsColumns
<1> QED
  BY <1>1, <1>3, SameSnapshot

\* A directory in which one trial's observation is another typed one, or the same.
LEMMA TrialEdited ==
    ASSUME NEW d, TypedBundle(d), NEW e, e = [p \in Payloads |-> e[p]],
           NEW t \in RPWatched, NEW o, ObsTyped(o),
           e["observations"] = [d["observations"] EXCEPT ![t] = o]
    PROVE  TypedBundle(e)
  BY DEF TypedBundle

LEMMA OtherEdited ==
    ASSUME NEW d, TypedBundle(d), NEW p \in Payloads \ {"observations"}, NEW v
    PROVE  TypedBundle([d EXCEPT ![p] = v])
  BY DEF TypedBundle, Payloads

LEMMA WithTrialIsTyped ==
    ASSUME NEW d, TypedBundle(d), NEW t \in RPWatched, NEW a, NEW o, ObsTyped(o),
           a["observations"] = o
    PROVE  TypedBundle(WithTrial(d, t, a))
<1>1. PICK e : e = WithTrial(d, t, a)
  OBVIOUS
<1>2. "observations" \in Payloads
  BY DEF Payloads
<1>3. e = [p \in Payloads |-> e[p]] /\ e["observations"] = [d["observations"] EXCEPT ![t] = o]
  BY <1>1, <1>2 DEF WithTrial
<1>4. TypedBundle(e)
  BY <1>3, TrialEdited
<1> QED
  BY <1>1, <1>4

LEMMA ReboundObservation ==
    ASSUME NEW t, NEW o
    PROVE  Rederived(t, o)["observations"] = o /\ Rebound(t, o)["observations"] = o
<1> DEFINE a == Rederived(t, o)
<1>1. a = [observations |-> o, stages |-> a.stages, metrics |-> a.metrics,
           attestations |-> a.attestations, cleanups |-> a.cleanups, trials |-> a.trials]
  BY DEF Rederived, TrialArtifacts
<1>2. PICK stages, metrics, trials :
         Rebound(t, o) = [a EXCEPT !.stages = stages, !.metrics = metrics, !.trials = trials]
  BY DEF Rebound
<1> HIDE DEF a
<1>3. Rebound(t, o)["observations"] = o /\ a["observations"] = o
  BY <1>1, <1>2
<1> QED
  BY <1>3 DEF a

\* However a trial's lines are edited, the directory stays typed.
LEMMA EditedTrialIsTyped ==
    ASSUME TypedBundle(rpDisk), NEW t \in RPWatched, NEW e \in EditedTrial(t)
    PROVE  TypedBundle(e)
<1> DEFINE altered == AlteredObservations(rpDisk["observations"][t])
           moved == {Relabelled(t, rpDisk["observations"][u]) : u \in RPWatched \ {t}}
<1>1. \A o \in altered : ObsTyped(o)
  BY AlteredIsTyped DEF TypedBundle
<1>2. \A o \in moved : ObsTyped(o)
  BY RelabelledIsTyped DEF TypedBundle
<1>3. CASE \E o \in altered \cup moved : e = WithTrial(rpDisk, t, Rederived(t, o))
  BY <1>1, <1>2, <1>3, WithTrialIsTyped, ReboundObservation
<1>4. CASE \E o \in altered : e = WithTrial(rpDisk, t, Rebound(t, o))
  BY <1>1, <1>4, WithTrialIsTyped, ReboundObservation
<1>5. CASE \E m \in Metrics : e = [rpDisk EXCEPT !["metrics"][t][m].value = ~@]
  <2>1. PICK v : e = [rpDisk EXCEPT !["metrics"] = v]
    BY <1>5
  <2>2. "metrics" \in Payloads \ {"observations"}
    BY DEF Payloads
  <2> QED
    BY <2>1, <2>2, OtherEdited
<1>6. CASE e = [rpDisk EXCEPT !["observations"][t].sess1["compromised"].active = ~@]
  <2>1. PICK o : o = [rpDisk["observations"][t] EXCEPT !.sess1["compromised"].active = ~@]
    OBVIOUS
  <2>2. ObsTyped(o)
    <3>1. o \in altered
      BY <2>1 DEF AlteredObservations
    <3> QED
      BY <1>1, <3>1
  <2>3. "observations" \in Payloads
    BY DEF Payloads
  <2>4. e = [rpDisk EXCEPT !["observations"] = [rpDisk["observations"] EXCEPT ![t] = o]]
    BY <1>6, <2>1
  <2>5. e = [p \in Payloads |-> e[p]]
        /\ e["observations"] = [rpDisk["observations"] EXCEPT ![t] = o]
    BY <2>3, <2>4 DEF TypedBundle
  <2> QED
    BY <2>2, <2>5, TrialEdited
<1>7. CASE e = [rpDisk EXCEPT !["stages"][t]["outcome"].payload.denied = ~@]
  <2>1. PICK v : e = [rpDisk EXCEPT !["stages"] = v]
    BY <1>7
  <2>2. "stages" \in Payloads \ {"observations"}
    BY DEF Payloads
  <2> QED
    BY <2>1, <2>2, OtherEdited
<1>8. CASE \/ e = [rpDisk EXCEPT !["attestations"][t].selector.target = "effective"]
           \/ e = [rpDisk EXCEPT !["attestations"][t].ended = rpWindow.end + 1]
  <2>1. PICK v : e = [rpDisk EXCEPT !["attestations"] = v]
    BY <1>8
  <2>2. "attestations" \in Payloads \ {"observations"}
    BY DEF Payloads
  <2> QED
    BY <2>1, <2>2, OtherEdited
<1>9. CASE e = [rpDisk EXCEPT !["cleanups"][t].at = 0]
  <2>1. PICK v : e = [rpDisk EXCEPT !["cleanups"] = v]
    BY <1>9
  <2>2. "cleanups" \in Payloads \ {"observations"}
    BY DEF Payloads
  <2> QED
    BY <2>1, <2>2, OtherEdited
<1>10. \/ \E o \in altered \cup moved : e = WithTrial(rpDisk, t, Rederived(t, o))
       \/ \E o \in altered : e = WithTrial(rpDisk, t, Rebound(t, o))
       \/ \E m \in Metrics : e = [rpDisk EXCEPT !["metrics"][t][m].value = ~@]
       \/ e = [rpDisk EXCEPT !["observations"][t].sess1["compromised"].active = ~@]
       \/ e = [rpDisk EXCEPT !["stages"][t]["outcome"].payload.denied = ~@]
       \/ e = [rpDisk EXCEPT !["attestations"][t].selector.target = "effective"]
       \/ e = [rpDisk EXCEPT !["attestations"][t].ended = rpWindow.end + 1]
       \/ e = [rpDisk EXCEPT !["cleanups"][t].at = 0]
  <2> HIDE DEF altered, moved
  <2> QED
    BY Zenon DEF EditedTrial, altered, moved
<1> HIDE DEF altered, moved
<1> QED
  BY <1>3, <1>4, <1>5, <1>6, <1>7, <1>8, <1>9, <1>10, Zenon

LEMMA EditedIsTyped ==
    ASSUME TypedBundle(rpDisk), NEW e \in Edited
    PROVE  TypedBundle(e)
<1>1. CASE \E t \in RPWatched : e \in EditedTrial(t)
  BY <1>1, EditedTrialIsTyped
<1>2. CASE e = [rpDisk EXCEPT !["provenance"] = "changed"]
  <2>1. "provenance" \in Payloads \ {"observations"}
    BY DEF Payloads
  <2> QED
    BY <1>2, <2>1, OtherEdited
<1> QED
  BY <1>1, <1>2, Zenon DEF Edited

LEMMA EditKeepsReader ==
    ASSUME RunnerInv, ReaderInv, RPEdit
    PROVE  ReaderInv'
<1>1. /\ rpStep = "written" /\ rpStep' = "written" /\ rpDisk' \in Edited
      /\ rpManifest' \in {rpManifest, rpDisk'} /\ rpEdits' = rpEdits + 1
      /\ UNCHANGED << rpVerifier, rpLoaded >>
  BY DEF RPEdit, rpReader
<1>2. rpEdits \in Nat /\ TypedBundle(rpDisk) /\ TypedBundle(rpManifest)
  BY <1>1 DEF ReaderInv, DirectoryHolds, BundleSteps
<1>3. TypedBundle(rpDisk')
  BY <1>1, <1>2, EditedIsTyped
<1>4. TypedBundle(rpManifest')
  BY <1>1, <1>2, <1>3
<1>5. rpEdits' \in Nat /\ rpEdits' # 0
  BY <1>1, <1>2
<1>6. DirectoryHolds'
  BY <1>1, <1>3, <1>4, <1>5 DEF DirectoryHolds, ReadingSteps, TypedBundle
<1>7. LoadedHolds'
  BY <1>1 DEF ReaderInv, LoadedHolds, ReadingSteps, RPSteps, BundleSteps
<1> QED
  BY <1>1, <1>6, <1>7 DEF ReaderInv, CheckedHolds, CaseHolds, RefusedHolds

\* Whether a trial passes depends on what was read and on the window.
LEMMA TrialValidStays ==
    ASSUME UNCHANGED << rpLoaded, rpWindow >>
    PROVE  \A t \in RPWatched : TrialValid(t)' = TrialValid(t)
  BY DEF TrialValid, TimelineValid, CleanupMatches

\* A directory with a payload of another typed one stays typed.
LEMMA PayloadSwapped ==
    ASSUME NEW d, TypedBundle(d), NEW e, TypedBundle(e), NEW p \in Payloads
    PROVE  TypedBundle([d EXCEPT ![p] = e[p]])
  BY DEF TypedBundle, Payloads

LEMMA SwapKeepsReader ==
    ASSUME RunnerInv, ReaderInv, RPSwap
    PROVE  ReaderInv'
<1>1. /\ rpStep \in {"verified", "checked"}
      /\ \/ /\ \E p \in Payloads : rpDisk' \in {[rpDisk EXCEPT ![p] = rpRun[p]],
                                               [rpDisk EXCEPT ![p] = rpManifest[p]]}
            /\ UNCHANGED rpManifest
         \/ rpDisk' = rpRun /\ rpManifest' = rpRun
      /\ UNCHANGED << rpStep, rpWindow, rpRun, rpEdits, rpVerifier, rpPinned, rpLoaded, rpCase >>
  BY DEF RPSwap, rpReader, rpRunner
<1>2. /\ TypedBundle(rpDisk) /\ TypedBundle(rpManifest)
      /\ rpEdits = 0 => rpDisk = rpRun /\ rpManifest = rpRun
  BY <1>1 DEF ReaderInv, DirectoryHolds, BundleSteps
<1>3. TypedBundle(rpRun)
  BY <1>1, RunIsTyped DEF RunnerInv, RunSteps
<1>4. TypedBundle(rpDisk') /\ TypedBundle(rpManifest')
  BY <1>1, <1>2, <1>3, PayloadSwapped
<1>5. rpEdits = 0 => rpDisk' = rpRun /\ rpManifest' = rpRun
  <2> SUFFICES ASSUME rpEdits = 0 PROVE rpDisk' = rpRun /\ rpManifest' = rpRun
    OBVIOUS
  <2>1. \A p \in Payloads : [rpRun EXCEPT ![p] = rpRun[p]] = rpRun
    BY <1>3 DEF TypedBundle
  <2> QED
    BY <1>1, <1>2, <2>1
<1>6. DirectoryHolds'
  BY <1>1, <1>4, <1>5 DEF ReaderInv, DirectoryHolds, TypedBundle
<1>7. LoadedHolds'
  BY <1>1 DEF ReaderInv, LoadedHolds
<1>8. CheckedHolds'
  BY <1>1, TrialValidStays DEF ReaderInv, CheckedHolds
<1> QED
  BY <1>1, <1>6, <1>7, <1>8 DEF ReaderInv, CaseHolds, RefusedHolds

LEMMA VerifyKeepsReader ==
    ASSUME RunnerInv, ReaderInv, RPVerify
    PROVE  ReaderInv'
<1>1. /\ rpStep = "written" /\ rpStep' = IF IntegrityVerified THEN "verified" ELSE "refused"
      /\ rpPinned' = rpManifest
      /\ UNCHANGED << rpDisk, rpManifest, rpEdits, rpRun, rpVerifier, rpLoaded >>
  BY DEF RPVerify, rpRunner, rpBundle
<1>2. /\ TypedBundle(rpDisk) /\ TypedBundle(rpManifest) /\ rpEdits \in Nat
      /\ rpEdits = 0 => rpDisk = rpRun /\ rpManifest = rpRun
  BY <1>1 DEF ReaderInv, DirectoryHolds, BundleSteps
<1>3. rpStep' = "refused" => rpEdits # 0
  BY <1>1, <1>2 DEF IntegrityVerified
<1>4. DirectoryHolds'
  BY <1>1, <1>2 DEF DirectoryHolds, TypedBundle
<1>5. LoadedHolds'
  <2>1. rpLoaded' = << >>
    BY <1>1 DEF ReaderInv, LoadedHolds, ReadingSteps, RPSteps, BundleSteps
  <2>2. DOMAIN rpLoaded' = {}
    BY <2>1
  <2>3. IsFiniteSet({}) /\ Cardinality({}) = 0
    BY FS_EmptySet
  <2>4. {} = {ReadOrder[i] : i \in 1..0}
    OBVIOUS
  <2>5. rpLoaded' = [q \in {} |-> rpPinned'[q]]
    BY <2>1
  <2> QED
    BY <1>1, <2>1, <2>2, <2>3, <2>4, <2>5 DEF LoadedHolds, ReadingSteps
<1> QED
  BY <1>1, <1>3, <1>4, <1>5 DEF ReaderInv, CheckedHolds, CaseHolds, RefusedHolds

\* The order of reading names every payload once.
LEMMA OrderOfReading ==
    /\ Len(ReadOrder) = 7 /\ \A i \in 1..7 : ReadOrder[i] \in Payloads
    /\ \A i, j \in 1..7 : ReadOrder[i] = ReadOrder[j] => i = j
    /\ {ReadOrder[i] : i \in 1..7} = Payloads
<1>1. Len(ReadOrder) = 7
  BY DEF ReadOrder
<1>2. /\ ReadOrder[1] = "provenance" /\ ReadOrder[2] = "observations" /\ ReadOrder[3] = "stages"
      /\ ReadOrder[4] = "metrics" /\ ReadOrder[5] = "attestations" /\ ReadOrder[6] = "cleanups"
      /\ ReadOrder[7] = "trials"
  BY DEF ReadOrder
<1>3. \A i \in 1..7 : i = 1 \/ i = 2 \/ i = 3 \/ i = 4 \/ i = 5 \/ i = 6 \/ i = 7
  OBVIOUS
<1>4. \A i \in 1..7 : ReadOrder[i] \in Payloads
  BY <1>2, <1>3 DEF Payloads
<1>5. \A i, j \in 1..7 : ReadOrder[i] = ReadOrder[j] => i = j
  BY <1>2, <1>3
<1>6. Payloads \subseteq {ReadOrder[i] : i \in 1..7}
  BY <1>2 DEF Payloads
<1> QED
  BY <1>1, <1>4, <1>5, <1>6

\* The next payload is one more.
LEMMA ReadNext ==
    ASSUME NEW D, IsFiniteSet(D), Cardinality(D) \in 0..6,
           D = {ReadOrder[i] : i \in 1..Cardinality(D)}
    PROVE  LET p == ReadOrder[Cardinality(D) + 1]
               E == D \cup {p}
           IN /\ p \in Payloads /\ p \notin D
              /\ IsFiniteSet(E) /\ Cardinality(E) = Cardinality(D) + 1
              /\ E = {ReadOrder[i] : i \in 1..Cardinality(E)}
<1> DEFINE k == Cardinality(D)
           p == ReadOrder[k + 1]
           E == D \cup {p}
<1>1. k \in 0..6 /\ k + 1 \in 1..7
  OBVIOUS
<1>2. p \in Payloads
  BY <1>1, OrderOfReading
<1> HIDE DEF k
<1>3. D = {ReadOrder[i] : i \in 1..k}
  BY DEF k
<1>4. p \notin D
  <2>1. \A i \in 1..k : i \in 1..7 /\ i # k + 1
    BY <1>1
  <2>2. \A i \in 1..k : ReadOrder[i] # p
    BY <1>1, <2>1, OrderOfReading
  <2> QED
    BY <1>3, <2>2
<1>5. IsFiniteSet(E) /\ Cardinality(E) = k + 1
  BY <1>4, FS_AddElement DEF k
<1>6. 1..(k + 1) = (1..k) \cup {k + 1}
  BY <1>1
<1>7. E = {ReadOrder[i] : i \in 1..(k + 1)}
  BY <1>3, <1>6
<1> QED
  BY <1>2, <1>4, <1>5, <1>7 DEF k

LEMMA ReadKeepsReader ==
    ASSUME RunnerInv, ReaderInv, RPRead
    PROVE  ReaderInv'
<1> DEFINE D == DOMAIN rpLoaded
           p == ReadOrder[Cardinality(D) + 1]
<1>1. /\ rpStep = "verified" /\ Cardinality(D) < Len(ReadOrder)
      /\ \/ /\ rpStep' = "verified" /\ rpDisk[p] = rpPinned[p]
            /\ rpLoaded' = WithRow(rpLoaded, p, rpDisk[p])
         \/ rpStep' = "refused" /\ ~ (Rehashed(p) /\ ProvenanceValid(p))
      /\ UNCHANGED << rpWindow, rpDisk, rpManifest, rpEdits, rpRun, rpVerifier, rpPinned >>
  BY DEF RPRead, Rehashed, rpRunner, rpBundle
<1>2. /\ TypedBundle(rpDisk) /\ TypedBundle(rpManifest) /\ rpEdits \in Nat
      /\ rpEdits = 0 => rpDisk = rpRun /\ rpManifest = rpRun /\ rpPinned = rpRun
      /\ TypedBundle(rpPinned)
  BY <1>1 DEF ReaderInv, DirectoryHolds, BundleSteps, ReadingSteps
<1>3. DirectoryHolds'
  BY <1>1, <1>2 DEF DirectoryHolds, TypedBundle
<1>4. /\ IsFiniteSet(D) /\ Cardinality(D) \in 0..7
      /\ D = {ReadOrder[i] : i \in 1..Cardinality(D)}
      /\ rpLoaded = [q \in D |-> rpPinned[q]]
  BY <1>1 DEF ReaderInv, LoadedHolds, ReadingSteps
<1>5. Cardinality(D) \in 0..6
  BY <1>1, <1>4, OrderOfReading
<1>6. CASE rpStep' = "verified"
  <2>1. /\ rpDisk[p] = rpPinned[p] /\ rpLoaded' = WithRow(rpLoaded, p, rpDisk[p])
    BY <1>1, <1>6
  <2> DEFINE E == D \cup {p}
  <2>2. /\ IsFiniteSet(E) /\ Cardinality(E) = Cardinality(D) + 1
        /\ E = {ReadOrder[i] : i \in 1..Cardinality(E)}
    BY <1>4, <1>5, ReadNext
  <2>3. rpLoaded' = [q \in E |-> rpPinned[q]]
    <3> HIDE DEF p
    <3>1. rpLoaded' = [x \in E |-> IF x = p THEN rpDisk[p] ELSE rpLoaded[x]]
      BY <2>1 DEF WithRow
    <3>2. \A x \in E : (IF x = p THEN rpDisk[p] ELSE rpLoaded[x]) = rpPinned[x]
      BY <1>4, <2>1
    <3> QED
      BY <3>1, <3>2
  <2>4. Cardinality(E) \in 0..7
    BY <1>5, <2>2
  <2> HIDE DEF E
  <2>5. DOMAIN rpLoaded' = E
    BY <2>3
  <2>6. LoadedHolds'
    BY <1>1, <1>6, <2>2, <2>3, <2>4, <2>5 DEF LoadedHolds, ReadingSteps
  <2> QED
    BY <1>1, <1>3, <1>6, <2>6 DEF ReaderInv, CheckedHolds, CaseHolds, RefusedHolds
<1>7. CASE rpStep' = "refused"
  <2>1. LoadedHolds'
    BY <1>7 DEF LoadedHolds, ReadingSteps
  <2>2. rpEdits = 0 => rpVerifier = "changed"
    <3> SUFFICES ASSUME rpEdits = 0 PROVE rpVerifier = "changed"
      OBVIOUS
    <3>1. ~ (Rehashed(p) /\ ProvenanceValid(p))
      BY <1>1, <1>7
    <3>2. Rehashed(p)
      BY <1>2 DEF Rehashed
    <3>3. p = "provenance" /\ rpDisk["provenance"] # rpVerifier
      <4> HIDE DEF p
      <4> QED
        BY <3>1, <3>2 DEF ProvenanceValid
    <3>4. rpRun["provenance"] = "written"
      BY <1>1 DEF RunnerInv, RunHolds
    <3> QED
      BY <1>2, <3>3, <3>4 DEF ReaderInv, RefusedHolds
  <2> QED
    BY <1>1, <1>3, <1>7, <2>1, <2>2 DEF ReaderInv, CheckedHolds, CaseHolds, RefusedHolds
<1> QED
  BY <1>1, <1>6, <1>7

\* A bundle that is read whole is the pinned one.
LEMMA ReadWhole ==
    ASSUME ReaderInv, rpStep = "verified", Cardinality(DOMAIN rpLoaded) = Len(ReadOrder)
    PROVE  rpLoaded = rpPinned
<1>1. /\ DOMAIN rpLoaded = {ReadOrder[i] : i \in 1..Cardinality(DOMAIN rpLoaded)}
      /\ rpLoaded = [q \in DOMAIN rpLoaded |-> rpPinned[q]]
  BY DEF ReaderInv, LoadedHolds, ReadingSteps
<1>2. Cardinality(DOMAIN rpLoaded) = 7
  BY OrderOfReading
<1>3. DOMAIN rpLoaded = Payloads
  BY <1>1, <1>2, OrderOfReading
<1>4. rpPinned = [q \in Payloads |-> rpPinned[q]]
  BY DEF ReaderInv, DirectoryHolds, ReadingSteps, TypedBundle
<1> QED
  BY <1>1, <1>3, <1>4

\* A bundle nobody touched passes, if it begins inside the window.
LEMMA UntouchedIsValid ==
    ASSUME RunnerInv, rpStep = "verified", rpLoaded = rpRun, rpWindow.start = 0
    PROVE  \A t \in RPWatched : TrialValid(t)
<1> SUFFICES ASSUME NEW t \in RPWatched PROVE TrialValid(t)
  OBVIOUS
<1>1. t \in RPCells
  BY ResponseAssumption
<1>2. Recorded = RPWatched
  BY DEF Recorded, RunSteps
<1>3. LineHolds(rpRun, t)
  BY <1>2 DEF RunnerInv, RunHolds
<1>4. rpWindow.end = 192
  BY DEF RunnerInv, WindowHolds, BundleSteps
<1> DEFINE o == rpRun["observations"][t]
<1>5. ExecutedObs(o, t) /\ \A p \in Artifacts : rpRun[p][t] = Rederived(t, o)[p]
  BY <1>3 DEF LineHolds
<1>6. {"stages", "metrics", "attestations", "cleanups", "trials"} \subseteq Artifacts
  BY DEF Artifacts, Payloads
<1>7. /\ rpLoaded["observations"][t] = o
      /\ rpLoaded["stages"][t] = Rederived(t, o).stages
      /\ rpLoaded["metrics"][t] = Rederived(t, o).metrics
      /\ rpLoaded["attestations"][t] = Rederived(t, o).attestations
      /\ rpLoaded["cleanups"][t] = Rederived(t, o).cleanups
      /\ rpLoaded["trials"][t] = Rederived(t, o).trials
  BY <1>5, <1>6
<1> HIDE DEF o
<1> QED
  BY <1>1, <1>4, <1>5, <1>7, ExecutedTrialIsValid

LEMMA CheckKeepsReader ==
    ASSUME RunnerInv, ReaderInv, RPCheck
    PROVE  ReaderInv'
<1>1. /\ rpStep = "verified" /\ Cardinality(DOMAIN rpLoaded) = Len(ReadOrder)
      /\ rpStep' = IF \A t \in RPWatched : TrialValid(t) THEN "checked" ELSE "refused"
      /\ UNCHANGED << rpWindow, rpRun, rpDisk, rpManifest, rpEdits, rpVerifier, rpPinned,
                      rpLoaded >>
  BY DEF RPCheck, rpRunner, rpBundle, rpReader
<1>2. rpLoaded = rpPinned
  BY <1>1, ReadWhole
<1>3. DirectoryHolds'
  BY <1>1 DEF ReaderInv, DirectoryHolds, TypedBundle, BundleSteps, ReadingSteps
<1>4. LoadedHolds'
  BY <1>1 DEF ReaderInv, LoadedHolds, ReadingSteps
<1>5. CheckedHolds'
  BY <1>1, <1>2, TrialValidStays DEF CheckedHolds
<1>6. rpStep' = "refused" /\ rpEdits = 0 => rpWindow.start > 0
  <2> SUFFICES ASSUME rpStep' = "refused", rpEdits = 0 PROVE rpWindow.start > 0
    OBVIOUS
  <2>1. rpLoaded = rpRun
    BY <1>1, <1>2 DEF ReaderInv, DirectoryHolds, ReadingSteps
  <2>2. rpWindow.start # 0
    BY <1>1, <2>1, UntouchedIsValid
  <2>3. rpWindow.start \in {0, 2}
    BY DEF RunnerInv, WindowHolds
  <2> QED
    BY <2>2, <2>3
<1>7. RefusedHolds'
  BY <1>1, <1>6 DEF ReaderInv, RefusedHolds
<1> QED
  BY <1>1, <1>3, <1>4, <1>5, <1>7 DEF ReaderInv, CaseHolds

LEMMA FinalKeepsReader ==
    ASSUME RunnerInv, ReaderInv, RPFinal
    PROVE  ReaderInv'
<1>1. /\ rpStep = "checked"
      /\ rpStep' = IF IntegrityVerified /\ rpManifest = rpPinned THEN "admitted" ELSE "refused"
      /\ UNCHANGED << rpWindow, rpRun, rpDisk, rpManifest, rpEdits, rpVerifier, rpPinned,
                      rpLoaded >>
  BY DEF RPFinal, rpRunner, rpBundle, rpReader
<1>2. rpEdits = 0 => rpDisk = rpRun /\ rpManifest = rpRun /\ rpPinned = rpRun
  BY <1>1 DEF ReaderInv, DirectoryHolds, BundleSteps, ReadingSteps
<1>3. DirectoryHolds'
  BY <1>1 DEF ReaderInv, DirectoryHolds, TypedBundle, BundleSteps, ReadingSteps
<1>4. LoadedHolds'
  BY <1>1 DEF ReaderInv, LoadedHolds, ReadingSteps
<1>5. CheckedHolds'
  BY <1>1, TrialValidStays DEF ReaderInv, CheckedHolds
<1>6. RefusedHolds'
  BY <1>1, <1>2 DEF ReaderInv, RefusedHolds, IntegrityVerified
<1> QED
  BY <1>1, <1>3, <1>4, <1>5, <1>6 DEF ReaderInv, CaseHolds

\* The metrics of a bundle that passed are those its trials produce.
LEMMA CheckedMetrics ==
    ASSUME ReaderInv, rpStep \in {"checked", "admitted", "evaluated"}
    PROVE  \A t \in RPWatched, m \in Metrics : MetricValue(t, m) = ExpectedMetrics(t)[m]
<1>1. rpLoaded = rpPinned /\ \A t \in RPWatched : TrialValid(t)
  BY DEF ReaderInv, CheckedHolds
<1>2. \A t \in RPWatched : ObsTyped(rpLoaded["observations"][t])
  BY <1>1 DEF ReaderInv, DirectoryHolds, ReadingSteps, TypedBundle
<1>3. RPWatched \subseteq RPCells
  BY ResponseAssumption
<1> QED
  BY <1>1, <1>2, <1>3, ValidMetrics

LEMMA EvaluateKeepsReader ==
    ASSUME RunnerInv, ReaderInv, RPEvaluate
    PROVE  ReaderInv'
<1> DEFINE current == RPWatched \cap {RPCurrent}
           benign == {t \in RPWatched : t.input = "benign"}
           success == \A t \in current : MetricValue(t, "reported")
           denied == \A t \in current : MetricValue(t, "denied")
           live == \A t \in current : ~MetricValue(t, "active")
           quarantined == \A t \in current : MetricValue(t, "quarantined")
           served == benign # {} /\ \A t \in benign : MetricValue(t, "available")
<1>1. /\ rpStep = "admitted" /\ rpStep' = "evaluated"
      /\ rpCase' = [baseline |-> IF success /\ denied THEN "pass" ELSE "fail",
                    class |-> ResponseClass(live, quarantined, denied, served)]
      /\ UNCHANGED << rpWindow, rpRun, rpDisk, rpManifest, rpEdits, rpVerifier, rpPinned,
                      rpLoaded >>
  BY DEF RPEvaluate, rpRunner, rpBundle
<1>2. \A t \in RPWatched, m \in Metrics : MetricValue(t, m) = ExpectedMetrics(t)[m]
  BY <1>1, CheckedMetrics
<1>3. {"active", "reported", "quarantined", "denied", "available"} \subseteq Metrics
  BY DEF Metrics, Bindings
<1>4. /\ ExpectedMetrics(RPCurrent)["active"] = TRUE
      /\ ExpectedMetrics(RPCurrent)["reported"] = TRUE
      /\ ExpectedMetrics(RPCurrent)["quarantined"] = TRUE
      /\ ExpectedMetrics(RPCurrent)["denied"] = TRUE
  BY DEF ExpectedMetrics, RPCurrent
<1>5. \A t \in RPWatched : ExpectedMetrics(t)["available"] = TRUE
  BY DEF ExpectedMetrics
<1>6. current = {RPCurrent} /\ benign # {}
  BY ResponseAssumption
<1>7. RPCurrent \in RPWatched
  BY ResponseAssumption
<1>8. /\ MetricValue(RPCurrent, "active") = TRUE /\ MetricValue(RPCurrent, "reported") = TRUE
      /\ MetricValue(RPCurrent, "quarantined") = TRUE
      /\ MetricValue(RPCurrent, "denied") = TRUE
  BY <1>2, <1>3, <1>4, <1>7
<1>9. success /\ denied /\ ~ live /\ quarantined
  BY <1>6, <1>8
<1>10. served
  BY <1>2, <1>3, <1>5, <1>6
<1> HIDE DEF success, denied, live, quarantined, served
<1>11. ResponseClass(live, quarantined, denied, served) = "masked-revocation-failure"
  BY <1>9, <1>10 DEF ResponseClass
<1>12. CaseHolds'
  BY <1>1, <1>9, <1>11 DEF CaseHolds
<1>13. DirectoryHolds'
  BY <1>1 DEF ReaderInv, DirectoryHolds, TypedBundle, BundleSteps, ReadingSteps
<1>14. LoadedHolds'
  BY <1>1 DEF ReaderInv, LoadedHolds, ReadingSteps
<1>15. CheckedHolds'
  BY <1>1, TrialValidStays DEF ReaderInv, CheckedHolds
<1> QED
  BY <1>1, <1>12, <1>13, <1>14, <1>15 DEF ReaderInv, RefusedHolds

LEMMA ReaderKeeps ==
    ASSUME RunnerInv, RunnerInv', ReaderInv, [RPNext]_rpVars
    PROVE  ReaderInv'
<1>1. CASE UNCHANGED rpVars
  <2>1. UNCHANGED << rpStep, rpWindow, rpRun, rpDisk, rpManifest, rpEdits, rpVerifier, rpPinned,
                     rpLoaded, rpCase >>
    BY <1>1 DEF rpVars, rpRunner, rpBundle, rpReader
  <2>2. DirectoryHolds' /\ LoadedHolds' /\ CaseHolds' /\ RefusedHolds'
    BY <2>1 DEF ReaderInv, DirectoryHolds, TypedBundle, LoadedHolds, CaseHolds, RefusedHolds
  <2>3. CheckedHolds'
    BY <2>1, TrialValidStays DEF ReaderInv, CheckedHolds
  <2> QED
    BY <2>2, <2>3 DEF ReaderInv
<1>2. CASE RPNext
  BY <1>2, RunnerStepsKeepReader, WriteKeepsReader, EditKeepsReader, SwapKeepsReader,
     VerifyKeepsReader, ReadKeepsReader, CheckKeepsReader, FinalKeepsReader,
     EvaluateKeepsReader DEF RPNext
<1> QED
  BY <1>1, <1>2

LEMMA ResponseInductive == RPSpec => [](RunnerInv /\ ReaderInv)
<1>1. RPInit => RunnerInv /\ ReaderInv
  BY RunnerInitially, ReaderInitially
<1>2. RunnerInv /\ ReaderInv /\ [RPNext]_rpVars => (RunnerInv /\ ReaderInv)'
  BY RunnerKeeps, ReaderKeeps
<1> QED
  BY <1>1, <1>2, PTL DEF RPSpec

\* A response bundle is admitted only with the metrics its sixteen trials
\* really produced, for any set of watched cells and any number of edits and
\* replacements of the unsigned directory; its evaluation then finds the masked
\* revocation failure, and a bundle nobody touched is refused only for its
\* window or the verifier's sources (FinancialResponseBundleRepository,
\* evaluate_financial_response_bundle).
THEOREM AdmittedResponsesAreExecuted == RPSpec => []AdmittedResponseIsExecuted
<1>1. RunnerInv /\ ReaderInv => AdmittedResponseIsExecuted
  <2> SUFFICES ASSUME RunnerInv, ReaderInv PROVE AdmittedResponseIsExecuted
    OBVIOUS
  <2>1. rpStep \in {"admitted", "evaluated"} =>
           \A t \in RPWatched, m \in Metrics : MetricValue(t, m) = ExpectedMetrics(t)[m]
    BY CheckedMetrics
  <2> QED
    BY <2>1 DEF AdmittedResponseIsExecuted, ReaderInv, CaseHolds, RefusedHolds
<1> QED
  BY <1>1, ResponseInductive, PTL

\* What the repository admits is one bundle, the one that lies in the directory
\* when it is verified for the last time, though payloads are replaced while it
\* reads them (_read_rehashed against the pinned manifest, and the final verify).
THEOREM AdmittedBundlesAreOne == RPSpec => AdmittedBundleIsOne
<1>1. RunnerInv /\ ReaderInv /\ [RPNext]_rpVars
        => [rpStep # "admitted" /\ rpStep' = "admitted" => rpLoaded = rpDisk]_rpVars
  <2> SUFFICES ASSUME ReaderInv, RPNext, rpStep # "admitted", rpStep' = "admitted"
               PROVE  rpLoaded = rpDisk
    OBVIOUS
  <2>1. RPFinal
    BY DEF RPNext, RPBegin, RPSham, RPRespond, RPQuarantine, RPProbe, RPArtifacts, RPStalled,
       RPWrite, RPEdit, RPSwap, RPVerify, RPRead, RPCheck, RPEvaluate
  <2>2. rpStep = "checked" /\ rpDisk = rpManifest /\ rpManifest = rpPinned
    BY <2>1 DEF RPFinal, IntegrityVerified
  <2> QED
    BY <2>2 DEF ReaderInv, CheckedHolds
<1> QED
  BY <1>1, ResponseInductive, PTL DEF RPSpec, AdmittedBundleIsOne
----------------------------------------------------------------------------
(* Support export: what rows that pass the checks show *)

SPAllowed(t) == Allowed(t, RequestedBy(t), AssignedIds)
SPBlocked(t) == SPAllowed(t) /\ t.input = "attack" /\ t.compensator = "enforce"
SPSelected(t) == IF SPAllowed(t) THEN RequestedBy(t) ELSE {}
SPDelivered(t) == IF ~ SPAllowed(t) \/ SPBlocked(t) THEN {} ELSE SPSelected(t)

\* The request counts ten customers outside the assignment, or the one inside.
LEMMA Counts ==
    ASSUME NEW t \in SPCells
    PROVE  /\ t.input = "attack" => /\ Cardinality(RequestedBy(t)) = 10
                                    /\ RequestedBy(t) \ AssignedIds = RequestedBy(t)
                                    /\ RequestedBy(t) \cap AssignedIds = {}
           /\ t.input # "attack" => /\ RequestedBy(t) = {17}
                                    /\ RequestedBy(t) \ AssignedIds = {}
                                    /\ RequestedBy(t) \cap AssignedIds = {17}
           /\ SPAllowed(t) <=> (t.input = "attack" => t.target = "wildcard")
           /\ Cardinality({}) = 0 /\ Cardinality({17}) = 1
<1>1. t.input \in {"attack", "benign"} /\ t.target \in {"wildcard", "assigned"}
  BY DEF SPCells
<1>2. Cardinality({}) = 0 /\ Cardinality({17}) = 1
  BY FS_EmptySet, FS_Singleton
<1>3. Cardinality(21..30) = 10
  <2>1. PICK a, b \in Int : a = 21 /\ b = 30
    OBVIOUS
  <2>2. Cardinality(a..b) = IF a > b THEN 0 ELSE b - a + 1
    BY FS_Interval
  <2> QED
    BY <2>1, <2>2
<1>4. CASE t.input = "attack"
  <2>1. RequestedBy(t) = 21..30
    BY <1>4 DEF RequestedBy
  <2>2. (21..30) \ AssignedIds = 21..30 /\ (21..30) \cap AssignedIds = {}
        /\ ~ ((21..30) \subseteq AssignedIds)
    <3>1. 17 \notin 21..30 /\ 21 \in 21..30
      OBVIOUS
    <3> QED
      BY <3>1 DEF AssignedIds
  <2> QED
    BY <1>2, <1>3, <1>4, <2>1, <2>2 DEF SPAllowed, Allowed
<1>5. CASE t.input = "benign"
  <2>1. RequestedBy(t) = {17}
    BY <1>5 DEF RequestedBy
  <2> QED
    BY <1>2, <1>5, <2>1 DEF SPAllowed, Allowed, AssignedIds
<1> QED
  BY <1>1, <1>4, <1>5

\* The guard's decision, the selection and the delivery of rows that pass.
LEMMA ValidSupportRows ==
    ASSUME NEW t \in SPCells, NEW obs, RowsValid(t, obs)
    PROVE  /\ obs.request.requested = RequestedBy(t) /\ obs.assigned = AssignedIds
           /\ obs.authorization.allowed = SPAllowed(t)
           /\ obs.selected = SPSelected(t) /\ obs.delivered = SPDelivered(t)
           /\ obs.guard.reached = SPAllowed(t)
           /\ (obs.guard.decision = "block") = SPBlocked(t)
<1> DEFINE count == Cardinality(obs.selected)
           block == SPAllowed(t) /\ t.compensator = "enforce" /\ count >= 10
<1>1. obs.request.requested = RequestedBy(t) /\ obs.assigned = AssignedIds
  BY DEF RowsValid, SourceRowsMatch, RequestReceipt
<1>2. obs.authorization.allowed = SPAllowed(t) /\ obs.selected = SPSelected(t)
  BY DEF RowsValid, SelectionMatches, AuthorizationReceipt, SPAllowed, SPSelected
<1>3. block = SPBlocked(t)
  <2>1. CASE SPAllowed(t) /\ t.input = "attack"
    <3>1. count = 10
      BY <1>2, <2>1, Counts DEF SPSelected
    <3> QED
      BY <2>1, <3>1 DEF SPBlocked
  <2>2. CASE SPAllowed(t) /\ t.input # "attack"
    <3>1. count = 1
      BY <1>2, <2>2, Counts DEF SPSelected
    <3> QED
      BY <2>2, <3>1 DEF SPBlocked
  <2>3. CASE ~ SPAllowed(t)
    BY <2>3 DEF SPBlocked
  <2> QED
    BY <2>1, <2>2, <2>3
<1>4. /\ obs.guard = GuardReceipt(t, SPAllowed(t), count,
                                  IF ~ SPAllowed(t) THEN "not_reached"
                                  ELSE IF block THEN "block" ELSE "allow")
      /\ obs.delivered = IF ~ SPAllowed(t) \/ block THEN {} ELSE obs.selected
  BY DEF RowsValid, DeliveryMatches, SPAllowed
<1> HIDE DEF block, count
<1>5. obs.guard.reached = SPAllowed(t)
      /\ obs.guard.decision = (IF ~ SPAllowed(t) THEN "not_reached"
                               ELSE IF block THEN "block" ELSE "allow")
  BY <1>4 DEF GuardReceipt
<1>6. (obs.guard.decision = "block") = SPBlocked(t)
  <2>1. SPBlocked(t) => SPAllowed(t)
    BY DEF SPBlocked
  <2>2. "not_reached" # "block" /\ "allow" # "block"
    OBVIOUS
  <2> QED
    BY <1>3, <1>5, <2>1, <2>2 DEF SPBlocked
<1>7. obs.delivered = SPDelivered(t)
  BY <1>2, <1>3, <1>4 DEF SPDelivered
<1> QED
  BY <1>1, <1>2, <1>5, <1>6, <1>7

\* The events such rows imply.
LEMMA DerivedEvents ==
    ASSUME NEW t \in SPCells, NEW obs, RowsValid(t, obs)
    PROVE  LET derived == SupportEvents(t, obs)
           IN /\ DOMAIN derived = {"input", "target", "outcome"}
                                  \cup (IF SPAllowed(t) THEN {"compensator"} ELSE {})
              /\ derived["target"].selectedOutside = ExpectedMetric(t, "selectedOutside")
              /\ derived["outcome"].deliveredOutside = ExpectedMetric(t, "deliveredOutside")
              /\ derived["outcome"].deliveredAssigned = ExpectedMetric(t, "deliveredAssigned")
              /\ SPAllowed(t) => derived["compensator"].blocked = ExpectedMetric(t, "blocked")
              /\ ~ SPAllowed(t) => ExpectedMetric(t, "blocked") = Nil
<1> DEFINE derived == SupportEvents(t, obs)
           outside == obs.request.requested \ obs.assigned
<1>1. /\ obs.request.requested = RequestedBy(t) /\ obs.assigned = AssignedIds
      /\ obs.selected = SPSelected(t) /\ obs.delivered = SPDelivered(t)
      /\ obs.guard.reached = SPAllowed(t)
      /\ (obs.guard.decision = "block") = SPBlocked(t)
  BY ValidSupportRows
<1>2. /\ DOMAIN derived = {"input", "target", "compensator", "outcome"}
                          \ (IF obs.guard.reached THEN {} ELSE {"compensator"})
      /\ derived["target"].selectedOutside = Cardinality(obs.selected \cap outside)
      /\ derived["outcome"].deliveredOutside = Cardinality(obs.delivered \cap outside)
      /\ derived["outcome"].deliveredAssigned = Cardinality(obs.delivered \cap obs.assigned)
      /\ obs.guard.reached => derived["compensator"].blocked = (obs.guard.decision = "block")
  BY DEF SupportEvents
<1> HIDE DEF derived
<1>3. DOMAIN derived = {"input", "target", "outcome"}
                       \cup (IF SPAllowed(t) THEN {"compensator"} ELSE {})
  BY <1>1, <1>2
<1>4. /\ ExpectedMetric(t, "selectedOutside") =
            (IF t.input = "attack" /\ SPAllowed(t) THEN 10 ELSE 0)
      /\ ExpectedMetric(t, "blocked") = (IF SPAllowed(t) THEN SPBlocked(t) ELSE Nil)
      /\ ExpectedMetric(t, "deliveredOutside") =
            (IF t.input = "attack" /\ SPAllowed(t) /\ ~ SPBlocked(t) THEN 10 ELSE 0)
      /\ ExpectedMetric(t, "deliveredAssigned") = (IF t.input = "attack" THEN 0 ELSE 1)
  <2>1. SPAllowed(t) <=> (t.input = "attack" => t.target = "wildcard")
    BY Counts
  <2>2. SPBlocked(t) = (/\ t.input = "attack" /\ (t.input = "attack" => t.target = "wildcard")
                        /\ t.compensator = "enforce")
    BY <2>1 DEF SPBlocked
  <2> HIDE DEF SPAllowed, SPBlocked
  <2>3. ExpectedMetric(t, "selectedOutside") =
            (IF t.input = "attack" /\ SPAllowed(t) THEN 10 ELSE 0)
    BY <2>1 DEF ExpectedMetric
  <2>4. ExpectedMetric(t, "blocked") = (IF SPAllowed(t) THEN SPBlocked(t) ELSE Nil)
    BY <2>1, <2>2 DEF ExpectedMetric
  <2>5. ExpectedMetric(t, "deliveredOutside") =
            (IF t.input = "attack" /\ SPAllowed(t) /\ ~ SPBlocked(t) THEN 10 ELSE 0)
    BY <2>1, <2>2 DEF ExpectedMetric
  <2>6. ExpectedMetric(t, "deliveredAssigned") = (IF t.input = "attack" THEN 0 ELSE 1)
    BY DEF ExpectedMetric
  <2> QED
    BY <2>3, <2>4, <2>5, <2>6
<1>5. Cardinality(SPSelected(t) \cap outside) = ExpectedMetric(t, "selectedOutside")
  BY <1>1, <1>4, Counts DEF SPSelected
<1>6. Cardinality(SPDelivered(t) \cap outside) = ExpectedMetric(t, "deliveredOutside")
  BY <1>1, <1>4, Counts DEF SPSelected, SPDelivered
<1>7. Cardinality(SPDelivered(t) \cap AssignedIds) = ExpectedMetric(t, "deliveredAssigned")
  BY <1>4, Counts DEF SPSelected, SPDelivered, SPBlocked
<1> QED
  BY <1>1, <1>2, <1>3, <1>4, <1>5, <1>6, <1>7 DEF derived

\* Every metric of a trial that passed is the one its cell produces.
LEMMA ValidExtractions ==
    ASSUME NEW t \in SPCells, SupportTrialValid(t), NEW m \in DOMAIN Extraction
    PROVE  ExtractedMetric(t, m) = ExpectedMetric(t, m)
<1> DEFINE obs == spLoaded["observations"][t]
           stages == spLoaded["stages"][t]
           record == spLoaded["trials"][t]
           derived == SupportEvents(t, obs)
<1>1. /\ RowsValid(t, obs) /\ ExecutionMatches(derived, record)
      /\ \A s \in DOMAIN derived : SupportStageMatches(t, s, derived, stages, record, obs)
  BY DEF SupportTrialValid
<1>2. /\ DOMAIN derived = {"input", "target", "outcome"}
                          \cup (IF SPAllowed(t) THEN {"compensator"} ELSE {})
      /\ derived["target"].selectedOutside = ExpectedMetric(t, "selectedOutside")
      /\ derived["outcome"].deliveredOutside = ExpectedMetric(t, "deliveredOutside")
      /\ derived["outcome"].deliveredAssigned = ExpectedMetric(t, "deliveredAssigned")
      /\ SPAllowed(t) => derived["compensator"].blocked = ExpectedMetric(t, "blocked")
      /\ ~ SPAllowed(t) => ExpectedMetric(t, "blocked") = Nil
  BY <1>1, DerivedEvents
<1> HIDE DEF derived, obs
<1>3. \A s \in DOMAIN derived :
         /\ "evidence" \in DOMAIN record.events[s]
         /\ record.events[s].evidence.payload = derived[s]
  <2> SUFFICES ASSUME NEW s \in DOMAIN derived
               PROVE  /\ "evidence" \in DOMAIN record.events[s]
                      /\ record.events[s].evidence.payload = derived[s]
    OBVIOUS
  <2>1. /\ s \in DOMAIN stages /\ record.events[s] = TraceEvents(stages)[s]
        /\ stages[s].payload = derived[s]
    BY <1>1 DEF SupportStageMatches
  <2>2. TraceEvents(stages)[s] = [evidence |-> stages[s], began |-> stages[s].began,
                                  ended |-> stages[s].ended, blocks |-> stages[s].blocks]
    BY <2>1 DEF TraceEvents
  <2> QED
    BY <2>1, <2>2
<1>4. m \in {"selectedOutside", "blocked", "deliveredOutside", "deliveredAssigned"}
  BY DEF Extraction
<1>5. ExtractedMetric(t, m) = IF "evidence" \in DOMAIN record.events[Extraction[m]]
                              THEN record.events[Extraction[m]].evidence.payload[m] ELSE Nil
  BY DEF ExtractedMetric
<1> HIDE DEF record
<1>6. CASE m = "selectedOutside"
  <2>1. Extraction[m] = "target" /\ "target" \in DOMAIN derived
    BY <1>2, <1>6 DEF Extraction
  <2> QED
    BY <1>2, <1>3, <1>5, <1>6, <2>1
<1>7. CASE m = "deliveredOutside"
  <2>1. Extraction[m] = "outcome" /\ "outcome" \in DOMAIN derived
    BY <1>2, <1>7 DEF Extraction
  <2> QED
    BY <1>2, <1>3, <1>5, <1>7, <2>1
<1>8. CASE m = "deliveredAssigned"
  <2>1. Extraction[m] = "outcome" /\ "outcome" \in DOMAIN derived
    BY <1>2, <1>8 DEF Extraction
  <2> QED
    BY <1>2, <1>3, <1>5, <1>8, <2>1
<1>9. CASE m = "blocked"
  <2>1. Extraction[m] = "compensator"
    BY <1>9 DEF Extraction
  <2>2. CASE SPAllowed(t)
    <3>1. "compensator" \in DOMAIN derived
      BY <1>2, <2>2
    <3> QED
      BY <1>2, <1>3, <1>5, <1>9, <2>1, <2>2, <3>1
  <2>3. CASE ~ SPAllowed(t)
    <3>1. "compensator" \notin DOMAIN derived
      BY <1>2, <2>3
    <3>2. record.events["compensator"] = [skippedBy |-> "target"]
      BY <1>1, <3>1 DEF ExecutionMatches
    <3>3. "evidence" \notin DOMAIN record.events["compensator"]
      BY <3>2
    <3> QED
      BY <1>2, <1>5, <1>9, <2>1, <2>3, <3>3
  <2> QED
    BY <2>2, <2>3
<1> QED
  BY <1>4, <1>6, <1>7, <1>8, <1>9

\* A trial that was run, as its lines stand in the bundle, passes the repository's checks.
LEMMA ExecutedSupportIsValid ==
    ASSUME NEW t \in SPCells, NEW o, NEW clock, RowsValid(t, o),
           o.trial = t, o.trace = t, o.clone = t, o.action = t.input,
           spLoaded["observations"][t] = o,
           spLoaded["stages"][t] = SupportLine(t, o, clock).stages,
           spLoaded["attestations"][t] = SupportLine(t, o, clock).attestations,
           spLoaded["cleanups"][t] = SupportLine(t, o, clock).cleanups,
           spLoaded["trials"][t] = SupportLine(t, o, clock).trials
    PROVE  SupportTrialValid(t)
<1> DEFINE derived == SupportEvents(t, o)
           stages == SupportLine(t, o, clock).stages
           a == SupportLine(t, o, clock).attestations
           c == SupportLine(t, o, clock).cleanups
           record == SupportLine(t, o, clock).trials
<1>1. /\ DOMAIN stages = DOMAIN derived
      /\ \A s \in DOMAIN derived :
           /\ stages[s].trial = t /\ stages[s].trace = t /\ stages[s].stage = s
           /\ stages[s].action = t.input /\ stages[s].observation = o
           /\ stages[s].payload = derived[s] /\ stages[s].blocks = Blocks(s, o)
  <2>1. stages = SupportStages(t, o, clock + 1)
    BY DEF SupportLine
  <2> HIDE DEF stages
  <2> QED
    BY <2>1 DEF SupportStages
<1>2. /\ a.trial = t /\ a.ordinal = SPOrdinal(t) /\ a.trace = t /\ a.clone = t
      /\ a.action = t.input /\ a.selector = t /\ a.observation = o
  BY DEF SupportLine
<1>3. /\ c.trial = t /\ c.trace = t /\ c.clone = t /\ c.observation = o
      /\ c.instance = o.instance /\ c.outcomeEnded = stages["outcome"].ended
  BY DEF SupportLine
<1>4. /\ record.trial = t /\ record.cell = t /\ record.trace = t /\ record.clone = t
      /\ record.action = t.input /\ record.events = TraceEvents(stages)
      /\ record.attestation = a /\ record.cleanup = c
  BY DEF SupportLine
<1> HIDE DEF stages, a, c, record
<1>5. /\ DOMAIN derived = {"input", "target", "outcome"}
                          \cup (IF SPAllowed(t) THEN {"compensator"} ELSE {})
  BY DerivedEvents
<1> HIDE DEF derived
<1>6. /\ DOMAIN TraceEvents(stages) = DOMAIN derived \cup {"compensator"}
      /\ \A s \in DOMAIN derived :
           TraceEvents(stages)[s] = [evidence |-> stages[s], began |-> stages[s].began,
                                     ended |-> stages[s].ended, blocks |-> stages[s].blocks]
      /\ "compensator" \notin DOMAIN derived =>
           TraceEvents(stages)["compensator"] = [skippedBy |-> "target"]
  BY <1>1 DEF TraceEvents
<1>7. RecordBound(t, record, a) /\ ScopeBound(t, record, a, o)
  BY <1>2, <1>4 DEF RecordBound, ScopeBound
<1>8. ExecutionMatches(derived, record)
  <2>1. \A s \in DOMAIN derived : "evidence" \in DOMAIN record.events[s]
    BY <1>4, <1>6
  <2>2. "compensator" \notin DOMAIN derived =>
           /\ record.events["compensator"] = [skippedBy |-> "target"]
           /\ "evidence" \notin DOMAIN record.events["compensator"]
    BY <1>4, <1>6
  <2>3. DOMAIN derived = {s \in DOMAIN record.events : "evidence" \in DOMAIN record.events[s]}
    BY <1>4, <1>6, <2>1, <2>2
  <2> QED
    BY <2>2, <2>3 DEF ExecutionMatches
<1>9. \A s \in DOMAIN derived : SupportStageMatches(t, s, derived, stages, record, o)
  BY <1>1, <1>4 DEF SupportStageMatches
<1>10. CleanupBound(record, c, o)
  <2>1. "outcome" \in DOMAIN derived
    BY <1>5
  <2>2. record.events["outcome"].ended = stages["outcome"].ended
    BY <1>4, <1>6, <2>1
  <2> QED
    BY <1>3, <1>4, <2>2 DEF CleanupBound
<1>11. /\ spLoaded["stages"][t] = stages /\ spLoaded["attestations"][t] = a
       /\ spLoaded["cleanups"][t] = c /\ spLoaded["trials"][t] = record
  BY DEF stages, a, c, record
<1>12. SupportEvents(t, o) = derived
  BY DEF derived
<1> QED
  BY <1>1, <1>7, <1>8, <1>9, <1>10, <1>11, <1>12 DEF SupportTrialValid
----------------------------------------------------------------------------
(* The runner of the support experiment *)

LEMMA SPOrdinalRange ==
    ASSUME NEW t \in SPCells
    PROVE  SPOrdinal(t) \in 1..16
  BY DEF SPOrdinal

LEMMA SPOrdinalIsOne ==
    ASSUME NEW t \in SPCells, NEW u \in SPCells, SPOrdinal(t) = SPOrdinal(u)
    PROVE  t = u
<1>1. /\ t = [input |-> t.input, target |-> t.target, compensator |-> t.compensator,
              sham |-> t.sham]
      /\ u = [input |-> u.input, target |-> u.target, compensator |-> u.compensator,
              sham |-> u.sham]
  BY DEF SPCells
<1>2. /\ t.input \in {"attack", "benign"} /\ u.input \in {"attack", "benign"}
      /\ t.target \in {"wildcard", "assigned"} /\ u.target \in {"wildcard", "assigned"}
      /\ t.compensator \in {"monitor", "enforce"} /\ u.compensator \in {"monitor", "enforce"}
      /\ t.sham \in BOOLEAN /\ u.sham \in BOOLEAN
  BY DEF SPCells
<1>3. t.input = u.input
  BY <1>2 DEF SPOrdinal
<1>4. t.target = u.target
  BY <1>2, <1>3 DEF SPOrdinal
<1>5. t.compensator = u.compensator
  BY <1>2, <1>3, <1>4 DEF SPOrdinal
<1>6. t.sham = u.sham
  BY <1>2, <1>3, <1>4, <1>5 DEF SPOrdinal
<1> QED
  BY <1>1, <1>3, <1>4, <1>5, <1>6

LEMMA SPOrdinalIsACell ==
    ASSUME NEW k \in 1..16
    PROVE  SPCell(k) \in SPCells /\ SPOrdinal(SPCell(k)) = k
<1> DEFINE c == [input |-> IF k > 8 THEN "benign" ELSE "attack",
                 target |-> IF k \in (5..8) \cup (13..16) THEN "assigned" ELSE "wildcard",
                 compensator |-> IF k \in {3, 4, 7, 8, 11, 12, 15, 16} THEN "enforce"
                                 ELSE "monitor",
                 sham |-> k \in {2, 4, 6, 8, 10, 12, 14, 16}]
<1>1. c \in SPCells
  BY DEF SPCells
<1>2. SPOrdinal(c) = k
  <2>1. /\ (c.input = "benign") = (k > 8)
        /\ (c.target = "assigned") = (k \in (5..8) \cup (13..16))
        /\ (c.compensator = "enforce") = (k \in {3, 4, 7, 8, 11, 12, 15, 16})
        /\ c.sham = (k \in {2, 4, 6, 8, 10, 12, 14, 16})
    OBVIOUS
  <2>2. SPOrdinal(c) = 1 + (IF k > 8 THEN 8 ELSE 0)
                         + (IF k \in (5..8) \cup (13..16) THEN 4 ELSE 0)
                         + (IF k \in {3, 4, 7, 8, 11, 12, 15, 16} THEN 2 ELSE 0)
                         + (IF k \in {2, 4, 6, 8, 10, 12, 14, 16} THEN 1 ELSE 0)
    <3> HIDE DEF c
    <3> QED
      BY <2>1, Zenon DEF SPOrdinal
  <2> QED
    BY <2>2
<1> QED
  BY <1>1, <1>2 DEF SPCell

SPRunSteps == {"begin", "redeploy", "authorize", "select", "guard", "deliver", "artifacts"}
SPBundleSteps == {"written", "verified", "checked", "admitted", "refused"}
SPSteps == SPRunSteps \cup SPBundleSteps \cup {"window", "failed"}
SPArtifactsOf == SPPayloads \ {"provenance"}

\* The trials whose lines the runner has gathered.
SPRecorded == IF spStep \in SPRunSteps THEN {t \in SPWatched : SPOrdinal(t) < spOrdinal}
              ELSE SPWatched

SPColumns(o) ==
    [trial |-> o.trial, trace |-> o.trace, clone |-> o.clone, action |-> o.action,
     generation |-> o.generation, instance |-> o.instance, redeploy |-> o.redeploy,
     request |-> o.request, assigned |-> o.assigned, authorization |-> o.authorization,
     selected |-> o.selected, guard |-> o.guard, delivered |-> o.delivered,
     received |-> o.received]

SPBeganObs(o, t) ==
    /\ o = SPColumns(o)
    /\ o.trial = t /\ o.trace = t /\ o.clone = t /\ o.action = t.input
SPAskedObs(o, t) ==
    SourceRowsMatch(t, o) /\ o.authorization = AuthorizationReceipt(t, SPAllowed(t))
SPGuardObs(o, t) ==
    o.guard = GuardReceipt(t, SPAllowed(t), Cardinality(SPSelected(t)),
                           GuardDecision(t, SPAllowed(t), Cardinality(SPSelected(t))))

\* A trial's line of each payload is derived from rows that its execution left.
SPLineHolds(run, t) ==
    LET o == run["observations"][t] IN
    /\ SPBeganObs(o, t) /\ RowsValid(t, o)
    /\ \E clock : \A p \in SPArtifactsOf : run[p][t] = SupportLine(t, o, clock)[p]

SPRunHolds ==
    /\ spRun = [p \in SPPayloads |-> spRun[p]] /\ spRun["provenance"] = "written"
    /\ \A p \in SPArtifactsOf : spRun[p] = [t \in SPRecorded |-> spRun[p][t]]
    /\ \A t \in SPRecorded : SPLineHolds(spRun, t)

\* How far the running trial is.
SPTrialHolds ==
    /\ spStep \in SPRunSteps \ {"begin"} => SPBeganObs(spObs, spCell)
    /\ spStep \in SPRunSteps \ {"begin", "redeploy"} => RedeployMatches(spCell, spObs)
    /\ spStep \in {"select", "guard", "deliver", "artifacts"} => SPAskedObs(spObs, spCell)
    /\ spStep \in {"guard", "deliver", "artifacts"} => SelectionMatches(spCell, spObs)
    /\ spStep \in {"deliver", "artifacts"} => SPGuardObs(spObs, spCell)
    /\ spStep = "artifacts" => DeliveryMatches(spCell, spObs)

\* The rows of its clone.
SPRowsHold ==
    /\ spStep = "redeploy" => spDb = Generation(spCell, 1)
    /\ spStep = "authorize" => spDb.assigned = AssignedIds

SPRunnerInv ==
    /\ spStep \in SPSteps /\ spOrdinal \in 1..16
    /\ SPTrialHolds /\ SPRowsHold
    /\ spStep # "failed" => SPRunHolds

LEMMA SPCellOfOrdinal ==
    ASSUME spOrdinal \in 1..16
    PROVE  spCell \in SPCells /\ SPOrdinal(spCell) = spOrdinal
  BY SPOrdinalIsACell DEF spCell

LEMMA SPRunnerInitially == SPInit => SPRunnerInv
<1> SUFFICES ASSUME SPInit PROVE SPRunnerInv
  OBVIOUS
<1>1. spStep = "begin" /\ spOrdinal = 1
      /\ spRun = [p \in SPPayloads |-> IF p = "provenance" THEN "written" ELSE << >>]
  BY DEF SPInit
<1>2. SPRecorded = {}
  <2>1. \A t \in SPWatched : SPOrdinal(t) \in 1..16
    BY SupportAssumption, SPOrdinalRange
  <2>2. \A t \in SPWatched : ~ (SPOrdinal(t) < spOrdinal)
    BY <1>1, <2>1
  <2> QED
    BY <1>1, <2>2 DEF SPRecorded, SPRunSteps
<1>3. SPRunHolds
  <2>1. \A p \in SPArtifactsOf : spRun[p] = << >>
    BY <1>1 DEF SPArtifactsOf
  <2>2. "provenance" \in SPPayloads
    BY DEF SPPayloads
  <2>3. \A p \in SPArtifactsOf : spRun[p] = [t \in SPRecorded |-> spRun[p][t]]
    BY <1>2, <2>1
  <2> QED
    BY <1>1, <1>2, <2>2, <2>3 DEF SPRunHolds
<1> QED
  BY <1>1, <1>3 DEF SPRunnerInv, SPSteps, SPRunSteps, SPTrialHolds, SPRowsHold

\* The steps of the running trial leave what was gathered to itself.
LEMMA SPGatheredStays ==
    ASSUME SPRunnerInv, spStep \in SPRunSteps, spStep' \in SPRunSteps \cup {"failed"},
           UNCHANGED << spOrdinal, spRun >>
    PROVE  spStep' # "failed" => SPRunHolds'
<1> SUFFICES ASSUME spStep' # "failed" PROVE SPRunHolds'
  OBVIOUS
<1>1. SPRunHolds
  BY DEF SPRunnerInv, SPRunSteps
<1>2. SPRecorded' = SPRecorded
  BY DEF SPRecorded
<1> QED
  BY <1>1, <1>2 DEF SPRunHolds

LEMMA SPBeginKeeps ==
    ASSUME SPRunnerInv, SPBegin
    PROVE  SPRunnerInv'
<1>1. /\ spStep = "begin" /\ spStep' = "redeploy" /\ spDb' = Generation(spCell, 1)
      /\ spObs' = SPBegun(spCell) /\ UNCHANGED << spOrdinal, spRun >>
  BY DEF SPBegin
<1>2. spCell' = spCell
  BY <1>1 DEF spCell
<1>3. SPBeganObs(spObs', spCell)
  BY <1>1 DEF SPBeganObs, SPBegun, SPColumns
<1>4. SPTrialHolds' /\ SPRowsHold'
  BY <1>1, <1>2, <1>3 DEF SPTrialHolds, SPRowsHold, SPRunSteps
<1> QED
  BY <1>1, <1>4, SPGatheredStays DEF SPRunnerInv, SPSteps, SPRunSteps

LEMMA SPRedeployKeeps ==
    ASSUME SPRunnerInv, SPRedeploy
    PROVE  SPRunnerInv'
<1> DEFINE after == IF spCell.sham THEN Generation(spCell, 2) ELSE spDb
           receipt == RedeployReceipt(spCell.sham, spDb.instance, after.instance)
           n == IF spCell.sham THEN 2 ELSE 1
<1>1. /\ spStep = "redeploy" /\ spStep' = "authorize" /\ spDb' = after
      /\ spObs' = [spObs EXCEPT !.generation = after.generation,
                                !.instance = after.instance, !.redeploy = receipt]
      /\ UNCHANGED << spOrdinal, spRun >>
  BY DEF SPRedeploy
<1>2. spCell' = spCell
  BY <1>1 DEF spCell
<1>3. spDb = Generation(spCell, 1) /\ SPBeganObs(spObs, spCell)
  BY <1>1 DEF SPRunnerInv, SPTrialHolds, SPRowsHold, SPRunSteps
<1>4. /\ after.generation = n /\ after.instance = << spCell, n >>
      /\ after.assigned = AssignedIds
      /\ receipt = RedeployReceipt(spCell.sham, << spCell, 1 >>, << spCell, n >>)
  BY <1>3 DEF Generation
<1> HIDE DEF after, receipt, n
<1>5. /\ spObs' = SPColumns(spObs') /\ spObs'.trial = spObs.trial
      /\ spObs'.trace = spObs.trace /\ spObs'.clone = spObs.clone
      /\ spObs'.action = spObs.action /\ spObs'.generation = after.generation
      /\ spObs'.instance = after.instance /\ spObs'.redeploy = receipt
  BY <1>1, <1>3 DEF SPBeganObs, SPColumns
<1>6. SPBeganObs(spObs', spCell)
  BY <1>3, <1>5 DEF SPBeganObs
<1>7. RedeployMatches(spCell, spObs')
  BY <1>4, <1>5, <1>6 DEF RedeployMatches, SPBeganObs, n
<1>8. SPTrialHolds' /\ SPRowsHold'
  BY <1>1, <1>2, <1>4, <1>6, <1>7 DEF SPTrialHolds, SPRowsHold, SPRunSteps
<1> QED
  BY <1>1, <1>8, SPGatheredStays DEF SPRunnerInv, SPSteps, SPRunSteps

LEMMA SPAuthorizeKeeps ==
    ASSUME SPRunnerInv, SPAuthorize
    PROVE  SPRunnerInv'
<1> DEFINE request == RequestReceipt(spCell, RequestedBy(spCell))
           answer == AuthorizationReceipt(spCell, Allowed(spCell, RequestedBy(spCell),
                                                          spDb.assigned))
<1>1. /\ spStep = "authorize" /\ spStep' = "select"
      /\ spObs' = [spObs EXCEPT !.request = request, !.assigned = spDb.assigned,
                                !.authorization = answer]
      /\ UNCHANGED << spOrdinal, spRun >>
  BY DEF SPAuthorize
<1>2. spCell' = spCell
  BY <1>1 DEF spCell
<1>3. spDb.assigned = AssignedIds /\ SPBeganObs(spObs, spCell) /\ RedeployMatches(spCell, spObs)
  BY <1>1 DEF SPRunnerInv, SPTrialHolds, SPRowsHold, SPRunSteps
<1>4. answer = AuthorizationReceipt(spCell, SPAllowed(spCell))
  BY <1>3 DEF SPAllowed
<1>r. request = RequestReceipt(spCell, RequestedBy(spCell))
  OBVIOUS
<1> HIDE DEF answer, request
<1>5. /\ spObs' = SPColumns(spObs') /\ spObs'.trial = spObs.trial
      /\ spObs'.trace = spObs.trace /\ spObs'.clone = spObs.clone
      /\ spObs'.action = spObs.action /\ spObs'.generation = spObs.generation
      /\ spObs'.instance = spObs.instance /\ spObs'.redeploy = spObs.redeploy
      /\ spObs'.request = request /\ spObs'.assigned = spDb.assigned
      /\ spObs'.authorization = answer
  BY <1>1, <1>3 DEF SPBeganObs, SPColumns
<1>6. SPBeganObs(spObs', spCell) /\ RedeployMatches(spCell, spObs')
  BY <1>3, <1>5 DEF SPBeganObs, RedeployMatches
<1>7. SPAskedObs(spObs', spCell)
  BY <1>3, <1>4, <1>5, <1>6, <1>r DEF SPAskedObs, SourceRowsMatch, SPBeganObs
<1>8. SPTrialHolds' /\ SPRowsHold'
  BY <1>1, <1>2, <1>6, <1>7 DEF SPTrialHolds, SPRowsHold, SPRunSteps
<1> QED
  BY <1>1, <1>8, SPGatheredStays DEF SPRunnerInv, SPSteps, SPRunSteps

LEMMA SPSelectKeeps ==
    ASSUME SPRunnerInv, SPSelect
    PROVE  SPRunnerInv'
<1> DEFINE chosen == IF spObs.authorization.allowed THEN spObs.request.requested ELSE {}
<1>1. /\ spStep = "select" /\ spStep' = "guard"
      /\ spObs' = [spObs EXCEPT !.selected = chosen]
      /\ UNCHANGED << spOrdinal, spRun >>
  BY DEF SPSelect
<1>2. spCell' = spCell
  BY <1>1 DEF spCell
<1>3. SPBeganObs(spObs, spCell) /\ RedeployMatches(spCell, spObs) /\ SPAskedObs(spObs, spCell)
  BY <1>1 DEF SPRunnerInv, SPTrialHolds, SPRunSteps
<1>4. chosen = SPSelected(spCell)
  BY <1>3 DEF SPAskedObs, SourceRowsMatch, AuthorizationReceipt, RequestReceipt, SPSelected
<1> HIDE DEF chosen
<1>5. /\ spObs' = SPColumns(spObs') /\ spObs'.trial = spObs.trial
      /\ spObs'.trace = spObs.trace /\ spObs'.clone = spObs.clone
      /\ spObs'.action = spObs.action /\ spObs'.generation = spObs.generation
      /\ spObs'.instance = spObs.instance /\ spObs'.redeploy = spObs.redeploy
      /\ spObs'.request = spObs.request /\ spObs'.assigned = spObs.assigned
      /\ spObs'.authorization = spObs.authorization /\ spObs'.selected = chosen
  BY <1>1, <1>3 DEF SPBeganObs, SPColumns
<1>6. SPBeganObs(spObs', spCell) /\ RedeployMatches(spCell, spObs')
      /\ SPAskedObs(spObs', spCell)
  BY <1>3, <1>5 DEF SPBeganObs, RedeployMatches, SPAskedObs, SourceRowsMatch
<1>7. SelectionMatches(spCell, spObs')
  BY <1>4, <1>5, <1>6 DEF SelectionMatches, SPAskedObs, SPAllowed, SPSelected
<1>8. SPTrialHolds' /\ SPRowsHold'
  BY <1>1, <1>2, <1>6, <1>7 DEF SPTrialHolds, SPRowsHold, SPRunSteps
<1> QED
  BY <1>1, <1>8, SPGatheredStays DEF SPRunnerInv, SPSteps, SPRunSteps

LEMMA SPGuardKeeps ==
    ASSUME SPRunnerInv, SPGuard
    PROVE  SPRunnerInv'
<1> DEFINE allowed == spObs.authorization.allowed
           count == Cardinality(spObs.selected)
           receipt == GuardReceipt(spCell, allowed, count, GuardDecision(spCell, allowed, count))
<1>1. /\ spStep = "guard" /\ spStep' = "deliver"
      /\ spObs' = [spObs EXCEPT !.guard = receipt]
      /\ UNCHANGED << spOrdinal, spRun >>
  BY DEF SPGuard
<1>2. spCell' = spCell
  BY <1>1 DEF spCell
<1>3. /\ SPBeganObs(spObs, spCell) /\ RedeployMatches(spCell, spObs)
      /\ SPAskedObs(spObs, spCell) /\ SelectionMatches(spCell, spObs)
  BY <1>1 DEF SPRunnerInv, SPTrialHolds, SPRunSteps
<1>4. allowed = SPAllowed(spCell) /\ spObs.selected = SPSelected(spCell)
  BY <1>3 DEF SelectionMatches, AuthorizationReceipt, SPSelected, SPAllowed
<1>5. receipt = GuardReceipt(spCell, SPAllowed(spCell), Cardinality(SPSelected(spCell)),
                    GuardDecision(spCell, SPAllowed(spCell), Cardinality(SPSelected(spCell))))
  BY <1>4
<1> HIDE DEF receipt, allowed, count
<1>6. /\ spObs' = SPColumns(spObs') /\ spObs'.trial = spObs.trial
      /\ spObs'.trace = spObs.trace /\ spObs'.clone = spObs.clone
      /\ spObs'.action = spObs.action /\ spObs'.generation = spObs.generation
      /\ spObs'.instance = spObs.instance /\ spObs'.redeploy = spObs.redeploy
      /\ spObs'.request = spObs.request /\ spObs'.assigned = spObs.assigned
      /\ spObs'.authorization = spObs.authorization /\ spObs'.selected = spObs.selected
      /\ spObs'.guard = receipt
  BY <1>1, <1>3 DEF SPBeganObs, SPColumns
<1>7. /\ SPBeganObs(spObs', spCell) /\ RedeployMatches(spCell, spObs')
      /\ SPAskedObs(spObs', spCell) /\ SelectionMatches(spCell, spObs')
  BY <1>3, <1>6 DEF SPBeganObs, RedeployMatches, SPAskedObs, SourceRowsMatch, SelectionMatches
<1>8. SPGuardObs(spObs', spCell)
  BY <1>5, <1>6 DEF SPGuardObs
<1>9. SPTrialHolds' /\ SPRowsHold'
  BY <1>1, <1>2, <1>7, <1>8 DEF SPTrialHolds, SPRowsHold, SPRunSteps
<1> QED
  BY <1>1, <1>9, SPGatheredStays DEF SPRunnerInv, SPSteps, SPRunSteps

LEMMA SPDeliverKeeps ==
    ASSUME SPRunnerInv, SPDeliver
    PROVE  SPRunnerInv'
<1> DEFINE delivered == IF spObs.guard.decision = "allow" THEN spObs.selected ELSE {}
<1>1. /\ spStep = "deliver" /\ spStep' = "artifacts"
      /\ spObs' = [spObs EXCEPT !.delivered = delivered, !.received = delivered]
      /\ UNCHANGED << spOrdinal, spRun >>
  BY DEF SPDeliver, WithReceipts
<1>2. spCell' = spCell
  BY <1>1 DEF spCell
<1>3. /\ SPBeganObs(spObs, spCell) /\ RedeployMatches(spCell, spObs)
      /\ SPAskedObs(spObs, spCell) /\ SelectionMatches(spCell, spObs)
      /\ SPGuardObs(spObs, spCell)
  BY <1>1 DEF SPRunnerInv, SPTrialHolds, SPRunSteps
<1>4. PICK d : d = delivered
  OBVIOUS
<1>5. /\ spObs' = SPColumns(spObs') /\ spObs'.trial = spObs.trial
      /\ spObs'.trace = spObs.trace /\ spObs'.clone = spObs.clone
      /\ spObs'.action = spObs.action /\ spObs'.generation = spObs.generation
      /\ spObs'.instance = spObs.instance /\ spObs'.redeploy = spObs.redeploy
      /\ spObs'.request = spObs.request /\ spObs'.assigned = spObs.assigned
      /\ spObs'.authorization = spObs.authorization /\ spObs'.selected = spObs.selected
      /\ spObs'.guard = spObs.guard /\ spObs'.delivered = d /\ spObs'.received = d
  <2>1. spObs' = [spObs EXCEPT !.delivered = d, !.received = d]
    BY <1>1, <1>4
  <2> QED
    BY <1>3, <2>1 DEF SPBeganObs, SPColumns
<1>6. /\ SPBeganObs(spObs', spCell) /\ RedeployMatches(spCell, spObs')
      /\ SPAskedObs(spObs', spCell) /\ SelectionMatches(spCell, spObs')
      /\ SPGuardObs(spObs', spCell)
  BY <1>3, <1>5 DEF SPBeganObs, RedeployMatches, SPAskedObs, SourceRowsMatch, SelectionMatches,
     SPGuardObs
<1>7. DeliveryMatches(spCell, spObs')
  <2> DEFINE allowed == SPAllowed(spCell)
             chosen == SPSelected(spCell)
             block == allowed /\ spCell.compensator = "enforce" /\ Cardinality(chosen) >= 10
             decision == IF ~ allowed THEN "not_reached"
                         ELSE IF block THEN "block" ELSE "allow"
  <2>1. spObs.selected = chosen
    BY <1>3 DEF SelectionMatches, SPSelected, SPAllowed
  <2>2. GuardDecision(spCell, allowed, Cardinality(chosen)) = decision
    BY DEF GuardDecision, BulkRecords
  <2>3. spObs.guard = GuardReceipt(spCell, allowed, Cardinality(chosen), decision)
    BY <1>3, <2>2 DEF SPGuardObs
  <2>4. spObs.guard.decision = decision
    BY <2>3 DEF GuardReceipt
  <2>5. (decision = "allow") = ~ (~ allowed \/ block)
    BY DEF decision
  <2>6. d = IF ~ allowed \/ block THEN {} ELSE chosen
    <3> HIDE DEF allowed, block, chosen, decision
    <3> QED
      BY <1>4, <2>1, <2>4, <2>5
  <2> QED
    BY <1>5, <2>1, <2>3, <2>6 DEF DeliveryMatches, SPAllowed
<1>8. SPTrialHolds' /\ SPRowsHold'
  BY <1>1, <1>2, <1>6, <1>7 DEF SPTrialHolds, SPRowsHold, SPRunSteps
<1> QED
  BY <1>1, <1>8, SPGatheredStays DEF SPRunnerInv, SPSteps, SPRunSteps

\* The gathered lines, with those of the trial that just ended.
LEMMA SPArtifactsKeep ==
    ASSUME SPRunnerInv, SPArtifacts
    PROVE  SPRunnerInv'
<1> DEFINE line == SupportLine(spCell, spObs, spClock)
           old == SPRecorded
<1>1. /\ spStep = "artifacts"
      /\ spRun' = [p \in SPPayloads |->
                     IF p = "provenance" \/ spCell \notin SPWatched THEN spRun[p]
                     ELSE [t \in DOMAIN spRun[p] \cup {spCell} |->
                             IF t = spCell THEN line[p] ELSE spRun[p][t]]]
      /\ spStep' = IF spOrdinal < 16 THEN "begin" ELSE "window"
      /\ spOrdinal' = IF spOrdinal < 16 THEN spOrdinal + 1 ELSE spOrdinal
  BY DEF SPArtifacts
<1>2. spOrdinal \in 1..16 /\ spCell \in SPCells /\ SPOrdinal(spCell) = spOrdinal
  BY SPCellOfOrdinal DEF SPRunnerInv
<1>3. SPBeganObs(spObs, spCell) /\ RowsValid(spCell, spObs)
  BY <1>1 DEF SPRunnerInv, SPTrialHolds, RowsValid, SPAskedObs, SPRunSteps
<1>4. line["observations"] = spObs
  BY DEF SupportLine
<1>5. PICK clock : line = SupportLine(spCell, spObs, clock)
  OBVIOUS
<1> HIDE DEF line
<1>6. spStep' \in {"begin", "window"} /\ spOrdinal' \in 1..16
  BY <1>1, <1>2
<1>7. SPTrialHolds' /\ SPRowsHold'
  BY <1>6 DEF SPTrialHolds, SPRowsHold, SPRunSteps
<1>8. SPWatched \subseteq SPCells /\ \A t \in SPWatched : SPOrdinal(t) \in 1..16
  BY SupportAssumption, SPOrdinalRange
<1>9. old = {t \in SPWatched : SPOrdinal(t) < spOrdinal}
  BY <1>1 DEF SPRecorded, SPRunSteps
<1>10. SPRecorded' = {t \in SPWatched : SPOrdinal(t) <= spOrdinal}
  <2>1. CASE spOrdinal < 16
    <3>1. SPRecorded' = {t \in SPWatched : SPOrdinal(t) < spOrdinal + 1}
      BY <1>1, <2>1 DEF SPRecorded, SPRunSteps
    <3> QED
      BY <1>2, <1>8, <3>1
  <2>2. CASE ~ (spOrdinal < 16)
    <3>1. SPRecorded' = SPWatched
      BY <1>1, <2>2 DEF SPRecorded, SPRunSteps
    <3>2. spOrdinal = 16
      BY <1>2, <2>2
    <3> QED
      BY <1>8, <3>1, <3>2
  <2> QED
    BY <2>1, <2>2
<1>11. SPRecorded' = IF spCell \in SPWatched THEN old \cup {spCell} ELSE old
  <2>1. \A t \in SPWatched : SPOrdinal(t) = spOrdinal <=> t = spCell
    BY <1>2, <1>8, SPOrdinalIsOne
  <2>2. \A t \in SPWatched : SPOrdinal(t) <= spOrdinal <=> SPOrdinal(t) < spOrdinal \/ t = spCell
    BY <1>2, <1>8, <2>1
  <2> QED
    BY <1>9, <1>10, <2>2
<1> HIDE DEF old
<1>12. /\ spRun = [p \in SPPayloads |-> spRun[p]] /\ spRun["provenance"] = "written"
       /\ \A p \in SPArtifactsOf : spRun[p] = [t \in old |-> spRun[p][t]]
       /\ \A t \in old : SPLineHolds(spRun, t)
  BY <1>1 DEF SPRunnerInv, SPRunHolds, old
<1>13. SPArtifactsOf \subseteq SPPayloads /\ "provenance" \notin SPArtifactsOf
       /\ "observations" \in SPArtifactsOf /\ "provenance" \in SPPayloads
  BY DEF SPArtifactsOf, SPPayloads
<1>14. spCell \notin old
  BY <1>2, <1>9
<1>15. SPRunHolds'
  <2>1. CASE spCell \notin SPWatched
    <3>1. spRun' = spRun /\ SPRecorded' = old
      BY <1>1, <1>11, <1>12, <2>1
    <3> QED
      BY <1>12, <3>1 DEF SPRunHolds
  <2>2. CASE spCell \in SPWatched
    <3>1. SPRecorded' = old \cup {spCell}
      BY <1>11, <2>2
    <3>2. \A p \in SPArtifactsOf :
             spRun'[p] = [t \in old \cup {spCell} |-> IF t = spCell THEN line[p]
                                                      ELSE spRun[p][t]]
      <4> SUFFICES ASSUME NEW p \in SPArtifactsOf
                   PROVE  spRun'[p] = [t \in old \cup {spCell} |-> IF t = spCell THEN line[p]
                                                                   ELSE spRun[p][t]]
        OBVIOUS
      <4>1. DOMAIN spRun[p] = old
        BY <1>12
      <4>2. spRun'[p] = [t \in DOMAIN spRun[p] \cup {spCell} |->
                            IF t = spCell THEN line[p] ELSE spRun[p][t]]
        BY <1>1, <1>13, <2>2
      <4> QED
        BY <4>1, <4>2
    <3>3. \A p \in SPArtifactsOf :
             /\ spRun'[p] = [t \in SPRecorded' |-> spRun'[p][t]]
             /\ spRun'[p][spCell] = line[p]
             /\ \A t \in old : spRun'[p][t] = spRun[p][t]
      <4> SUFFICES ASSUME NEW p \in SPArtifactsOf
                   PROVE  /\ spRun'[p] = [t \in SPRecorded' |-> spRun'[p][t]]
                          /\ spRun'[p][spCell] = line[p]
                          /\ \A t \in old : spRun'[p][t] = spRun[p][t]
        OBVIOUS
      <4>1. spRun'[p] = [t \in old \cup {spCell} |-> IF t = spCell THEN line[p]
                                                     ELSE spRun[p][t]]
        BY <3>2
      <4> QED
        BY <1>14, <3>1, <4>1
    <3>4. \A t \in old : SPLineHolds(spRun', t)
      <4> SUFFICES ASSUME NEW t \in old PROVE SPLineHolds(spRun', t)
        OBVIOUS
      <4>1. \A p \in SPArtifactsOf : spRun'[p][t] = spRun[p][t]
        BY <3>3
      <4>2. spRun'["observations"][t] = spRun["observations"][t]
        BY <1>13, <4>1
      <4>3. SPLineHolds(spRun, t)
        BY <1>12
      <4> QED
        BY <4>1, <4>2, <4>3 DEF SPLineHolds
    <3>5. SPLineHolds(spRun', spCell)
      <4>1. spRun'["observations"][spCell] = spObs
        BY <1>4, <1>13, <3>3
      <4>2. \A p \in SPArtifactsOf : spRun'[p][spCell] = SupportLine(spCell, spObs, clock)[p]
        BY <1>5, <3>3
      <4> QED
        BY <1>3, <4>1, <4>2 DEF SPLineHolds
    <3>6. spRun' = [p \in SPPayloads |-> spRun'[p]] /\ spRun'["provenance"] = "written"
      BY <1>1, <1>12, <1>13
    <3>7. \A t \in SPRecorded' : SPLineHolds(spRun', t)
      BY <3>1, <3>4, <3>5
    <3> QED
      BY <3>3, <3>6, <3>7 DEF SPRunHolds, SPLineHolds
  <2> QED
    BY <2>1, <2>2
<1> QED
  BY <1>6, <1>7, <1>15 DEF SPRunnerInv, SPSteps, SPRunSteps

\* Once the runner is done, what it gathered stays.
LEMMA SPRunnerDone ==
    ASSUME SPRunnerInv, spStep \notin SPRunSteps, spStep # "failed",
           spStep' \in SPBundleSteps \cup {"failed"}, UNCHANGED spRunner
    PROVE  SPRunnerInv'
<1>1. UNCHANGED << spOrdinal, spRun >>
  BY DEF spRunner
<1>2. SPTrialHolds' /\ SPRowsHold'
  BY DEF SPTrialHolds, SPRowsHold, SPBundleSteps, SPRunSteps
<1>3. SPRecorded' = SPRecorded
  BY DEF SPRecorded, SPBundleSteps, SPRunSteps
<1>4. spStep' # "failed" => SPRunHolds'
  BY <1>1, <1>3 DEF SPRunnerInv, SPRunHolds
<1> QED
  BY <1>1, <1>2, <1>4 DEF SPRunnerInv, SPSteps

LEMMA SPRunnerKeeps ==
    ASSUME SPRunnerInv, [SPNext]_spVars
    PROVE  SPRunnerInv'
<1>1. CASE UNCHANGED spVars
  <2>1. UNCHANGED << spStep, spOrdinal, spDb, spObs, spRun >>
    BY <1>1 DEF spVars, spRunner
  <2>2. spCell' = spCell /\ SPRecorded' = SPRecorded
    BY <2>1 DEF spCell, SPRecorded
  <2> QED
    BY <2>1, <2>2 DEF SPRunnerInv, SPTrialHolds, SPRowsHold, SPRunHolds
<1>2. CASE SPStalled
  <2>1. spStep' = "failed" /\ UNCHANGED spOrdinal
    BY <1>2 DEF SPStalled, spRunner
  <2> QED
    BY <2>1 DEF SPRunnerInv, SPSteps, SPRunSteps, SPTrialHolds, SPRowsHold
<1>3. CASE SPWrite \/ SPEdit \/ SPSwap \/ SPVerify \/ SPRead \/ SPCheck \/ SPFinal
  <2>1. /\ spStep \in SPBundleSteps \cup {"window"} /\ UNCHANGED spRunner
        /\ spStep' \in SPBundleSteps \cup {"failed"}
    BY <1>3 DEF SPWrite, SPEdit, SPSwap, SPVerify, SPRead, SPCheck, SPFinal, SPBundleSteps
  <2>2. spStep \notin SPRunSteps /\ spStep # "failed"
    BY <2>1 DEF SPRunSteps, SPBundleSteps
  <2> QED
    BY <2>1, <2>2, SPRunnerDone
<1> QED
  BY <1>1, <1>2, <1>3, SPBeginKeeps, SPRedeployKeeps, SPAuthorizeKeeps, SPSelectKeeps,
     SPGuardKeeps, SPDeliverKeeps, SPArtifactsKeep DEF SPNext
----------------------------------------------------------------------------
(* The repository of the support experiment *)

\* A directory with all of its payloads.
Whole(d) == d = [p \in SPPayloads |-> d[p]]

SPReadingSteps == {"verified", "checked", "admitted"}

\* The directory: whole whatever was edited, and the runner's if nothing was.
SPDirectoryHolds ==
    /\ spEdits \in Nat
    /\ spStep \in SPBundleSteps =>
         Whole(spDisk) /\ Whole(spManifest)
         /\ (spEdits = 0 => spDisk = spRun /\ spManifest = spRun)
    /\ spStep \in SPReadingSteps => Whole(spPinned) /\ (spEdits = 0 => spPinned = spRun)

\* The payloads read so far are those of the pinned manifest, in the order of reading.
SPLoadedHolds ==
    /\ spStep \in SPSteps \ (SPReadingSteps \cup {"refused"}) => spLoaded = << >>
    /\ spStep \in SPReadingSteps =>
         LET D == DOMAIN spLoaded IN
         /\ IsFiniteSet(D) /\ Cardinality(D) \in 0..6
         /\ D = {SPReadOrder[i] : i \in 1..Cardinality(D)}
         /\ spLoaded = [q \in D |-> spPinned[q]]

SPCheckedHolds ==
    spStep \in {"checked", "admitted"} =>
        spLoaded = spPinned /\ \A t \in SPWatched : SupportTrialValid(t)

SPRefusedHolds ==
    /\ spVerifier \in {"written", "changed"}
    /\ spStep = "refused" /\ spEdits = 0 => spVerifier = "changed"

SPReaderInv == SPDirectoryHolds /\ SPLoadedHolds /\ SPCheckedHolds /\ SPRefusedHolds

LEMMA SPReaderInitially == SPInit => SPReaderInv
<1> SUFFICES ASSUME SPInit PROVE SPReaderInv
  OBVIOUS
<1>1. spStep = "begin" /\ spEdits = 0 /\ spLoaded = << >> /\ spVerifier \in {"written", "changed"}
  BY DEF SPInit
<1> QED
  BY <1>1 DEF SPReaderInv, SPDirectoryHolds, SPLoadedHolds, SPCheckedHolds, SPRefusedHolds,
     SPBundleSteps, SPReadingSteps

LEMMA SPRunnerStepsKeepReader ==
    ASSUME SPRunnerInv, SPReaderInv,
           \/ SPBegin \/ SPRedeploy \/ SPAuthorize \/ SPSelect \/ SPGuard \/ SPDeliver
           \/ SPArtifacts \/ SPStalled
    PROVE  SPReaderInv'
<1>1. UNCHANGED << spEdits, spLoaded, spVerifier >>
  BY DEF SPBegin, SPRedeploy, SPAuthorize, SPSelect, SPGuard, SPDeliver, SPArtifacts, SPStalled,
     spBundle, spReader
<1>2. spStep \notin SPBundleSteps /\ spStep' \notin SPBundleSteps /\ spStep \in SPSteps
  BY DEF SPBegin, SPRedeploy, SPAuthorize, SPSelect, SPGuard, SPDeliver, SPArtifacts, SPStalled,
     SPBundleSteps, SPRunnerInv
<1>3. spLoaded' = << >> /\ spEdits' \in Nat /\ spVerifier' \in {"written", "changed"}
  BY <1>1, <1>2 DEF SPReaderInv, SPLoadedHolds, SPDirectoryHolds, SPRefusedHolds, SPReadingSteps,
     SPBundleSteps
<1> QED
  BY <1>2, <1>3 DEF SPReaderInv, SPDirectoryHolds, SPLoadedHolds, SPCheckedHolds,
     SPRefusedHolds, SPBundleSteps, SPReadingSteps

LEMMA SPWriteKeepsReader ==
    ASSUME SPRunnerInv, SPReaderInv, SPWrite
    PROVE  SPReaderInv'
<1>1. /\ spStep = "window" /\ spStep' \in {"failed", "written"}
      /\ spStep' = "written" => spDisk' = spRun /\ spManifest' = spRun
      /\ UNCHANGED << spRun, spEdits, spVerifier, spLoaded >>
  BY DEF SPWrite, spRunner, spReader
<1>2. Whole(spRun)
  BY <1>1 DEF SPRunnerInv, SPRunHolds, Whole
<1>3. spLoaded' = << >> /\ spEdits' \in Nat /\ spVerifier' \in {"written", "changed"}
  BY <1>1 DEF SPReaderInv, SPLoadedHolds, SPDirectoryHolds, SPRefusedHolds, SPReadingSteps,
     SPBundleSteps, SPSteps
<1>4. SPDirectoryHolds'
  BY <1>1, <1>2, <1>3 DEF SPDirectoryHolds, SPBundleSteps, SPReadingSteps, Whole
<1> QED
  BY <1>1, <1>3, <1>4 DEF SPReaderInv, SPLoadedHolds, SPCheckedHolds, SPRefusedHolds,
     SPReadingSteps

LEMMA WholeEdited ==
    ASSUME NEW d, Whole(d), NEW p \in SPPayloads, NEW v
    PROVE  Whole([d EXCEPT ![p] = v])
  BY DEF Whole

\* However the directory is edited, it stays whole.
LEMMA SupportEditsOfAreWhole ==
    ASSUME Whole(spDisk), NEW t \in SPWatched, NEW e \in SupportEditsOf(t)
    PROVE  Whole(e)
<1> DEFINE altered == AlteredRows(spDisk["observations"][t])
           borrowed == {[spDisk["observations"][u] EXCEPT !.trial = t, !.trace = t, !.clone = t]
                        : u \in SPWatched \ {t}}
           Line(o) == SupportLine(t, o, spDisk["attestations"][t].began)
           Rebuilt(o) == [p \in SPPayloads |->
                            IF p = "provenance" THEN spDisk[p]
                            ELSE [spDisk[p] EXCEPT ![t] = Line(o)[p]]]
<1>1. {"observations", "stages", "attestations", "trials"} \subseteq SPPayloads
  BY DEF SPPayloads
<1>2. CASE \E o \in altered : e = [spDisk EXCEPT !["observations"][t] = o]
  <2>1. PICK v : e = [spDisk EXCEPT !["observations"] = v]
    BY <1>2
  <2> QED
    BY <1>1, <2>1, WholeEdited
<1>3. CASE \E o \in altered \cup borrowed : e = Rebuilt(o)
  <2>1. PICK f : e = [p \in SPPayloads |-> IF p = "provenance" THEN spDisk[p]
                                           ELSE [spDisk[p] EXCEPT ![t] = f[p]]]
    <3> HIDE DEF altered, borrowed, Line
    <3>1. PICK o \in altered \cup borrowed : e = Rebuilt(o)
      BY <1>3
    <3> QED
      BY <3>1
  <2> QED
    BY <2>1 DEF Whole
<1>4. CASE e = [spDisk EXCEPT !["stages"][t]["outcome"].payload.deliveredOutside = 10 - @]
  <2>1. PICK v : e = [spDisk EXCEPT !["stages"] = v]
    BY <1>4
  <2> QED
    BY <1>1, <2>1, WholeEdited
<1>5. CASE e = [spDisk EXCEPT !["stages"][t]["target"].payload.selectedOutside = 10 - @]
  <2>1. PICK v : e = [spDisk EXCEPT !["stages"] = v]
    BY <1>5
  <2> QED
    BY <1>1, <2>1, WholeEdited
<1>6. CASE e = [spDisk EXCEPT !["attestations"][t].selector.target = "assigned"]
  <2>1. PICK v : e = [spDisk EXCEPT !["attestations"] = v]
    BY <1>6
  <2> QED
    BY <1>1, <2>1, WholeEdited
<1>7. CASE e = [spDisk EXCEPT !["trials"][t].events["compensator"] = [skippedBy |-> "target"]]
  <2>1. PICK v : e = [spDisk EXCEPT !["trials"] = v]
    BY <1>7
  <2> QED
    BY <1>1, <2>1, WholeEdited
<1>8. \/ \E o \in altered : e = [spDisk EXCEPT !["observations"][t] = o]
      \/ \E o \in altered \cup borrowed : e = Rebuilt(o)
      \/ e = [spDisk EXCEPT !["stages"][t]["outcome"].payload.deliveredOutside = 10 - @]
      \/ e = [spDisk EXCEPT !["stages"][t]["target"].payload.selectedOutside = 10 - @]
      \/ e = [spDisk EXCEPT !["attestations"][t].selector.target = "assigned"]
      \/ e = [spDisk EXCEPT !["trials"][t].events["compensator"] = [skippedBy |-> "target"]]
  BY Zenon DEF SupportEditsOf
<1> HIDE DEF altered, borrowed, Rebuilt
<1> QED
  BY <1>2, <1>3, <1>4, <1>5, <1>6, <1>7, <1>8, Zenon

LEMMA SupportEditsAreWhole ==
    ASSUME Whole(spDisk), NEW e \in SupportEdits
    PROVE  Whole(e)
<1>1. CASE \E t \in SPWatched : e \in SupportEditsOf(t)
  BY <1>1, SupportEditsOfAreWhole
<1>2. CASE e = [spDisk EXCEPT !["provenance"] = "changed"]
  <2>1. "provenance" \in SPPayloads
    BY DEF SPPayloads
  <2> QED
    BY <1>2, <2>1, WholeEdited
<1> QED
  BY <1>1, <1>2, Zenon DEF SupportEdits

LEMMA SPEditKeepsReader ==
    ASSUME SPRunnerInv, SPReaderInv, SPEdit
    PROVE  SPReaderInv'
<1>1. /\ spStep = "written" /\ spStep' = "written" /\ spDisk' \in SupportEdits
      /\ spManifest' \in {spManifest, spDisk'} /\ spEdits' = spEdits + 1
      /\ UNCHANGED << spVerifier, spLoaded >>
  BY DEF SPEdit, spReader
<1>2. spEdits \in Nat /\ Whole(spDisk) /\ Whole(spManifest)
  BY <1>1 DEF SPReaderInv, SPDirectoryHolds, SPBundleSteps
<1>3. Whole(spDisk')
  BY <1>1, <1>2, SupportEditsAreWhole
<1>4. Whole(spManifest') /\ spEdits' \in Nat /\ spEdits' # 0
  BY <1>1, <1>2, <1>3
<1>5. SPDirectoryHolds'
  BY <1>1, <1>3, <1>4 DEF SPDirectoryHolds, SPReadingSteps, Whole
<1>6. SPLoadedHolds'
  BY <1>1 DEF SPReaderInv, SPLoadedHolds, SPReadingSteps, SPSteps, SPBundleSteps
<1> QED
  BY <1>1, <1>5, <1>6 DEF SPReaderInv, SPCheckedHolds, SPRefusedHolds

LEMMA SupportValidStays ==
    ASSUME UNCHANGED spLoaded
    PROVE  \A t \in SPWatched : SupportTrialValid(t)' = SupportTrialValid(t)
  BY DEF SupportTrialValid

LEMMA SPSwapKeepsReader ==
    ASSUME SPRunnerInv, SPReaderInv, SPSwap
    PROVE  SPReaderInv'
<1>1. /\ spStep \in {"verified", "checked"}
      /\ \E p \in SPPayloads : spDisk' \in {[spDisk EXCEPT ![p] = spRun[p]],
                                           [spDisk EXCEPT ![p] = spManifest[p]]}
      /\ UNCHANGED << spStep, spRun, spManifest, spEdits, spVerifier, spPinned, spLoaded >>
  BY DEF SPSwap, spReader, spRunner
<1>2. /\ Whole(spDisk) /\ Whole(spManifest)
      /\ spEdits = 0 => spDisk = spRun /\ spManifest = spRun
  BY <1>1 DEF SPReaderInv, SPDirectoryHolds, SPBundleSteps
<1>3. Whole(spDisk')
  BY <1>1, <1>2, WholeEdited
<1>4. spEdits = 0 => spDisk' = spRun
  BY <1>1, <1>2 DEF Whole
<1>5. SPDirectoryHolds'
  BY <1>1, <1>2, <1>3, <1>4 DEF SPReaderInv, SPDirectoryHolds, Whole
<1>6. SPLoadedHolds'
  BY <1>1 DEF SPReaderInv, SPLoadedHolds
<1>7. SPCheckedHolds'
  BY <1>1, SupportValidStays DEF SPReaderInv, SPCheckedHolds
<1> QED
  BY <1>1, <1>5, <1>6, <1>7 DEF SPReaderInv, SPRefusedHolds

LEMMA SPVerifyKeepsReader ==
    ASSUME SPRunnerInv, SPReaderInv, SPVerify
    PROVE  SPReaderInv'
<1>1. /\ spStep = "written" /\ spStep' = IF spDisk = spManifest THEN "verified" ELSE "refused"
      /\ spPinned' = spManifest
      /\ UNCHANGED << spDisk, spManifest, spEdits, spRun, spVerifier, spLoaded >>
  BY DEF SPVerify, spRunner, spBundle
<1>2. /\ Whole(spDisk) /\ Whole(spManifest) /\ spEdits \in Nat
      /\ spEdits = 0 => spDisk = spRun /\ spManifest = spRun
  BY <1>1 DEF SPReaderInv, SPDirectoryHolds, SPBundleSteps
<1>3. spStep' = "refused" => spEdits # 0
  BY <1>1, <1>2
<1>4. SPDirectoryHolds'
  BY <1>1, <1>2 DEF SPDirectoryHolds, Whole
<1>5. SPLoadedHolds'
  <2>1. spLoaded' = << >>
    BY <1>1 DEF SPReaderInv, SPLoadedHolds, SPReadingSteps, SPSteps, SPBundleSteps
  <2>2. DOMAIN spLoaded' = {}
    BY <2>1
  <2>3. IsFiniteSet({}) /\ Cardinality({}) = 0
    BY FS_EmptySet
  <2>4. {} = {SPReadOrder[i] : i \in 1..0}
    OBVIOUS
  <2>5. spLoaded' = [q \in {} |-> spPinned'[q]]
    BY <2>1
  <2> QED
    BY <1>1, <2>1, <2>2, <2>3, <2>4, <2>5 DEF SPLoadedHolds, SPReadingSteps
<1> QED
  BY <1>1, <1>3, <1>4, <1>5 DEF SPReaderInv, SPCheckedHolds, SPRefusedHolds

LEMMA SPOrderOfReading ==
    /\ Len(SPReadOrder) = 6
    /\ \A i, j \in 1..6 : SPReadOrder[i] = SPReadOrder[j] => i = j
    /\ {SPReadOrder[i] : i \in 1..6} = SPPayloads
<1>1. Len(SPReadOrder) = 6
  BY DEF SPReadOrder
<1>2. /\ SPReadOrder[1] = "provenance" /\ SPReadOrder[2] = "observations"
      /\ SPReadOrder[3] = "stages" /\ SPReadOrder[4] = "attestations"
      /\ SPReadOrder[5] = "cleanups" /\ SPReadOrder[6] = "trials"
  BY DEF SPReadOrder
<1>3. \A i \in 1..6 : i = 1 \/ i = 2 \/ i = 3 \/ i = 4 \/ i = 5 \/ i = 6
  OBVIOUS
<1>4. \A i \in 1..6 : SPReadOrder[i] \in SPPayloads
  BY <1>2, <1>3 DEF SPPayloads
<1>5. \A i, j \in 1..6 : SPReadOrder[i] = SPReadOrder[j] => i = j
  BY <1>2, <1>3
<1>6. SPPayloads \subseteq {SPReadOrder[i] : i \in 1..6}
  BY <1>2 DEF SPPayloads
<1> QED
  BY <1>1, <1>4, <1>5, <1>6

LEMMA SPReadNext ==
    ASSUME NEW D, IsFiniteSet(D), Cardinality(D) \in 0..5,
           D = {SPReadOrder[i] : i \in 1..Cardinality(D)}
    PROVE  LET E == D \cup {SPReadOrder[Cardinality(D) + 1]}
           IN /\ IsFiniteSet(E) /\ Cardinality(E) = Cardinality(D) + 1
              /\ E = {SPReadOrder[i] : i \in 1..Cardinality(E)}
<1> DEFINE k == Cardinality(D)
           p == SPReadOrder[k + 1]
           E == D \cup {p}
<1>1. k \in 0..5 /\ k + 1 \in 1..6
  OBVIOUS
<1> HIDE DEF k
<1>2. D = {SPReadOrder[i] : i \in 1..k}
  BY DEF k
<1>3. p \notin D
  <2>1. \A i \in 1..k : i \in 1..6 /\ i # k + 1
    BY <1>1
  <2>2. \A i \in 1..k : SPReadOrder[i] # p
    BY <1>1, <2>1, SPOrderOfReading
  <2> QED
    BY <1>2, <2>2
<1>4. IsFiniteSet(E) /\ Cardinality(E) = k + 1
  BY <1>3, FS_AddElement DEF k
<1>5. 1..(k + 1) = (1..k) \cup {k + 1}
  BY <1>1
<1>6. E = {SPReadOrder[i] : i \in 1..(k + 1)}
  BY <1>2, <1>5
<1> QED
  BY <1>4, <1>6 DEF k

LEMMA SPReadKeepsReader ==
    ASSUME SPRunnerInv, SPReaderInv, SPRead
    PROVE  SPReaderInv'
<1> DEFINE D == DOMAIN spLoaded
           p == SPReadOrder[Cardinality(D) + 1]
<1>1. /\ spStep = "verified" /\ Cardinality(D) < Len(SPReadOrder)
      /\ \/ /\ spStep' = "verified" /\ spDisk[p] = spPinned[p]
            /\ spLoaded' = [q \in D \cup {p} |-> IF q = p THEN spDisk[p] ELSE spLoaded[q]]
         \/ /\ spStep' = "refused"
            /\ ~ (spDisk[p] = spPinned[p] /\ (p = "provenance" => spDisk[p] = spVerifier))
      /\ UNCHANGED << spDisk, spManifest, spEdits, spRun, spVerifier, spPinned >>
  BY DEF SPRead, spRunner, spBundle
<1>2. /\ Whole(spDisk) /\ Whole(spManifest) /\ Whole(spPinned) /\ spEdits \in Nat
      /\ spEdits = 0 => spDisk = spRun /\ spManifest = spRun /\ spPinned = spRun
  BY <1>1 DEF SPReaderInv, SPDirectoryHolds, SPBundleSteps, SPReadingSteps
<1>3. SPDirectoryHolds'
  BY <1>1, <1>2 DEF SPDirectoryHolds, Whole
<1>4. /\ IsFiniteSet(D) /\ Cardinality(D) \in 0..6
      /\ D = {SPReadOrder[i] : i \in 1..Cardinality(D)}
      /\ spLoaded = [q \in D |-> spPinned[q]]
  BY <1>1 DEF SPReaderInv, SPLoadedHolds, SPReadingSteps
<1>5. Cardinality(D) \in 0..5
  BY <1>1, <1>4, SPOrderOfReading
<1>6. CASE spStep' = "verified"
  <2>1. /\ spDisk[p] = spPinned[p]
        /\ spLoaded' = [q \in D \cup {p} |-> IF q = p THEN spDisk[p] ELSE spLoaded[q]]
    BY <1>1, <1>6
  <2> DEFINE E == D \cup {p}
  <2>2. /\ IsFiniteSet(E) /\ Cardinality(E) = Cardinality(D) + 1
        /\ E = {SPReadOrder[i] : i \in 1..Cardinality(E)}
    BY <1>4, <1>5, SPReadNext
  <2>3. spLoaded' = [q \in E |-> spPinned[q]]
    <3> HIDE DEF p
    <3>1. \A x \in E : (IF x = p THEN spDisk[p] ELSE spLoaded[x]) = spPinned[x]
      BY <1>4, <2>1
    <3> QED
      BY <2>1, <3>1
  <2>4. Cardinality(E) \in 0..6
    BY <1>5, <2>2
  <2> HIDE DEF E
  <2>5. DOMAIN spLoaded' = E
    BY <2>3
  <2>6. SPLoadedHolds'
    BY <1>1, <1>6, <2>2, <2>3, <2>4, <2>5 DEF SPLoadedHolds, SPReadingSteps
  <2> QED
    BY <1>1, <1>3, <1>6, <2>6 DEF SPReaderInv, SPCheckedHolds, SPRefusedHolds
<1>7. CASE spStep' = "refused"
  <2>1. SPLoadedHolds'
    BY <1>7 DEF SPLoadedHolds, SPReadingSteps
  <2>2. spEdits = 0 => spVerifier = "changed"
    <3> SUFFICES ASSUME spEdits = 0 PROVE spVerifier = "changed"
      OBVIOUS
    <3>1. p = "provenance" /\ spDisk["provenance"] # spVerifier
      <4> HIDE DEF p
      <4> QED
        BY <1>1, <1>2, <1>7
    <3>2. spRun["provenance"] = "written"
      BY <1>1 DEF SPRunnerInv, SPRunHolds
    <3> QED
      BY <1>2, <3>1, <3>2 DEF SPReaderInv, SPRefusedHolds
  <2> QED
    BY <1>1, <1>3, <1>7, <2>1, <2>2 DEF SPReaderInv, SPCheckedHolds, SPRefusedHolds
<1> QED
  BY <1>1, <1>6, <1>7

\* A bundle nobody touched passes.
LEMMA UntouchedSupportIsValid ==
    ASSUME SPRunnerInv, spStep = "verified", spLoaded = spRun
    PROVE  \A t \in SPWatched : SupportTrialValid(t)
<1> SUFFICES ASSUME NEW t \in SPWatched PROVE SupportTrialValid(t)
  OBVIOUS
<1>1. t \in SPCells
  BY SupportAssumption
<1>2. SPRecorded = SPWatched
  BY DEF SPRecorded, SPRunSteps
<1>3. SPLineHolds(spRun, t)
  BY <1>2 DEF SPRunnerInv, SPRunHolds
<1> DEFINE o == spRun["observations"][t]
<1>4. /\ SPBeganObs(o, t) /\ RowsValid(t, o)
      /\ \E clock : \A p \in SPArtifactsOf : spRun[p][t] = SupportLine(t, o, clock)[p]
  BY <1>3 DEF SPLineHolds
<1>5. PICK clock : \A p \in SPArtifactsOf : spRun[p][t] = SupportLine(t, o, clock)[p]
  BY <1>4
<1>6. {"stages", "attestations", "cleanups", "trials"} \subseteq SPArtifactsOf
  BY DEF SPArtifactsOf, SPPayloads
<1>7. /\ spLoaded["observations"][t] = o
      /\ spLoaded["stages"][t] = SupportLine(t, o, clock).stages
      /\ spLoaded["attestations"][t] = SupportLine(t, o, clock).attestations
      /\ spLoaded["cleanups"][t] = SupportLine(t, o, clock).cleanups
      /\ spLoaded["trials"][t] = SupportLine(t, o, clock).trials
  BY <1>5, <1>6
<1> HIDE DEF o
<1>8. o.trial = t /\ o.trace = t /\ o.clone = t /\ o.action = t.input
  BY <1>4 DEF SPBeganObs
<1> QED
  BY <1>1, <1>4, <1>7, <1>8, ExecutedSupportIsValid

LEMMA SPCheckKeepsReader ==
    ASSUME SPRunnerInv, SPReaderInv, SPCheck
    PROVE  SPReaderInv'
<1>1. /\ spStep = "verified" /\ Cardinality(DOMAIN spLoaded) = Len(SPReadOrder)
      /\ spStep' = IF \A t \in SPWatched : SupportTrialValid(t) THEN "checked" ELSE "refused"
      /\ UNCHANGED << spRun, spDisk, spManifest, spEdits, spVerifier, spPinned, spLoaded >>
  BY DEF SPCheck, spRunner, spBundle, spReader
<1>2. spLoaded = spPinned
  <2>1. /\ DOMAIN spLoaded = {SPReadOrder[i] : i \in 1..Cardinality(DOMAIN spLoaded)}
        /\ spLoaded = [q \in DOMAIN spLoaded |-> spPinned[q]] /\ Whole(spPinned)
    BY <1>1 DEF SPReaderInv, SPLoadedHolds, SPDirectoryHolds, SPReadingSteps
  <2>2. DOMAIN spLoaded = SPPayloads
    BY <1>1, <2>1, SPOrderOfReading
  <2> QED
    BY <2>1, <2>2 DEF Whole
<1>3. SPDirectoryHolds'
  BY <1>1 DEF SPReaderInv, SPDirectoryHolds, Whole, SPBundleSteps, SPReadingSteps
<1>4. SPLoadedHolds'
  BY <1>1 DEF SPReaderInv, SPLoadedHolds, SPReadingSteps
<1>5. SPCheckedHolds'
  BY <1>1, <1>2, SupportValidStays DEF SPCheckedHolds
<1>6. spStep' = "refused" => spEdits # 0
  <2>1. spEdits = 0 => spLoaded = spRun
    BY <1>1, <1>2 DEF SPReaderInv, SPDirectoryHolds, SPReadingSteps
  <2> QED
    BY <1>1, <2>1, UntouchedSupportIsValid
<1> QED
  BY <1>1, <1>3, <1>4, <1>5, <1>6 DEF SPReaderInv, SPRefusedHolds

LEMMA SPFinalKeepsReader ==
    ASSUME SPRunnerInv, SPReaderInv, SPFinal
    PROVE  SPReaderInv'
<1>1. /\ spStep = "checked"
      /\ spStep' = IF spDisk = spManifest /\ spManifest = spPinned THEN "admitted"
                   ELSE "refused"
      /\ UNCHANGED << spRun, spDisk, spManifest, spEdits, spVerifier, spPinned, spLoaded >>
  BY DEF SPFinal, spRunner, spBundle, spReader
<1>2. spEdits = 0 => spDisk = spRun /\ spManifest = spRun /\ spPinned = spRun
  BY <1>1 DEF SPReaderInv, SPDirectoryHolds, SPBundleSteps, SPReadingSteps
<1>3. SPDirectoryHolds'
  BY <1>1 DEF SPReaderInv, SPDirectoryHolds, Whole, SPBundleSteps, SPReadingSteps
<1>4. SPLoadedHolds'
  BY <1>1 DEF SPReaderInv, SPLoadedHolds, SPReadingSteps
<1>5. SPCheckedHolds'
  BY <1>1, SupportValidStays DEF SPReaderInv, SPCheckedHolds
<1> QED
  BY <1>1, <1>2, <1>3, <1>4, <1>5 DEF SPReaderInv, SPRefusedHolds

LEMMA SPReaderKeeps ==
    ASSUME SPRunnerInv, SPReaderInv, [SPNext]_spVars
    PROVE  SPReaderInv'
<1>1. CASE UNCHANGED spVars
  <2>1. UNCHANGED << spStep, spRun, spDisk, spManifest, spEdits, spVerifier, spPinned, spLoaded >>
    BY <1>1 DEF spVars, spRunner, spBundle, spReader
  <2>2. SPDirectoryHolds' /\ SPLoadedHolds' /\ SPRefusedHolds'
    BY <2>1 DEF SPReaderInv, SPDirectoryHolds, Whole, SPLoadedHolds, SPRefusedHolds
  <2>3. SPCheckedHolds'
    BY <2>1, SupportValidStays DEF SPReaderInv, SPCheckedHolds
  <2> QED
    BY <2>2, <2>3 DEF SPReaderInv
<1> QED
  BY <1>1, SPRunnerStepsKeepReader, SPWriteKeepsReader, SPEditKeepsReader, SPSwapKeepsReader,
     SPVerifyKeepsReader, SPReadKeepsReader, SPCheckKeepsReader, SPFinalKeepsReader DEF SPNext

LEMMA SupportInductive == SPSpec => [](SPRunnerInv /\ SPReaderInv)
<1>1. SPInit => SPRunnerInv /\ SPReaderInv
  BY SPRunnerInitially, SPReaderInitially
<1>2. SPRunnerInv /\ SPReaderInv /\ [SPNext]_spVars => (SPRunnerInv /\ SPReaderInv)'
  BY SPRunnerKeeps, SPReaderKeeps
<1> QED
  BY <1>1, <1>2, PTL DEF SPSpec

\* A support bundle is admitted only as the one that was verified first and
\* with the metrics its trials really produced, for any set of watched cells
\* and any number of edits and replacements of the unsigned directory; and a
\* bundle nobody touched is refused only by a verifier with other sources
\* (FinancialSupportBundleRepository).
THEOREM AdmittedSupportsAreExecuted == SPSpec => []AdmittedSupportIsExecuted
<1>1. SPRunnerInv /\ SPReaderInv => AdmittedSupportIsExecuted
  <2> SUFFICES ASSUME SPReaderInv PROVE AdmittedSupportIsExecuted
    OBVIOUS
  <2>1. SPWatched \subseteq SPCells
    BY SupportAssumption
  <2>2. spStep = "admitted" =>
           /\ spLoaded = spPinned
           /\ \A t \in SPWatched, m \in DOMAIN Extraction :
                ExtractedMetric(t, m) = ExpectedMetric(t, m)
    BY <2>1, ValidExtractions DEF SPReaderInv, SPCheckedHolds
  <2> QED
    BY <2>2 DEF AdmittedSupportIsExecuted, SPReaderInv, SPRefusedHolds
<1> QED
  BY <1>1, SupportInductive, PTL

----------------------------------------------------------------------------
(* The detection experiment: what is kept of a sequence *)

LEMMA KeptNone == ASSUME NEW s PROVE Kept(s, {}) = << >>
<1>1. Cardinality({}) = 0
  BY FS_EmptySet
<1> QED
  BY <1>1 DEF Kept

LEMMA KeptOne == ASSUME NEW s, NEW p \in Int PROVE Kept(s, {p}) = << s[p] >>
<1>1. Cardinality({p}) = 1
  BY FS_Singleton
<1>2. {q \in {p} : q <= p} = {p}
  OBVIOUS
<1>3. (CHOOSE r \in {p} : Cardinality({q \in {p} : q <= r}) = 1) = p
  BY <1>1, <1>2
<1>4. Kept(s, {p}) = [n \in 1..1 |-> s[p]]
  BY <1>1, <1>3 DEF Kept
<1> QED
  BY <1>4

LEMMA KeptAll ==
    ASSUME NEW m \in Nat, NEW s, s = [k \in 1..m |-> s[k]]
    PROVE  Kept(s, 1..m) = s
<1>1. Cardinality(1..m) = m
  BY FS_Interval
<1>2. ASSUME NEW p \in 1..m PROVE Cardinality({q \in 1..m : q <= p}) = p
  <2>1. {q \in 1..m : q <= p} = 1..p
    OBVIOUS
  <2>2. Cardinality(1..p) = p
    BY FS_Interval
  <2> QED
    BY <2>1, <2>2
<1>3. ASSUME NEW n \in 1..m
      PROVE  (CHOOSE p \in 1..m : Cardinality({q \in 1..m : q <= p}) = n) = n
  BY <1>2
<1> QED
  BY <1>1, <1>3 DEF Kept

\* Something is kept exactly if a place is.
LEMMA KeptSome ==
    ASSUME NEW s, NEW m \in Nat, NEW P, P \subseteq 1..m
    PROVE  /\ Kept(s, P) = << >> <=> P = {}
           /\ Len(Kept(s, P)) = 1 => \E p \in P : P = {p} /\ Kept(s, P) = << s[p] >>
<1>1. IsFiniteSet(P) /\ Cardinality(P) \in Nat
  <2>1. IsFiniteSet(1..m)
    BY FS_Interval
  <2>2. IsFiniteSet(P)
    BY <2>1, FS_Subset
  <2> QED
    BY <2>2, FS_CardinalityType
<1>2. Len(Kept(s, P)) = Cardinality(P)
  BY <1>1 DEF Kept
<1>3. Kept(s, P) = << >> <=> Cardinality(P) = 0
  BY <1>1 DEF Kept
<1>4. Cardinality(P) = 0 <=> P = {}
  BY <1>1, FS_EmptySet
<1>5. Cardinality(P) = 1 => \E p : P = {p}
  BY <1>1, FS_Singleton
<1>6. ASSUME NEW p \in P, P = {p} PROVE Kept(s, P) = << s[p] >>
  BY <1>6, KeptOne
<1> QED
  BY <1>2, <1>3, <1>4, <1>5, <1>6

----------------------------------------------------------------------------
(* What a trial of a cell writes *)

\* Tuples of up to six elements, one element at a time.
LEMMA AppendToNone == ASSUME NEW x PROVE Append(<< >>, x) = << x >>
<1> DEFINE s == Append(<< >>, x)
<1>1. << >> \in Seq({x}) /\ Len(<< >>) = 0
  OBVIOUS
<1>2. s \in Seq({x}) /\ Len(s) = 1 /\ s[1] = x
  BY <1>1, AppendProperties
<1> HIDE DEF s
<1>3. s = << s[1] >>
  BY <1>2
<1> QED
  BY <1>2, <1>3 DEF s

LEMMA AppendToTwo ==
    ASSUME NEW x, NEW y, NEW z
    PROVE  Append(<< x, y >>, z) = << x, y, z >>
<1> DEFINE s == Append(<< x, y >>, z)
<1>1. s \in Seq({x, y, z})
  BY << x, y >> \in Seq({x, y, z}), z \in {x, y, z}, AppendProperties
<1>2. Len(s) = 3 /\ s[1] = x /\ s[2] = y /\ s[3] = z
  OBVIOUS
<1> HIDE DEF s
<1>3. s = << s[1], s[2], s[3] >>
  BY <1>1, <1>2
<1> QED
  BY <1>2, <1>3 DEF s

LEMMA AppendToThree ==
    ASSUME NEW w, NEW x, NEW y, NEW z
    PROVE  Append(<< w, x, y >>, z) = << w, x, y, z >>
<1> DEFINE s == Append(<< w, x, y >>, z)
<1>1. s \in Seq({w, x, y, z})
  BY << w, x, y >> \in Seq({w, x, y, z}), z \in {w, x, y, z}, AppendProperties
<1>2. Len(s) = 4 /\ s[1] = w /\ s[2] = x /\ s[3] = y /\ s[4] = z
  OBVIOUS
<1> HIDE DEF s
<1>3. s = << s[1], s[2], s[3], s[4] >>
  BY <1>1, <1>2
<1> QED
  BY <1>2, <1>3 DEF s

LEMMA AppendToFour ==
    ASSUME NEW v, NEW w, NEW x, NEW y, NEW z
    PROVE  Append(<< v, w, x, y >>, z) = << v, w, x, y, z >>
<1> DEFINE s == Append(<< v, w, x, y >>, z)
<1>1. s \in Seq({v, w, x, y, z})
  BY << v, w, x, y >> \in Seq({v, w, x, y, z}), z \in {v, w, x, y, z}, AppendProperties
<1>2. Len(s) = 5 /\ s[1] = v /\ s[2] = w /\ s[3] = x /\ s[4] = y /\ s[5] = z
  OBVIOUS
<1> HIDE DEF s
<1>3. s = << s[1], s[2], s[3], s[4], s[5] >>
  BY <1>1, <1>2
<1> QED
  BY <1>2, <1>3 DEF s

LEMMA AppendToFive ==
    ASSUME NEW u, NEW v, NEW w, NEW x, NEW y, NEW z
    PROVE  Append(<< u, v, w, x, y >>, z) = << u, v, w, x, y, z >>
<1> DEFINE s == Append(<< u, v, w, x, y >>, z)
<1>1. s \in Seq({u, v, w, x, y, z})
  BY << u, v, w, x, y >> \in Seq({u, v, w, x, y, z}), z \in {u, v, w, x, y, z}, AppendProperties
<1>2. Len(s) = 6 /\ s[1] = u /\ s[2] = v /\ s[3] = w /\ s[4] = x /\ s[5] = y /\ s[6] = z
  OBVIOUS
<1> HIDE DEF s
<1>3. s = << s[1], s[2], s[3], s[4], s[5], s[6] >>
  BY <1>1, <1>2
<1> QED
  BY <1>2, <1>3 DEF s

\* What the source wrote, and the rows of the collector and of its reload.
Written(input) == << SourceRecord(input, 1), SourceRecord(input, 2), SourceRecord(input, 3) >>

PreRow(cell, state) == [id |-> "pre", generation |-> 1, state |-> state,
                        config |-> CollectorConfig(cell.target = "active")]

InstancesOf(cell) ==
    IF cell.sham = "reload"
    THEN << PreRow(cell, "closed"),
            [id |-> "post", generation |-> 2, state |-> "active",
             config |-> CollectorConfig(cell.target = "active")] >>
    ELSE << PreRow(cell, "active") >>

ReloadOf(cell) ==
    IF cell.sham = "reload" THEN [pre |-> "pre", post |-> "post", status |-> "complete"] ELSE Nil

\* The rules that fire in a cell, and the alerts they write.
NamedFires(cell) == cell.input = "attack" /\ cell.target = "active"
BroadFires(cell) == cell.input = "attack" /\ cell.fallback = "forward"

NamedAlert == Alert("named", "attack", Written("attack"), 800, << >>)
BroadAlert == Alert("broad", "attack", << SourceRecord("attack", 3) >>, 1200,
                    << [event |-> SourceRecord("attack", 3), route |-> "fallback"] >>)

Raised(named, broad) ==
    IF named THEN IF broad THEN << NamedAlert, BroadAlert >> ELSE << NamedAlert >>
    ELSE IF broad THEN << BroadAlert >> ELSE << >>

Sent(cell) == IF cell.fallback = "forward" THEN ForwardedOf(Written(cell.input)) ELSE << >>

EarlyMoves == << << 0, 100 >>, << 100, 200 >>, << 200, 300 >> >>
LateMoves == << << 0, 100 >>, << 100, 200 >>, << 200, 300 >>, << 300, 800 >> >>
BroadMoves == << << 0, 100 >>, << 100, 200 >>, << 200, 300 >>, << 300, 800 >>, << 800, 1200 >> >>

Queued(input, state) == << [event |-> SourceRecord(input, 1), state |-> state],
                           [event |-> SourceRecord(input, 2), state |-> state],
                           [event |-> SourceRecord(input, 3), state |-> state] >>

DetectorRow(cell, status, completed) ==
    [active |-> cell.target = "active", status |-> status, started |-> 300,
     completed |-> completed]

CollectorRow(status, count) == [status |-> status, healthy |-> TRUE, count |-> count]

Columns == {"clock", "moves", "config", "instances", "reload", "attested", "collector",
            "source", "detector", "queue", "forwarded", "alerts"}

\* The clock's table, and the tables the later steps leave alone.
ClockAt(db, clock, moves) == DOMAIN db = Columns /\ db.clock = clock /\ db.moves = moves
Nothing(db) == db.source = << >> /\ db.forwarded = << >> /\ db.alerts = << >>
Prepared(db, cell) == /\ db.config = CollectorConfig(cell.target = "active")
                      /\ db.attested = AttestationOf(InstancesOf(cell), ReloadOf(cell))

\* The tables before each step.
ReloadTables(db, cell) ==
    /\ ClockAt(db, 0, << >>) /\ Nothing(db)
    /\ db.config = CollectorConfig(cell.target = "active")
    /\ db.instances = << PreRow(cell, "active") >> /\ db.reload = Nil
AttestTables(db, cell) ==
    /\ ClockAt(db, 0, << >>) /\ Nothing(db)
    /\ db.config = CollectorConfig(cell.target = "active")
    /\ db.instances = InstancesOf(cell) /\ db.reload = ReloadOf(cell)
SourceTables(db, cell) ==
    /\ ClockAt(db, 0, << >>) /\ Nothing(db)
    /\ Prepared(db, cell) /\ db.collector = CollectorRow("running", 0)
DetectorTables(db, cell) ==
    /\ ClockAt(db, 300, EarlyMoves)
    /\ Prepared(db, cell) /\ db.collector = CollectorRow("running", 0)
    /\ db.source = Written(cell.input) /\ db.forwarded = << >> /\ db.alerts = << >>
ProcessTables(db, cell) ==
    /\ DetectorTables(db, cell)
    /\ db.detector = DetectorRow(cell, "running", 0)
    /\ db.queue = Queued(cell.input, "pending")
Processed(db, cell) ==
    /\ Prepared(db, cell) /\ db.source = Written(cell.input)
    /\ db.detector = DetectorRow(cell, "complete", 800)
    /\ db.queue = Queued(cell.input, "processed")
ForwardTables(db, cell) ==
    /\ ClockAt(db, 800, LateMoves) /\ Processed(db, cell)
    /\ db.collector = CollectorRow("running", 0)
    /\ db.forwarded = << >> /\ db.alerts = Raised(NamedFires(cell), FALSE)
CloseTables(db, cell) ==
    /\ IF BroadFires(cell) THEN ClockAt(db, 1200, BroadMoves) ELSE ClockAt(db, 800, LateMoves)
    /\ Processed(db, cell)
    /\ db.collector = CollectorRow("complete", 3)
    /\ db.forwarded = Sent(cell) /\ db.alerts = Raised(NamedFires(cell), BroadFires(cell))

TablesHold ==
    /\ dtStep = "fresh" => dtDb = EmptyTables
    /\ dtStep = "reload" => ReloadTables(dtDb, dtCell)
    /\ dtStep = "attest" => AttestTables(dtDb, dtCell)
    /\ dtStep = "source" => SourceTables(dtDb, dtCell)
    /\ dtStep = "detector" => DetectorTables(dtDb, dtCell)
    /\ dtStep = "process" => ProcessTables(dtDb, dtCell)
    /\ dtStep = "forward" => ForwardTables(dtDb, dtCell)
    /\ dtStep = "close" => CloseTables(dtDb, dtCell)

LEMMA FreshWrites ==
    ASSUME TablesHold, FreshTables PROVE TablesHold'
<1>1. ReloadTables(dtDb', dtCell)
  BY DEF FreshTables, Move, PreRow, ReloadTables, ClockAt, Nothing, EmptyTables, Columns
<1> QED
  BY <1>1 DEF FreshTables, Move, TablesHold

LEMMA ReloadWrites ==
    ASSUME dtCell \in DCells, TablesHold, ReloadCollector \/ KeepCollector PROVE TablesHold'
<1>1. ReloadTables(dtDb, dtCell) /\ dtStep' = "attest" /\ dtCell' = dtCell
  BY DEF ReloadCollector, KeepCollector, Move, TablesHold
<1>2. CASE KeepCollector
  <2>1. dtCell.sham = "steady" /\ dtDb' = dtDb
    BY <1>2 DEF KeepCollector, Move
  <2>2. InstancesOf(dtCell) = << PreRow(dtCell, "active") >> /\ ReloadOf(dtCell) = Nil
    BY <2>1 DEF InstancesOf, ReloadOf
  <2> QED
    BY <1>1, <2>1, <2>2 DEF TablesHold, AttestTables, ReloadTables
<1>3. CASE ReloadCollector
  <2>1. dtCell.sham = "reload"
    BY <1>3 DEF ReloadCollector
  <2>2. InstancesOf(dtCell) =
          << [PreRow(dtCell, "active") EXCEPT !.state = "closed"],
             [id |-> "post", generation |-> PreRow(dtCell, "active").generation + 1,
              state |-> "active", config |-> CollectorConfig(dtCell.target = "active")] >>
    BY <2>1 DEF InstancesOf, PreRow
  <2>3. ReloadOf(dtCell) = [pre |-> PreRow(dtCell, "active").id, post |-> "post",
                            status |-> "complete"]
    BY <2>1 DEF ReloadOf, PreRow
  <2>4. dtDb' = [dtDb EXCEPT !.instances = InstancesOf(dtCell), !.reload = ReloadOf(dtCell)]
    <3>1. /\ dtDb.instances[1] = PreRow(dtCell, "active")
          /\ dtDb.config = CollectorConfig(dtCell.target = "active")
      BY <1>1 DEF ReloadTables
    <3> QED
      BY <3>1, <1>3, <2>2, <2>3 DEF ReloadCollector, Move
  <2>5. AttestTables(dtDb', dtCell)
    BY <1>1, <2>4 DEF AttestTables, ReloadTables, ClockAt, Nothing, Columns
  <2> QED
    BY <1>1, <2>5 DEF TablesHold
<1> QED
  BY <1>2, <1>3

LEMMA AttestWrites ==
    ASSUME TablesHold, AttestReload PROVE TablesHold'
<1>1. AttestTables(dtDb, dtCell) /\ dtStep' = "source" /\ dtCell' = dtCell
  BY DEF AttestReload, Move, TablesHold
<1>2. dtDb' = [dtDb EXCEPT !.attested = AttestationOf(InstancesOf(dtCell), ReloadOf(dtCell)),
                           !.collector = CollectorRow("running", 0)]
  BY <1>1 DEF AttestReload, Move, CollectorRow, AttestTables
<1>3. SourceTables(dtDb', dtCell)
  BY <1>1, <1>2 DEF AttestTables, SourceTables, Prepared, ClockAt, Nothing, Columns
<1> QED
  BY <1>1, <1>3 DEF TablesHold

\* The clock moves, and nothing else does.
MoveAdded(moves, from, to, moved) == moved = Append(moves, << from, to >>)

LEMMA AdvanceMoves ==
    ASSUME NEW db, NEW from, NEW moves, NEW to, from # to, ClockAt(db, from, moves),
           NEW moved, MoveAdded(moves, from, to, moved)
    PROVE  /\ ClockAt(Advance(db, to), to, moved)
           /\ \A c \in Columns \ {"clock", "moves"} : Advance(db, to)[c] = db[c]
<1>1. Advance(db, to) = [db EXCEPT !.clock = to, !.moves = moved]
  BY DEF Advance, ClockAt, MoveAdded
<1>2. ClockAt(Advance(db, to), to, moved)
  BY <1>1 DEF ClockAt, Columns
<1>3. \A c \in Columns \ {"clock", "moves"} : Advance(db, to)[c] = db[c]
  BY <1>1 DEF ClockAt, Columns
<1> QED
  BY <1>2, <1>3

\* A source event is written at the instant the clock has moved to.
EventWritten(db, to, record, new) == new = [Advance(db, to) EXCEPT !.source = Append(@, record)]
Appended(s, x, longer) == longer = Append(s, x)
OthersStay(new, db) == \A c \in Columns \ {"clock", "moves", "source"} : new[c] = db[c]

LEMMA EventWrites ==
    ASSUME NEW db, NEW from, NEW moves, NEW to, from # to, ClockAt(db, from, moves),
           NEW record,
           NEW new, EventWritten(db, to, record, new),
           NEW moved, MoveAdded(moves, from, to, moved),
           NEW written, Appended(db.source, record, written)
    PROVE  ClockAt(new, to, moved) /\ new.source = written /\ OthersStay(new, db)
<1> DEFINE a == Advance(db, to)
<1>1. ClockAt(a, to, moved) /\ \A c \in Columns \ {"clock", "moves"} : a[c] = db[c]
  BY AdvanceMoves
<1>2. new = [a EXCEPT !.source = Append(a.source, record)]
  BY DEF EventWritten
<1> HIDE DEF a
<1>3. a.source = db.source
  BY <1>1 DEF Columns
<1>4. new = [a EXCEPT !.source = written]
  BY <1>2, <1>3 DEF Appended
<1>5. ClockAt(new, to, moved) /\ new.source = written
  BY <1>1, <1>4 DEF ClockAt, Columns
<1>6. OthersStay(new, db)
  BY <1>1, <1>4 DEF ClockAt, Columns, OthersStay
<1> QED
  BY <1>5, <1>6

LEMMA SourceWrites ==
    ASSUME TablesHold, WriteSourceEvents PROVE TablesHold'
<1> DEFINE t0 == 0
           t1 == 100
           t2 == 200
           t3 == 300
           R(k) == SourceRecord(dtCell.input, k)
           m1 == << << t0, t1 >> >>
           m2 == << << t0, t1 >>, << t1, t2 >> >>
           s1 == << R(1) >>
           s2 == << R(1), R(2) >>
           s3 == << R(1), R(2), R(3) >>
           db1 == [Advance(dtDb, t1) EXCEPT !.source = Append(@, R(1))]
           db2 == [Advance(db1, t2) EXCEPT !.source = Append(@, R(2))]
           db3 == [Advance(db2, t3) EXCEPT !.source = Append(@, R(3))]
<1>1. dtStep = "source" /\ dtStep' = "detector" /\ dtCell' = dtCell /\ dtDb' = db3
  BY DEF WriteSourceEvents, Move
<1>2. SourceTables(dtDb, dtCell)
  BY <1>1 DEF TablesHold
<1>3. ClockAt(dtDb, t0, << >>) /\ dtDb.source = << >>
  BY <1>2 DEF SourceTables, Nothing
<1>m. /\ MoveAdded(<< >>, t0, t1, m1) /\ MoveAdded(m1, t1, t2, m2)
      /\ MoveAdded(m2, t2, t3, EarlyMoves)
  BY AppendToNone, AppendToOne, AppendToTwo DEF EarlyMoves, MoveAdded
<1>s. Appended(<< >>, R(1), s1) /\ Appended(s1, R(2), s2) /\ Appended(s2, R(3), s3)
  BY AppendToNone, AppendToOne, AppendToTwo DEF Appended
<1>d. /\ EventWritten(dtDb, t1, R(1), db1) /\ EventWritten(db1, t2, R(2), db2)
      /\ EventWritten(db2, t3, R(3), db3)
  BY DEF EventWritten
<1>n. t0 # t1 /\ t1 # t2 /\ t2 # t3
  OBVIOUS
<1>w. s3 = Written(dtCell.input)
  BY DEF Written
<1> HIDE DEF t0, t1, t2, t3, R, m1, m2, s1, s2, s3, db1, db2, db3
<1>4. ClockAt(db1, t1, m1) /\ db1.source = s1 /\ OthersStay(db1, dtDb)
  <2>1. Appended(dtDb.source, R(1), s1)
    BY <1>3, <1>s
  <2> QED
    BY <1>3, <1>m, <2>1, <1>d, <1>n, EventWrites
<1>5. ClockAt(db2, t2, m2) /\ db2.source = s2 /\ OthersStay(db2, db1)
  <2>1. Appended(db1.source, R(2), s2)
    BY <1>4, <1>s
  <2> QED
    BY <1>4, <1>m, <2>1, <1>d, <1>n, EventWrites
<1>6. ClockAt(db3, t3, EarlyMoves) /\ db3.source = s3 /\ OthersStay(db3, db2)
  <2>1. Appended(db2.source, R(3), s3)
    BY <1>5, <1>s
  <2> QED
    BY <1>5, <1>m, <2>1, <1>d, <1>n, EventWrites
<1>7. DetectorTables(dtDb', dtCell)
  <2>1. /\ dtDb'.config = dtDb.config /\ dtDb'.attested = dtDb.attested
        /\ dtDb'.collector = dtDb.collector /\ dtDb'.forwarded = dtDb.forwarded
        /\ dtDb'.alerts = dtDb.alerts
    BY <1>1, <1>4, <1>5, <1>6 DEF Columns, OthersStay
  <2>2. dtDb'.source = Written(dtCell.input)
    BY <1>1, <1>6, <1>w
  <2> QED
    BY <1>1, <1>2, <1>6, <2>1, <2>2 DEF DetectorTables, SourceTables, Nothing, Prepared, t3
<1> QED
  BY <1>1, <1>7 DEF TablesHold

LEMMA DetectorWrites ==
    ASSUME TablesHold, StartDetector PROVE TablesHold'
<1>1. dtStep = "detector" /\ dtStep' = "process" /\ dtCell' = dtCell
  BY DEF StartDetector, Move
<1>2. DetectorTables(dtDb, dtCell)
  BY <1>1 DEF TablesHold
<1>3. /\ dtDb.clock = 300 /\ dtDb.config.named = (dtCell.target = "active")
      /\ dtDb.source = Written(dtCell.input)
  BY <1>2 DEF DetectorTables, ClockAt, Prepared, CollectorConfig
<1>4. [k \in 1..Len(dtDb.source) |-> [event |-> dtDb.source[k], state |-> "pending"]]
        = Queued(dtCell.input, "pending")
  BY <1>3 DEF Written, Queued
<1>5. dtDb' = [dtDb EXCEPT !.detector = DetectorRow(dtCell, "running", 0),
                           !.queue = Queued(dtCell.input, "pending")]
  BY <1>3, <1>4 DEF StartDetector, Move, DetectorRow
<1>6. ProcessTables(dtDb', dtCell)
  BY <1>2, <1>5 DEF ProcessTables, DetectorTables, ClockAt, Prepared, Columns
<1> QED
  BY <1>1, <1>6 DEF TablesHold

\* The written events, one by one.
LEMMA WrittenIs ==
    ASSUME NEW input
    PROVE  /\ Len(Written(input)) = 3 /\ DOMAIN Written(input) = 1..3
           /\ \A k \in 1..3 : Written(input)[k] = SourceRecord(input, k)
  BY DEF Written

LEMMA RecordIs ==
    ASSUME NEW input, NEW k \in 1..3
    PROVE  /\ SourceRecord(input, k).action = input /\ SourceRecord(input, k).at = 100 * k
           /\ SourceRecord(input, k).id = source_plan(input)[k].id
           /\ SourceRecord(input, k).seq = source_plan(input)[k].seq
           /\ SourceRecord(input, k).type = source_plan(input)[k].type
  BY DEF SourceRecord

LEMMA PlanIs ==
    /\ source_plan("attack")[1].id = "replay-1" /\ source_plan("attack")[2].id = "replay-2"
    /\ source_plan("attack")[3].id = "replay-3"
    /\ source_plan("attack")[1].type = "authenticated"
    /\ source_plan("attack")[2].type = "revoked-replay"
    /\ source_plan("attack")[3].type = "sensitive-read"
    /\ source_plan("benign")[1].type = "authenticated"
    /\ source_plan("benign")[2].type = "case-opened"
    /\ source_plan("benign")[3].type = "summary-read"
  BY DEF source_plan

\* The exact pattern is the attack's.
LEMMA PatternIs ==
    ASSUME NEW input \in {"attack", "benign"}
    PROVE  ExactPattern(Written(input)) <=> input = "attack"
<1> DEFINE types == [k \in 1..Len(Written(input)) |-> Written(input)[k].type]
<1>1. types = [k \in 1..3 |-> source_plan(input)[k].type]
  <2>1. Len(Written(input)) = 3
    BY WrittenIs
  <2>2. \A k \in 1..3 : Written(input)[k].type = source_plan(input)[k].type
    BY WrittenIs, RecordIs
  <2> QED
    BY <2>1, <2>2
<1>2. types = << types[1], types[2], types[3] >>
  BY <1>1
<1>3. \A k \in 1..3 : types[k] = source_plan(input)[k].type
  BY <1>1
<1> HIDE DEF types
<1>4. CASE input = "attack"
  <2>1. types[1] = "authenticated" /\ types[2] = "revoked-replay" /\ types[3] = "sensitive-read"
    BY <1>3, <1>4, PlanIs
  <2> QED
    BY <1>2, <1>4, <2>1 DEF ExactPattern, types
<1>5. CASE input = "benign"
  <2>1. types[2] = "case-opened"
    BY <1>3, <1>5, PlanIs
  <2>2. types # << "authenticated", "revoked-replay", "sensitive-read" >>
    BY <2>1
  <2> QED
    BY <1>5, <2>2 DEF ExactPattern, types
<1> QED
  BY <1>4, <1>5

LEMMA ProcessWrites ==
    ASSUME dtCell \in DCells, TablesHold, ProcessQueue PROVE TablesHold'
<1> DEFINE input == dtCell.input
           db == Advance(dtDb, 800)
           pending == [k \in 1..Len(db.queue) |-> db.queue[k].event]
           fires == /\ db.detector.active /\ pending # << >>
                    /\ \A k \in 1..Len(pending) : pending[k].action = "attack"
                    /\ ExactPattern(pending)
           alerts == IF fires
                     THEN Append(db.alerts, Alert("named", "attack", pending, db.clock, << >>))
                     ELSE db.alerts
           queue == [k \in 1..Len(db.queue) |-> [db.queue[k] EXCEPT !.state = "processed"]]
           detector == IF db.queue # << >>
                       THEN [db.detector EXCEPT !.status = "complete", !.completed = db.clock]
                       ELSE db.detector
<1>1. dtStep = "process" /\ dtStep' = "forward" /\ dtCell' = dtCell
  BY DEF ProcessQueue, Move
<1>2. dtDb' = [db EXCEPT !.alerts = alerts, !.queue = queue, !.detector = detector]
  BY DEF ProcessQueue, Move
<1>3. ProcessTables(dtDb, dtCell) /\ input \in {"attack", "benign"}
  BY <1>1 DEF TablesHold, DCells
<1>4. /\ ClockAt(db, 800, LateMoves)
      /\ \A c \in Columns \ {"clock", "moves"} : db[c] = dtDb[c]
  <2>1. MoveAdded(EarlyMoves, 300, 800, LateMoves)
    BY AppendToThree DEF EarlyMoves, LateMoves, MoveAdded
  <2>2. ClockAt(dtDb, 300, EarlyMoves) /\ 300 # 800
    BY <1>3 DEF ProcessTables, DetectorTables
  <2> QED
    BY <2>1, <2>2, AdvanceMoves
<1> HIDE DEF db
<1>5. /\ db.queue = Queued(input, "pending") /\ db.detector = DetectorRow(dtCell, "running", 0)
      /\ db.alerts = << >> /\ db.clock = 800 /\ db.config = dtDb.config
      /\ db.attested = dtDb.attested /\ db.source = dtDb.source
      /\ db.collector = dtDb.collector /\ db.forwarded = dtDb.forwarded /\ DOMAIN db = Columns
  BY <1>3, <1>4 DEF ProcessTables, DetectorTables, ClockAt, Columns
<1>6. pending = Written(input)
  BY <1>5 DEF Queued, Written
<1>7. queue = Queued(input, "processed")
  BY <1>5 DEF Queued
<1>8. detector = DetectorRow(dtCell, "complete", 800)
  <2>1. db.queue # << >>
    BY <1>5 DEF Queued
  <2>2. detector = [db.detector EXCEPT !.status = "complete", !.completed = db.clock]
    BY <2>1
  <2>3. db.detector = [active |-> dtCell.target = "active", status |-> "running",
                       started |-> 300, completed |-> 0]
    BY <1>5 DEF DetectorRow
  <2>4. [db.detector EXCEPT !.status = "complete", !.completed = 800]
          = DetectorRow(dtCell, "complete", 800)
    <3> DEFINE active == dtCell.target = "active"
               started == 300
               before == 0
               now == 800
    <3>1. db.detector = [active |-> active, status |-> "running", started |-> started,
                         completed |-> before]
      BY <2>3
    <3> HIDE DEF active, started, before, now
    <3>2. [db.detector EXCEPT !.status = "complete", !.completed = now]
            = [active |-> active, status |-> "complete", started |-> started, completed |-> now]
      <4> DEFINE old == db.detector
                 n == [old EXCEPT !.status = "complete", !.completed = now]
      <4>0. old = [active |-> active, status |-> "running", started |-> started,
                   completed |-> before]
        BY <3>1
      <4> HIDE DEF old
      <4>1. /\ n.active = active /\ n.status = "complete" /\ n.started = started
            /\ n.completed = now /\ DOMAIN n = {"active", "status", "started", "completed"}
            /\ n = [x \in DOMAIN n |-> n[x]]
        BY <4>0
      <4> HIDE DEF n
      <4>2. n = [active |-> active, status |-> "complete", started |-> started, completed |-> now]
        BY <4>1
      <4> QED
        BY <4>2 DEF n, old
    <3> QED
      BY <3>2 DEF DetectorRow, active, started, now
  <2> QED
    BY <1>5, <2>2, <2>4
<1> HIDE DEF pending, queue, detector
<1>9. fires <=> NamedFires(dtCell)
  <2>1. db.detector.active = (dtCell.target = "active")
    BY <1>5 DEF DetectorRow
  <2>2. pending # << >> /\ Len(pending) = 3
    BY <1>6, WrittenIs
  <2>3. \A k \in 1..3 : pending[k].action = input
    BY <1>6, WrittenIs, RecordIs
  <2>4. ExactPattern(pending) <=> input = "attack"
    BY <1>3, <1>6, PatternIs
  <2> QED
    BY <2>1, <2>2, <2>3, <2>4 DEF NamedFires
<1> HIDE DEF fires
<1>10. alerts = Raised(NamedFires(dtCell), FALSE)
  <2>1. CASE fires
    <3>1. Alert("named", "attack", pending, db.clock, << >>) = NamedAlert
      BY <1>5, <1>6, <1>9, <2>1 DEF NamedAlert, NamedFires
    <3>2. alerts = << NamedAlert >>
      BY <1>5, <2>1, <3>1, AppendToNone
    <3> QED
      BY <1>9, <2>1, <3>2 DEF Raised
  <2>2. CASE ~ fires
    BY <1>5, <1>9, <2>2 DEF Raised
  <2> QED
    BY <2>1, <2>2
<1> HIDE DEF alerts
<1>11. /\ dtDb'.alerts = alerts /\ dtDb'.queue = queue /\ dtDb'.detector = detector
       /\ DOMAIN dtDb' = Columns
       /\ dtDb'.clock = db.clock /\ dtDb'.moves = db.moves /\ dtDb'.config = db.config
       /\ dtDb'.attested = db.attested /\ dtDb'.source = db.source
       /\ dtDb'.collector = db.collector /\ dtDb'.forwarded = db.forwarded
  BY <1>2, <1>5 DEF Columns
<1>12. ForwardTables(dtDb', dtCell)
  BY <1>3, <1>4, <1>5, <1>7, <1>8, <1>10, <1>11
     DEF ForwardTables, Processed, ProcessTables, DetectorTables, ClockAt, Prepared
<1> QED
  BY <1>1, <1>12 DEF TablesHold

\* What is forwarded of the written events, and what the broad rule finds in it.
LEMMA ForwardedIs ==
    ASSUME NEW input
    PROVE  /\ Len(ForwardedOf(Written(input))) = 3 /\ ForwardedOf(Written(input)) # << >>
           /\ \A k \in 1..3 : ForwardedOf(Written(input))[k] =
                                 [event |-> SourceRecord(input, k), route |-> "fallback"]
  BY DEF Written, ForwardedOf

LEMMA BroadIs ==
    ASSUME NEW input \in {"attack", "benign"}
    PROVE  BroadForwarded(ForwardedOf(Written(input))) =
             IF input = "attack"
             THEN << [event |-> SourceRecord(input, 3), route |-> "fallback"] >> ELSE << >>
<1> DEFINE f == ForwardedOf(Written(input))
           P == {k \in 1..Len(f) : f[k].event.type = "sensitive-read"}
<1>0. /\ Len(f) = 3
      /\ \A k \in 1..3 : f[k] = [event |-> SourceRecord(input, k), route |-> "fallback"]
  BY ForwardedIs, Zenon
<1> HIDE DEF f
<1>1. \A k \in 1..3 : f[k].event.type = source_plan(input)[k].type
  BY <1>0, RecordIs
<1>2. Len(f) = 3 /\ f[3] = [event |-> SourceRecord(input, 3), route |-> "fallback"]
  BY <1>0
<1>3. CASE input = "attack"
  <2>1. P = {3}
    BY <1>1, <1>2, <1>3, PlanIs
  <2> HIDE DEF P
  <2>2. Kept(f, P) = << f[3] >>
    BY <2>1, KeptOne
  <2> QED
    BY <1>2, <1>3, <2>2 DEF f, P, BroadForwarded
<1>4. CASE input = "benign"
  <2>1. P = {}
    BY <1>1, <1>2, <1>4, PlanIs
  <2> HIDE DEF P
  <2>2. Kept(f, P) = << >>
    BY <2>1, KeptNone
  <2> QED
    BY <1>4, <2>2 DEF f, P, BroadForwarded
<1> QED
  BY <1>3, <1>4

LEMMA ForwardingIs ==
    ASSUME NEW input
    PROVE  ForwardingValid(ForwardedOf(Written(input)), Written(input), input)
<1>1. ForwardedOf(Written(input)) # << >>
  BY ForwardedIs, Zenon
<1>2. \A k \in 1..Len(Written(input)) : Written(input)[k].action = input
  BY WrittenIs, RecordIs
<1> QED
  BY <1>1, <1>2 DEF ForwardingValid

LEMMA FallbackWrites ==
    ASSUME dtCell \in DCells, TablesHold, FallbackPath PROVE TablesHold'
<1> DEFINE input == dtCell.input
           forwarded == IF dtCell.fallback = "forward" THEN ForwardedOf(dtDb.source) ELSE << >>
           broad == BroadForwarded(forwarded)
           fires == /\ dtCell.input = "attack" /\ Len(broad) = 1
                    /\ ForwardingValid(forwarded, dtDb.source, dtCell.input)
           db == IF fires THEN Advance(dtDb, 1200) ELSE dtDb
           alerts == IF fires
                     THEN Append(db.alerts, Alert("broad", "attack", << broad[1].event >>,
                                                  db.clock, broad))
                     ELSE db.alerts
           collector == [db.collector EXCEPT !.status = "complete", !.count = Len(dtDb.source)]
<1>1. dtStep = "forward" /\ dtStep' = "close" /\ dtCell' = dtCell
  BY DEF FallbackPath, Move
<1>2. dtDb' = [db EXCEPT !.forwarded = forwarded, !.alerts = alerts, !.collector = collector]
  BY DEF FallbackPath, Move
<1>3. /\ ForwardTables(dtDb, dtCell) /\ input \in {"attack", "benign"}
      /\ dtDb.source = Written(input)
  BY <1>1 DEF TablesHold, DCells, ForwardTables, Processed
<1>4. forwarded = Sent(dtCell)
  BY <1>3 DEF Sent
<1>5. fires <=> BroadFires(dtCell)
  <2>1. CASE BroadFires(dtCell)
    <3>1. input = "attack" /\ forwarded = ForwardedOf(Written("attack"))
      BY <1>3, <2>1 DEF BroadFires
    <3>2. broad = << [event |-> SourceRecord("attack", 3), route |-> "fallback"] >>
      BY <3>1, BroadIs
    <3>3. Len(broad) = 1
      BY <3>2
    <3>4. ForwardingValid(forwarded, dtDb.source, input)
      BY <1>3, <3>1, ForwardingIs
    <3> QED
      BY <2>1, <3>1, <3>3, <3>4
  <2>2. CASE ~ BroadFires(dtCell) /\ input = "attack"
    <3>1. forwarded = << >>
      BY <2>2 DEF BroadFires
    <3> QED
      BY <2>2, <3>1 DEF ForwardingValid
  <2> QED
    BY <2>1, <2>2 DEF BroadFires
<1>6. BroadFires(dtCell) =>
        broad = << [event |-> SourceRecord("attack", 3), route |-> "fallback"] >>
  BY <1>3, BroadIs DEF BroadFires
<1> HIDE DEF fires, broad, forwarded
<1>7. /\ IF BroadFires(dtCell) THEN ClockAt(db, 1200, BroadMoves) ELSE ClockAt(db, 800, LateMoves)
      /\ \A c \in Columns \ {"clock", "moves"} : db[c] = dtDb[c]
  <2>1. MoveAdded(LateMoves, 800, 1200, BroadMoves)
    BY AppendToFour DEF LateMoves, BroadMoves, MoveAdded
  <2>2. ClockAt(dtDb, 800, LateMoves) /\ 800 # 1200
    BY <1>3 DEF ForwardTables
  <2>3. /\ ClockAt(Advance(dtDb, 1200), 1200, BroadMoves)
        /\ \A c \in Columns \ {"clock", "moves"} : Advance(dtDb, 1200)[c] = dtDb[c]
    BY <2>1, <2>2, AdvanceMoves
  <2> QED
    BY <1>5, <2>2, <2>3
<1> HIDE DEF db
<1>8. /\ db.queue = dtDb.queue /\ db.detector = dtDb.detector
      /\ db.alerts = dtDb.alerts /\ db.config = dtDb.config
      /\ db.attested = dtDb.attested /\ db.source = dtDb.source
      /\ db.collector = dtDb.collector /\ DOMAIN db = Columns
      /\ BroadFires(dtCell) => db.clock = 1200
  BY <1>7 DEF ClockAt, Columns
<1>9. collector = CollectorRow("complete", 3)
  <2>1. db.collector = CollectorRow("running", 0) /\ Len(dtDb.source) = 3
    BY <1>3, <1>8, WrittenIs DEF ForwardTables
  <2>2. [db.collector EXCEPT !.status = "complete", !.count = 3] = CollectorRow("complete", 3)
    <3> DEFINE healthy == TRUE
               before == 0
               count == 3
    <3>1. db.collector = [status |-> "running", healthy |-> healthy, count |-> before]
      BY <2>1 DEF CollectorRow
    <3> HIDE DEF healthy, before, count
    <3>2. [db.collector EXCEPT !.status = "complete", !.count = count]
            = [status |-> "complete", healthy |-> healthy, count |-> count]
      <4> DEFINE old == db.collector
                 n == [old EXCEPT !.status = "complete", !.count = count]
      <4>0. old = [status |-> "running", healthy |-> healthy, count |-> before]
        BY <3>1
      <4> HIDE DEF old
      <4>1. /\ n.healthy = healthy /\ n.status = "complete" /\ n.count = count
            /\ DOMAIN n = {"status", "healthy", "count"} /\ n = [x \in DOMAIN n |-> n[x]]
        BY <4>0
      <4> HIDE DEF n
      <4>2. n = [status |-> "complete", healthy |-> healthy, count |-> count]
        BY <4>1
      <4> QED
        BY <4>2 DEF n, old
    <3> QED
      BY <3>2 DEF CollectorRow, healthy, count
  <2> QED
    BY <2>1, <2>2
<1> HIDE DEF collector
<1>10. alerts = Raised(NamedFires(dtCell), BroadFires(dtCell))
  <2>0. db.alerts = Raised(NamedFires(dtCell), FALSE)
    BY <1>3, <1>8 DEF ForwardTables
  <2>1. CASE BroadFires(dtCell)
    <3>1. Alert("broad", "attack", << broad[1].event >>, db.clock, broad) = BroadAlert
      BY <1>6, <1>8, <2>1 DEF BroadAlert
    <3>2. alerts = Append(Raised(NamedFires(dtCell), FALSE), BroadAlert)
      BY <1>5, <2>0, <2>1, <3>1
    <3>3. CASE NamedFires(dtCell)
      BY <2>1, <3>2, <3>3, AppendToOne DEF Raised
    <3>4. CASE ~ NamedFires(dtCell)
      BY <2>1, <3>2, <3>4, AppendToNone DEF Raised
    <3> QED
      BY <3>3, <3>4
  <2>2. CASE ~ BroadFires(dtCell)
    BY <1>5, <2>0, <2>2 DEF Raised
  <2> QED
    BY <2>1, <2>2
<1> HIDE DEF alerts
<1>11. /\ dtDb'.alerts = alerts /\ dtDb'.queue = db.queue /\ dtDb'.detector = db.detector
       /\ DOMAIN dtDb' = Columns
       /\ dtDb'.clock = db.clock /\ dtDb'.moves = db.moves /\ dtDb'.config = db.config
       /\ dtDb'.attested = db.attested /\ dtDb'.source = db.source
       /\ dtDb'.collector = collector /\ dtDb'.forwarded = forwarded
  BY <1>2, <1>8 DEF Columns
<1>12. IF BroadFires(dtCell) THEN ClockAt(dtDb', 1200, BroadMoves)
       ELSE ClockAt(dtDb', 800, LateMoves)
  BY <1>7, <1>11 DEF ClockAt
<1>13. Processed(dtDb', dtCell)
  BY <1>3, <1>8, <1>11 DEF Processed, ForwardTables, Prepared
<1>14. CloseTables(dtDb', dtCell)
  BY <1>4, <1>9, <1>10, <1>11, <1>12, <1>13 DEF CloseTables
<1> QED
  BY <1>1, <1>14 DEF TablesHold

----------------------------------------------------------------------------
(* The result a trial hands out *)

LEMMA AlertIs ==
    /\ NamedAlert.kind = "named" /\ NamedAlert.action = "attack" /\ NamedAlert.at = 800
    /\ NamedAlert.forwarded = << >>
    /\ BroadAlert.kind = "broad" /\ BroadAlert.action = "attack" /\ BroadAlert.at = 1200
    /\ BroadAlert.forwarded = << [event |-> SourceRecord("attack", 3), route |-> "fallback"] >>
  BY DEF NamedAlert, BroadAlert, Alert

\* The alerts raised, by their places.
LEMMA RaisedIs ==
    ASSUME NEW cell, NEW alerts, alerts = Raised(NamedFires(cell), BroadFires(cell))
    PROVE  /\ Len(alerts) \in Nat /\ alerts = [k \in 1..Len(alerts) |-> alerts[k]]
           /\ \A k \in 1..Len(alerts) :
                \/ k = 1 /\ NamedFires(cell) /\ alerts[k] = NamedAlert
                \/ BroadFires(cell) /\ alerts[k] = BroadAlert /\ k = Len(alerts)
           /\ NamedFires(cell) => Len(alerts) > 0 /\ alerts[1] = NamedAlert
           /\ BroadFires(cell) => Len(alerts) > 0 /\ alerts[Len(alerts)] = BroadAlert
           /\ ~ NamedFires(cell) /\ ~ BroadFires(cell) => Len(alerts) = 0
<1>1. CASE NamedFires(cell) /\ BroadFires(cell)
  BY <1>1 DEF Raised
<1>2. CASE NamedFires(cell) /\ ~ BroadFires(cell)
  BY <1>2 DEF Raised
<1>3. CASE ~ NamedFires(cell) /\ BroadFires(cell)
  BY <1>3 DEF Raised
<1>4. CASE ~ NamedFires(cell) /\ ~ BroadFires(cell)
  BY <1>4 DEF Raised
<1> QED
  BY <1>1, <1>2, <1>3, <1>4

LastMoves(cell) ==
    IF BroadFires(cell)
    THEN << << 0, 100 >>, << 100, 200 >>, << 200, 300 >>, << 300, 800 >>, << 800, 1200 >>,
            << 1200, 2000 >> >>
    ELSE << << 0, 100 >>, << 100, 200 >>, << 200, 300 >>, << 300, 800 >>, << 800, 2000 >> >>

\* A result as it is executed, but for its event stream.
AsExecuted(r, cell) ==
    /\ r.cell = cell /\ r.action = cell.input
    /\ r.source = Written(cell.input) /\ r.forwarded = Sent(cell)
    /\ r.alerts = Raised(NamedFires(cell), BroadFires(cell))
    /\ r.collector.status = "complete" /\ r.collector.healthy = TRUE
    /\ r.collector.sourceHealthy = TRUE /\ r.collector.count = 3
    /\ r.collector.ids = [k \in 1..Len(r.source) |-> r.source[k].id]
    /\ r.collector.seqs = [k \in 1..Len(r.source) |-> r.source[k].seq]
    /\ r.clock.now = 2000 /\ r.clock.moves = LastMoves(cell)
    /\ r.detector.active = (cell.target = "active") /\ r.detector.status = "complete"
    /\ r.detector.started = 300 /\ r.detector.completed = 800
    /\ r.detector.pending = 0 /\ r.detector.processed = r.source
    /\ r.detector.observed = AlertIds(Named(r.alerts))
    /\ r.query.completed = TRUE /\ r.query.asOf = 2000 /\ r.query.observed = AlertIds(r.alerts)
    /\ r.attested = AttestationOf(InstancesOf(cell), ReloadOf(cell))
    /\ r.closure = ClosureOf(r, PlanIds(cell.input))

\* The processed queue, read back.
LEMMA DetectorReads ==
    ASSUME NEW cell, NEW db, Processed(db, cell)
    PROVE  LET d == DetectorReadback(db)
           IN /\ d.active = (cell.target = "active") /\ d.status = "complete"
              /\ d.started = 300 /\ d.completed = 800
              /\ d.pending = 0 /\ d.processed = Written(cell.input)
              /\ d.observed = AlertIds(Named(db.alerts))
<1> DEFINE q == db.queue
           P == {k \in 1..Len(q) : q[k].state = "processed"}
           done == Kept(q, P)
<1>1. q = Queued(cell.input, "processed") /\ db.detector = DetectorRow(cell, "complete", 800)
  BY DEF Processed
<1>2. Len(q) = 3 /\ q = [k \in 1..3 |-> q[k]] /\ \A k \in 1..3 : q[k].state = "processed"
  BY <1>1 DEF Queued
<1>3. \A k \in 1..3 : q[k].event = SourceRecord(cell.input, k)
  BY <1>1 DEF Queued
<1> HIDE DEF q
<1>4. P = 1..3
  BY <1>2
<1> HIDE DEF P
<1>5. done = q
  BY <1>2, <1>4, KeptAll
<1> HIDE DEF done
<1>6. [k \in 1..Len(done) |-> done[k].event] = Written(cell.input)
  <2>1. [k \in 1..Len(done) |-> done[k].event] = [k \in 1..3 |-> SourceRecord(cell.input, k)]
    BY <1>2, <1>3, <1>5
  <2> QED
    BY <2>1 DEF Written
<1>7. Len(q) - Len(done) = 0
  BY <1>2, <1>5
<1>8. DetectorReadback(db) =
        [active |-> db.detector.active, status |-> db.detector.status,
         started |-> db.detector.started, completed |-> db.detector.completed,
         pending |-> Len(q) - Len(done), processed |-> [k \in 1..Len(done) |-> done[k].event],
         observed |-> AlertIds(Named(db.alerts))]
  BY DEF DetectorReadback, done, P, q
<1> QED
  BY <1>1, <1>6, <1>7, <1>8 DEF DetectorRow

\* Every alert was triggered before the window closes.
LEMMA QueryReads ==
    ASSUME NEW cell, NEW db,
           db.alerts = Raised(NamedFires(cell), BroadFires(cell)), db.clock = AlertSlo
    PROVE  LET q == QueryReadback(db)
           IN q.completed = TRUE /\ q.asOf = AlertSlo /\ q.observed = AlertIds(db.alerts)
<1> DEFINE a == db.alerts
           P == {k \in 1..Len(a) : a[k].at <= db.clock}
<1>1. /\ Len(a) \in Nat /\ a = [k \in 1..Len(a) |-> a[k]]
      /\ \A k \in 1..Len(a) : a[k] = NamedAlert \/ a[k] = BroadAlert
  BY RaisedIs
<1> HIDE DEF a
<1>2. P = 1..Len(a)
  BY <1>1, AlertIs DEF AlertSlo
<1> HIDE DEF P
<1>3. Kept(a, P) = a
  BY <1>1, <1>2, KeptAll
<1>4. QueryReadback(db) =
        [completed |-> TRUE, asOf |-> db.clock, observed |-> AlertIds(Kept(a, P))]
  BY DEF QueryReadback, a, P
<1> QED
  BY <1>3, <1>4 DEF a

\* The tables once the clock has moved to the end of the window.
LEMMA WindowTables ==
    ASSUME dtCell \in DCells, CloseTables(dtDb, dtCell), NEW db, db = Advance(dtDb, AlertSlo)
    PROVE  /\ db.clock = 2000 /\ db.moves = LastMoves(dtCell)
           /\ Processed(db, dtCell) /\ db.collector = CollectorRow("complete", 3)
           /\ db.forwarded = Sent(dtCell)
           /\ db.alerts = Raised(NamedFires(dtCell), BroadFires(dtCell))
<1>1. /\ ClockAt(db, 2000, LastMoves(dtCell))
      /\ \A c \in Columns \ {"clock", "moves"} : db[c] = dtDb[c]
  <2>1. CASE BroadFires(dtCell)
    <3>1. MoveAdded(BroadMoves, 1200, 2000, LastMoves(dtCell))
      BY <2>1, AppendToFive DEF BroadMoves, LastMoves, MoveAdded
    <3>2. ClockAt(dtDb, 1200, BroadMoves) /\ 1200 # 2000
      BY <2>1 DEF CloseTables
    <3> QED
      BY <3>1, <3>2, AdvanceMoves DEF AlertSlo
  <2>2. CASE ~ BroadFires(dtCell)
    <3>1. MoveAdded(LateMoves, 800, 2000, LastMoves(dtCell))
      BY <2>2, AppendToFour DEF LateMoves, LastMoves, MoveAdded
    <3>2. ClockAt(dtDb, 800, LateMoves) /\ 800 # 2000
      BY <2>2 DEF CloseTables
    <3> QED
      BY <3>1, <3>2, AdvanceMoves DEF AlertSlo
  <2> QED
    BY <2>1, <2>2
<1>2. /\ db.queue = dtDb.queue /\ db.detector = dtDb.detector
      /\ db.alerts = dtDb.alerts /\ db.config = dtDb.config
      /\ db.attested = dtDb.attested /\ db.source = dtDb.source
      /\ db.collector = dtDb.collector /\ db.forwarded = dtDb.forwarded
  BY <1>1 DEF Columns
<1> QED
  BY <1>1, <1>2 DEF ClockAt, CloseTables, Processed, Prepared

\* The window closure is a copy of the readbacks.
LEMMA SameClosure ==
    ASSUME NEW r, NEW s, NEW plan, r.action = s.action, r.source = s.source,
           r.collector = s.collector, r.clock = s.clock, r.detector = s.detector,
           r.query = s.query, r.attested = s.attested
    PROVE  ClosureOf(r, plan) = ClosureOf(s, plan)
  BY DEF ClosureOf

LEMMA AttestationSays ==
    ASSUME NEW instances, NEW reload
    PROVE  AttestationOf(instances, reload).performed = (reload # Nil)
<1> DEFINE row(places) == Kept(instances, places)[1]
           active == row({k \in 1..Len(instances) : instances[k].state = "active"})
           pre == IF reload = Nil THEN active.id ELSE reload.pre
           post == IF reload = Nil THEN active.id ELSE reload.post
           config(id) == row({k \in 1..Len(instances) : instances[k].id = id}).config
           from == config(pre)
           to == config(post)
           performed == reload # Nil
<1>1. AttestationOf(instances, reload) =
        [performed |-> performed, pre |-> pre, post |-> post, preConfig |-> from,
         postConfig |-> to, instances |-> instances, operation |-> reload]
  BY DEF AttestationOf
<1> HIDE DEF performed, pre, post, from, to
<1> QED
  BY <1>1 DEF performed

LEMMA CloseExecutes ==
    ASSUME dtCell \in DCells, TablesHold, CloseWindow
    PROVE  /\ AsExecuted(dtResult', dtCell) /\ dtTruth' = dtResult' /\ "action" \in DOMAIN dtResult'
           /\ \E sealed : /\ AsExecuted(sealed, dtCell)
                          /\ dtResult'.events =
                               DetectionEvents(sealed, dtCell.target = "active",
                                               ReloadOf(dtCell) # Nil)
<1> DEFINE db == Advance(dtDb, AlertSlo)
           parts == [cell |-> dtCell, action |-> dtCell.input, source |-> db.source,
                     forwarded |-> db.forwarded, alerts |-> db.alerts,
                     collector |-> CollectorReadback(db), clock |-> ClockReadback(db),
                     detector |-> DetectorReadback(db), query |-> QueryReadback(db),
                     attested |-> db.attested, closure |-> Nil, events |-> Nil]
           closure == ClosureOf(parts, PlanIds(dtCell.input))
           sealed == [parts EXCEPT !.closure = closure]
           events == DetectionEvents(sealed, db.detector.active, db.attested.performed)
           r == [sealed EXCEPT !.events = events]
<1>1. dtResult' = r /\ dtTruth' = r
  BY DEF CloseWindow
<1>2. /\ db.clock = 2000 /\ db.moves = LastMoves(dtCell)
      /\ Processed(db, dtCell) /\ db.collector = CollectorRow("complete", 3)
      /\ db.forwarded = Sent(dtCell)
      /\ db.alerts = Raised(NamedFires(dtCell), BroadFires(dtCell))
  BY WindowTables DEF CloseWindow, TablesHold
<1>3. /\ db.source = Written(dtCell.input) /\ db.config.source = TRUE
      /\ db.attested = AttestationOf(InstancesOf(dtCell), ReloadOf(dtCell))
      /\ db.detector.active = (dtCell.target = "active")
  BY <1>2 DEF Processed, Prepared, CollectorConfig, DetectorRow
<1>4. db.attested.performed = (ReloadOf(dtCell) # Nil)
  BY <1>3, AttestationSays
<1> HIDE DEF db
<1> DEFINE collector == CollectorReadback(db)
           clock == ClockReadback(db)
           detector == DetectorReadback(db)
           query == QueryReadback(db)
<1>5. /\ detector.active = (dtCell.target = "active") /\ detector.status = "complete"
      /\ detector.started = 300 /\ detector.completed = 800
      /\ detector.pending = 0 /\ detector.processed = db.source
      /\ detector.observed = AlertIds(Named(db.alerts))
  BY <1>2, <1>3, DetectorReads
<1>6. query.completed = TRUE /\ query.asOf = 2000 /\ query.observed = AlertIds(db.alerts)
  <2>1. db.clock = AlertSlo
    BY <1>2 DEF AlertSlo
  <2>2. query.completed = TRUE /\ query.asOf = AlertSlo /\ query.observed = AlertIds(db.alerts)
    <3>1. db.alerts = Raised(NamedFires(dtCell), BroadFires(dtCell))
      BY <1>2
    <3> QED
      BY <2>1, <3>1, QueryReads, Zenon
  <2> QED
    BY <2>2 DEF AlertSlo
<1>7. clock.now = 2000 /\ clock.moves = LastMoves(dtCell)
  BY <1>2 DEF ClockReadback
<1>8. /\ collector.status = "complete" /\ collector.healthy = TRUE
      /\ collector.sourceHealthy = TRUE /\ collector.count = 3
      /\ collector.ids = [k \in 1..Len(db.source) |-> db.source[k].id]
      /\ collector.seqs = [k \in 1..Len(db.source) |-> db.source[k].seq]
  BY <1>2, <1>3 DEF CollectorReadback, CollectorRow
<1> HIDE DEF collector, clock, detector, query
<1>9. parts = [cell |-> dtCell, action |-> dtCell.input, source |-> db.source,
               forwarded |-> db.forwarded, alerts |-> db.alerts,
               collector |-> collector, clock |-> clock,
               detector |-> detector, query |-> query,
               attested |-> db.attested, closure |-> Nil, events |-> Nil]
  BY DEF collector, clock, detector, query
<1> HIDE DEF parts, closure
<1>10. /\ sealed.cell = dtCell /\ sealed.action = dtCell.input /\ sealed.source = db.source
       /\ sealed.forwarded = db.forwarded /\ sealed.alerts = db.alerts
       /\ sealed.collector = collector /\ sealed.clock = clock /\ sealed.detector = detector
       /\ sealed.query = query /\ sealed.attested = db.attested /\ sealed.closure = closure
       /\ DOMAIN sealed = {"cell", "action", "source", "forwarded", "alerts", "collector", "clock",
                           "detector", "query", "attested", "closure", "events"}
  BY <1>9
<1>11. /\ parts.action = dtCell.input /\ parts.source = db.source
       /\ parts.collector = collector /\ parts.clock = clock /\ parts.detector = detector
       /\ parts.query = query /\ parts.attested = db.attested
  BY <1>9
<1> HIDE DEF sealed
<1>12. closure = ClosureOf(sealed, PlanIds(dtCell.input))
  <2>1. ClosureOf(parts, PlanIds(dtCell.input)) = ClosureOf(sealed, PlanIds(dtCell.input))
    BY <1>10, <1>11, SameClosure
  <2> QED
    BY <2>1 DEF closure
<1>13. AsExecuted(sealed, dtCell)
  BY <1>2, <1>3, <1>5, <1>6, <1>7, <1>8, <1>10, <1>12 DEF AsExecuted
<1> HIDE DEF events
<1>14. /\ r.cell = sealed.cell /\ r.action = sealed.action /\ r.source = sealed.source
       /\ r.forwarded = sealed.forwarded /\ r.alerts = sealed.alerts
       /\ r.collector = sealed.collector /\ r.clock = sealed.clock
       /\ r.detector = sealed.detector /\ r.query = sealed.query
       /\ r.attested = sealed.attested /\ r.closure = sealed.closure /\ r.events = events
       /\ "action" \in DOMAIN r
  BY <1>10
<1> HIDE DEF r
<1>15. ClosureOf(r, PlanIds(dtCell.input)) = ClosureOf(sealed, PlanIds(dtCell.input))
  BY <1>14, SameClosure
<1>16. AsExecuted(r, dtCell)
  BY <1>13, <1>14, <1>15 DEF AsExecuted
<1>17. r.events = DetectionEvents(sealed, dtCell.target = "active", ReloadOf(dtCell) # Nil)
  BY <1>3, <1>4, <1>14 DEF events
<1> QED
  BY <1>1, <1>13, <1>14, <1>16, <1>17

----------------------------------------------------------------------------
(* A result as it is executed passes every check *)

LEMMA PlanShape ==
    ASSUME NEW input
    PROVE  /\ source_plan(input) = [k \in 1..3 |-> source_plan(input)[k]]
           /\ \A k \in 1..3 : source_plan(input)[k] =
                [id |-> source_plan(input)[k].id, seq |-> source_plan(input)[k].seq,
                 type |-> source_plan(input)[k].type]
  BY DEF source_plan

LEMMA SourceChecks ==
    ASSUME NEW r, NEW cell, AsExecuted(r, cell)
    PROVE  /\ SourceBound(r) /\ SourceComplete(r, cell.input) /\ Len(r.source) = 3
           /\ \A k \in 1..3 : r.source[k] = SourceRecord(cell.input, k)
<1>1. r.source = Written(cell.input) /\ r.action = cell.input
  BY DEF AsExecuted
<1>2. Len(r.source) = 3 /\ \A k \in 1..3 : r.source[k] = SourceRecord(cell.input, k)
  BY <1>1, WrittenIs
<1>3. SourceBound(r)
  <2>1. r.source # << >>
    BY <1>2
  <2>2. \A k \in 1..3 : r.source[k].action = r.action
    BY <1>1, <1>2, RecordIs
  <2> QED
    BY <1>2, <2>1, <2>2 DEF SourceBound
<1>4. SourceComplete(r, cell.input)
  <2> DEFINE plan == source_plan(cell.input)
  <2>1. \A k \in 1..3 : /\ r.source[k].id = plan[k].id /\ r.source[k].seq = plan[k].seq
                        /\ r.source[k].type = plan[k].type
    BY <1>2, RecordIs
  <2>2. /\ plan = [k \in 1..3 |-> plan[k]]
        /\ \A k \in 1..3 : plan[k] = [id |-> plan[k].id, seq |-> plan[k].seq,
                                      type |-> plan[k].type]
    BY PlanShape
  <2> HIDE DEF plan
  <2>3. [k \in 1..3 |-> [id |-> r.source[k].id, seq |-> r.source[k].seq,
                         type |-> r.source[k].type]] = plan
    BY <2>1, <2>2
  <2> QED
    BY <1>2, <2>3 DEF SourceComplete, plan
<1> QED
  BY <1>2, <1>3, <1>4

\* The fields of a window closure.
LEMMA ClosureIs ==
    ASSUME NEW r, NEW plan, r.closure = ClosureOf(r, plan)
    PROVE  /\ r.closure.count = r.collector.count
           /\ r.closure.sourceHealthy = r.collector.sourceHealthy
           /\ r.closure.healthy = r.collector.healthy
           /\ r.closure.completed = (r.collector.status = "complete")
           /\ r.closure.closed = r.clock.now /\ r.closure.clock = r.clock
           /\ r.closure.query = r.query /\ r.closure.detector = r.detector
           /\ r.closure.observed = [k \in 1..Len(r.source) |->
                                      [id |-> r.source[k].id, seq |-> r.source[k].seq]]
  BY DEF ClosureOf

LEMMA ClosureChecks ==
    ASSUME NEW r, NEW cell, AsExecuted(r, cell)
    PROVE  /\ r.closure.observed = PlanIds(cell.input) /\ r.closure.count = 3
           /\ r.closure.sourceHealthy /\ r.closure.healthy /\ r.closure.completed
           /\ r.closure.clock = r.clock /\ r.closure.closed = AlertSlo
<1>1. r.closure = ClosureOf(r, PlanIds(cell.input))
  BY DEF AsExecuted
<1>2. r.closure.observed = PlanIds(cell.input)
  <2> DEFINE plan == source_plan(cell.input)
  <2>1. Len(r.source) = 3 /\ \A k \in 1..3 : r.source[k] = SourceRecord(cell.input, k)
    BY SourceChecks
  <2>2. \A k \in 1..3 : r.source[k].id = plan[k].id /\ r.source[k].seq = plan[k].seq
    BY <2>1, RecordIs
  <2> HIDE DEF plan
  <2>3. r.closure.observed = [k \in 1..Len(r.source) |->
                                [id |-> r.source[k].id, seq |-> r.source[k].seq]]
    BY <1>1, ClosureIs
  <2>4. r.closure.observed = [k \in 1..3 |-> [id |-> plan[k].id, seq |-> plan[k].seq]]
    BY <2>1, <2>2, <2>3
  <2> QED
    BY <2>4 DEF PlanIds, plan
<1>3. /\ r.closure.count = r.collector.count
      /\ r.closure.sourceHealthy = r.collector.sourceHealthy
      /\ r.closure.healthy = r.collector.healthy
      /\ r.closure.completed = (r.collector.status = "complete")
      /\ r.closure.closed = r.clock.now /\ r.closure.clock = r.clock
  BY <1>1, ClosureIs
<1>4. /\ r.collector.count = 3 /\ r.collector.sourceHealthy = TRUE
      /\ r.collector.healthy = TRUE /\ r.collector.status = "complete" /\ r.clock.now = AlertSlo
  BY DEF AsExecuted, AlertSlo
<1>5. r.closure.sourceHealthy /\ r.closure.healthy
  BY <1>3, <1>4
<1>6. r.closure.completed
  BY <1>3, <1>4
<1> QED
  BY <1>2, <1>3, <1>4, <1>5, <1>6

\* The simulated clock moves forward to the end of the window.
Reached(moves) == {moves[k][2] : k \in 1..Len(moves)}

LEMMA MovesAreValid ==
    ASSUME NEW cell, NEW c, c.now = AlertSlo, c.moves = LastMoves(cell)
    PROVE  /\ ClockValid(c)
           /\ {100, 200, 300, 800} \subseteq Reached(c.moves)
           /\ BroadFires(cell) => 1200 \in Reached(c.moves)
<1> DEFINE m == c.moves
<1>1. CASE BroadFires(cell)
  <2>1. /\ Len(m) = 6 /\ m # << >>
        /\ m[1] = << 0, 100 >> /\ m[2] = << 100, 200 >> /\ m[3] = << 200, 300 >>
        /\ m[4] = << 300, 800 >> /\ m[5] = << 800, 1200 >> /\ m[6] = << 1200, 2000 >>
    BY <1>1 DEF LastMoves
  <2> HIDE DEF m
  <2>2. \A k \in 1..6 : m[k][1] < m[k][2]
    <3>1. \A k \in 1..6 : k = 1 \/ k = 2 \/ k = 3 \/ k = 4 \/ k = 5 \/ k = 6
      OBVIOUS
    <3> QED
      BY <2>1, <3>1
  <2>3. \A k \in 1..5 : m[k][2] = m[k + 1][1]
    <3>1. \A k \in 1..5 : k = 1 \/ k = 2 \/ k = 3 \/ k = 4 \/ k = 5
      OBVIOUS
    <3> QED
      BY <2>1, <3>1
  <2>4. ClockValid(c)
    BY <2>1, <2>2, <2>3 DEF ClockValid, AlertSlo, m
  <2>5. {100, 200, 300, 800, 1200} \subseteq Reached(m)
    BY <2>1 DEF Reached
  <2> QED
    BY <2>4, <2>5 DEF m
<1>2. CASE ~ BroadFires(cell)
  <2>1. /\ Len(m) = 5 /\ m # << >>
        /\ m[1] = << 0, 100 >> /\ m[2] = << 100, 200 >> /\ m[3] = << 200, 300 >>
        /\ m[4] = << 300, 800 >> /\ m[5] = << 800, 2000 >>
    BY <1>2 DEF LastMoves
  <2> HIDE DEF m
  <2>2. \A k \in 1..5 : m[k][1] < m[k][2]
    <3>1. \A k \in 1..5 : k = 1 \/ k = 2 \/ k = 3 \/ k = 4 \/ k = 5
      OBVIOUS
    <3> QED
      BY <2>1, <3>1
  <2>3. \A k \in 1..4 : m[k][2] = m[k + 1][1]
    <3>1. \A k \in 1..4 : k = 1 \/ k = 2 \/ k = 3 \/ k = 4
      OBVIOUS
    <3> QED
      BY <2>1, <3>1
  <2>4. ClockValid(c)
    BY <2>1, <2>2, <2>3 DEF ClockValid, AlertSlo, m
  <2>5. {100, 200, 300, 800} \subseteq Reached(m)
    BY <2>1 DEF Reached
  <2> QED
    BY <1>2, <2>4, <2>5 DEF m
<1> QED
  BY <1>1, <1>2, Zenon

\* The alerts of an executed result, by their places.
LEMMA AlertsAre ==
    ASSUME NEW r, NEW cell, AsExecuted(r, cell)
    PROVE  /\ Len(r.alerts) \in Nat /\ r.alerts = [k \in 1..Len(r.alerts) |-> r.alerts[k]]
           /\ \A k \in 1..Len(r.alerts) :
                \/ k = 1 /\ NamedFires(cell) /\ r.alerts[k] = NamedAlert
                \/ BroadFires(cell) /\ r.alerts[k] = BroadAlert /\ k = Len(r.alerts)
           /\ NamedFires(cell) => Len(r.alerts) > 0 /\ r.alerts[1] = NamedAlert
           /\ BroadFires(cell) => Len(r.alerts) > 0 /\ r.alerts[Len(r.alerts)] = BroadAlert
           /\ ~ NamedFires(cell) /\ ~ BroadFires(cell) => Len(r.alerts) = 0
<1>1. r.alerts = Raised(NamedFires(cell), BroadFires(cell))
  BY DEF AsExecuted
<1> QED
  BY <1>1, RaisedIs, Zenon

LEMMA ClockChecks ==
    ASSUME NEW r, NEW cell, AsExecuted(r, cell)
    PROVE  ClockBound(r) /\ ClockValid(r.clock)
<1> DEFINE reached == {r.clock.moves[k][2] : k \in 1..Len(r.clock.moves)}
<1>1. /\ ClockValid(r.clock) /\ {100, 200, 300, 800} \subseteq reached
      /\ BroadFires(cell) => 1200 \in reached
  <2>1. r.clock.now = AlertSlo /\ r.clock.moves = LastMoves(cell)
    BY DEF AsExecuted, AlertSlo
  <2>2. /\ ClockValid(r.clock) /\ {100, 200, 300, 800} \subseteq Reached(r.clock.moves)
        /\ BroadFires(cell) => 1200 \in Reached(r.clock.moves)
    BY <2>1, MovesAreValid
  <2> QED
    BY <2>2 DEF Reached
<1> HIDE DEF reached
<1>2. r.closure.clock = r.clock /\ r.closure.closed = AlertSlo
  BY ClosureChecks
<1>3. Len(r.source) = 3 /\ \A k \in 1..3 : r.source[k].at = 100 * k
  <2>1. Len(r.source) = 3 /\ \A k \in 1..3 : r.source[k] = SourceRecord(cell.input, k)
    BY SourceChecks
  <2> QED
    BY <2>1, RecordIs
<1>4. [k \in 1..Len(r.source) |-> r.source[k].at] = << 100, 200, 300 >>
  BY <1>3
<1>5. \A k \in 1..Len(r.source) : r.source[k].at \in reached
  <2>1. \A k \in 1..3 : k = 1 \/ k = 2 \/ k = 3
    OBVIOUS
  <2> QED
    BY <1>1, <1>3, <2>1
<1>6. \A k \in 1..Len(r.alerts) :
          /\ r.alerts[k].at = (IF r.alerts[k].kind = "named" THEN 800 ELSE 1200)
          /\ r.alerts[k].at \in reached
  <2>1. \A k \in 1..Len(r.alerts) :
          r.alerts[k] = NamedAlert \/ (BroadFires(cell) /\ r.alerts[k] = BroadAlert)
    BY AlertsAre
  <2> QED
    BY <1>1, <2>1, AlertIs
<1> QED
  BY <1>1, <1>2, <1>4, <1>5, <1>6 DEF ClockBound, reached

\* The named and the broad alerts of an executed result.
LEMMA NamedAlertsAre ==
    ASSUME NEW r, NEW cell, AsExecuted(r, cell)
    PROVE  Named(r.alerts) = IF NamedFires(cell) THEN << NamedAlert >> ELSE << >>
<1> DEFINE a == r.alerts
           P == {k \in 1..Len(a) : a[k].kind = "named"}
<1>1. /\ Len(a) \in Nat
      /\ \A k \in 1..Len(a) : \/ k = 1 /\ NamedFires(cell) /\ a[k] = NamedAlert
                              \/ a[k] = BroadAlert
      /\ NamedFires(cell) => Len(a) > 0 /\ a[1] = NamedAlert
  BY AlertsAre
<1>2. "named" # "broad" /\ NamedAlert.kind = "named" /\ BroadAlert.kind = "broad"
  BY AlertIs
<1>3. Named(a) = Kept(a, P)
  BY DEF Named, OfKind
<1> HIDE DEF a
<1>4. CASE NamedFires(cell)
  <2>1. P = {1} /\ a[1] = NamedAlert
    BY <1>1, <1>2, <1>4
  <2> HIDE DEF P
  <2>2. Kept(a, P) = << a[1] >>
    BY <2>1, KeptOne
  <2> QED
    BY <1>3, <1>4, <2>1, <2>2 DEF a
<1>5. CASE ~ NamedFires(cell)
  <2>1. P = {}
    BY <1>1, <1>2, <1>5
  <2> HIDE DEF P
  <2> QED
    BY <1>3, <1>5, <2>1, KeptNone DEF a
<1> QED
  BY <1>4, <1>5

LEMMA BroadAlertsAre ==
    ASSUME NEW r, NEW cell, AsExecuted(r, cell), BroadFires(cell)
    PROVE  OfKind(r.alerts, "broad") = << BroadAlert >>
<1> DEFINE a == r.alerts
           P == {k \in 1..Len(a) : a[k].kind = "broad"}
           n == Len(a)
<1>1. /\ n \in Nat /\ n > 0 /\ a[n] = BroadAlert
      /\ \A k \in 1..n : a[k] = NamedAlert \/ (a[k] = BroadAlert /\ k = n)
  BY AlertsAre
<1>2. "named" # "broad" /\ NamedAlert.kind = "named" /\ BroadAlert.kind = "broad"
  BY AlertIs
<1> HIDE DEF a, n
<1>3. P = {n}
  BY <1>1, <1>2 DEF n
<1> HIDE DEF P
<1>4. Kept(a, P) = << a[n] >>
  BY <1>1, <1>3, KeptOne
<1> QED
  BY <1>1, <1>4 DEF OfKind, a, P

LEMMA AlertsAreUnique ==
    ASSUME NEW r, NEW cell, AsExecuted(r, cell) PROVE UniqueAlerts(r.alerts)
<1>1. \A k \in 1..Len(r.alerts) :
        \/ k = 1 /\ r.alerts[k] = NamedAlert
        \/ r.alerts[k] = BroadAlert /\ k = Len(r.alerts)
  BY AlertsAre
<1>2. "named" # "broad" /\ NamedAlert.kind = "named" /\ BroadAlert.kind = "broad"
  BY AlertIs
<1> QED
  BY <1>1, <1>2 DEF UniqueAlerts

\* What the two alerts name.
LEMMA AlertNames ==
    /\ NamedAlert.ids = [k \in 1..Len(Written("attack")) |-> Written("attack")[k].id]
    /\ NamedAlert.seqs = [k \in 1..Len(Written("attack")) |-> Written("attack")[k].seq]
    /\ NamedAlert.evidence = Correlation("named", "attack", Written("attack"), << >>)
    /\ BroadAlert.ids = << SourceRecord("attack", 3).id >>
    /\ BroadAlert.seqs = << SourceRecord("attack", 3).seq >>
    /\ BroadAlert.evidence = Correlation("broad", "attack", << SourceRecord("attack", 3) >>,
                                         BroadAlert.forwarded)
<1>1. NamedAlert.ids = [k \in 1..Len(Written("attack")) |-> Written("attack")[k].id]
  BY DEF NamedAlert, Alert
<1>2. NamedAlert.seqs = [k \in 1..Len(Written("attack")) |-> Written("attack")[k].seq]
  BY DEF NamedAlert, Alert
<1>3. NamedAlert.evidence = Correlation("named", "attack", Written("attack"), << >>)
  BY DEF NamedAlert, Alert
<1>4. BroadAlert.ids = << SourceRecord("attack", 3).id >>
  BY DEF BroadAlert, Alert
<1>5. BroadAlert.seqs = << SourceRecord("attack", 3).seq >>
  BY DEF BroadAlert, Alert
<1>6. BroadAlert.evidence = Correlation("broad", "attack", << SourceRecord("attack", 3) >>,
                                        BroadAlert.forwarded)
  BY DEF BroadAlert, Alert
<1> QED
  BY <1>1, <1>2, <1>3, <1>4, <1>5, <1>6

LEMMA AttackIds ==
    /\ SourceRecord("attack", 1).id = "replay-1" /\ SourceRecord("attack", 2).id = "replay-2"
    /\ SourceRecord("attack", 3).id = "replay-3"
  BY RecordIs, PlanIs

LEMMA NamedResolves ==
    ASSUME NEW r, NEW cell, AsExecuted(r, cell), NamedFires(cell)
    PROVE  AlertResolves(NamedAlert, r)
<1> DEFINE P == {k \in 1..Len(r.source) : Names(NamedAlert, r.source[k].id)}
           events == Kept(r.source, P)
           ids == NamedAlert.ids
<1>1. r.source = Written("attack") /\ r.action = "attack"
  BY DEF AsExecuted, NamedFires
<1>2. /\ Len(r.source) = 3 /\ r.source = [k \in 1..3 |-> r.source[k]]
      /\ ids = [k \in 1..3 |-> r.source[k].id]
      /\ NamedAlert.seqs = [k \in 1..3 |-> r.source[k].seq]
  <2>1. Len(r.source) = 3
    BY <1>1, WrittenIs
  <2>2. r.source = [k \in 1..3 |-> r.source[k]]
    BY <1>1 DEF Written
  <2> QED
    BY <1>1, <2>1, <2>2, AlertNames
<1>3. Len(ids) = 3 /\ ids # << >>
  BY <1>2
<1>4. P = 1..3
  <2>1. \A k \in 1..3 : Names(NamedAlert, r.source[k].id)
    <3> SUFFICES ASSUME NEW k \in 1..3 PROVE \E n \in 1..Len(ids) : ids[n] = r.source[k].id
      BY DEF Names
    <3>1. k \in 1..Len(ids) /\ ids[k] = r.source[k].id
      BY <1>2, <1>3
    <3> QED
      BY <3>1
  <2> QED
    BY <1>2, <2>1
<1> HIDE DEF P
<1>5. events = r.source
  BY <1>2, <1>4, KeptAll
<1> HIDE DEF events
<1>6. CorrelationValid(NamedAlert, events)
  BY <1>1, <1>5, AlertIs, AlertNames DEF CorrelationValid
<1>7. NamedAlert.seqs = [k \in 1..Len(events) |-> events[k].seq]
  BY <1>2, <1>5
<1> HIDE DEF ids
<1>8. NamedAlert.ids # << >> /\ Len(events) = Len(NamedAlert.ids)
  BY <1>2, <1>3, <1>5 DEF ids
<1>9. /\ NamedAlert.action = r.action /\ NamedAlert.kind = "named"
      /\ NamedAlert.forwarded = << >>
  BY <1>1, AlertIs
<1> QED
  BY <1>5, <1>6, <1>7, <1>8, <1>9 DEF AlertResolves, events, P

LEMMA BroadResolves ==
    ASSUME NEW r, NEW cell, AsExecuted(r, cell), BroadFires(cell)
    PROVE  AlertResolves(BroadAlert, r)
<1> DEFINE P == {k \in 1..Len(r.source) : Names(BroadAlert, r.source[k].id)}
           Q == {k \in 1..Len(r.forwarded) : Names(BroadAlert, r.forwarded[k].event.id)}
           events == Kept(r.source, P)
           copies == Kept(r.forwarded, Q)
           third == SourceRecord("attack", 3)
<1>1. /\ r.source = Written("attack") /\ r.action = "attack"
      /\ r.forwarded = ForwardedOf(Written("attack"))
  BY DEF AsExecuted, BroadFires, Sent
<1>2. Len(r.source) = 3 /\ \A k \in 1..3 : r.source[k] = SourceRecord("attack", k)
  BY <1>1, WrittenIs
<1>3. /\ Len(r.forwarded) = 3
      /\ \A k \in 1..3 : r.forwarded[k] =
                           [event |-> SourceRecord("attack", k), route |-> "fallback"]
  <2>1. /\ Len(ForwardedOf(Written("attack"))) = 3
        /\ \A k \in 1..3 : ForwardedOf(Written("attack"))[k] =
                             [event |-> SourceRecord("attack", k), route |-> "fallback"]
    BY ForwardedIs, Zenon
  <2> QED
    BY <1>1, <2>1
<1>4. \A id : Names(BroadAlert, id) <=> id = third.id
  <2>1. BroadAlert.ids = << third.id >>
    BY AlertNames
  <2>2. Len(BroadAlert.ids) = 1 /\ BroadAlert.ids[1] = third.id /\ BroadAlert.ids # << >>
    BY <2>1
  <2> QED
    BY <2>2 DEF Names
<1>5. \A k \in 1..3 : SourceRecord("attack", k).id = third.id <=> k = 3
  <2>1. \A k \in 1..3 : k = 1 \/ k = 2 \/ k = 3
    OBVIOUS
  <2>2. "replay-1" # "replay-3" /\ "replay-2" # "replay-3"
    OBVIOUS
  <2> QED
    BY <2>1, <2>2, AttackIds
<1> HIDE DEF third
<1>6. P = {3}
  BY <1>2, <1>4, <1>5
<1>7. Q = {3}
  BY <1>3, <1>4, <1>5
<1> HIDE DEF P, Q
<1>8. events = << third >>
  BY <1>2, <1>6, KeptOne DEF third
<1>9. copies = << [event |-> third, route |-> "fallback"] >>
  BY <1>3, <1>7, KeptOne DEF third
<1> HIDE DEF events, copies
<1>10. third.type = "sensitive-read"
  BY RecordIs, PlanIs DEF third
<1>11. /\ BroadAlert.forwarded = copies /\ BroadAlert.kind = "broad"
       /\ BroadAlert.action = r.action /\ copies # << >>
  BY <1>1, <1>9, AlertIs DEF third
<1>12. CorrelationValid(BroadAlert, events)
  BY <1>8, AlertIs, AlertNames DEF CorrelationValid, third
<1>13. BroadAlert.ids = << third.id >> /\ BroadAlert.seqs = << third.seq >>
  BY AlertNames DEF third
<1>14. BroadAlert.seqs = [k \in 1..Len(events) |-> events[k].seq]
  BY <1>8, <1>13
<1>15. /\ BroadAlert.ids # << >> /\ Len(events) = Len(BroadAlert.ids)
       /\ Len(events) = 1 /\ events[1].type = "sensitive-read"
  BY <1>8, <1>10, <1>13
<1> QED
  BY <1>11, <1>12, <1>14, <1>15 DEF AlertResolves, events, copies, P, Q

LEMMA AlertChecks ==
    ASSUME NEW r, NEW cell \in DCells, AsExecuted(r, cell) PROVE AlertGraphValid(r)
<1>1. r.forwarded # << >> => ForwardingValid(r.forwarded, r.source, r.action)
  BY ForwardingIs DEF AsExecuted, Sent
<1>2. \A k \in 1..Len(r.alerts) : AlertResolves(r.alerts[k], r)
  BY AlertsAre, NamedResolves, BroadResolves
<1> QED
  BY <1>1, <1>2, AlertsAreUnique DEF AlertGraphValid

LEMMA AttestationChecks ==
    ASSUME NEW r, NEW cell, AsExecuted(r, cell)
    PROVE  AttestationValid(r.attested, cell.target = "active", cell.sham = "reload")
  BY DEF AsExecuted, AttestationValid, InstancesOf, ReloadOf, PreRow

LEMMA ReadbackChecks ==
    ASSUME NEW r, NEW cell, AsExecuted(r, cell)
    PROVE  /\ DetectorValid(r, cell.target = "active") /\ QueryValid(r) /\ CollectorValid(r)
<1>1. Len(r.source) = 3 /\ r.source # << >>
  <2>1. Len(r.source) = 3
    BY SourceChecks
  <2> QED
    BY <2>1
<1>2. DetectorValid(r, cell.target = "active")
  BY <1>1 DEF AsExecuted, DetectorValid
<1>3. QueryValid(r)
  BY DEF AsExecuted, QueryValid, AlertSlo
<1>4. CollectorValid(r)
  BY <1>1 DEF AsExecuted, CollectorValid
<1> QED
  BY <1>2, <1>3, <1>4

LEMMA ExecutedIsClosed ==
    ASSUME NEW r, NEW cell \in DCells, AsExecuted(r, cell)
    PROVE  ClosureValid(r, cell.input, cell.target = "active", cell.sham = "reload")
<1>1. r.closure = ClosureOf(r, PlanIds(cell.input))
  BY DEF AsExecuted
<1> QED
  BY <1>1, ClosureChecks, SourceChecks, AlertChecks, ClockChecks, ReadbackChecks,
     AttestationChecks DEF ClosureValid

----------------------------------------------------------------------------
(* What an executed result shows *)

LEMMA ExecutedIsProven ==
    ASSUME NEW r, NEW cell \in DCells, AsExecuted(r, cell), NEW closed, closed = TRUE
    PROVE  NamedProven(r, cell.input, cell.target = "active", closed) <=> NamedFires(cell)
<1> DEFINE active == cell.target = "active"
           named == Named(r.alerts)
<1>1. named = IF NamedFires(cell) THEN << NamedAlert >> ELSE << >>
  BY NamedAlertsAre
<1>2. CASE ~ NamedFires(cell)
  <2>1. named = << >>
    BY <1>1, <1>2
  <2>2. Len(named) # 1
    BY <2>1
  <2> QED
    BY <1>2, <2>2 DEF NamedProven
<1>3. CASE NamedFires(cell)
  <2>1. Len(named) = 1 /\ named[1] = NamedAlert
    BY <1>1, <1>3
  <2>2. cell.input = "attack" /\ active /\ r.source = Written("attack") /\ r.action = "attack"
    BY <1>3 DEF NamedFires, AsExecuted
  <2>3. /\ NamedAlert.forwarded = << >> /\ NamedAlert.action = r.action
        /\ CorrelationValid(NamedAlert, r.source)
    BY <2>2, AlertIs, AlertNames DEF CorrelationValid
  <2>4. /\ NamedAlert.ids = [k \in 1..Len(r.source) |-> r.source[k].id]
        /\ NamedAlert.seqs = [k \in 1..Len(r.source) |-> r.source[k].seq]
    BY <2>2, AlertNames
  <2>5. NamedAlert.at <= AlertSlo /\ \A k \in 1..Len(r.source) : NamedAlert.at >= r.source[k].at
    <3>1. Len(r.source) = 3 /\ \A k \in 1..3 : r.source[k].at = 100 * k
      BY SourceChecks, RecordIs
    <3> QED
      BY <3>1, AlertIs DEF AlertSlo
  <2>6. ExactPattern(r.source)
    BY <2>2, PatternIs
  <2>7. SourceBound(r) /\ SourceComplete(r, cell.input) /\ ClockValid(r.clock)
    BY SourceChecks, ClockChecks
  <2>8. DetectorValid(r, active) /\ QueryValid(r) /\ UniqueAlerts(r.alerts)
    BY ReadbackChecks, AlertsAreUnique
  <2>9. r.detector.observed = << "named" >>
    <3>1. r.detector.observed = AlertIds(named)
      BY DEF AsExecuted
    <3>2. AlertIds(<< NamedAlert >>) = << "named" >>
      BY AlertIs DEF AlertIds
    <3> QED
      BY <1>1, <1>3, <3>1, <3>2
  <2> HIDE DEF active, named
  <2>10. NamedProven(r, cell.input, active, closed)
    BY <2>1, <2>2, <2>3, <2>4, <2>5, <2>6, <2>7, <2>8, <2>9 DEF NamedProven, named
  <2> QED
    BY <1>3, <2>10 DEF active
<1> QED
  BY <1>2, <1>3

LEMMA ExecutedExists ==
    ASSUME NEW r, NEW cell \in DCells, AsExecuted(r, cell)
    PROVE  AlertExists(r) <=> NamedFires(cell) \/ BroadFires(cell)
<1>1. CASE ~ NamedFires(cell) /\ ~ BroadFires(cell)
  <2>1. Len(r.alerts) = 0
    BY <1>1, AlertsAre
  <2> QED
    BY <1>1, <2>1 DEF AlertExists
<1>2. ASSUME NamedFires(cell) \/ BroadFires(cell) PROVE AlertExists(r)
  <2>1. PICK k \in 1..Len(r.alerts) :
          \/ NamedFires(cell) /\ r.alerts[k] = NamedAlert
          \/ BroadFires(cell) /\ r.alerts[k] = BroadAlert
    <3>1. Len(r.alerts) \in Nat
      BY AlertsAre
    <3>2. CASE NamedFires(cell)
      <4>1. Len(r.alerts) > 0 /\ r.alerts[1] = NamedAlert
        BY <3>2, AlertsAre
      <4>2. 1 \in 1..Len(r.alerts)
        BY <3>1, <4>1
      <4> QED
        BY <3>2, <4>1, <4>2
    <3>3. CASE BroadFires(cell)
      <4>1. Len(r.alerts) > 0 /\ r.alerts[Len(r.alerts)] = BroadAlert
        BY <3>3, AlertsAre
      <4>2. Len(r.alerts) \in 1..Len(r.alerts)
        BY <3>1, <4>1
      <4> QED
        BY <3>3, <4>1, <4>2
    <3> QED
      BY <1>2, <3>2, <3>3
  <2>2. /\ r.source = Written("attack") /\ Len(r.source) = 3
        /\ \A j \in 1..3 : /\ r.source[j] = SourceRecord("attack", j)
                           /\ r.source[j].at = 100 * j
    <3>1. r.source = Written("attack")
      BY <1>2 DEF AsExecuted, NamedFires, BroadFires
    <3> QED
      BY <3>1, WrittenIs, RecordIs
  <2> DEFINE a == r.alerts[k]
  <2>3. CASE a = NamedAlert
    <3>1. a.ids = [j \in 1..3 |-> r.source[j].id] /\ a.at = 800
      BY <2>2, <2>3, AlertNames, AlertIs
    <3> HIDE DEF a
    <3>2. Len(a.ids) = 3 /\ a.ids # << >> /\ \A i \in 1..3 : a.ids[i] = r.source[i].id
      BY <3>1
    <3>3. a.at \in 0..AlertSlo
      BY <3>1 DEF AlertSlo
    <3>4. \A i \in 1..Len(a.ids) : \E j \in 1..Len(r.source) :
             r.source[j].id = a.ids[i] /\ r.source[j].at <= a.at
      <4>1. \A i \in 1..3 : r.source[i].at <= a.at
        BY <2>2, <3>1
      <4> QED
        BY <2>2, <3>2, <4>1
    <3> QED
      BY <3>2, <3>3, <3>4 DEF AlertExists, a
  <2>4. CASE a = BroadAlert
    <3>1. a.ids = << r.source[3].id >> /\ a.at = 1200
      BY <2>2, <2>4, AlertNames, AlertIs
    <3> HIDE DEF a
    <3>2. Len(a.ids) = 1 /\ a.ids # << >> /\ a.ids[1] = r.source[3].id
      BY <3>1
    <3>3. a.at \in 0..AlertSlo
      BY <3>1 DEF AlertSlo
    <3>4. \A i \in 1..Len(a.ids) : \E j \in 1..Len(r.source) :
             r.source[j].id = a.ids[i] /\ r.source[j].at <= a.at
      BY <2>2, <3>1, <3>2
    <3> QED
      BY <3>2, <3>3, <3>4 DEF AlertExists, a
  <2> QED
    BY <2>1, <2>3, <2>4
<1> QED
  BY <1>1, <1>2

LEMMA FallbackIsBound ==
    ASSUME NEW r, NEW cell \in DCells, AsExecuted(r, cell), BroadFires(cell),
           NEW forwarded, forwarded = TRUE
    PROVE  FallbackAlertBound(r, forwarded)
<1> DEFINE broad == OfKind(r.alerts, "broad")
           copies == BroadForwarded(r.forwarded)
           P == {k \in 1..Len(r.source) : r.source[k].id = copies[1].event.id}
           origin == Kept(r.source, P)
           third == SourceRecord("attack", 3)
<1>1. /\ r.source = Written("attack") /\ r.action = "attack"
      /\ r.forwarded = ForwardedOf(Written("attack"))
  BY DEF AsExecuted, BroadFires, Sent
<1>2. copies = << [event |-> third, route |-> "fallback"] >>
  BY <1>1, BroadIs
<1>3. broad = << BroadAlert >>
  BY BroadAlertsAre
<1> HIDE DEF copies, broad
<1>4. Len(copies) = 1 /\ copies[1].event = third
  BY <1>2
<1>5. Len(r.source) = 3 /\ \A k \in 1..3 : r.source[k] = SourceRecord("attack", k)
  BY <1>1, WrittenIs
<1>6. P = {3}
  <2>1. \A k \in 1..3 : k = 1 \/ k = 2 \/ k = 3
    OBVIOUS
  <2>2. "replay-1" # "replay-3" /\ "replay-2" # "replay-3"
    OBVIOUS
  <2> QED
    BY <1>4, <1>5, <2>1, <2>2, AttackIds
<1> HIDE DEF P
<1>7. origin = << third >>
  BY <1>5, <1>6, KeptOne
<1> HIDE DEF origin
<1>8. Len(broad) = 1 /\ broad[1] = BroadAlert /\ origin # << >> /\ origin[1] = third
  BY <1>3, <1>7
<1>9. /\ BroadAlert.action = r.action /\ BroadAlert.forwarded = copies
      /\ BroadAlert.ids = << third.id >> /\ BroadAlert.seqs = << third.seq >>
  BY <1>1, <1>2, AlertIs, AlertNames
<1>10. CorrelationValid(BroadAlert, origin)
  BY <1>7, AlertIs, AlertNames DEF CorrelationValid
<1>11. BroadAlert.at \in 0..AlertSlo /\ BroadAlert.at >= third.at
  <2>1. third.at = 100 * 3
    BY RecordIs
  <2> QED
    BY <2>1, AlertIs DEF AlertSlo
<1> HIDE DEF third
<1> QED
  BY <1>4, <1>8, <1>9, <1>10, <1>11 DEF FallbackAlertBound, broad, copies, origin, P

LEMMA TelemetryIs ==
    ASSUME NEW r, NEW cell \in DCells, AsExecuted(r, cell), BroadFires(cell)
    PROVE  CollectorValid(r) /\ ForwardingValid(r.forwarded, r.source, r.action)
<1>1. /\ r.source = Written("attack") /\ r.action = "attack"
      /\ r.forwarded = ForwardedOf(Written("attack"))
  BY DEF AsExecuted, BroadFires, Sent
<1> QED
  BY <1>1, ForwardingIs, ReadbackChecks

\* What two of the events claim.
LEMMA EventsSay ==
    ASSUME NEW r, NEW active, NEW reloaded, NEW e, e = DetectionEvents(r, active, reloaded)
    PROVE  LET closed == ClosureValid(r, r.cell.input, active, reloaded)
           IN /\ e[2].proven <=> NamedProven(r, r.cell.input, active, closed)
              /\ e[4].window <=> closed
<1> DEFINE closed == ClosureValid(r, r.cell.input, active, reloaded)
           proven == NamedProven(r, r.cell.input, active, closed)
           e2 == [stage |-> "target", active |-> active, named |-> Len(Named(r.alerts)),
                  proven |-> proven, detector |-> DetectorValid(r, active)]
           e4 == [stage |-> "outcome", alerts |-> AlertIds(r.alerts), any |-> AlertExists(r),
                  quiet |-> r.cell.input = "benign" /\ r.alerts = << >>,
                  window |-> closed, absence |-> Absence(r, closed)]
<1>1. e[2] = e2 /\ e[4] = e4
  BY DEF DetectionEvents
<1>2. e2.proven = proven /\ e4.window = closed
  OBVIOUS
<1> HIDE DEF e2, e4
<1> QED
  BY <1>1, <1>2

----------------------------------------------------------------------------
(* What the assessment makes of a result *)

\* The parts of a verdict on a result.
StateOf(r) ==
    TargetState(r, NamedProven(r, "attack", r.cell.target = "active", ResultClosureValid(r)),
                Absence(r, ResultClosureValid(r)))
TelemetryOf(r) == /\ r.action = "attack" /\ r.cell.fallback = "forward"
                  /\ CollectorValid(r) /\ ForwardingValid(r.forwarded, r.source, r.action)
ClassOf(r) == DetectionClass(StateOf(r), TelemetryOf(r), FallbackAlertBound(r, TelemetryOf(r)),
                             AlertExists(r))

LEMMA ExecutedIsClassified ==
    ASSUME NEW r, NEW cell \in DCells, AsExecuted(r, cell), cell.input = "attack"
    PROVE  ClassOf(r) = DetectionResidual(cell)
<1>1. r.cell = cell /\ r.action = "attack"
  BY DEF AsExecuted
<1>2. ResultClosureValid(r)
  BY <1>1, ExecutedIsClosed DEF ResultClosureValid
<1>3. NamedProven(r, "attack", r.cell.target = "active", ResultClosureValid(r)) <=> NamedFires(cell)
  <2>1. ResultClosureValid(r) = TRUE
    BY <1>2
  <2>2. NamedProven(r, cell.input, cell.target = "active", ResultClosureValid(r))
          <=> NamedFires(cell)
    BY <2>1, ExecutedIsProven, Zenon
  <2> QED
    BY <1>1, <2>2
<1>4. Named(r.alerts) = IF NamedFires(cell) THEN << NamedAlert >> ELSE << >>
  BY NamedAlertsAre
<1>5. AlertExists(r) <=> NamedFires(cell) \/ BroadFires(cell)
  BY ExecutedExists
<1>6. CASE NamedFires(cell)
  <2>1. StateOf(r) = "supported"
    BY <1>3, <1>6 DEF StateOf, TargetState
  <2> QED
    BY <1>6, <2>1 DEF ClassOf, DetectionClass, DetectionResidual, NamedFires
<1>7. CASE ~ NamedFires(cell)
  <2>1. Named(r.alerts) = << >>
    BY <1>4, <1>7
  <2>2. Absence(r, ResultClosureValid(r)) = "concluded"
    BY <1>2, <2>1 DEF Absence
  <2>3. StateOf(r) = "refuted"
    BY <1>3, <1>7, <2>2 DEF StateOf, TargetState
  <2>4. cell.target # "active"
    BY <1>7 DEF NamedFires
  <2>5. CASE BroadFires(cell)
    <3>1. TelemetryOf(r)
      BY <1>1, <2>5, TelemetryIs DEF TelemetryOf, BroadFires
    <3>2. TelemetryOf(r) = TRUE
      BY <3>1
    <3>3. FallbackAlertBound(r, TelemetryOf(r))
      BY <2>5, <3>2, FallbackIsBound
    <3> QED
      BY <1>5, <2>3, <2>4, <2>5, <3>1, <3>3
         DEF ClassOf, DetectionClass, DetectionResidual, BroadFires
  <2>6. CASE ~ BroadFires(cell)
    BY <1>5, <1>7, <2>3, <2>4, <2>6 DEF ClassOf, DetectionClass, DetectionResidual, BroadFires
  <2> QED
    BY <2>5, <2>6
<1> QED
  BY <1>6, <1>7

\* Alerts with the same identities are of the named rule alike.
LEMMA SameKinds ==
    ASSUME NEW a, NEW b, Len(b) \in Nat, AlertIds(a) = AlertIds(b)
    PROVE  /\ 1..Len(a) = 1..Len(b) /\ \A k \in 1..Len(b) : a[k].kind = b[k].kind
           /\ Named(a) = << >> <=> Named(b) = << >>
<1>1. 1..Len(a) = 1..Len(b)
  <2>1. DOMAIN AlertIds(a) = 1..Len(a) /\ DOMAIN AlertIds(b) = 1..Len(b)
    BY DEF AlertIds
  <2> QED
    BY <2>1
<1>2. \A k \in 1..Len(b) : a[k].kind = b[k].kind
  <2> SUFFICES ASSUME NEW k \in 1..Len(b) PROVE a[k].kind = b[k].kind
    OBVIOUS
  <2>1. AlertIds(a)[k] = a[k].kind /\ AlertIds(b)[k] = b[k].kind
    BY <1>1 DEF AlertIds
  <2> QED
    BY <2>1
<1> DEFINE P == {k \in 1..Len(a) : a[k].kind = "named"}
           Q == {k \in 1..Len(b) : b[k].kind = "named"}
<1>3. P = Q /\ P \subseteq 1..Len(b)
  BY <1>1, <1>2
<1>4. Named(a) = Kept(a, P) /\ Named(b) = Kept(b, Q)
  BY DEF Named, OfKind
<1> HIDE DEF P, Q
<1>5. (Kept(a, P) = << >> <=> P = {}) /\ (Kept(b, Q) = << >> <=> Q = {})
  BY <1>3, KeptSome
<1> QED
  BY <1>1, <1>2, <1>3, <1>4, <1>5

\* What a closed window says of the result it closes.
LEMMA ClosedBinds ==
    ASSUME NEW r, ResultClosureValid(r)
    PROVE  /\ r.action = r.cell.input /\ r.closure = ClosureOf(r, PlanIds(r.cell.input))
           /\ r.query.observed = AlertIds(r.alerts)
           /\ r.detector.observed = AlertIds(Named(r.alerts))
           /\ 1..Len(r.source) = 1..3 /\ \A k \in 1..3 : r.source[k].at = 100 * k
           /\ \A k \in 1..Len(r.alerts) :
                /\ AlertResolves(r.alerts[k], r)
                /\ r.alerts[k].at = (IF r.alerts[k].kind = "named" THEN 800 ELSE 1200)
<1>1. /\ r.action = r.cell.input /\ r.closure = ClosureOf(r, PlanIds(r.cell.input))
      /\ QueryValid(r) /\ DetectorValid(r, r.cell.target = "active")
      /\ ClockBound(r) /\ AlertGraphValid(r)
  BY DEF ResultClosureValid, ClosureValid
<1>2. r.query.observed = AlertIds(r.alerts) /\ r.detector.observed = AlertIds(Named(r.alerts))
  BY <1>1 DEF QueryValid, DetectorValid
<1>3. \A k \in 1..Len(r.alerts) :
        /\ AlertResolves(r.alerts[k], r)
        /\ r.alerts[k].at = (IF r.alerts[k].kind = "named" THEN 800 ELSE 1200)
  BY <1>1 DEF AlertGraphValid, ClockBound
<1> DEFINE ats == [k \in 1..Len(r.source) |-> r.source[k].at]
<1>4. ats = << 100, 200, 300 >>
  BY <1>1 DEF ClockBound
<1>5. DOMAIN ats = 1..Len(r.source) /\ \A k \in 1..Len(r.source) : ats[k] = r.source[k].at
  OBVIOUS
<1> HIDE DEF ats
<1>6. DOMAIN ats = 1..3 /\ ats[1] = 100 /\ ats[2] = 200 /\ ats[3] = 300
  BY <1>4
<1>7. 1..Len(r.source) = 1..3
  BY <1>5, <1>6
<1>8. \A k \in 1..3 : r.source[k].at = 100 * k
  <2>1. \A k \in 1..3 : k = 1 \/ k = 2 \/ k = 3
    OBVIOUS
  <2> QED
    BY <1>5, <1>6, <1>7, <2>1
<1> QED
  BY <1>1, <1>2, <1>3, <1>7, <1>8

\* In a closed window an alert of the broad rule exists.
LEMMA BroadExists ==
    ASSUME NEW r, ResultClosureValid(r), NEW n \in 1..Len(r.alerts), r.alerts[n].kind = "broad"
    PROVE  AlertExists(r)
<1> DEFINE a == r.alerts[n]
           P == {k \in 1..Len(r.source) : Names(a, r.source[k].id)}
           events == Kept(r.source, P)
<1>1. /\ 1..Len(r.source) = 1..3 /\ \A k \in 1..3 : r.source[k].at = 100 * k
      /\ AlertResolves(a, r) /\ a.at = 1200
  BY ClosedBinds
<1>2. a.kind # "named" /\ a.kind = "broad"
  OBVIOUS
<1> HIDE DEF a
<1>3. a.ids # << >> /\ Len(events) = Len(a.ids) /\ Len(events) = 1
  BY <1>1, <1>2 DEF AlertResolves
<1>4. P \subseteq 1..3
  BY <1>1
<1> HIDE DEF P
<1>5. PICK p \in P : TRUE
  BY <1>3, <1>4, KeptSome
<1>6. p \in 1..3 /\ Names(a, r.source[p].id)
  BY <1>4, <1>5 DEF P
<1>7. Len(a.ids) = 1
  BY <1>3
<1>8. a.ids[1] = r.source[p].id
  BY <1>6, <1>7 DEF Names
<1>9. r.source[p].at <= a.at /\ a.at \in 0..AlertSlo
  BY <1>1, <1>6 DEF AlertSlo
<1>10. \A i \in 1..Len(a.ids) : \E j \in 1..Len(r.source) :
          r.source[j].id = a.ids[i] /\ r.source[j].at <= a.at
  BY <1>1, <1>6, <1>7, <1>8, <1>9
<1> QED
  BY <1>3, <1>9, <1>10 DEF AlertExists, a

\* A closed window over alerts with the identities that were raised shows what
\* the trial showed, or nothing.
LEMMA SameAlertsSameClass ==
    ASSUME NEW r, NEW t, NEW cell \in DCells, AsExecuted(t, cell), cell.input = "attack",
           ResultClosureValid(r), AlertIds(r.alerts) = AlertIds(t.alerts)
    PROVE  ClassOf(r) \in {"indeterminate", DetectionResidual(cell)}
<1>1. Len(t.alerts) \in Nat
  BY AlertsAre
<1>2. /\ 1..Len(r.alerts) = 1..Len(t.alerts)
      /\ \A k \in 1..Len(t.alerts) : r.alerts[k].kind = t.alerts[k].kind
      /\ Named(r.alerts) = << >> <=> Named(t.alerts) = << >>
  BY <1>1, SameKinds
<1>3. Named(t.alerts) = IF NamedFires(cell) THEN << NamedAlert >> ELSE << >>
  BY NamedAlertsAre
<1>4. CASE NamedFires(cell)
  <2>1. Named(t.alerts) = << NamedAlert >>
    BY <1>3, <1>4
  <2>2. Named(r.alerts) # << >>
    BY <1>2, <2>1
  <2>3. Absence(r, ResultClosureValid(r)) = "present"
    BY <2>2 DEF Absence
  <2>4. StateOf(r) \in {"supported", "indeterminate"}
    BY <2>3 DEF StateOf, TargetState
  <2> QED
    BY <1>4, <2>4 DEF ClassOf, DetectionClass, DetectionResidual, NamedFires
<1>5. CASE ~ NamedFires(cell)
  <2>1. Named(r.alerts) = << >>
    BY <1>2, <1>3, <1>5
  <2>2. ~ NamedProven(r, "attack", r.cell.target = "active", ResultClosureValid(r))
    <3>1. Len(Named(r.alerts)) # 1
      BY <2>1
    <3> QED
      BY <3>1 DEF NamedProven
  <2>3. StateOf(r) # "supported"
    BY <2>2 DEF StateOf, TargetState
  <2>4. cell.target # "active"
    BY <1>5 DEF NamedFires
  <2>5. CASE BroadFires(cell)
    <3> DEFINE n == Len(t.alerts)
    <3>1. n > 0 /\ t.alerts[n] = BroadAlert
      BY <2>5, AlertsAre
    <3>2. n \in 1..n
      BY <1>1, <3>1
    <3>3. n \in 1..Len(r.alerts) /\ r.alerts[n].kind = "broad"
      BY <1>2, <3>1, <3>2, AlertIs
    <3>4. AlertExists(r)
      BY <3>3, BroadExists
    <3> QED
      BY <2>3, <2>4, <2>5, <3>4 DEF ClassOf, DetectionClass, DetectionResidual, BroadFires
  <2>6. CASE ~ BroadFires(cell)
    <3>1. Len(t.alerts) = 0
      BY <1>5, <2>6, AlertsAre
    <3>2. ~ AlertExists(r)
      BY <1>2, <3>1 DEF AlertExists
    <3> QED
      BY <2>3, <2>4, <2>6, <3>2 DEF ClassOf, DetectionClass, DetectionResidual, BroadFires
  <2> QED
    BY <2>5, <2>6
<1> QED
  BY <1>4, <1>5

\* A closed window keeps the identities of its alerts unless the alerts, the
\* query and the closure are all rewritten.
LEMMA IdentitiesKept ==
    ASSUME NEW r, NEW t, NEW cell, AsExecuted(t, cell), ResultClosureValid(r),
           r.alerts = t.alerts \/ r.query = t.query \/ r.closure = t.closure
    PROVE  AlertIds(r.alerts) = AlertIds(t.alerts)
<1>1. r.query.observed = AlertIds(r.alerts) /\ r.closure = ClosureOf(r, PlanIds(r.cell.input))
  BY ClosedBinds
<1>2. t.query.observed = AlertIds(t.alerts) /\ t.closure = ClosureOf(t, PlanIds(cell.input))
  BY DEF AsExecuted
<1>3. r.closure.query = r.query
  BY <1>1, ClosureIs
<1>4. t.closure.query = t.query
  BY <1>2, ClosureIs
<1>5. CASE r.alerts = t.alerts
  BY <1>5
<1>6. CASE r.query = t.query
  BY <1>1, <1>2, <1>6
<1>7. CASE r.closure = t.closure
  BY <1>1, <1>2, <1>3, <1>4, <1>7
<1> QED
  BY <1>5, <1>6, <1>7

LEMMA ConcludedIsRewritten ==
    ASSUME NEW r, NEW t, NEW cell \in DCells, AsExecuted(t, cell),
           Absence(r, ResultClosureValid(r)) = "concluded", Named(t.alerts) # << >>
    PROVE  /\ r.alerts # t.alerts /\ r.detector # t.detector /\ r.query # t.query
           /\ r.closure # t.closure
<1>1. Named(r.alerts) = << >> /\ ResultClosureValid(r)
  BY DEF Absence
<1>2. Len(t.alerts) \in Nat
  BY AlertsAre
<1>3. AlertIds(r.alerts) # AlertIds(t.alerts)
  BY <1>1, <1>2, SameKinds
<1>4. r.detector # t.detector
  <2>1. r.detector.observed = AlertIds(Named(r.alerts))
    BY <1>1, ClosedBinds
  <2>2. t.detector.observed = AlertIds(Named(t.alerts))
    BY DEF AsExecuted
  <2>3. Named(t.alerts) = << NamedAlert >>
    BY NamedAlertsAre
  <2>4. AlertIds(<< NamedAlert >>) # AlertIds(<< >>)
    BY DEF AlertIds
  <2> QED
    BY <1>1, <2>1, <2>2, <2>3, <2>4
<1> QED
  BY <1>1, <1>3, <1>4, IdentitiesKept

----------------------------------------------------------------------------
(* The detection experiment keeps its invariant *)

\* What was executed, and what no rewrite touches.
TruthHolds ==
    /\ AsExecuted(dtTruth, dtCell)
    /\ dtTruth.events[2].proven <=> NamedFires(dtCell)
    /\ dtTruth.events[4].window
    /\ "action" \in DOMAIN dtResult /\ dtResult.action = dtCell.input

DetectionInv ==
    /\ dtCell \in DCells
    /\ TablesHold
    /\ dtStep \in {"done", "assessed"} => TruthHolds
    /\ dtStep # "assessed" => dtVerdict = Nil
    /\ DetectionIsClassified

LEMMA DetectionInitially == DTInit => DetectionInv
  BY DEF DTInit, DetectionInv, TablesHold, DetectionIsClassified

\* No rewrite changes the action of a result.
LEMMA ForgedKeepsAction ==
    ASSUME NEW r, "action" \in DOMAIN r, NEW x \in Forged(r)
    PROVE  "action" \in DOMAIN x /\ x.action = r.action
<1> DEFINE d1 == [r EXCEPT !.detector.observed = AlertIds(Named(r.alerts))]
           d2 == [r EXCEPT !.detector.active = ~ @]
           d3 == [r EXCEPT !.detector.pending = 1]
           d4 == [r EXCEPT !.detector.processed = r.source]
           q1 == [r EXCEPT !.query.observed = AlertIds(r.alerts)]
           f1 == [r EXCEPT !.forwarded = << >>]
           f2 == [r EXCEPT !.forwarded = ForwardedOf(r.source)]
           s1 == [r EXCEPT !.source = SubSeq(@, 1, 2)]
           h1 == [r EXCEPT !.collector.healthy = FALSE]
           n1 == [r EXCEPT !.clock.now = 1200]
           c1 == [r EXCEPT !.cell.input = "attack"]
           c2 == [r EXCEPT !.cell.target = "active"]
           c3 == [r EXCEPT !.cell.target = "disabled"]
           c4 == [r EXCEPT !.cell.fallback = "forward"]
           c5 == [r EXCEPT !.cell.fallback = "drop"]
           a1 == [r EXCEPT !.attested = AttestationOf(
                    [k \in 1..Len(@.instances) |->
                       [@.instances[k] EXCEPT !.config = CollectorConfig(~ @.named)]],
                    @.operation)]
           w1 == [r EXCEPT !.closure = ClosureOf(r, PlanIds(r.cell.input))]
           A == {[r EXCEPT !.alerts = a] : a \in ForgedAlerts(r)}
           B == {d1, d2, d3, d4, q1, f1, f2, s1, h1, n1, c1, c2, c3, c4, c5, a1, w1}
           Same(y) == "action" \in DOMAIN y /\ y.action = r.action
<1>1. Forged(r) = A \cup B
  BY DEF Forged
<1>2. \A y \in A : Same(y)
  OBVIOUS
<1>3. Same(d1) /\ Same(d2) /\ Same(d3) /\ Same(d4)
  OBVIOUS
<1>4. Same(q1) /\ Same(f1) /\ Same(f2) /\ Same(s1) /\ Same(h1) /\ Same(n1)
  OBVIOUS
<1>5. Same(c1) /\ Same(c2) /\ Same(c3) /\ Same(c4) /\ Same(c5)
  OBVIOUS
<1>6. Same(a1) /\ Same(w1)
  OBVIOUS
<1> HIDE DEF d1, d2, d3, d4, q1, f1, f2, s1, h1, n1, c1, c2, c3, c4, c5, a1, w1, Same
<1>7. \A y \in B : Same(y)
  BY <1>3, <1>4, <1>5, <1>6
<1> HIDE DEF A, B
<1>8. Same(x)
  BY <1>1, <1>2, <1>7
<1> QED
  BY <1>8 DEF Same

LEMMA ForgeKeeps == ASSUME DetectionInv, Forge PROVE DetectionInv'
<1>1. /\ dtStep = "done" /\ dtStep' = "done" /\ dtResult' \in Forged(dtResult)
      /\ UNCHANGED << dtCell, dtDb, dtTruth, dtVerdict >>
  BY DEF Forge
<1>2. TruthHolds'
  <2>1. TruthHolds
    BY <1>1 DEF DetectionInv
  <2>2. "action" \in DOMAIN dtResult' /\ dtResult'.action = dtResult.action
    BY <1>1, <2>1, ForgedKeepsAction DEF TruthHolds
  <2> QED
    BY <1>1, <2>1, <2>2 DEF TruthHolds
<1>3. dtVerdict' = Nil
  BY <1>1 DEF DetectionInv
<1> QED
  BY <1>1, <1>2, <1>3 DEF DetectionInv, TablesHold, DetectionIsClassified

\* The steps of a trial up to its window.
LEMMA StagesKeep ==
    ASSUME DetectionInv,
           FreshTables \/ ReloadCollector \/ KeepCollector \/ AttestReload
           \/ WriteSourceEvents \/ StartDetector \/ ProcessQueue \/ FallbackPath
    PROVE  DetectionInv'
<1>1. TablesHold'
  BY FreshWrites, ReloadWrites, AttestWrites, SourceWrites, DetectorWrites, ProcessWrites,
     FallbackWrites DEF DetectionInv
<1>2. /\ dtStep \in {"fresh", "reload", "attest", "source", "detector", "process", "forward"}
      /\ dtStep' \in {"reload", "attest", "source", "detector", "process", "forward", "close"}
      /\ UNCHANGED << dtCell, dtVerdict >>
  BY DEF FreshTables, ReloadCollector, KeepCollector, AttestReload, WriteSourceEvents,
         StartDetector, ProcessQueue, FallbackPath, Move
<1>3. dtVerdict' = Nil
  BY <1>2 DEF DetectionInv
<1> QED
  BY <1>1, <1>2, <1>3 DEF DetectionInv, DetectionIsClassified

LEMMA CloseKeeps == ASSUME DetectionInv, CloseWindow PROVE DetectionInv'
<1>1. /\ dtStep = "close" /\ dtStep' = "done" /\ UNCHANGED << dtCell, dtVerdict >>
      /\ dtCell \in DCells /\ TablesHold /\ dtVerdict = Nil
  BY DEF CloseWindow, DetectionInv
<1>2. /\ AsExecuted(dtResult', dtCell) /\ dtTruth' = dtResult' /\ "action" \in DOMAIN dtResult'
      /\ \E sealed : /\ AsExecuted(sealed, dtCell)
                     /\ dtResult'.events =
                          DetectionEvents(sealed, dtCell.target = "active",
                                          ReloadOf(dtCell) # Nil)
  BY <1>1, CloseExecutes
<1>3. PICK sealed : /\ AsExecuted(sealed, dtCell)
                    /\ dtResult'.events =
                         DetectionEvents(sealed, dtCell.target = "active",
                                         ReloadOf(dtCell) # Nil)
  BY <1>2
<1>4. (ReloadOf(dtCell) # Nil) = (dtCell.sham = "reload")
  BY DetectionAssumption DEF ReloadOf
<1> DEFINE active == dtCell.target = "active"
           reloaded == dtCell.sham = "reload"
           closed == ClosureValid(sealed, dtCell.input, active, reloaded)
           e == dtResult'.events
<1>5. e = DetectionEvents(sealed, active, reloaded) /\ sealed.cell = dtCell
  BY <1>3, <1>4 DEF AsExecuted
<1>6. closed = TRUE
  BY <1>1, <1>3, ExecutedIsClosed
<1>7. NamedProven(sealed, dtCell.input, active, closed) <=> NamedFires(dtCell)
  BY <1>1, <1>3, <1>6, ExecutedIsProven, Zenon
<1> HIDE DEF active, reloaded, e
<1>8. /\ e[2].proven <=> NamedProven(sealed, dtCell.input, active, closed)
      /\ e[4].window <=> closed
  BY <1>5, EventsSay
<1>9. TruthHolds'
  <2>1. dtResult'.action = dtCell.input
    BY <1>2 DEF AsExecuted
  <2>2. (dtTruth.events[2].proven)' <=> NamedFires(dtCell)
    BY <1>2, <1>7, <1>8 DEF e
  <2>3. (dtTruth.events[4].window)'
    BY <1>2, <1>6, <1>8 DEF e
  <2> QED
    BY <1>1, <1>2, <2>1, <2>2, <2>3 DEF TruthHolds
<1> QED
  BY <1>1, <1>9 DEF DetectionInv, TablesHold, DetectionIsClassified

LEMMA AssessKeeps == ASSUME DetectionInv, AssessDetection PROVE DetectionInv'
<1> DEFINE r == dtResult
           absence == Absence(r, ResultClosureValid(r))
<1>1. /\ dtStep = "done" /\ dtStep' = "assessed"
      /\ UNCHANGED << dtCell, dtDb, dtResult, dtTruth >>
      /\ dtCell \in DCells /\ TruthHolds
  BY DEF AssessDetection, DetectionInv
<1>2. dtVerdict' =
        IF r.cell.input # "attack"
        THEN [class |-> "refused", absence |-> "indeterminate", baseline |-> FALSE]
        ELSE [class |-> ClassOf(r), absence |-> absence, baseline |-> AlertExists(r)]
  BY DEF AssessDetection, ClassOf, StateOf, TelemetryOf
<1>3. AsExecuted(dtTruth, dtCell) /\ dtResult.action = dtCell.input
  BY <1>1 DEF TruthHolds
<1>4. ASSUME dtResult = dtTruth
      PROVE  /\ dtVerdict'.class = DetectionResidual(dtCell)
             /\ dtTruth.events[2].proven <=> dtVerdict'.class = "named_detection_effective"
             /\ dtTruth.events[4].window
             /\ dtVerdict'.class = "masked_named_detection_failure" => dtVerdict'.baseline
  <2>1. r.cell = dtCell /\ dtCell.input \in {"attack", "benign"}
    BY <1>1, <1>3, <1>4 DEF AsExecuted, DCells
  <2>2. dtVerdict'.class = DetectionResidual(dtCell)
    <3>1. CASE dtCell.input = "attack"
      <4>1. ClassOf(r) = DetectionResidual(dtCell)
        BY <1>1, <1>3, <1>4, <3>1, ExecutedIsClassified
      <4> QED
        BY <1>2, <2>1, <3>1, <4>1
    <3>2. CASE dtCell.input = "benign"
      BY <1>2, <2>1, <3>2 DEF DetectionResidual
    <3> QED
      BY <2>1, <3>1, <3>2
  <2>3. NamedFires(dtCell) <=> DetectionResidual(dtCell) = "named_detection_effective"
    BY <1>1, <2>1 DEF DetectionResidual, NamedFires, DCells
  <2>4. DetectionResidual(dtCell) = "masked_named_detection_failure" => dtVerdict'.baseline
    <3> SUFFICES ASSUME DetectionResidual(dtCell) = "masked_named_detection_failure"
                 PROVE  dtVerdict'.baseline
      OBVIOUS
    <3>1. dtCell.input = "attack" /\ BroadFires(dtCell)
      BY <2>1 DEF DetectionResidual, BroadFires
    <3>2. AlertExists(r)
      BY <1>1, <1>3, <1>4, <3>1, ExecutedExists
    <3>3. dtVerdict'.baseline = AlertExists(r)
      BY <1>2, <2>1, <3>1
    <3> QED
      BY <3>2, <3>3
  <2> QED
    BY <1>1, <2>2, <2>3, <2>4 DEF TruthHolds
<1>5. ASSUME dtVerdict'.class \notin {"indeterminate", "refused", DetectionResidual(dtCell)}
      PROVE  /\ r.alerts # dtTruth.alerts /\ r.query # dtTruth.query
             /\ r.closure # dtTruth.closure
  <2>1. r.cell.input = "attack" /\ dtVerdict'.class = ClassOf(r)
    BY <1>2, <1>5
  <2>2. ResultClosureValid(r)
    <3> SUFFICES ASSUME ~ ResultClosureValid(r) PROVE FALSE
      OBVIOUS
    <3>1. ~ NamedProven(r, "attack", r.cell.target = "active", ResultClosureValid(r))
      BY DEF NamedProven
    <3>2. Absence(r, ResultClosureValid(r)) # "concluded"
      BY DEF Absence
    <3>3. StateOf(r) = "indeterminate"
      BY <3>1, <3>2 DEF StateOf, TargetState
    <3>4. ClassOf(r) = "indeterminate"
      BY <3>3 DEF ClassOf, DetectionClass
    <3> QED
      BY <1>5, <2>1, <3>4
  <2>3. dtCell.input = "attack"
    BY <1>3, <2>1, <2>2, ClosedBinds
  <2>4. AlertIds(r.alerts) # AlertIds(dtTruth.alerts)
    BY <1>1, <1>3, <1>5, <2>1, <2>2, <2>3, SameAlertsSameClass
  <2> QED
    BY <1>3, <2>2, <2>4, IdentitiesKept
<1>6. ASSUME dtVerdict'.absence = "concluded", Named(dtTruth.alerts) # << >>
      PROVE  /\ r.alerts # dtTruth.alerts /\ r.detector # dtTruth.detector
             /\ r.query # dtTruth.query /\ r.closure # dtTruth.closure
  <2>1. absence = "concluded"
    BY <1>2, <1>6
  <2> QED
    BY <1>1, <1>3, <1>6, <2>1, ConcludedIsRewritten
<1>7. DetectionIsClassified'
  BY <1>1, <1>4, <1>5, <1>6 DEF DetectionIsClassified, Differs
<1> QED
  BY <1>1, <1>7 DEF DetectionInv, TablesHold, TruthHolds

LEMMA DetectionIsInductive == DetectionInv /\ [DTNext]_dtVars => DetectionInv'
<1> SUFFICES ASSUME DetectionInv, [DTNext]_dtVars PROVE DetectionInv'
  OBVIOUS
<1>1. CASE UNCHANGED dtVars
  BY <1>1 DEF dtVars, DetectionInv, TablesHold, TruthHolds, DetectionIsClassified, Differs
<1>2. CASE DTNext
  BY <1>2, StagesKeep, CloseKeeps, ForgeKeeps, AssessKeeps DEF DTNext
<1> QED
  BY <1>1, <1>2

\* However many records of a result are rewritten, its assessment names what
\* the trial showed when none is, and turns it into another residual class,
\* or a fired rule into a concluded absence, only when the alerts, the query
\* and the closure of the window are all rewritten (assess_detection_case,
\* conclude_named_alert_absence).
THEOREM DetectionAlwaysClassified == DTSpec => []DetectionIsClassified
<1>1. DetectionInv => DetectionIsClassified
  BY DEF DetectionInv
<1> QED
  BY <1>1, DetectionInitially, DetectionIsInductive, PTL DEF DTSpec
===============================================================================

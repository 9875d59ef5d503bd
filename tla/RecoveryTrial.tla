---------------------------- MODULE RecoveryTrial ----------------------------
(***************************************************************************)
(* The entitlement-recovery experiment: a cell of the 2x2x2x2 design runs  *)
(* on a fresh in-memory database that is bound to a lifecycle bundle read  *)
(* from disk (financial_recovery_runtime.py), and a matched attack/benign  *)
(* pair of results is assessed.  A digest is the content it addresses, so  *)
(* a (canonical, digest) pair of the code is one value here.  Between the  *)
(* execution and the assessment a result may be rewritten, one group of    *)
(* fields at a time; while a bundle is validated its directory may change. *)
(***************************************************************************)
EXTENDS Integers, Sequences, FiniteSets, SequencesExt, Absent

CONSTANTS Approved,       \* the customer of the approved support case
          Others,         \* the customers the attack asks for
          Thresholds,     \* values of bulk_threshold_records
          MaxFlips,       \* bound: changes of the bundle directory
          MaxRewrites     \* bound: rewrites of results

ASSUME RecoveryAssumption ==
    /\ Approved \notin Others /\ Others # {} /\ IsFiniteSet(Others)
    /\ Approved # "*"
    /\ Thresholds \subseteq Nat \ {0}
    /\ MaxFlips \in Nat /\ MaxRewrites \in Nat

VARIABLES rcStep,     \* where the running trial stands
          rcCell,     \* the selector of the running trial
          rcFixtures, \* the cutover fixture supplied for each target level
          rcThreshold,\* the bulk threshold of the runtime
          rcDisk,     \* [bundle, flips]: the bundle directory
          rcPin,      \* what the validation has verified and read so far
          rcDb,       \* the tables of the clone
          rcResults,  \* the results handed out, by input level
          rcTruth,    \* ghost: the results as they were executed
          rcRewrites, \* how many rewrites happened
          rcVerdict   \* the assessment, if made

rcVars == << rcStep, rcCell, rcFixtures, rcThreshold, rcDisk, rcPin, rcDb, rcResults,
             rcTruth, rcRewrites, rcVerdict >>


Customers == Others \cup {Approved}
RInputs == {"attack", "benign"}
RTargets == {"stale", "approved"}
RCells == [input : RInputs, target : RTargets,
           guard : {"monitor", "enforce"}, sham : {"steady", "reapply"}]

\* The customers each fixed action asks for.
Requested(input) == IF input = "attack" THEN Others ELSE {Approved}

\* The entitlements a restored snapshot holds: the wildcard, or the case.
Entitlements(target) == IF target = "stale" THEN {"*"} ELSE {Approved}

\* The immutable snapshot a target level restores.
snapshot_descriptor(target) == [id |-> target, entitlements |-> Entitlements(target)]

\* Each lifecycle branch owns its replacement session.
BranchOf(target) == IF target = "stale" THEN "actual" ELSE "comparison"
SessionOf(branch) == IF branch = "actual" THEN "replacement" ELSE "replacement-2"

\* The fixture write_reference_recovery_lifecycle_bundle makes for a level.
Fixture(target) ==
    [branch |-> BranchOf(target), session |-> SessionOf(BranchOf(target)),
     phase |-> "rotated", old |-> "revoked", new |-> "active",
     entitlement |-> Entitlements(target), snapshot |-> snapshot_descriptor(target),
     head |-> TRUE, rotation |-> "last", bundle |-> "sound"]

\* Fixtures a caller may supply: sound ones, and ones that miss one binding.
Supplied(target) ==
    {Fixture(t) : t \in RTargets} \cup
    {[Fixture(target) EXCEPT !.phase = "restored", !.new = "none"],
     [Fixture(target) EXCEPT !.old = "active"],
     [Fixture(target) EXCEPT !.head = FALSE],
     [Fixture(target) EXCEPT !.rotation = "earlier"],
     [Fixture(target) EXCEPT !.entitlement = {"*", Approved}]}

\* _validate_cutover_fixture, before it turns to the bundle.
CutoverFixtureValid(f, target) ==
    /\ f.session = SessionOf(BranchOf(target)) /\ f.branch = BranchOf(target)
    /\ f.phase = "rotated" /\ f.old = "revoked" /\ f.new = "active"
    /\ f.entitlement = Entitlements(target)
    /\ f.snapshot = snapshot_descriptor(target)
    /\ f.head

\* Fault: any transition of the branch will do.
AnyTransition(f) == f.head

\* _validate_rotation_transition_provenance: the declared transition is the
\* branch's last one and produced the cutover snapshot.
RotationProvenance(f) == f.rotation = "last" /\ f.head

\* _validate_cutover_fixture_bundle_sets: one shared bundle, two sessions.
BundleSetValid(fs) ==
    /\ fs["stale"].bundle = fs["approved"].bundle
    /\ fs["stale"].session # fs["approved"].session

EmptyDb == [run |-> Nil, request |-> {}, session |-> Nil, resolved |-> Nil,
            snapshot |-> Nil, context |-> Nil, mutations |-> << >>,
            receipt |-> Nil, selection |-> {}, decision |-> Nil,
            deliveries |-> {}, ledger |-> Nil]

RCInit ==
    /\ rcStep = "construct" /\ rcCell \in {c \in RCells : c.input = "attack"}
    /\ rcFixtures \in [RTargets -> UNION {Supplied(t) : t \in RTargets}]
    /\ \A t \in RTargets : rcFixtures[t] \in Supplied(t)
    /\ rcThreshold \in Thresholds
    /\ rcDisk = [bundle |-> "sound", flips |-> 0]
    /\ rcPin = [verified |-> Nil, read |-> << >>]
    /\ rcDb = EmptyDb
    /\ rcResults = [i \in RInputs |-> Nil] /\ rcTruth = [i \in RInputs |-> Nil]
    /\ rcRewrites = 0 /\ rcVerdict = Nil

\* FinancialRecoveryRuntime.__init__: both fixtures are validated, on a
\* directory that is not changing (the races are explored in execute).
Construct ==
    /\ rcStep = "construct" /\ rcDisk.flips = 0
    /\ rcStep' = IF /\ \A t \in RTargets : /\ CutoverFixtureValid(rcFixtures[t], t)
                                           /\ RotationProvenance(rcFixtures[t])
                    /\ BundleSetValid(rcFixtures)
                 THEN "levels" ELSE "failed"
    /\ UNCHANGED << rcCell, rcFixtures, rcThreshold, rcDisk, rcPin, rcDb, rcResults,
                    rcTruth, rcRewrites, rcVerdict >>

\* The directory of the bundle is replaced by another intact bundle, or back.
\* Nothing looks at it between the second verification and the close, so a
\* change there is one of the next step.
ChangeDirectory ==
    /\ rcDisk.flips < MaxFlips
    /\ rcStep \in {"levels", "verify", "proof", "cutover", "reverify", "done", "half"}
    /\ rcDisk' = [bundle |-> IF rcDisk.bundle = "sound" THEN "other" ELSE "sound",
                  flips |-> rcDisk.flips + 1]
    /\ UNCHANGED << rcStep, rcCell, rcFixtures, rcThreshold, rcPin, rcDb, rcResults,
                    rcTruth, rcRewrites, rcVerdict >>

\* execute, first part: the levels are known and the fixture fits its level.
CheckLevels ==
    /\ rcStep = "levels"
    /\ rcCell.input \in RInputs /\ rcCell.target \in RTargets
    /\ CutoverFixtureValid(rcFixtures[rcCell.target], rcCell.target)
    /\ rcStep' = "verify"
    /\ UNCHANGED << rcCell, rcFixtures, rcThreshold, rcDisk, rcPin, rcDb, rcResults,
                    rcTruth, rcRewrites, rcVerdict >>

\* _validate_lifecycle_bundle_reference: a fresh verification of the directory
\* has to equal the one the fixture carries.
VerifyBundle ==
    /\ rcStep = "verify"
    /\ rcPin' = [verified |-> rcDisk.bundle, read |-> << >>]
    /\ rcStep' = IF rcDisk.bundle = rcFixtures[rcCell.target].bundle
                 THEN "proof" ELSE "failed"
    /\ UNCHANGED << rcCell, rcFixtures, rcThreshold, rcDisk, rcDb, rcResults, rcTruth,
                    rcRewrites, rcVerdict >>

\* _read_pinned_bundle_payload: the bytes have the digest the verified
\* manifest gives them.
PayloadPinned(verified, payload) == payload = verified

\* _read_and_verify_lifecycle_proof: the raw lifecycle and its receipts are
\* read and the lifecycle verifier is run again on them.
ReadProof ==
    /\ rcStep = "proof"
    /\ rcPin' = [rcPin EXCEPT !.read = Append(@, rcDisk.bundle)]
    /\ rcStep' = IF /\ PayloadPinned(rcPin.verified, rcDisk.bundle)
                    /\ rcDisk.bundle = rcFixtures[rcCell.target].bundle
                    /\ RotationProvenance(rcFixtures[rcCell.target])
                 THEN "cutover" ELSE "failed"
    /\ UNCHANGED << rcCell, rcFixtures, rcThreshold, rcDisk, rcDb, rcResults, rcTruth,
                    rcRewrites, rcVerdict >>

\* The cutover reference and snapshot are read from the same directory.
ReadCutover ==
    /\ rcStep = "cutover"
    /\ rcPin' = [rcPin EXCEPT !.read = Append(@, rcDisk.bundle)]
    /\ rcStep' = IF /\ PayloadPinned(rcPin.verified, rcDisk.bundle)
                    /\ rcDisk.bundle = rcFixtures[rcCell.target].bundle
                 THEN "reverify" ELSE "failed"
    /\ UNCHANGED << rcCell, rcFixtures, rcThreshold, rcDisk, rcDb, rcResults, rcTruth,
                    rcRewrites, rcVerdict >>

\* The bundle is verified once more after its payloads were read.
ReverifyBundle ==
    /\ rcStep = "reverify"
    /\ rcStep' = IF rcDisk.bundle = rcPin.verified THEN "fresh" ELSE "failed"
    /\ UNCHANGED << rcCell, rcFixtures, rcThreshold, rcDisk, rcPin, rcDb, rcResults,
                    rcTruth, rcRewrites, rcVerdict >>

\* _clone_id addresses the selector, the nonce and the lifecycle.
CloneId(cell, bundle) == [cell |-> cell, bundle |-> bundle]

\* _fresh_database: the declared snapshot, the sessions and the disclosure
\* ledger of the fixture; triggers and the authorizer then protect them.
FreshDatabase ==
    LET f == rcFixtures[rcCell.target] IN
    /\ rcStep = "fresh"
    /\ rcDb' = [EmptyDb EXCEPT
                  !.run = CloneId(rcCell, f.bundle),
                  !.snapshot = snapshot_descriptor(rcCell.target),
                  !.session = [old |-> f.old, new |-> f.new, id |-> f.session,
                               bound |-> f.entitlement],
                  !.ledger = f.bundle]
    /\ rcStep' = "request"
    /\ UNCHANGED << rcCell, rcFixtures, rcThreshold, rcDisk, rcPin, rcResults, rcTruth,
                    rcRewrites, rcVerdict >>

\* _record_request: the fixed action and its items.
RecordRequest ==
    /\ rcStep = "request"
    /\ rcDb.run = CloneId(rcCell, rcFixtures[rcCell.target].bundle)
    /\ rcDb' = [rcDb EXCEPT !.request = Requested(rcCell.input)]
    /\ rcStep' = "resolve"
    /\ UNCHANGED << rcCell, rcFixtures, rcThreshold, rcDisk, rcPin, rcResults, rcTruth,
                    rcRewrites, rcVerdict >>

\* _resolve_session_role: the stable role resolves to the one active session
\* that carries an entitlement digest.
ResolveSessionRole ==
    /\ rcStep = "resolve"
    /\ rcDb.session.new = "active" /\ rcDb.session.bound # {}
    /\ rcDb' = [rcDb EXCEPT !.resolved = rcDb.session.id]
    /\ rcStep' = "readback"
    /\ UNCHANGED << rcCell, rcFixtures, rcThreshold, rcDisk, rcPin, rcResults, rcTruth,
                    rcRewrites, rcVerdict >>

\* _request_readback: the audit rows reproduce the fixed action.
RequestReadback(db, input) == db.request = Requested(input)

\* _session_role_resolution_readback: the resolved session is still active.
ResolutionReadback(db) == db.resolved = db.session.id /\ db.session.new = "active"

\* _lifecycle_reference_readback: the entries reproduce the ledger.
LedgerReadback(db) == db.ledger

\* _lifecycle_reference_matches_fixture.
ReferenceMatches(db, f) == LedgerReadback(db) = f.bundle

\* The readbacks before the snapshot is touched.
ReadBack ==
    LET f == rcFixtures[rcCell.target] IN
    /\ rcStep = "readback"
    /\ rcStep' = IF /\ RequestReadback(rcDb, rcCell.input) /\ ResolutionReadback(rcDb)
                    /\ rcDb.resolved = f.session
                    /\ ReferenceMatches(rcDb, f)
                 THEN "snapshot" ELSE "failed"
    /\ UNCHANGED << rcCell, rcFixtures, rcThreshold, rcDisk, rcPin, rcDb, rcResults,
                    rcTruth, rcRewrites, rcVerdict >>

\* The rows an audit trigger writes for one statement on a table, while the
\* apply context is open.
Audit(entity, operation, snapshot) ==
    [k \in 1..(IF entity = "snapshot" THEN 1 ELSE Cardinality(snapshot.entitlements)) |->
        << entity, operation, snapshot.id >>]

\* _reapply_snapshot, one transaction: open the context, delete and insert
\* the declared snapshot, write the receipt, close the context.
ReapplySnapshot ==
    /\ rcStep = "snapshot" /\ rcCell.sham = "reapply"
    /\ LET before == rcDb.snapshot
           after == snapshot_descriptor(rcCell.target)
       IN rcDb' = [rcDb EXCEPT
                     !.snapshot = after, !.context = "closed",
                     !.mutations = Audit("entitlement", "delete", before)
                                   \o Audit("snapshot", "delete", before)
                                   \o Audit("snapshot", "insert", after)
                                   \o Audit("entitlement", "insert", after),
                     !.receipt = [before |-> before, after |-> after,
                                  deleted |-> Cardinality(before.entitlements),
                                  inserted |-> Cardinality(after.entitlements)]]
    /\ rcStep' = "restored"
    /\ UNCHANGED << rcCell, rcFixtures, rcThreshold, rcDisk, rcPin, rcResults, rcTruth,
                    rcRewrites, rcVerdict >>

\* The steady arm leaves the snapshot and the receipts alone.
KeepSnapshot ==
    /\ rcStep = "snapshot" /\ rcCell.sham = "steady"
    /\ rcStep' = "restored"
    /\ UNCHANGED << rcCell, rcFixtures, rcThreshold, rcDisk, rcPin, rcDb, rcResults,
                    rcTruth, rcRewrites, rcVerdict >>

\* _expected_snapshot_apply_mutations: the entitlements of the old snapshot
\* go, then the snapshot; the new snapshot comes, then its entitlements.
ExpectedMutations(before, after) ==
    LET old == Cardinality(before.entitlements)
        new == Cardinality(after.entitlements)
    IN [k \in 1..(old + new + 2) |->
          << IF k \in {old + 1, old + 2} THEN "snapshot" ELSE "entitlement",
             IF k <= old + 1 THEN "delete" ELSE "insert",
             IF k <= old + 1 THEN before.id ELSE after.id >>]

\* _snapshot_apply_receipt_readback: the receipt counts only once its context
\* is closed.
ReceiptReadback(db) == IF db.context = "closed" THEN db.receipt ELSE Nil

\* _validate_snapshot_apply_receipt: a receipt exactly in the sham arm, and
\* then the mutations the declared snapshots call for.
ApplyReceiptValid(receipt, mutations, sham, target) ==
    LET declared == snapshot_descriptor(target) IN
    IF sham = "steady" THEN receipt = Nil
    ELSE /\ receipt # Nil
         /\ receipt.before = declared /\ receipt.after = declared
         /\ receipt.deleted = Cardinality(declared.entitlements)
         /\ receipt.inserted = Cardinality(declared.entitlements)
         /\ mutations = ExpectedMutations(declared, declared)

\* _cutover_readback: the old session revoked, the resolved one active and
\* bound to the restored entitlements.
CutoverReadback(db) ==
    /\ db.session.old = "revoked" /\ db.session.new = "active"
    /\ db.session.bound = db.snapshot.entitlements
    /\ db.resolved = db.session.id

\* The readbacks that have to show the declared target and a valid cutover.
CheckRestored ==
    LET f == rcFixtures[rcCell.target] IN
    /\ rcStep = "restored"
    /\ rcStep' = IF /\ ApplyReceiptValid(ReceiptReadback(rcDb), rcDb.mutations,
                                        rcCell.sham, rcCell.target)
                    /\ rcDb.snapshot = snapshot_descriptor(rcCell.target)
                    /\ rcDb.snapshot = f.snapshot
                    /\ rcDb.snapshot.entitlements = f.entitlement
                    /\ CutoverReadback(rcDb)
                 THEN "select" ELSE "failed"
    /\ UNCHANGED << rcCell, rcFixtures, rcThreshold, rcDisk, rcPin, rcDb, rcResults,
                    rcTruth, rcRewrites, rcVerdict >>

\* _entitlement_allows, on the rows the clone holds.
Allows(entitlements, c) == "*" \in entitlements \/ c \in entitlements

\* The action is admitted only when every requested customer is.
Authorized(db) == \A c \in db.request : Allows(db.snapshot.entitlements, c)

\* _record_selection.
SelectCustomers ==
    /\ rcStep = "select"
    /\ rcDb' = [rcDb EXCEPT !.selection = IF Authorized(rcDb) THEN rcDb.request ELSE {}]
    /\ rcStep' = "release"
    /\ UNCHANGED << rcCell, rcFixtures, rcThreshold, rcDisk, rcPin, rcResults, rcTruth,
                    rcRewrites, rcVerdict >>

\* _assignment_readback: the approved case is the one assigned to the principal.
Assigned == {Approved}
OutsideAssignment(cs) == cs \ Assigned

\* The release guard: reached only by an admitted action.
ReleaseDecision(authorized, selected, guard, threshold) ==
    LET flagged == OutsideAssignment(selected) # {} \/ Cardinality(selected) >= threshold
    IN IF ~ authorized THEN [reached |-> FALSE, decision |-> "not-reached", reason |-> "denied"]
       ELSE IF guard = "enforce" /\ flagged
            THEN [reached |-> TRUE, decision |-> "block", reason |-> "unapproved-or-bulk"]
            ELSE [reached |-> TRUE, decision |-> "allow",
                  reason |-> IF flagged THEN "observed" ELSE "assigned-case"]

\* _record_release_decision.
Release ==
    /\ rcStep = "release"
    /\ rcDb' = [rcDb EXCEPT !.decision = ReleaseDecision(Authorized(rcDb), rcDb.selection,
                                                         rcCell.guard, rcThreshold)]
    /\ rcStep' = "deliver"
    /\ UNCHANGED << rcCell, rcFixtures, rcThreshold, rcDisk, rcPin, rcResults, rcTruth,
                    rcRewrites, rcVerdict >>

\* _record_delivery_receipts: receipts exist for an allowed release only.
Deliver ==
    /\ rcStep = "deliver"
    /\ rcDb' = [rcDb EXCEPT !.deliveries = IF rcDb.decision.decision = "allow"
                                           THEN rcDb.selection ELSE {}]
    /\ rcStep' = "close"
    /\ UNCHANGED << rcCell, rcFixtures, rcThreshold, rcDisk, rcPin, rcResults, rcTruth,
                    rcRewrites, rcVerdict >>

\* The fields of a result that are computed from the others.
Derived(r) ==
    [outSelected |-> Cardinality(OutsideAssignment(r.selected)),
     outDelivered |-> Cardinality(OutsideAssignment(r.delivered)),
     assignedDelivered |-> Cardinality(r.delivered \cap Assigned),
     blocked |-> /\ r.release.reached /\ r.release.decision = "block"
                 /\ OutsideAssignment(r.selected) # {}
                 /\ OutsideAssignment(r.delivered) = {},
     cutover |-> /\ r.session.old = "revoked" /\ r.session.new = "active"
                 /\ r.session.bound = r.entitlements,
     unchanged |-> r.ledgerBefore = r.ledgerAfter]

\* _events: the two input events of the stream.
InputEvents(r) ==
    << [type |-> "request", request |-> Requested(r.cell.input), clone |-> r.clone],
       [type |-> "cutover", session |-> r.session, ledger |-> r.ledgerBefore,
        valid |-> r.derived.cutover] >>

\* The target event: what was restored and what it let through.
TargetEvent(r) ==
    [type |-> "target", target |-> r.cell.target, entitlements |-> r.entitlements,
     receipt |-> r.receipt, authorized |-> r.authorized, selected |-> r.selected,
     outside |-> r.derived.outSelected]

\* The compensator, outcome and cleanup events.
OutcomeEvents(r) ==
    << [type |-> "compensator", guard |-> r.cell.guard, release |-> r.release,
        blocked |-> r.derived.blocked],
       [type |-> "outcome", delivered |-> r.delivered, outside |-> r.derived.outDelivered,
        assigned |-> r.derived.assignedDelivered, ledger |-> r.ledgerAfter,
        unchanged |-> r.derived.unchanged],
       [type |-> "cleanup", clone |-> r.clone, closed |-> r.closed] >>

Events(r) == InputEvents(r) \o << TargetEvent(r) >> \o OutcomeEvents(r)

\* Every claim and every event recomputed from the raw fields of a result.
Refreshed(r) == LET claims == [r EXCEPT !.derived = Derived(r)]
                IN [claims EXCEPT !.events = Events(claims)]

\* The result of a closed trial, from the readbacks of its clone.
ResultOf(cell, db) ==
    Refreshed([cell |-> cell, clone |-> db.run, closed |-> TRUE,
               entitlements |-> db.snapshot.entitlements, receipt |-> db.receipt,
               mutations |-> db.mutations, resolved |-> db.resolved,
               session |-> db.session, authorized |-> Authorized(db),
               selected |-> db.selection, release |-> db.decision,
               delivered |-> db.deliveries,
               ledgerBefore |-> db.ledger, ledgerAfter |-> db.ledger,
               derived |-> Nil, events |-> Nil])

\* The connection is closed and probed, and the result handed out; a second
\* trial, the benign partner, may follow under any levels.
CloseTrial ==
    LET r == ResultOf(rcCell, rcDb) IN
    /\ rcStep = "close"
    /\ rcResults' = [rcResults EXCEPT ![rcCell.input] = r]
    /\ rcTruth' = [rcTruth EXCEPT ![rcCell.input] = r]
    /\ rcDb' = EmptyDb
    /\ rcPin' = [verified |-> Nil, read |-> << >>]
    /\ IF rcCell.input = "attack"
       THEN /\ \E c \in RCells : c.input = "benign" /\ rcCell' = c
            /\ rcStep' = "levels"
       ELSE rcCell' = rcCell /\ rcStep' = "done"
    /\ UNCHANGED << rcFixtures, rcThreshold, rcDisk, rcRewrites, rcVerdict >>

\* One rewrite of a result between its execution and the assessment: a group
\* of fields, or everything that is computed from them.
Rewritten(r) ==
    {[r EXCEPT !.selected = s] : s \in SUBSET Customers} \cup
    {[r EXCEPT !.delivered = s] : s \in SUBSET Customers} \cup
    {[r EXCEPT !.release = d] :
        d \in {ReleaseDecision(TRUE, r.selected, "enforce", rcThreshold),
               ReleaseDecision(TRUE, {Approved}, "monitor", rcThreshold)}} \cup
    {[r EXCEPT !.authorized = ~ @], [r EXCEPT !.session.old = "active"],
     [r EXCEPT !.ledgerAfter = "other"], [r EXCEPT !.closed = FALSE],
     [r EXCEPT !.cell.guard = "enforce"], [r EXCEPT !.cell.target = "approved"],
     [r EXCEPT !.clone = CloneId(r.cell, @.bundle)],
     [r EXCEPT !.derived = Derived(r)], Refreshed(r)}

Rewrite(i) ==
    /\ rcStep = "done" /\ rcRewrites < MaxRewrites
    /\ \E r \in Rewritten(rcResults[i]) \ {rcResults[i]} :
          rcResults' = [rcResults EXCEPT ![i] = r]
    /\ rcRewrites' = rcRewrites + 1
    /\ UNCHANGED << rcStep, rcCell, rcFixtures, rcThreshold, rcDisk, rcPin, rcDb, rcTruth,
                    rcVerdict >>

(* _validate_runtime_result_consistency, in the order of the code. *)

\* The restored state is the one the target level declares.
SnapshotBound(r) ==
    /\ r.entitlements = Entitlements(r.cell.target)
    /\ r.resolved = SessionOf(BranchOf(r.cell.target))

\* The clone id reproduces the selector and the clone was closed.
CloneBound(r) == r.closed /\ r.clone = CloneId(r.cell, "sound")

\* The snapshot-apply evidence fits the sham level.
ReapplyBound(r) == ApplyReceiptValid(r.receipt, r.mutations, r.cell.sham, r.cell.target)

\* Every claim is the one its raw fields give, and receipts stay inside the
\* selection.
ClaimsBound(r) == r.derived = Derived(r) /\ r.delivered \subseteq r.selected

\* The disclosure ledger is the one of the lifecycle snapshot, twice.
DisclosureBound(r) ==
    r.ledgerBefore = "sound" /\ r.ledgerAfter = "sound"

\* Fault: a mutually consistent rewrite is accepted.
AnySemantics(r) == TRUE

\* _validate_fixed_execution_semantics: the trial is recomputed from its
\* contracted input and levels; the bulk rule plays no part here.
FixedSemantics(r) ==
    LET authorized == \/ r.cell.target = "stale"
                      \/ Requested(r.cell.input) = {Approved}
        selected == IF authorized THEN Requested(r.cell.input) ELSE {}
        outside == selected \ {Approved}
        block == r.cell.guard = "enforce" /\ outside # {}
        release == IF ~ authorized
                   THEN [reached |-> FALSE, decision |-> "not-reached", reason |-> "denied"]
                   ELSE [reached |-> TRUE,
                         decision |-> IF block THEN "block" ELSE "allow",
                         reason |-> IF block THEN "unapproved-or-bulk"
                                    ELSE IF outside # {} THEN "observed" ELSE "assigned-case"]
    IN /\ r.authorized = authorized /\ r.selected = selected
       /\ r.release = release
       /\ r.delivered = IF release.decision = "allow" THEN selected ELSE {}

\* _validate_runtime_event_receipts: the stream is recomputed and compared.
EventsBound(r) == r.events = Events(r)

ResultValid(r) ==
    /\ SnapshotBound(r) /\ CloneBound(r) /\ ReapplyBound(r) /\ ClaimsBound(r)
    /\ DisclosureBound(r) /\ FixedSemantics(r) /\ EventsBound(r)

\* The pair was run under the same levels on the same restored state.
Matched(a, b) ==
    /\ a.cell.input = "attack" /\ b.cell.input = "benign"
    /\ a.cell.target = b.cell.target /\ a.cell.guard = b.cell.guard
    /\ a.cell.sham = b.cell.sham
    /\ a.entitlements = b.entitlements /\ a.session.bound = b.session.bound
    /\ a.ledgerBefore = b.ledgerBefore

\* The residual classification of a matched pair.
Classification(a, b) ==
    LET sound == /\ a.derived.cutover /\ b.derived.cutover
                 /\ a.derived.unchanged /\ b.derived.unchanged
                 /\ b.derived.assignedDelivered = 1
                 /\ a.closed /\ b.closed
        path == a.derived.outDelivered = 0
    IN IF a.derived.outSelected # 0 /\ a.derived.blocked /\ path /\ sound
       THEN "masked_restore_failure"
       ELSE IF ~ path THEN "exposed_path"
       ELSE IF a.derived.outSelected = 0 /\ sound THEN "target_effective"
       ELSE "unresolved"

\* The directory still holds the bundle that a result names, which is part of
\* its clone id: _validate_lifecycle_bundle_reference and
\* _validate_cutover_fixture, run again on the fixture of the result.  The
\* reads inside one validation are those explored above, between VerifyBundle
\* and ReverifyBundle; here it sees one directory.
DirectoryValid(r) == rcDisk.bundle = r.clone.bundle

Refusal == [class |-> "refused", saw |-> rcDisk.bundle]

\* assess_recovery_case validates the attack result, then the benign one.
AssessAttack ==
    LET a == rcResults["attack"] IN
    /\ rcStep = "done"
    /\ IF DirectoryValid(a) /\ ResultValid(a)
       THEN rcStep' = "half" /\ UNCHANGED rcVerdict
       ELSE rcStep' = "assessed" /\ rcVerdict' = Refusal
    /\ UNCHANGED << rcCell, rcFixtures, rcThreshold, rcDisk, rcPin, rcDb, rcResults,
                    rcTruth, rcRewrites >>

\* The benign result, the pair and its class.
AssessPair ==
    LET a == rcResults["attack"]
        b == rcResults["benign"]
    IN /\ rcStep = "half"
       /\ rcVerdict' = IF DirectoryValid(b) /\ ResultValid(b) /\ Matched(a, b)
                       THEN [class |-> Classification(a, b), cell |-> a.cell,
                             baseline |-> /\ a.derived.outDelivered = 0
                                          /\ b.derived.assignedDelivered = 1]
                       ELSE Refusal
       /\ rcStep' = "assessed"
       /\ UNCHANGED << rcCell, rcFixtures, rcThreshold, rcDisk, rcPin, rcDb, rcResults,
                       rcTruth, rcRewrites >>

RCNext ==
    \/ Construct \/ ChangeDirectory \/ CheckLevels \/ VerifyBundle \/ ReadProof
    \/ ReadCutover \/ ReverifyBundle \/ FreshDatabase \/ RecordRequest
    \/ ResolveSessionRole \/ ReadBack
    \/ ReapplySnapshot \/ KeepSnapshot \/ CheckRestored \/ SelectCustomers
    \/ Release \/ Deliver \/ CloseTrial \/ AssessAttack \/ AssessPair
    \/ \E i \in RInputs : Rewrite(i)

RCSpec == RCInit /\ [][RCNext]_rcVars

-----------------------------------------------------------------------------
\* What a pair of trials under the same levels really shows: the target is
\* judged by what it let through, the path by what was delivered.
Residual(cell) ==
    IF cell.target = "approved" THEN "target_effective"
    ELSE IF cell.guard = "enforce" THEN "masked_restore_failure" ELSE "exposed_path"

\* An assessment that is not refused names the residual of the levels its
\* results claim, whatever was rewritten in them: the only other answer is
\* "unresolved", for a pair whose session rows were rewritten.  In particular
\* the outcome baseline passes for a masked failure and the assessment does
\* not.  A pair executed under matched levels and handed over as it was
\* executed is refused only if the assessment saw another bundle than the
\* trials in the directory, or if the runtime had a threshold of 1; then it is
\* always refused, since the guard takes the benign record for a bulk export
\* and the fixed semantics know no bulk rule (assess_recovery_case,
\* _validate_fixed_execution_semantics).
RecoveryIsClassified ==
    rcVerdict # Nil =>
        IF rcVerdict.class = "refused"
        THEN \/ rcResults # rcTruth \/ ~ Matched(rcTruth["attack"], rcTruth["benign"])
             \/ rcVerdict.saw # rcTruth["attack"].clone.bundle
             \/ rcThreshold = 1
        ELSE /\ rcVerdict.class \in {Residual(rcVerdict.cell), "unresolved"}
             /\ rcVerdict.baseline <=> Residual(rcVerdict.cell) # "exposed_path"
             /\ rcVerdict.class = "unresolved" =>
                   \E i \in RInputs : rcResults[i].session # rcTruth[i].session
             /\ rcResults = rcTruth => rcThreshold > 1

\* A clone is opened only on the cutover the target's own branch produced,
\* with payloads of the one bundle that was verified, whatever fixture was
\* supplied and however the directory changed during the validation
\* (_validate_cutover_fixture, _validate_lifecycle_bundle_reference).
RecoveryRunsOnItsCutover ==
    rcDb.run # Nil =>
        /\ rcFixtures[rcCell.target] = Fixture(rcCell.target)
        /\ rcPin.read = << "sound", "sound" >>
=============================================================================

---------------------------- MODULE ResponseTrial ----------------------------
(***************************************************************************)
(* The session-revocation experiment.  A runner executes the sixteen cells *)
(* of the design, each on a fresh in-memory database                       *)
(* (financial_response_runtime.py), and writes one bundle of artifacts     *)
(* bound to each other by digests; a repository verifies the directory,    *)
(* reads it payload by payload, re-derives every stage from the raw rows   *)
(* and admits or refuses the bundle (financial_response_e2e.py).           *)
(*                                                                         *)
(* A digest is the content it addresses, and a trial's key, trace and      *)
(* clone identifiers are its cell.  The model keeps the artifacts of the   *)
(* Watched trials; those of the others are written once and never change.  *)
(* A bundle on disk is not signed: whoever can write the directory may     *)
(* edit an artifact and recompute whatever depends on it, before or while  *)
(* the repository loads it.                                                *)
(***************************************************************************)
EXTENDS Integers, Sequences, FiniteSets, Absent

CONSTANTS RPWatched,    \* the cells whose artifacts the model keeps
          MaxEdits,     \* bound: edits of the directory
          MaxSwaps      \* bound: payloads replaced while the bundle is loaded

RPCells == [input : {"attack", "benign"}, target : {"ineffective", "effective"},
            compensator : {"off", "on"}, sham : {"steady", "reload"}]
Sessions == {"compromised", "sibling", "unrelated"}
Subject == [s \in Sessions |-> IF s = "unrelated" THEN "support-042" ELSE "support-017"]
Principals == {"support-017", "support-042"}
RPStages == {"input", "target", "compensator", "outcome"}
Payloads == {"provenance", "observations", "stages", "metrics", "attestations",
             "cleanups", "trials"}

\* _current_selector of the contract.
RPCurrent == [input |-> "attack", target |-> "ineffective", compensator |-> "on",
              sham |-> "steady"]

ASSUME ResponseAssumption ==
    /\ RPWatched \subseteq RPCells /\ RPCurrent \in RPWatched
    /\ \E c \in RPWatched : c.input = "benign"
    /\ MaxEdits \in Nat /\ MaxSwaps \in Nat

VARIABLES rpStep,      \* where the runner or the repository stands
          rpOrdinal,   \* the trial being run
          rpClock,     \* the runner's last clock reading
          rpWindow,    \* the contract's evidence window
          rpDb,        \* the clone's tables
          rpObs,       \* the readbacks of the trial so far
          rpRun,       \* the payloads gathered by the runner
          rpDisk,      \* the directory: payload -> trial -> artifact
          rpManifest,  \* the digests the manifest holds
          rpVerifier,  \* the source set of the verifying process
          rpPinned,    \* the manifest the repository verified first
          rpLoaded,    \* the payloads it has read
          rpEdits,     \* edits made
          rpSwaps,     \* replacements made while it was loading
          rpCase       \* the assessment, if made

rpRunner == << rpOrdinal, rpClock, rpWindow, rpDb, rpObs, rpRun >>
rpBundle == << rpDisk, rpManifest, rpEdits, rpSwaps >>
rpReader == << rpVerifier, rpPinned, rpLoaded, rpCase >>
rpVars == << rpStep, rpRunner, rpBundle, rpReader >>

Readings == 12    \* clock readings of one trial
Ordinal(c) == 1 + (IF c.input = "benign" THEN 8 ELSE 0)
                + (IF c.target = "effective" THEN 4 ELSE 0)
                + (IF c.compensator = "on" THEN 2 ELSE 0)
                + (IF c.sham = "reload" THEN 1 ELSE 0)
RPCell(k) == CHOOSE c \in RPCells : Ordinal(c) = k
rpCell == RPCell(rpOrdinal)

RPInit ==
    /\ rpStep = "begin" /\ rpOrdinal = 1 /\ rpClock = 0
    /\ rpWindow \in [start : {0, 2}, end : {16 * Readings - 1, 16 * Readings}]
    /\ rpDb = Nil /\ rpObs = Nil
    /\ rpRun = [p \in Payloads |-> IF p = "provenance" THEN "written" ELSE << >>]
    /\ rpDisk = Nil /\ rpManifest = Nil /\ rpVerifier \in {"written", "changed"}
    /\ rpPinned = Nil /\ rpLoaded = << >> /\ rpEdits = 0 /\ rpSwaps = 0 /\ rpCase = Nil

\* A table with one more row.
WithRow(f, k, v) == [x \in DOMAIN f \cup {k} |-> IF x = k THEN v ELSE f[x]]

-----------------------------------------------------------------------------
(* The runtime: one trial on its clone. *)

\* _expected_responder_instance_id, _expected_sham_operation_id.
InstanceId(clone, generation) == << clone, generation >>
Responder(clone, generation) ==
    [clone |-> clone, generation |-> generation, instance |-> InstanceId(clone, generation)]
ShamReceipt(operation, before, after, rows) ==
    [operation |-> operation, before |-> before, after |-> after, rows |-> rows]

\* The readbacks of a trial that has only begun.
Begun(cell) ==
    [trial |-> cell, trace |-> cell, clone |-> cell, action |-> cell.input,
     before |-> Nil, after |-> Nil, shamOp |-> Nil, sess0 |-> Nil, prin0 |-> Nil,
     sess1 |-> Nil, prin1 |-> Nil, response |-> Nil, target |-> Nil, sess2 |-> Nil,
     prin2 |-> Nil, compensator |-> Nil, replay |-> Nil, unrelated |-> Nil]

\* _fresh_database, after the trial's first clock reading.
RPBegin ==
    /\ rpStep = "begin"
    /\ rpStep' = "sham" /\ rpClock' = rpClock + 1
    /\ rpDb' = [responder |-> Responder(rpCell, 0),
                sessions |-> [s \in Sessions |-> [principal |-> Subject[s], active |-> TRUE]],
                principals |-> [p \in Principals |-> FALSE]]
    /\ rpObs' = Begun(rpCell)
    /\ UNCHANGED << rpOrdinal, rpWindow, rpRun, rpBundle, rpReader >>

\* _validate_sham_operation.
ShamValid(cell, clone, before, after, receipt) ==
    LET operation == IF cell.sham = "reload" THEN "reload" ELSE "steady-observation"
        generation == IF operation = "reload" THEN 1 ELSE 0
    IN /\ before = Responder(clone, 0) /\ after = Responder(clone, generation)
       /\ receipt = ShamReceipt(operation, before, after, generation)

\* _reload_responder: the responder's next generation in the same clone.
Reloaded(responder) == Responder(responder.clone, responder.generation + 1)

\* The sham arm: the operation is recorded, read back and compared either way.
RPSham ==
    LET before == rpDb.responder
        reload == rpCell.sham = "reload"
        after == IF reload THEN Reloaded(before) ELSE before
        receipt == ShamReceipt(IF reload THEN "reload" ELSE "steady-observation",
                               before, after, IF reload THEN 1 ELSE 0)
    IN /\ rpStep = "sham"
       /\ rpStep' = IF ShamValid(rpCell, rpCell, before, after, receipt)
                    THEN "target" ELSE "failed"
       /\ rpDb' = [rpDb EXCEPT !.responder = after]
       /\ rpObs' = [rpObs EXCEPT !.before = before, !.after = after, !.shamOp = receipt]
       /\ UNCHANGED << rpOrdinal, rpClock, rpWindow, rpRun, rpBundle, rpReader >>

\* What the session revoker does under a cell.
TargetOperation(cell) ==
    IF cell.input = "benign" THEN "not-triggered"
    ELSE IF cell.target = "effective" THEN "revoke-exact" ELSE "report-only"
ActionStatus(cell) == IF cell.input = "attack" THEN "reported-success" ELSE "not-triggered"

\* _record_and_read_response_action.
ActionReceipt(cell, trace, responder, operation, rows) ==
    [instance |-> responder.instance, trace |-> trace, action |-> cell.input,
     mode |-> cell.target, operation |-> operation, status |-> ActionStatus(cell),
     rows |-> rows]

\* _changed_session_ids.
Changed(before, after) == {s \in DOMAIN before : before[s] # after[s]}

\* The target arm: an effective revoker revokes exactly the compromised
\* session, an ineffective one only reports success.
RPRespond ==
    LET operation == TargetOperation(rpCell)
        exact == operation = "revoke-exact"
        sessions == IF exact THEN [rpDb.sessions EXCEPT !["compromised"].active = FALSE]
                    ELSE rpDb.sessions
        rows == IF exact THEN 1 ELSE 0
        modified == Changed(rpDb.sessions, sessions)
    IN /\ rpStep = "target"
       /\ rpStep' = IF modified = (IF exact THEN {"compromised"} ELSE {})
                    THEN "quarantine" ELSE "failed"
       /\ rpDb' = [rpDb EXCEPT !.sessions = sessions]
       /\ rpObs' = [rpObs EXCEPT
             !.sess0 = rpDb.sessions, !.prin0 = rpDb.principals,
             !.sess1 = sessions, !.prin1 = rpDb.principals,
             !.response = ActionReceipt(rpCell, rpCell, rpDb.responder, operation, rows),
             !.target = [operation |-> operation, rows |-> rows]]
       /\ UNCHANGED << rpOrdinal, rpClock, rpWindow, rpRun, rpBundle, rpReader >>

Quarantines(cell) == cell.input = "attack" /\ cell.compensator = "on"

\* The compensating arm: the compromised principal is quarantined, and no
\* session row may have changed.
RPQuarantine ==
    LET applied == Quarantines(rpCell)
        principals == IF applied THEN [rpDb.principals EXCEPT !["support-017"] = TRUE]
                      ELSE rpDb.principals
    IN /\ rpStep = "quarantine"
       /\ rpStep' = "probe"
       /\ rpDb' = [rpDb EXCEPT !.principals = principals]
       /\ rpObs' = [rpObs EXCEPT
             !.sess2 = rpDb.sessions, !.prin2 = principals,
             !.compensator = [operation |-> IF applied THEN "quarantine" ELSE "not-triggered",
                              rows |-> IF applied THEN 1 ELSE 0]]
       /\ UNCHANGED << rpOrdinal, rpClock, rpWindow, rpRun, rpBundle, rpReader >>

\* _request_decision.
Decision(principal, session, sessions, principals) ==
    LET bound == sessions[session].principal = principal
        revoked == bound /\ ~sessions[session].active
        quarantined == principals[principal]
    IN [principal |-> principal, session |-> session, revoked |-> revoked,
        quarantined |-> quarantined, available |-> bound /\ ~revoked /\ ~quarantined]

\* The two gateway probes; then the clone is closed.
RPProbe ==
    /\ rpStep = "probe"
    /\ rpStep' = "artifacts" /\ rpDb' = Nil
    /\ rpObs' = [rpObs EXCEPT
         !.replay = Decision("support-017", "compromised", rpDb.sessions, rpDb.principals),
         !.unrelated = Decision("support-042", "unrelated", rpDb.sessions, rpDb.principals)]
    /\ UNCHANGED << rpOrdinal, rpClock, rpWindow, rpRun, rpBundle, rpReader >>

\* _events: what each stage of the trial reports.
StagePayloads(cell, obs) ==
    [input |-> [action |-> cell.input, sham |-> cell.sham],
     target |-> [mode |-> cell.target, status |-> obs.response.status,
                 reported |-> obs.response.status = "reported-success",
                 exact |-> cell.input = "attack" /\ cell.target = "effective",
                 active |-> obs.sess1["compromised"].active,
                 others |-> \A s \in Sessions \ {"compromised"} : obs.sess1[s].active,
                 modified |-> Changed(obs.sess0, obs.sess1)],
     compensator |-> [mode |-> cell.compensator, applied |-> Quarantines(cell),
                      quarantined |-> obs.prin2["support-017"],
                      modified |-> Changed(obs.sess1, obs.sess2)],
     outcome |-> [denied |-> ~obs.replay.available,
                  available |-> obs.unrelated.available]]

-----------------------------------------------------------------------------
(* The runner: the artifacts of a trial, bound to each other by digests. *)

\* _METRIC_BINDINGS: the stage and the field a metric is read from.
Bindings == [active      |-> << "target", "active" >>,
             others      |-> << "target", "others" >>,
             reported    |-> << "target", "reported" >>,
             quarantined |-> << "compensator", "quarantined" >>,
             denied      |-> << "outcome", "denied" >>,
             available   |-> << "outcome", "available" >>]
Metrics == DOMAIN Bindings

Position(stage) == CASE stage = "input" -> 0 [] stage = "target" -> 1
                     [] stage = "compensator" -> 2 [] stage = "outcome" -> 3

\* _stage_artifacts: two clock readings for each stage.
StageArtifacts(cell, obs, payloads, clock) ==
    [s \in RPStages |-> [trial |-> cell, trace |-> cell, stage |-> s, action |-> cell.input,
                         observation |-> obs, payload |-> payloads[s],
                         began |-> clock + 2 * Position(s) + 1,
                         ended |-> clock + 2 * Position(s) + 2]]

\* _metric_artifacts: a metric is a field of the stage it names.
MetricArtifacts(cell, stages) ==
    [m \in Metrics |->
        LET event == stages[Bindings[m][1]]
        IN [trial |-> cell, trace |-> event.trace, event |-> event,
            value |-> event.payload[Bindings[m][2]], at |-> event.ended]]

Attestation(cell, obs, began, ended) ==
    [trial |-> cell, ordinal |-> Ordinal(cell), trace |-> cell, clone |-> cell,
     action |-> cell.input, selector |-> cell, observation |-> obs,
     began |-> began, ended |-> ended]

Cleanup(cell, obs, outcome, at) ==
    [trial |-> cell, trace |-> cell, clone |-> cell, observation |-> obs,
     outcomeEnded |-> outcome.ended, at |-> at]

\* _executed_event: what the trace keeps of a stage.
ExecutedEvent(artifact) ==
    [stage |-> artifact.stage, evidence |-> artifact, began |-> artifact.began,
     ended |-> artifact.ended]

TrialRecord(cell, stages, attestation, cleanup) ==
    [trial |-> cell, cell |-> cell, trace |-> cell, clone |-> cell, action |-> cell.input,
     events |-> [s \in RPStages |-> ExecutedEvent(stages[s])],
     attestation |-> attestation, cleanup |-> cleanup]

\* One trial's line of each payload.
TrialArtifacts(cell, obs, clock) ==
    LET stages == StageArtifacts(cell, obs, StagePayloads(cell, obs), clock + 1)
        attestation == Attestation(cell, obs, clock, clock + 10)
        cleanup == Cleanup(cell, obs, stages["outcome"], clock + 11)
    IN [observations |-> obs, stages |-> stages, metrics |-> MetricArtifacts(cell, stages),
        attestations |-> attestation, cleanups |-> cleanup,
        trials |-> TrialRecord(cell, stages, attestation, cleanup)]

\* The trial's artifacts are appended to the payloads.
RPArtifacts ==
    LET line == TrialArtifacts(rpCell, rpObs, rpClock) IN
    /\ rpStep = "artifacts"
    /\ rpClock' = rpClock + Readings - 1
    /\ rpRun' = [p \in Payloads |->
                   IF p = "provenance" \/ rpCell \notin RPWatched THEN rpRun[p]
                   ELSE WithRow(rpRun[p], rpCell, line[p])]
    /\ rpObs' = Nil
    /\ rpStep' = IF rpOrdinal < 16 THEN "begin" ELSE "window"
    /\ rpOrdinal' = IF rpOrdinal < 16 THEN rpOrdinal + 1 ELSE rpOrdinal
    /\ UNCHANGED << rpWindow, rpDb, rpBundle, rpReader >>

\* _next_time: the clock does not advance in 10 000 readings.
RPStalled ==
    /\ rpStep \in {"begin", "artifacts"} /\ rpStep' = "failed"
    /\ rpDb' = Nil
    /\ UNCHANGED << rpOrdinal, rpClock, rpWindow, rpObs, rpRun, rpBundle, rpReader >>

\* The last cleanup has to lie in the evidence window; then the bundle is
\* written, its manifest last.
RPWrite ==
    /\ rpStep = "window"
    /\ IF rpClock > rpWindow.end
       THEN rpStep' = "failed" /\ UNCHANGED << rpDisk, rpManifest >>
       ELSE rpStep' = "written" /\ rpDisk' = rpRun /\ rpManifest' = rpRun
    /\ UNCHANGED << rpRunner, rpEdits, rpSwaps, rpReader >>

-----------------------------------------------------------------------------
(* Edits of the directory. *)

\* A trial's observation with one row, receipt or readback changed.
AlteredObservations(obs) ==
    {[obs EXCEPT !.sess1[s].active = ~@, !.sess2[s].active = ~@] : s \in Sessions}
    \cup {[obs EXCEPT !.prin2[p] = ~@] : p \in Principals}
    \cup {[obs EXCEPT !.sess1["compromised"].active = ~@],
          [obs EXCEPT !.sess0["compromised"].active = FALSE],
          [obs EXCEPT !.response.status = "reported-success"],
          [obs EXCEPT !.target.operation = "revoke-exact", !.target.rows = 1],
          [obs EXCEPT !.replay.revoked = ~@, !.replay.available = FALSE],
          [obs EXCEPT !.replay.available = ~@],
          [obs EXCEPT !.unrelated.quarantined = ~@, !.unrelated.available = ~@],
          [obs EXCEPT !.after.generation = 1 - @]}

\* Another trial's observation under this trial's identity.
Relabelled(cell, obs) == [obs EXCEPT !.trial = cell, !.trace = cell, !.clone = cell]

\* A directory in which trial t has artifacts a.
WithTrial(disk, t, a) ==
    [p \in Payloads |-> IF p = "provenance" THEN disk[p] ELSE [disk[p] EXCEPT ![t] = a[p]]]

\* Everything that depends on an observation, recomputed from it.
Rederived(t, obs) == TrialArtifacts(t, obs, (Ordinal(t) - 1) * Readings + 1)

\* The stages and metrics keep what they said; only the digests follow.
Rebound(t, obs) ==
    LET a == Rederived(t, obs)
        stages == [s \in RPStages |->
                     [rpDisk["stages"][t][s] EXCEPT !.observation = obs]]
    IN [a EXCEPT !.stages = stages, !.metrics = MetricArtifacts(t, stages),
                 !.trials = TrialRecord(t, stages, a.attestations, a.cleanups)]

\* What an edit makes of one trial's lines.
EditedTrial(t) ==
    LET altered == AlteredObservations(rpDisk["observations"][t])
        moved == {Relabelled(t, rpDisk["observations"][u]) : u \in RPWatched \ {t}}
    IN {WithTrial(rpDisk, t, Rederived(t, o)) : o \in altered \cup moved}
       \cup {WithTrial(rpDisk, t, Rebound(t, o)) : o \in altered}
       \cup {[rpDisk EXCEPT !["metrics"][t][m].value = ~@] : m \in Metrics}
       \cup {[rpDisk EXCEPT !["observations"][t].sess1["compromised"].active = ~@],
             [rpDisk EXCEPT !["stages"][t]["outcome"].payload.denied = ~@],
             [rpDisk EXCEPT !["attestations"][t].selector.target = "effective"],
             [rpDisk EXCEPT !["attestations"][t].ended = rpWindow.end + 1],
             [rpDisk EXCEPT !["cleanups"][t].at = 0]}

Edited == (UNION {EditedTrial(t) : t \in RPWatched})
          \cup {[rpDisk EXCEPT !["provenance"] = "changed"]}

\* An edit, with or without the manifest recomputed over it.
RPEdit ==
    /\ rpStep = "written" /\ rpEdits < MaxEdits
    /\ rpDisk' \in Edited /\ rpDisk' # rpDisk
    /\ rpManifest' \in {rpManifest, rpDisk'}
    /\ rpEdits' = rpEdits + 1
    /\ UNCHANGED << rpStep, rpRunner, rpSwaps, rpReader >>

\* While the bundle is loaded, a payload is put back to what the runner wrote
\* or to what the manifest names, or the whole directory to what it was.
RPSwap ==
    /\ rpStep \in {"verified", "checked"} /\ rpSwaps < MaxSwaps
    /\ \/ /\ \E p \in Payloads : rpDisk' \in {[rpDisk EXCEPT ![p] = rpRun[p]],
                                             [rpDisk EXCEPT ![p] = rpManifest[p]]}
          /\ UNCHANGED rpManifest
       \/ rpDisk' = rpRun /\ rpManifest' = rpRun
    /\ << rpDisk, rpManifest >>' # << rpDisk, rpManifest >>
    /\ rpSwaps' = rpSwaps + 1
    /\ UNCHANGED << rpStep, rpRunner, rpEdits, rpReader >>

-----------------------------------------------------------------------------
(* The repository. *)

\* verify_bundle: every payload has the digest the manifest names.
IntegrityVerified == rpDisk = rpManifest

RPVerify ==
    /\ rpStep = "written"
    /\ rpStep' = IF IntegrityVerified THEN "verified" ELSE "refused"
    /\ rpPinned' = rpManifest
    /\ UNCHANGED << rpRunner, rpBundle, rpVerifier, rpLoaded, rpCase >>

\* The payloads in the order in which they are read.
ReadOrder == << "provenance", "observations", "stages", "metrics", "attestations",
                "cleanups", "trials" >>

\* Fault: a payload is trusted once the bundle has been verified.
Unhashed(p) == TRUE
\* _read_rehashed: a payload still has the digest of the pinned manifest.
Rehashed(p) == rpDisk[p] = rpPinned[p]

\* The bundled contract, source set, snapshot and fixture are those of the
\* verifying process.
ProvenanceValid(p) == p = "provenance" => rpDisk[p] = rpVerifier

RPRead ==
    LET p == ReadOrder[Cardinality(DOMAIN rpLoaded) + 1] IN
    /\ rpStep = "verified" /\ Cardinality(DOMAIN rpLoaded) < Len(ReadOrder)
    /\ IF Rehashed(p) /\ ProvenanceValid(p)
       THEN rpStep' = rpStep /\ rpLoaded' = WithRow(rpLoaded, p, rpDisk[p])
       ELSE rpStep' = "refused" /\ UNCHANGED rpLoaded
    /\ UNCHANGED << rpRunner, rpBundle, rpVerifier, rpPinned, rpCase >>

\* The validators of the observation's own fields: the gateway decision
\* follows from its row receipts.
DecisionCoherent(d) == d.available = (~d.revoked /\ ~d.quarantined)

\* The trial record is the planned one.
MatchesPlan(t, record) ==
    record.trial = t /\ record.cell = t /\ record.trace = t /\ record.clone = t

\* _attestation_matches_record.
AttestationMatches(a, record) ==
    /\ a.trial = record.trial /\ a.trace = record.trace /\ a.action = record.action
    /\ a.clone = record.clone /\ record.attestation = a

\* Selector and provenance of the attestation and of the observation.
ProvenanceMatches(t, a, obs, record) ==
    /\ a.ordinal = Ordinal(t) /\ a.selector = t
    /\ a.action = t.input /\ record.action = t.input
    /\ a.observation = obs
    /\ obs.trial = t /\ obs.trace = record.trace /\ obs.action = t.input
    /\ obs.clone = record.clone

\* The receipts of both arms are those of the planned interventions.
ReceiptsMatch(t, obs) ==
    /\ obs.response = ActionReceipt(t, obs.trace, obs.after, TargetOperation(t),
                                    obs.target.rows)
    /\ obs.target.operation = TargetOperation(t)
    /\ obs.compensator.operation = IF Quarantines(t) THEN "quarantine" ELSE "not-triggered"

\* The rows of the fixed identity snapshot, before anything happened.
SnapshotMatches(obs) ==
    /\ \A rows \in {obs.sess0, obs.sess1, obs.sess2} :
         [s \in DOMAIN rows |-> rows[s].principal] = Subject
    /\ \A s \in Sessions : obs.sess0[s].active
    /\ \A p \in Principals : ~obs.prin0[p]

\* The before and after rows differ by the planned transition and nothing else.
TransitionsMatch(t, obs) ==
    /\ obs.sess1 = IF TargetOperation(t) = "revoke-exact"
                   THEN [obs.sess0 EXCEPT !["compromised"].active = FALSE] ELSE obs.sess0
    /\ obs.prin1 = obs.prin0 /\ obs.sess2 = obs.sess1
    /\ obs.prin2 = IF Quarantines(t) THEN [obs.prin0 EXCEPT !["support-017"] = TRUE]
                   ELSE obs.prin0

\* The receipts' row counts are those of the rows that changed.
RowCountsMatch(t, obs) ==
    /\ obs.target.rows = Cardinality(Changed(obs.sess0, obs.sess1))
    /\ obs.compensator.rows = Cardinality(Changed(obs.prin1, obs.prin2))
    /\ obs.target.rows = IF TargetOperation(t) = "revoke-exact" THEN 1 ELSE 0
    /\ obs.compensator.rows = IF Quarantines(t) THEN 1 ELSE 0

\* A gateway receipt agrees with the final rows.
GatewayMatches(obs, d, principal, session) ==
    /\ d.principal = principal /\ d.session = session
    /\ d.revoked = ~obs.sess2[session].active /\ d.quarantined = obs.prin2[principal]

\* _derived_events: the checks on the raw rows ...
ObservationValid(t, obs) ==
    /\ DecisionCoherent(obs.replay) /\ DecisionCoherent(obs.unrelated)
    /\ ShamValid(t, obs.clone, obs.before, obs.after, obs.shamOp)
    /\ ReceiptsMatch(t, obs) /\ SnapshotMatches(obs) /\ TransitionsMatch(t, obs)
    /\ RowCountsMatch(t, obs)
    /\ GatewayMatches(obs, obs.replay, "support-017", "compromised")
    /\ GatewayMatches(obs, obs.unrelated, "support-042", "unrelated")

\* ... and the stage payloads they imply.
DerivedPayloads(t, obs) ==
    [StagePayloads(t, obs) EXCEPT
       !.target.exact = obs.target.operation = "revoke-exact",
       !.compensator.applied = obs.compensator.operation = "quarantine"]

\* _stage_matches_event, and the stage is the derived one.
StageMatches(t, stage, artifact, event, record, obs) ==
    /\ artifact.trial = record.trial /\ artifact.trace = record.trace
    /\ artifact.action = record.action /\ artifact.stage = stage
    /\ event = ExecutedEvent(artifact)
    /\ artifact.action = t.input /\ artifact.observation = obs
    /\ artifact.payload = DerivedPayloads(t, obs)[stage]

\* Attestation, stages and window are strictly ordered in time.
TimelineValid(a, stages) ==
    /\ rpWindow.start <= a.began /\ a.began < stages["input"].began
    /\ \A s, u \in RPStages :
         Position(u) = Position(s) + 1 => stages[s].ended < stages[u].began
    /\ stages["outcome"].ended < a.ended /\ a.ended <= rpWindow.end

\* Fault: a metric is believed once its event is in the bundle.
MetricBound(m, metric, stages, record) ==
    metric.event = stages[Bindings[m][1]] /\ metric.trace = record.trace
\* A metric is the field of the stage it names.
MetricMatches(m, metric, stages, record) ==
    LET event == stages[Bindings[m][1]] IN
    /\ metric.trial = record.trial /\ metric.trace = record.trace
    /\ metric.event = event /\ metric.at = event.ended
    /\ metric.value = event.payload[Bindings[m][2]]

\* _cleanup_matches_record, after the attestation and inside the window.
CleanupMatches(c, a, obs, record) ==
    /\ record.cleanup = c
    /\ c.trial = record.trial /\ c.trace = record.trace /\ c.clone = record.clone
    /\ c.outcomeEnded = record.events["outcome"].ended
    /\ c.observation = obs /\ a.ended < c.at /\ c.at <= rpWindow.end

\* _validate_cross_references, for one trial of the plan.
TrialValid(t) ==
    LET obs == rpLoaded["observations"][t]
        stages == rpLoaded["stages"][t]
        a == rpLoaded["attestations"][t]
        record == rpLoaded["trials"][t]
    IN /\ MatchesPlan(t, record) /\ AttestationMatches(a, record)
       /\ ProvenanceMatches(t, a, obs, record) /\ ObservationValid(t, obs)
       /\ \A s \in RPStages :
            StageMatches(t, s, stages[s], record.events[s], record, obs)
       /\ TimelineValid(a, stages)
       /\ \A m \in Metrics :
            MetricMatches(m, rpLoaded["metrics"][t][m], stages, record)
       /\ CleanupMatches(rpLoaded["cleanups"][t], a, obs, record)

RPCheck ==
    /\ rpStep = "verified" /\ Cardinality(DOMAIN rpLoaded) = Len(ReadOrder)
    /\ rpStep' = IF \A t \in RPWatched : TrialValid(t) THEN "checked" ELSE "refused"
    /\ UNCHANGED << rpRunner, rpBundle, rpReader >>

\* The bundle is verified once more and has to be the one pinned at first.
RPFinal ==
    /\ rpStep = "checked"
    /\ rpStep' = IF IntegrityVerified /\ rpManifest = rpPinned THEN "admitted" ELSE "refused"
    /\ UNCHANGED << rpRunner, rpBundle, rpReader >>

\* metric_value.
MetricValue(t, m) == rpLoaded["metrics"][t][m].value

\* The class of a case, from what its arms and its path support.
ResponseClass(target, compensator, path, benign) ==
    CASE ~target /\ compensator /\ path /\ benign -> "masked-revocation-failure"
      [] ~path                                    -> "exposed-replay"
      [] target /\ path /\ benign                 -> "target-effective"
      [] OTHER                                    -> "unresolved"

\* evaluate_financial_response_bundle: the current cell, and every benign one.
RPEvaluate ==
    LET current == RPWatched \cap {RPCurrent}
        benign == {t \in RPWatched : t.input = "benign"}
        success == \A t \in current : MetricValue(t, "reported")
        denied == \A t \in current : MetricValue(t, "denied")
    IN /\ rpStep = "admitted" /\ rpStep' = "evaluated"
       /\ rpCase' = [baseline |-> IF success /\ denied THEN "pass" ELSE "fail",
                     class |-> ResponseClass(
                        \A t \in current : ~MetricValue(t, "active"),
                        \A t \in current : MetricValue(t, "quarantined"), denied,
                        benign # {} /\ \A t \in benign : MetricValue(t, "available"))]
       /\ UNCHANGED << rpRunner, rpBundle, rpVerifier, rpPinned, rpLoaded >>

RPNext == \/ RPBegin \/ RPSham \/ RPRespond \/ RPQuarantine \/ RPProbe \/ RPArtifacts
          \/ RPStalled \/ RPWrite \/ RPEdit \/ RPSwap \/ RPVerify \/ RPRead \/ RPCheck
          \/ RPFinal \/ RPEvaluate

RPSpec == RPInit /\ [][RPNext]_rpVars

-----------------------------------------------------------------------------
(* Properties. *)

\* What a trial of a cell shows, whatever is written about it: the session is
\* live unless it was revoked, and the replay is denied by either arm.
ExpectedMetrics(t) ==
    LET attack == t.input = "attack"
        revoked == attack /\ t.target = "effective"
        quarantined == attack /\ t.compensator = "on"
    IN [active |-> ~revoked, others |-> TRUE, reported |-> attack,
        quarantined |-> quarantined, denied |-> revoked \/ quarantined, available |-> TRUE]

\* A bundle is admitted only with the metrics its trials really produced,
\* however its artifacts were edited and rebound; an evaluation then finds the
\* revocation failure behind the quarantine, which the status-and-replay
\* baseline passes; and a bundle nobody touched is admitted if it lies in the
\* window and the verifier has its sources
\* (FinancialResponseBundleRepository, evaluate_financial_response_bundle).
AdmittedResponseIsExecuted ==
    /\ rpStep \in {"admitted", "evaluated"} =>
         \A t \in RPWatched, m \in Metrics : MetricValue(t, m) = ExpectedMetrics(t)[m]
    /\ rpStep = "evaluated" =>
         rpCase = [baseline |-> "pass", class |-> "masked-revocation-failure"]
    /\ rpStep = "refused" /\ rpEdits = 0 =>
         rpVerifier = "changed" \/ rpWindow.start > 0

\* The repository admits one bundle: what it read, payload by payload, is what
\* lies in the directory when it is verified for the last time, though payloads
\* were replaced and put back meanwhile (_read_rehashed and the final verify).
AdmittedBundleIsOne ==
    [][rpStep # "admitted" /\ rpStep' = "admitted" => rpLoaded = rpDisk]_rpVars

===============================================================================

----------------------------- MODULE SupportTrial -----------------------------
(***************************************************************************)
(* The support-export experiment: sixteen trials on fresh in-memory        *)
(* databases (financial_support_runtime.py), written as one bundle and     *)
(* read back by a repository that re-derives every stage from the raw rows *)
(* (financial_support_e2e.py).  Its request path can stop at the           *)
(* authorization boundary, and then the release guard's stage is skipped.  *)
(* Digests, trial identifiers, Watched trials and edits of the directory   *)
(* are as in ResponseTrial; metrics have no artifact of their own here:    *)
(* they are read from the stage artifacts when the evaluator asks.         *)
(***************************************************************************)
EXTENDS Integers, Sequences, FiniteSets, Absent

CONSTANTS SPWatched,     \* the cells whose artifacts the model keeps
          SPMaxEdits,    \* bound: edits of the directory
          SPMaxSwaps     \* bound: payloads replaced while it is loaded

SPCells == [input : {"attack", "benign"}, target : {"wildcard", "assigned"},
            compensator : {"monitor", "enforce"}, sham : BOOLEAN]
SPPayloads == {"provenance", "observations", "stages", "attestations", "cleanups", "trials"}

ASSUME SupportAssumption ==
    SPWatched \subseteq SPCells /\ SPMaxEdits \in Nat /\ SPMaxSwaps \in Nat

VARIABLES spStep, spOrdinal, spClock, spWindow, spDb, spObs, spRun,
          spDisk, spManifest, spVerifier, spPinned, spLoaded, spEdits, spSwaps

spRunner == << spOrdinal, spClock, spWindow, spDb, spObs, spRun >>
spBundle == << spDisk, spManifest, spEdits, spSwaps >>
spReader == << spVerifier, spPinned, spLoaded >>
spVars == << spStep, spRunner, spBundle, spReader >>

BulkRecords == 10                       \* bulk_threshold_records
\* action_descriptor: the attack asks for ten customers, none of them assigned.
RequestedBy(cell) == IF cell.input = "attack" THEN 21..30 ELSE {17}
\* The fixture's active cases of the principal (_validate_fixture).
AssignedIds == {17}

SPReadings == 12
SPOrdinal(c) == 1 + (IF c.input = "benign" THEN 8 ELSE 0)
                  + (IF c.target = "assigned" THEN 4 ELSE 0)
                  + (IF c.compensator = "enforce" THEN 2 ELSE 0)
                  + (IF c.sham THEN 1 ELSE 0)
SPCell(k) == CHOOSE c \in SPCells : SPOrdinal(c) = k
spCell == SPCell(spOrdinal)

SPInit ==
    /\ spStep = "begin" /\ spOrdinal = 1 /\ spClock = 0
    /\ spWindow \in [start : {0}, end : {16 * SPReadings - 9, 16 * SPReadings}]
    /\ spDb = Nil /\ spObs = Nil
    /\ spRun = [p \in SPPayloads |-> IF p = "provenance" THEN "written" ELSE << >>]
    /\ spDisk = Nil /\ spManifest = Nil /\ spVerifier \in {"written", "changed"}
    /\ spPinned = Nil /\ spLoaded = << >> /\ spEdits = 0 /\ spSwaps = 0

-----------------------------------------------------------------------------
(* The runtime: one request on its clone. *)

\* _fresh_database: one generation of the clone, with the fixture's rows.
Generation(clone, n) ==
    [instance |-> << clone, n >>, generation |-> n, assigned |-> AssignedIds]

\* The readbacks of a trial that has only begun.
SPBegun(cell) ==
    [trial |-> cell, trace |-> cell, clone |-> cell, action |-> cell.input,
     generation |-> Nil, instance |-> Nil, redeploy |-> Nil, request |-> Nil,
     assigned |-> Nil, authorization |-> Nil, selected |-> Nil, guard |-> Nil,
     delivered |-> Nil, received |-> Nil]

SPBegin ==
    /\ spStep = "begin"
    /\ spStep' = "redeploy" /\ spClock' = spClock + 1
    /\ spDb' = Generation(spCell, 1)
    /\ spObs' = SPBegun(spCell)
    /\ UNCHANGED << spOrdinal, spWindow, spRun, spBundle, spReader >>

\* The redeploy receipt: both instances, and whether the first was closed.
RedeployReceipt(sham, before, after) ==
    [performed |-> sham, before |-> before, after |-> after, closed |-> sham]

\* The sham arm closes generation 1 and opens generation 2 over the same rows.
SPRedeploy ==
    LET after == IF spCell.sham THEN Generation(spCell, 2) ELSE spDb IN
    /\ spStep = "redeploy" /\ spStep' = "authorize"
    /\ spDb' = after
    /\ spObs' = [spObs EXCEPT
         !.generation = after.generation, !.instance = after.instance,
         !.redeploy = RedeployReceipt(spCell.sham, spDb.instance, after.instance)]
    /\ UNCHANGED << spOrdinal, spClock, spWindow, spRun, spBundle, spReader >>

\* The authorization boundary: a wildcard grant, or only assigned customers.
Allowed(cell, requested, assigned) ==
    cell.target = "wildcard" \/ requested \subseteq assigned

\* _persist_request and _request_receipt; _persist_authorization and
\* _authorization_receipt.
RequestReceipt(trace, requested) == [trace |-> trace, requested |-> requested]
AuthorizationReceipt(cell, allowed) == [mode |-> cell.target, allowed |-> allowed]

SPAuthorize ==
    LET requested == RequestedBy(spCell) IN
    /\ spStep = "authorize" /\ spStep' = "select"
    /\ spObs' = [spObs EXCEPT
         !.request = RequestReceipt(spCell, requested), !.assigned = spDb.assigned,
         !.authorization =
            AuthorizationReceipt(spCell, Allowed(spCell, requested, spDb.assigned))]
    /\ UNCHANGED << spOrdinal, spClock, spWindow, spDb, spRun, spBundle, spReader >>

SPSelect ==
    /\ spStep = "select" /\ spStep' = "guard"
    /\ spObs' = [spObs EXCEPT !.selected = IF spObs.authorization.allowed
                                           THEN spObs.request.requested ELSE {}]
    /\ UNCHANGED << spOrdinal, spClock, spWindow, spDb, spRun, spBundle, spReader >>

\* Fault: the guard trips only above the threshold.
GuardAbove(cell, allowed, count) ==
    IF ~allowed THEN "not_reached"
    ELSE IF cell.compensator = "enforce" /\ count > BulkRecords THEN "block" ELSE "allow"
\* The release guard: a bulk selection is blocked when it is enforced.
GuardDecision(cell, allowed, count) ==
    IF ~allowed THEN "not_reached"
    ELSE IF cell.compensator = "enforce" /\ count >= BulkRecords THEN "block" ELSE "allow"

\* _persist_guard and _guard_receipt.
GuardReceipt(cell, allowed, count, decision) ==
    [mode |-> cell.compensator, reached |-> allowed, count |-> count, decision |-> decision]

SPGuard ==
    LET allowed == spObs.authorization.allowed
        count == Cardinality(spObs.selected)
    IN /\ spStep = "guard" /\ spStep' = "deliver"
       /\ spObs' = [spObs EXCEPT !.guard = GuardReceipt(spCell, allowed, count,
                                                        GuardDecision(spCell, allowed, count))]
       /\ UNCHANGED << spOrdinal, spClock, spWindow, spDb, spRun, spBundle, spReader >>

\* _persist_delivery_and_client_receipt: the client got what was delivered.
WithReceipts(obs, delivered) == [obs EXCEPT !.delivered = delivered, !.received = delivered]

\* The delivery and the client's receipt; then the clone is closed.
SPDeliver ==
    LET delivered == IF spObs.guard.decision = "allow" THEN spObs.selected ELSE {} IN
    /\ spStep = "deliver" /\ spStep' = "artifacts" /\ spDb' = Nil
    /\ spObs' = WithReceipts(spObs, delivered)
    /\ UNCHANGED << spOrdinal, spClock, spWindow, spRun, spBundle, spReader >>

\* _events: the stages that were executed, with what they report.
SupportEvents(cell, obs) ==
    LET outside == obs.request.requested \ obs.assigned
        events == [input |-> [sham |-> cell.sham],
                   target |-> [decision |-> obs.authorization.allowed,
                               selectedOutside |-> Cardinality(obs.selected \cap outside)],
                   compensator |-> [blocked |-> obs.guard.decision = "block"],
                   outcome |-> [deliveredOutside |-> Cardinality(obs.delivered \cap outside),
                                deliveredAssigned |->
                                    Cardinality(obs.delivered \cap obs.assigned),
                                delivered |-> obs.delivered]]
        skipped == IF obs.guard.reached THEN {} ELSE {"compensator"}
    IN [s \in {"input", "target", "compensator", "outcome"} \ skipped |-> events[s]]

-----------------------------------------------------------------------------
(* The runner. *)

SPPosition(stage, stages) ==
    CASE stage = "input" -> 0 [] stage = "target" -> 1 [] stage = "compensator" -> 2
      [] stage = "outcome" -> Cardinality(DOMAIN stages) - 1

\* Whether a stage stopped the request.
Blocks(stage, obs) ==
    CASE stage = "target" -> ~obs.authorization.allowed
      [] stage = "compensator" -> obs.guard.decision = "block"
      [] OTHER -> FALSE

\* _stage_artifacts: one for each executed stage.
SupportStages(cell, obs, clock) ==
    LET events == SupportEvents(cell, obs) IN
    [s \in DOMAIN events |->
        [trial |-> cell, trace |-> cell, stage |-> s, action |-> cell.input,
         observation |-> obs, payload |-> events[s], blocks |-> Blocks(s, obs),
         began |-> clock + 2 * SPPosition(s, events) + 1,
         ended |-> clock + 2 * SPPosition(s, events) + 2]]

\* _executed_event, and the skipped compensator names the event that blocked it.
TraceEvents(stages) ==
    [s \in DOMAIN stages \cup {"compensator"} |->
        IF s \in DOMAIN stages
        THEN [evidence |-> stages[s], began |-> stages[s].began, ended |-> stages[s].ended,
              blocks |-> stages[s].blocks]
        ELSE [skippedBy |-> "target"]]

\* One trial's line of each payload.
SupportLine(cell, obs, clock) ==
    LET stages == SupportStages(cell, obs, clock + 1)
        last == clock + 1 + 2 * Cardinality(DOMAIN stages)
        attestation == [trial |-> cell, ordinal |-> SPOrdinal(cell), trace |-> cell,
                        clone |-> cell, action |-> cell.input, selector |-> cell,
                        observation |-> obs, began |-> clock, ended |-> last + 1]
        cleanup == [trial |-> cell, trace |-> cell, clone |-> cell, observation |-> obs,
                    instance |-> obs.instance, outcomeEnded |-> stages["outcome"].ended,
                    at |-> last + 2]
    IN [observations |-> obs, stages |-> stages, attestations |-> attestation,
        cleanups |-> cleanup,
        trials |-> [trial |-> cell, cell |-> cell, trace |-> cell, clone |-> cell,
                    action |-> cell.input, events |-> TraceEvents(stages),
                    attestation |-> attestation, cleanup |-> cleanup]]

\* The trial's artifacts are appended to the payloads.
SPArtifacts ==
    LET line == SupportLine(spCell, spObs, spClock) IN
    /\ spStep = "artifacts"
    /\ spClock' = line.cleanups.at
    /\ spRun' = [p \in SPPayloads |->
                   IF p = "provenance" \/ spCell \notin SPWatched THEN spRun[p]
                   ELSE [t \in DOMAIN spRun[p] \cup {spCell} |->
                           IF t = spCell THEN line[p] ELSE spRun[p][t]]]
    /\ spObs' = Nil
    /\ spStep' = IF spOrdinal < 16 THEN "begin" ELSE "window"
    /\ spOrdinal' = IF spOrdinal < 16 THEN spOrdinal + 1 ELSE spOrdinal
    /\ UNCHANGED << spWindow, spDb, spBundle, spReader >>

\* _next_time: the clock does not advance.
SPStalled ==
    /\ spStep \in {"begin", "artifacts"} /\ spStep' = "failed"
    /\ UNCHANGED << spRunner, spBundle, spReader >>

\* The last cleanup has to lie in the evidence window.
SPWrite ==
    /\ spStep = "window"
    /\ IF spClock > spWindow.end
       THEN spStep' = "failed" /\ UNCHANGED << spDisk, spManifest >>
       ELSE spStep' = "written" /\ spDisk' = spRun /\ spManifest' = spRun
    /\ UNCHANGED << spRunner, spEdits, spSwaps, spReader >>

-----------------------------------------------------------------------------
(* Edits of the directory. *)

\* A trial's observation with one row or receipt changed.
AlteredRows(obs) ==
    {[obs EXCEPT !.authorization.allowed = ~@],
     [obs EXCEPT !.assigned = @ \cup obs.request.requested],
     [obs EXCEPT !.selected = {}],
     [obs EXCEPT !.guard.decision = "allow", !.guard.reached = TRUE],
     [obs EXCEPT !.guard.decision = "block"],
     [obs EXCEPT !.delivered = {}, !.received = {}],
     [obs EXCEPT !.delivered = obs.selected, !.received = obs.selected],
     [obs EXCEPT !.request.requested = {17}, !.selected = {17}],
     [obs EXCEPT !.generation = 3 - @]}

\* What an edit makes of one trial's lines.
SupportEditsOf(t) ==
    LET altered == AlteredRows(spDisk["observations"][t])
        borrowed == {[spDisk["observations"][u] EXCEPT !.trial = t, !.trace = t, !.clone = t]
                     : u \in SPWatched \ {t}}
        Line(o) == SupportLine(t, o, spDisk["attestations"][t].began)
        Rebuilt(o) == [p \in SPPayloads |->
                         IF p = "provenance" THEN spDisk[p]
                         ELSE [spDisk[p] EXCEPT ![t] = Line(o)[p]]]
    IN {[spDisk EXCEPT !["observations"][t] = o] : o \in altered}
       \cup {Rebuilt(o) : o \in altered \cup borrowed}
       \cup {[spDisk EXCEPT !["stages"][t]["outcome"].payload.deliveredOutside = 10 - @],
             [spDisk EXCEPT !["stages"][t]["target"].payload.selectedOutside = 10 - @],
             [spDisk EXCEPT !["attestations"][t].selector.target = "assigned"],
             [spDisk EXCEPT !["trials"][t].events["compensator"] =
                                            [skippedBy |-> "target"]]}

SupportEdits == (UNION {SupportEditsOf(t) : t \in SPWatched})
                \cup {[spDisk EXCEPT !["provenance"] = "changed"]}

SPEdit ==
    /\ spStep = "written" /\ spEdits < SPMaxEdits
    /\ spDisk' \in SupportEdits /\ spDisk' # spDisk
    /\ spManifest' \in {spManifest, spDisk'}
    /\ spEdits' = spEdits + 1
    /\ UNCHANGED << spStep, spRunner, spSwaps, spReader >>

\* A payload is replaced while the bundle is loaded.
SPSwap ==
    /\ spStep \in {"verified", "checked"} /\ spSwaps < SPMaxSwaps
    /\ \E p \in SPPayloads : spDisk' \in {[spDisk EXCEPT ![p] = spRun[p]],
                                          [spDisk EXCEPT ![p] = spManifest[p]]}
    /\ spDisk' # spDisk
    /\ spSwaps' = spSwaps + 1
    /\ UNCHANGED << spStep, spRunner, spManifest, spEdits, spReader >>

-----------------------------------------------------------------------------
(* The repository. *)

SPVerify ==
    /\ spStep = "written"
    /\ spStep' = IF spDisk = spManifest THEN "verified" ELSE "refused"
    /\ spPinned' = spManifest
    /\ UNCHANGED << spRunner, spBundle, spVerifier, spLoaded >>

SPReadOrder == << "provenance", "observations", "stages", "attestations", "cleanups",
                  "trials" >>

\* _read_rehashed, and the contract, source set, dataset and fixture are those
\* of the verifying process.
SPRead ==
    LET p == SPReadOrder[Cardinality(DOMAIN spLoaded) + 1] IN
    /\ spStep = "verified" /\ Cardinality(DOMAIN spLoaded) < Len(SPReadOrder)
    /\ IF spDisk[p] = spPinned[p] /\ (p = "provenance" => spDisk[p] = spVerifier)
       THEN /\ spStep' = spStep
            /\ spLoaded' = [q \in DOMAIN spLoaded \cup {p} |->
                              IF q = p THEN spDisk[p] ELSE spLoaded[q]]
       ELSE spStep' = "refused" /\ UNCHANGED spLoaded
    /\ UNCHANGED << spRunner, spBundle, spVerifier, spPinned >>

\* The record is the planned trial's, and its attestation's.
RecordBound(t, record, a) ==
    /\ record.trial = t /\ record.cell = t /\ record.trace = t /\ record.clone = t
    /\ a.trial = record.trial /\ a.trace = record.trace /\ a.action = record.action
    /\ a.clone = record.clone /\ record.attestation = a

\* Selector, action and resource of the attestation and the observation.
ScopeBound(t, record, a, obs) ==
    /\ a.ordinal = SPOrdinal(t) /\ a.selector = t
    /\ a.action = t.input /\ record.action = t.input /\ a.observation = obs
    /\ obs.trial = t /\ obs.trace = record.trace /\ obs.action = t.input
    /\ obs.clone = record.clone

\* The request and the assignment rows are the regenerated dataset's.
SourceRowsMatch(t, obs) ==
    obs.request = RequestReceipt(obs.trace, RequestedBy(t))
    /\ obs.assigned = AssignedIds

\* Authorization and selection follow from the rows and the selector.
SelectionMatches(t, obs) ==
    LET allowed == Allowed(t, RequestedBy(t), AssignedIds) IN
    /\ obs.authorization = AuthorizationReceipt(t, allowed)
    /\ obs.selected = IF allowed THEN RequestedBy(t) ELSE {}

\* So do the guard's receipt, with the fixed threshold, and the delivery.
DeliveryMatches(t, obs) ==
    LET allowed == Allowed(t, RequestedBy(t), AssignedIds)
        count == Cardinality(obs.selected)
        block == allowed /\ t.compensator = "enforce" /\ count >= 10
        delivered == IF ~allowed \/ block THEN {} ELSE obs.selected
    IN /\ obs.guard = GuardReceipt(t, allowed, count,
                                   IF ~allowed THEN "not_reached"
                                   ELSE IF block THEN "block" ELSE "allow")
       /\ obs.delivered = delivered /\ obs.received = delivered

\* The redeploy receipt proves the planned generation change.
RedeployMatches(t, obs) ==
    LET n == IF t.sham THEN 2 ELSE 1 IN
    /\ obs.generation = n /\ obs.instance = << obs.clone, n >>
    /\ obs.redeploy = RedeployReceipt(t.sham, << obs.clone, 1 >>, << obs.clone, n >>)

\* _derived_events: the checks on the raw rows; the events follow from them.
RowsValid(t, obs) ==
    /\ SourceRowsMatch(t, obs) /\ SelectionMatches(t, obs) /\ DeliveryMatches(t, obs)
    /\ RedeployMatches(t, obs)

\* The executed stages are exactly the derived ones; a compensator that is not
\* among them was skipped because of the target.
ExecutionMatches(derived, record) ==
    /\ DOMAIN derived = {s \in DOMAIN record.events : "evidence" \in DOMAIN record.events[s]}
    /\ "compensator" \notin DOMAIN derived =>
         record.events["compensator"] = [skippedBy |-> "target"]

\* _stage_matches_event, and the stage says what the rows say.
SupportStageMatches(t, s, derived, stages, record, obs) ==
    /\ s \in DOMAIN stages
    /\ record.events[s] = TraceEvents(stages)[s]
    /\ LET a == stages[s] IN
         /\ a.trial = record.trial /\ a.trace = record.trace /\ a.action = record.action
         /\ a.stage = s /\ a.payload = derived[s] /\ a.blocks = Blocks(s, obs)
         /\ a.observation = obs

\* _cleanup_matches_record, and the probe was of the trial's own instance.
CleanupBound(record, c, obs) ==
    /\ record.cleanup = c /\ c.trial = record.trial /\ c.trace = record.trace
    /\ c.clone = record.clone /\ c.outcomeEnded = record.events["outcome"].ended
    /\ c.observation = obs /\ c.instance = obs.instance

\* _validate_cross_references, for one trial; no stage is left unbound.
SupportTrialValid(t) ==
    LET obs == spLoaded["observations"][t]
        stages == spLoaded["stages"][t]
        a == spLoaded["attestations"][t]
        record == spLoaded["trials"][t]
        derived == SupportEvents(t, obs)
    IN /\ RecordBound(t, record, a) /\ ScopeBound(t, record, a, obs) /\ RowsValid(t, obs)
       /\ ExecutionMatches(derived, record)
       /\ \A s \in DOMAIN derived : SupportStageMatches(t, s, derived, stages, record, obs)
       /\ CleanupBound(record, spLoaded["cleanups"][t], obs)
       /\ DOMAIN stages = DOMAIN derived

SPCheck ==
    /\ spStep = "verified" /\ Cardinality(DOMAIN spLoaded) = Len(SPReadOrder)
    /\ spStep' = IF \A t \in SPWatched : SupportTrialValid(t) THEN "checked" ELSE "refused"
    /\ UNCHANGED << spRunner, spBundle, spReader >>

\* The final verification.
SPFinal ==
    /\ spStep = "checked"
    /\ spStep' = IF spDisk = spManifest /\ spManifest = spPinned THEN "admitted" ELSE "refused"
    /\ UNCHANGED << spRunner, spBundle, spReader >>

SPNext == \/ SPBegin \/ SPRedeploy \/ SPAuthorize \/ SPSelect \/ SPGuard \/ SPDeliver
          \/ SPArtifacts \/ SPStalled \/ SPWrite \/ SPEdit \/ SPSwap \/ SPVerify \/ SPRead
          \/ SPCheck \/ SPFinal

SPSpec == SPInit /\ [][SPNext]_spVars

-----------------------------------------------------------------------------
(* Properties. *)

\* _METRIC_EXTRACTIONS and _verify_metric: a metric is a field of the stage
\* artifact its event names; a skipped stage has none.
Extraction == [selectedOutside   |-> "target", blocked |-> "compensator",
               deliveredOutside  |-> "outcome", deliveredAssigned |-> "outcome"]
ExtractedMetric(t, m) ==
    LET event == spLoaded["trials"][t].events[Extraction[m]] IN
    IF "evidence" \in DOMAIN event THEN event.evidence.payload[m] ELSE Nil

\* What a trial of a cell shows: ten customers leak exactly when nothing stops
\* the wildcard grant, and the guard is asked only when the boundary let go.
ExpectedMetric(t, m) ==
    LET attack == t.input = "attack"
        through == attack => t.target = "wildcard"
        blocked == attack /\ through /\ t.compensator = "enforce"
    IN CASE m = "selectedOutside"   -> IF attack /\ through THEN 10 ELSE 0
         [] m = "blocked"           -> IF through THEN blocked ELSE Nil
         [] m = "deliveredOutside"  -> IF attack /\ through /\ ~blocked THEN 10 ELSE 0
         [] m = "deliveredAssigned" -> IF attack THEN 0 ELSE 1

\* The admitted bundle is the one that was verified first, its trials show what
\* was executed however the directory was edited, and a bundle nobody touched is
\* admitted by a verifier with the same sources
\* (FinancialSupportBundleRepository).
AdmittedSupportIsExecuted ==
    /\ spStep = "admitted" =>
         /\ spLoaded = spPinned
         /\ \A t \in SPWatched, m \in DOMAIN Extraction :
              ExtractedMetric(t, m) = ExpectedMetric(t, m)
    /\ spStep = "refused" /\ spEdits = 0 => spVerifier = "changed"

===============================================================================

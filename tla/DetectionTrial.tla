---------------------------- MODULE DetectionTrial ----------------------------
(***************************************************************************)
(* The named-detection experiment: a cell of the 2x2x2x2 design runs on a  *)
(* fresh in-memory database with a simulated clock, closes an observation  *)
(* window over it and hands out a result (financial_detection_runtime.py); *)
(* the assessment tells "no alert of the named rule" from "nobody looked". *)
(* A digest is the content it addresses: the window closure holds copies   *)
(* of the readbacks whose digests the code stores in it.  Between the      *)
(* execution and the assessment a result may be rewritten, one record at a *)
(* time.                                                                   *)
(***************************************************************************)
EXTENDS Integers, Sequences, FiniteSets, Absent

CONSTANT MaxForgeries    \* bound: rewrites of the result

\* None is no row of a reload.
ASSUME DetectionAssumption ==
    /\ MaxForgeries \in Nat
    /\ Nil # [pre |-> "pre", post |-> "post", status |-> "complete"]

VARIABLES dtStep,       \* where the trial stands
          dtCell,       \* its selector
          dtDb,         \* the tables of its database
          dtResult,     \* the result handed out
          dtTruth,      \* ghost: the result as it was executed
          dtForgeries,  \* how many rewrites happened
          dtVerdict     \* the assessment, if made

dtVars == << dtStep, dtCell, dtDb, dtResult, dtTruth, dtForgeries, dtVerdict >>

AlertSlo == 2000                       \* ALERT_SLO_MS
DCells == [input : {"attack", "benign"}, target : {"disabled", "active"},
           fallback : {"drop", "forward"}, sham : {"steady", "reload"}]

\* The three source events of each fixed action.
source_plan(input) ==
    IF input = "attack"
    THEN << [id |-> "replay-1", seq |-> 7301, type |-> "authenticated"],
            [id |-> "replay-2", seq |-> 7302, type |-> "revoked-replay"],
            [id |-> "replay-3", seq |-> 7303, type |-> "sensitive-read"] >>
    ELSE << [id |-> "assigned-1", seq |-> 8301, type |-> "authenticated"],
            [id |-> "assigned-2", seq |-> 8302, type |-> "case-opened"],
            [id |-> "assigned-3", seq |-> 8303, type |-> "summary-read"] >>

\* The collector's configuration: its healthy source and its two rules.
CollectorConfig(active) == [source |-> TRUE, named |-> active, fallback |-> TRUE]

\* The elements of a sequence at some of its places, in order.
Kept(s, places) ==
    [n \in 1..Cardinality(places) |->
       s[CHOOSE p \in places : Cardinality({q \in places : q <= p}) = n]]

EmptyTables == [clock |-> 0, moves |-> << >>, config |-> Nil, instances |-> << >>,
                reload |-> Nil, attested |-> Nil, collector |-> Nil, source |-> << >>,
                detector |-> Nil, queue |-> << >>, forwarded |-> << >>,
                alerts |-> << >>]

DTInit ==
    /\ dtStep = "fresh" /\ dtCell \in DCells
    /\ dtDb = EmptyTables
    /\ dtResult = Nil /\ dtTruth = Nil /\ dtForgeries = 0 /\ dtVerdict = Nil

\* One step of execute: the tables change and the trial moves on.
Move(from, to, db) ==
    /\ dtStep = from /\ dtStep' = to /\ dtDb' = db
    /\ UNCHANGED << dtCell, dtResult, dtTruth, dtForgeries, dtVerdict >>

\* _fresh_database: the rules, and one active collector instance.
FreshTables ==
    LET config == CollectorConfig(dtCell.target = "active") IN
    Move("fresh", "reload",
         [EmptyTables EXCEPT !.config = config,
            !.instances = << [id |-> "pre", generation |-> 1, state |-> "active",
                              config |-> config] >>])

\* _perform_collector_reload: the one active instance is closed and succeeded
\* by the next generation under the same configuration.
ReloadCollector ==
    LET pre == dtDb.instances[1] IN
    /\ dtStep = "reload" /\ dtCell.sham = "reload"
    /\ Len(dtDb.instances) = 1 /\ pre.state = "active" /\ pre.config = dtDb.config
    /\ Move("reload", "attest",
            [dtDb EXCEPT
               !.instances = << [pre EXCEPT !.state = "closed"],
                                [id |-> "post", generation |-> pre.generation + 1,
                                 state |-> "active", config |-> dtDb.config] >>,
               !.reload = [pre |-> pre.id, post |-> "post", status |-> "complete"]])

KeepCollector == dtCell.sham = "steady" /\ Move("reload", "attest", dtDb)

\* What a reload attestation says of the instance rows and the operation.
AttestationOf(instances, reload) ==
    LET row(places) == Kept(instances, places)[1]
        active == row({k \in 1..Len(instances) : instances[k].state = "active"})
        pre == IF reload = Nil THEN active.id ELSE reload.pre
        post == IF reload = Nil THEN active.id ELSE reload.post
        config(id) == row({k \in 1..Len(instances) : instances[k].id = id}).config
    IN [performed |-> reload # Nil, pre |-> pre, post |-> post,
        preConfig |-> config(pre), postConfig |-> config(post),
        instances |-> instances, operation |-> reload]

\* _write_and_read_reload_attestation, then the collector run is inserted.
AttestReload ==
    Move("attest", "source",
         [dtDb EXCEPT !.attested = AttestationOf(dtDb.instances, dtDb.reload),
                      !.collector = [status |-> "running", healthy |-> TRUE, count |-> 0]])

\* _advance_clock: the clock never goes back, and a move is recorded.
Advance(db, to) ==
    IF to = db.clock THEN db
    ELSE [db EXCEPT !.clock = to, !.moves = Append(@, << db.clock, to >>)]

\* _source_record: the plan's event as it was observed.
SourceRecord(input, k) ==
    [id |-> source_plan(input)[k].id, seq |-> source_plan(input)[k].seq,
     type |-> source_plan(input)[k].type, action |-> input, at |-> 100 * k]

\* _write_source_events: the clock moves to each event.
WriteSourceEvents ==
    LET Step(db, k) == [Advance(db, 100 * k) EXCEPT
                          !.source = Append(@, SourceRecord(dtCell.input, k))]
    IN Move("source", "detector", Step(Step(Step(dtDb, 1), 2), 3))

\* _start_detector_run and _enqueue_detector_source_events.
StartDetector ==
    Move("detector", "process",
         [dtDb EXCEPT !.detector = [active |-> dtDb.config.named, status |-> "running",
                                    started |-> dtDb.clock, completed |-> 0],
                      !.queue = [k \in 1..Len(dtDb.source) |->
                                   [event |-> dtDb.source[k], state |-> "pending"]]])

\* _exact_pattern_present.
ExactPattern(events) ==
    [k \in 1..Len(events) |-> events[k].type] =
        << "authenticated", "revoked-replay", "sensitive-read" >>

\* _correlation_payload: what an alert's evidence addresses.
Correlation(kind, action, events, forwarded) ==
    [kind |-> kind, action |-> action, events |-> events, forwarded |-> forwarded]

\* _write_alert.
Alert(kind, action, events, at, forwarded) ==
    [kind |-> kind, action |-> action, at |-> at, forwarded |-> forwarded,
     ids |-> [k \in 1..Len(events) |-> events[k].id],
     seqs |-> [k \in 1..Len(events) |-> events[k].seq],
     evidence |-> Correlation(kind, action, events, forwarded)]

\* _process_named_detector_queue, at 800 ms: the rule has to be what it was at
\* the start; the queue is drained and the run completed.
ProcessQueue ==
    LET db == Advance(dtDb, 800)
        pending == [k \in 1..Len(db.queue) |-> db.queue[k].event]
        fires == /\ db.detector.active /\ pending # << >>
                 /\ \A k \in 1..Len(pending) : pending[k].action = "attack"
                 /\ ExactPattern(pending)
    IN /\ dtStep = "process"
       /\ dtDb.detector.status = "running" /\ dtDb.config.named = dtDb.detector.active
       /\ Move("process", "forward",
               [db EXCEPT
                  !.alerts = IF fires
                             THEN Append(@, Alert("named", "attack", pending, db.clock, << >>))
                             ELSE @,
                  !.queue = [k \in 1..Len(@) |-> [@[k] EXCEPT !.state = "processed"]],
                  !.detector = IF db.queue # << >>
                               THEN [@ EXCEPT !.status = "complete", !.completed = db.clock]
                               ELSE @])

\* _write_forwarded_events: a copy of every source event, on the fallback route.
ForwardedOf(events) == [k \in 1..Len(events) |->
                          [event |-> events[k], route |-> "fallback"]]

\* _forwarding_readback_valid.
ForwardingValid(forwarded, source, action) ==
    /\ forwarded # << >> /\ forwarded = ForwardedOf(source)
    /\ \A k \in 1..Len(source) : source[k].action = action

\* The forwarded events the broad rule looks for.
BroadForwarded(forwarded) ==
    Kept(forwarded, {k \in 1..Len(forwarded) : forwarded[k].event.type = "sensitive-read"})

\* The fallback path: telemetry is forwarded when the compensator is on, and
\* at 1200 ms the broad rule alerts on exactly one sensitive read.
FallbackPath ==
    LET forwarded == IF dtCell.fallback = "forward" THEN ForwardedOf(dtDb.source) ELSE << >>
        broad == BroadForwarded(forwarded)
        fires == /\ dtCell.input = "attack" /\ Len(broad) = 1
                 /\ ForwardingValid(forwarded, dtDb.source, dtCell.input)
        db == IF fires THEN Advance(dtDb, 1200) ELSE dtDb
    IN Move("forward", "close",
            [db EXCEPT !.forwarded = forwarded,
                       !.alerts = IF fires
                                  THEN Append(@, Alert("broad", "attack",
                                                << broad[1].event >>, db.clock, broad))
                                  ELSE @,
                       !.collector = [@ EXCEPT !.status = "complete",
                                               !.count = Len(dtDb.source)]])

\* The identity of an alert is its kind and the trace.
AlertIds(alerts) == [k \in 1..Len(alerts) |-> alerts[k].kind]
OfKind(alerts, kind) == Kept(alerts, {k \in 1..Len(alerts) : alerts[k].kind = kind})
Named(alerts) == OfKind(alerts, "named")

(* The readbacks of a trial. *)

\* _read_detector_run.
DetectorReadback(db) ==
    LET done == Kept(db.queue, {k \in 1..Len(db.queue) : db.queue[k].state = "processed"}) IN
    [active |-> db.detector.active, status |-> db.detector.status,
     started |-> db.detector.started, completed |-> db.detector.completed,
     pending |-> Len(db.queue) - Len(done),
     processed |-> [k \in 1..Len(done) |-> done[k].event],
     observed |-> AlertIds(Named(db.alerts))]

\* _read_collector_run.
CollectorReadback(db) ==
    [status |-> db.collector.status, healthy |-> db.collector.healthy,
     sourceHealthy |-> db.config.source, count |-> db.collector.count,
     ids |-> [k \in 1..Len(db.source) |-> db.source[k].id],
     seqs |-> [k \in 1..Len(db.source) |-> db.source[k].seq]]

\* _read_clock.
ClockReadback(db) == [now |-> db.clock, moves |-> db.moves]

\* _execute_and_read_alert_query: the alerts triggered by now.
QueryReadback(db) ==
    [completed |-> TRUE, asOf |-> db.clock,
     observed |-> AlertIds(Kept(db.alerts,
                               {k \in 1..Len(db.alerts) : db.alerts[k].at <= db.clock}))]

\* _closure_payload: the window closure binds every readback of a result.
ClosureOf(r, plan) ==
    [action |-> r.action, expected |-> plan,
     observed |-> [k \in 1..Len(r.source) |-> [id |-> r.source[k].id, seq |-> r.source[k].seq]],
     sourceHealthy |-> r.collector.sourceHealthy, healthy |-> r.collector.healthy,
     completed |-> r.collector.status = "complete", count |-> r.collector.count,
     closed |-> r.clock.now,
     collector |-> r.collector, clock |-> r.clock, detector |-> r.detector,
     query |-> r.query, attested |-> r.attested]

PlanIds(input) == [k \in 1..3 |-> [id |-> source_plan(input)[k].id,
                                    seq |-> source_plan(input)[k].seq]]

(* What the assessment accepts. *)

\* _clock_readback_valid: contiguous forward moves that end at the SLO.
ClockValid(c) ==
    /\ c.now = AlertSlo /\ c.moves # << >>
    /\ c.moves[1][1] = 0 /\ c.moves[Len(c.moves)][2] = AlertSlo
    /\ \A k \in 1..Len(c.moves) : c.moves[k][1] < c.moves[k][2]
    /\ \A k \in 1..(Len(c.moves) - 1) : c.moves[k][2] = c.moves[k + 1][1]

\* _clock_bound: events and alerts happened at recorded instants, on schedule.
ClockBound(r) ==
    LET reached == {r.clock.moves[k][2] : k \in 1..Len(r.clock.moves)} IN
    /\ ClockValid(r.clock) /\ r.closure.clock = r.clock /\ r.closure.closed = AlertSlo
    /\ [k \in 1..Len(r.source) |-> r.source[k].at] = << 100, 200, 300 >>
    /\ \A k \in 1..Len(r.source) : r.source[k].at \in reached
    /\ \A k \in 1..Len(r.alerts) :
          /\ r.alerts[k].at = (IF r.alerts[k].kind = "named" THEN 800 ELSE 1200)
          /\ r.alerts[k].at \in reached

\* _source_binding_valid and _sequence_coverage_valid.
SourceBound(r) ==
    r.source # << >> /\ \A k \in 1..Len(r.source) : r.source[k].action = r.action
SourceComplete(r, input) ==
    [k \in 1..Len(r.source) |-> [id |-> r.source[k].id, seq |-> r.source[k].seq,
                                 type |-> r.source[k].type]] = source_plan(input)

\* _correlation_valid.
CorrelationValid(a, events) == a.evidence = Correlation(a.kind, a.action, events, a.forwarded)

\* An alert names an event.
Names(a, id) == \E n \in 1..Len(a.ids) : a.ids[n] = id

\* _alert_evidence_graph_valid, for one alert: its evidence resolves to the
\* raw events of the result.
AlertResolves(a, r) ==
    LET events == Kept(r.source, {k \in 1..Len(r.source) : Names(a, r.source[k].id)})
        copies == Kept(r.forwarded,
                       {k \in 1..Len(r.forwarded) : Names(a, r.forwarded[k].event.id)})
    IN /\ a.ids # << >> /\ Len(events) = Len(a.ids) /\ a.action = r.action
       /\ a.seqs = [k \in 1..Len(events) |-> events[k].seq]
       /\ CorrelationValid(a, events)
       /\ IF a.kind = "named"
          THEN events = r.source /\ a.forwarded = << >>
          ELSE /\ Len(events) = 1 /\ events[1].type = "sensitive-read"
               /\ copies # << >> /\ a.forwarded = copies

UniqueAlerts(alerts) ==
    \A j, k \in 1..Len(alerts) : alerts[j].kind = alerts[k].kind => j = k

AlertGraphValid(r) ==
    /\ r.forwarded # << >> => ForwardingValid(r.forwarded, r.source, r.action)
    /\ UniqueAlerts(r.alerts)
    /\ \A k \in 1..Len(r.alerts) : AlertResolves(r.alerts[k], r)

\* _detector_run_valid.
DetectorValid(r, active) ==
    /\ r.source # << >> /\ r.detector.active = active
    /\ r.detector.status = "complete" /\ r.detector.pending = 0
    /\ r.detector.started = 300 /\ r.detector.completed = 800
    /\ r.detector.processed = r.source
    /\ r.detector.observed = AlertIds(Named(r.alerts))

\* Fault: the query's answer is not compared with the alerts.
QueryValidBlind(r) == r.query.completed /\ r.query.asOf = AlertSlo

\* _alert_query_valid.
QueryValid(r) ==
    /\ r.query.completed /\ r.query.asOf = AlertSlo /\ r.query.asOf = r.clock.now
    /\ r.query.observed = AlertIds(r.alerts)

\* _reload_attestation_valid: the rows and the operation the levels call for.
AttestationValid(a, active, reloaded) ==
    LET config == CollectorConfig(active)
        row(id, g, state) == [id |-> id, generation |-> g, state |-> state, config |-> config]
    IN a = AttestationOf(
             IF reloaded THEN << row("pre", 1, "closed"), row("post", 2, "active") >>
             ELSE << row("pre", 1, "active") >>,
             IF reloaded THEN [pre |-> "pre", post |-> "post", status |-> "complete"]
             ELSE Nil)

\* _collector_run_valid.
CollectorValid(r) ==
    /\ r.collector.status = "complete" /\ r.collector.healthy /\ r.collector.sourceHealthy
    /\ r.collector.count = Len(r.source)
    /\ r.collector.ids = [k \in 1..Len(r.source) |-> r.source[k].id]
    /\ r.collector.seqs = [k \in 1..Len(r.source) |-> r.source[k].seq]

\* _closure_valid_from_parts.
ClosureValid(r, input, active, reloaded) ==
    /\ r.closure = ClosureOf(r, PlanIds(input))
    /\ r.closure.observed = PlanIds(input) /\ r.closure.count = 3
    /\ r.closure.sourceHealthy /\ r.closure.healthy /\ r.closure.completed
    /\ SourceBound(r) /\ SourceComplete(r, input)
    /\ AlertGraphValid(r) /\ ClockBound(r) /\ DetectorValid(r, active)
    /\ QueryValid(r) /\ AttestationValid(r.attested, active, reloaded)
    /\ CollectorValid(r)

\* _result_closure_valid: the same question, on the levels a result claims.
ResultClosureValid(r) ==
    r.action = r.cell.input
    /\ ClosureValid(r, r.cell.input, r.cell.target = "active", r.cell.sham = "reload")

\* _named_alert_proofs: exactly one named alert, on the whole exact sequence,
\* seen by the completed detector run and by the query, in a closed window.
NamedProven(r, input, active, closed) ==
    LET named == Named(r.alerts) IN
    /\ Len(named) = 1 /\ UniqueAlerts(r.alerts)
    /\ named[1].forwarded = << >> /\ named[1].action = r.action
    /\ named[1].ids = [k \in 1..Len(r.source) |-> r.source[k].id]
    /\ named[1].seqs = [k \in 1..Len(r.source) |-> r.source[k].seq]
    /\ CorrelationValid(named[1], r.source)
    /\ named[1].at <= AlertSlo /\ \A k \in 1..Len(r.source) : named[1].at >= r.source[k].at
    /\ SourceBound(r) /\ SourceComplete(r, input) /\ ExactPattern(r.source)
    /\ active /\ ClockValid(r.clock) /\ DetectorValid(r, active)
    /\ r.detector.observed = << "named" >> /\ QueryValid(r)
    /\ closed

\* _absence_from_parts.
Absence(r, closed) ==
    IF Named(r.alerts) # << >> THEN "present" ELSE IF closed THEN "concluded" ELSE "indeterminate"

\* _fallback_alert_binding_valid.
FallbackAlertBound(r, forwarded) ==
    LET broad == OfKind(r.alerts, "broad")
        copies == BroadForwarded(r.forwarded)
        origin == Kept(r.source, {k \in 1..Len(r.source) : r.source[k].id = copies[1].event.id})
    IN /\ forwarded /\ Len(broad) = 1 /\ Len(copies) = 1 /\ origin # << >>
       /\ broad[1].action = r.action /\ broad[1].forwarded = copies
       /\ broad[1].ids = << origin[1].id >> /\ broad[1].seqs = << origin[1].seq >>
       /\ CorrelationValid(broad[1], origin)
       /\ broad[1].at \in 0..AlertSlo /\ broad[1].at >= origin[1].at

\* _alert_existence: some alert whose events are all present, on time.
AlertExists(r) ==
    \E k \in 1..Len(r.alerts) :
        /\ r.alerts[k].ids # << >> /\ r.alerts[k].at \in 0..AlertSlo
        /\ \A i \in 1..Len(r.alerts[k].ids) :
              \E j \in 1..Len(r.source) :
                 /\ r.source[j].id = r.alerts[k].ids[i]
                 /\ r.source[j].at <= r.alerts[k].at

\* _events: the four stages of the stream, with what each claims.
DetectionEvents(r, active, reloaded) ==
    LET closed == ClosureValid(r, r.cell.input, active, reloaded) IN
    << [stage |-> "input", events |-> Len(r.source), bound |-> SourceBound(r),
        complete |-> SourceComplete(r, r.cell.input), reload |-> r.attested.performed,
        preserved |-> r.attested.preConfig = r.attested.postConfig],
       [stage |-> "target", active |-> active, named |-> Len(Named(r.alerts)),
        proven |-> NamedProven(r, r.cell.input, active, closed),
        detector |-> DetectorValid(r, active)],
       [stage |-> "compensator", forwarded |-> Len(r.forwarded),
        valid |-> ForwardingValid(r.forwarded, r.source, r.action),
        binding |-> r.cell.input = "attack"
                    /\ FallbackAlertBound(r, r.cell.fallback = "forward")],
       [stage |-> "outcome", alerts |-> AlertIds(r.alerts), any |-> AlertExists(r),
        quiet |-> r.cell.input = "benign" /\ r.alerts = << >>,
        window |-> closed, absence |-> Absence(r, closed)] >>

\* The clock moves to the SLO, the window is read and closed, the connection
\* is closed and the result is handed out.
CloseWindow ==
    LET db == Advance(dtDb, AlertSlo)
        parts == [cell |-> dtCell, action |-> dtCell.input, source |-> db.source,
                  forwarded |-> db.forwarded, alerts |-> db.alerts,
                  collector |-> CollectorReadback(db), clock |-> ClockReadback(db),
                  detector |-> DetectorReadback(db), query |-> QueryReadback(db),
                  attested |-> db.attested, closure |-> Nil, events |-> Nil]
        sealed == [parts EXCEPT !.closure = ClosureOf(parts, PlanIds(dtCell.input))]
        r == [sealed EXCEPT !.events = DetectionEvents(sealed, db.detector.active,
                                                       db.attested.performed)]
    IN /\ dtStep = "close" /\ dtStep' = "done"
       /\ dtDb' = EmptyTables
       /\ dtResult' = r /\ dtTruth' = r
       /\ UNCHANGED << dtCell, dtForgeries, dtVerdict >>

\* The alert each rule would have written for the events of a result.
ForgedAlert(r, kind) ==
    IF kind = "named" THEN Alert("named", "attack", r.source, 800, << >>)
    ELSE LET copies == BroadForwarded(ForwardedOf(r.source))
         IN Alert("broad", "attack", [k \in 1..Len(copies) |-> copies[k].event], 1200, copies)

\* The alert sequences a rewrite may leave, in the order of their times.
ForgedAlerts(r) ==
    {OfKind(r.alerts, "broad"), OfKind(r.alerts, "named"),
     << ForgedAlert(r, "named") >> \o r.alerts, r.alerts \o << ForgedAlert(r, "broad") >>}

\* One rewrite: one record of the result, or the levels it claims.
Forged(r) ==
    {[r EXCEPT !.alerts = a] : a \in ForgedAlerts(r)} \cup
    {[r EXCEPT !.detector.observed = AlertIds(Named(r.alerts))],
     [r EXCEPT !.detector.active = ~ @], [r EXCEPT !.detector.pending = 1],
     [r EXCEPT !.detector.processed = r.source],
     [r EXCEPT !.query.observed = AlertIds(r.alerts)],
     [r EXCEPT !.forwarded = << >>], [r EXCEPT !.forwarded = ForwardedOf(r.source)],
     [r EXCEPT !.source = SubSeq(@, 1, 2)], [r EXCEPT !.collector.healthy = FALSE],
     [r EXCEPT !.clock.now = 1200], [r EXCEPT !.cell.input = "attack"],
     [r EXCEPT !.cell.target = "active"], [r EXCEPT !.cell.target = "disabled"],
     [r EXCEPT !.cell.fallback = "forward"], [r EXCEPT !.cell.fallback = "drop"],
     [r EXCEPT !.attested = AttestationOf(
         [k \in 1..Len(@.instances) |->
            [@.instances[k] EXCEPT !.config = CollectorConfig(~ @.named)]], @.operation)],
     [r EXCEPT !.closure = ClosureOf(r, PlanIds(r.cell.input))]}

Forge ==
    /\ dtStep = "done" /\ dtForgeries < MaxForgeries
    /\ \E r \in Forged(dtResult) \ {dtResult} : dtResult' = r
    /\ dtForgeries' = dtForgeries + 1
    /\ UNCHANGED << dtStep, dtCell, dtDb, dtTruth, dtVerdict >>

\* The state of the named-detection claim.
TargetState(r, proven, absence) ==
    IF proven THEN "supported" ELSE IF absence = "concluded" THEN "refuted" ELSE "indeterminate"

\* The residual class of an assessed result.
DetectionClass(state, telemetry, fallback, exists) ==
    IF state = "refuted" /\ telemetry /\ fallback /\ exists THEN "masked_named_detection_failure"
    ELSE IF state = "refuted" /\ ~ exists THEN "exposed_detection_gap"
    ELSE IF state = "supported" THEN "named_detection_effective"
    ELSE "indeterminate"

\* assess_detection_case: refuses anything but the fixed suspicious action.
AssessDetection ==
    LET r == dtResult
        closed == ResultClosureValid(r)
        absence == Absence(r, closed)
        state == TargetState(r, NamedProven(r, "attack", r.cell.target = "active", closed),
                             absence)
        telemetry == /\ r.action = "attack" /\ r.cell.fallback = "forward"
                     /\ CollectorValid(r) /\ ForwardingValid(r.forwarded, r.source, r.action)
    IN /\ dtStep = "done"
       /\ dtVerdict' = IF r.cell.input # "attack"
                       THEN [class |-> "refused", absence |-> "indeterminate", baseline |-> FALSE]
                       ELSE [class |-> DetectionClass(state, telemetry,
                                          FallbackAlertBound(r, telemetry), AlertExists(r)),
                             absence |-> absence, baseline |-> AlertExists(r)]
       /\ dtStep' = "assessed"
       /\ UNCHANGED << dtCell, dtDb, dtResult, dtTruth, dtForgeries >>

DTNext ==
    \/ FreshTables \/ ReloadCollector \/ KeepCollector \/ AttestReload
    \/ WriteSourceEvents \/ StartDetector \/ ProcessQueue \/ FallbackPath
    \/ CloseWindow \/ Forge \/ AssessDetection

DTSpec == DTInit /\ [][DTNext]_dtVars

-----------------------------------------------------------------------------
\* What the trial really showed.
DetectionResidual(cell) ==
    IF cell.input = "benign" THEN "refused"
    ELSE IF cell.target = "active" THEN "named_detection_effective"
    ELSE IF cell.fallback = "forward" THEN "masked_named_detection_failure"
    ELSE "exposed_detection_gap"

\* The records of a result that were rewritten.
Differs == {f \in {"source", "forwarded", "alerts", "detector", "query", "closure", "attested"} :
              dtResult[f] # dtTruth[f]}

\* An assessment of a result as it was executed names what the trial showed,
\* and the event stream claims the same; a rewritten result is at worst
\* indeterminate, unless the alerts, the query over them and the closure of
\* the window were all rewritten: no two of these records are enough to turn
\* "nobody looked" or "the rule fired" into "no alert".  The action of a result
\* is never rewritten and its source only truncated: a benign result rewritten
\* whole into an attack result is outside this statement
\* (assess_detection_case, conclude_named_alert_absence).
DetectionIsClassified ==
    dtVerdict # Nil =>
        /\ dtResult = dtTruth =>
             /\ dtVerdict.class = DetectionResidual(dtCell)
             /\ dtTruth.events[2].proven <=> dtVerdict.class = "named_detection_effective"
             /\ dtTruth.events[4].window
             /\ dtVerdict.class = "masked_named_detection_failure" => dtVerdict.baseline
        /\ dtVerdict.class \notin {"indeterminate", "refused", DetectionResidual(dtCell)} =>
             {"alerts", "query", "closure"} \subseteq Differs
        /\ dtVerdict.absence = "concluded" /\ Named(dtTruth.alerts) # << >> =>
             {"alerts", "detector", "query", "closure"} \subseteq Differs
=============================================================================

------------------------------ MODULE RuntimeWorker ------------------------------
(***************************************************************************)
(* TenantRuntimeWorker.run_forever around RuntimeScheduler.run_once, over  *)
(* the runtime catalog.  The worker process materializes due runs on a     *)
(* cadence, then claims, executes and closes runs one at a time.  Between  *)
(* two transactions its lease may expire, the process may die or be asked  *)
(* to stop, and a COMMIT may succeed or fail without the process learning  *)
(* which.  The executor behind ensure_executed is external here: it        *)
(* returns a result, or fails in a way that may or may not be retried.     *)
(***************************************************************************)
EXTENDS RuntimeCatalog

CONSTANTS
    BaseRetry,      \* base_retry_seconds of the scheduler
    MaxFaults       \* bound: crashes, unavailable catalogs and stop requests

ASSUME RuntimeWorkerConstants ==
    BaseRetry \in 1 .. MaxRunRetry /\ MaxFaults \in Nat

VARIABLES
    pc,             \* pc[w]: where worker process w is
    held,           \* held[w]: the run and fence of its claim
    stop,           \* stop[w]: request_stop was called
    fatal,          \* fatal[w]: the fatal code of the process
    faults

workerVars == <<pc, held, stop, fatal, faults>>
rwVars == <<rcVars, workerVars>>

\* "head" and "burst" are the outer and the inner loop; "claiming" is an active
\* run_once before its claim; "executed", "unable" and "refused" are what the
\* executor left; "backoff", "stopped" and "failed" are worker states.
PC == {"head", "burst", "claiming", "executing", "executed", "unable", "refused",
       "backoff", "stopped", "failed"}

Alive(w) == pc[w] \notin {"stopped", "failed"}

NoClaim == [run |-> <<0, 0>>, fence |-> 0]

RWInit ==
    /\ RCInit
    /\ pc = [w \in Workers |-> "head"]
    /\ held = [w \in Workers |-> NoClaim]
    /\ stop = [w \in Workers |-> FALSE]
    /\ fatal = [w \in Workers |-> "none"]
    /\ faults = 0

Goto(w, where) == pc' = [pc EXCEPT ![w] = where]

Release(w) == held' = [held EXCEPT ![w] = NoClaim]

\* The process ends with an exception; its supervisor sees the fatal code.
Fail(w, code) ==
    /\ Goto(w, "failed")
    /\ Release(w)
    /\ fatal' = [fatal EXCEPT ![w] = code]
    /\ UNCHANGED <<stop, faults>>

----------------------------------------------------------------------------
(* run_forever *)

\* Fault: the horizon is a host clock that runs ahead of the database.
MaterializeByHostClock(w) ==
    /\ pc[w] = "head" /\ ~stop[w]
    /\ Materialize(now + 1)
    /\ Goto(w, "burst")
    /\ UNCHANGED <<held, stop, fatal, faults>>

MaterializeDue(w) ==
    /\ pc[w] = "head" /\ ~stop[w]
    /\ Materialize(now)
    /\ Goto(w, "burst")
    /\ UNCHANGED <<held, stop, fatal, faults>>

\* A bounded scan overflowed: ValueError becomes an integrity error, too many
\* new runs a conflict; neither is retried.
MaterializationRaises(w) ==
    /\ pc[w] = "head" /\ ~stop[w]
    /\ \/ TooManyWindows(now) /\ Fail(w, "integrity")
       \/ ~TooManyWindows(now) /\ TooManyNewRuns(now) /\ Fail(w, "conflict")
    /\ UNCHANGED rcVars

\* The cadence is not due yet.
SkipMaterialization(w) ==
    /\ pc[w] = "head" /\ ~stop[w]
    /\ Goto(w, "burst")
    /\ UNCHANGED <<rcVars, held, stop, fatal, faults>>

\* _invoke_run_once checks the stop flag and enters run_once under one lock.
BeginRunOnce(w) ==
    /\ pc[w] = "burst" /\ ~stop[w]
    /\ Goto(w, "claiming")
    /\ UNCHANGED <<rcVars, held, stop, fatal, faults>>

ClaimOf(claimed) ==
    IF claimed = {} THEN NoClaim
    ELSE LET id == CHOOSE id \in claimed : TRUE IN [run |-> id, fence |-> runs[id].fence + 1]

ClaimRun(w, exhausted, claimed, d) ==
    /\ pc[w] = "claiming"
    /\ ClaimNextRun(w, exhausted, claimed, d)
    /\ Goto(w, IF claimed = {} THEN "head" ELSE "executing")
    /\ held' = [held EXCEPT ![w] = ClaimOf(claimed)]
    /\ UNCHANGED <<stop, fatal, faults>>

\* The claim committed but the answer was lost: RuntimeCatalogError.
ClaimIsLost(w, exhausted, claimed, d) ==
    /\ pc[w] = "claiming"
    /\ claimed # {}
    /\ ClaimNextRun(w, exhausted, claimed, d)
    /\ Goto(w, "backoff")
    /\ UNCHANGED <<held, stop, fatal, faults>>

CatalogUnavailable(w) ==
    /\ pc[w] \in {"head", "claiming"}
    /\ pc[w] = "head" => ~stop[w]
    /\ faults < MaxFaults
    /\ faults' = faults + 1
    /\ Goto(w, "backoff")
    /\ UNCHANGED <<rcVars, held, stop, fatal>>

EndBackoff(w) ==
    /\ pc[w] = "backoff" /\ ~stop[w]
    /\ Goto(w, "head")
    /\ UNCHANGED <<rcVars, held, stop, fatal, faults>>

\* Fault: a stop request does not interrupt a wait, and the loop goes on.
SeesStopAtHead(w) ==
    /\ pc[w] = "head" /\ stop[w]
    /\ Goto(w, "stopped")
    /\ UNCHANGED <<rcVars, held, stop, fatal, faults>>

\* The flag is tested before each cycle and each claim, and ends every wait.
SeesStop(w) ==
    /\ pc[w] \in {"head", "burst", "backoff"} /\ stop[w]
    /\ Goto(w, "stopped")
    /\ UNCHANGED <<rcVars, held, stop, fatal, faults>>

----------------------------------------------------------------------------
(* run_once after the claim *)

\* External: the executor's answer.  Inputs that cannot be read are retried
\* like an executor that could not finish; inputs that do not fit are refused.
Execute(w, answer) ==
    /\ pc[w] = "executing"
    /\ Goto(w, answer)
    /\ UNCHANGED <<rcVars, held, stop, fatal, faults>>

RetryDelay(w) ==
    LET delay == BaseRetry * 2 ^ (IF held[w].fence > 31 THEN 30 ELSE held[w].fence - 1) IN
    IF pc[w] = "refused" \/ held[w].fence >= MaxRunAttempts THEN 0
    ELSE IF delay < MaxRunRetry THEN delay ELSE MaxRunRetry

\* The transaction that closes the run: complete_run or fail_run.
Close(w, d) ==
    \/ pc[w] = "executed" /\ CompleteRun(w, held[w].run, held[w].fence, d)
    \/ pc[w] \in {"unable", "refused"}
           /\ FailRun(w, held[w].run, held[w].fence, RetryDelay(w), d)

\* Then the next run of the burst or, at the burst limit, the next cycle.
CloseRun(w, d, next) ==
    /\ Close(w, d)
    /\ Goto(w, next)
    /\ Release(w)
    /\ UNCHANGED <<stop, fatal, faults>>

LeaseIsStale(w, d) ==
    /\ pc[w] \in {"executed", "unable", "refused"}
    /\ ~MayClose(w, held[w].run, held[w].fence, d)
    /\ Fail(w, "conflict")
    /\ UNCHANGED rcVars

\* ControlRunOutcomeUnknown is not a RuntimeCatalogError, so run_forever does
\* not back off: whether or not the closure committed, the process ends.
ClosureOutcomeUnknown(w, d) ==
    /\ pc[w] \in {"executed", "unable", "refused"}
    /\ MayClose(w, held[w].run, held[w].fence, d)
    /\ Close(w, d) \/ UNCHANGED rcVars
    /\ Fail(w, "unexpected")

----------------------------------------------------------------------------
(* Around the process *)

RequestStop(w) ==
    /\ Alive(w) /\ ~stop[w]
    /\ faults < MaxFaults
    /\ faults' = faults + 1
    /\ stop' = [stop EXCEPT ![w] = TRUE]
    /\ UNCHANGED <<rcVars, pc, held, fatal>>

Crash(w) ==
    /\ Alive(w)
    /\ faults < MaxFaults
    /\ faults' = faults + 1
    /\ Goto(w, "failed")
    /\ Release(w)
    /\ UNCHANGED <<rcVars, stop, fatal>>

\* External: the supervisor starts a new process.
Restart(w) ==
    /\ ~Alive(w)
    /\ Goto(w, "head")
    /\ stop' = [stop EXCEPT ![w] = FALSE]
    /\ fatal' = [fatal EXCEPT ![w] = "none"]
    /\ UNCHANGED <<rcVars, held, faults>>

WorkerStep(w) ==
    \/ MaterializationRaises(w) \/ SkipMaterialization(w)
    \/ BeginRunOnce(w) \/ EndBackoff(w) \/ SeesStop(w)
    \/ \E answer \in {"executed", "unable", "refused"} : Execute(w, answer)
    \/ \E d \in ClockError :
           \/ \E x \in LimitOne(Exhausted(d)), c \in LimitOne(Claimable(d)) :
                  ClaimRun(w, x, c, d) \/ ClaimIsLost(w, x, c, d)
           \/ \E next \in {"burst", "head"} : CloseRun(w, d, next)
           \/ LeaseIsStale(w, d) \/ ClosureOutcomeUnknown(w, d)

Environment ==
    \/ \E p \in Profiles : NewProfile(p)
    \/ \E op \in 1 .. MaxOp, c \in Configs, t \in 0 .. MaxNow : Deploy(op, c, t)
    \/ Tick

RWNext ==
    \/ \E w \in Workers :
           \/ MaterializeDue(w) \/ WorkerStep(w) \/ CatalogUnavailable(w)
           \/ RequestStop(w) \/ Crash(w) \/ Restart(w)
    \/ Environment /\ UNCHANGED workerVars

\* Threads are scheduled, the supervisor restarts what ended, time goes on, and
\* the monotonic clock reaches next_materialization_at again and again, as the
\* burst limit brings run_forever back to the head of its loop.
Fairness ==
    /\ \A w \in Workers :
           /\ WF_rwVars(WorkerStep(w)) /\ WF_rwVars(Restart(w))
           /\ SF_rwVars(MaterializeDue(w))
    /\ WF_rwVars(Tick /\ UNCHANGED workerVars)

RWSpec == RWInit /\ [][RWNext]_rwVars

FairRWSpec == RWSpec /\ Fairness

----------------------------------------------------------------------------
(* Properties *)

\* Workers hold claims that the claim ledger knows.
RWTypeOK ==
    /\ pc \in [Workers -> PC]
    /\ stop \in [Workers -> BOOLEAN]
    /\ \A w \in Workers :
           pc[w] \in {"executing", "executed", "unable", "refused"} =>
               Claim(held[w].run, w, held[w].fence) \in claims

\* Worker processes drive the catalog only through its own transactions, so
\* what holds of the catalog alone holds of the running system; and they hold no claim
\* that the catalog does not know.
ImplementsCatalog == RCSpec /\ []RWTypeOK

\* Every materialized run ends: it succeeds, or its failure is final.  Workers
\* may die while they hold it, lose its lease or the answer to its claim, and
\* an expired last lease is closed by whoever claims next.
EveryRunEnds ==
    \A id \in (1 .. MaxOp) \X (0 .. MaxNow) :
        id \in DOMAIN runs ~> id \in DOMAIN runs /\ Ended(runs[id])

\* "The worker materializes due windows immediately on startup and periodically
\* thereafter": every window that falls due becomes a run.
DueWindowsBecomeRuns ==
    \A k \in 1 .. MaxOp, e \in 0 .. MaxNow :
        (k \in DOMAIN history /\ WindowIsDue(k, e, now)) ~> <<k, e>> \in DOMAIN runs

\* A stop request drains the process, wherever it finds it.
StopDrains == \A w \in Workers : stop[w] ~> ~Alive(w)
================================================================================

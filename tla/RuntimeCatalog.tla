----------------------------- MODULE RuntimeCatalog -----------------------------
(***************************************************************************)
(* The runs of one control: PostgresRuntimeCatalog cuts the validity       *)
(* interval of every deployment into collection windows, appends one run   *)
(* per due window and hands runs to workers under fenced leases.           *)
(*                                                                         *)
(* A run is named <<k, e>>: the deployment_history row and the end of the  *)
(* window, which determine the canonical request that run_id digests.      *)
(*                                                                         *)
(* now is true time and the clock of the database, in whole seconds.       *)
(* transaction_timestamp() is the time at which a transaction began, so a  *)
(* deployment that commits now may carry an applied_at up to               *)
(* MaxCommitDelay seconds old, and materialization, which takes no lock on *)
(* the control, does not see it before it commits.  Lease and retry        *)
(* deadlines are kept as the time left (field left) and compared with the  *)
(* worker's own clock, which is off by some d in ClockError.               *)
(***************************************************************************)
EXTENDS RuntimeDeployments, FiniteSets

CONSTANTS
    Workers,            \* runtime worker identities
    Nobody,             \* lease_owner of a run that is not leased
    Schedule,           \* Schedule[c]: the schedule configuration c sets
    RunLeaseTTL,        \* lease_ttl_seconds
    MaxRunAttempts,     \* max_run_attempts, the same in scheduler and store
    MaxRunRetry,        \* the longest retry delay of the scheduler
    MaxClockError,      \* largest error of a worker's clock, either way
    MaxCommitDelay,     \* longest time from start to commit of a transaction
    MaxWindows,         \* max_windows_per_deployment
    MaxNewRuns,         \* max_new_runs
    MaxNow              \* bound: the last second in which windows fall due

ScheduleConfiguration ==
    [enabled : BOOLEAN, interval : Nat \ {0}, window : Nat \ {0}, lag : Nat]

ASSUME RuntimeCatalogConstants ==
    /\ Nobody \notin Workers
    /\ Schedule \in [Configs -> ScheduleConfiguration]
    /\ \A c \in Configs : Schedule[c].window <= Schedule[c].interval
    /\ RunLeaseTTL \in Nat \ {0} /\ MaxRunAttempts \in Nat \ {0}
    /\ MaxRunRetry \in Nat \ {0}
    /\ MaxClockError \in Nat /\ MaxClockError < RunLeaseTTL
    /\ MaxCommitDelay \in Nat
    /\ MaxWindows \in Nat \ {0} /\ MaxNewRuns \in Nat \ {0} /\ MaxNow \in Nat

VARIABLES
    now,
    runs,               \* control_runs, by run id
    claims,             \* control_run_claims
    outcomes            \* control_run_outcomes

runVars == <<runs, claims, outcomes>>
rcVars == <<rdVars, now, runVars>>

ClockError == (0 - MaxClockError) .. MaxClockError
RunId == (Nat \ {0}) \X Nat

\* lease_fence equals attempt_count, as the table requires.
Run ==
    [state : {"pending", "leased", "succeeded", "failed"},
     fence : 0 .. MaxRunAttempts,
     owner : Workers \union {Nobody},
     retry : BOOLEAN,
     left  : Int]

PendingRun == [state |-> "pending", fence |-> 0, owner |-> Nobody, retry |-> FALSE, left |-> 0]

RCInit ==
    /\ RDInit
    /\ now = 0
    /\ runs = <<>>
    /\ claims = {}
    /\ outcomes = {}

----------------------------------------------------------------------------
(* Windows: due_window_ends *)

ScheduleOf(k) == Schedule[history[k].config]

\* Fault: the boundary on which the first window ends is skipped.
FirstEndAfter(k) ==
    LET i == ScheduleOf(k).interval
    IN ((history[k].appliedAt + ScheduleOf(k).window) \div i + 1) * i

FirstEnd(k) ==
    LET i == ScheduleOf(k).interval
    IN ((history[k].appliedAt + ScheduleOf(k).window + i - 1) \div i) * i

\* Fault: supersession is ignored.
LastEndByHorizon(k, horizon) ==
    LET i == ScheduleOf(k).interval IN ((horizon - ScheduleOf(k).lag) \div i) * i

LastEnd(k, horizon) ==
    LET i == ScheduleOf(k).interval
        byHorizon == ((horizon - ScheduleOf(k).lag) \div i) * i
        bySuccessor == (history[k + 1].appliedAt \div i) * i
    IN IF k < Len(history) /\ bySuccessor < byHorizon THEN bySuccessor ELSE byHorizon

DueWindowEnds(k, horizon) ==
    {e \in FirstEnd(k) .. LastEnd(k, horizon) :
        ScheduleOf(k).enabled /\ (e - FirstEnd(k)) % ScheduleOf(k).interval = 0}

----------------------------------------------------------------------------
(* materialize_due_runs *)

TooManyWindows(horizon) ==
    \E k \in DOMAIN history : Cardinality(DueWindowEnds(k, horizon)) > MaxWindows

DueRuns(horizon) ==
    UNION {{<<k, e>> : e \in DueWindowEnds(k, horizon)} : k \in DOMAIN history}

NewRuns(horizon) == DueRuns(horizon) \ DOMAIN runs

TooManyNewRuns(horizon) == Cardinality(NewRuns(horizon)) > MaxNewRuns

\* Fault: a run that exists already is written again.
AppendRunsAgain(horizon) ==
    runs' = [id \in DOMAIN runs \union DueRuns(horizon) |->
                 IF id \in DueRuns(horizon) THEN PendingRun ELSE runs[id]]

AppendRuns(horizon) ==
    runs' = [id \in DOMAIN runs \union NewRuns(horizon) |->
                 IF id \in DOMAIN runs THEN runs[id] ELSE PendingRun]

\* Either limit raises and rolls the whole batch back.
Materialize(horizon) ==
    /\ ~TooManyWindows(horizon)
    /\ ~TooManyNewRuns(horizon)
    /\ AppendRuns(horizon)
    /\ UNCHANGED <<rdVars, now, claims, outcomes>>

----------------------------------------------------------------------------
(* claim_next_run.  claimed_at is now + d. *)

DueAt(id) == id[2] + ScheduleOf(id[1]).lag

Expired(r, d) == r.state = "leased" /\ r.left <= d

\* Fault: an expired last lease stays as it is.
NoneExhausted(d) == {}

\* Leases that died on the last attempt.
Exhausted(d) == {id \in DOMAIN runs : Expired(runs[id], d) /\ runs[id].fence >= MaxRunAttempts}

Claimable(d) ==
    {id \in DOMAIN runs :
        /\ DueAt(id) <= now + d
        /\ runs[id].fence < MaxRunAttempts
        /\ \/ runs[id].state = "pending"
           \/ Expired(runs[id], d)
           \/ runs[id].state = "failed" /\ runs[id].retry /\ runs[id].left <= d}

\* One of a set, or nothing (as an empty set) when the set is empty.
LimitOne(S) == IF S = {} THEN {{}} ELSE {{id} : id \in S}

ClaimedRun(r, w, d) ==
    [state |-> "leased", fence |-> r.fence + 1, owner |-> w, retry |-> FALSE,
     left |-> RunLeaseTTL + d]

Closed(r, state, retry, left) ==
    [r EXCEPT !.state = state, !.owner = Nobody, !.retry = retry, !.left = left]

Claim(id, w, fence) == [run |-> id, fence |-> fence, by |-> w]
Outcome(id, fence, what) == [run |-> id, fence |-> fence, what |-> what]

RecordExhausted(exhausted) ==
    outcomes' = outcomes \union {Outcome(id, runs[id].fence, "failed") : id \in exhausted}

\* First one exhausted lease is closed as a terminal failure, then one run is
\* claimed; both sets have at most one member.  SKIP LOCKED lets a transaction
\* pass over rows that others hold, so any candidate may be the one taken.
ClaimNextRun(w, exhausted, claimed, d) ==
    /\ exhausted \in LimitOne(Exhausted(d))
    /\ claimed \in LimitOne(Claimable(d))
    /\ runs' = [id \in DOMAIN runs |->
                    IF id \in exhausted THEN Closed(runs[id], "failed", FALSE, 0)
                    ELSE IF id \in claimed THEN ClaimedRun(runs[id], w, d)
                    ELSE runs[id]]
    /\ RecordExhausted(exhausted)
    /\ claims' = claims \union {Claim(id, w, runs[id].fence + 1) : id \in claimed}
    /\ UNCHANGED <<rdVars, now>>

----------------------------------------------------------------------------
(* complete_run and fail_run.  A call that repeats a recorded closure with   *)
(* the same lease returns it and changes nothing.                            *)

\* Fault: the fence is not compared.
HoldsRunUnfenced(w, id, fence, d) ==
    /\ runs[id].state = "leased"
    /\ runs[id].owner = w
    /\ runs[id].left > d

HoldsRun(w, id, fence, d) ==
    /\ runs[id].state = "leased"
    /\ runs[id].owner = w
    /\ runs[id].fence = fence
    /\ runs[id].left > d

\* The outcome trigger also refuses a time before the end of the window.
MayClose(w, id, fence, d) == HoldsRun(w, id, fence, d) /\ now + d >= id[2]

CompleteRun(w, id, fence, d) ==
    /\ MayClose(w, id, fence, d)
    /\ runs' = [runs EXCEPT ![id] = Closed(runs[id], "succeeded", FALSE, 0)]
    /\ outcomes' = outcomes \union {Outcome(id, fence, "succeeded")}
    /\ UNCHANGED <<rdVars, now, claims>>

\* retryDelay is retry_at - failed_at, or 0 when there is no retry_at.  The
\* store drops a retry after the last attempt.
FailRun(w, id, fence, retryDelay, d) ==
    LET retry == retryDelay # 0 /\ runs[id].fence < MaxRunAttempts IN
    /\ MayClose(w, id, fence, d)
    /\ runs' = [runs EXCEPT ![id] =
                    Closed(runs[id], "failed", retry, IF retry THEN retryDelay + d ELSE 0)]
    /\ outcomes' = outcomes \union {Outcome(id, fence, "failed")}
    /\ UNCHANGED <<rdVars, now, claims>>

----------------------------------------------------------------------------
(* Deployments and time *)

\* A deployment of operation op commits now; its transaction began at t.
Deploy(op, c, t) ==
    /\ t \in now - MaxCommitDelay .. now
    /\ EnsureApplied([op |-> op, rev |-> op, config |-> c, fence |-> 1], t)
    /\ UNCHANGED <<now, runVars>>

NewProfile(p) == RegisterProfile(p) /\ UNCHANGED <<now, runVars>>

Timed(r) ==
    /\ r.state = "leased" \/ (r.state = "failed" /\ r.retry)
    /\ r.left > 0 - MaxClockError

Elapsed(r) == IF Timed(r) THEN [r EXCEPT !.left = r.left - 1] ELSE r

\* After MaxNow no further window falls due, but leases still run out.
Tick ==
    /\ now < MaxNow \/ \E id \in DOMAIN runs : Timed(runs[id])
    /\ now' = IF now < MaxNow THEN now + 1 ELSE now
    /\ runs' = [id \in DOMAIN runs |-> Elapsed(runs[id])]
    /\ UNCHANGED <<rdVars, claims, outcomes>>

----------------------------------------------------------------------------
(* The catalog on its own: any worker may claim, and whoever claimed may     *)
(* close, with whatever fence its claim was given.                           *)

RunStep(w, d) ==
    \/ \E x \in LimitOne(Exhausted(d)), c \in LimitOne(Claimable(d)) : ClaimNextRun(w, x, c, d)
    \/ \E claim \in {c \in claims : c.by = w} :
           \/ CompleteRun(w, claim.run, claim.fence, d)
           \/ \E delay \in 0 .. MaxRunRetry : FailRun(w, claim.run, claim.fence, delay, d)

RCNext ==
    \/ \E p \in Profiles : NewProfile(p)
    \/ \E op \in 1 .. MaxOp, c \in Configs, t \in 0 .. MaxNow : Deploy(op, c, t)
    \/ \E horizon \in 0 .. now : Materialize(horizon)
    \/ \E w \in Workers, d \in ClockError : RunStep(w, d)
    \/ Tick

RCSpec == RCInit /\ [][RCNext]_rcVars

----------------------------------------------------------------------------
(* Properties *)

\* Every stored row has the columns and ranges its table declares.
RCTypeOK ==
    /\ RDTypeOK
    /\ now \in 0 .. MaxNow
    /\ DOMAIN runs \subseteq RunId
    /\ \A id \in DOMAIN runs : runs[id] \in Run /\ id[1] \in DOMAIN history
    /\ \A c \in claims : c.run \in DOMAIN runs /\ c.by \in Workers
    /\ \A o \in outcomes : o.run \in DOMAIN runs

\* "The entire half-open window therefore belongs to one deployment": its
\* deployment was applied when the window began and not superseded before it
\* ended.  The code does not keep this promise of the documentation when a
\* schedule has no collection lag: see CutIsLate.
WindowsBelongToOneDeployment ==
    \A id \in DOMAIN runs :
        LET k == id[1] IN
        /\ history[k].appliedAt <= id[2] - ScheduleOf(k).window
        /\ k < Len(history) => id[2] <= history[k + 1].appliedAt

\* Reference definition of the due windows of row k, as the documentation
\* states it, without ceilings and floors.
WindowIsDue(k, e, horizon) ==
    LET s == ScheduleOf(k) IN
    /\ s.enabled
    /\ e % s.interval = 0
    /\ e - s.window >= history[k].appliedAt
    /\ e + s.lag <= horizon
    /\ k < Len(history) => e <= history[k + 1].appliedAt

\* The closed form of due_window_ends agrees with the definition at every
\* horizon, boundary cases included: deployments on a boundary, superseded
\* before their first window ends, superseded on a boundary.
WindowArithmetic ==
    \A k \in DOMAIN history, horizon \in 0 .. now :
        DueWindowEnds(k, horizon) = {e \in 0 .. horizon : WindowIsDue(k, e, horizon)}

\* The window of a run ends after the deployment that supersedes its own.
Cut(id) == id[1] < Len(history) /\ id[2] > history[id[1] + 1].appliedAt

\* A new run is for a window due by now.  A run handed out before is cut only by
\* the deployment that commits in this step and supersedes its own, when its
\* applied_at, never before the start of its transaction, lies further back than
\* the collection lag of the run.
CutIsLate ==
    /\ \A id \in DOMAIN runs' \ DOMAIN runs : WindowIsDue(id[1], id[2], now)
    /\ \A id \in DOMAIN runs :
          Cut(id)' =>
             \/ Cut(id)
             \/ /\ id[1] = Len(history)
                /\ now - history'[Len(history')].appliedAt > ScheduleOf(id[1]).lag

\* Runs are made for exactly the due windows, at every boundary, and a window
\* stays whole unless the transaction of a deployment is open for longer than the
\* collection lag (due_window_ends, materialize_due_runs, ensure_applied).  The
\* arithmetic holds of the empty history and depends on history and now alone.
WindowsAreExact ==
    [][CutIsLate /\ (UNCHANGED <<history, now>> \/ WindowArithmetic')]_rcVars

FencesClaimed(id) == {c.fence : c \in {x \in claims : x.run = id}}
FencesOf(id, what) == {o.fence : o \in {x \in outcomes : x.run = id /\ x.what = what}}

\* The claim and outcome ledgers tell the story of a run on their own: one
\* claim per fence, an outcome only for a claimed fence and never two, success
\* exactly for the lease that closed the run, and none after it.
LedgersAgree ==
    \A id \in DOMAIN runs :
        LET r == runs[id] IN
        /\ FencesClaimed(id) = 1 .. r.fence
        /\ \A c, x \in claims : c.run = id /\ x.run = id /\ c.fence = x.fence => c = x
        /\ FencesOf(id, "succeeded") = IF r.state = "succeeded" THEN {r.fence} ELSE {}
        /\ FencesOf(id, "failed") \subseteq FencesClaimed(id) \ FencesOf(id, "succeeded")
        /\ r.fence \in FencesOf(id, "failed") <=> r.state = "failed"

\* Runs, claims and outcomes are three tables that tell one story.
RunsAreAccounted == RCTypeOK /\ LedgersAgree

\* A run ends once: neither a late worker, nor an exhausted lease, nor another
\* materialization touches a run that succeeded or failed for good.
Ended(r) == r.state = "succeeded" \/ (r.state = "failed" /\ ~r.retry)

EndedRunsStayStep ==
    \A id \in DOMAIN runs : Ended(runs[id]) => id \in DOMAIN runs' /\ runs'[id] = runs[id]

EndedRunsStay == [][EndedRunsStayStep]_rcVars

\* Neither a deployment nor the end of a run is ever rewritten.
NothingIsRewritten == AppendOnly /\ EndedRunsStay
================================================================================

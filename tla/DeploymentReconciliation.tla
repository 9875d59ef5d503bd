------------------------ MODULE DeploymentReconciliation ------------------------
(***************************************************************************)
(* The change desk, the reconciler workers and the deployment target       *)
(* together.  A worker runs DeploymentReconciler.run_once in a loop:       *)
(* lease an operation, read its revision, call ensure_applied, close the   *)
(* lease.  Each of these is a transaction of its own in one of two         *)
(* databases, and anything may happen in between: the lease may expire and *)
(* go to another worker, the process may die, the answer of the target may *)
(* be lost, and a call whose caller has given up may still commit.         *)
(***************************************************************************)
EXTENDS ControlPlane

CONSTANTS
    Profiles,       \* control profiles, named by digest
    ProfileOf,      \* ProfileOf[c]: the profile configuration c is bound to
    Registered,     \* configurations in the release registration of the workers
    MaxAttempts,    \* max_attempts of the reconciler
    BaseRetry,      \* base_retry_seconds of the reconciler
    MaxOp,          \* bound: operation sequence numbers of requests
    MaxReqFence,    \* bound: lease fences of requests
    MaxClock,       \* bound: transaction timestamps
    MaxFaults       \* bound: crashes of workers and leases that outlast them

ASSUME ReconciliationConstants ==
    /\ ProfileOf \in [Configs -> Profiles]
    /\ Registered \subseteq Configs
    /\ MaxAttempts \in Nat \ {0}
    /\ BaseRetry \in 1 .. MaxRetryDelay
    /\ MaxFaults \in Nat
    \* The target's bounds admit every request of the desk, and the desk
    \* every receipt of the target.
    /\ MaxOp \in Nat /\ MaxReqFence \in Nat /\ MaxClock \in Nat
    /\ MaxOperations <= MaxOp /\ MaxRevisions <= MaxOp /\ MaxFence <= MaxReqFence
    /\ 1 .. MaxOperations \subseteq Receipts

VARIABLES
    profiles, history, highest, current,  \* the target
    pc,             \* pc[w]: where worker w is in run_once
    job,            \* job[w]: the operation w has leased, as it was leased
    orphans,        \* requests whose caller is gone and that may yet commit
    faults          \* crashes and overrun leases so far

RT == INSTANCE RuntimeDeployments

rtVars == <<profiles, history, highest, current>>
workerVars == <<pc, job, orphans>>
drVars == <<cpVars, rtVars, workerVars, faults>>

PC == {"idle", "leased", "calling", "applied", "retryable", "refused", "stopped"}

NoJob == [op |-> 0, rev |-> 0, config |-> NoConfig, fence |-> 0, receipt |-> 0]

DRInit ==
    /\ CPInit
    /\ RT!RDInit
    /\ pc = [w \in Workers |-> "idle"]
    /\ job = [w \in Workers |-> NoJob]
    /\ orphans = {}
    /\ faults = 0

Goto(w, where) == pc' = [pc EXCEPT ![w] = where]

----------------------------------------------------------------------------
(* run_once *)

LeaseJob(w, i, d) ==
    /\ pc[w] = "idle"
    /\ LeaseNext(w, i, d)
    /\ job' = [job EXCEPT ![w] =
           [op |-> i, rev |-> operations[i].rev, config |-> operations[i].config,
            fence |-> operations[i].fence + 1, receipt |-> 0]]
    /\ Goto(w, "leased")
    /\ UNCHANGED <<rtVars, orphans, faults>>

\* A revision that no longer matches its operation, or a configuration that
\* the release does not register, is refused before the target is called.
Callable(w) ==
    /\ revisions[job[w].rev].config = job[w].config
    /\ job[w].config \in Registered

CallTarget(w) ==
    /\ pc[w] = "leased"
    /\ Goto(w, IF Callable(w) THEN "calling" ELSE "refused")
    /\ UNCHANGED <<cpVars, rtVars, job, orphans, faults>>

RequestOf(w) ==
    [op |-> job[w].op, rev |-> job[w].rev, config |-> job[w].config, fence |-> job[w].fence]

TargetAnswers(w) ==
    LET req == RequestOf(w) IN
    /\ pc[w] = "calling"
    /\ RT!EnsureApplied(req, 0)
    /\ IF RT!Accepts(req)
       THEN Goto(w, "applied") /\ job' = [job EXCEPT ![w].receipt = RT!ReceiptFor(req)]
       ELSE Goto(w, "refused") /\ UNCHANGED job
    /\ UNCHANGED <<cpVars, orphans, faults>>

\* Fault: without a transaction, the pointer is not moved when the call breaks off.
AnswerIsLostHalfway(w) ==
    /\ pc[w] = "calling"
    /\ RT!Verdict(RequestOf(w)) = "inserted"
    /\ history' = Append(history, RT!NewDeployment(RequestOf(w), 0))
    /\ Goto(w, "retryable")
    /\ UNCHANGED <<cpVars, profiles, highest, current, job, orphans, faults>>

\* The transaction ended but its outcome did not reach the worker.
AnswerIsLost(w) ==
    /\ pc[w] = "calling"
    /\ RT!EnsureApplied(RequestOf(w), 0)
    /\ Goto(w, "retryable")
    /\ UNCHANGED <<cpVars, job, orphans, faults>>

\* The worker gave up, or never got through; its transaction may still commit.
CallIsAbandoned(w) ==
    /\ pc[w] = "calling"
    /\ Goto(w, "retryable")
    /\ orphans' = orphans \union {RequestOf(w)}
    /\ UNCHANGED <<cpVars, rtVars, job, faults>>

OrphanCommits(req) ==
    /\ req \in orphans
    /\ RT!EnsureApplied(req, 0)
    /\ orphans' = orphans \ {req}
    /\ UNCHANGED <<cpVars, pc, job, faults>>

AcknowledgeJob(w, d) ==
    /\ pc[w] = "applied"
    /\ AcknowledgeApplied(w, job[w].op, job[w].fence, job[w].config, job[w].receipt, d)
    /\ Goto(w, "idle")
    /\ job' = [job EXCEPT ![w] = NoJob]
    /\ UNCHANGED <<rtVars, orphans, faults>>

Backoff(attempt) ==
    LET delay == BaseRetry * 2 ^ (IF attempt > 31 THEN 30 ELSE attempt - 1)
    IN IF delay \in 1 .. MaxRetryDelay THEN delay ELSE MaxRetryDelay

\* attempt_count equals lease_fence: every lease raises both by one.
RetryDelay(w) ==
    IF pc[w] = "retryable" /\ job[w].fence < MaxAttempts THEN Backoff(job[w].fence) ELSE 0

FailJob(w, d) ==
    /\ pc[w] \in {"retryable", "refused"}
    /\ FailOperation(w, job[w].op, job[w].fence, RetryDelay(w), d)
    /\ Goto(w, "idle")
    /\ job' = [job EXCEPT ![w] = NoJob]
    /\ UNCHANGED <<rtVars, orphans, faults>>

\* The store refuses to close a lease that is no longer the worker's; the
\* exception ends the process.
LeaseIsLost(w, d) ==
    /\ pc[w] \in {"applied", "retryable", "refused"}
    /\ ~HoldsLease(w, job[w].op, job[w].fence, d)
    /\ Goto(w, "stopped")
    /\ job' = [job EXCEPT ![w] = NoJob]
    /\ UNCHANGED <<cpVars, rtVars, orphans, faults>>

Crash(w) ==
    /\ pc[w] # "stopped"
    /\ faults < MaxFaults
    /\ faults' = faults + 1
    /\ Goto(w, "stopped")
    /\ job' = [job EXCEPT ![w] = NoJob]
    /\ orphans' = IF pc[w] = "calling" THEN orphans \union {RequestOf(w)} ELSE orphans
    /\ UNCHANGED <<cpVars, rtVars>>

\* External: the orchestrator starts a new process in place of an ended one.
Restart(w) ==
    /\ pc[w] = "stopped"
    /\ Goto(w, "idle")
    /\ UNCHANGED <<cpVars, rtVars, job, orphans, faults>>

----------------------------------------------------------------------------
(* The rest of the system *)

RegisterProfile(p) ==
    /\ p \notin profiles
    /\ RT!RegisterProfile(p)
    /\ UNCHANGED <<cpVars, workerVars, faults>>

\* The next tick may let some clock reading see the lease of a working worker
\* as expired.
Overruns ==
    \E w \in Workers :
        /\ pc[w] \notin {"idle", "stopped"}
        /\ operations[job[w].op].state = "leased"
        /\ operations[job[w].op].fence = job[w].fence
        /\ operations[job[w].op].left = MaxDrift + 1

TimePasses ==
    /\ Tick
    /\ IF Overruns THEN faults < MaxFaults /\ faults' = faults + 1 ELSE UNCHANGED faults
    /\ UNCHANGED <<rtVars, workerVars>>

WorkerStep(w) ==
    \/ \E i \in DOMAIN operations, d \in Drift : LeaseJob(w, i, d)
    \/ CallTarget(w)
    \/ TargetAnswers(w)
    \/ AnswerIsLost(w)
    \/ CallIsAbandoned(w)
    \/ \E d \in Drift : AcknowledgeJob(w, d) \/ FailJob(w, d) \/ LeaseIsLost(w, d)

DRNext ==
    \/ DeskNext /\ UNCHANGED <<rtVars, workerVars, faults>>
    \/ \E w \in Workers : WorkerStep(w) \/ Crash(w) \/ Restart(w)
    \/ \E req \in orphans : OrphanCommits(req)
    \/ \E p \in Profiles : RegisterProfile(p)
    \/ TimePasses

\* A running worker takes its next step, an ended process is started again and
\* time goes on.  Nothing obliges people, profiles, faults or orphans to happen.
Fairness ==
    /\ \A w \in Workers : WF_drVars(WorkerStep(w)) /\ WF_drVars(Restart(w))
    /\ WF_drVars(TimePasses)

DRSpec == DRInit /\ [][DRNext]_drVars

FairDRSpec == DRSpec /\ Fairness

----------------------------------------------------------------------------
(* Properties *)

\* Workers hold well-formed jobs and orphans are requests workers once made.
DRTypeOK ==
    /\ pc \in [Workers -> PC]
    /\ \A w \in Workers :
           pc[w] \in {"leased", "calling", "applied", "retryable", "refused"} =>
               /\ job[w].op \in DOMAIN operations
               /\ job[w].fence \in 1 .. operations[job[w].op].fence
    /\ \A req \in orphans :
           /\ req.op \in DOMAIN operations
           /\ req.fence \in 1 .. operations[req.op].fence

\* Whatever the control plane calls applied was committed by the target: the
\* recorded receipt is the history row of that very operation, with its
\* revision and its configuration.
AppliedWasDeployed ==
    \A i \in DOMAIN operations :
        operations[i].state = "applied" =>
            /\ operations[i].receipt \in DOMAIN history
            /\ LET row == history[operations[i].receipt] IN
               /\ row.op = i
               /\ row.rev = operations[i].rev
               /\ row.config = operations[i].config

\* The runtime is never behind the ledger: the target's current deployment is
\* the latest applied operation or a newer one.
RuntimeNotBehindLedger ==
    LatestApplied # 0 => current # 0 /\ history[current].op >= LatestApplied

\* End to end: every configuration the runtime ever ran was approved, and its
\* deployment requested, by people other than its maker, whatever crashed, was
\* retried or committed late.
RuntimeRunsApproved ==
    \A k \in DOMAIN history :
        LET op == operations[history[k].op] IN
        /\ history[k].op \in DOMAIN operations
        /\ op.config = history[k].config
        /\ op.requester # revisions[op.rev].maker
        /\ \E d \in decisions :
               d.rev = op.rev /\ d.verdict = "approved" /\ d.by # revisions[op.rev].maker

\* Every worker that was told "applied" for one operation was told the same
\* receipt, so it does not matter which of them closes the operation.
ReceiptsAgree ==
    \A w \in Workers :
        pc[w] = "applied" =>
            job[w].receipt \in DOMAIN history /\ history[job[w].receipt].op = job[w].op

\* The control plane's ledger and the runtime agree, whatever crashed, was retried, lost or
\* committed late: applied means deployed, deployed means approved, every worker that was
\* told "applied" was told one receipt, and the runtime is not behind.
LedgerMatchesRuntime ==
    /\ DRTypeOK
    /\ AppliedWasDeployed
    /\ RuntimeNotBehindLedger
    /\ RuntimeRunsApproved
    /\ ReceiptsAgree

\* The composed system takes only steps of the change desk as specified alone,
\* so what is proved of CPSpec holds of it.
ImplementsControlPlane == CPSpec

\* The deployment target sees only requests it was specified for.
ImplementsTarget == RT!RDSpec

\* The composition refines both of its parts, so that what is proved of each holds of it.
ImplementsDeskAndTarget == ImplementsControlPlane /\ ImplementsTarget

\* Every operation is eventually applied or ends in a terminal failure, if
\* crashes and leases that outlast their worker are finitely many.
EveryOperationResolves ==
    \A i \in 1 .. MaxOperations :
        i \in DOMAIN operations ~> i \in DOMAIN operations /\ ~Unresolved(operations[i])
================================================================================

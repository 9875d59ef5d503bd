---------------------------- MODULE ExecutionJournal ----------------------------
(***************************************************************************)
(* DurableControlRunExecutor.ensure_executed and PostgresExecutionJournal  *)
(* for one control run: many workers, leased one after the other by the    *)
(* catalog, must leave one evidence publication behind.  Every journal     *)
(* call is one transaction that locks the run's row.  A worker may die     *)
(* anywhere, the answer of a transaction may be lost, and a transaction    *)
(* whose answer was lost may commit long after its worker has moved on.    *)
(*                                                                         *)
(* The catalog is reduced to the row of the run: leases[f] is the worker   *)
(* that was given fence f, which is also the attempt count.  The nonce of  *)
(* an execution plan is named by the fence it was drawn under.             *)
(***************************************************************************)
EXTENDS Naturals, Sequences, FiniteSets

CONSTANTS
    Workers,
    Nobody,             \* no worker
    Identities,         \* execution environment identities, named by digest
    NoIdentity,
    Evidence,           \* evidence a publication can end with, named by digest
    NoEvidence,
    MaxRunAttempts,     \* max_run_attempts of the catalog
    MaxFaults           \* bound: deaths, lost answers, leases that run out

ASSUME ExecutionJournalConstants ==
    /\ Nobody \notin Workers
    /\ NoIdentity \notin Identities
    /\ NoEvidence \notin Evidence
    /\ MaxRunAttempts \in Nat \ {0} /\ MaxFaults \in Nat

VARIABLES
    run,                \* the run in the catalog: its state and evidence
    leases,             \* control_run_claims, by fence
    journal,            \* the executions row and its execution_attempts
    authorizations,     \* signed publishing recovery authorizations
    pc,                 \* pc[w]: the next step of worker w
    job,                \* job[w]: its request and what it has learned
    inflight,           \* transactions that nobody waits for any more
    effects,            \* compositions under which the outside was touched
    faults

ejVars == <<run, leases, journal, authorizations, pc, job, inflight, effects, faults>>

Fences == 1 .. MaxRunAttempts

Open == {"prepared", "publishing"}
AttemptState == Open \union {"failed", "uncertain", "completed"}
Attempt ==
    [by : Workers \union {Nobody}, state : AttemptState \union {"none"}, revision : 0 .. 2]

NoAttempt == [by |-> Nobody, state |-> "none", revision |-> 0]

\* The calls of the journal that write.
Calls == {"prepare", "insert", "adopt", "begin", "fail", "bind", "uncertain", "complete"}
PC == Calls \union {"idle", "environment", "publish", "close",
                    "reread-begin", "reread-bind", "reread-complete"}

\* What ensure_executed ends with: a result, an error that may be retried, or
\* one that may not; "unknown" and "conflict" are why the journal is read again.
Ending == {"none", "result", "retryable", "refused", "unknown", "conflict"}

NoJob ==
    [fence |-> 0, plan |-> 0, revision |-> 0, expected |-> NoIdentity,
     identity |-> NoIdentity, evidence |-> NoEvidence, ending |-> "none"]

EJInit ==
    /\ run = [state |-> "queued", evidence |-> NoEvidence]
    /\ leases = <<>>
    /\ journal = [plan |-> 0, identity |-> NoIdentity, highest |-> 0,
                  attempts |-> [f \in 0 .. MaxRunAttempts |-> NoAttempt],
                  completion |-> 0, evidence |-> NoEvidence]
    /\ authorizations = {}
    /\ pc = [w \in Workers |-> "idle"]
    /\ job = [w \in Workers |-> NoJob]
    /\ inflight = {}
    /\ effects = {}
    /\ faults = 0

----------------------------------------------------------------------------
(* The transactions of the journal *)

Current == journal.attempts[journal.highest]

Completed == journal.completion # 0

\* Fault: a bound identity does not stop a higher fence.
NeverBound == FALSE

IdentityBound == journal.identity # NoIdentity

\* A call, as the arguments of the transaction.
CallOf(w) ==
    [kind |-> pc[w], by |-> w, fence |-> job[w].fence, plan |-> job[w].plan,
     revision |-> job[w].revision, identity |-> job[w].identity,
     evidence |-> job[w].evidence]

\* The current attempt is the caller's: its fence, its worker and the token
\* digest that is derived from both.
OwnAttempt(c) == journal.highest = c.fence /\ Current.by = c.by

\* Fault: taking over is considered before completion.
PrepareVerdictReordered(c) ==
    IF journal.plan = 0 THEN (IF c.kind = "insert" THEN "write" ELSE "not-found")
    ELSE IF c.kind = "insert" /\ c.plan # journal.plan THEN "conflict"
    ELSE IF c.fence < journal.highest THEN "conflict"
    ELSE IF c.fence # journal.highest /\ IdentityBound THEN "conflict"
    ELSE IF Completed THEN "read"
    ELSE IF c.fence = journal.highest THEN (IF OwnAttempt(c) THEN "read" ELSE "conflict")
    ELSE "write"

\* prepare, in the order of its checks.  The method itself refuses to replace
\* an attempt that is publishing under a bound identity; the trigger on the
\* executions row refuses every advance of the fence once one is bound.
PrepareVerdict(c) ==
    IF journal.plan = 0 THEN (IF c.kind = "insert" THEN "write" ELSE "not-found")
    ELSE IF c.kind = "insert" /\ c.plan # journal.plan THEN "conflict"
    ELSE IF c.fence < journal.highest THEN "conflict"
    ELSE IF Completed THEN "read"
    ELSE IF c.fence = journal.highest THEN (IF OwnAttempt(c) THEN "read" ELSE "conflict")
    ELSE IF IdentityBound THEN "conflict"
    ELSE "write"

Target(c) ==
    CASE c.kind = "begin" -> "publishing"
      [] c.kind = "fail" -> "failed"
      [] c.kind = "uncertain" -> "uncertain"

Sources(target) == IF target = "publishing" THEN {"prepared"} ELSE Open

\* begin_publishing, mark_failed and mark_uncertain.
TransitionVerdict(c) ==
    IF ~OwnAttempt(c) THEN "conflict"
    ELSE IF Completed THEN "read"
    ELSE IF Current.state = Target(c) /\ Current.revision = c.revision + 1 THEN "read"
    ELSE IF Current.state \in Sources(Target(c)) /\ Current.revision = c.revision THEN "write"
    ELSE "conflict"

BindVerdict(c) ==
    IF ~OwnAttempt(c) \/ Current.state # "publishing" \/ Current.revision # c.revision
    THEN "conflict"
    ELSE IF IdentityBound THEN (IF journal.identity = c.identity THEN "read" ELSE "conflict")
    ELSE "write"

CompleteVerdict(c) ==
    IF Completed
    THEN IF OwnAttempt(c) /\ journal.evidence = c.evidence THEN "read" ELSE "conflict"
    ELSE IF /\ OwnAttempt(c) /\ IdentityBound
            /\ Current.state = "publishing" /\ Current.revision = c.revision
    THEN "write"
    ELSE "conflict"

Verdict(c) ==
    CASE c.kind \in {"prepare", "insert", "adopt"} -> PrepareVerdict(c)
      [] c.kind \in {"begin", "fail", "uncertain"} -> TransitionVerdict(c)
      [] c.kind = "bind" -> BindVerdict(c)
      [] c.kind = "complete" -> CompleteVerdict(c)

Moved(a, state) == [by |-> a.by, state |-> state, revision |-> a.revision + 1]

CurrentMoved(state) ==
    [journal.attempts EXCEPT ![journal.highest] = Moved(Current, state)]

\* An open attempt is closed as uncertain by the fence that takes over.
Superseded == IF Current.state \in Open THEN CurrentMoved("uncertain") ELSE journal.attempts

Prepared(w) == [by |-> w, state |-> "prepared", revision |-> 0]

\* prepare: the row of a new run, or the next attempt of a known one.
TakenOver(c) ==
    [journal EXCEPT !.plan = IF journal.plan = 0 THEN c.plan ELSE journal.plan,
                    !.highest = c.fence,
                    !.attempts = [Superseded EXCEPT ![c.fence] = Prepared(c.by)]]

Written(c) ==
    CASE c.kind \in {"prepare", "insert", "adopt"} -> TakenOver(c)
      [] c.kind \in {"begin", "fail", "uncertain"} ->
             [journal EXCEPT !.attempts = CurrentMoved(Target(c))]
      [] c.kind = "bind" -> [journal EXCEPT !.identity = c.identity]
      [] c.kind = "complete" ->
             [journal EXCEPT !.attempts = CurrentMoved("completed"),
                             !.completion = c.fence, !.evidence = c.evidence]

Transact(c) == journal' = IF Verdict(c) = "write" THEN Written(c) ELSE journal

----------------------------------------------------------------------------
(* Workers *)

Goto(w, where, j) ==
    /\ pc' = [pc EXCEPT ![w] = where]
    /\ job' = [job EXCEPT ![w] = j]

Finish(w, ending, e) ==
    Goto(w, "close", [job[w] EXCEPT !.ending = ending, !.evidence = e])

Return(w, j) == Finish(w, "result", j.evidence)

Raise(w, ending) == Finish(w, ending, NoEvidence)

\* The row of the current attempt in the journal j that was returned.
Record(j) == j.attempts[j.highest]

\* Start of the publication under the environment that was bound.
Publish(w, revision) ==
    /\ Goto(w, "publish", [job[w] EXCEPT !.revision = revision])
    /\ effects' = effects \union {[plan |-> job[w].plan, identity |-> job[w].identity]}

\* ensure_executed is called under a lease.  A lease that is still held has run
\* out first, which is a fault unless nobody works under it any more.
Overrun == run.state = "leased" /\ \E w \in Workers : pc[w] # "idle" /\ job[w].fence = Len(leases)

LeaseRunsOut ==
    IF Overrun THEN faults < MaxFaults /\ faults' = faults + 1 ELSE UNCHANGED faults

Claim(w) ==
    /\ pc[w] = "idle"
    /\ run.state \in {"queued", "leased"}
    /\ Len(leases) < MaxRunAttempts
    /\ LeaseRunsOut
    /\ leases' = Append(leases, w)
    /\ run' = [run EXCEPT !.state = "leased"]
    /\ Goto(w, "prepare", [NoJob EXCEPT !.fence = Len(leases) + 1])
    /\ UNCHANGED <<journal, authorizations, inflight, effects>>

TerminalizeExhaustedLease ==
    /\ run.state = "leased"
    /\ Len(leases) = MaxRunAttempts
    /\ LeaseRunsOut
    /\ run' = [run EXCEPT !.state = "failed"]
    /\ UNCHANGED <<leases, journal, authorizations, pc, job, inflight, effects>>

\* What a worker only reads and tells the catalog.
Local == UNCHANGED <<run, leases, authorizations, inflight, faults>>

\* Only the durable plan counts.
PlanOf(w, j) == j.plan

\* After prepare: the frozen plan is used unless it was made by another source
\* revision or has expired.
Resume(w, j) ==
    LET r == [job[w] EXCEPT !.plan = PlanOf(w, j), !.revision = Record(j).revision,
                            !.expected = j.identity]
    IN  IF j.completion # 0 THEN Return(w, j)
        ELSE IF Record(j).state \notin Open THEN Raise(w, "retryable")
        ELSE \/ Record(j).state = "prepared" /\ Goto(w, "begin", r)
             \/ Record(j).state = "publishing" /\ Goto(w, "environment", r)
             \/ Record(j).state = "prepared" /\ Goto(w, "fail", [r EXCEPT !.ending = "refused"])
             \/ Record(j).state = "publishing" /\ Raise(w, "refused")

\* _prepare: without a plan, then with a fresh one, then again without.
Prepare(w) ==
    /\ pc[w] \in {"prepare", "insert", "adopt"}
    /\ Transact(CallOf(w))
    /\ \/ Verdict(CallOf(w)) \in {"read", "write"} /\ Resume(w, journal')
       \/ /\ Verdict(CallOf(w)) = "not-found"
          /\ Goto(w, "insert", [job[w] EXCEPT !.plan = job[w].fence])
       \/ /\ Verdict(CallOf(w)) = "conflict" /\ pc[w] = "insert"
          /\ Goto(w, "adopt", job[w])
       \/ /\ Verdict(CallOf(w)) = "conflict" /\ pc[w] # "insert"
          /\ Raise(w, "retryable")
    /\ UNCHANGED effects /\ Local

\* What follows begin_publishing, on the record that was returned or read.
Continue(w, j) ==
    IF j.completion # 0 THEN Return(w, j)
    ELSE IF Record(j).state # "publishing" THEN Raise(w, "retryable")
    ELSE Goto(w, "environment",
              [job[w] EXCEPT !.revision = Record(j).revision, !.expected = j.identity])

BeginPublishing(w) ==
    /\ pc[w] = "begin"
    /\ Transact(CallOf(w))
    /\ IF Verdict(CallOf(w)) = "conflict" THEN Raise(w, "retryable") ELSE Continue(w, journal')
    /\ UNCHANGED effects /\ Local

RereadBegin(w) ==
    /\ pc[w] = "reread-begin"
    /\ Continue(w, journal)
    /\ UNCHANGED <<journal, effects>> /\ Local

SameEnvironment(w, i) == job[w].expected \in {NoIdentity, i}

\* The provider composes an environment, perhaps another than the bound one,
\* or fails.
PrepareEnvironment(w) ==
    /\ pc[w] = "environment"
    /\ \/ \E i \in Identities :
             /\ SameEnvironment(w, i)
             /\ Goto(w, "bind", [job[w] EXCEPT !.identity = i])
       \/ \E ending \in {"retryable", "refused"} :
             Goto(w, "fail", [job[w] EXCEPT !.ending = ending])
    /\ UNCHANGED <<journal, effects>> /\ Local

BindExecutionIdentity(w) ==
    /\ pc[w] = "bind"
    /\ Transact(CallOf(w))
    /\ \/ /\ Verdict(CallOf(w)) # "conflict"
          /\ Publish(w, Record(journal').revision)
       \/ /\ Verdict(CallOf(w)) = "conflict"
          /\ Goto(w, "reread-bind", [job[w] EXCEPT !.ending = "conflict"])
          /\ UNCHANGED effects
    /\ Local

BoundByUs(w) ==
    /\ OwnAttempt(CallOf(w))
    /\ Current.state \in {"publishing", "completed"}
    /\ journal.identity = job[w].identity

EndingAfterReread(w) == IF job[w].ending = "conflict" THEN "refused" ELSE "retryable"

RereadBind(w) ==
    /\ pc[w] = "reread-bind"
    /\ \/ BoundByUs(w) /\ ~Completed /\ Publish(w, Current.revision)
       \/ /\ ~(BoundByUs(w) /\ ~Completed)
          /\ IF BoundByUs(w) THEN Return(w, journal) ELSE Raise(w, EndingAfterReread(w))
          /\ UNCHANGED effects
    /\ UNCHANGED journal /\ Local

\* publish_managed_evidence ends.
EndPublication(w) ==
    /\ pc[w] = "publish"
    /\ \/ \E e \in Evidence : Goto(w, "complete", [job[w] EXCEPT !.evidence = e])
       \/ \E ending \in {"retryable", "refused"} :
             Goto(w, "uncertain", [job[w] EXCEPT !.ending = ending])
    /\ UNCHANGED <<journal, effects>> /\ Local

MarkCompleted(w) ==
    /\ pc[w] = "complete"
    /\ Transact(CallOf(w))
    /\ IF Verdict(CallOf(w)) = "conflict"
       THEN Goto(w, "reread-complete", [job[w] EXCEPT !.ending = "conflict"])
       ELSE Return(w, journal')
    /\ UNCHANGED effects /\ Local

RereadCompleted(w) ==
    /\ pc[w] = "reread-complete"
    /\ IF Completed
       THEN IF journal.evidence = job[w].evidence THEN Return(w, journal) ELSE Raise(w, "refused")
       ELSE Raise(w, EndingAfterReread(w))
    /\ UNCHANGED <<journal, effects>> /\ Local

\* _mark_prepublication_failure and _mark_publication_uncertain.
MarkEnded(w) ==
    /\ pc[w] \in {"fail", "uncertain"}
    /\ Transact(CallOf(w))
    /\ Raise(w, IF Verdict(CallOf(w)) = "conflict" THEN "retryable" ELSE job[w].ending)
    /\ UNCHANGED effects /\ Local

HoldsRun(w) == run.state = "leased" /\ job[w].fence = Len(leases)

\* RuntimeScheduler.run_once closes the run, which is refused to a stale lease.
Close(w) ==
    /\ pc[w] = "close"
    /\ run' = IF ~HoldsRun(w) THEN run
              ELSE IF job[w].ending = "result"
              THEN [state |-> "succeeded", evidence |-> job[w].evidence]
              ELSE IF job[w].ending = "retryable" /\ job[w].fence < MaxRunAttempts
              THEN [run EXCEPT !.state = "queued"]
              ELSE [run EXCEPT !.state = "failed"]
    /\ Goto(w, "idle", NoJob)
    /\ UNCHANGED <<leases, journal, authorizations, inflight, effects, faults>>

----------------------------------------------------------------------------
(* Faults *)

\* The answer of a transaction is lost, and so is what it did: it has committed,
\* or it is still on its way and may commit at any time, or never.
AnswerLost(w) ==
    /\ pc[w] \in Calls
    /\ faults < MaxFaults
    /\ faults' = faults + 1
    /\ \/ Transact(CallOf(w)) /\ UNCHANGED inflight
       \/ inflight' = inflight \union {CallOf(w)} /\ UNCHANGED journal
    /\ \/ /\ pc[w] \in {"begin", "bind", "complete"}
          /\ Goto(w, CASE pc[w] = "begin" -> "reread-begin"
                       [] pc[w] = "bind" -> "reread-bind"
                       [] pc[w] = "complete" -> "reread-complete",
                  [job[w] EXCEPT !.ending = "unknown"])
       \/ pc[w] \notin {"begin", "bind", "complete"} /\ Raise(w, "retryable")
    /\ UNCHANGED <<run, leases, authorizations, effects>>

\* A read fails; so does the transaction that closes the run.
ReadFails(w) ==
    /\ pc[w] \in {"reread-begin", "reread-bind", "reread-complete", "close"}
    /\ faults < MaxFaults
    /\ faults' = faults + 1
    /\ CASE pc[w] \in {"reread-begin", "reread-bind"} -> Raise(w, "retryable")
         [] pc[w] = "reread-complete" -> Raise(w, EndingAfterReread(w))
         [] pc[w] = "close" -> Goto(w, "idle", NoJob)
    /\ UNCHANGED <<run, leases, journal, authorizations, inflight, effects>>

\* The process dies and its supervisor starts it again.
Die(w) ==
    /\ pc[w] # "idle"
    /\ faults < MaxFaults
    /\ faults' = faults + 1
    /\ inflight' = IF pc[w] \in Calls THEN inflight \union {CallOf(w)} ELSE inflight
    /\ Goto(w, "idle", NoJob)
    /\ UNCHANGED <<run, leases, journal, authorizations, effects>>

LateCommit(c) ==
    /\ Transact(c)
    /\ inflight' = inflight \ {c}
    /\ UNCHANGED <<run, leases, authorizations, pc, job, effects, faults>>

----------------------------------------------------------------------------
(* Recovery of an abandoned publication *)

\* The compute fence and the drained credentials: no process is left that works
\* on the current attempt.  The journal cannot see this.
ComputeFenced == \A w \in Workers : pc[w] = "idle" \/ job[w].fence # journal.highest

\* Maker, checker and the recovery authority sign for the next lease to adopt
\* the current publication.  The signed expiry of that lease may outlast it.
AuthorizeRecovery ==
    /\ Current.state = "publishing" /\ IdentityBound
    /\ journal.highest < Len(leases)
    /\ leases[journal.highest + 1] # Current.by
    /\ ComputeFenced
    /\ authorizations' = authorizations \union
           {[abandoned |-> journal.highest, worker |-> Current.by,
             successor |-> leases[journal.highest + 1]]}
    /\ UNCHANGED <<run, leases, journal, pc, job, inflight, effects, faults>>

\* Fault: the state of the abandoned attempt is not compared again.
StillAbandonedBlind(a) == journal.highest = a.abandoned

\* The tuple that was signed is still the current one.
StillAbandoned(a) ==
    /\ journal.highest = a.abandoned
    /\ Current.by = a.worker
    /\ Current.state = "publishing"
    /\ Current.revision = 1
    /\ ~Completed

\* consume_publishing_recovery_authorization: the successor is publishing at once.
Recover(a) ==
    /\ StillAbandoned(a)
    /\ journal' =
           [journal EXCEPT !.highest = a.abandoned + 1,
                           !.attempts = [CurrentMoved("uncertain") EXCEPT ![a.abandoned + 1] =
                                [by |-> a.successor, state |-> "publishing", revision |-> 1]]]
    /\ UNCHANGED <<run, leases, authorizations, pc, job, inflight, effects, faults>>

----------------------------------------------------------------------------

WorkerStep(w) ==
    \/ Prepare(w) \/ BeginPublishing(w) \/ RereadBegin(w) \/ PrepareEnvironment(w)
    \/ BindExecutionIdentity(w) \/ RereadBind(w) \/ EndPublication(w)
    \/ MarkCompleted(w) \/ RereadCompleted(w) \/ MarkEnded(w) \/ Close(w)

FaultStep(w) == AnswerLost(w) \/ ReadFails(w) \/ Die(w)

EJNext ==
    \/ \E w \in Workers : Claim(w) \/ WorkerStep(w) \/ FaultStep(w)
    \/ TerminalizeExhaustedLease
    \/ \E c \in inflight : LateCommit(c)
    \/ AuthorizeRecovery
    \/ \E a \in authorizations : Recover(a)

EJSpec == EJInit /\ [][EJNext]_ejVars

\* Processes run, the scheduler polls; nobody has to recover anything and
\* nothing that is in flight has to arrive.
FairEJSpec ==
    /\ EJSpec
    /\ \A w \in Workers : WF_ejVars(WorkerStep(w))
    /\ WF_ejVars((\E w \in Workers : Claim(w)) \/ TerminalizeExhaustedLease)

----------------------------------------------------------------------------
(* Properties *)

Call ==
    [kind : Calls, by : Workers, fence : Fences, plan : 0 .. MaxRunAttempts,
     revision : 0 .. 1, identity : Identities \union {NoIdentity},
     evidence : Evidence \union {NoEvidence}]

\* Every row and every worker's memory is well-formed.
EJTypeOK ==
    /\ run \in [state : {"queued", "leased", "succeeded", "failed"},
               evidence : Evidence \union {NoEvidence}]
    /\ leases \in Seq(Workers) /\ Len(leases) <= MaxRunAttempts
    /\ journal \in
           [plan : 0 .. MaxRunAttempts, identity : Identities \union {NoIdentity},
            highest : 0 .. MaxRunAttempts, attempts : [0 .. MaxRunAttempts -> Attempt],
            completion : 0 .. MaxRunAttempts, evidence : Evidence \union {NoEvidence}]
    /\ authorizations \subseteq [abandoned : Fences, worker : Workers, successor : Workers]
    /\ pc \in [Workers -> PC]
    /\ job \in [Workers ->
           [fence : 0 .. MaxRunAttempts, plan : 0 .. MaxRunAttempts, revision : 0 .. 1,
            expected : Identities \union {NoIdentity}, identity : Identities \union {NoIdentity},
            evidence : Evidence \union {NoEvidence}, ending : Ending]]
    /\ inflight \subseteq Call
    /\ effects \subseteq [plan : Fences, identity : Identities]
    /\ faults \in 0 .. MaxFaults

\* "A blind higher-fence takeover could let both workers exercise the same
\* external authority" (prepare): no two processes ever publish at once, however
\* leases run out, answers get lost and publications are recovered.
SolePublisher ==
    \A v, w \in Workers : pc[v] = "publish" /\ pc[w] = "publish" => v = w

\* Everything the outside was ever touched with belongs to the one plan and the
\* one environment identity that the journal holds: a losing nonce is never
\* used, and a retry or a successor never composes something else.
OneComposition ==
    \A e \in effects : e.plan = journal.plan /\ e.identity = journal.identity

\* A run succeeds only with the evidence the journal completed, also when the
\* worker never heard of its own completion.
ReportedIsJournaled ==
    run.state = "succeeded" => Completed /\ run.evidence = journal.evidence

\* Only the attempt of the highest fence can still move, and only it can have
\* completed; validate_execution_consistency never has to object.
OnlyCurrentIsOpen ==
    /\ \A f \in Fences :
           journal.attempts[f].state \in Open \union {"completed"} => f = journal.highest
    /\ Completed <=> Current.state = "completed"

\* A process that publishes still owns the current attempt: whoever took its
\* lease could not take its attempt.
PublisherIsCurrent ==
    \A w \in Workers : pc[w] = "publish" =>
        /\ OwnAttempt(CallOf(w))
        /\ Current.state = "publishing" /\ Current.revision = job[w].revision
        /\ journal.identity = job[w].identity

\* One run is published once, by one process at a time, which owns the attempt it publishes
\* under, with one composition; and what is reported of it is what the journal holds.
OnePublication ==
    /\ EJTypeOK
    /\ SolePublisher
    /\ OneComposition
    /\ ReportedIsJournaled
    /\ OnlyCurrentIsOpen
    /\ PublisherIsCurrent

\* What the journal has decided stays: the plan, the identity, the completion
\* and the end of every attempt; fences only rise.
DecidedStays ==
    [][ /\ journal.plan # 0 => journal'.plan = journal.plan
        /\ IdentityBound => journal'.identity = journal.identity
        /\ Completed => journal' = journal
        /\ journal'.highest >= journal.highest
        /\ \A f \in Fences :
               journal.attempts[f].state \in {"failed", "uncertain", "completed"}
                   => journal'.attempts[f] = journal.attempts[f]
      ]_ejVars

\* "Return the sole durable result" (ensure_executed): once evidence is complete
\* and more attempts are left than faults can still use up, the run succeeds,
\* whichever worker holds it by then.
AttemptsLeft == MaxRunAttempts - Len(leases) > MaxFaults - faults

CompletedIsReported ==
    (Completed /\ AttemptsLeft /\ run.state \in {"queued", "leased"})
        ~> run.state = "succeeded"
================================================================================

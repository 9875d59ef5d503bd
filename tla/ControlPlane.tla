------------------------------ MODULE ControlPlane ------------------------------
(***************************************************************************)
(* The change desk: configuration revisions, approval decisions, the       *)
(* desired-selection pointer and the outbox of deployment operations, as   *)
(* ControlPlaneService and PostgresControlPlaneStore maintain them for one *)
(* tenant and one control.  Every row is keyed by tenant and control;      *)
(* rows of two controls meet only at the audit head.  Each write is one    *)
(* transaction under the tenant's audit-head lock and the control's lock,  *)
(* so each handler is one atomic action.  A call that fails a check raises *)
(* and changes nothing, so an action is the successful call.               *)
(*                                                                         *)
(* Revisions are named by their generation and operations by their         *)
(* sequence number: both are contiguous, and the SHA-256 identities the    *)
(* code derives from them are collision-free names of the same rows.       *)
(*                                                                         *)
(* Time.  lease_expires_at and retry_at are kept as the time left until    *)
(* the deadline (field left).  The code compares a deadline with a reading *)
(* of the worker's own clock, taken before the transaction obtains its     *)
(* locks.  Such a reading is off by some d in Drift: ahead of true time on *)
(* a fast clock, behind it on a slow one or when the locks came late.      *)
(***************************************************************************)
EXTENDS Integers, Sequences, FiniteSets

CONSTANTS
    Subjects,       \* people who sign in to the change desk
    Workers,        \* reconciler worker identities
    Configs,        \* canonical control configurations, named by digest
    RolesOf,        \* RolesOf[s]: application roles of s
    FreshMfa,       \* subjects whose MFA authentication is at most an hour old
    OwnerGroup,     \* OwnerGroup[c]: members of the owner group named in c
    Nobody,         \* a SQL NULL in a column that names a person or a worker
    NoConfig,       \* a SQL NULL in a column that holds a configuration digest
    LeaseTTL,       \* lease_ttl_seconds
    Receipts,       \* receipt digests a deployment target may answer with
    MaxRetryDelay,  \* the longest delay fail_deployment_operation accepts
    MaxDrift,       \* largest error of a clock reading, either way
    MaxRevisions,   \* bound: revisions of the control
    MaxOperations,  \* bound: deployment operations of the control
    MaxFence        \* bound: leases granted for one operation

Role == {"viewer", "editor", "approver", "deployer", "auditor", "administrator"}

ASSUME ControlPlaneConstants ==
    /\ RolesOf \in [Subjects -> SUBSET Role]
    /\ FreshMfa \subseteq Subjects
    /\ OwnerGroup \in [Configs -> SUBSET Subjects]
    /\ Nobody \notin Subjects \union Workers
    /\ NoConfig \notin Configs
    /\ Receipts \subseteq Nat \ {0}
    /\ LeaseTTL \in Nat \ {0}
    /\ MaxRetryDelay \in Nat \ {0}
    /\ MaxDrift \in Nat
    /\ MaxDrift < LeaseTTL
    /\ MaxRevisions \in Nat
    /\ MaxOperations \in Nat
    /\ MaxFence \in Nat

VARIABLES
    revisions,      \* control_revisions, indexed by generation
    decisions,      \* approval_decisions
    active,         \* active_deployments: the desired-selection pointer
    operations,     \* deployment_operations, indexed by operation_sequence
    audit           \* control_audit_events, indexed by sequence

cpVars == <<revisions, decisions, active, operations, audit>>

Drift == (0 - MaxDrift) .. MaxDrift
Left == (0 - MaxDrift) .. (LeaseTTL + MaxRetryDelay + MaxDrift)

Revision ==
    [config  : Configs,
     maker   : Subjects,
     state   : {"draft", "submitted", "approved", "rejected", "retired"},
     version : Nat]

Decision == [rev : Nat, verdict : {"approved", "rejected"}, by : Subjects]

Selection == [rev : Nat, config : Configs \union {NoConfig}, version : Nat]

\* pred and retryOf are 0 when the column is NULL, receipt when not applied.
Operation ==
    [kind      : {"apply", "rollback"},
     rev       : Nat,
     config    : Configs,
     pred      : Nat,
     retryOf   : Nat,
     requester : Subjects,
     state     : {"pending", "leased", "applied", "failed"},
     version   : Nat,
     fence     : Nat,
     owner     : Workers \union {Nobody},
     retry     : BOOLEAN,
     left      : Left,
     applied   : Configs \union {NoConfig},
     receipt   : Nat]

AuditAction ==
    {"revision-created", "revision-submitted", "revision-approved",
     "revision-rejected", "revision-activated", "deployment-rollback-requested",
     "deployment-retry-requested", "deployment-leased", "deployment-applied",
     "deployment-failed"}

AuditEvent == [action : AuditAction, object : Nat, actor : Subjects \union Workers]

NoSelection == [rev |-> 0, config |-> NoConfig, version |-> 0]

CPInit ==
    /\ revisions = <<>>
    /\ decisions = {}
    /\ active = NoSelection
    /\ operations = <<>>
    /\ audit = <<>>

----------------------------------------------------------------------------
(* Authorization *)

Authorize(s, role, privileged) ==
    /\ RolesOf[s] \intersect {role, "administrator"} # {}
    /\ privileged => s \in FreshMfa

OwnsControl(s, c) == "administrator" \in RolesOf[s] \/ s \in OwnerGroup[c]

----------------------------------------------------------------------------
(* The audit trail: one event per transaction, appended at the head. *)

\* Fault: the head was read before the lock, so the event takes the last one's place.
AppendAuditAtStaleHead(action, object, actor) ==
    audit' = Append(SubSeq(audit, 1, Len(audit) - 1),
                    [action |-> action, object |-> object, actor |-> actor])

AppendAudit(action, object, actor) ==
    audit' = Append(audit, [action |-> action, object |-> object, actor |-> actor])

----------------------------------------------------------------------------
(* Revisions *)

\* Fault: maker and checker are not compared.
MakerMayAct(s, g) == s \in Subjects

NotMaker(s, g) == revisions[g].maker # s

InFlight(r) == r.state \in {"draft", "submitted"}

CreateDraft(s, c) ==
    /\ Len(revisions) < MaxRevisions
    /\ Authorize(s, "editor", FALSE)
    /\ OwnsControl(s, c)
    /\ revisions # <<>> => ~InFlight(revisions[Len(revisions)])
    /\ revisions' = Append(revisions,
           [config |-> c, maker |-> s, state |-> "draft", version |-> 0])
    /\ AppendAudit("revision-created", Len(revisions) + 1, s)
    /\ UNCHANGED <<decisions, active, operations>>

Transitioned(r, state) == [r EXCEPT !.state = state, !.version = @ + 1]

SetRevision(g, state) ==
    revisions' = [revisions EXCEPT ![g] = Transitioned(revisions[g], state)]

Submit(s, g) ==
    /\ Authorize(s, "editor", FALSE)
    /\ revisions[g].maker = s \/ "administrator" \in RolesOf[s]
    /\ OwnsControl(s, revisions[g].config)
    /\ revisions[g].state = "draft"
    /\ SetRevision(g, "submitted")
    /\ AppendAudit("revision-submitted", g, s)
    /\ UNCHANGED <<decisions, active, operations>>

Decide(s, g, verdict) ==
    /\ Authorize(s, "approver", TRUE)
    /\ NotMaker(s, g)
    /\ revisions[g].state = "submitted"
    /\ ~ \E d \in decisions : d.rev = g
    /\ decisions' = decisions \union {[rev |-> g, verdict |-> verdict, by |-> s]}
    /\ SetRevision(g, verdict)
    /\ AppendAudit(IF verdict = "approved" THEN "revision-approved"
                                           ELSE "revision-rejected", g, s)
    /\ UNCHANGED <<active, operations>>

----------------------------------------------------------------------------
(* Deployment intent *)

\* Fault: a failure that is still to be retried counts as resolved.
UnresolvedButForRetries(op) == op.state \in {"pending", "leased"}

Unresolved(op) ==
    op.state \in {"pending", "leased"} \/ (op.state = "failed" /\ op.retry)

AppliedOps == {i \in DOMAIN operations : operations[i].state = "applied"}

\* operation_id of the latest applied operation, 0 when there is none.
LatestApplied ==
    IF AppliedOps = {} THEN 0
    ELSE CHOOSE i \in AppliedOps : \A j \in AppliedOps : j <= i

PendingOperation(s, g, kind, retryOf) ==
    [kind |-> kind, rev |-> g, config |-> revisions[g].config,
     pred |-> LatestApplied, retryOf |-> retryOf, requester |-> s,
     state |-> "pending", version |-> 0, fence |-> 0, owner |-> Nobody,
     retry |-> FALSE, left |-> 0, applied |-> NoConfig, receipt |-> 0]

CreateDeploymentOperation(s, g, kind, retryOf) ==
    /\ Len(operations) < MaxOperations
    /\ \A i \in DOMAIN operations : ~Unresolved(operations[i])
    /\ operations' = Append(operations, PendingOperation(s, g, kind, retryOf))

SelectionOf(g) ==
    [rev |-> g, config |-> revisions[g].config, version |-> active.version + 1]

RetireReplaced(g) ==
    IF active.rev = 0 THEN UNCHANGED revisions ELSE SetRevision(active.rev, "retired")

\* The first activation inserts the pointer; a later one moves it and retires
\* the revision it leaves.
Activate(s, g) ==
    /\ Authorize(s, "deployer", TRUE)
    /\ NotMaker(s, g)
    /\ revisions[g].state = "approved"
    /\ active.rev # g
    /\ active.rev # 0 => revisions[active.rev].state = "approved"
    /\ active' = SelectionOf(g)
    /\ RetireReplaced(g)
    /\ CreateDeploymentOperation(s, g, "apply", 0)
    /\ AppendAudit("revision-activated", g, s)
    /\ UNCHANGED decisions

\* A rollback leaves the desired-selection pointer where it is.
RequestRollback(s, g) ==
    /\ Authorize(s, "deployer", TRUE)
    /\ NotMaker(s, g)
    /\ revisions[g].state = "retired"
    /\ \E d \in decisions : d.rev = g /\ d.verdict = "approved"
    /\ LatestApplied # 0
    /\ operations[LatestApplied].rev # g
    /\ CreateDeploymentOperation(s, g, "rollback", 0)
    /\ AppendAudit("deployment-rollback-requested", Len(operations) + 1, s)
    /\ UNCHANGED <<revisions, decisions, active>>

\* Only the newest operation, once its automatic retries have ended.
Retryable(i) ==
    /\ operations[i].state = "failed" /\ ~operations[i].retry
    /\ i = Len(operations)

RequestRetry(s, i) ==
    LET failed == operations[i] IN
    /\ Authorize(s, "deployer", TRUE)
    /\ Retryable(i)
    /\ revisions[failed.rev].state = "approved"
    /\ NotMaker(s, failed.rev)
    /\ active.rev = failed.rev
    /\ active.config = failed.config
    /\ CreateDeploymentOperation(s, failed.rev, "apply", i)
    /\ AppendAudit("deployment-retry-requested", Len(operations) + 1, s)
    /\ UNCHANGED <<revisions, decisions, active>>

----------------------------------------------------------------------------
(* Fenced leases.  d is the error of the worker's clock reading. *)

\* Fault: the lease of a worker that died is never taken over.
EligibleUnlessLeased(op, d) ==
    \/ op.state = "pending"
    \/ op.state = "failed" /\ op.retry /\ op.left <= d

Eligible(op, d) ==
    \/ op.state = "pending"
    \/ op.state = "failed" /\ op.retry /\ op.left <= d
    \/ op.state = "leased" /\ op.left <= d

Leased(op, w, d) ==
    [op EXCEPT !.state = "leased", !.version = @ + 1, !.fence = @ + 1,
               !.owner = w, !.left = LeaseTTL + d, !.retry = FALSE]

LeaseNext(w, i, d) ==
    /\ operations[i].fence < MaxFence
    /\ Eligible(operations[i], d)
    /\ operations' = [operations EXCEPT ![i] = Leased(operations[i], w, d)]
    /\ AppendAudit("deployment-leased", i, w)
    /\ UNCHANGED <<revisions, decisions, active>>

\* The caller owns this very lease and its clock reading precedes its expiry.
HoldsLease(w, i, fence, d) ==
    /\ operations[i].state = "leased"
    /\ operations[i].owner = w
    /\ operations[i].fence = fence
    /\ operations[i].left > d

Applied(op, config, receipt) ==
    [op EXCEPT !.state = "applied", !.version = @ + 1, !.owner = Nobody,
               !.left = 0, !.applied = config, !.receipt = receipt]

AcknowledgeApplied(w, i, fence, config, receipt, d) ==
    /\ config = operations[i].config
    /\ HoldsLease(w, i, fence, d)
    /\ operations' = [operations EXCEPT ![i] = Applied(operations[i], config, receipt)]
    /\ AppendAudit("deployment-applied", i, w)
    /\ UNCHANGED <<revisions, decisions, active>>

\* retryDelay is retry_at - failed_at, or 0 for a terminal failure.
Failed(op, retryDelay, d) ==
    [op EXCEPT !.state = "failed", !.version = @ + 1, !.owner = Nobody,
               !.retry = (retryDelay # 0),
               !.left = IF retryDelay = 0 THEN 0 ELSE retryDelay + d]

FailOperation(w, i, fence, retryDelay, d) ==
    /\ HoldsLease(w, i, fence, d)
    /\ operations' = [operations EXCEPT ![i] = Failed(operations[i], retryDelay, d)]
    /\ AppendAudit("deployment-failed", i, w)
    /\ UNCHANGED <<revisions, decisions, active>>

----------------------------------------------------------------------------
(* True time moves on.  A deadline no clock reading can miss any more stays. *)

Timed(op) == (op.state = "leased" \/ (op.state = "failed" /\ op.retry))
                 /\ op.left > 0 - MaxDrift

Elapse(op) == IF Timed(op) THEN [op EXCEPT !.left = @ - 1] ELSE op

Tick ==
    /\ \E i \in DOMAIN operations : Timed(operations[i])
    /\ operations' = [i \in DOMAIN operations |-> Elapse(operations[i])]
    /\ UNCHANGED <<revisions, decisions, active, audit>>

----------------------------------------------------------------------------
(* People use the change desk; any worker may lease and close operations. *)

DeskNext ==
    \/ \E s \in Subjects, c \in Configs : CreateDraft(s, c)
    \/ \E s \in Subjects, g \in DOMAIN revisions : Submit(s, g)
    \/ \E s \in Subjects, g \in DOMAIN revisions, v \in {"approved", "rejected"} :
           Decide(s, g, v)
    \/ \E s \in Subjects, g \in DOMAIN revisions : Activate(s, g)
    \/ \E s \in Subjects, g \in DOMAIN revisions : RequestRollback(s, g)
    \/ \E s \in Subjects, i \in DOMAIN operations : RequestRetry(s, i)

OutboxNext ==
    \E w \in Workers, i \in DOMAIN operations, d \in Drift :
        \/ LeaseNext(w, i, d)
        \/ \E c \in Configs, n \in Receipts :
               AcknowledgeApplied(w, i, operations[i].fence, c, n, d)
        \/ \E delay \in 0 .. MaxRetryDelay :
               FailOperation(w, i, operations[i].fence, delay, d)

CPNext == DeskNext \/ OutboxNext \/ Tick

CPSpec == CPInit /\ [][CPNext]_cpVars

----------------------------------------------------------------------------
(* Properties *)

\* Every stored row has the columns and ranges its table declares.
CPTypeOK ==
    /\ revisions \in Seq(Revision)
    /\ decisions \subseteq Decision
    /\ active \in Selection
    /\ operations \in Seq(Operation)
    /\ audit \in Seq(AuditEvent)

\* get_active_deployment treats anything else as corruption: the pointer that
\* activate_with_operation moves always names an approved revision, with that
\* revision's digest, whatever was created, decided or retired meanwhile.
ActivePointsToApproved ==
    active.rev # 0 =>
        /\ active.rev \in DOMAIN revisions
        /\ revisions[active.rev].state = "approved"
        /\ revisions[active.rev].config = active.config

\* Maker/checker over the whole life of a change: whatever is in the outbox
\* was approved by somebody other than its maker and requested by somebody
\* other than its maker, and names exactly the configuration of its revision.
SeparationOfDuties ==
    \A i \in DOMAIN operations :
        LET op == operations[i] IN
        /\ op.rev \in DOMAIN revisions
        /\ op.requester # revisions[op.rev].maker
        /\ op.config = revisions[op.rev].config
        /\ \E d \in decisions :
               d.rev = op.rev /\ d.verdict = "approved" /\ d.by # revisions[op.rev].maker

\* No intermediate desired state is skipped: only the newest operation may
\* still be open, so a later intent never overtakes an unfinished one.
OnlyNewestIsOpen ==
    \A i \in DOMAIN operations : Unresolved(operations[i]) => i = Len(operations)

\* The newest apply operation carries the desired selection: activation and
\* manual retry never leave the pointer naming one revision and the outbox
\* delivering another.
DesiredIsNewestApply ==
    \A i \in DOMAIN operations :
        (/\ operations[i].kind = "apply"
         /\ \A j \in DOMAIN operations : j > i => operations[j].kind # "apply")
        => operations[i].rev = active.rev /\ operations[i].config = active.config

\* predecessor_operation_id of an operation is the last operation applied
\* before it, and stays so however many operations fail or are retried.
PredecessorIsPriorApplied ==
    \A i \in DOMAIN operations :
        LET before == {j \in AppliedOps : j < i} IN
        IF before = {} THEN operations[i].pred = 0
        ELSE operations[i].pred \in before /\ \A j \in before : j <= operations[i].pred

\* A manual retry continues the terminal failure right before it, for the same
\* revision: retry lineage survives export of single operations.
RetryLineage ==
    \A i \in DOMAIN operations :
        operations[i].retryOf # 0 =>
            LET prior == operations[operations[i].retryOf] IN
            /\ operations[i].retryOf = i - 1
            /\ prior.state = "failed" /\ ~prior.retry
            /\ prior.rev = operations[i].rev

\* The outbox is one line of intents that ends in the desired selection: whatever people
\* activate, roll back and retry at once, and whatever fails meanwhile, the pointer names an
\* approved revision, no intent overtakes an unfinished one, and predecessor_operation_id
\* and the retry lineage tell what really came before.
OutboxIsOneLine ==
    /\ ActivePointsToApproved
    /\ OnlyNewestIsOpen
    /\ DesiredIsNewestApply
    /\ PredecessorIsPriorApplied
    /\ RetryLineage

\* The events of one object, by their places in the chain.
Trail(actions, n) == {k \in DOMAIN audit : audit[k].action \in actions /\ audit[k].object = n}

RevisionSteps ==
    {"revision-created", "revision-submitted", "revision-approved", "revision-rejected"}

OperationSteps == {"deployment-leased", "deployment-applied", "deployment-failed"}

Latest(places) == CHOOSE k \in places : \A j \in places : j <= k

\* The state an event leaves its object in.
EventState(action) ==
    CASE action = "revision-created"   -> "draft"
      [] action = "revision-submitted" -> "submitted"
      [] action = "revision-approved"  -> "approved"
      [] action = "revision-rejected"  -> "rejected"
      [] action = "deployment-leased"  -> "leased"
      [] action = "deployment-applied" -> "applied"
      [] action = "deployment-failed"  -> "failed"

\* The state that the last event of a trail leaves its object in.
StateAfter(trail) ==
    IF trail = {} THEN "pending" ELSE EventState(audit[Latest(trail)].action)

Activations == {k \in DOMAIN audit : audit[k].action = "revision-activated"}

\* A later activation replaced revision g.
Replaced(g) == \E k \in Activations : audit[k].object = g /\ k # Latest(Activations)

\* The audit chain alone reconstructs the tables: its activations end in the
\* desired selection, every revision is in the state of its last event (or
\* retired, when a later activation replaced it), and every operation has been
\* leased as often as its fence says and is in the state of its last event.
AuditReconstructs ==
    /\ active.version = Cardinality(Activations)
    /\ Activations # {} => audit[Latest(Activations)].object = active.rev
    /\ \A g \in DOMAIN revisions :
           revisions[g].state =
               IF Replaced(g) THEN "retired" ELSE StateAfter(Trail(RevisionSteps, g))
    /\ \A i \in DOMAIN operations :
           /\ operations[i].state = StateAfter(Trail(OperationSteps, i))
           /\ operations[i].fence = Cardinality(Trail({"deployment-leased"}, i))
================================================================================

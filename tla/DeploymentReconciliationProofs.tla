--------------------- MODULE DeploymentReconciliationProofs ---------------------
(***************************************************************************)
(* Proofs about the change desk, for every staff, assignment of roles, set *)
(* of configurations and workers and every bound; then about the desk, the *)
(* reconciler workers and the deployment target together, for any number   *)
(* of people, workers, revisions, operations, leases, crashes, lost        *)
(* answers and calls that commit after their caller is gone.  The          *)
(* composition takes only steps of its parts, so that their invariants     *)
(* (CPInv below, and that of RuntimeDeploymentsProofs) hold in it; what it *)
(* adds is the tie between the two databases.                              *)
(***************************************************************************)
EXTENDS DeploymentReconciliation, FiniteSetTheorems, SequenceTheorems, WellFoundedInduction,
        TLAPS

USE ControlPlaneConstants

----------------------------------------------------------------------------
(* What each way of writing a table does to it. *)

\* The transition written by SetRevision keeps the row a revision, and its
\* content.
LEMMA RevisionRow ==
    ASSUME NEW r \in Revision,
           NEW st \in {"submitted", "approved", "rejected", "retired"}
    PROVE  /\ Transitioned(r, st) \in Revision
           /\ Transitioned(r, st).config = r.config
           /\ Transitioned(r, st).maker = r.maker
           /\ Transitioned(r, st).state = st
<1> DEFINE v == r.version + 1
<1>1. v \in Nat
  BY DEF Revision
<1>2. Transitioned(r, st) = [r EXCEPT !.state = st, !.version = v]
  BY DEF Transitioned
<1> HIDE DEF v
<1> QED
  BY <1>1, <1>2 DEF Revision

\* A transition of one revision row leaves every other row, and the content of
\* the row itself, as they were.
LEMMA SetRevisionWrites ==
    ASSUME CPTypeOK, NEW g \in DOMAIN revisions,
           NEW st \in {"submitted", "approved", "rejected", "retired"},
           SetRevision(g, st)
    PROVE  /\ revisions' \in Seq(Revision)
           /\ Len(revisions') = Len(revisions)
           /\ DOMAIN revisions' = DOMAIN revisions
           /\ \A h \in DOMAIN revisions :
                 /\ revisions'[h].config = revisions[h].config
                 /\ revisions'[h].maker = revisions[h].maker
                 /\ revisions'[h].state = IF h = g THEN st ELSE revisions[h].state
<1> DEFINE new == Transitioned(revisions[g], st)
<1>1. revisions \in Seq(Revision) /\ DOMAIN revisions = 1 .. Len(revisions)
  BY LenProperties DEF CPTypeOK
<1>2. revisions[g] \in Revision
  BY <1>1, ElementOfSeq
<1>4. /\ new \in Revision
      /\ new.config = revisions[g].config
      /\ new.maker = revisions[g].maker
      /\ new.state = st
  BY <1>2, RevisionRow
<1>5. revisions' = [revisions EXCEPT ![g] = new]
  BY DEF SetRevision
<1> HIDE DEF new
<1>6. /\ revisions' \in Seq(Revision)
      /\ Len(revisions') = Len(revisions)
      /\ \A h \in 1 .. Len(revisions) : revisions'[h] = IF h = g THEN new ELSE revisions[h]
  BY <1>1, <1>4, <1>5, ExceptSeq
<1>7. DOMAIN revisions' = DOMAIN revisions
  BY <1>1, <1>6, LenProperties
<1> QED
  BY <1>1, <1>4, <1>6, <1>7

\* A new outbox row has the columns the table declares.
LEMMA PendingOperationRow ==
    ASSUME NEW k \in {"apply", "rollback"}, NEW g \in Nat, NEW c \in Configs,
           NEW p \in Nat, NEW q \in Nat, NEW s \in Subjects
    PROVE  [kind |-> k, rev |-> g, config |-> c,
            pred |-> p, retryOf |-> q, requester |-> s,
            state |-> "pending", version |-> 0, fence |-> 0, owner |-> Nobody,
            retry |-> FALSE, left |-> 0, applied |-> NoConfig, receipt |-> 0] \in Operation
<1>1. 0 \in Left
  BY DEF Left
<1> QED
  BY <1>1 DEF Operation

\* Appending a row to the outbox leaves the rows before it as they were.
LEMMA CreateDeploymentOperationWrites ==
    ASSUME CPTypeOK, NEW s \in Subjects, NEW g \in DOMAIN revisions,
           NEW kind \in {"apply", "rollback"}, NEW retryOf \in Nat,
           LatestApplied \in Nat,
           CreateDeploymentOperation(s, g, kind, retryOf)
    PROVE  /\ operations' \in Seq(Operation)
           /\ Len(operations') = Len(operations) + 1
           /\ \A i \in DOMAIN operations : operations'[i] = operations[i]
           /\ operations'[Len(operations')] = PendingOperation(s, g, kind, retryOf)
<1> DEFINE new == PendingOperation(s, g, kind, retryOf)
<1>1. /\ revisions \in Seq(Revision) /\ DOMAIN revisions = 1 .. Len(revisions)
      /\ operations \in Seq(Operation) /\ DOMAIN operations = 1 .. Len(operations)
      /\ Len(operations) \in Nat
  BY LenProperties DEF CPTypeOK
<1>2. revisions[g].config \in Configs
  <2>1. revisions[g] \in Revision
    BY <1>1, ElementOfSeq
  <2> QED
    BY <2>1 DEF Revision
<1>3. g \in Nat
  BY <1>1
<1>4. new \in Operation
  BY <1>2, <1>3, PendingOperationRow, Zenon DEF PendingOperation
<1>5. operations' = Append(operations, new)
  BY DEF CreateDeploymentOperation
<1> HIDE DEF new
<1>6. /\ operations' \in Seq(Operation)
      /\ Len(operations') = Len(operations) + 1
      /\ \A i \in 1 .. Len(operations) : operations'[i] = operations[i]
      /\ operations'[Len(operations) + 1] = new
  BY <1>1, <1>4, <1>5, AppendProperties
<1> QED
  BY <1>1, <1>6 DEF new

\* Rewriting one outbox row leaves every other row as it was.
LEMMA OperationRowWrites ==
    ASSUME CPTypeOK, NEW i \in DOMAIN operations, NEW new \in Operation,
           operations' = [operations EXCEPT ![i] = new]
    PROVE  /\ operations' \in Seq(Operation)
           /\ Len(operations') = Len(operations)
           /\ DOMAIN operations' = DOMAIN operations
           /\ \A j \in DOMAIN operations : operations'[j] = IF j = i THEN new ELSE operations[j]
<1>1. operations \in Seq(Operation) /\ DOMAIN operations = 1 .. Len(operations)
  BY LenProperties DEF CPTypeOK
<1>2. /\ operations' \in Seq(Operation)
      /\ Len(operations') = Len(operations)
      /\ \A j \in 1 .. Len(operations) : operations'[j] = IF j = i THEN new ELSE operations[j]
  BY <1>1, ExceptSeq
<1> QED
  BY <1>1, <1>2, LenProperties

\* The columns of an outbox row that no lease, closing or passing of time writes.
SameIntent(op, new) ==
    /\ new.kind = op.kind /\ new.rev = op.rev /\ new.config = op.config
    /\ new.pred = op.pred /\ new.retryOf = op.retryOf /\ new.requester = op.requester

\* A lease writes only the lease columns.
LEMMA LeasedRow ==
    ASSUME NEW op \in Operation, NEW w \in Workers, NEW d \in Drift
    PROVE  /\ Leased(op, w, d) \in Operation
           /\ SameIntent(op, Leased(op, w, d))
           /\ Leased(op, w, d).state = "leased"
<1> DEFINE v == op.version + 1
           f == op.fence + 1
           l == LeaseTTL + d
<1>1. v \in Nat /\ f \in Nat
  BY DEF Operation
<1>2. l \in Left
  BY DEF Drift, Left
<1>3. Leased(op, w, d) = [op EXCEPT !.state = "leased", !.version = v, !.fence = f,
                                    !.owner = w, !.left = l, !.retry = FALSE]
  BY DEF Leased
<1> HIDE DEF v, f, l
<1>4. Leased(op, w, d) \in Operation
  <2> DEFINE a == [op EXCEPT !.state = "leased", !.version = v, !.fence = f]
  <2>1. a \in Operation
    BY <1>1, Zenon DEF Operation
  <2>2. Leased(op, w, d) = [a EXCEPT !.owner = w, !.left = l, !.retry = FALSE]
    BY <1>3
  <2> HIDE DEF a
  <2> QED
    BY <1>2, <2>1, <2>2, Zenon DEF Operation
<1> QED
  BY <1>3, <1>4 DEF Operation, SameIntent

\* An acknowledgement writes only the closing columns.
LEMMA AppliedRow ==
    ASSUME NEW op \in Operation, NEW c \in Configs, NEW n \in Nat
    PROVE  /\ Applied(op, c, n) \in Operation
           /\ SameIntent(op, Applied(op, c, n))
           /\ Applied(op, c, n).state = "applied"
<1> DEFINE v == op.version + 1
<1>1. v \in Nat
  BY DEF Operation
<1>2. 0 \in Left
  BY DEF Left
<1>3. Applied(op, c, n) = [op EXCEPT !.state = "applied", !.version = v, !.owner = Nobody,
                                     !.left = 0, !.applied = c, !.receipt = n]
  BY DEF Applied
<1> HIDE DEF v
<1>4. Applied(op, c, n) \in Operation
  <2>1. c \in Configs \union {NoConfig}
    OBVIOUS
  <2> DEFINE a == [op EXCEPT !.state = "applied", !.version = v, !.owner = Nobody]
  <2>2. a \in Operation
    BY <1>1, Zenon DEF Operation
  <2> DEFINE b == [a EXCEPT !.left = 0]
  <2>3. Applied(op, c, n) = [b EXCEPT !.applied = c, !.receipt = n]
    BY <1>3
  <2> HIDE DEF a
  <2>4. b \in Operation
    BY <1>2, <2>2, Zenon DEF Operation
  <2> HIDE DEF b
  <2> QED
    BY <2>1, <2>3, <2>4, Zenon DEF Operation
<1> QED
  BY <1>3, <1>4 DEF Operation, SameIntent

\* A failure writes only the closing columns, and keeps a retry time exactly
\* when a retry is due.
LEMMA FailedRow ==
    ASSUME NEW op \in Operation, NEW delay \in 0 .. MaxRetryDelay, NEW d \in Drift
    PROVE  /\ Failed(op, delay, d) \in Operation
           /\ SameIntent(op, Failed(op, delay, d))
           /\ Failed(op, delay, d).state = "failed"
<1> DEFINE v == op.version + 1
           r == (delay # 0)
           l == IF delay = 0 THEN 0 ELSE delay + d
<1>1. v \in Nat /\ r \in BOOLEAN
  BY DEF Operation
<1>2. l \in Left
  BY DEF Drift, Left
<1>3. Failed(op, delay, d) = [op EXCEPT !.state = "failed", !.version = v, !.owner = Nobody,
                                        !.retry = r, !.left = l]
  BY DEF Failed
<1> HIDE DEF v, r, l
<1>4. Failed(op, delay, d) \in Operation
  <2> DEFINE a == [op EXCEPT !.state = "failed", !.version = v, !.owner = Nobody]
  <2>1. a \in Operation
    BY <1>1, Zenon DEF Operation
  <2>2. Failed(op, delay, d) = [a EXCEPT !.retry = r, !.left = l]
    BY <1>3
  <2> HIDE DEF a
  <2> QED
    BY <1>1, <1>2, <2>1, <2>2, Zenon DEF Operation
<1> QED
  BY <1>3, <1>4 DEF Operation, SameIntent

\* The passing of time writes nothing but the time left.
LEMMA ElapseRow ==
    ASSUME NEW op \in Operation
    PROVE  /\ Elapse(op) \in Operation
           /\ SameIntent(op, Elapse(op))
           /\ Elapse(op).state = op.state
           /\ Elapse(op).retry = op.retry
<1>1. CASE ~Timed(op)
  BY <1>1 DEF Elapse, SameIntent
<1>2. CASE Timed(op)
  <2> DEFINE l == op.left - 1
  <2>1. l \in Left
    BY <1>2 DEF Timed, Left, Operation
  <2>2. Elapse(op) = [op EXCEPT !.left = l]
    BY <1>2 DEF Elapse
  <2> HIDE DEF l
  <2>3. Elapse(op) \in Operation
    BY <2>1, <2>2 DEF Operation
  <2> QED
    BY <2>2, <2>3 DEF Operation, SameIntent
<1> QED
  BY <1>1, <1>2

----------------------------------------------------------------------------
(* The inductive invariant *)

\* Every decision is about a stored revision and was made by somebody else.
DecidedByChecker ==
    \A d \in decisions : d.rev \in DOMAIN revisions /\ d.by # revisions[d.rev].maker

\* Nothing is approved without an approving decision.
ApprovedWasDecided ==
    \A g \in DOMAIN revisions :
        revisions[g].state = "approved" =>
            \E d \in decisions : d.rev = g /\ d.verdict = "approved"

\* The applied operations, if any, have a newest one.
AppliedHasLatest ==
    AppliedOps # {} => \E m \in AppliedOps : \A j \in AppliedOps : j <= m

CPInv ==
    /\ CPTypeOK
    /\ DecidedByChecker
    /\ ApprovedWasDecided
    /\ AppliedHasLatest
    /\ ActivePointsToApproved
    /\ SeparationOfDuties
    /\ OnlyNewestIsOpen
    /\ DesiredIsNewestApply
    /\ PredecessorIsPriorApplied
    /\ RetryLineage

\* LatestApplied really is the newest applied operation.
LEMMA LatestAppliedIsLatest ==
    ASSUME CPTypeOK, AppliedHasLatest
    PROVE  /\ LatestApplied \in Nat
           /\ AppliedOps = {} => LatestApplied = 0
           /\ AppliedOps # {} => /\ LatestApplied \in AppliedOps
                                 /\ \A j \in AppliedOps : j <= LatestApplied
<1>1. AppliedOps \subseteq Nat
  BY LenProperties DEF CPTypeOK, AppliedOps
<1>2. CASE AppliedOps = {}
  BY <1>2 DEF LatestApplied
<1>3. CASE AppliedOps # {}
  <2>1. /\ LatestApplied \in AppliedOps
        /\ \A j \in AppliedOps : j <= LatestApplied
    BY <1>3 DEF LatestApplied, AppliedHasLatest
  <2> QED
    BY <1>1, <1>3, <2>1
<1> QED
  BY <1>2, <1>3

\* Nothing is stored initially.
LEMMA CPInitInv == CPInit => CPInv
<1> SUFFICES ASSUME CPInit PROVE CPInv
  OBVIOUS
<1>1. CPTypeOK
  BY EmptySeq DEF CPInit, CPTypeOK, NoSelection, Selection
<1>2. DOMAIN revisions = {} /\ DOMAIN operations = {} /\ decisions = {} /\ active.rev = 0
  BY DEF CPInit, NoSelection
<1> QED
  BY <1>1, <1>2 DEF CPInv, DecidedByChecker, ApprovedWasDecided, AppliedHasLatest, AppliedOps,
     ActivePointsToApproved, SeparationOfDuties, OnlyNewestIsOpen, DesiredIsNewestApply,
     PredecessorIsPriorApplied, RetryLineage

----------------------------------------------------------------------------
(* Editing, submitting and deciding leave pointer and outbox alone. *)

\* What CreateDraft, Submit and Decide have in common.
RevisionEdit ==
    /\ UNCHANGED <<active, operations>>
    /\ revisions' \in Seq(Revision)
    /\ DOMAIN revisions \subseteq DOMAIN revisions'
    /\ \A g \in DOMAIN revisions :
           /\ revisions'[g].maker = revisions[g].maker
           /\ revisions'[g].config = revisions[g].config
           /\ revisions[g].state = "approved" => revisions'[g].state = "approved"
    /\ decisions \subseteq decisions' /\ decisions' \subseteq Decision
    /\ audit' \in Seq(AuditEvent)

\* A revision edit preserves everything that is said of pointer and outbox.
LEMMA RevisionEditInv ==
    ASSUME CPInv, RevisionEdit, DecidedByChecker', ApprovedWasDecided'
    PROVE  CPInv'
<1>1. CPTypeOK'
  BY DEF CPInv, RevisionEdit, CPTypeOK
<1>2. ActivePointsToApproved'
  BY DEF CPInv, RevisionEdit, ActivePointsToApproved
<1>3. SeparationOfDuties'
  <2> SUFFICES ASSUME NEW i \in DOMAIN operations
               PROVE  LET op == operations[i] IN
                      /\ op.rev \in DOMAIN revisions'
                      /\ op.requester # revisions'[op.rev].maker
                      /\ op.config = revisions'[op.rev].config
                      /\ \E d \in decisions' :
                             /\ d.rev = op.rev /\ d.verdict = "approved"
                             /\ d.by # revisions'[op.rev].maker
    BY DEF SeparationOfDuties, RevisionEdit
  <2> QED
    BY DEF CPInv, SeparationOfDuties, RevisionEdit
<1>4. AppliedOps' = AppliedOps
  BY DEF RevisionEdit, AppliedOps
<1>5. AppliedHasLatest' /\ PredecessorIsPriorApplied'
  BY <1>4 DEF CPInv, RevisionEdit, AppliedHasLatest, PredecessorIsPriorApplied
<1>6. OnlyNewestIsOpen' /\ DesiredIsNewestApply' /\ RetryLineage'
  BY DEF CPInv, RevisionEdit, OnlyNewestIsOpen, DesiredIsNewestApply, RetryLineage
<1> QED
  BY <1>1, <1>2, <1>3, <1>5, <1>6 DEF CPInv

\* Every event appended is an audit event.
LEMMA AppendAuditType ==
    ASSUME CPTypeOK, NEW a \in AuditAction, NEW n \in Nat, NEW u \in Subjects \union Workers,
           AppendAudit(a, n, u)
    PROVE  audit' \in Seq(AuditEvent)
<1>1. [action |-> a, object |-> n, actor |-> u] \in AuditEvent
  BY DEF AuditEvent
<1> QED
  BY <1>1, AppendProperties DEF AppendAudit, CPTypeOK

\* A new draft is decided by nobody yet.
LEMMA CreateDraftInv ==
    ASSUME CPInv, NEW s \in Subjects, NEW c \in Configs, CreateDraft(s, c)
    PROVE  CPInv'
<1> DEFINE new == [config |-> c, maker |-> s, state |-> "draft", version |-> 0]
<1>1. /\ revisions \in Seq(Revision) /\ DOMAIN revisions = 1 .. Len(revisions)
      /\ Len(revisions) \in Nat /\ CPTypeOK
  BY LenProperties DEF CPInv, CPTypeOK
<1>2. new \in Revision
  BY DEF Revision
<1>3. revisions' = Append(revisions, new)
  BY DEF CreateDraft
<1>4. new.state = "draft"
  OBVIOUS
<1> HIDE DEF new
<1>5. /\ revisions' \in Seq(Revision)
      /\ Len(revisions') = Len(revisions) + 1
      /\ \A g \in DOMAIN revisions : revisions'[g] = revisions[g]
      /\ revisions'[Len(revisions) + 1] = new
  BY <1>1, <1>2, <1>3, AppendProperties
<1>6. DOMAIN revisions' = DOMAIN revisions \union {Len(revisions) + 1}
  BY <1>1, <1>5, LenProperties
<1>7. audit' \in Seq(AuditEvent)
  <2>1. "revision-created" \in AuditAction /\ Len(revisions) + 1 \in Nat
    BY <1>1 DEF AuditAction
  <2> QED
    BY <1>1, <2>1, AppendAuditType DEF CreateDraft
<1>8. RevisionEdit
  BY <1>1, <1>5, <1>6, <1>7 DEF RevisionEdit, CreateDraft, CPTypeOK
<1>9. DecidedByChecker' /\ ApprovedWasDecided'
  BY <1>1, <1>4, <1>5, <1>6 DEF CPInv, CreateDraft, DecidedByChecker, ApprovedWasDecided
<1> QED
  BY <1>8, <1>9, RevisionEditInv

\* Submission keeps the content of the revision.
LEMMA SubmitInv ==
    ASSUME CPInv, NEW s \in Subjects, NEW g \in DOMAIN revisions, Submit(s, g)
    PROVE  CPInv'
<1>1. CPTypeOK /\ g \in Nat
  BY LenProperties DEF CPInv, CPTypeOK
<1>2. SetRevision(g, "submitted") /\ revisions[g].state = "draft" /\ UNCHANGED decisions
  BY DEF Submit
<1>3. /\ revisions' \in Seq(Revision)
      /\ DOMAIN revisions' = DOMAIN revisions
      /\ \A h \in DOMAIN revisions :
            /\ revisions'[h].config = revisions[h].config
            /\ revisions'[h].maker = revisions[h].maker
            /\ revisions'[h].state = IF h = g THEN "submitted" ELSE revisions[h].state
  BY <1>1, <1>2, SetRevisionWrites
<1>4. audit' \in Seq(AuditEvent)
  <2>1. "revision-submitted" \in AuditAction
    BY DEF AuditAction
  <2> QED
    BY <1>1, <2>1, AppendAuditType DEF Submit
<1>5. RevisionEdit
  BY <1>1, <1>2, <1>3, <1>4 DEF RevisionEdit, Submit, CPTypeOK
<1>6. DecidedByChecker' /\ ApprovedWasDecided'
  BY <1>2, <1>3 DEF CPInv, DecidedByChecker, ApprovedWasDecided
<1> QED
  BY <1>5, <1>6, RevisionEditInv

\* A decision is recorded with the state it leads to, and by a checker.
LEMMA DecideInv ==
    ASSUME CPInv, NEW s \in Subjects, NEW g \in DOMAIN revisions,
           NEW v \in {"approved", "rejected"}, Decide(s, g, v)
    PROVE  CPInv'
<1> DEFINE new == [rev |-> g, verdict |-> v, by |-> s]
<1>1. CPTypeOK /\ g \in Nat
  BY LenProperties DEF CPInv, CPTypeOK
<1>2. /\ SetRevision(g, v) /\ revisions[g].state = "submitted"
      /\ revisions[g].maker # s /\ decisions' = decisions \union {new}
  BY DEF Decide, NotMaker
<1>3. new \in Decision /\ new.rev = g /\ new.verdict = v /\ new.by = s
  BY <1>1 DEF Decision
<1> HIDE DEF new
<1>4. /\ revisions' \in Seq(Revision)
      /\ DOMAIN revisions' = DOMAIN revisions
      /\ \A h \in DOMAIN revisions :
            /\ revisions'[h].config = revisions[h].config
            /\ revisions'[h].maker = revisions[h].maker
            /\ revisions'[h].state = IF h = g THEN v ELSE revisions[h].state
  BY <1>1, <1>2, SetRevisionWrites
<1>5. audit' \in Seq(AuditEvent)
  <2> DEFINE a == IF v = "approved" THEN "revision-approved" ELSE "revision-rejected"
  <2>1. a \in AuditAction
    BY DEF AuditAction
  <2>2. AppendAudit(a, g, s)
    BY DEF Decide
  <2> HIDE DEF a
  <2> QED
    BY <1>1, <2>1, <2>2, AppendAuditType
<1>6. RevisionEdit
  BY <1>1, <1>2, <1>3, <1>4, <1>5 DEF RevisionEdit, Decide, CPTypeOK
<1>7. DecidedByChecker'
  BY <1>2, <1>3, <1>4 DEF CPInv, DecidedByChecker
<1>8. ApprovedWasDecided'
  BY <1>2, <1>3, <1>4 DEF CPInv, ApprovedWasDecided
<1> QED
  BY <1>6, <1>7, <1>8, RevisionEditInv

----------------------------------------------------------------------------
(* Leases, closings and the clock rewrite open rows only. *)

\* What LeaseNext, AcknowledgeApplied, FailOperation and Tick have in common.
OutboxRewrite ==
    /\ UNCHANGED <<revisions, decisions, active>>
    /\ operations' \in Seq(Operation)
    /\ Len(operations') = Len(operations)
    /\ DOMAIN operations' = DOMAIN operations
    /\ \A j \in DOMAIN operations :
           /\ SameIntent(operations[j], operations'[j])
           /\ ~Unresolved(operations[j]) =>
                  /\ operations'[j].state = operations[j].state
                  /\ operations'[j].retry = operations[j].retry
    /\ audit' \in Seq(AuditEvent)

\* Rewriting open rows preserves the invariant: what is resolved stays as it
\* was, and only the newest row can become the latest applied one.
LEMMA OutboxRewriteInv ==
    ASSUME CPInv, OutboxRewrite
    PROVE  CPInv'
<1>1. /\ DOMAIN operations = 1 .. Len(operations) /\ Len(operations) \in Nat
      /\ \A j \in DOMAIN operations : operations[j] \in Operation
  BY LenProperties, ElementOfSeq DEF CPInv, CPTypeOK
<1>2. CPTypeOK'
  BY DEF CPInv, OutboxRewrite, CPTypeOK
<1>3. DecidedByChecker' /\ ApprovedWasDecided' /\ ActivePointsToApproved'
  BY DEF CPInv, OutboxRewrite, DecidedByChecker, ApprovedWasDecided, ActivePointsToApproved
<1>4. SeparationOfDuties'
  BY DEF CPInv, OutboxRewrite, SeparationOfDuties, SameIntent
<1>5. OnlyNewestIsOpen'
  BY DEF CPInv, OutboxRewrite, OnlyNewestIsOpen, Unresolved
<1>6. DesiredIsNewestApply'
  BY DEF CPInv, OutboxRewrite, DesiredIsNewestApply, SameIntent
<1>7. RetryLineage'
  <2> SUFFICES ASSUME NEW i \in DOMAIN operations, operations'[i].retryOf # 0
               PROVE  LET prior == operations'[operations'[i].retryOf] IN
                      /\ operations'[i].retryOf = i - 1
                      /\ prior.state = "failed" /\ ~prior.retry
                      /\ prior.rev = operations'[i].rev
    BY DEF RetryLineage, OutboxRewrite
  <2> DEFINE k == operations[i].retryOf
  <2>1. operations'[i].retryOf = k /\ operations'[i].rev = operations[i].rev
    BY DEF OutboxRewrite, SameIntent
  <2>2. /\ k = i - 1
        /\ operations[k].state = "failed" /\ ~operations[k].retry
        /\ operations[k].rev = operations[i].rev
    BY <2>1 DEF CPInv, RetryLineage
  <2>3. k # 0 /\ k \in DOMAIN operations
    BY <1>1, <2>1, <2>2
  <2>4. ~Unresolved(operations[k])
    BY <2>2 DEF Unresolved
  <2>5. /\ operations'[k].state = "failed" /\ ~operations'[k].retry
        /\ operations'[k].rev = operations[i].rev
    BY <2>2, <2>3, <2>4 DEF OutboxRewrite, SameIntent
  <2> HIDE DEF k
  <2> QED
    BY <2>1, <2>2, <2>5
<1>8. AppliedOps \subseteq AppliedOps' /\ AppliedOps' \subseteq AppliedOps \union {Len(operations)}
  <2>1. ASSUME NEW j \in DOMAIN operations, operations[j].state = "applied"
        PROVE  operations'[j].state = "applied"
    BY <2>1 DEF OutboxRewrite, Unresolved
  <2>2. ASSUME NEW j \in DOMAIN operations, operations'[j].state = "applied",
               operations[j].state # "applied"
        PROVE  j = Len(operations)
    BY <2>2 DEF CPInv, OutboxRewrite, OnlyNewestIsOpen
  <2> QED
    BY <2>1, <2>2 DEF OutboxRewrite, AppliedOps
<1>9. AppliedOps \subseteq 1 .. Len(operations)
  BY <1>1 DEF AppliedOps
<1>10. AppliedHasLatest'
  <2>1. CASE Len(operations) \in AppliedOps'
    <3>1. \A j \in AppliedOps' : j <= Len(operations)
      <4> SUFFICES ASSUME NEW j \in AppliedOps' PROVE j <= Len(operations)
        OBVIOUS
      <4>1. j \in DOMAIN operations
        BY DEF AppliedOps, OutboxRewrite
      <4> QED
        BY <1>1, <4>1
    <3> QED
      BY <2>1, <3>1 DEF AppliedHasLatest
  <2>2. CASE Len(operations) \notin AppliedOps'
    <3>1. AppliedOps' = AppliedOps
      BY <1>8, <2>2
    <3> QED
      BY <3>1 DEF CPInv, AppliedHasLatest
  <2> QED
    BY <2>1, <2>2
<1>11. PredecessorIsPriorApplied'
  <2> SUFFICES ASSUME NEW i \in DOMAIN operations
               PROVE  LET before == {j \in AppliedOps' : j < i} IN
                      IF before = {} THEN operations'[i].pred = 0
                      ELSE /\ operations'[i].pred \in before
                           /\ \A j \in before : j <= operations'[i].pred
    BY DEF PredecessorIsPriorApplied, OutboxRewrite
  <2>1. {j \in AppliedOps' : j < i} = {j \in AppliedOps : j < i}
    <3>1. ~(Len(operations) < i)
      BY <1>1
    <3> QED
      BY <1>8, <3>1
  <2>2. operations'[i].pred = operations[i].pred
    BY DEF OutboxRewrite, SameIntent
  <2> QED
    BY <2>1, <2>2 DEF CPInv, PredecessorIsPriorApplied
<1> QED
  BY <1>2, <1>3, <1>4, <1>5, <1>6, <1>7, <1>10, <1>11 DEF CPInv

\* Rewriting one open row is an outbox rewrite.
LEMMA RowRewrite ==
    ASSUME CPTypeOK, NEW i \in DOMAIN operations, NEW new \in Operation,
           SameIntent(operations[i], new), Unresolved(operations[i]),
           operations' = [operations EXCEPT ![i] = new],
           UNCHANGED <<revisions, decisions, active>>, audit' \in Seq(AuditEvent)
    PROVE  OutboxRewrite
<1>1. /\ operations' \in Seq(Operation)
      /\ Len(operations') = Len(operations)
      /\ DOMAIN operations' = DOMAIN operations
      /\ \A j \in DOMAIN operations : operations'[j] = IF j = i THEN new ELSE operations[j]
  BY OperationRowWrites
<1> QED
  BY <1>1 DEF OutboxRewrite, SameIntent

\* A lease rewrites an open row.
LEMMA LeaseNextInv ==
    ASSUME CPInv, NEW w \in Workers, NEW i \in DOMAIN operations, NEW d \in Drift,
           LeaseNext(w, i, d)
    PROVE  CPInv'
<1>1. CPTypeOK /\ operations[i] \in Operation /\ i \in Nat
  BY LenProperties, ElementOfSeq DEF CPInv, CPTypeOK
<1>2. /\ Leased(operations[i], w, d) \in Operation
      /\ SameIntent(operations[i], Leased(operations[i], w, d))
  BY <1>1, LeasedRow
<1>3. Unresolved(operations[i])
  BY DEF LeaseNext, Eligible, Unresolved
<1>4. audit' \in Seq(AuditEvent)
  <2>1. "deployment-leased" \in AuditAction
    BY DEF AuditAction
  <2> QED
    BY <1>1, <2>1, AppendAuditType DEF LeaseNext
<1>5. OutboxRewrite
  BY <1>1, <1>2, <1>3, <1>4, RowRewrite DEF LeaseNext
<1> QED
  BY <1>5, OutboxRewriteInv

\* An acknowledgement rewrites the row whose lease it holds.
LEMMA AcknowledgeAppliedInv ==
    ASSUME CPInv, NEW w \in Workers, NEW i \in DOMAIN operations, NEW f \in Nat,
           NEW c \in Configs, NEW n \in Nat, NEW d \in Drift,
           AcknowledgeApplied(w, i, f, c, n, d)
    PROVE  CPInv'
<1>1. CPTypeOK /\ operations[i] \in Operation /\ i \in Nat
  BY LenProperties, ElementOfSeq DEF CPInv, CPTypeOK
<1>2. /\ Applied(operations[i], c, n) \in Operation
      /\ SameIntent(operations[i], Applied(operations[i], c, n))
  BY <1>1, AppliedRow
<1>3. Unresolved(operations[i])
  BY DEF AcknowledgeApplied, HoldsLease, Unresolved
<1>4. audit' \in Seq(AuditEvent)
  <2>1. "deployment-applied" \in AuditAction
    BY DEF AuditAction
  <2> QED
    BY <1>1, <2>1, AppendAuditType DEF AcknowledgeApplied
<1>5. OutboxRewrite
  BY <1>1, <1>2, <1>3, <1>4, RowRewrite DEF AcknowledgeApplied
<1> QED
  BY <1>5, OutboxRewriteInv

\* A recorded failure rewrites the row whose lease it holds.
LEMMA FailOperationInv ==
    ASSUME CPInv, NEW w \in Workers, NEW i \in DOMAIN operations, NEW f \in Nat,
           NEW delay \in 0 .. MaxRetryDelay, NEW d \in Drift,
           FailOperation(w, i, f, delay, d)
    PROVE  CPInv'
<1>1. CPTypeOK /\ operations[i] \in Operation /\ i \in Nat
  BY LenProperties, ElementOfSeq DEF CPInv, CPTypeOK
<1>2. /\ Failed(operations[i], delay, d) \in Operation
      /\ SameIntent(operations[i], Failed(operations[i], delay, d))
  BY <1>1, FailedRow
<1>3. Unresolved(operations[i])
  BY DEF FailOperation, HoldsLease, Unresolved
<1>4. audit' \in Seq(AuditEvent)
  <2>1. "deployment-failed" \in AuditAction
    BY DEF AuditAction
  <2> QED
    BY <1>1, <2>1, AppendAuditType DEF FailOperation
<1>5. OutboxRewrite
  BY <1>1, <1>2, <1>3, <1>4, RowRewrite DEF FailOperation
<1> QED
  BY <1>5, OutboxRewriteInv

\* The clock rewrites only the time left.
LEMMA TickInv ==
    ASSUME CPInv, Tick
    PROVE  CPInv'
<1>1. /\ DOMAIN operations = 1 .. Len(operations) /\ Len(operations) \in Nat
      /\ \A j \in DOMAIN operations : operations[j] \in Operation
  BY LenProperties, ElementOfSeq DEF CPInv, CPTypeOK
<1>2. \A j \in DOMAIN operations :
          /\ Elapse(operations[j]) \in Operation
          /\ SameIntent(operations[j], Elapse(operations[j]))
          /\ Elapse(operations[j]).state = operations[j].state
          /\ Elapse(operations[j]).retry = operations[j].retry
  BY <1>1, ElapseRow
<1>3. operations' = [j \in 1 .. Len(operations) |-> Elapse(operations[j])]
  BY <1>1 DEF Tick
<1>4. operations' \in Seq(Operation) /\ Len(operations') = Len(operations)
  BY <1>1, <1>2, <1>3
<1>5. DOMAIN operations' = DOMAIN operations
  BY <1>1, <1>3
<1>6. \A j \in DOMAIN operations : operations'[j] = Elapse(operations[j])
  BY <1>1, <1>3
<1>7. OutboxRewrite
  BY <1>2, <1>4, <1>5, <1>6 DEF OutboxRewrite, Tick, CPInv, CPTypeOK
<1> QED
  BY <1>7, OutboxRewriteInv

----------------------------------------------------------------------------
(* New intents *)

\* What Activate, RequestRollback and RequestRetry have in common: an operation
\* for revision g goes to the end of an outbox in which nothing is open.
NewIntent(s, g, kind, retryOf) ==
    /\ CreateDeploymentOperation(s, g, kind, retryOf)
    /\ revisions' \in Seq(Revision)
    /\ DOMAIN revisions' = DOMAIN revisions
    /\ \A h \in DOMAIN revisions :
           /\ revisions'[h].maker = revisions[h].maker
           /\ revisions'[h].config = revisions[h].config
           /\ revisions'[h].state = "approved" => revisions[h].state = "approved"
    /\ UNCHANGED decisions
    /\ active' \in Selection
    /\ audit' \in Seq(AuditEvent)

\* A new intent preserves the invariant when somebody other than the maker asks
\* for a revision that somebody other than the maker approved, when an apply
\* carries the selection and when a retry follows a terminal failure.
LEMMA NewIntentInv ==
    ASSUME CPInv, NEW s \in Subjects, NEW g \in DOMAIN revisions,
           NEW kind \in {"apply", "rollback"}, NEW retryOf \in Nat,
           NewIntent(s, g, kind, retryOf),
           revisions[g].maker # s,
           \E d \in decisions : d.rev = g /\ d.verdict = "approved",
           ActivePointsToApproved',
           IF kind = "apply" THEN active'.rev = g /\ active'.config = revisions[g].config
                             ELSE UNCHANGED active,
           retryOf # 0 => /\ retryOf = Len(operations)
                          /\ operations[retryOf].state = "failed"
                          /\ ~operations[retryOf].retry
                          /\ operations[retryOf].rev = g
    PROVE  CPInv'
<1> DEFINE n == Len(operations)
           new == PendingOperation(s, g, kind, retryOf)
<1>1. /\ CPTypeOK /\ AppliedHasLatest
      /\ DOMAIN operations = 1 .. n /\ n \in Nat
      /\ \A j \in DOMAIN operations : operations[j] \in Operation
  BY LenProperties, ElementOfSeq DEF CPInv, CPTypeOK
<1>2. /\ LatestApplied \in Nat
      /\ AppliedOps = {} => LatestApplied = 0
      /\ AppliedOps # {} => /\ LatestApplied \in AppliedOps
                            /\ \A j \in AppliedOps : j <= LatestApplied
  BY <1>1, LatestAppliedIsLatest
<1>3. /\ operations' \in Seq(Operation)
      /\ Len(operations') = n + 1
      /\ DOMAIN operations' = DOMAIN operations \union {n + 1}
      /\ \A i \in DOMAIN operations : operations'[i] = operations[i]
      /\ operations'[n + 1] = new
  <2>1. CPTypeOK /\ LatestApplied \in Nat /\ CreateDeploymentOperation(s, g, kind, retryOf)
    BY <1>1, <1>2 DEF NewIntent
  <2> HIDE DEF n, new
  <2>2. operations' \in Seq(Operation) /\ Len(operations') = Len(operations) + 1
    BY <2>1, CreateDeploymentOperationWrites
  <2>3. DOMAIN operations' = DOMAIN operations \union {Len(operations')}
    <3>1. DOMAIN operations' = 1 .. Len(operations) + 1
      BY <2>2, LenProperties
    <3>2. 1 .. n + 1 = (1 .. n) \union {n + 1}
      BY <1>1
    <3> QED
      BY <1>1, <2>2, <3>1, <3>2 DEF n
  <2>4. \A i \in DOMAIN operations : operations'[i] = operations[i]
    BY <2>1, CreateDeploymentOperationWrites
  <2>5. operations'[Len(operations')] = PendingOperation(s, g, kind, retryOf)
    BY <2>1, CreateDeploymentOperationWrites
  <2> QED
    BY <2>2, <2>3, <2>4, <2>5 DEF n, new
<1>4. /\ new.kind = kind /\ new.rev = g /\ new.config = revisions[g].config
      /\ new.pred = LatestApplied /\ new.retryOf = retryOf /\ new.requester = s
      /\ new.state = "pending"
  BY DEF PendingOperation
<1>5. \A i \in DOMAIN operations : ~Unresolved(operations[i])
  BY DEF NewIntent, CreateDeploymentOperation
<1> HIDE DEF n, new
<1>6. n + 1 \notin DOMAIN operations
  BY <1>1
<1>7. CPTypeOK'
  BY <1>1, <1>3 DEF CPTypeOK, NewIntent
<1>8. DecidedByChecker' /\ ApprovedWasDecided'
  BY DEF CPInv, NewIntent, DecidedByChecker, ApprovedWasDecided
<1>9. AppliedOps' = AppliedOps
  BY <1>3, <1>4, <1>6 DEF AppliedOps
<1>10. AppliedHasLatest'
  BY <1>1, <1>9 DEF AppliedHasLatest
<1>11. SeparationOfDuties'
  <2>1. ASSUME NEW i \in DOMAIN operations
        PROVE  LET op == operations'[i] IN
               /\ op.rev \in DOMAIN revisions'
               /\ op.requester # revisions'[op.rev].maker
               /\ op.config = revisions'[op.rev].config
               /\ \E d \in decisions' :
                      /\ d.rev = op.rev /\ d.verdict = "approved"
                      /\ d.by # revisions'[op.rev].maker
    BY <1>3 DEF CPInv, SeparationOfDuties, NewIntent
  <2>2. /\ new.rev \in DOMAIN revisions'
        /\ new.requester # revisions'[new.rev].maker
        /\ new.config = revisions'[new.rev].config
        /\ \E d \in decisions' :
               d.rev = new.rev /\ d.verdict = "approved" /\ d.by # revisions'[new.rev].maker
    BY <1>4 DEF CPInv, DecidedByChecker, NewIntent
  <2> QED
    BY <1>3, <2>1, <2>2 DEF SeparationOfDuties
<1>12. OnlyNewestIsOpen'
  BY <1>3, <1>5 DEF OnlyNewestIsOpen
<1>13. DesiredIsNewestApply'
  <2> SUFFICES ASSUME NEW i \in DOMAIN operations', operations'[i].kind = "apply",
                      \A j \in DOMAIN operations' : j > i => operations'[j].kind # "apply"
               PROVE  operations'[i].rev = active'.rev /\ operations'[i].config = active'.config
    BY DEF DesiredIsNewestApply
  <2>1. CASE i = n + 1
    BY <1>3, <1>4, <2>1
  <2>2. CASE i # n + 1
    <3>1. i \in DOMAIN operations /\ n + 1 > i
      BY <1>1, <1>3, <2>2
    <3>2. kind = "rollback"
      BY <1>3, <1>4, <3>1
    <3>3. \A j \in DOMAIN operations : j > i => operations[j].kind # "apply"
      BY <1>3
    <3>4. operations[i].rev = active.rev /\ operations[i].config = active.config
      BY <1>3, <3>1, <3>3 DEF CPInv, DesiredIsNewestApply
    <3> QED
      BY <1>3, <3>1, <3>2, <3>4
  <2> QED
    BY <2>1, <2>2
<1>14. RetryLineage'
  <2> SUFFICES ASSUME NEW i \in DOMAIN operations', operations'[i].retryOf # 0
               PROVE  LET prior == operations'[operations'[i].retryOf] IN
                      /\ operations'[i].retryOf = i - 1
                      /\ prior.state = "failed" /\ ~prior.retry
                      /\ prior.rev = operations'[i].rev
    BY DEF RetryLineage
  <2>1. CASE i = n + 1
    <3>1. operations'[i].retryOf = retryOf /\ operations'[i].rev = g /\ retryOf # 0
      BY <1>3, <1>4, <2>1
    <3>2. retryOf = n
      BY <3>1 DEF n
    <3>3. retryOf \in DOMAIN operations /\ retryOf = i - 1
      BY <1>1, <2>1, <3>1, <3>2
    <3> QED
      BY <1>3, <3>1, <3>3
  <2>2. CASE i # n + 1
    <3>1. i \in DOMAIN operations /\ operations'[i] = operations[i]
      BY <1>3, <2>2
    <3>2. /\ operations[i].retryOf = i - 1
          /\ operations[operations[i].retryOf].state = "failed"
          /\ ~operations[operations[i].retryOf].retry
          /\ operations[operations[i].retryOf].rev = operations[i].rev
      BY <3>1 DEF CPInv, RetryLineage
    <3>3. operations[i].retryOf \in DOMAIN operations
      BY <1>1, <3>1, <3>2
    <3> QED
      BY <1>3, <3>1, <3>2, <3>3
  <2> QED
    BY <2>1, <2>2
<1>15. PredecessorIsPriorApplied'
  <2> SUFFICES ASSUME NEW i \in DOMAIN operations'
               PROVE  LET before == {j \in AppliedOps : j < i} IN
                      IF before = {} THEN operations'[i].pred = 0
                      ELSE /\ operations'[i].pred \in before
                           /\ \A j \in before : j <= operations'[i].pred
    BY <1>9 DEF PredecessorIsPriorApplied
  <2>1. CASE i = n + 1
    <3>1. {j \in AppliedOps : j < i} = AppliedOps
      BY <1>1, <2>1 DEF AppliedOps
    <3>2. operations'[i].pred = LatestApplied
      BY <1>3, <1>4, <2>1
    <3> QED
      BY <1>2, <3>1, <3>2
  <2>2. CASE i # n + 1
    <3>1. i \in DOMAIN operations /\ operations'[i] = operations[i]
      BY <1>3, <2>2
    <3> QED
      BY <3>1 DEF CPInv, PredecessorIsPriorApplied
  <2> QED
    BY <2>1, <2>2
<1> QED
  BY <1>7, <1>8, <1>10, <1>11, <1>12, <1>13, <1>14, <1>15 DEF CPInv

\* Activation moves the pointer to g, retires the revision it leaves and asks
\* for g to be applied.
LEMMA ActivateInv ==
    ASSUME CPInv, NEW s \in Subjects, NEW g \in DOMAIN revisions, Activate(s, g)
    PROVE  CPInv'
<1>1. /\ CPTypeOK /\ g \in Nat /\ g # 0 /\ revisions \in Seq(Revision)
      /\ \A h \in DOMAIN revisions : revisions[h] \in Revision
  BY LenProperties, ElementOfSeq DEF CPInv, CPTypeOK
<1>2. /\ revisions[g].maker # s /\ revisions[g].state = "approved" /\ active.rev # g
      /\ active' = SelectionOf(g) /\ RetireReplaced(g)
      /\ CreateDeploymentOperation(s, g, "apply", 0) /\ UNCHANGED decisions
      /\ AppendAudit("revision-activated", g, s)
  BY DEF Activate, NotMaker
<1>3. active.rev # 0 => active.rev \in DOMAIN revisions
  BY DEF CPInv, ActivePointsToApproved
<1>4. /\ revisions' \in Seq(Revision)
      /\ DOMAIN revisions' = DOMAIN revisions
      /\ \A h \in DOMAIN revisions :
            /\ revisions'[h].config = revisions[h].config
            /\ revisions'[h].maker = revisions[h].maker
            /\ revisions'[h].state =
                   IF h = active.rev THEN "retired" ELSE revisions[h].state
  <2>1. CASE active.rev = 0
    <3>1. revisions' = revisions /\ 0 \notin DOMAIN revisions
      BY <1>1, <1>2, <2>1, LenProperties DEF RetireReplaced
    <3> QED
      BY <1>1, <2>1, <3>1
  <2>2. CASE active.rev # 0
    <3>1. SetRevision(active.rev, "retired") /\ active.rev \in DOMAIN revisions
      BY <1>2, <1>3, <2>2 DEF RetireReplaced
    <3> QED
      BY <1>1, <3>1, SetRevisionWrites
  <2> QED
    BY <2>1, <2>2
<1>5. active' \in Selection /\ active'.rev = g /\ active'.config = revisions[g].config
  <2>1. active.version + 1 \in Nat /\ revisions[g].config \in Configs
    BY <1>1 DEF CPTypeOK, Selection, Revision
  <2> QED
    BY <1>1, <1>2, <2>1 DEF SelectionOf, Selection
<1>6. ActivePointsToApproved'
  BY <1>2, <1>4, <1>5 DEF ActivePointsToApproved
<1>7. audit' \in Seq(AuditEvent)
  <2>1. "revision-activated" \in AuditAction
    BY DEF AuditAction
  <2> QED
    BY <1>1, <1>2, <2>1, AppendAuditType
<1>8. NewIntent(s, g, "apply", 0)
  BY <1>2, <1>4, <1>5, <1>7 DEF NewIntent
<1>9. \E d \in decisions : d.rev = g /\ d.verdict = "approved"
  BY <1>2 DEF CPInv, ApprovedWasDecided
<1> QED
  BY <1>2, <1>5, <1>6, <1>8, <1>9, NewIntentInv

\* The revisions, decisions and pointer a rollback or a retry starts from.
LEMMA UnchangedDesk ==
    ASSUME CPInv, NEW s \in Subjects, NEW g \in DOMAIN revisions,
           NEW kind \in {"apply", "rollback"}, NEW retryOf \in Nat,
           NEW a \in AuditAction,
           CreateDeploymentOperation(s, g, kind, retryOf),
           AppendAudit(a, Len(operations) + 1, s),
           UNCHANGED <<revisions, decisions, active>>
    PROVE  NewIntent(s, g, kind, retryOf) /\ ActivePointsToApproved'
<1>1. CPTypeOK /\ Len(operations) + 1 \in Nat
  BY LenProperties DEF CPInv, CPTypeOK
<1>2. audit' \in Seq(AuditEvent)
  BY <1>1, AppendAuditType
<1> QED
  BY <1>1, <1>2 DEF CPInv, CPTypeOK, NewIntent, ActivePointsToApproved

\* A rollback asks for a retired revision and leaves the pointer alone.
LEMMA RequestRollbackInv ==
    ASSUME CPInv, NEW s \in Subjects, NEW g \in DOMAIN revisions, RequestRollback(s, g)
    PROVE  CPInv'
<1>1. "deployment-rollback-requested" \in AuditAction
  BY DEF AuditAction
<1>2. NewIntent(s, g, "rollback", 0) /\ ActivePointsToApproved'
  BY <1>1, UnchangedDesk DEF RequestRollback
<1>3. revisions[g].maker # s /\ \E d \in decisions : d.rev = g /\ d.verdict = "approved"
  BY DEF RequestRollback, NotMaker
<1>4. UNCHANGED active
  BY DEF RequestRollback
<1> QED
  BY <1>2, <1>3, <1>4, NewIntentInv

\* A manual retry asks again for the selected revision.
LEMMA RequestRetryInv ==
    ASSUME CPInv, NEW s \in Subjects, NEW i \in DOMAIN operations, RequestRetry(s, i)
    PROVE  CPInv'
<1> DEFINE g == operations[i].rev
<1>1. /\ i \in Nat /\ i = Len(operations)
      /\ operations[i].state = "failed" /\ ~operations[i].retry
      /\ operations[i].config = active.config /\ g = active.rev
      /\ revisions[g].maker # s /\ revisions[g].state = "approved"
      /\ CreateDeploymentOperation(s, g, "apply", i)
      /\ AppendAudit("deployment-retry-requested", Len(operations) + 1, s)
      /\ UNCHANGED <<revisions, decisions, active>>
  BY LenProperties DEF CPInv, CPTypeOK, RequestRetry, Retryable, NotMaker
<1>2. g \in DOMAIN revisions /\ operations[i].config = revisions[g].config
  BY DEF CPInv, SeparationOfDuties
<1>3. "deployment-retry-requested" \in AuditAction
  BY DEF AuditAction
<1>4. operations[i].rev = g
  OBVIOUS
<1> HIDE DEF g
<1>5. NewIntent(s, g, "apply", i) /\ ActivePointsToApproved'
  BY <1>1, <1>2, <1>3, UnchangedDesk
<1>6. \E d \in decisions : d.rev = g /\ d.verdict = "approved"
  BY <1>1, <1>2 DEF CPInv, ApprovedWasDecided
<1>7. active'.rev = g /\ active'.config = revisions[g].config
  BY <1>1, <1>2
<1> QED
  BY <1>1, <1>2, <1>4, <1>5, <1>6, <1>7, NewIntentInv

----------------------------------------------------------------------------
(* The theorems *)

\* A step that writes nothing preserves the invariant.
LEMMA StutterInv ==
    ASSUME CPInv, UNCHANGED cpVars
    PROVE  CPInv'
<1>1. /\ revisions' = revisions /\ decisions' = decisions /\ active' = active
      /\ operations' = operations /\ audit' = audit
  BY DEF cpVars
<1>2. AppliedOps' = AppliedOps
  BY <1>1 DEF AppliedOps
<1>3. CPTypeOK' /\ DecidedByChecker' /\ ApprovedWasDecided' /\ ActivePointsToApproved'
  BY <1>1 DEF CPInv, CPTypeOK, DecidedByChecker, ApprovedWasDecided, ActivePointsToApproved
<1>4. SeparationOfDuties' /\ OnlyNewestIsOpen' /\ DesiredIsNewestApply' /\ RetryLineage'
  BY <1>1 DEF CPInv, SeparationOfDuties, OnlyNewestIsOpen, DesiredIsNewestApply, RetryLineage
<1>5. AppliedHasLatest' /\ PredecessorIsPriorApplied'
  BY <1>1, <1>2 DEF CPInv, AppliedHasLatest, PredecessorIsPriorApplied
<1> QED
  BY <1>3, <1>4, <1>5 DEF CPInv

\* Every step of the change desk and of the outbox preserves the invariant.
LEMMA CPNextInv == CPInv /\ [CPNext]_cpVars => CPInv'
<1> SUFFICES ASSUME CPInv, [CPNext]_cpVars PROVE CPInv'
  OBVIOUS
<1>1. CASE DeskNext
  BY <1>1, CreateDraftInv, SubmitInv, DecideInv, ActivateInv, RequestRollbackInv,
     RequestRetryInv DEF DeskNext
<1>2. CASE OutboxNext
  <2>1. PICK w \in Workers, i \in DOMAIN operations, d \in Drift :
            \/ LeaseNext(w, i, d)
            \/ \E c \in Configs, n \in Receipts :
                   AcknowledgeApplied(w, i, operations[i].fence, c, n, d)
            \/ \E delay \in 0 .. MaxRetryDelay :
                   FailOperation(w, i, operations[i].fence, delay, d)
    BY <1>2 DEF OutboxNext
  <2>2. operations[i].fence \in Nat
    <3>1. operations[i] \in Operation
      BY LenProperties, ElementOfSeq DEF CPInv, CPTypeOK
    <3> QED
      BY <3>1 DEF Operation
  <2>3. Receipts \subseteq Nat
    OBVIOUS
  <2> QED
    BY <2>1, <2>2, <2>3, LeaseNextInv, AcknowledgeAppliedInv, FailOperationInv
<1>3. CASE Tick
  BY <1>3, TickInv
<1>4. CASE UNCHANGED cpVars
  BY <1>4, StutterInv
<1> QED
  BY <1>1, <1>2, <1>3, <1>4 DEF CPNext

\* The inductive invariant holds in every reachable state of the change desk.
THEOREM ControlPlaneInvariant == CPSpec => []CPInv
<1>1. CPInit => CPInv
  BY CPInitInv
<1>2. CPInv /\ [CPNext]_cpVars => CPInv'
  BY CPNextInv
<1> QED
  BY <1>1, <1>2, PTL DEF CPSpec

\* Every row the code stores has the columns its table declares.
THEOREM ControlPlaneTypeCorrect == CPSpec => []CPTypeOK
<1>1. CPInv => CPTypeOK
  BY DEF CPInv
<1> QED
  BY <1>1, ControlPlaneInvariant, PTL

\* get_active_deployment never meets a pointer to anything but an approved
\* revision with the pointer's digest.
THEOREM PointerSafe == CPSpec => []ActivePointsToApproved
<1>1. CPInv => ActivePointsToApproved
  BY DEF CPInv
<1> QED
  BY <1>1, ControlPlaneInvariant, PTL

\* Nobody gets a change of their own into the outbox, nor one that nobody else
\* approved.
THEOREM MakerChecker == CPSpec => []SeparationOfDuties
<1>1. CPInv => SeparationOfDuties
  BY DEF CPInv
<1> QED
  BY <1>1, ControlPlaneInvariant, PTL

\* A later intent never overtakes an unfinished one.
THEOREM OneOpenOperation == CPSpec => []OnlyNewestIsOpen
<1>1. CPInv => OnlyNewestIsOpen
  BY DEF CPInv
<1> QED
  BY <1>1, ControlPlaneInvariant, PTL

\* The outbox delivers what the pointer selects.
THEOREM OutboxDeliversSelection == CPSpec => []DesiredIsNewestApply
<1>1. CPInv => DesiredIsNewestApply
  BY DEF CPInv
<1> QED
  BY <1>1, ControlPlaneInvariant, PTL

\* predecessor_operation_id names the last operation applied before.
THEOREM PredecessorCorrect == CPSpec => []PredecessorIsPriorApplied
<1>1. CPInv => PredecessorIsPriorApplied
  BY DEF CPInv
<1> QED
  BY <1>1, ControlPlaneInvariant, PTL

\* Manual retries form an unbroken lineage of terminal failures.
THEOREM RetriesFormLineage == CPSpec => []RetryLineage
<1>1. CPInv => RetryLineage
  BY DEF CPInv
<1> QED
  BY <1>1, ControlPlaneInvariant, PTL

\* Whatever is activated, rolled back and retried, and whatever fails, the outbox of the
\* store is one line of intents that ends in the desired selection.
THEOREM OutboxInOneLine == CPSpec => []OutboxIsOneLine
<1>1. CPInv => OutboxIsOneLine
  BY DEF CPInv, OutboxIsOneLine
<1> QED
  BY <1>1, ControlPlaneInvariant, PTL

----------------------------------------------------------------------------
(* The audit chain *)

\* Every set of places in the chain has a latest one.
LEMMA LatestIsLast ==
    ASSUME NEW n \in Nat, NEW K, K \subseteq 1 .. n, K # {}
    PROVE  Latest(K) \in K /\ \A j \in K : j <= Latest(K)
<1> DEFINE T == {n - k : k \in K}
           R == OpToRel(<, Nat)
<1>1. T \subseteq Nat /\ T # {}
  <2>1. \A k \in K : k \in 1 .. n
    OBVIOUS
  <2>2. \A k \in 1 .. n : n - k \in Nat
    OBVIOUS
  <2>3. PICK k \in K : TRUE
    OBVIOUS
  <2>4. n - k \in T
    OBVIOUS
  <2> QED
    BY <2>1, <2>2, <2>4
<1>2. PICK x \in T : \A y \in T : ~ (<<y, x>> \in R)
  <2> HIDE DEF T, R
  <2> QED
    BY <1>1, NatLessThanWellFounded, WFMin, Zenon DEF R
<1>3. \A y \in T : ~ (y < x)
  BY <1>1, <1>2 DEF OpToRel
<1>4. PICK m \in K : x = n - m
  OBVIOUS
<1>5. ASSUME NEW j \in K PROVE j <= m
  <2>1. ~ (n - j < n - m)
    BY <1>3, <1>4
  <2>2. j \in 1 .. n /\ m \in 1 .. n
    OBVIOUS
  <2> QED
    BY <2>1, <2>2
<1> QED
  BY <1>5 DEF Latest

\* An event about object n is appended.
Logs(a, n) ==
    /\ DOMAIN audit' = DOMAIN audit \union {Len(audit) + 1}
    /\ \A k \in DOMAIN audit : audit'[k] = audit[k]
    /\ audit'[Len(audit) + 1].action = a /\ audit'[Len(audit) + 1].object = n

\* AppendAudit appends one event and keeps the others.
LEMMA AppendAuditLogs ==
    ASSUME CPTypeOK, NEW a \in AuditAction, NEW n \in Nat, NEW u \in Subjects \union Workers,
           AppendAudit(a, n, u)
    PROVE  Logs(a, n)
<1> DEFINE new == [action |-> a, object |-> n, actor |-> u]
<1>1. new \in AuditEvent /\ new.action = a /\ new.object = n
  BY DEF AuditEvent
<1>2. audit \in Seq(AuditEvent) /\ DOMAIN audit = 1 .. Len(audit) /\ Len(audit) \in Nat
  BY LenProperties DEF CPTypeOK
<1>3. audit' = Append(audit, new)
  BY DEF AppendAudit
<1> HIDE DEF new
<1>4. /\ audit' \in Seq(AuditEvent) /\ Len(audit') = Len(audit) + 1
      /\ \A k \in 1 .. Len(audit) : audit'[k] = audit[k]
      /\ audit'[Len(audit) + 1] = new
  BY <1>1, <1>2, <1>3, AppendProperties
<1>5. DOMAIN audit' = 1 .. (Len(audit) + 1)
  BY <1>4, LenProperties
<1> QED
  BY <1>1, <1>2, <1>4, <1>5 DEF Logs

\* A set of places, and what the chain says there, when an event is appended.
LEMMA PlacesGrow ==
    ASSUME CPTypeOK, NEW a, NEW n, Logs(a, n), NEW K, K \subseteq DOMAIN audit
    PROVE  /\ IsFiniteSet(K) /\ Cardinality(K) \in Nat
           /\ K # {} => Latest(K) \in K /\ audit'[Latest(K)] = audit[Latest(K)]
           /\ Len(audit) + 1 \notin K
           /\ Latest(K \union {Len(audit) + 1}) = Len(audit) + 1
           /\ Cardinality(K \union {Len(audit) + 1}) = Cardinality(K) + 1
<1> DEFINE N == Len(audit)
           J == K \union {N + 1}
<1>1. DOMAIN audit = 1 .. N /\ N \in Nat
  BY LenProperties DEF CPTypeOK
<1>2. IsFiniteSet(K) /\ Cardinality(K) \in Nat
  <2>1. IsFiniteSet(1 .. N)
    BY <1>1, FS_Interval
  <2>2. IsFiniteSet(K)
    BY <1>1, <2>1, FS_Subset
  <2> QED
    BY <2>2, FS_CardinalityType
<1>3. K # {} => Latest(K) \in K
  BY <1>1, LatestIsLast
<1>4. N + 1 \notin K
  BY <1>1
<1>5. Latest(J) \in J /\ \A j \in J : j <= Latest(J)
  <2>1. N + 1 \in Nat /\ J \subseteq 1 .. (N + 1) /\ J # {}
    BY <1>1
  <2> HIDE DEF J, N
  <2> QED
    BY <2>1, LatestIsLast
<1>6. Latest(J) = N + 1
  <2>1. N + 1 <= Latest(J) /\ (Latest(J) = N + 1 \/ Latest(J) \in 1 .. N)
    BY <1>1, <1>5
  <2> HIDE DEF J, N
  <2> QED
    BY <1>1, <2>1
<1>7. Cardinality(J) = Cardinality(K) + 1
  BY <1>2, <1>4, FS_AddElement
<1> QED
  BY <1>2, <1>3, <1>4, <1>6, <1>7 DEF Logs

\* What an event adds to a trail.
LEMMA TrailGrows ==
    ASSUME CPTypeOK, NEW a, NEW n, Logs(a, n), NEW A, NEW m
    PROVE  IF a \in A /\ n = m
           THEN /\ StateAfter(Trail(A, m))' = EventState(a)
                /\ Cardinality(Trail(A, m))' = Cardinality(Trail(A, m)) + 1
           ELSE /\ StateAfter(Trail(A, m))' = StateAfter(Trail(A, m))
                /\ Cardinality(Trail(A, m))' = Cardinality(Trail(A, m))
<1> DEFINE K == Trail(A, m)
           N == Len(audit) + 1
<1>1. K \subseteq DOMAIN audit
  BY DEF Trail
<1>2. /\ K # {} => Latest(K) \in K /\ audit'[Latest(K)] = audit[Latest(K)]
      /\ N \notin K
      /\ Latest(K \union {N}) = N
      /\ Cardinality(K \union {N}) = Cardinality(K) + 1
  <2> HIDE DEF K
  <2> QED
    BY <1>1, PlacesGrow
<1>3. N \notin DOMAIN audit
  BY LenProperties DEF CPTypeOK
<1>4. CASE a \in A /\ n = m
  <2>1. K' = K \union {N}
    BY <1>3, <1>4 DEF Trail, Logs
  <2>2. Latest(K)' = N
    BY <1>2, <2>1 DEF Latest
  <2>3. StateAfter(K)' = EventState(a)
    BY <2>1, <2>2 DEF StateAfter, Logs
  <2> QED
    BY <1>2, <1>4, <2>1, <2>3
<1>5. CASE ~(a \in A /\ n = m)
  <2>1. K' = K
    BY <1>3, <1>5 DEF Trail, Logs
  <2>2. StateAfter(K)' = StateAfter(K)
    BY <1>2, <2>1 DEF StateAfter, Latest
  <2> QED
    BY <1>5, <2>1, <2>2
<1> QED
  BY <1>4, <1>5

----------------------------------------------------------------------------
(* The tables and the chain *)

\* Events are about rows that are there.
ObjectsAreStored ==
    \A k \in DOMAIN audit :
        /\ audit[k].action \in RevisionSteps \union {"revision-activated"} =>
               audit[k].object \in DOMAIN revisions
        /\ audit[k].action \in OperationSteps => audit[k].object \in DOMAIN operations

\* The activations of the chain end in the desired selection.
PointerIsLogged ==
    /\ active.version = Cardinality(Activations)
    /\ Activations # {} <=> active.rev # 0
    /\ Activations # {} => audit[Latest(Activations)].object = active.rev

\* The chain tells the state of every revision.
RevisionsAreLogged ==
    \A g \in DOMAIN revisions :
        revisions[g].state =
            IF Replaced(g) THEN "retired" ELSE StateAfter(Trail(RevisionSteps, g))

\* The chain tells the state and the fence of every operation.
OperationsAreLogged ==
    \A i \in DOMAIN operations :
        /\ operations[i].state = StateAfter(Trail(OperationSteps, i))
        /\ operations[i].fence = Cardinality(Trail({"deployment-leased"}, i))

\* The inductive invariant of the chain.
AuditInv ==
    /\ ObjectsAreStored /\ PointerIsLogged /\ RevisionsAreLogged /\ OperationsAreLogged

\* Objects stay stored when the tables do not shrink and the event is about a row.
LEMMA ObjectsStay ==
    ASSUME CPTypeOK, ObjectsAreStored, NEW a, NEW n, Logs(a, n),
           DOMAIN revisions \subseteq DOMAIN revisions',
           DOMAIN operations \subseteq DOMAIN operations',
           a \in RevisionSteps \union {"revision-activated"} => n \in DOMAIN revisions',
           a \in OperationSteps => n \in DOMAIN operations'
    PROVE  ObjectsAreStored'
  BY DEF ObjectsAreStored, Logs

\* An event that is no activation leaves the activations as they are.
LEMMA ActivationsStay ==
    ASSUME CPTypeOK, NEW a, NEW n, Logs(a, n), a # "revision-activated"
    PROVE  /\ Activations' = Activations
           /\ Activations # {} => audit'[Latest(Activations)] = audit[Latest(Activations)]
           /\ \A g : Replaced(g)' <=> Replaced(g)
<1>1. Activations \subseteq DOMAIN audit
  BY DEF Activations
<1>2. Len(audit) + 1 \notin DOMAIN audit
  BY LenProperties DEF CPTypeOK
<1>3. Activations' = Activations
  BY <1>2 DEF Activations, Logs
<1>4. Activations # {} => audit'[Latest(Activations)] = audit[Latest(Activations)]
  BY <1>1, PlacesGrow
<1>5. \A k \in Activations : audit'[k] = audit[k]
  BY <1>1 DEF Logs
<1>6. \A g : Replaced(g)' <=> Replaced(g)
  BY <1>3, <1>5 DEF Replaced, Latest
<1> QED
  BY <1>3, <1>4, <1>6

\* The pointer is logged as before if it does not move.
LEMMA PointerStays ==
    ASSUME CPTypeOK, PointerIsLogged, NEW a, NEW n, Logs(a, n), a # "revision-activated",
           UNCHANGED active
    PROVE  PointerIsLogged'
<1>1. /\ Activations' = Activations
      /\ Activations # {} => audit'[Latest(Activations)] = audit[Latest(Activations)]
  BY ActivationsStay
<1>2. Latest(Activations)' = Latest(Activations)
  BY <1>1 DEF Latest
<1> QED
  BY <1>1, <1>2 DEF PointerIsLogged

\* Revisions are logged as before if neither they nor their trails change.
LEMMA RevisionsStay ==
    ASSUME CPTypeOK, RevisionsAreLogged, NEW a, NEW n, Logs(a, n),
           a \notin RevisionSteps \union {"revision-activated"}, UNCHANGED revisions
    PROVE  RevisionsAreLogged'
<1>1. \A g : Replaced(g)' <=> Replaced(g)
  BY ActivationsStay
<1>2. \A g : StateAfter(Trail(RevisionSteps, g))' = StateAfter(Trail(RevisionSteps, g))
  BY TrailGrows
<1> QED
  BY <1>1, <1>2 DEF RevisionsAreLogged

\* Operations are logged as before if neither they nor their trails change.
LEMMA OperationsStay ==
    ASSUME CPTypeOK, OperationsAreLogged, NEW a, NEW n, Logs(a, n),
           a \notin OperationSteps, UNCHANGED operations
    PROVE  OperationsAreLogged'
<1>1. a \notin {"deployment-leased"}
  BY DEF OperationSteps
<1>2. \A i : StateAfter(Trail(OperationSteps, i))' = StateAfter(Trail(OperationSteps, i))
  BY TrailGrows
<1>3. \A i : Cardinality(Trail({"deployment-leased"}, i))'
               = Cardinality(Trail({"deployment-leased"}, i))
  BY <1>1, TrailGrows
<1> QED
  BY <1>2, <1>3 DEF OperationsAreLogged

\* The trail of an object that is not stored is empty.
LEMMA NoTrail ==
    ASSUME ObjectsAreStored, NEW n
    PROVE  /\ n \notin DOMAIN revisions => StateAfter(Trail(RevisionSteps, n)) = "pending"
           /\ n \notin DOMAIN revisions => ~ Replaced(n)
           /\ n \notin DOMAIN operations =>
                 /\ StateAfter(Trail(OperationSteps, n)) = "pending"
                 /\ Cardinality(Trail({"deployment-leased"}, n)) = 0
<1>1. n \notin DOMAIN revisions => Trail(RevisionSteps, n) = {} /\ ~ Replaced(n)
  BY DEF ObjectsAreStored, Trail, Replaced, Activations
<1>2. n \notin DOMAIN operations =>
          Trail(OperationSteps, n) = {} /\ Trail({"deployment-leased"}, n) = {}
  BY DEF ObjectsAreStored, Trail, OperationSteps
<1> QED
  BY <1>1, <1>2, FS_EmptySet DEF StateAfter

----------------------------------------------------------------------------
(* Each transaction and its event *)

\* A new draft has one event.
LEMMA CreateDraftLogs ==
    ASSUME CPInv, AuditInv, NEW s \in Subjects, NEW c \in Configs, CreateDraft(s, c)
    PROVE  AuditInv'
<1> DEFINE new == [config |-> c, maker |-> s, state |-> "draft", version |-> 0]
           a == "revision-created"
<1>0. PICK g : g = Len(revisions) + 1
  OBVIOUS
<1>1. /\ CPTypeOK /\ revisions \in Seq(Revision) /\ DOMAIN revisions = 1 .. Len(revisions)
      /\ Len(revisions) \in Nat
  BY LenProperties DEF CPInv, CPTypeOK
<1>2. new \in Revision /\ new.state = "draft"
  BY DEF Revision
<1>3. revisions' = Append(revisions, new) /\ UNCHANGED << active, operations >>
  BY DEF CreateDraft
<1> HIDE DEF new
<1>4. /\ DOMAIN revisions' = DOMAIN revisions \union {g}
      /\ g \notin DOMAIN revisions
      /\ \A h \in DOMAIN revisions : revisions'[h] = revisions[h]
      /\ revisions'[g].state = "draft"
  BY <1>0, <1>1, <1>2, <1>3, AppendProperties, LenProperties
<1>5. Logs(a, g)
  <2>1. a \in AuditAction /\ g \in Nat
    BY <1>0, <1>1 DEF AuditAction
  <2> QED
    BY <1>0, <1>1, <2>1, AppendAuditLogs DEF CreateDraft
<1>6. a \in RevisionSteps /\ a \notin OperationSteps /\ a # "revision-activated"
  BY DEF RevisionSteps, OperationSteps
<1> HIDE DEF a
<1>7. ObjectsAreStored'
  BY <1>1, <1>3, <1>4, <1>5, <1>6, ObjectsStay DEF AuditInv
<1>8. PointerIsLogged' /\ OperationsAreLogged'
  BY <1>1, <1>3, <1>5, <1>6, PointerStays, OperationsStay DEF AuditInv
<1>9. RevisionsAreLogged'
  <2>1. \A h : Replaced(h)' <=> Replaced(h)
    BY <1>1, <1>5, <1>6, ActivationsStay
  <2>2. \A h : h # g =>
            StateAfter(Trail(RevisionSteps, h))' = StateAfter(Trail(RevisionSteps, h))
    BY <1>1, <1>5, TrailGrows
  <2>3. StateAfter(Trail(RevisionSteps, g))' = EventState(a)
    BY <1>1, <1>5, <1>6, TrailGrows
  <2>4. EventState(a) = "draft"
    BY DEF EventState, a
  <2>5. ~ Replaced(g)
    BY <1>4, NoTrail DEF AuditInv
  <2> QED
    BY <1>4, <2>1, <2>2, <2>3, <2>4, <2>5 DEF AuditInv, RevisionsAreLogged
<1> QED
  BY <1>7, <1>8, <1>9 DEF AuditInv

\* A transition that an event reports, of a revision that is not retired.
LEMMA TransitionLogs ==
    ASSUME CPInv, AuditInv, NEW g \in DOMAIN revisions,
           NEW st \in {"submitted", "approved", "rejected"}, NEW a \in RevisionSteps,
           EventState(a) = st, revisions[g].state # "retired", SetRevision(g, st),
           Logs(a, g), UNCHANGED << active, operations >>
    PROVE  AuditInv'
<1>1. CPTypeOK /\ a \notin OperationSteps /\ a # "revision-activated"
  BY DEF CPInv, RevisionSteps, OperationSteps
<1>2. /\ DOMAIN revisions' = DOMAIN revisions
      /\ \A h \in DOMAIN revisions :
            revisions'[h].state = IF h = g THEN st ELSE revisions[h].state
  BY <1>1, SetRevisionWrites
<1>3. ObjectsAreStored'
  BY <1>1, <1>2, ObjectsStay DEF AuditInv
<1>4. PointerIsLogged' /\ OperationsAreLogged'
  BY <1>1, PointerStays, OperationsStay DEF AuditInv
<1>5. RevisionsAreLogged'
  <2>1. \A h : Replaced(h)' <=> Replaced(h)
    BY <1>1, ActivationsStay
  <2>2. \A h : h # g =>
            StateAfter(Trail(RevisionSteps, h))' = StateAfter(Trail(RevisionSteps, h))
    BY <1>1, TrailGrows
  <2>3. StateAfter(Trail(RevisionSteps, g))' = st
    BY <1>1, TrailGrows
  <2>4. ~ Replaced(g)
    BY DEF AuditInv, RevisionsAreLogged
  <2> QED
    BY <1>2, <2>1, <2>2, <2>3, <2>4 DEF AuditInv, RevisionsAreLogged
<1> QED
  BY <1>3, <1>4, <1>5 DEF AuditInv

\* A submission is reported.
LEMMA SubmitLogs ==
    ASSUME CPInv, AuditInv, NEW s \in Subjects, NEW g \in DOMAIN revisions, Submit(s, g)
    PROVE  AuditInv'
<1> DEFINE a == "revision-submitted"
<1>1. CPTypeOK /\ g \in Nat
  BY LenProperties DEF CPInv, CPTypeOK
<1>2. a \in AuditAction /\ a \in RevisionSteps /\ EventState(a) = "submitted"
  BY DEF AuditAction, RevisionSteps, EventState
<1>3. Logs(a, g)
  BY <1>1, <1>2, AppendAuditLogs DEF Submit
<1> HIDE DEF a
<1> QED
  BY <1>2, <1>3, TransitionLogs DEF Submit

\* A decision is reported with its verdict.
LEMMA DecideLogs ==
    ASSUME CPInv, AuditInv, NEW s \in Subjects, NEW g \in DOMAIN revisions,
           NEW v \in {"approved", "rejected"}, Decide(s, g, v)
    PROVE  AuditInv'
<1> DEFINE a == IF v = "approved" THEN "revision-approved" ELSE "revision-rejected"
<1>1. CPTypeOK /\ g \in Nat
  BY LenProperties DEF CPInv, CPTypeOK
<1>2. a \in AuditAction /\ a \in RevisionSteps /\ EventState(a) = v
  BY DEF AuditAction, RevisionSteps, EventState
<1>3. AppendAudit(a, g, s) /\ SetRevision(g, v) /\ revisions[g].state # "retired"
      /\ UNCHANGED << active, operations >>
  BY DEF Decide
<1> HIDE DEF a
<1>4. Logs(a, g)
  BY <1>1, <1>2, <1>3, AppendAuditLogs
<1> QED
  BY <1>2, <1>3, <1>4, TransitionLogs

\* A new row of the outbox is pending and has no trail.
LEMMA NewOperationLogs ==
    ASSUME CPInv, AuditInv, NEW s \in Subjects, NEW g \in DOMAIN revisions,
           NEW kind \in {"apply", "rollback"}, NEW retryOf \in Nat,
           CreateDeploymentOperation(s, g, kind, retryOf), NEW a, NEW n, Logs(a, n),
           a \notin OperationSteps
    PROVE  /\ OperationsAreLogged'
           /\ DOMAIN operations \subseteq DOMAIN operations'
<1> DEFINE i == Len(operations) + 1
<1>1. /\ CPTypeOK /\ operations \in Seq(Operation) /\ DOMAIN operations = 1 .. Len(operations)
      /\ Len(operations) \in Nat /\ LatestApplied \in Nat
  BY LenProperties, LatestAppliedIsLatest DEF CPInv, CPTypeOK
<1>2. /\ operations' \in Seq(Operation)
      /\ Len(operations') = i
      /\ \A j \in DOMAIN operations : operations'[j] = operations[j]
      /\ operations'[Len(operations')] = PendingOperation(s, g, kind, retryOf)
  BY <1>1, CreateDeploymentOperationWrites
<1>3. DOMAIN operations' = DOMAIN operations \union {i} /\ i \notin DOMAIN operations
  BY <1>1, <1>2, LenProperties
<1>4. operations'[i].state = "pending" /\ operations'[i].fence = 0
  BY <1>2 DEF PendingOperation
<1>5. a \notin {"deployment-leased"}
  BY DEF OperationSteps
<1>6. \A j : /\ StateAfter(Trail(OperationSteps, j))' = StateAfter(Trail(OperationSteps, j))
             /\ Cardinality(Trail({"deployment-leased"}, j))'
                   = Cardinality(Trail({"deployment-leased"}, j))
  BY <1>1, <1>5, TrailGrows
<1> HIDE DEF i
<1>7. /\ StateAfter(Trail(OperationSteps, i)) = "pending"
      /\ Cardinality(Trail({"deployment-leased"}, i)) = 0
  BY <1>3, NoTrail DEF AuditInv
<1> QED
  BY <1>2, <1>3, <1>4, <1>6, <1>7 DEF AuditInv, OperationsAreLogged

\* An activation is the latest, and all revisions activated before are replaced.
LEMMA ActivateLogs ==
    ASSUME CPInv, AuditInv, NEW s \in Subjects, NEW g \in DOMAIN revisions, Activate(s, g)
    PROVE  AuditInv'
<1> DEFINE a == "revision-activated"
           N == Len(audit) + 1
<1>1. CPTypeOK /\ g \in Nat /\ g # 0 /\ 0 \notin DOMAIN revisions
  BY LenProperties DEF CPInv, CPTypeOK
<1>2. /\ revisions[g].state = "approved" /\ active.rev # g
      /\ active'.rev = g /\ active'.version = active.version + 1 /\ RetireReplaced(g)
      /\ CreateDeploymentOperation(s, g, "apply", 0)
      /\ AppendAudit("revision-activated", g, s)
  BY DEF Activate, SelectionOf
<1>3. a \in AuditAction /\ a \notin OperationSteps /\ a \notin RevisionSteps
  BY DEF AuditAction, OperationSteps, RevisionSteps
<1>4. Logs(a, g)
  BY <1>1, <1>2, <1>3, AppendAuditLogs
<1>5. /\ DOMAIN revisions' = DOMAIN revisions
      /\ \A h \in DOMAIN revisions :
            revisions'[h].state = IF h = active.rev THEN "retired" ELSE revisions[h].state
  <2>1. CASE active.rev = 0
    BY <1>1, <1>2, <2>1 DEF RetireReplaced
  <2>2. CASE active.rev # 0
    <3>1. SetRevision(active.rev, "retired") /\ active.rev \in DOMAIN revisions
      BY <1>2, <2>2 DEF RetireReplaced, CPInv, ActivePointsToApproved
    <3> QED
      BY <1>1, <3>1, SetRevisionWrites
  <2> QED
    BY <2>1, <2>2
<1>6. OperationsAreLogged' /\ DOMAIN operations \subseteq DOMAIN operations'
  BY <1>2, <1>3, <1>4, NewOperationLogs
<1>7. ObjectsAreStored'
  BY <1>1, <1>3, <1>4, <1>5, <1>6, ObjectsStay DEF AuditInv
<1>8. Activations' = Activations \union {N} /\ N \notin DOMAIN audit
  <2>1. N \notin DOMAIN audit
    BY <1>1, LenProperties DEF CPTypeOK
  <2> QED
    BY <1>4, <2>1 DEF Activations, Logs
<1>9. /\ Latest(Activations \union {N}) = N
      /\ Cardinality(Activations \union {N}) = Cardinality(Activations) + 1
      /\ Activations # {} => Latest(Activations) \in Activations
  <2>1. Activations \subseteq DOMAIN audit
    BY DEF Activations
  <2> QED
    BY <1>1, <1>4, <2>1, PlacesGrow
<1>10. Latest(Activations)' = N
  BY <1>8, <1>9 DEF Latest
<1>11. PointerIsLogged'
  <2>1. audit'[N].object = g
    BY <1>4 DEF Logs
  <2> QED
    BY <1>1, <1>2, <1>8, <1>9, <1>10, <2>1 DEF AuditInv, PointerIsLogged
<1>12. ASSUME NEW h \in DOMAIN revisions
       PROVE  Replaced(h)' <=> Replaced(h) \/ h = active.rev
  <2>1. \A k \in Activations : audit'[k] = audit[k] /\ k # N
    BY <1>4, <1>8 DEF Activations, Logs
  <2>2. Replaced(h)' <=> \E k \in Activations : audit[k].object = h
    BY <1>8, <1>10, <2>1 DEF Replaced
  <2>3. (\E k \in Activations : audit[k].object = h) <=> Replaced(h) \/ h = active.rev
    BY <1>1, <1>9 DEF Replaced, AuditInv, PointerIsLogged
  <2> QED
    BY <2>2, <2>3
<1>13. RevisionsAreLogged'
  <2>1. \A h : StateAfter(Trail(RevisionSteps, h))' = StateAfter(Trail(RevisionSteps, h))
    BY <1>1, <1>3, <1>4, TrailGrows
  <2> QED
    BY <1>5, <1>12, <2>1 DEF AuditInv, RevisionsAreLogged
<1> QED
  BY <1>6, <1>7, <1>11, <1>13 DEF AuditInv

\* A rollback or a retry appends to the outbox and to the chain only.
LEMMA IntentLogs ==
    ASSUME CPInv, AuditInv, NEW s \in Subjects, NEW g \in DOMAIN revisions,
           NEW kind \in {"apply", "rollback"}, NEW retryOf \in Nat,
           NEW a \in {"deployment-rollback-requested", "deployment-retry-requested"},
           CreateDeploymentOperation(s, g, kind, retryOf),
           AppendAudit(a, Len(operations) + 1, s),
           UNCHANGED << revisions, decisions, active >>
    PROVE  AuditInv'
<1>1. CPTypeOK /\ Len(operations) + 1 \in Nat
  BY LenProperties DEF CPInv, CPTypeOK
<1>2. /\ a \in AuditAction /\ a \notin OperationSteps
      /\ a \notin RevisionSteps \union {"revision-activated"}
  BY DEF AuditAction, OperationSteps, RevisionSteps
<1>3. Logs(a, Len(operations) + 1)
  BY <1>1, <1>2, AppendAuditLogs
<1>4. OperationsAreLogged' /\ DOMAIN operations \subseteq DOMAIN operations'
  BY <1>2, <1>3, NewOperationLogs
<1>5. ObjectsAreStored'
  BY <1>1, <1>2, <1>3, <1>4, ObjectsStay DEF AuditInv
<1>6. PointerIsLogged' /\ RevisionsAreLogged'
  BY <1>1, <1>2, <1>3, PointerStays, RevisionsStay DEF AuditInv
<1> QED
  BY <1>4, <1>5, <1>6 DEF AuditInv

\* A manual retry is such an intent.
LEMMA RequestRetryLogs ==
    ASSUME CPInv, AuditInv, NEW s \in Subjects, NEW i \in DOMAIN operations, RequestRetry(s, i)
    PROVE  AuditInv'
<1>1. i \in Nat /\ operations[i].rev \in DOMAIN revisions
  BY LenProperties DEF CPInv, CPTypeOK, SeparationOfDuties
<1> QED
  BY <1>1, IntentLogs DEF RequestRetry

\* The step of an operation that its event reports.
LEMMA OperationLogs ==
    ASSUME CPInv, AuditInv, NEW i \in DOMAIN operations, NEW new \in Operation,
           NEW a \in OperationSteps, Logs(a, i), EventState(a) = new.state,
           operations' = [operations EXCEPT ![i] = new],
           new.fence = IF a = "deployment-leased" THEN operations[i].fence + 1
                       ELSE operations[i].fence,
           UNCHANGED << revisions, active >>
    PROVE  AuditInv'
<1>1. CPTypeOK /\ a \notin RevisionSteps \union {"revision-activated"}
  BY DEF CPInv, OperationSteps, RevisionSteps
<1>2. /\ DOMAIN operations' = DOMAIN operations
      /\ \A j \in DOMAIN operations : operations'[j] = IF j = i THEN new ELSE operations[j]
  BY <1>1, OperationRowWrites
<1>3. ObjectsAreStored'
  BY <1>1, <1>2, ObjectsStay DEF AuditInv
<1>4. PointerIsLogged' /\ RevisionsAreLogged'
  BY <1>1, PointerStays, RevisionsStay DEF AuditInv
<1>5. OperationsAreLogged'
  <2>1. \A j : j # i =>
           /\ StateAfter(Trail(OperationSteps, j))' = StateAfter(Trail(OperationSteps, j))
           /\ Cardinality(Trail({"deployment-leased"}, j))'
                 = Cardinality(Trail({"deployment-leased"}, j))
    BY <1>1, TrailGrows
  <2>2. StateAfter(Trail(OperationSteps, i))' = EventState(a)
    BY <1>1, TrailGrows
  <2>3. Cardinality(Trail({"deployment-leased"}, i))' =
           IF a = "deployment-leased" THEN Cardinality(Trail({"deployment-leased"}, i)) + 1
           ELSE Cardinality(Trail({"deployment-leased"}, i))
    BY <1>1, TrailGrows
  <2> QED
    BY <1>2, <2>1, <2>2, <2>3 DEF AuditInv, OperationsAreLogged
<1> QED
  BY <1>3, <1>4, <1>5 DEF AuditInv

\* A lease is reported, and counted by the fence.
LEMMA LeaseNextLogs ==
    ASSUME CPInv, AuditInv, NEW w \in Workers, NEW i \in DOMAIN operations, NEW d \in Drift,
           LeaseNext(w, i, d)
    PROVE  AuditInv'
<1> DEFINE a == "deployment-leased"
           new == Leased(operations[i], w, d)
<1>1. CPTypeOK /\ operations[i] \in Operation /\ i \in Nat
  BY LenProperties, ElementOfSeq DEF CPInv, CPTypeOK
<1>2. new \in Operation /\ new.state = "leased"
  BY <1>1, LeasedRow
<1>3. new.fence = operations[i].fence + 1
  BY <1>1 DEF Leased, Operation
<1>4. a \in AuditAction /\ a \in OperationSteps /\ EventState(a) = "leased"
  BY DEF AuditAction, OperationSteps, EventState
<1>5. Logs(a, i)
  BY <1>1, <1>4, AppendAuditLogs DEF LeaseNext
<1>6. operations' = [operations EXCEPT ![i] = new] /\ UNCHANGED << revisions, active >>
  BY DEF LeaseNext
<1> HIDE DEF new
<1> QED
  BY <1>2, <1>3, <1>4, <1>5, <1>6, OperationLogs

\* An acknowledgement is reported.
LEMMA AcknowledgeAppliedLogs ==
    ASSUME CPInv, AuditInv, NEW w \in Workers, NEW i \in DOMAIN operations, NEW f \in Nat,
           NEW c \in Configs, NEW n \in Nat, NEW d \in Drift,
           AcknowledgeApplied(w, i, f, c, n, d)
    PROVE  AuditInv'
<1> DEFINE a == "deployment-applied"
           new == Applied(operations[i], c, n)
<1>1. CPTypeOK /\ operations[i] \in Operation /\ i \in Nat
  BY LenProperties, ElementOfSeq DEF CPInv, CPTypeOK
<1>2. new \in Operation /\ new.state = "applied"
  BY <1>1, AppliedRow
<1>3. new.fence = operations[i].fence
  BY <1>1 DEF Applied, Operation
<1>4. a \in AuditAction /\ a \in OperationSteps /\ EventState(a) = "applied"
  BY DEF AuditAction, OperationSteps, EventState
<1>5. Logs(a, i)
  BY <1>1, <1>4, AppendAuditLogs DEF AcknowledgeApplied
<1>6. operations' = [operations EXCEPT ![i] = new] /\ UNCHANGED << revisions, active >>
  BY DEF AcknowledgeApplied
<1> HIDE DEF new
<1> QED
  BY <1>2, <1>3, <1>4, <1>5, <1>6, OperationLogs

\* A failure is reported.
LEMMA FailOperationLogs ==
    ASSUME CPInv, AuditInv, NEW w \in Workers, NEW i \in DOMAIN operations, NEW f \in Nat,
           NEW delay \in 0 .. MaxRetryDelay, NEW d \in Drift,
           FailOperation(w, i, f, delay, d)
    PROVE  AuditInv'
<1> DEFINE a == "deployment-failed"
           new == Failed(operations[i], delay, d)
<1>1. CPTypeOK /\ operations[i] \in Operation /\ i \in Nat
  BY LenProperties, ElementOfSeq DEF CPInv, CPTypeOK
<1>2. new \in Operation /\ new.state = "failed"
  BY <1>1, FailedRow
<1>3. new.fence = operations[i].fence
  BY <1>1 DEF Failed, Operation
<1>4. a \in AuditAction /\ a \in OperationSteps /\ EventState(a) = "failed"
  BY DEF AuditAction, OperationSteps, EventState
<1>5. Logs(a, i)
  BY <1>1, <1>4, AppendAuditLogs DEF FailOperation
<1>6. operations' = [operations EXCEPT ![i] = new] /\ UNCHANGED << revisions, active >>
  BY DEF FailOperation
<1> HIDE DEF new
<1> QED
  BY <1>2, <1>3, <1>4, <1>5, <1>6, OperationLogs

\* What is not written to the chain does not change what it says.
LEMMA UnloggedStep ==
    ASSUME AuditInv, UNCHANGED << revisions, active, audit >>,
           DOMAIN operations' = DOMAIN operations,
           \A i \in DOMAIN operations : /\ operations'[i].state = operations[i].state
                                        /\ operations'[i].fence = operations[i].fence
    PROVE  AuditInv'
<1>1. Activations' = Activations
  BY DEF Activations
<1>2. \A A, n : Trail(A, n)' = Trail(A, n)
  BY DEF Trail
<1>3. \A g : Replaced(g)' <=> Replaced(g)
  BY <1>1 DEF Replaced
<1>4. ObjectsAreStored' /\ PointerIsLogged'
  BY <1>1 DEF AuditInv, ObjectsAreStored, PointerIsLogged
<1>5. RevisionsAreLogged' /\ OperationsAreLogged'
  BY <1>2, <1>3 DEF AuditInv, RevisionsAreLogged, OperationsAreLogged, StateAfter
<1> QED
  BY <1>4, <1>5 DEF AuditInv

\* The clock changes neither state nor fence.
LEMMA TickLogs ==
    ASSUME CPInv, AuditInv, Tick
    PROVE  AuditInv'
<1>1. \A i \in DOMAIN operations : operations[i] \in Operation
  BY LenProperties, ElementOfSeq DEF CPInv, CPTypeOK
<1>2. operations' = [i \in DOMAIN operations |-> Elapse(operations[i])]
  BY DEF Tick
<1>3. ASSUME NEW i \in DOMAIN operations
      PROVE  /\ operations'[i].state = operations[i].state
             /\ operations'[i].fence = operations[i].fence
  BY <1>1, <1>2 DEF Elapse, Operation
<1> QED
  BY <1>2, <1>3, UnloggedStep DEF Tick

\* Every step of the change desk and of the outbox preserves the invariant.
LEMMA CPNextLogs == CPInv /\ AuditInv /\ [CPNext]_cpVars => AuditInv'
<1> SUFFICES ASSUME CPInv, AuditInv, [CPNext]_cpVars PROVE AuditInv'
  OBVIOUS
<1>1. CASE DeskNext
  <2>1. \A s \in Subjects, g \in DOMAIN revisions : RequestRollback(s, g) => AuditInv'
    BY IntentLogs DEF RequestRollback
  <2> QED
    BY <1>1, <2>1, CreateDraftLogs, SubmitLogs, DecideLogs, ActivateLogs,
       RequestRetryLogs DEF DeskNext
<1>2. CASE OutboxNext
  <2>1. PICK w \in Workers, i \in DOMAIN operations, d \in Drift :
            \/ LeaseNext(w, i, d)
            \/ \E c \in Configs, n \in Receipts :
                   AcknowledgeApplied(w, i, operations[i].fence, c, n, d)
            \/ \E delay \in 0 .. MaxRetryDelay :
                   FailOperation(w, i, operations[i].fence, delay, d)
    BY <1>2 DEF OutboxNext
  <2>2. operations[i].fence \in Nat
    <3>1. operations[i] \in Operation
      BY LenProperties, ElementOfSeq DEF CPInv, CPTypeOK
    <3> QED
      BY <3>1 DEF Operation
  <2>3. Receipts \subseteq Nat
    OBVIOUS
  <2> QED
    BY <2>1, <2>2, <2>3, LeaseNextLogs, AcknowledgeAppliedLogs, FailOperationLogs
<1>3. CASE Tick
  BY <1>3, TickLogs
<1>4. CASE UNCHANGED cpVars
  BY <1>4, UnloggedStep DEF cpVars
<1> QED
  BY <1>1, <1>2, <1>3, <1>4 DEF CPNext

\* The audit chain alone reconstructs the tables: no transaction of the store
\* (_append_audit, postgres_store.py) is lost in it, reported twice or reported about
\* another row, in whatever order people and workers act, for any number of either.
THEOREM ChainReconstructsTables == CPSpec => []AuditReconstructs
<1>1. CPInit => AuditInv
  <2> SUFFICES ASSUME CPInit PROVE AuditInv
    OBVIOUS
  <2>1. DOMAIN audit = {} /\ DOMAIN revisions = {} /\ DOMAIN operations = {}
    BY DEF CPInit
  <2>2. Activations = {} /\ active.version = 0 /\ active.rev = 0
    BY <2>1 DEF CPInit, NoSelection, Activations
  <2> QED
    BY <2>1, <2>2, FS_EmptySet DEF AuditInv, ObjectsAreStored, PointerIsLogged,
       RevisionsAreLogged, OperationsAreLogged
<1>2. CPInv /\ AuditInv /\ [CPNext]_cpVars => AuditInv'
  BY CPNextLogs
<1>3. AuditInv => AuditReconstructs
  BY DEF AuditInv, PointerIsLogged, RevisionsAreLogged, OperationsAreLogged, AuditReconstructs
<1> QED
  BY <1>1, <1>2, <1>3, ControlPlaneInvariant, PTL DEF CPSpec

----------------------------------------------------------------------------
(* The desk, the workers and the target together *)

USE ReconciliationConstants

TP == INSTANCE RuntimeDeploymentsProofs

----------------------------------------------------------------------------
(* The inductive invariant *)

\* x, a job, a request or a row of the history, was made under a lease of an
\* operation of the outbox and says of it what the outbox says.
IsOf(x, ops) ==
    /\ x.op \in DOMAIN ops
    /\ x.rev = ops[x.op].rev
    /\ x.config = ops[x.op].config
    /\ x.fence \in 1 .. ops[x.op].fence

Busy == {"leased", "calling", "applied", "retryable", "refused"}

Job == [op : Nat, rev : Nat, config : Configs \union {NoConfig}, fence : Nat, receipt : Nat]

WithinBounds ==
    /\ Len(revisions) <= MaxRevisions
    /\ Len(operations) <= MaxOperations
    /\ \A i \in DOMAIN operations : operations[i].fence <= MaxFence

WorkerTypes ==
    /\ pc \in [Workers -> PC]
    /\ job \in [Workers -> Job]
    /\ orphans \subseteq TP!Request

JobsAreOperations == \A w \in Workers : pc[w] \in Busy => IsOf(job[w], operations)

OrphansAreOperations == \A req \in orphans : IsOf(req, operations)

\* A row's receipt is at most its operation's sequence number, so the target
\* has no more rows than the desk has operations.
RowsAreOperations ==
    \A k \in DOMAIN history : IsOf(history[k], operations) /\ k <= history[k].op

DRInv ==
    /\ CPInv
    /\ TP!RDInv
    /\ WithinBounds
    /\ WorkerTypes
    /\ JobsAreOperations
    /\ OrphansAreOperations
    /\ RowsAreOperations
    /\ ReceiptsAgree
    /\ AppliedWasDeployed

\* The two tables as sequences of well-formed rows.
LEMMA Tables ==
    ASSUME DRInv
    PROVE  /\ operations \in Seq(Operation) /\ revisions \in Seq(Revision)
           /\ Len(operations) \in Nat /\ Len(revisions) \in Nat /\ Len(history) \in Nat
           /\ DOMAIN operations = 1 .. Len(operations)
           /\ DOMAIN revisions = 1 .. Len(revisions)
           /\ DOMAIN history = 1 .. Len(history)
           /\ \A i \in DOMAIN operations : operations[i] \in Operation
           /\ \A k \in DOMAIN history : history[k] \in TP!Deployment
           /\ current = Len(history)
BY LenProperties, ElementOfSeq
   DEF DRInv, CPInv, CPTypeOK, TP!RDInv, TP!RDTypeOK, TP!ReceiptChain

----------------------------------------------------------------------------
(* What the desk does to the operations that workers, requests and rows name *)

\* No step of the desk rewrites what an operation asks for or lowers its fence.
Persists(ops, new) ==
    /\ DOMAIN ops \subseteq DOMAIN new
    /\ \A i \in DOMAIN ops :
           /\ new[i].rev = ops[i].rev
           /\ new[i].config = ops[i].config
           /\ ops[i].fence \in Nat /\ new[i].fence \in Nat
           /\ ops[i].fence <= new[i].fence

NothingIsApplied ==
    \A i \in DOMAIN operations' :
        operations'[i].state = "applied" =>
            /\ i \in DOMAIN operations
            /\ operations[i].state = "applied"
            /\ operations'[i].receipt = operations[i].receipt

LEMMA OfPersists ==
    ASSUME NEW x, NEW ops, NEW new, IsOf(x, ops), Persists(ops, new)
    PROVE  IsOf(x, new)
BY DEF IsOf, Persists

LEMMA SameOperations ==
    ASSUME DRInv, operations' = operations
    PROVE  Persists(operations, operations') /\ NothingIsApplied
<1>1. \A i \in DOMAIN operations : operations[i].fence \in Nat
  BY Tables DEF Operation
<1> QED  BY <1>1 DEF Persists, NothingIsApplied

LEMMA NewOperation ==
    ASSUME DRInv, NEW s \in Subjects, NEW g \in DOMAIN revisions,
           NEW kind \in {"apply", "rollback"}, NEW retryOf \in Nat,
           CreateDeploymentOperation(s, g, kind, retryOf)
    PROVE  /\ Persists(operations, operations') /\ NothingIsApplied
           /\ Len(operations') <= MaxOperations
           /\ \A i \in DOMAIN operations' : operations'[i].fence <= MaxFence
<1>1. /\ operations' \in Seq(Operation)
      /\ Len(operations') = Len(operations) + 1
      /\ \A i \in DOMAIN operations : operations'[i] = operations[i]
      /\ operations'[Len(operations')] = PendingOperation(s, g, kind, retryOf)
  BY CreateDeploymentOperationWrites, LatestAppliedIsLatest DEF DRInv, CPInv
<1>2. /\ operations'[Len(operations')].state = "pending"
      /\ operations'[Len(operations')].fence = 0
  BY <1>1 DEF PendingOperation
<1>3. DOMAIN operations' = 1 .. Len(operations') /\ Len(operations) < MaxOperations
  BY <1>1, LenProperties DEF CreateDeploymentOperation
<1>4. DOMAIN operations' = DOMAIN operations \union {Len(operations')}
  BY <1>1, <1>3, Tables
<1>5. \A i \in DOMAIN operations : operations[i].fence \in Nat /\ operations[i].fence <= MaxFence
  BY Tables DEF Operation, DRInv, WithinBounds
<1>6. Persists(operations, operations')
  BY <1>1, <1>4, <1>5 DEF Persists
<1>7. NothingIsApplied
  BY <1>1, <1>2, <1>4 DEF NothingIsApplied
<1>8. \A i \in DOMAIN operations' : operations'[i].fence <= MaxFence
  BY <1>1, <1>2, <1>4, <1>5
<1>9. Len(operations') <= MaxOperations
  BY <1>1, <1>3, Tables
<1> QED  BY <1>6, <1>7, <1>8, <1>9

LEMMA DeskPersists ==
    ASSUME DRInv, DeskNext
    PROVE  Persists(operations, operations') /\ NothingIsApplied /\ WithinBounds'
<1> USE DEF DRInv
<1>1. CPInv /\ CPTypeOK /\ WithinBounds
  BY DEF CPInv
<1>2. ASSUME NEW s \in Subjects, NEW c \in Configs, CreateDraft(s, c)
      PROVE  Persists(operations, operations') /\ NothingIsApplied /\ WithinBounds'
  <2> DEFINE new == [config |-> c, maker |-> s, state |-> "draft", version |-> 0]
  <2>1. /\ Len(revisions) < MaxRevisions /\ revisions' = Append(revisions, new)
        /\ UNCHANGED operations
    BY <1>2 DEF CreateDraft
  <2>2. new \in Revision
    BY DEF Revision
  <2> HIDE DEF new
  <2>3. Len(revisions') = Len(revisions) + 1
    BY <2>1, <2>2, Tables, AppendProperties
  <2>4. Len(revisions') <= MaxRevisions
    BY <2>1, <2>3, Tables
  <2> QED  BY <1>1, <2>1, <2>4, SameOperations DEF WithinBounds
<1>3. ASSUME NEW g \in DOMAIN revisions, NEW st \in {"submitted", "approved", "rejected"},
             SetRevision(g, st), UNCHANGED operations
      PROVE  Persists(operations, operations') /\ NothingIsApplied /\ WithinBounds'
  <2>1. Len(revisions') = Len(revisions)
    BY <1>1, <1>3, SetRevisionWrites
  <2> QED  BY <1>1, <1>3, <2>1, SameOperations DEF WithinBounds
<1>4. ASSUME NEW s \in Subjects, NEW g \in DOMAIN revisions, Activate(s, g)
      PROVE  Persists(operations, operations') /\ NothingIsApplied /\ WithinBounds'
  <2>1. CreateDeploymentOperation(s, g, "apply", 0) /\ RetireReplaced(g)
    BY <1>4 DEF Activate
  <2>2. Len(revisions') = Len(revisions)
    BY <1>1, <2>1, SetRevisionWrites DEF RetireReplaced, CPInv, ActivePointsToApproved
  <2> QED  BY <1>1, <2>1, <2>2, NewOperation DEF WithinBounds
<1>5. ASSUME NEW s \in Subjects, NEW g \in DOMAIN revisions, RequestRollback(s, g)
      PROVE  Persists(operations, operations') /\ NothingIsApplied /\ WithinBounds'
  <2>1. CreateDeploymentOperation(s, g, "rollback", 0) /\ UNCHANGED revisions
    BY <1>5 DEF RequestRollback
  <2> QED  BY <1>1, <2>1, NewOperation DEF WithinBounds
<1>6. ASSUME NEW s \in Subjects, NEW i \in DOMAIN operations, RequestRetry(s, i)
      PROVE  Persists(operations, operations') /\ NothingIsApplied /\ WithinBounds'
  <2>1. CreateDeploymentOperation(s, operations[i].rev, "apply", i) /\ UNCHANGED revisions
    BY <1>6 DEF RequestRetry
  <2>2. operations[i].rev \in DOMAIN revisions /\ i \in Nat
    BY <1>1, Tables DEF CPInv, SeparationOfDuties
  <2> QED  BY <1>1, <2>1, <2>2, NewOperation DEF WithinBounds
<1>7. ASSUME NEW s \in Subjects, NEW g \in DOMAIN revisions, Submit(s, g)
      PROVE  SetRevision(g, "submitted") /\ UNCHANGED operations
  BY <1>7 DEF Submit
<1>8. ASSUME NEW s \in Subjects, NEW g \in DOMAIN revisions,
             NEW v \in {"approved", "rejected"}, Decide(s, g, v)
      PROVE  SetRevision(g, v) /\ UNCHANGED operations
  BY <1>8 DEF Decide
<1> QED  BY <1>2, <1>3, <1>4, <1>5, <1>6, <1>7, <1>8 DEF DeskNext

\* A lease or its closing rewrites one row and keeps its intent.
LEMMA RowPersists ==
    ASSUME DRInv, NEW i \in DOMAIN operations, NEW new \in Operation,
           SameIntent(operations[i], new), operations[i].fence <= new.fence,
           new.fence <= MaxFence, operations' = [operations EXCEPT ![i] = new],
           UNCHANGED revisions
    PROVE  /\ Persists(operations, operations') /\ WithinBounds'
           /\ DOMAIN operations' = DOMAIN operations /\ operations'[i] = new
           /\ \A j \in DOMAIN operations : j # i => operations'[j] = operations[j]
<1>1. /\ Len(operations') = Len(operations) /\ DOMAIN operations' = DOMAIN operations
      /\ \A j \in DOMAIN operations : operations'[j] = IF j = i THEN new ELSE operations[j]
  BY OperationRowWrites DEF DRInv, CPInv
<1>2. \A j \in DOMAIN operations : operations[j].fence \in Nat /\ new.fence \in Nat
  BY Tables DEF Operation
<1>a. ASSUME NEW j \in DOMAIN operations
      PROVE  /\ operations'[j].rev = operations[j].rev
             /\ operations'[j].config = operations[j].config
             /\ operations[j].fence \in Nat /\ operations'[j].fence \in Nat
             /\ operations[j].fence <= operations'[j].fence
  <2>1. CASE j = i
    BY <1>1, <1>2, <2>1 DEF SameIntent
  <2>2. CASE j # i
    <3>1. operations'[j] = operations[j] /\ operations[j].fence \in Nat
      BY <1>1, <1>2, <2>2
    <3> QED  BY <3>1
  <2> QED  BY <2>1, <2>2
<1>3. Persists(operations, operations')
  BY <1>1, <1>a DEF Persists
<1>4. \A j \in DOMAIN operations : operations[j].fence <= MaxFence
  BY DEF DRInv, WithinBounds
<1>5. \A j \in DOMAIN operations' : operations'[j].fence <= MaxFence
  BY <1>1, <1>4
<1>6. WithinBounds'
  BY <1>1, <1>5 DEF DRInv, WithinBounds
<1> QED  BY <1>1, <1>3, <1>6

LEMMA LeasePersists ==
    ASSUME DRInv, NEW w \in Workers, NEW i \in DOMAIN operations, NEW d \in Drift,
           LeaseNext(w, i, d)
    PROVE  /\ CPNext /\ Persists(operations, operations') /\ NothingIsApplied /\ WithinBounds'
           /\ i \in DOMAIN operations'
           /\ operations'[i].rev = operations[i].rev
           /\ operations'[i].config = operations[i].config
           /\ operations'[i].fence = operations[i].fence + 1
<1> DEFINE new == Leased(operations[i], w, d)
<1>1. operations[i] \in Operation /\ operations[i].fence \in Nat
  BY Tables DEF Operation
<1>2. new \in Operation /\ SameIntent(operations[i], new) /\ new.state = "leased"
  BY <1>1, LeasedRow
<1>3. new.fence = operations[i].fence + 1
  BY <1>1 DEF Leased, Operation
<1>4. /\ operations[i].fence < MaxFence /\ operations' = [operations EXCEPT ![i] = new]
      /\ UNCHANGED revisions
  BY DEF LeaseNext
<1> HIDE DEF new
<1>5. new.fence <= MaxFence /\ operations[i].fence <= new.fence
  BY <1>1, <1>3, <1>4
<1>6. /\ Persists(operations, operations') /\ WithinBounds'
      /\ DOMAIN operations' = DOMAIN operations /\ operations'[i] = new
      /\ \A j \in DOMAIN operations : j # i => operations'[j] = operations[j]
  BY <1>2, <1>4, <1>5, RowPersists
<1>7. NothingIsApplied
  BY <1>2, <1>6 DEF NothingIsApplied
<1>8. CPNext
  BY DEF CPNext, OutboxNext
<1> QED  BY <1>2, <1>3, <1>6, <1>7, <1>8 DEF SameIntent

LEMMA AcknowledgePersists ==
    ASSUME DRInv, NEW w \in Workers, NEW i \in DOMAIN operations, NEW f,
           NEW c \in Configs, NEW n \in Receipts, NEW d \in Drift,
           AcknowledgeApplied(w, i, f, c, n, d)
    PROVE  /\ CPNext /\ Persists(operations, operations') /\ WithinBounds'
           /\ DOMAIN operations' = DOMAIN operations /\ operations'[i].receipt = n
           /\ \A j \in DOMAIN operations : j # i => operations'[j] = operations[j]
<1> DEFINE new == Applied(operations[i], c, n)
<1>1. operations[i] \in Operation /\ operations[i].fence \in Nat /\ n \in Nat
  BY Tables DEF Operation
<1>2. new \in Operation /\ SameIntent(operations[i], new)
  BY <1>1, AppliedRow
<1>3. new.fence = operations[i].fence /\ new.receipt = n
  BY <1>1 DEF Applied, Operation
<1>4. operations' = [operations EXCEPT ![i] = new] /\ UNCHANGED revisions
  BY DEF AcknowledgeApplied
<1> HIDE DEF new
<1>5. new.fence <= MaxFence /\ operations[i].fence <= new.fence
  BY <1>1, <1>3 DEF DRInv, WithinBounds
<1>6. /\ Persists(operations, operations') /\ WithinBounds'
      /\ DOMAIN operations' = DOMAIN operations /\ operations'[i] = new
      /\ \A j \in DOMAIN operations : j # i => operations'[j] = operations[j]
  BY <1>2, <1>4, <1>5, RowPersists
<1>7. f = operations[i].fence
  BY DEF AcknowledgeApplied, HoldsLease
<1>8. CPNext
  BY <1>7 DEF CPNext, OutboxNext
<1> QED  BY <1>3, <1>6, <1>8

LEMMA FailPersists ==
    ASSUME DRInv, NEW w \in Workers, NEW i \in DOMAIN operations, NEW f,
           NEW delay \in 0 .. MaxRetryDelay, NEW d \in Drift,
           FailOperation(w, i, f, delay, d)
    PROVE  CPNext /\ Persists(operations, operations') /\ NothingIsApplied /\ WithinBounds'
<1> DEFINE new == Failed(operations[i], delay, d)
<1>1. operations[i] \in Operation /\ operations[i].fence \in Nat
  BY Tables DEF Operation
<1>2. new \in Operation /\ SameIntent(operations[i], new) /\ new.state = "failed"
  BY <1>1, FailedRow
<1>3. new.fence = operations[i].fence
  BY <1>1 DEF Failed, Operation
<1>4. operations' = [operations EXCEPT ![i] = new] /\ UNCHANGED revisions
  BY DEF FailOperation
<1> HIDE DEF new
<1>5. new.fence <= MaxFence /\ operations[i].fence <= new.fence
  BY <1>1, <1>3 DEF DRInv, WithinBounds
<1>6. /\ Persists(operations, operations') /\ WithinBounds'
      /\ DOMAIN operations' = DOMAIN operations /\ operations'[i] = new
      /\ \A j \in DOMAIN operations : j # i => operations'[j] = operations[j]
  BY <1>2, <1>4, <1>5, RowPersists
<1>7. NothingIsApplied
  BY <1>2, <1>6 DEF NothingIsApplied
<1>8. f = operations[i].fence
  BY DEF FailOperation, HoldsLease
<1>9. CPNext
  BY <1>8 DEF CPNext, OutboxNext
<1> QED  BY <1>6, <1>7, <1>9

LEMMA TickPersists ==
    ASSUME DRInv, Tick
    PROVE  CPNext /\ Persists(operations, operations') /\ NothingIsApplied /\ WithinBounds'
<1>1. /\ operations' = [i \in DOMAIN operations |-> Elapse(operations[i])]
      /\ UNCHANGED revisions
  BY DEF Tick
<1>2. \A i \in DOMAIN operations :
          /\ SameIntent(operations[i], Elapse(operations[i]))
          /\ Elapse(operations[i]).state = operations[i].state
  BY Tables, ElapseRow
<1>3. \A i \in DOMAIN operations :
          /\ Elapse(operations[i]).fence = operations[i].fence
          /\ Elapse(operations[i]).receipt = operations[i].receipt
  BY Tables DEF Elapse, Operation
<1>4. \A i \in DOMAIN operations : operations[i].fence \in Nat
  BY Tables DEF Operation
<1>5. DOMAIN operations' = DOMAIN operations
  BY <1>1
<1>6. Persists(operations, operations') /\ NothingIsApplied
  BY <1>1, <1>2, <1>3, <1>4, <1>5 DEF Persists, NothingIsApplied, SameIntent
<1>7. Len(operations') = Len(operations)
  BY <1>1, Tables
<1>8. \A i \in DOMAIN operations' : operations'[i].fence <= MaxFence
  BY <1>1, <1>3, <1>5 DEF DRInv, WithinBounds
<1> QED  BY <1>1, <1>6, <1>7, <1>8 DEF CPNext, DRInv, WithinBounds

----------------------------------------------------------------------------
(* What a step of the composition may do to the tie between the databases *)

SameCall(a, b) == a.op = b.op /\ a.rev = b.rev /\ a.config = b.config /\ a.fence = b.fence

\* A worker goes on with the operation it has leased, or leases one.
JobsMove ==
    \A w \in Workers :
        pc'[w] \in Busy => \/ pc[w] \in Busy /\ SameCall(job'[w], job[w])
                           \/ IsOf(job'[w], operations')

\* A worker is told "applied" with the receipt of its operation's row.
AnswersMove ==
    \A w \in Workers :
        pc'[w] = "applied" =>
            \/ pc[w] = "applied" /\ job'[w] = job[w]
            \/ job'[w].receipt \in DOMAIN history' /\ history'[job'[w].receipt].op = job'[w].op

OrphansMove == \A req \in orphans' : req \in orphans \/ IsOf(req, operations)

RowsMove ==
    /\ \A k \in DOMAIN history : k \in DOMAIN history' /\ history'[k] = history[k]
    /\ \A k \in DOMAIN history' \ DOMAIN history :
           IsOf(history'[k], operations) /\ k <= history'[k].op

\* An operation becomes applied with the receipt of its own row.
AppliedMoves ==
    \A i \in DOMAIN operations' :
        operations'[i].state = "applied" =>
            \/ /\ i \in DOMAIN operations /\ operations[i].state = "applied"
               /\ operations'[i].receipt = operations[i].receipt
            \/ /\ operations'[i].receipt \in DOMAIN history'
               /\ history'[operations'[i].receipt].op = i

LEMMA StepKeeps ==
    ASSUME DRInv, CPInv', TP!RDInv', WithinBounds', WorkerTypes',
           Persists(operations, operations'), JobsMove, AnswersMove, OrphansMove, RowsMove,
           AppliedMoves
    PROVE  DRInv'
<1>1. JobsAreOperations'
  <2> SUFFICES ASSUME NEW w \in Workers, pc'[w] \in Busy
               PROVE  IsOf(job'[w], operations')
    BY DEF JobsAreOperations, Busy
  <2>1. CASE pc[w] \in Busy /\ SameCall(job'[w], job[w])
    <3>1. IsOf(job'[w], operations)
      BY <2>1 DEF DRInv, JobsAreOperations, IsOf, SameCall
    <3> QED  BY <3>1, OfPersists
  <2> QED  BY <2>1 DEF JobsMove
<1>2. OrphansAreOperations'
  BY OfPersists DEF DRInv, OrphansAreOperations, OrphansMove
<1>3. RowsAreOperations'
  <2> SUFFICES ASSUME NEW k \in DOMAIN history'
               PROVE  IsOf(history'[k], operations') /\ k <= history'[k].op
    BY DEF RowsAreOperations
  <2>1. IsOf(history'[k], operations) /\ k <= history'[k].op
    BY DEF DRInv, RowsAreOperations, RowsMove
  <2> QED  BY <2>1, OfPersists
<1>4. ReceiptsAgree'
  BY DEF DRInv, ReceiptsAgree, AnswersMove, RowsMove
<1>5. AppliedWasDeployed'
  <2> SUFFICES ASSUME NEW i \in DOMAIN operations', operations'[i].state = "applied"
               PROVE  /\ operations'[i].receipt \in DOMAIN history'
                      /\ history'[operations'[i].receipt].op = i
                      /\ history'[operations'[i].receipt].rev = operations'[i].rev
                      /\ history'[operations'[i].receipt].config = operations'[i].config
    BY DEF AppliedWasDeployed
  <2>1. /\ operations'[i].receipt \in DOMAIN history'
        /\ history'[operations'[i].receipt].op = i
    BY DEF DRInv, AppliedWasDeployed, AppliedMoves, RowsMove
  <2> QED  BY <1>3, <2>1 DEF RowsAreOperations, IsOf
<1> QED  BY <1>1, <1>2, <1>3, <1>4, <1>5 DEF DRInv

----------------------------------------------------------------------------
(* The target *)

TargetStays == UNCHANGED <<profiles, history, highest, current>>

LEMMA TargetUnchanged ==
    ASSUME DRInv, TargetStays
    PROVE  TP!RDInv' /\ RowsMove
<1>1. TP!RDInv
  BY DEF DRInv
<1>2. TP!RDInv'
  BY <1>1 DEF TargetStays, TP!RDInv, TP!RDTypeOK, TP!HistoryStrictlyOrdered, TP!ReceiptChain,
              TP!DeployedUnderProfile
<1> QED  BY <1>2 DEF TargetStays, RowsMove

\* The target of the composition is the one whose proofs are cited.
LEMMA TargetIsTheTarget ==
    ASSUME NEW req, RT!EnsureApplied(req, 0)
    PROVE  TP!EnsureApplied(req, 0)
BY DEF RT!EnsureApplied, RT!Accepts, RT!Verdict, RT!VerdictOnRow, RT!VerdictOnNew, RT!RowOf,
       RT!InsertDeployment, RT!RaiseFence, RT!NewDeployment, RT!AppliedAt,
       TP!EnsureApplied, TP!Accepts, TP!Verdict, TP!VerdictOnRow, TP!VerdictOnNew, TP!RowOf,
       TP!InsertDeployment, TP!RaiseFence, TP!NewDeployment, TP!AppliedAt

\* A request whose operation the outbox knows is one the target is specified for.
LEMMA RequestIsAdmitted ==
    ASSUME DRInv, NEW req, req \in TP!Request \/ req \in Job, IsOf(req, operations)
    PROVE  /\ req.op \in 1 .. MaxOp /\ req.rev \in 1 .. MaxOp /\ req.config \in Configs
           /\ req.fence \in 1 .. MaxReqFence /\ req.op <= MaxOperations
<1>1. /\ operations[req.op] \in Operation /\ req.op \in DOMAIN operations
      /\ req.rev = operations[req.op].rev /\ req.config = operations[req.op].config
      /\ req.fence \in 1 .. operations[req.op].fence
  BY Tables DEF IsOf
<1>2. operations[req.op].rev \in DOMAIN revisions
  BY <1>1 DEF DRInv, CPInv, SeparationOfDuties
<1>3. operations[req.op].config \in Configs /\ operations[req.op].fence \in Nat
  BY <1>1 DEF Operation
<1>4. operations[req.op].fence <= MaxFence
  BY <1>1 DEF DRInv, WithinBounds
<1>5. req.op \in 1 .. MaxOperations /\ req.rev \in 1 .. MaxRevisions
  BY <1>1, <1>2, Tables DEF DRInv, WithinBounds
<1> QED  BY <1>1, <1>3, <1>4, <1>5

\* What a call of ensure_applied does for an operation of the outbox: it keeps
\* the history one chain of rows of operations, and what it answers is the row
\* of the operation it was asked for.
LEMMA CallKeeps ==
    ASSUME DRInv, NEW req \in TP!Request, IsOf(req, operations), RT!EnsureApplied(req, 0)
    PROVE  /\ TP!RDInv' /\ RowsMove
           /\ RT!Accepts(req) => /\ RT!ReceiptFor(req) \in DOMAIN history'
                                 /\ history'[RT!ReceiptFor(req)].op = req.op
<1> DEFINE n == Len(history)
<1>1. TP!RDInv /\ TP!EnsureApplied(req, 0) /\ TP!RDTypeOK
  BY TargetIsTheTarget DEF DRInv, TP!RDInv
<1>2. TP!RDInv'
  BY <1>1, TP!EnsureAppliedPreserves
<1>3. \A k \in DOMAIN history : k \in DOMAIN history' /\ history'[k] = history[k]
  BY <1>1, TP!EnsureAppliedAppends DEF TP!AppendOnlyStep
<1>4. n \in Nat /\ DOMAIN history = 1 .. n /\ current = n
  BY Tables
<1>5. CASE TP!Verdict(req) = "inserted" /\ TP!InsertDeployment(req, 0)
  <2>1. /\ history' \in Seq(TP!Deployment) /\ Len(history') = n + 1
        /\ history'[n + 1] = TP!NewDeployment(req, 0)
    BY <1>1, <1>5, TP!InsertWrites
  <2>2. DOMAIN history' = (1 .. n) \union {n + 1}
    BY <1>4, <2>1, LenProperties
  <2>3. SameCall(history'[n + 1], req)
    BY <2>1 DEF TP!NewDeployment, SameCall
  <2>4. n + 1 <= req.op
    <3>1. CASE n = 0
      BY <3>1 DEF TP!Request
    <3>2. CASE n # 0
      <4>1. ~(req.op <= history[n].op)
        BY <1>4, <1>5, <3>2, TP!InsertedIsNewer
      <4>2. n \in DOMAIN history
        BY <1>4, <3>2
      <4>3. n <= history[n].op /\ history[n].op \in Nat /\ req.op \in Nat
        BY <4>2, Tables DEF DRInv, RowsAreOperations, TP!Deployment, TP!Request
      <4> QED  BY <1>4, <4>1, <4>3
    <3> QED  BY <3>1, <3>2
  <2>5. RowsMove
    <3>1. IsOf(history'[n + 1], operations) /\ n + 1 <= history'[n + 1].op
      BY <2>3, <2>4 DEF SameCall, IsOf
    <3> QED  BY <1>3, <1>4, <2>2, <3>1 DEF RowsMove
  <2>6. \/ RT!ReceiptFor(req) = n + 1
        \/ RT!RowOf(req.op) # 0 /\ RT!ReceiptFor(req) = RT!RowOf(req.op)
    BY DEF RT!ReceiptFor
  <2>7. RT!RowOf(req.op) # 0 => RT!RowOf(req.op) \in DOMAIN history
                               /\ history[RT!RowOf(req.op)].op = req.op
    BY DEF RT!RowOf
  <2> QED  BY <1>2, <1>3, <2>2, <2>3, <2>5, <2>6, <2>7 DEF SameCall
<1>6. CASE UNCHANGED history
  <2>1. RowsMove
    BY <1>6 DEF RowsMove
  <2>2. RT!Accepts(req) => RT!RowOf(req.op) # 0
    <3> SUFFICES ASSUME RT!Accepts(req), RT!RowOf(req.op) = 0
                 PROVE  FALSE
      OBVIOUS
    <3>1. RT!Verdict(req) = "inserted"
      BY DEF RT!Accepts, RT!Verdict, RT!VerdictOnNew
    <3>2. history' = Append(history, RT!NewDeployment(req, 0))
      BY <3>1 DEF RT!EnsureApplied, RT!Accepts, RT!InsertDeployment
    <3>3. Len(history') = n + 1
      BY <3>2, <1>1, AppendProperties
    <3> QED  BY <1>4, <1>6, <3>3
  <2>3. RT!RowOf(req.op) # 0 => RT!RowOf(req.op) \in DOMAIN history
                               /\ history[RT!RowOf(req.op)].op = req.op
    BY DEF RT!RowOf
  <2> QED  BY <1>2, <1>6, <2>1, <2>2, <2>3 DEF RT!ReceiptFor
<1> QED  BY <1>1, <1>5, <1>6 DEF TP!EnsureApplied, TP!RaiseFence

\* Such a call is a step of the target on its own.
LEMMA CallIsTargetStep ==
    ASSUME DRInv, NEW req \in TP!Request, IsOf(req, operations), RT!EnsureApplied(req, 0)
    PROVE  RT!RDNext
<1>1. req = [op |-> req.op, rev |-> req.rev, config |-> req.config, fence |-> req.fence]
  BY DEF TP!Request
<1>2. /\ req.op \in 1 .. MaxOp /\ req.rev \in 1 .. MaxOp /\ req.config \in Configs
      /\ req.fence \in 1 .. MaxReqFence /\ 0 \in 0 .. MaxClock
  BY RequestIsAdmitted
<1>3. RT!EnsureApplied([op |-> req.op, rev |-> req.rev, config |-> req.config,
                        fence |-> req.fence], 0)
  BY <1>1, Zenon
<1> QED  BY <1>2, <1>3, Zenon DEF RT!RDNext

----------------------------------------------------------------------------
(* The steps.  Each is a step of the desk or leaves it alone, and of the     *)
(* target likewise.                                                          *)

Composed == DRInv' /\ [CPNext]_cpVars /\ [RT!RDNext]_rtVars

DeskStays == UNCHANGED <<revisions, decisions, active, operations, audit>>

LEMMA DeskUnchanged ==
    ASSUME DRInv, DeskStays
    PROVE  /\ CPInv' /\ WithinBounds' /\ Persists(operations, operations') /\ AppliedMoves
           /\ [CPNext]_cpVars
<1>1. UNCHANGED cpVars
  BY DEF DeskStays, cpVars
<1>2. CPInv'
  BY <1>1, StutterInv DEF DRInv
<1>3. WithinBounds'
  BY DEF DeskStays, DRInv, WithinBounds
<1>4. Persists(operations, operations') /\ NothingIsApplied
  BY SameOperations DEF DeskStays
<1> QED  BY <1>1, <1>2, <1>3, <1>4 DEF AppliedMoves, NothingIsApplied

\* A step of the desk during which no worker moves.
LEMMA DeskStep ==
    ASSUME DRInv, CPNext, Persists(operations, operations'), NothingIsApplied, WithinBounds',
           UNCHANGED rtVars, UNCHANGED workerVars
    PROVE  Composed
<1>1. TargetStays /\ UNCHANGED <<pc, job, orphans>>
  BY DEF TargetStays, rtVars, workerVars
<1>2. CPInv'
  BY CPNextInv DEF DRInv
<1>3. TP!RDInv' /\ RowsMove
  BY <1>1, TargetUnchanged
<1>4. WorkerTypes' /\ OrphansMove /\ AppliedMoves
  BY <1>1 DEF DRInv, WorkerTypes, OrphansMove, AppliedMoves, NothingIsApplied
<1>5. JobsMove /\ AnswersMove
  BY <1>1 DEF JobsMove, AnswersMove, SameCall
<1>6. DRInv'
  BY <1>2, <1>3, <1>4, <1>5, StepKeeps
<1> QED  BY <1>6 DEF Composed

\* The step of a worker that may go on with its job, give it up or get a new one.
LEMMA WorkerSteps ==
    ASSUME DRInv, NEW w \in Workers, NEW p \in PC, NEW j \in Job,
           pc' = [pc EXCEPT ![w] = p], job' = [job EXCEPT ![w] = j],
           p \in Busy => \/ pc[w] \in Busy /\ SameCall(j, job[w])
                         \/ IsOf(j, operations'),
           p = "applied" =>
               \/ pc[w] = "applied" /\ j = job[w]
               \/ j.receipt \in DOMAIN history' /\ history'[j.receipt].op = j.op
    PROVE  /\ pc' \in [Workers -> PC] /\ job' \in [Workers -> Job]
           /\ JobsMove /\ AnswersMove
<1>1. /\ pc \in [Workers -> PC] /\ job \in [Workers -> Job]
  BY DEF DRInv, WorkerTypes
<1>2. /\ pc' \in [Workers -> PC] /\ job' \in [Workers -> Job]
      /\ \A v \in Workers : /\ pc'[v] = IF v = w THEN p ELSE pc[v]
                            /\ job'[v] = IF v = w THEN j ELSE job[v]
  BY <1>1
<1>3. JobsMove
  BY <1>2 DEF JobsMove, SameCall
<1>4. AnswersMove
  BY <1>2 DEF AnswersMove
<1> QED  BY <1>2, <1>3, <1>4

LEMMA NoJobIsAJob == NoJob \in Job
BY DEF NoJob, Job

\* A worker that keeps its job, whose record is not written at all.
LEMMA SameJob ==
    ASSUME DRInv, NEW w \in Workers, UNCHANGED job
    PROVE  job' = [job EXCEPT ![w] = job[w]] /\ job[w] \in Job
BY DEF DRInv, WorkerTypes

LEMMA LeaseJobKeeps ==
    ASSUME DRInv, NEW w \in Workers, NEW i \in DOMAIN operations, NEW d \in Drift,
           LeaseJob(w, i, d)
    PROVE  Composed
<1> DEFINE j == [op |-> i, rev |-> operations[i].rev, config |-> operations[i].config,
                 fence |-> operations[i].fence + 1, receipt |-> 0]
<1>1. /\ LeaseNext(w, i, d) /\ pc' = [pc EXCEPT ![w] = "leased"]
      /\ job' = [job EXCEPT ![w] = j] /\ UNCHANGED orphans /\ TargetStays
  BY DEF LeaseJob, Goto, rtVars, TargetStays
<1>2. /\ CPNext /\ Persists(operations, operations') /\ NothingIsApplied /\ WithinBounds'
      /\ i \in DOMAIN operations'
      /\ operations'[i].rev = operations[i].rev
      /\ operations'[i].config = operations[i].config
      /\ operations'[i].fence = operations[i].fence + 1
  BY <1>1, LeasePersists
<1>3. /\ operations[i].rev \in Nat /\ operations[i].config \in Configs
      /\ operations[i].fence \in Nat /\ i \in Nat
  <2>1. operations[i] \in Operation /\ i \in 1 .. Len(operations)
    BY Tables
  <2> QED  BY <2>1 DEF Operation
<1>4. j \in Job /\ IsOf(j, operations')
  BY <1>2, <1>3 DEF Job, IsOf
<1> HIDE DEF j
<1>5. /\ pc' \in [Workers -> PC] /\ job' \in [Workers -> Job]
      /\ JobsMove /\ AnswersMove
  <2>1. "leased" \in PC
    BY DEF PC
  <2> QED  BY <1>1, <1>4, <2>1, WorkerSteps
<1>6. CPInv'
  BY <1>2, CPNextInv DEF DRInv
<1>7. TP!RDInv' /\ RowsMove
  BY <1>1, TargetUnchanged
<1>8. OrphansMove /\ AppliedMoves
  BY <1>1, <1>2 DEF OrphansMove, AppliedMoves, NothingIsApplied
<1>9. WorkerTypes'
  BY <1>1, <1>5 DEF DRInv, WorkerTypes
<1> QED  BY <1>1, <1>2, <1>5, <1>6, <1>7, <1>8, <1>9, StepKeeps
            DEF Composed, TargetStays, rtVars

\* Steps of a worker that touch neither database.
LEMMA LocalStep ==
    ASSUME DRInv, NEW w \in Workers, NEW p \in PC, NEW j \in Job,
           pc' = [pc EXCEPT ![w] = p], job' = [job EXCEPT ![w] = j],
           p \in Busy => pc[w] \in Busy /\ SameCall(j, job[w]),
           p # "applied",
           orphans' \subseteq TP!Request, OrphansMove, UNCHANGED cpVars, UNCHANGED rtVars
    PROVE  Composed
<1>1. DeskStays /\ TargetStays
  BY DEF DeskStays, TargetStays, cpVars, rtVars
<1>2. /\ pc' \in [Workers -> PC] /\ job' \in [Workers -> Job]
      /\ JobsMove /\ AnswersMove
  BY WorkerSteps
<1>3. WorkerTypes'
  BY <1>2 DEF WorkerTypes
<1>4. /\ CPInv' /\ WithinBounds' /\ Persists(operations, operations') /\ AppliedMoves
      /\ [CPNext]_cpVars /\ TP!RDInv' /\ RowsMove
  BY <1>1, DeskUnchanged, TargetUnchanged
<1> QED  BY <1>2, <1>3, <1>4, StepKeeps DEF Composed

LEMMA CallTargetKeeps ==
    ASSUME DRInv, NEW w \in Workers, CallTarget(w)
    PROVE  Composed
<1>1. PICK p \in {"calling", "refused"} : pc' = [pc EXCEPT ![w] = p]
  BY DEF CallTarget, Goto
<1>2. /\ pc[w] = "leased" /\ UNCHANGED job /\ UNCHANGED orphans
      /\ UNCHANGED cpVars /\ UNCHANGED rtVars
  BY DEF CallTarget
<1>3. p \in PC /\ p # "applied" /\ pc[w] \in Busy /\ SameCall(job[w], job[w])
  BY <1>2 DEF PC, Busy, SameCall
<1>4. orphans' \subseteq TP!Request /\ OrphansMove
  BY <1>2 DEF DRInv, WorkerTypes, OrphansMove
<1> QED  BY <1>1, <1>2, <1>3, <1>4, SameJob, LocalStep

\* What a worker asks of the target is an operation it has leased.
LEMMA RequestIsTyped ==
    ASSUME DRInv, NEW w \in Workers, pc[w] \in Busy
    PROVE  /\ RequestOf(w) \in TP!Request /\ IsOf(RequestOf(w), operations)
           /\ SameCall(RequestOf(w), job[w])
<1>1. job[w] \in Job /\ IsOf(job[w], operations)
  BY DEF DRInv, WorkerTypes, JobsAreOperations
<1>2. /\ job[w].op \in 1 .. MaxOp /\ job[w].rev \in 1 .. MaxOp /\ job[w].config \in Configs
      /\ job[w].fence \in 1 .. MaxReqFence
  BY <1>1, RequestIsAdmitted
<1> QED  BY <1>1, <1>2 DEF RequestOf, TP!Request, IsOf, SameCall

LEMMA CallIsAbandonedKeeps ==
    ASSUME DRInv, NEW w \in Workers, CallIsAbandoned(w)
    PROVE  Composed
<1>1. /\ pc[w] = "calling" /\ pc' = [pc EXCEPT ![w] = "retryable"] /\ UNCHANGED job
      /\ orphans' = orphans \union {RequestOf(w)} /\ UNCHANGED cpVars /\ UNCHANGED rtVars
  BY DEF CallIsAbandoned, Goto
<1>2. pc[w] \in Busy /\ "retryable" \in PC /\ SameCall(job[w], job[w])
  BY <1>1 DEF PC, Busy, SameCall
<1>3. orphans' \subseteq TP!Request /\ OrphansMove
  BY <1>1, <1>2, RequestIsTyped DEF DRInv, WorkerTypes, OrphansMove
<1> QED  BY <1>1, <1>2, <1>3, SameJob, LocalStep

LEMMA StopKeeps ==
    ASSUME DRInv, NEW w \in Workers, Crash(w) \/ Restart(w) \/ \E d \in Drift : LeaseIsLost(w, d)
    PROVE  Composed
<1>1. /\ UNCHANGED cpVars /\ UNCHANGED rtVars
      /\ orphans' = orphans \/ (pc[w] = "calling" /\ orphans' = orphans \union {RequestOf(w)})
  BY DEF Crash, Restart, LeaseIsLost
<1>2. PICK p \in {"stopped", "idle"} : pc' = [pc EXCEPT ![w] = p]
  BY DEF Crash, Restart, LeaseIsLost, Goto
<1>3. p \in PC /\ p \notin Busy /\ p # "applied"
  BY DEF PC, Busy
<1>4. PICK j \in Job : job' = [job EXCEPT ![w] = j]
  BY NoJobIsAJob, SameJob DEF Crash, Restart, LeaseIsLost
<1>5. orphans' \subseteq TP!Request /\ OrphansMove
  BY <1>1, RequestIsTyped DEF DRInv, WorkerTypes, OrphansMove, Busy
<1> QED  BY <1>1, <1>2, <1>3, <1>4, <1>5, LocalStep

\* A call of the target is carried out while the worker that made it, or none,
\* goes on.
LEMMA TargetStep ==
    ASSUME DRInv, NEW req \in TP!Request, IsOf(req, operations), RT!EnsureApplied(req, 0),
           UNCHANGED cpVars, WorkerTypes', JobsMove, AnswersMove, OrphansMove
    PROVE  Composed
<1>1. DeskStays
  BY DEF DeskStays, cpVars
<1>2. /\ CPInv' /\ WithinBounds' /\ Persists(operations, operations') /\ AppliedMoves
      /\ [CPNext]_cpVars
  BY <1>1, DeskUnchanged
<1>3. TP!RDInv' /\ RowsMove
  BY CallKeeps
<1>4. RT!RDNext
  BY CallIsTargetStep
<1>5. DRInv'
  BY <1>2, <1>3, StepKeeps
<1> QED  BY <1>2, <1>4, <1>5 DEF Composed

LEMMA TargetAnswersKeeps ==
    ASSUME DRInv, NEW w \in Workers, TargetAnswers(w)
    PROVE  Composed
<1> DEFINE req == RequestOf(w)
<1>1. /\ pc[w] = "calling" /\ RT!EnsureApplied(req, 0)
      /\ IF RT!Accepts(req)
         THEN /\ pc' = [pc EXCEPT ![w] = "applied"]
              /\ job' = [job EXCEPT ![w].receipt = RT!ReceiptFor(req)]
         ELSE pc' = [pc EXCEPT ![w] = "refused"] /\ UNCHANGED job
      /\ UNCHANGED cpVars /\ UNCHANGED orphans
  BY DEF TargetAnswers, Goto
<1>2. pc[w] \in Busy
  BY <1>1 DEF Busy
<1>3. req \in TP!Request /\ IsOf(req, operations) /\ SameCall(req, job[w])
  BY <1>2, RequestIsTyped
<1> HIDE DEF req
<1>4. /\ RT!Accepts(req) => /\ RT!ReceiptFor(req) \in DOMAIN history'
                            /\ history'[RT!ReceiptFor(req)].op = req.op
      /\ TP!RDInv'
  BY <1>1, <1>3, CallKeeps
<1>5. /\ pc' \in [Workers -> PC] /\ job' \in [Workers -> Job]
      /\ JobsMove /\ AnswersMove
  <2>1. CASE RT!Accepts(req)
    <3> DEFINE n == RT!ReceiptFor(req)
               j == [job[w] EXCEPT !.receipt = n]
    <3>1. n \in Nat
      BY <1>4, <2>1, LenProperties DEF TP!RDInv, TP!RDTypeOK
    <3>2. job' = [job EXCEPT ![w] = j]
      BY <1>1, <2>1
    <3>3. job[w] \in Job
      BY DEF DRInv, WorkerTypes
    <3> HIDE DEF n
    <3>4. j \in Job /\ SameCall(j, job[w]) /\ j.receipt = n
      BY <3>1, <3>3 DEF Job, SameCall
    <3>5. n \in DOMAIN history' /\ history'[n].op = j.op
      BY <1>3, <1>4, <2>1, <3>4 DEF n, SameCall
    <3>6. pc' = [pc EXCEPT ![w] = "applied"] /\ "applied" \in PC
      BY <1>1, <2>1 DEF PC
    <3> HIDE DEF j
    <3> QED  BY <1>2, <3>2, <3>4, <3>5, <3>6, WorkerSteps
  <2>2. CASE ~RT!Accepts(req)
    <3>1. "refused" \in PC /\ SameCall(job[w], job[w])
      BY DEF PC, SameCall
    <3> QED  BY <1>1, <1>2, <2>2, <3>1, SameJob, WorkerSteps
  <2> QED  BY <2>1, <2>2
<1>6. WorkerTypes' /\ OrphansMove
  BY <1>1, <1>5 DEF DRInv, WorkerTypes, OrphansMove
<1> QED  BY <1>1, <1>3, <1>5, <1>6, TargetStep

LEMMA AnswerIsLostKeeps ==
    ASSUME DRInv, NEW w \in Workers, AnswerIsLost(w)
    PROVE  Composed
<1>1. /\ pc[w] = "calling" /\ RT!EnsureApplied(RequestOf(w), 0)
      /\ pc' = [pc EXCEPT ![w] = "retryable"]
      /\ UNCHANGED job /\ UNCHANGED cpVars /\ UNCHANGED orphans
  BY DEF AnswerIsLost, Goto
<1>2. pc[w] \in Busy /\ "retryable" \in PC /\ SameCall(job[w], job[w])
  BY <1>1 DEF Busy, PC, SameCall
<1>3. /\ pc' \in [Workers -> PC] /\ job' \in [Workers -> Job]
      /\ JobsMove /\ AnswersMove
  BY <1>1, <1>2, SameJob, WorkerSteps
<1>4. WorkerTypes' /\ OrphansMove
  BY <1>1, <1>3 DEF DRInv, WorkerTypes, OrphansMove
<1> QED  BY <1>1, <1>2, <1>3, <1>4, RequestIsTyped, TargetStep

LEMMA OrphanCommitsKeeps ==
    ASSUME DRInv, NEW req \in orphans, OrphanCommits(req)
    PROVE  Composed
<1>1. /\ RT!EnsureApplied(req, 0) /\ orphans' \subseteq orphans
      /\ UNCHANGED cpVars /\ UNCHANGED <<pc, job>>
  BY DEF OrphanCommits
<1>2. req \in TP!Request /\ IsOf(req, operations)
  BY DEF DRInv, WorkerTypes, OrphansAreOperations
<1>3. WorkerTypes' /\ OrphansMove
  BY <1>1 DEF DRInv, WorkerTypes, OrphansMove
<1>4. JobsMove /\ AnswersMove
  BY <1>1 DEF JobsMove, AnswersMove, SameCall
<1> QED  BY <1>1, <1>2, <1>3, <1>4, TargetStep

\* A worker closes its lease at the desk and is idle again.
LEMMA CloseStep ==
    ASSUME DRInv, NEW w \in Workers, CPNext, Persists(operations, operations'), WithinBounds',
           AppliedMoves, pc' = [pc EXCEPT ![w] = "idle"], job' = [job EXCEPT ![w] = NoJob],
           UNCHANGED rtVars, UNCHANGED orphans
    PROVE  Composed
<1>1. TargetStays
  BY DEF TargetStays, rtVars
<1>2. CPInv'
  BY CPNextInv DEF DRInv
<1>3. TP!RDInv' /\ RowsMove
  BY <1>1, TargetUnchanged
<1>4. "idle" \in PC /\ "idle" \notin Busy
  BY DEF PC, Busy
<1>5. /\ pc' \in [Workers -> PC] /\ job' \in [Workers -> Job]
      /\ JobsMove /\ AnswersMove
  BY <1>4, NoJobIsAJob, WorkerSteps
<1>6. WorkerTypes' /\ OrphansMove
  BY <1>5 DEF DRInv, WorkerTypes, OrphansMove
<1>7. DRInv'
  BY <1>2, <1>3, <1>5, <1>6, StepKeeps
<1> QED  BY <1>7 DEF Composed

\* The receipt a worker was told is one the desk takes, and its operation's.
LEMMA AcknowledgeJobKeeps ==
    ASSUME DRInv, NEW w \in Workers, NEW d \in Drift, AcknowledgeJob(w, d)
    PROVE  Composed
<1> DEFINE i == job[w].op
           n == job[w].receipt
<1>1. /\ pc[w] = "applied"
      /\ AcknowledgeApplied(w, i, job[w].fence, job[w].config, n, d)
      /\ pc' = [pc EXCEPT ![w] = "idle"] /\ job' = [job EXCEPT ![w] = NoJob]
      /\ UNCHANGED rtVars /\ UNCHANGED orphans
  BY DEF AcknowledgeJob, Goto
<1>2. job[w] \in Job /\ IsOf(job[w], operations)
  BY <1>1 DEF DRInv, WorkerTypes, JobsAreOperations, Busy
<1>3. i \in DOMAIN operations /\ job[w].config \in Configs /\ i <= MaxOperations
  BY <1>2, RequestIsAdmitted DEF IsOf
<1>4. n \in DOMAIN history /\ history[n].op = i
  BY <1>1 DEF DRInv, ReceiptsAgree
<1>5. n \in Receipts
  <2>1. n <= i /\ n \in Nat \ {0} /\ i \in Nat
    BY <1>2, <1>4, Tables DEF DRInv, RowsAreOperations, Job
  <2> QED  BY <1>3, <2>1
<1> HIDE DEF i, n
<1>6. /\ CPNext /\ Persists(operations, operations') /\ WithinBounds'
      /\ DOMAIN operations' = DOMAIN operations /\ operations'[i].receipt = n
      /\ \A j \in DOMAIN operations : j # i => operations'[j] = operations[j]
  <2> DEFINE f == job[w].fence
             c == job[w].config
  <2>1. AcknowledgeApplied(w, i, f, c, n, d) /\ c \in Configs
    BY <1>1, <1>3
  <2> HIDE DEF f, c
  <2> QED  BY <1>3, <1>5, <2>1, AcknowledgePersists
<1>7. AppliedMoves
  BY <1>1, <1>4, <1>6 DEF AppliedMoves, rtVars
<1> QED  BY <1>1, <1>6, <1>7, CloseStep

\* The delay before a retry is one the store accepts, however many attempts.
LEMMA RetryDelayIsShort ==
    ASSUME NEW w \in Workers
    PROVE  RetryDelay(w) \in 0 .. MaxRetryDelay
BY DEF RetryDelay, Backoff

LEMMA FailJobKeeps ==
    ASSUME DRInv, NEW w \in Workers, NEW d \in Drift, FailJob(w, d)
    PROVE  Composed
<1> DEFINE i == job[w].op
<1>1. /\ pc[w] \in {"retryable", "refused"}
      /\ FailOperation(w, i, job[w].fence, RetryDelay(w), d)
      /\ pc' = [pc EXCEPT ![w] = "idle"] /\ job' = [job EXCEPT ![w] = NoJob]
      /\ UNCHANGED rtVars /\ UNCHANGED orphans
  BY DEF FailJob, Goto
<1>2. i \in DOMAIN operations
  BY <1>1 DEF DRInv, JobsAreOperations, Busy, IsOf
<1> HIDE DEF i
<1>3. CPNext /\ Persists(operations, operations') /\ NothingIsApplied /\ WithinBounds'
  BY <1>1, <1>2, RetryDelayIsShort, FailPersists
<1>4. AppliedMoves
  BY <1>3 DEF AppliedMoves, NothingIsApplied
<1> QED  BY <1>1, <1>3, <1>4, CloseStep

LEMMA RegisterProfileKeeps ==
    ASSUME DRInv, NEW p \in Profiles, RegisterProfile(p)
    PROVE  Composed
<1>1. /\ profiles' = profiles \union {p} /\ UNCHANGED <<history, highest, current>>
      /\ UNCHANGED cpVars /\ UNCHANGED <<pc, job, orphans>>
  BY DEF RegisterProfile, RT!RegisterProfile, workerVars
<1>2. RT!RDNext
  BY DEF RegisterProfile, RT!RDNext
<1>3. TP!RDInv'
  BY <1>1 DEF DRInv, TP!RDInv, TP!RDTypeOK, TP!HistoryStrictlyOrdered, TP!ReceiptChain,
              TP!DeployedUnderProfile
<1>4. DeskStays
  BY <1>1 DEF DeskStays, cpVars
<1>5. /\ CPInv' /\ WithinBounds' /\ Persists(operations, operations') /\ AppliedMoves
      /\ [CPNext]_cpVars
  BY <1>4, DeskUnchanged
<1>6. WorkerTypes' /\ OrphansMove /\ RowsMove
  BY <1>1 DEF DRInv, WorkerTypes, OrphansMove, RowsMove
<1>7. JobsMove /\ AnswersMove
  BY <1>1 DEF JobsMove, AnswersMove, SameCall
<1>8. DRInv'
  BY <1>3, <1>5, <1>6, <1>7, StepKeeps
<1> QED  BY <1>2, <1>5, <1>8 DEF Composed

LEMMA StutterKeeps ==
    ASSUME DRInv, UNCHANGED drVars
    PROVE  Composed
<1>1. UNCHANGED cpVars /\ UNCHANGED rtVars /\ UNCHANGED <<pc, job, orphans>>
  BY DEF drVars, workerVars
<1>2. DeskStays /\ TargetStays
  BY <1>1 DEF DeskStays, TargetStays, cpVars, rtVars
<1>3. /\ CPInv' /\ WithinBounds' /\ Persists(operations, operations') /\ AppliedMoves
      /\ TP!RDInv' /\ RowsMove
  BY <1>2, DeskUnchanged, TargetUnchanged
<1>4. WorkerTypes' /\ OrphansMove
  BY <1>1 DEF DRInv, WorkerTypes, OrphansMove
<1>5. JobsMove /\ AnswersMove
  BY <1>1 DEF JobsMove, AnswersMove, SameCall
<1>6. DRInv'
  BY <1>3, <1>4, <1>5, StepKeeps
<1> QED  BY <1>1, <1>6 DEF Composed

----------------------------------------------------------------------------
(* The composition *)

LEMMA DRInitInv == DRInit => DRInv
<1> SUFFICES ASSUME DRInit PROVE DRInv
  OBVIOUS
<1>1. CPInv
  BY CPInitInv DEF DRInit
<1>2. /\ history = <<>> /\ highest = <<>> /\ current = 0 /\ profiles = {}
      /\ revisions = <<>> /\ operations = <<>>
      /\ pc = [w \in Workers |-> "idle"] /\ job = [w \in Workers |-> NoJob] /\ orphans = {}
  BY DEF DRInit, RT!RDInit, CPInit
<1>3. /\ history \in Seq(TP!Deployment) /\ highest \in Seq(Nat \ {0})
      /\ Len(history) = 0 /\ Len(highest) = 0 /\ DOMAIN history = {}
      /\ Len(operations) = 0 /\ Len(revisions) = 0 /\ DOMAIN operations = {}
  BY <1>2, EmptySeq
<1>4. TP!RDInv
  BY <1>2, <1>3 DEF TP!RDInv, TP!RDTypeOK, TP!HistoryStrictlyOrdered, TP!ReceiptChain,
                    TP!DeployedUnderProfile
<1>5. WorkerTypes
  <2>1. "idle" \in PC
    BY DEF PC
  <2> QED  BY <1>2, <2>1, NoJobIsAJob DEF WorkerTypes
<1>6. \A w \in Workers : pc[w] = "idle"
  BY <1>2
<1>7. JobsAreOperations /\ ReceiptsAgree
  BY <1>6 DEF JobsAreOperations, ReceiptsAgree, Busy
<1>8. WithinBounds /\ OrphansAreOperations /\ RowsAreOperations /\ AppliedWasDeployed
  BY <1>2, <1>3 DEF WithinBounds, OrphansAreOperations, RowsAreOperations, AppliedWasDeployed
<1> QED  BY <1>1, <1>4, <1>5, <1>7, <1>8 DEF DRInv

LEMMA DRNextComposed ==
    ASSUME DRInv, [DRNext]_drVars
    PROVE  Composed
<1>1. ASSUME DeskNext, UNCHANGED <<rtVars, workerVars, faults>>
      PROVE  Composed
  <2>1. CPNext /\ UNCHANGED rtVars /\ UNCHANGED workerVars
    BY <1>1 DEF CPNext
  <2> QED  BY <1>1, <2>1, DeskPersists, DeskStep
<1>2. ASSUME TimePasses
      PROVE  Composed
  <2>1. Tick /\ UNCHANGED rtVars /\ UNCHANGED workerVars
    BY <1>2 DEF TimePasses
  <2> QED  BY <2>1, TickPersists, DeskStep
<1>3. ASSUME NEW w \in Workers, WorkerStep(w)
      PROVE  Composed
  BY <1>3, LeaseJobKeeps, CallTargetKeeps, TargetAnswersKeeps, AnswerIsLostKeeps,
     CallIsAbandonedKeeps, AcknowledgeJobKeeps, FailJobKeeps, StopKeeps DEF WorkerStep
<1> QED  BY <1>1, <1>2, <1>3, StopKeeps, OrphanCommitsKeeps, RegisterProfileKeeps,
            StutterKeeps DEF DRNext

\* The invariant of the change desk, the workers and the target together.
THEOREM CompositionInvariant == DRSpec => []DRInv
<1>1. DRInit => DRInv
  BY DRInitInv
<1>2. DRInv /\ [DRNext]_drVars => DRInv'
  BY DRNextComposed DEF Composed
<1> QED  BY <1>1, <1>2, PTL DEF DRSpec

\* The runtime follows the ledger because the history is in the order of the
\* operations and its newest row is the current deployment.
LEMMA NotBehind ==
    ASSUME DRInv
    PROVE  RuntimeNotBehindLedger
<1> SUFFICES ASSUME LatestApplied # 0
             PROVE  current # 0 /\ history[current].op >= LatestApplied
  BY DEF RuntimeNotBehindLedger
<1> DEFINE i == LatestApplied
           r == operations[i].receipt
<1>1. i \in AppliedOps
  BY LatestAppliedIsLatest DEF DRInv, CPInv
<1>2. i \in DOMAIN operations /\ operations[i].state = "applied"
  BY <1>1 DEF AppliedOps
<1>3. r \in DOMAIN history /\ history[r].op = i
  BY <1>2 DEF DRInv, AppliedWasDeployed
<1>4. r \in 1 .. Len(history) /\ current = Len(history) /\ Len(history) \in Nat
  BY <1>3, Tables
<1>5. current \in DOMAIN history /\ current # 0
  BY <1>4, Tables
<1>6. history[r].op \in Nat /\ history[current].op \in Nat
  BY <1>3, <1>5, Tables DEF TP!Deployment
<1>7. r < current => history[r].op < history[current].op
  BY <1>3, <1>5 DEF DRInv, TP!RDInv, TP!HistoryStrictlyOrdered
<1> HIDE DEF r, i
<1>8. r < current \/ r = current
  BY <1>4
<1>9. history[current].op >= i
  BY <1>3, <1>6, <1>7, <1>8
<1> QED  BY <1>5, <1>9 DEF i

LEMMA RunsApproved ==
    ASSUME DRInv
    PROVE  RuntimeRunsApproved
<1>1. \A k \in DOMAIN history : /\ history[k].op \in DOMAIN operations
                                /\ operations[history[k].op].config = history[k].config
  BY DEF DRInv, RowsAreOperations, IsOf
<1> QED  BY <1>1 DEF RuntimeRunsApproved, DRInv, CPInv, SeparationOfDuties

LEMMA ComposedTypes ==
    ASSUME DRInv
    PROVE  DRTypeOK
BY DEF DRInv, WorkerTypes, JobsAreOperations, OrphansAreOperations, IsOf, Busy, DRTypeOK

\* Whatever crashes, is retried, is answered to nobody or commits after its caller is gone:
\* what the control plane calls applied the target has deployed, what the runtime runs or
\* ever ran was approved by and requested by people other than its maker, all workers are
\* told one receipt, and the runtime is never behind the ledger.
THEOREM LedgerAndRuntimeAgree == DRSpec => []LedgerMatchesRuntime
<1>1. DRInv => LedgerMatchesRuntime
  BY NotBehind, RunsApproved, ComposedTypes DEF DRInv, LedgerMatchesRuntime
<1> QED  BY <1>1, CompositionInvariant, PTL

\* The reconciler adds no behaviour to its two ends: its workers take only the steps the
\* outbox allows a worker and send the target only requests it is specified for.
THEOREM CompositionRefinesParts == DRSpec => ImplementsDeskAndTarget
<1>1. DRInit => CPInit /\ RT!RDInit
  BY DEF DRInit
<1>2. DRInv /\ [DRNext]_drVars => [CPNext]_cpVars /\ [RT!RDNext]_(RT!rdVars)
  BY DRNextComposed DEF Composed, rtVars, RT!rdVars
<1>3. DRSpec => CPSpec /\ RT!RDSpec
  BY <1>1, <1>2, CompositionInvariant, PTL DEF DRSpec, CPSpec, RT!RDSpec
<1> QED  BY <1>3 DEF ImplementsDeskAndTarget, ImplementsControlPlane, ImplementsTarget

\* So what is proved of the desk alone holds with workers and target: separation of duties
\* and the one line of intents, with real leases, answers and receipts.
THEOREM DeskStaysInOrder == DRSpec => [](SeparationOfDuties /\ OutboxIsOneLine)
<1>1. DRInv => SeparationOfDuties /\ OutboxIsOneLine
  BY DEF DRInv, CPInv, OutboxIsOneLine
<1> QED  BY <1>1, CompositionInvariant, PTL
=============================================================================

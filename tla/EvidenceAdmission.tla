--------------------------- MODULE EvidenceAdmission ---------------------------
(***************************************************************************)
(* AdmissionService and its SQLite ledger (evidence/admission.py).  Leases *)
(* are registered; an envelope is admitted by reserving a receipt body,    *)
(* signing it with no database lock held, and finalizing it; the evidence  *)
(* is then put into custody and a custody acknowledgement is prepared,     *)
(* signed and finalized the same way.  Several services may have one       *)
(* ledger open; any of them may fail or die between two steps, and each    *)
(* checks the whole ledger again when it opens it or finds that another    *)
(* connection has written.                                                 *)
(*                                                                         *)
(* A digest is the value it is the digest of.  A lease is one of Templates *)
(* with the receipt its epoch starts from; an envelope is a lease with the *)
(* signatures of its statement; its CAB is a field of the lease.           *)
(***************************************************************************)
EXTENDS Attestation

CONSTANTS Services,
          Templates,        \* lease fields that the authority may grant
          PolicyDocuments,  \* the trust policies: the document of each policy digest
          SignatureLists,   \* the signatures the envelopes of each job may carry
          Instants,         \* what a service's clock may show
          MaxRegisteredLeases, \* max_registered_leases_per_tenant
          MaxAdmissions     \* max_admissions_per_tenant

ASSUME EvidenceAdmissionConstants ==
    /\ Instants \subseteq Nat \ {0}
    /\ MaxRegisteredLeases \in Nat \ {0} /\ MaxAdmissions \in Nat \ {0}
    /\ Nil \notin Services \cup {t.policy : t \in Templates}
    /\ \A t \in Templates :
          /\ {t.epoch, t.sequence, t.issued, t.expires, t.policy.revision} \subseteq Nat
          /\ \A s \in SignatureLists[t.job] : Len(s) \in Nat /\ DOMAIN s = 1..Len(s)
          /\ PolicyDocuments[t.policy.digest].threshold \in Nat

Statement == "collection-statement"

Tenants == {t.tenant : t \in Templates}
Collectors == {<<t.tenant, t.collector>> : t \in Templates}
PolicyIds == {t.policy.id : t \in Templates}

VARIABLES storage,   \* the database file: "absent", "file" (created, without schema), "ready"
          ledger,    \* the tables
          service,   \* what each service is doing
          known,     \* _validated_tenant_heads of each service
          foreign,   \* whether another connection has committed since it looked
          custody    \* the objects in the custody store

admissionVars == <<storage, ledger, service, known, foreign, custody>>

EmptyLedger ==
    [leases |-> {},          \* job_leases
     consumed |-> {},        \* their consumption markers
     preparations |-> {},    \* admission_preparations
     admissions |-> {},      \* admissions: a receipt and its acknowledgement, if any
     acknowledging |-> {},   \* custody_ack_preparations
     tenantHeads |-> [t \in Tenants |-> Nil],
     collectorHeads |-> [c \in Collectors |-> Nil],
     versions |-> {},        \* policy_versions
     policyHeads |-> [i \in PolicyIds |-> Nil],
     floor |-> 0]            \* last_admitted_at

Closed == [step |-> "closed"]
Idle == [step |-> "idle"]

AdmissionInit ==
    /\ storage = "absent"
    /\ ledger = EmptyLedger
    /\ service = [p \in Services |-> Closed]
    /\ known = [p \in Services |-> [t \in Tenants |-> Nil]]
    /\ foreign = [p \in Services |-> FALSE]
    /\ custody = {}

\* The statement in an envelope names its lease and matches it in every field.
Lease(body) == body.envelope.lease
Tenant(body) == Lease(body).tenant
Collector(body) == <<Lease(body).tenant, Lease(body).collector>>
Policy(body) == Lease(body).policy

\* _resolve_policy: the document whose digest the statement signed.
Document(policy) == PolicyDocuments[policy.digest]

RowsOf(l, tenant) == {row \in l.admissions : Tenant(row.receipt.body) = tenant}
Receipts(l) == {row.receipt : row \in l.admissions}
Pending(rows) == {row \in rows : row.acknowledgement = Nil}
PreparationsOf(l, tenant) == {b \in l.preparations : Tenant(b) = tenant}

-------------------------------------------------------------------------------
(* What the ledger checks of itself. *)

\* The row with the highest receipt sequence: the head and the latest row must agree.
Latest(rows) ==
    IF rows = {} THEN Nil
    ELSE (CHOOSE row \in rows :
             \A r \in rows : r.receipt.body.sequence <= row.receipt.body.sequence).receipt

TenantHeadHolds(l, tenant) == l.tenantHeads[tenant] = Latest(RowsOf(l, tenant))

CollectorHeadHolds(l, c) ==
    l.collectorHeads[c] = Latest({row \in l.admissions : Collector(row.receipt.body) = c})

\* Of the bodies of one policy id, the policy with the highest revision.
Highest(policies) ==
    IF policies = {} THEN Nil
    ELSE CHOOSE p \in policies : \A q \in policies : q.revision <= p.revision

PolicyHeadHolds(l, id) ==
    LET used == {Policy(r.body) : r \in Receipts(l)} \cup {Policy(b) : b \in l.preparations}
        Of(policies) == {p \in policies : p.id = id}
    IN /\ l.policyHeads[id] = Highest(Of(l.versions))
       /\ l.policyHeads[id] = Highest(Of(used))

\* The instants of an admission: inside the lease, after the collection, attested then.
InWindow(body) ==
    LET lease == Lease(body) IN
    /\ lease.issued <= body.admitted /\ body.admitted < lease.expires
    /\ lease.issued <= body.envelope.collected /\ body.envelope.collected < lease.expires
    /\ body.envelope.collected <= body.admitted

BodyVerifies(l, body) ==
    /\ Lease(body) \in l.leases
    /\ Policy(body) \in l.versions
    /\ Policy(body).revision <= l.policyHeads[Policy(body).id].revision
    /\ InWindow(body)
    /\ Verified(body.envelope, Document(Policy(body)), Statement, body.admitted)

ReceiptRowVerifies(l, row) ==
    /\ BodyVerifies(l, row.receipt.body)
    /\ [envelope |-> row.receipt.body.envelope, receipt |-> row.receipt] \in l.consumed

\* A preparation holds a lease that nothing has consumed.
PreparationVerifies(l, body) ==
    /\ BodyVerifies(l, body)
    /\ \A c \in l.consumed : c.envelope.lease # Lease(body)

\* The lease continues its collector's history: the next sequence of the epoch, or the
\* first of the next one, bound to the receipt the last epoch ended with.
ContinuesCollector(head, lease) ==
    IF head = Nil THEN lease.epoch = 1 /\ lease.sequence = 1
    ELSE \/ /\ lease.epoch = Lease(head.body).epoch
            /\ lease.sequence = Lease(head.body).sequence + 1
         \/ /\ lease.epoch = Lease(head.body).epoch + 1
            /\ lease.sequence = 1
            /\ lease.prior = head

NextSequence(head) == IF head = Nil THEN 1 ELSE head.body.sequence + 1

\* The place in both chains a body was reserved for is still the next one.
ReservesNext(l, body) ==
    LET head == l.tenantHeads[Tenant(body)] IN
    /\ body.sequence = NextSequence(head)
    /\ body.previous = head
    /\ ContinuesCollector(l.collectorHeads[Collector(body)], Lease(body))
    /\ Pending(RowsOf(l, Tenant(body))) = {}

Predecessors(l, receipt) ==
    {row \in RowsOf(l, Tenant(receipt.body)) :
        row.receipt.body.sequence < receipt.body.sequence}

\* One tenant's receipts from the first to the head.
TenantChainHolds(l, tenant) ==
    LET rows == RowsOf(l, tenant)
        ReceiptAt(n) == {row.receipt : row \in {r \in rows : r.receipt.body.sequence = n}}
        Before(row, c) ==
            {r \in Predecessors(l, row.receipt) : Collector(r.receipt.body) = c}
    IN /\ Cardinality(rows) <= MaxAdmissions
       /\ {row.receipt.body.sequence : row \in rows} = 1..Cardinality(rows)
       /\ \A row \in rows :
             LET body == row.receipt.body IN
             /\ ReceiptRowVerifies(l, row)
             /\ IF body.sequence = 1 THEN body.previous = Nil
                ELSE ReceiptAt(body.sequence - 1) = {body.previous}
             /\ Pending(Predecessors(l, row.receipt)) = {}
             /\ ContinuesCollector(Latest(Before(row, Collector(body))), Lease(body))
       /\ TenantHeadHolds(l, tenant)

\* An acknowledgement is prepared for a pending receipt whose predecessors are durable.
AcknowledgingVerifies(l, receipt) ==
    /\ [receipt |-> receipt, acknowledgement |-> Nil] \in l.admissions
    /\ Pending(Predecessors(l, receipt)) = {}

\* _validate_complete_ledger
ValidLedger(l) ==
    /\ \A id \in PolicyIds : PolicyHeadHolds(l, id)
    /\ \A t \in Tenants : TenantChainHolds(l, t)
    /\ \A c \in Collectors : CollectorHeadHolds(l, c)
    /\ \A b \in l.preparations : PreparationVerifies(l, b) /\ ReservesNext(l, b)
    /\ \A r \in l.acknowledging : AcknowledgingVerifies(l, r)
    /\ LET instants == {r.body.admitted : r \in Receipts(l)}
                       \cup {b.admitted : b \in l.preparations}
       IN IF instants = {} THEN l.floor = 0
          ELSE l.floor \in instants /\ \A i \in instants : i <= l.floor

-------------------------------------------------------------------------------
(* Opening the ledger, and its transactions. *)

\* The file is created before its schema; a service that dies in between leaves a file
\* that no service accepts.
CreateFile(p) ==
    /\ service[p].step = "closed" /\ storage = "absent"
    /\ storage' = "file"
    /\ service' = [service EXCEPT ![p] = [step |-> "creating"]]
    /\ UNCHANGED <<ledger, known, foreign, custody>>

CreateSchema(p) ==
    /\ service[p].step = "creating"
    /\ storage' = "ready"
    /\ service' = [service EXCEPT ![p] = Idle]
    /\ UNCHANGED <<ledger, known, foreign, custody>>

OpenLedger(p) ==
    /\ service[p].step = "closed" /\ storage = "ready"
    /\ ValidLedger(ledger)
    /\ service' = [service EXCEPT ![p] = Idle]
    /\ known' = [known EXCEPT ![p] = ledger.tenantHeads]
    /\ foreign' = [foreign EXCEPT ![p] = FALSE]
    /\ UNCHANGED <<storage, ledger, custody>>

\* The heads a transaction trusts: read again if another connection has written.
Heads(p) == IF foreign[p] THEN ledger.tenantHeads ELSE known[p]

Begin(p) == foreign[p] => ValidLedger(ledger)

TrustsHead(p, tenant) ==
    TenantHeadHolds(ledger, tenant) /\ Heads(p)[tenant] = ledger.tenantHeads[tenant]

Rollback(p) ==
    /\ known' = [known EXCEPT ![p] = Heads(p)]
    /\ foreign' = [foreign EXCEPT ![p] = FALSE]
    /\ UNCHANGED ledger

Commit(p, l) ==
    /\ ledger' = l
    /\ known' = [known EXCEPT ![p] = Heads(p)]
    /\ foreign' = [q \in Services |-> q # p /\ service[q].step # "closed"]

Moved(p, next) ==
    /\ service' = [service EXCEPT ![p] = next]
    /\ UNCHANGED storage

\* Neither the clock nor a policy goes back: the floor is the last instant admitted.
ClockHolds(l, now) == now >= l.floor
ClockMayHold(l) == \E now \in Instants : ClockHolds(l, now)

-------------------------------------------------------------------------------
(* register_lease *)

LeaseIsCoherent(lease) ==
    /\ lease.issued < lease.expires
    /\ IF lease.epoch = 1 \/ lease.sequence # 1 THEN lease.prior = Nil
       ELSE lease.prior # Nil /\ Lease(lease.prior.body).epoch = lease.epoch - 1

\* issue_signed_job_lease: the authority signs what it has been asked for.
Granted(template, prior) ==
    [tenant |-> template.tenant, collector |-> template.collector, job |-> template.job,
     epoch |-> template.epoch, sequence |-> template.sequence, policy |-> template.policy,
     issued |-> template.issued, expires |-> template.expires, prior |-> prior]

LeaseConflicts(lease, other) ==
    /\ lease.tenant = other.tenant
    /\ \/ lease.job = other.job
       \/ /\ lease.collector = other.collector
          /\ lease.epoch = other.epoch /\ lease.sequence = other.sequence

RegisterLease(p) ==
    /\ service[p].step = "idle" /\ Begin(p)
    /\ \E template \in Templates, prior \in {Nil} \cup Receipts(ledger) :
          LET lease == Granted(template, prior) IN
          /\ LeaseIsCoherent(lease)
          /\ \A other \in ledger.leases : ~LeaseConflicts(lease, other)
          /\ Cardinality({l \in ledger.leases : l.tenant = lease.tenant}) < MaxRegisteredLeases
          /\ lease.epoch > 1 /\ lease.sequence = 1 =>
                lease.prior = ledger.collectorHeads[<<lease.tenant, lease.collector>>]
          /\ Commit(p, [ledger EXCEPT !.leases = @ \cup {lease}])
    /\ UNCHANGED <<storage, service, custody>>

-------------------------------------------------------------------------------
(* admit: the probe, the reservation, the signature, the finalization. *)

Envelopes ==
    UNION {{[lease |-> lease, type |-> Statement, collected |-> lease.issued,
             signatures |-> s] : s \in SignatureLists[lease.job]} : lease \in ledger.leases}

RowOfLease(lease) == {row \in ledger.admissions : Lease(row.receipt.body) = lease}
PreparationOfLease(lease) == {b \in ledger.preparations : Lease(b) = lease}

\* retry_admitted_at: the instant an earlier attempt of the same envelope was given.
ProbeRetry(p) ==
    /\ service[p].step = "idle" /\ Begin(p)
    /\ \E envelope \in Envelopes :
          LET consumed == {c \in ledger.consumed : c.envelope.lease = envelope.lease}
              reserved == PreparationOfLease(envelope.lease)
              Probed(original) == Moved(p, [step |-> "probed", request |-> envelope,
                                            original |-> original])
          IN \/ /\ consumed = {} /\ reserved = {}
                /\ Probed(Nil)
             \/ /\ consumed = {} /\ ClockMayHold(ledger)
                /\ \E b \in reserved : b.envelope = envelope /\ Probed(b.admitted)
             \/ /\ ClockMayHold(ledger)
                /\ TrustsHead(p, envelope.lease.tenant)
                /\ \E c \in consumed :
                      c.envelope = envelope /\ Probed(c.receipt.body.admitted)
    /\ Rollback(p)
    /\ UNCHANGED custody

\* What a step goes on with: the item it works on, the request it answers (Nil during
\* reconciliation) and what a reconciliation still has to do.
At(step, item, from) ==
    [step |-> step, item |-> item, request |-> from.request,
     plan |-> from.plan, todo |-> from.todo, earlier |-> Nil]

OwnRequest(envelope) == [request |-> envelope, plan |-> "none", todo |-> {}]

\* The instant a retry is verified at is the one of the first attempt, not the clock's.
RetryAgrees(p, body) ==
    LET s == service[p] IN
    /\ body.envelope = s.request
    /\ IF s.original = Nil THEN ClockMayHold(ledger) ELSE s.original = body.admitted
    /\ Verified(s.request, Document(Policy(body)), Statement, body.admitted)

RetryStored(p) ==
    /\ service[p].step = "probed" /\ Begin(p)
    /\ \E row \in RowOfLease(service[p].request.lease) :
          /\ RetryAgrees(p, row.receipt.body)
          /\ TrustsHead(p, Tenant(row.receipt.body))
          /\ Moved(p, [At("stored", row.receipt, OwnRequest(service[p].request))
                          EXCEPT !.earlier = row.acknowledgement])
    /\ Rollback(p)
    /\ UNCHANGED custody

RetryPrepared(p) ==
    /\ service[p].step = "probed" /\ Begin(p)
    /\ \E body \in PreparationOfLease(service[p].request.lease) :
          /\ RetryAgrees(p, body)
          /\ Moved(p, At("reserved", body, OwnRequest(service[p].request)))
    /\ Rollback(p)
    /\ UNCHANGED custody

\* Fault: only forks of one revision are refused.
PolicyDoesNotFork(l, policy) ==
    \A v \in l.versions : v.id = policy.id /\ v.revision = policy.revision => v = policy

\* _advance_policy_head: neither back to an older revision nor to other bytes of this one.
PolicyAdvances(l, policy) ==
    LET head == l.policyHeads[policy.id] IN
    /\ head # Nil => policy.revision >= head.revision
    /\ head # Nil /\ policy.revision = head.revision => policy = head
    /\ \A v \in l.versions : v.id = policy.id /\ v.revision = policy.revision => v = policy

\* _check_quota counts receipts and reservations.
HasRoom(l, tenant) ==
    Cardinality(RowsOf(l, tenant)) + Cardinality(PreparationsOf(l, tenant)) < MaxAdmissions

ReceiptBody(envelope, now, head) ==
    [envelope |-> envelope, admitted |-> now,
     sequence |-> NextSequence(head), previous |-> head]

Reserved(l, body) ==
    [l EXCEPT !.preparations = @ \cup {body},
              !.versions = @ \cup {Policy(body)},
              !.policyHeads[Policy(body).id] = Policy(body),
              !.floor = body.admitted]

\* Fault: a receipt that awaits custody does not hold up the next.
TenantHasNoPreparation(l, tenant) == PreparationsOf(l, tenant) = {}

\* A tenant has one reservation, and none while a receipt awaits custody.
TenantIsSettled(l, tenant) ==
    PreparationsOf(l, tenant) = {} /\ Pending(RowsOf(l, tenant)) = {}

ReserveReceipt(p) ==
    /\ service[p].step = "probed" /\ Begin(p)
    /\ \E now \in Instants :
          LET envelope == service[p].request
              tenant == envelope.lease.tenant
              body == ReceiptBody(envelope, now, ledger.tenantHeads[tenant])
          IN /\ RowOfLease(envelope.lease) = {}
             /\ TenantIsSettled(ledger, tenant)
             /\ ClockHolds(ledger, now)
             /\ Verified(envelope, Document(Policy(body)), Statement, now)
             /\ InWindow(body)
             /\ ContinuesCollector(ledger.collectorHeads[Collector(body)], envelope.lease)
             /\ TrustsHead(p, tenant)
             /\ PolicyAdvances(ledger, Policy(body))
             /\ HasRoom(ledger, tenant)
             /\ Commit(p, Reserved(ledger, body))
             /\ Moved(p, At("reserved", body, OwnRequest(envelope)))
    /\ UNCHANGED custody

\* The remote signer: each service may be given a valid signature of its own.
SignReceipt(p) ==
    /\ service[p].step = "reserved"
    /\ Moved(p, At("signed", [body |-> service[p].item, signature |-> p], service[p]))
    /\ UNCHANGED <<ledger, known, foreign, custody>>

\* Fault: the service goes on with the receipt it has signed itself.
FinalizeOwn(p) ==
    /\ service[p].step = "signed" /\ Begin(p)
    /\ \E row \in RowOfLease(Lease(service[p].item.body)) :
          /\ row.receipt.body = service[p].item.body
          /\ Moved(p, At("stored", service[p].item, service[p]))
    /\ Rollback(p)
    /\ UNCHANGED custody

\* Another service has finalized the reservation: its receipt stands.
FinalizeExisting(p) ==
    /\ service[p].step = "signed" /\ Begin(p)
    /\ \E row \in RowOfLease(Lease(service[p].item.body)) :
          /\ row.receipt.body = service[p].item.body
          /\ TrustsHead(p, Tenant(row.receipt.body))
          /\ Moved(p, [At("stored", row.receipt, service[p])
                          EXCEPT !.earlier = row.acknowledgement])
    /\ Rollback(p)
    /\ UNCHANGED custody

Finalized(l, receipt) ==
    LET body == receipt.body IN
    [l EXCEPT !.preparations = @ \ {body},
              !.admissions = @ \cup {[receipt |-> receipt, acknowledgement |-> Nil]},
              !.consumed = @ \cup {[envelope |-> body.envelope, receipt |-> receipt]},
              !.collectorHeads[Collector(body)] = receipt,
              !.tenantHeads[Tenant(body)] = receipt]

FinalizeAdmission(p) ==
    LET receipt == service[p].item body == receipt.body IN
    /\ service[p].step = "signed" /\ Begin(p)
    /\ RowOfLease(Lease(body)) = {}
    /\ body \in ledger.preparations
    /\ TrustsHead(p, Tenant(body))
    /\ ReservesNext(ledger, body)
    /\ ledger' = Finalized(ledger, receipt)
    /\ known' = [known EXCEPT ![p] = [Heads(p) EXCEPT ![Tenant(body)] = receipt]]
    /\ foreign' = [q \in Services |-> q # p /\ service[q].step # "closed"]
    /\ Moved(p, At("stored", receipt, service[p]))
    /\ UNCHANGED custody

-------------------------------------------------------------------------------
(* Custody and its acknowledgement. *)

ObjectOf(receipt) == <<Tenant(receipt.body), Lease(receipt.body).job, receipt.body.envelope>>

\* persist never replaces an object and succeeds again on the same bytes.
PersistCustody(p) ==
    LET receipt == service[p].item IN
    /\ service[p].step = "stored"
    /\ \A c \in custody : c.object = ObjectOf(receipt) => c.receipt = receipt
    /\ custody' = custody \cup {[object |-> ObjectOf(receipt), receipt |-> receipt]}
    /\ Moved(p, [service[p] EXCEPT !.step = "held"])
    /\ UNCHANGED <<ledger, known, foreign>>

\* The service answers, or goes on with its reconciliation.
Finish(p, receipt, acknowledgement) ==
    LET s == service[p] IN
    Moved(p, IF s.request = Nil
             THEN [step |-> "sweep", plan |-> s.plan, todo |-> s.todo]
             ELSE [step |-> "answered", request |-> s.request, receipt |-> receipt,
                   acknowledgement |-> acknowledgement])

RowOf(receipt) == {row \in ledger.admissions : row.receipt = receipt}

AlreadyAcknowledged(p) ==
    /\ service[p].step = "held" /\ Begin(p)
    /\ \E row \in RowOf(service[p].item) :
          /\ row.acknowledgement # Nil
          /\ service[p].earlier # Nil => service[p].earlier = row.acknowledgement
          /\ Finish(p, row.receipt, row.acknowledgement)
    /\ Rollback(p)
    /\ UNCHANGED custody

PrepareAcknowledgement(p) ==
    LET receipt == service[p].item IN
    /\ service[p].step = "held" /\ Begin(p)
    /\ Pending(RowOf(receipt)) # {}
    /\ IF receipt \in ledger.acknowledging THEN Rollback(p)
       ELSE /\ Pending(Predecessors(ledger, receipt)) = {}
            /\ Commit(p, [ledger EXCEPT !.acknowledging = @ \cup {receipt}])
    /\ Moved(p, [service[p] EXCEPT !.step = "acknowledging"])
    /\ UNCHANGED custody

SignAcknowledgement(p) ==
    /\ service[p].step = "acknowledging"
    /\ Moved(p, [service[p] EXCEPT !.step = "acknowledged", !.earlier = p])
    /\ UNCHANGED <<ledger, known, foreign, custody>>

Acknowledged(l, receipt, signature) ==
    [l EXCEPT !.acknowledging = @ \ {receipt},
              !.admissions = (@ \ {[receipt |-> receipt, acknowledgement |-> Nil]})
                             \cup {[receipt |-> receipt, acknowledgement |-> signature]}]

\* The acknowledgement that was finalized first stands.
FinalizeAcknowledgement(p) ==
    LET receipt == service[p].item IN
    /\ service[p].step = "acknowledged" /\ Begin(p)
    /\ \/ \E row \in RowOf(receipt) :
             /\ row.acknowledgement # Nil
             /\ Rollback(p)
             /\ Finish(p, receipt, row.acknowledgement)
       \/ /\ Pending(RowOf(receipt)) # {}
          /\ receipt \in ledger.acknowledging
          /\ Pending(Predecessors(ledger, receipt)) = {}
          /\ Commit(p, Acknowledged(ledger, receipt, service[p].earlier))
          /\ Finish(p, receipt, service[p].earlier)
    /\ UNCHANGED custody

-------------------------------------------------------------------------------
(* reconcile_pending: first the reservations, then the receipts without custody. *)

ReadPrepared(p) ==
    /\ service[p].step = "idle" /\ Begin(p)
    /\ Moved(p, [step |-> "sweep", plan |-> "prepared", todo |-> ledger.preparations])
    /\ Rollback(p)
    /\ UNCHANGED custody

\* A reservation that is gone is skipped.
TakePrepared(p) ==
    LET s == service[p] IN
    /\ s.step = "sweep" /\ s.plan = "prepared" /\ Begin(p)
    /\ \E body \in s.todo :
          LET rest == s.todo \ {body} IN
          IF body \in ledger.preparations
          THEN Moved(p, At("reserved", body,
                           [request |-> Nil, plan |-> "prepared", todo |-> rest]))
          ELSE Moved(p, [s EXCEPT !.todo = rest])
    /\ Rollback(p)
    /\ UNCHANGED custody

ReadPending(p) ==
    LET s == service[p] IN
    /\ s.step = "sweep" /\ s.plan = "prepared" /\ s.todo = {} /\ Begin(p)
    /\ Moved(p, [step |-> "sweep", plan |-> "pending",
                 todo |-> {row.receipt : row \in Pending(ledger.admissions)}])
    /\ Rollback(p)
    /\ UNCHANGED custody

TakePending(p) ==
    LET s == service[p] IN
    /\ s.step = "sweep" /\ s.plan = "pending"
    /\ \E receipt \in s.todo :
          /\ \A r \in s.todo : receipt.body.sequence <= r.body.sequence
          /\ Moved(p, At("stored", receipt,
                         [request |-> Nil, plan |-> "pending", todo |-> s.todo \ {receipt}]))
    /\ UNCHANGED <<ledger, known, foreign, custody>>

FinishSweep(p) ==
    /\ service[p].step = "sweep" /\ service[p].plan = "pending" /\ service[p].todo = {}
    /\ Moved(p, Idle)
    /\ UNCHANGED <<ledger, known, foreign, custody>>

\* The call returns its outcome, or a refusal or a failure of storage, signer, policy
\* authority or custody ends it; what it has committed stays.
CallFails(p) ==
    /\ service[p].step \notin {"closed", "creating", "idle"}
    /\ Moved(p, Idle)
    /\ UNCHANGED <<ledger, known, foreign, custody>>

ServiceDies(p) ==
    /\ service[p].step # "closed"
    /\ Moved(p, Closed)
    /\ known' = [known EXCEPT ![p] = [t \in Tenants |-> Nil]]
    /\ foreign' = [foreign EXCEPT ![p] = FALSE]
    /\ UNCHANGED <<ledger, custody>>

AdmissionNext ==
    \E p \in Services :
        \/ CreateFile(p) \/ CreateSchema(p) \/ OpenLedger(p)
        \/ RegisterLease(p)
        \/ ProbeRetry(p) \/ RetryStored(p) \/ RetryPrepared(p) \/ ReserveReceipt(p)
        \/ SignReceipt(p) \/ FinalizeExisting(p) \/ FinalizeAdmission(p)
        \/ PersistCustody(p) \/ AlreadyAcknowledged(p) \/ PrepareAcknowledgement(p)
        \/ SignAcknowledgement(p) \/ FinalizeAcknowledgement(p)
        \/ ReadPrepared(p) \/ TakePrepared(p) \/ ReadPending(p) \/ TakePending(p)
        \/ FinishSweep(p) \/ CallFails(p) \/ ServiceDies(p)

AdmissionSpec == AdmissionInit /\ [][AdmissionNext]_admissionVars

-------------------------------------------------------------------------------
(* Properties. *)

\* No order of reservations, signatures, finalizations, acknowledgements and deaths
\* leaves a ledger that _validate_complete_ledger refuses, nor a service whose cache of
\* validated heads disagrees with the tables: no service can lock itself, or another, out.
LedgerAlwaysValidates ==
    /\ ValidLedger(ledger)
    /\ \A p \in Services : service[p].step \notin {"closed", "creating"} =>
          \A t \in Tenants : TrustsHead(p, t)

Held(receipt) == [object |-> ObjectOf(receipt), receipt |-> receipt] \in custody

\* What admit answers is what the ledger and the custody store hold for that envelope,
\* whichever service signed it and however often; every receipt of the tenant before it
\* is in custody, and custody holds nothing the ledger does not.
AnswersAreHeld ==
    /\ \A p \in Services : service[p].step = "answered" =>
          LET answer == service[p] IN
          /\ answer.receipt.body.envelope = answer.request
          /\ [receipt |-> answer.receipt, acknowledgement |-> answer.acknowledgement]
                \in ledger.admissions
          /\ Held(answer.receipt)
          /\ \A row \in Predecessors(ledger, answer.receipt) : Held(row.receipt)
    /\ \A c \in custody : c.receipt \in Receipts(ledger)

\* No receipt, acknowledgement or custody object is ever replaced or removed.
SettledRowsStay ==
    /\ custody \subseteq custody'
    /\ Receipts(ledger) \subseteq Receipts(ledger)'
    /\ (ledger.admissions \ Pending(ledger.admissions)) \subseteq ledger'.admissions

\* What admit (admission.py) answers is final: it is held by ledger and custody when it
\* is answered, and no later step of any service replaces it.
OutcomesAreFinal == [][AnswersAreHeld' /\ SettledRowsStay]_admissionVars

\* Two people's keys, not two keys, attested every receipt at the instant it is dated;
\* and a receipt dated later was never admitted under an older revision of its policy,
\* nor two receipts of one revision under different bytes, across tenants and services.
AdmittedUnderTrust ==
    \A r \in Receipts(ledger) :
        /\ \E keys \in SUBSET Document(Policy(r.body)).keys :
              /\ \A k \in keys :
                    /\ \E i \in DOMAIN r.body.envelope.signatures :
                          /\ r.body.envelope.signatures[i].key = k.id
                          /\ r.body.envelope.signatures[i].genuine
                    /\ r.body.admitted >= k.from
                    /\ k.until = Nil \/ r.body.admitted < k.until
              /\ \A j, k \in keys : j # k => j.identity # k.identity
              /\ Cardinality(keys) = Document(Policy(r.body)).threshold
        /\ \A q \in Receipts(ledger) :
              Policy(q.body).id = Policy(r.body).id =>
                 /\ q.body.admitted < r.body.admitted =>
                       Policy(q.body).revision <= Policy(r.body).revision
                 /\ Policy(q.body).revision = Policy(r.body).revision =>
                       Policy(q.body) = Policy(r.body)
===============================================================================

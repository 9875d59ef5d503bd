--------------------------- MODULE AdmissionProofs ---------------------------
(***************************************************************************)
(* Proofs about the evidence ledger, for any number of services, tenants,  *)
(* leases, policies and admissions.                                        *)
(***************************************************************************)
EXTENDS EvidenceAdmission, FiniteSetTheorems, FunctionTheorems, TLAPS

----------------------------------------------------------------------------
(* The invariant of the ledger *)

\* What has been admitted or reserved: a body stays one when it is finalized.
Bodies(l) == {r.body : r \in Receipts(l)} \cup l.preparations

OfTenant(l, tenant) == {r \in Receipts(l) : Tenant(r.body) = tenant}
OfCollector(l, c) == {r \in Receipts(l) : Collector(r.body) = c}

\* A head is the last of the receipts it is the head of.
IsLast(head, receipts) ==
    IF receipts = {} THEN head = Nil
    ELSE head \in receipts /\ \A r \in receipts : r.body.sequence <= head.body.sequence

\* How many receipts the chain that ends in a head has.
Length(head) == IF head = Nil THEN 0 ELSE head.body.sequence

LeaseIsGranted(lease) == \E t \in Templates : lease = Granted(t, lease.prior)

Columns(l) ==
    [leases |-> l.leases, consumed |-> l.consumed, preparations |-> l.preparations,
     admissions |-> l.admissions, acknowledging |-> l.acknowledging,
     tenantHeads |-> l.tenantHeads, collectorHeads |-> l.collectorHeads,
     versions |-> l.versions, policyHeads |-> l.policyHeads, floor |-> l.floor]

\* The tables have their columns, and what they hold was granted and requested.
LedgerTypeOK(l) ==
    /\ l = Columns(l)
    /\ l.tenantHeads = [t \in Tenants |-> l.tenantHeads[t]]
    /\ l.collectorHeads = [c \in Collectors |-> l.collectorHeads[c]]
    /\ l.policyHeads = [i \in PolicyIds |-> l.policyHeads[i]]
    /\ l.floor \in Nat
    /\ \A lease \in l.leases : LeaseIsGranted(lease)
    /\ \A row \in l.admissions :
          row = [receipt |-> row.receipt, acknowledgement |-> row.acknowledgement]
    /\ \A b \in Bodies(l) :
          /\ Lease(b) \in l.leases
          /\ b.envelope.signatures \in SignatureLists[Lease(b).job]
          /\ b.sequence \in Nat \ {0} /\ b.admitted \in Nat

\* A receipt has one row and its tenant no other receipt of its sequence.
RowsAreUnique(l) ==
    /\ \A r, q \in l.admissions : r.receipt = q.receipt => r = q
    /\ \A r, q \in Receipts(l) :
          Tenant(r.body) = Tenant(q.body) /\ r.body.sequence = q.body.sequence => r = q
    /\ Nil \notin Receipts(l)

\* Each receipt names the one before it; none is missing up to the head.
ChainsAreLinked(l) ==
    /\ \A r \in Receipts(l) :
          IF r.body.sequence = 1 THEN r.body.previous = Nil
          ELSE /\ r.body.previous \in OfTenant(l, Tenant(r.body))
               /\ r.body.previous.body.sequence = r.body.sequence - 1
    /\ \A t \in Tenants :
          /\ IsLast(l.tenantHeads[t], OfTenant(l, t))
          /\ \A n \in 1..Length(l.tenantHeads[t]) :
                \E r \in OfTenant(l, t) : r.body.sequence = n
          /\ Length(l.tenantHeads[t]) <= MaxAdmissions

\* The receipts of a collector that were there before a receipt.
Earlier(l, receipt) ==
    {r \in OfCollector(l, Collector(receipt.body)) : r.body.sequence < receipt.body.sequence}

CollectorsContinue(l) ==
    /\ \A c \in Collectors : IsLast(l.collectorHeads[c], OfCollector(l, c))
    /\ \A r \in Receipts(l) :
          \E head \in {Nil} \cup Receipts(l) :
              IsLast(head, Earlier(l, r)) /\ ContinuesCollector(head, Lease(r.body))

\* Only the last receipt of a tenant may await custody.
OnlyHeadsArePending(l) ==
    /\ \A row \in Pending(l.admissions) :
          \A r \in OfTenant(l, Tenant(row.receipt.body)) :
              r.body.sequence <= row.receipt.body.sequence
    /\ \A r \in l.acknowledging : [receipt |-> r, acknowledgement |-> Nil] \in l.admissions

ConsumptionIsMarked(l) ==
    /\ \A r \in Receipts(l) : [envelope |-> r.body.envelope, receipt |-> r] \in l.consumed
    /\ \A c \in l.consumed : c.receipt \in Receipts(l) /\ c.envelope = c.receipt.body.envelope

\* A tenant has one reservation, of the place after its last receipt, of a lease that
\* no receipt has consumed, with room for it.
ReservationsHold(l) ==
    /\ \A b, c \in l.preparations : Tenant(b) = Tenant(c) => b = c
    /\ \A b \in l.preparations :
          /\ \A r \in Receipts(l) : Lease(r.body) # Lease(b)
          /\ ReservesNext(l, b)
          /\ Length(l.tenantHeads[Tenant(b)]) < MaxAdmissions

\* The versions are those of the bodies, unforked, and a head is the highest of its id.
PoliciesHold(l) ==
    /\ l.versions = {Policy(b) : b \in Bodies(l)}
    /\ \A v, w \in l.versions : v.id = w.id /\ v.revision = w.revision => v = w
    /\ \A v \in l.versions :
          /\ l.policyHeads[v.id] \in l.versions /\ l.policyHeads[v.id].id = v.id
          /\ v.revision <= l.policyHeads[v.id].revision
    /\ \A i \in PolicyIds : (\A v \in l.versions : v.id # i) => l.policyHeads[i] = Nil

BodiesVerify(l) ==
    \A b \in Bodies(l) :
        InWindow(b) /\ Verified(b.envelope, Document(Policy(b)), Statement, b.admitted)

\* Neither the floor nor a policy goes back.
InstantsAreOrdered(l) ==
    /\ IF Bodies(l) = {} THEN l.floor = 0
       ELSE \E b \in Bodies(l) : l.floor = b.admitted
    /\ \A b \in Bodies(l) : b.admitted <= l.floor
    /\ \A b, c \in Bodies(l) :
          Policy(b).id = Policy(c).id /\ b.admitted < c.admitted =>
             Policy(b).revision <= Policy(c).revision

LedgerInv(l) ==
    /\ LedgerTypeOK(l) /\ RowsAreUnique(l) /\ ChainsAreLinked(l) /\ CollectorsContinue(l)
    /\ OnlyHeadsArePending(l) /\ ConsumptionIsMarked(l) /\ ReservationsHold(l)
    /\ PoliciesHold(l) /\ BodiesVerify(l) /\ InstantsAreOrdered(l)

----------------------------------------------------------------------------
(* The invariant of the services *)

IsOpen(s) == s.step \notin {"closed", "creating"}

\* A service that has the ledger open knows its heads, unless it will read them again;
\* before the schema is there the ledger is empty and at most its creator is alive.
CachesAgree ==
    /\ service = [p \in Services |-> service[p]]
    /\ known = [p \in Services |-> known[p]]
    /\ foreign \in [Services -> BOOLEAN]
    /\ \A p \in Services :
          /\ ~ IsOpen(service[p]) => known[p] = [t \in Tenants |-> Nil] /\ ~ foreign[p]
          /\ IsOpen(service[p]) =>
                storage = "ready" /\ (foreign[p] \/ known[p] = ledger.tenantHeads)
          /\ service[p].step = "creating" => storage = "file"
    /\ \A p, q \in Services :
          service[p].step = "creating" /\ service[q].step = "creating" => p = q
    /\ storage # "ready" => ledger = EmptyLedger

HeldIn(c, receipt) == [object |-> ObjectOf(receipt), receipt |-> receipt] \in c

\* What a service will still work on is in the ledger.
TodoIsKnown(l, s) ==
    /\ s.plan = "prepared" => s.todo \subseteq Bodies(l)
    /\ s.plan = "pending" => s.todo \subseteq Receipts(l)

\* A call works for its request, if it has one, on a body the ledger has.
WorksFor(l, s, body) ==
    /\ s.request # Nil => s.request = body.envelope
    /\ TodoIsKnown(l, s)

\* What the steps of a call may rely on, with ledger l and custody c, whatever the other
\* services have done since it looked.
ServiceIsKnown(l, c, s) ==
    /\ s.step = "probed" =>
          /\ s.request.lease \in l.leases
          /\ s.request.signatures \in SignatureLists[s.request.lease.job]
    /\ s.step = "reserved" => s.item \in Bodies(l) /\ WorksFor(l, s, s.item)
    /\ s.step = "signed" =>
          s.item # Nil /\ s.item.body \in Bodies(l) /\ WorksFor(l, s, s.item.body)
    /\ s.step \in {"stored", "held", "acknowledging", "acknowledged"} =>
          /\ s.item \in Receipts(l) /\ WorksFor(l, s, s.item.body)
          /\ s = [step |-> s.step, item |-> s.item, request |-> s.request, plan |-> s.plan,
                  todo |-> s.todo, earlier |-> s.earlier]
    /\ s.step \in {"held", "acknowledging", "acknowledged"} => HeldIn(c, s.item)
    /\ s.step = "acknowledged" => s.earlier \in Services
    /\ s.step = "sweep" =>
          s = [step |-> "sweep", plan |-> s.plan, todo |-> s.todo] /\ TodoIsKnown(l, s)
    /\ s.step = "answered" =>
          /\ s.receipt.body.envelope = s.request
          /\ s.acknowledgement \in Services
          /\ [receipt |-> s.receipt, acknowledgement |-> s.acknowledgement] \in l.admissions
          /\ HeldIn(c, s.receipt)

\* An acknowledged receipt is in custody, which holds only receipts of the ledger.
CustodyIsKnown(l, c) ==
    /\ \A row \in l.admissions :
          row.acknowledgement # Nil =>
             row.acknowledgement \in Services /\ HeldIn(c, row.receipt)
    /\ \A object \in c : object.receipt \in Receipts(l)

\* The inductive invariant.
AdmissionInv ==
    /\ LedgerInv(ledger) /\ CachesAgree
    /\ \A p \in Services : ServiceIsKnown(ledger, custody, service[p])
    /\ CustodyIsKnown(ledger, custody)

----------------------------------------------------------------------------
(* What the invariant says of bodies and heads *)

LEMMA LeaseTypes ==
    ASSUME NEW lease, LeaseIsGranted(lease)
    PROVE  /\ lease.tenant \in Tenants /\ << lease.tenant, lease.collector >> \in Collectors
           /\ lease.policy.id \in PolicyIds /\ lease.policy.revision \in Nat
           /\ lease.policy # Nil
           /\ lease.epoch \in Nat /\ lease.sequence \in Nat
           /\ PolicyDocuments[lease.policy.digest].threshold \in Nat
           /\ \A s \in SignatureLists[lease.job] : Len(s) \in Nat /\ DOMAIN s = 1..Len(s)
<1>1. PICK t \in Templates : lease = Granted(t, lease.prior)
  BY DEF LeaseIsGranted
<1>2. /\ lease.tenant = t.tenant /\ lease.collector = t.collector /\ lease.policy = t.policy
      /\ lease.epoch = t.epoch /\ lease.sequence = t.sequence /\ lease.job = t.job
  BY <1>1 DEF Granted
<1>3. t.epoch \in Nat /\ t.sequence \in Nat /\ t.policy.revision \in Nat /\ t.policy # Nil
  BY EvidenceAdmissionConstants
<1>4. /\ PolicyDocuments[t.policy.digest].threshold \in Nat
      /\ \A s \in SignatureLists[t.job] : Len(s) \in Nat /\ DOMAIN s = 1..Len(s)
  BY EvidenceAdmissionConstants
<1> QED
  BY <1>2, <1>3, <1>4 DEF Tenants, Collectors, PolicyIds

LEMMA BodyTypes ==
    ASSUME NEW l, LedgerTypeOK(l), NEW b \in Bodies(l)
    PROVE  /\ Tenant(b) \in Tenants /\ Collector(b) \in Collectors
           /\ Policy(b).id \in PolicyIds /\ Policy(b).revision \in Nat /\ Policy(b) # Nil
           /\ b.sequence \in Nat \ {0} /\ b.admitted \in Nat
           /\ Document(Policy(b)).threshold \in Nat
           /\ Len(b.envelope.signatures) \in Nat
           /\ DOMAIN b.envelope.signatures = 1..Len(b.envelope.signatures)
<1>1. LeaseIsGranted(Lease(b)) /\ b.envelope.signatures \in SignatureLists[Lease(b).job]
  BY DEF LedgerTypeOK
<1>2. b.sequence \in Nat \ {0} /\ b.admitted \in Nat
  BY DEF LedgerTypeOK
<1> QED
  BY <1>1, <1>2, LeaseTypes DEF Tenant, Collector, Policy, Document

\* A collector has one tenant.
LEMMA SameCollector ==
    ASSUME NEW b, NEW c, Collector(b) = Collector(c)
    PROVE  Tenant(b) = Tenant(c)
  BY DEF Collector, Tenant

LEMMA ReceiptsHaveBodies ==
    ASSUME NEW l, NEW r \in Receipts(l)
    PROVE  r.body \in Bodies(l)
  BY DEF Bodies

\* The row that CHOOSE names in Latest is the head's: no two rows have one sequence.
LEMMA LatestIsLast ==
    ASSUME NEW rows, NEW head, IsLast(head, {row.receipt : row \in rows}),
           \A row \in rows : row.receipt.body.sequence \in Nat,
           \A r, q \in rows :
              r.receipt.body.sequence = q.receipt.body.sequence => r.receipt = q.receipt
    PROVE  Latest(rows) = head
<1>1. CASE rows = {}
  BY <1>1 DEF IsLast, Latest
<1>2. CASE rows # {}
  <2> DEFINE Last(row) ==
        \A r \in rows : r.receipt.body.sequence <= row.receipt.body.sequence
             chosen == CHOOSE row \in rows : Last(row)
  <2>1. /\ head \in {row.receipt : row \in rows}
        /\ \A r \in {row.receipt : row \in rows} : r.body.sequence <= head.body.sequence
    BY <1>2 DEF IsLast
  <2>2. PICK row \in rows : head = row.receipt
    BY <2>1
  <2>3. Last(row)
    BY <2>1, <2>2
  <2>4. chosen \in rows /\ Last(chosen)
    BY <2>2, <2>3
  <2>5. chosen.receipt = head
    BY <2>2, <2>3, <2>4
  <2> QED
    BY <1>2, <2>5 DEF Latest
<1> QED
  BY <1>1, <1>2

LEMMA TenantRows ==
    ASSUME NEW l, NEW t
    PROVE  {row.receipt : row \in RowsOf(l, t)} = OfTenant(l, t)
  BY DEF RowsOf, OfTenant, Receipts

LEMMA CollectorRows ==
    ASSUME NEW l, NEW c
    PROVE  {row.receipt : row \in {row \in l.admissions : Collector(row.receipt.body) = c}}
              = OfCollector(l, c)
  BY DEF OfCollector, Receipts

LEMMA HeadsHold ==
    ASSUME NEW l, LedgerInv(l)
    PROVE  /\ \A t \in Tenants : TenantHeadHolds(l, t)
           /\ \A c \in Collectors : CollectorHeadHolds(l, c)
<1>1. \A r \in Receipts(l) : r.body.sequence \in Nat
  BY BodyTypes, ReceiptsHaveBodies DEF LedgerInv
<1>2. \A r, q \in Receipts(l) :
         Tenant(r.body) = Tenant(q.body) /\ r.body.sequence = q.body.sequence => r = q
  BY DEF LedgerInv, RowsAreUnique
<1>3. ASSUME NEW t \in Tenants
      PROVE  TenantHeadHolds(l, t)
  <2>1. IsLast(l.tenantHeads[t], {row.receipt : row \in RowsOf(l, t)})
    BY <1>3, TenantRows DEF LedgerInv, ChainsAreLinked
  <2>2. \A row \in RowsOf(l, t) : row.receipt \in Receipts(l) /\ Tenant(row.receipt.body) = t
    BY DEF RowsOf, Receipts
  <2>3. Latest(RowsOf(l, t)) = l.tenantHeads[t]
    BY <2>1, <2>2, <1>1, <1>2, LatestIsLast
  <2> QED
    BY <2>3 DEF TenantHeadHolds
<1>4. ASSUME NEW c \in Collectors
      PROVE  CollectorHeadHolds(l, c)
  <2> DEFINE rows == {row \in l.admissions : Collector(row.receipt.body) = c}
  <2>1. IsLast(l.collectorHeads[c], {row.receipt : row \in rows})
    BY <1>4, CollectorRows DEF LedgerInv, CollectorsContinue
  <2>2. \A row \in rows : row.receipt \in Receipts(l) /\ Collector(row.receipt.body) = c
    BY DEF Receipts
  <2>3. Latest(rows) = l.collectorHeads[c]
    <3> HIDE DEF rows
    <3> QED
      BY <2>1, <2>2, <1>1, <1>2, LatestIsLast, SameCollector
  <2> QED
    BY <2>3 DEF CollectorHeadHolds
<1> QED
  BY <1>3, <1>4

\* A tenant's receipts are numbered from 1 to the sequence of its head.
LEMMA ChainIsCounted ==
    ASSUME NEW l, LedgerInv(l), NEW t \in Tenants
    PROVE  /\ Length(l.tenantHeads[t]) \in Nat
           /\ Cardinality(RowsOf(l, t)) = Length(l.tenantHeads[t])
           /\ {row.receipt.body.sequence : row \in RowsOf(l, t)}
                 = 1..Length(l.tenantHeads[t])
<1> DEFINE n == Length(l.tenantHeads[t])
           rows == RowsOf(l, t)
           f == [row \in rows |-> row.receipt.body.sequence]
<1>1. \A r \in Receipts(l) : r.body.sequence \in Nat \ {0}
  BY BodyTypes, ReceiptsHaveBodies DEF LedgerInv
<1>2. IsLast(l.tenantHeads[t], OfTenant(l, t)) /\ Nil \notin Receipts(l)
  BY DEF LedgerInv, ChainsAreLinked, RowsAreUnique
<1>3. /\ n \in Nat
      /\ \A r \in OfTenant(l, t) : r.body.sequence \in 1..n
  <2>1. CASE OfTenant(l, t) = {}
    BY <2>1, <1>2 DEF IsLast, Length
  <2>2. CASE OfTenant(l, t) # {}
    <3>1. /\ l.tenantHeads[t] \in OfTenant(l, t)
          /\ \A r \in OfTenant(l, t) : r.body.sequence <= l.tenantHeads[t].body.sequence
      BY <2>2, <1>2 DEF IsLast
    <3>2. l.tenantHeads[t] # Nil /\ OfTenant(l, t) \subseteq Receipts(l)
      BY <3>1, <1>2 DEF OfTenant
    <3>3. n = l.tenantHeads[t].body.sequence
      BY <3>2 DEF Length
    <3> QED
      BY <3>1, <3>2, <3>3, <1>1
  <2> QED
    BY <2>1, <2>2
<1>4. \A k \in 1..n : \E r \in OfTenant(l, t) : r.body.sequence = k
  BY DEF LedgerInv, ChainsAreLinked
<1>5. \A row \in rows : row.receipt \in OfTenant(l, t) /\ row \in l.admissions
  BY DEF RowsOf, OfTenant, Receipts
<1>6. \A r \in OfTenant(l, t) : \E row \in rows : row.receipt = r
  BY TenantRows
<1>7. \A r, q \in rows : f[r] = f[q] => r = q
  <2>1. \A r, q \in OfTenant(l, t) : r.body.sequence = q.body.sequence => r = q
    BY DEF LedgerInv, RowsAreUnique, OfTenant
  <2>2. \A r, q \in l.admissions : r.receipt = q.receipt => r = q
    BY DEF LedgerInv, RowsAreUnique
  <2> QED
    BY <1>5, <2>1, <2>2
<1>8. f \in Bijection(rows, 1..n)
  <2> HIDE DEF n, rows
  <2>1. f \in [rows -> 1..n]
    BY <1>3, <1>5
  <2>2. \A k \in 1..n : \E row \in rows : f[row] = k
    BY <1>4, <1>6
  <2> QED
    BY <2>1, <2>2, <1>7 DEF Bijection, Injection, Surjection, IsInjective
<1>9. IsFiniteSet(rows) /\ Cardinality(rows) = n
  <2> HIDE DEF n, rows
  <2>1. ExistsBijection(rows, 1..n)
    BY <1>8 DEF ExistsBijection
  <2>2. ExistsBijection(1..n, rows)
    BY <2>1, Fun_ExistsBijSymmetric
  <2>3. IsFiniteSet(1..n) /\ Cardinality(1..n) = n
    BY <1>3, FS_Interval
  <2> QED
    BY <2>2, <2>3, FS_Bijection
<1>10. {row.receipt.body.sequence : row \in rows} = 1..n
  BY <1>3, <1>4, <1>5, <1>6
<1> QED
  BY <1>3, <1>9, <1>10

\* The head CHOOSE names in Highest: no two versions of one id have one revision.
LEMMA HighestIs ==
    ASSUME NEW policies, NEW head \in policies,
           \A p \in policies : p.revision \in Nat /\ p.revision <= head.revision,
           \A p, q \in policies : p.revision = q.revision => p = q
    PROVE  Highest(policies) = head
<1> DEFINE Top(p) == \A q \in policies : q.revision <= p.revision
           chosen == CHOOSE p \in policies : Top(p)
<1>1. Top(head)
  OBVIOUS
<1>2. chosen \in policies /\ Top(chosen)
  BY <1>1
<1>3. chosen = head
  BY <1>1, <1>2
<1> QED
  BY <1>3 DEF Highest

LEMMA PolicyHeadsHold ==
    ASSUME NEW l, LedgerInv(l), NEW id \in PolicyIds
    PROVE  PolicyHeadHolds(l, id)
<1> DEFINE used == {Policy(r.body) : r \in Receipts(l)} \cup {Policy(b) : b \in l.preparations}
           policies == {p \in l.versions : p.id = id}
<1>1. used = l.versions
  BY DEF LedgerInv, PoliciesHold, Bodies
<1>2. \A v \in l.versions : v.revision \in Nat
  BY BodyTypes DEF LedgerInv, PoliciesHold
<1>3. l.policyHeads[id] = Highest(policies)
  <2>1. CASE policies = {}
    BY <2>1 DEF LedgerInv, PoliciesHold, Highest
  <2>2. CASE policies # {}
    <3>1. /\ l.policyHeads[id] \in policies
          /\ \A v \in policies : v.revision <= l.policyHeads[id].revision
      BY <2>2 DEF LedgerInv, PoliciesHold
    <3>2. \A v, w \in policies : v.revision = w.revision => v = w
      BY DEF LedgerInv, PoliciesHold
    <3>3. \A v \in policies : v.revision \in Nat
      BY <1>2
    <3> HIDE DEF policies
    <3> QED
      BY <3>1, <3>2, <3>3, HighestIs
  <2> QED
    BY <2>1, <2>2
<1> QED
  BY <1>1, <1>3 DEF PolicyHeadHolds

LEMMA BodiesVerifyAll ==
    ASSUME NEW l, LedgerInv(l), NEW b \in Bodies(l)
    PROVE  BodyVerifies(l, b)
<1>1. Lease(b) \in l.leases
  BY DEF LedgerInv, LedgerTypeOK
<1>2. Policy(b) \in l.versions
  BY DEF LedgerInv, PoliciesHold
<1>3. Policy(b).revision <= l.policyHeads[Policy(b).id].revision
  BY <1>2 DEF LedgerInv, PoliciesHold
<1>4. InWindow(b) /\ Verified(b.envelope, Document(Policy(b)), Statement, b.admitted)
  BY DEF LedgerInv, BodiesVerify
<1> QED
  BY <1>1, <1>2, <1>3, <1>4 DEF BodyVerifies

\* A receipt that has a later one of its tenant is acknowledged.
LEMMA PredecessorsAreSettled ==
    ASSUME NEW l, LedgerInv(l), NEW r \in Receipts(l)
    PROVE  Pending(Predecessors(l, r)) = {}
<1>1. SUFFICES ASSUME NEW row \in Pending(Predecessors(l, r)) PROVE FALSE
  OBVIOUS
<1>2. /\ row \in Pending(l.admissions) /\ Tenant(row.receipt.body) = Tenant(r.body)
      /\ row.receipt.body.sequence < r.body.sequence
  BY <1>1 DEF Pending, Predecessors, RowsOf
<1>3. r \in OfTenant(l, Tenant(row.receipt.body))
  BY <1>2 DEF OfTenant
<1>4. r.body.sequence <= row.receipt.body.sequence
  BY <1>2, <1>3 DEF LedgerInv, OnlyHeadsArePending
<1>5. row.receipt \in Receipts(l)
  BY <1>2 DEF Pending, Receipts
<1>6. r.body.sequence \in Nat /\ row.receipt.body.sequence \in Nat
  BY <1>5, BodyTypes, ReceiptsHaveBodies DEF LedgerInv
<1> QED
  BY <1>2, <1>4, <1>6

LEMMA TenantChainsHold ==
    ASSUME NEW l, LedgerInv(l), NEW t \in Tenants
    PROVE  TenantChainHolds(l, t)
<1> DEFINE rows == RowsOf(l, t)
           ReceiptAt(n) == {row.receipt : row \in {r \in rows : r.receipt.body.sequence = n}}
           Before(row, c) ==
              {r \in Predecessors(l, row.receipt) : Collector(r.receipt.body) = c}
<1>1. /\ Cardinality(rows) <= MaxAdmissions
      /\ {row.receipt.body.sequence : row \in rows} = 1..Cardinality(rows)
  BY ChainIsCounted DEF LedgerInv, ChainsAreLinked
<1>2. TenantHeadHolds(l, t)
  BY HeadsHold
<1>3. ASSUME NEW row \in rows
      PROVE  LET body == row.receipt.body IN
             /\ ReceiptRowVerifies(l, row)
             /\ IF body.sequence = 1 THEN body.previous = Nil
                ELSE ReceiptAt(body.sequence - 1) = {body.previous}
             /\ Pending(Predecessors(l, row.receipt)) = {}
             /\ ContinuesCollector(Latest(Before(row, Collector(body))), Lease(body))
  <2> DEFINE r == row.receipt
             body == r.body
  <2>1. row \in l.admissions /\ r \in Receipts(l) /\ Tenant(body) = t /\ r \in OfTenant(l, t)
    BY DEF RowsOf, Receipts, OfTenant
  <2>2. ReceiptRowVerifies(l, row)
    <3>1. BodyVerifies(l, body)
      BY <2>1, BodiesVerifyAll, ReceiptsHaveBodies
    <3>2. [envelope |-> body.envelope, receipt |-> r] \in l.consumed
      BY <2>1 DEF LedgerInv, ConsumptionIsMarked
    <3> QED
      BY <3>1, <3>2 DEF ReceiptRowVerifies
  <2>3. IF body.sequence = 1 THEN body.previous = Nil
        ELSE ReceiptAt(body.sequence - 1) = {body.previous}
    <3>1. CASE body.sequence = 1
      BY <2>1, <3>1 DEF LedgerInv, ChainsAreLinked
    <3>2. CASE body.sequence # 1
      <4>1. /\ body.previous \in OfTenant(l, t)
            /\ body.previous.body.sequence = body.sequence - 1
        BY <2>1, <3>2 DEF LedgerInv, ChainsAreLinked
      <4>2. PICK before \in rows : before.receipt = body.previous
        BY <4>1, TenantRows
      <4>3. ASSUME NEW q \in rows, q.receipt.body.sequence = body.sequence - 1
            PROVE  q.receipt = body.previous
        <5>1. q.receipt \in OfTenant(l, t)
          BY TenantRows
        <5> QED
          BY <4>1, <4>3, <5>1 DEF LedgerInv, RowsAreUnique, OfTenant
      <4> QED
        BY <3>2, <4>1, <4>2, <4>3
    <3> QED
      BY <3>1, <3>2
  <2>4. Pending(Predecessors(l, r)) = {}
    BY <2>1, PredecessorsAreSettled
  <2>5. ContinuesCollector(Latest(Before(row, Collector(body))), Lease(body))
    <3>1. PICK head \in {Nil} \cup Receipts(l) :
             IsLast(head, Earlier(l, r)) /\ ContinuesCollector(head, Lease(body))
      BY <2>1 DEF LedgerInv, CollectorsContinue
    <3>2. {q.receipt : q \in Before(row, Collector(body))} = Earlier(l, r)
      BY SameCollector DEF Predecessors, RowsOf, Earlier, OfCollector, Receipts
    <3>3. \A q \in Before(row, Collector(body)) :
             q.receipt \in Receipts(l) /\ Tenant(q.receipt.body) = t
      BY <2>1 DEF Predecessors, RowsOf, Receipts
    <3>4. \A q \in Receipts(l) : q.body.sequence \in Nat
      BY BodyTypes, ReceiptsHaveBodies DEF LedgerInv
    <3>5. \A q, s \in Receipts(l) :
             Tenant(q.body) = Tenant(s.body) /\ q.body.sequence = s.body.sequence => q = s
      BY DEF LedgerInv, RowsAreUnique
    <3>6. Latest(Before(row, Collector(body))) = head
      <4> HIDE DEF Before
      <4> QED
        BY <3>1, <3>2, <3>3, <3>4, <3>5, LatestIsLast
    <3> QED
      BY <3>1, <3>6
  <2> QED
    BY <2>2, <2>3, <2>4, <2>5
<1> QED
  BY <1>1, <1>2, <1>3 DEF TenantChainHolds

\* _validate_complete_ledger accepts every ledger of the invariant.
LEMMA LedgerValidates ==
    ASSUME NEW l, LedgerInv(l)
    PROVE  ValidLedger(l)
<1>1. \A id \in PolicyIds : PolicyHeadHolds(l, id)
  BY PolicyHeadsHold
<1>2. \A t \in Tenants : TenantChainHolds(l, t)
  BY TenantChainsHold
<1>3. \A c \in Collectors : CollectorHeadHolds(l, c)
  BY HeadsHold
<1>4. ASSUME NEW b \in l.preparations
      PROVE  PreparationVerifies(l, b) /\ ReservesNext(l, b)
  <2>1. b \in Bodies(l)
    BY DEF Bodies
  <2>2. BodyVerifies(l, b)
    BY <2>1, BodiesVerifyAll
  <2>3. \A r \in Receipts(l) : Lease(r.body) # Lease(b)
    BY DEF LedgerInv, ReservationsHold
  <2>4. ASSUME NEW c \in l.consumed
        PROVE  c.envelope.lease # Lease(b)
    <3>1. c.receipt \in Receipts(l) /\ c.envelope = c.receipt.body.envelope
      BY DEF LedgerInv, ConsumptionIsMarked
    <3> QED
      BY <2>3, <3>1 DEF Lease
  <2>5. ReservesNext(l, b)
    BY DEF LedgerInv, ReservationsHold
  <2> QED
    BY <2>2, <2>4, <2>5 DEF PreparationVerifies
<1>5. ASSUME NEW r \in l.acknowledging
      PROVE  AcknowledgingVerifies(l, r)
  <2>1. [receipt |-> r, acknowledgement |-> Nil] \in l.admissions
    BY DEF LedgerInv, OnlyHeadsArePending
  <2>2. r \in Receipts(l)
    BY <2>1 DEF Receipts
  <2> QED
    BY <2>1, <2>2, PredecessorsAreSettled DEF AcknowledgingVerifies
<1>6. LET instants == {r.body.admitted : r \in Receipts(l)}
                      \cup {b.admitted : b \in l.preparations}
      IN IF instants = {} THEN l.floor = 0
         ELSE l.floor \in instants /\ \A i \in instants : i <= l.floor
  <2> DEFINE instants == {r.body.admitted : r \in Receipts(l)}
                         \cup {b.admitted : b \in l.preparations}
  <2>1. instants = {b.admitted : b \in Bodies(l)}
    BY DEF Bodies
  <2>2. /\ IF Bodies(l) = {} THEN l.floor = 0
           ELSE \E b \in Bodies(l) : l.floor = b.admitted
        /\ \A b \in Bodies(l) : b.admitted <= l.floor
    BY DEF LedgerInv, InstantsAreOrdered
  <2> HIDE DEF instants
  <2>3. IF instants = {} THEN l.floor = 0
        ELSE l.floor \in instants /\ \A i \in instants : i <= l.floor
    BY <2>1, <2>2
  <2> QED
    BY <2>3 DEF instants
<1> QED
  BY <1>1, <1>2, <1>3, <1>4, <1>5, <1>6 DEF ValidLedger

----------------------------------------------------------------------------
(* The writes of a transaction *)

Settled(l) == l.admissions \ Pending(l.admissions)

\* Leases, bodies, receipts, settled rows and custody only grow.
Grows(l, c, m, d) ==
    /\ l.leases \subseteq m.leases
    /\ Bodies(l) \subseteq Bodies(m) /\ Receipts(l) \subseteq Receipts(m)
    /\ Settled(l) \subseteq m.admissions
    /\ c \subseteq d

LEMMA RegisteredColumns ==
    ASSUME NEW l, l = Columns(l), NEW lease,
           NEW m, m = [l EXCEPT !.leases = @ \cup {lease}]
    PROVE  /\ m = Columns(m)
           /\ m.leases = l.leases \cup {lease}
           /\ m.consumed = l.consumed /\ m.preparations = l.preparations
           /\ m.admissions = l.admissions /\ m.acknowledging = l.acknowledging
           /\ m.tenantHeads = l.tenantHeads /\ m.collectorHeads = l.collectorHeads
           /\ m.versions = l.versions /\ m.policyHeads = l.policyHeads
           /\ m.floor = l.floor
  BY DEF Columns

LEMMA ReservedColumns ==
    ASSUME NEW l, l = Columns(l), NEW body, NEW m, m = Reserved(l, body)
    PROVE  /\ m = Columns(m)
           /\ m.leases = l.leases
           /\ m.consumed = l.consumed /\ m.preparations = l.preparations \cup {body}
           /\ m.admissions = l.admissions /\ m.acknowledging = l.acknowledging
           /\ m.tenantHeads = l.tenantHeads /\ m.collectorHeads = l.collectorHeads
           /\ m.versions = l.versions \cup {Policy(body)}
           /\ m.policyHeads = [l.policyHeads EXCEPT ![Policy(body).id] = Policy(body)]
           /\ m.floor = body.admitted
  BY DEF Columns, Reserved

LEMMA FinalizedColumns ==
    ASSUME NEW l, l = Columns(l), NEW receipt, NEW m, m = Finalized(l, receipt)
    PROVE  /\ m = Columns(m)
           /\ m.leases = l.leases
           /\ m.consumed = l.consumed \cup
                 {[envelope |-> receipt.body.envelope, receipt |-> receipt]}
           /\ m.preparations = l.preparations \ {receipt.body}
           /\ m.admissions = l.admissions \cup
                 {[receipt |-> receipt, acknowledgement |-> Nil]}
           /\ m.acknowledging = l.acknowledging
           /\ m.tenantHeads = [l.tenantHeads EXCEPT ![Tenant(receipt.body)] = receipt]
           /\ m.collectorHeads =
                 [l.collectorHeads EXCEPT ![Collector(receipt.body)] = receipt]
           /\ m.versions = l.versions /\ m.policyHeads = l.policyHeads
           /\ m.floor = l.floor
  BY DEF Columns, Finalized

LEMMA PreparedColumns ==
    ASSUME NEW l, l = Columns(l), NEW receipt,
           NEW m, m = [l EXCEPT !.acknowledging = @ \cup {receipt}]
    PROVE  /\ m = Columns(m)
           /\ m.leases = l.leases
           /\ m.consumed = l.consumed /\ m.preparations = l.preparations
           /\ m.admissions = l.admissions
           /\ m.acknowledging = l.acknowledging \cup {receipt}
           /\ m.tenantHeads = l.tenantHeads /\ m.collectorHeads = l.collectorHeads
           /\ m.versions = l.versions /\ m.policyHeads = l.policyHeads
           /\ m.floor = l.floor
  BY DEF Columns

LEMMA AcknowledgedColumns ==
    ASSUME NEW l, l = Columns(l), NEW receipt, NEW signature,
           NEW m, m = Acknowledged(l, receipt, signature)
    PROVE  /\ m = Columns(m)
           /\ m.leases = l.leases
           /\ m.consumed = l.consumed /\ m.preparations = l.preparations
           /\ m.admissions = (l.admissions \ {[receipt |-> receipt, acknowledgement |-> Nil]})
                 \cup {[receipt |-> receipt, acknowledgement |-> signature]}
           /\ m.acknowledging = l.acknowledging \ {receipt}
           /\ m.tenantHeads = l.tenantHeads /\ m.collectorHeads = l.collectorHeads
           /\ m.versions = l.versions /\ m.policyHeads = l.policyHeads
           /\ m.floor = l.floor
  BY DEF Columns, Acknowledged

\* A write that leaves the receipts and the heads leaves the chains.
LEMMA SameChains ==
    ASSUME NEW l, LedgerInv(l), NEW m, Receipts(m) = Receipts(l), m.consumed = l.consumed,
           m.tenantHeads = l.tenantHeads, m.collectorHeads = l.collectorHeads
    PROVE  /\ \A t : OfTenant(m, t) = OfTenant(l, t)
           /\ ChainsAreLinked(m) /\ CollectorsContinue(m) /\ ConsumptionIsMarked(m)
<1>1. \A t : OfTenant(m, t) = OfTenant(l, t)
  BY DEF OfTenant
<1>2. \A c : OfCollector(m, c) = OfCollector(l, c)
  BY DEF OfCollector
<1>3. \A r : Earlier(m, r) = Earlier(l, r)
  BY <1>2 DEF Earlier
<1>4. ChainsAreLinked(m)
  BY <1>1 DEF LedgerInv, ChainsAreLinked
<1>5. CollectorsContinue(m)
  BY <1>2, <1>3 DEF LedgerInv, CollectorsContinue
<1>6. ConsumptionIsMarked(m)
  BY DEF LedgerInv, ConsumptionIsMarked
<1> QED
  BY <1>1, <1>4, <1>5, <1>6

\* A write that leaves the bodies leaves the policies and the order of the instants.
LEMMA SameBodies ==
    ASSUME NEW l, LedgerInv(l), NEW m, Bodies(m) = Bodies(l),
           m.versions = l.versions, m.policyHeads = l.policyHeads, m.floor = l.floor
    PROVE  PoliciesHold(m) /\ BodiesVerify(m) /\ InstantsAreOrdered(m)
<1>1. PoliciesHold(m)
  BY DEF LedgerInv, PoliciesHold
<1>2. BodiesVerify(m) /\ InstantsAreOrdered(m)
  BY DEF LedgerInv, BodiesVerify, InstantsAreOrdered
<1> QED
  BY <1>1, <1>2

LEMMA SameReceipts ==
    ASSUME NEW l, LedgerInv(l), NEW m, Receipts(m) = Receipts(l),
           m.consumed = l.consumed, m.preparations = l.preparations,
           m.tenantHeads = l.tenantHeads, m.collectorHeads = l.collectorHeads,
           m.versions = l.versions, m.policyHeads = l.policyHeads, m.floor = l.floor
    PROVE  /\ Bodies(m) = Bodies(l)
           /\ \A t : OfTenant(m, t) = OfTenant(l, t)
           /\ ChainsAreLinked(m) /\ CollectorsContinue(m) /\ ConsumptionIsMarked(m)
           /\ PoliciesHold(m) /\ BodiesVerify(m) /\ InstantsAreOrdered(m)
<1>1. Bodies(m) = Bodies(l)
  BY DEF Bodies
<1> QED
  BY <1>1, SameChains, SameBodies

\* A lease that nothing uses yet.
LEMMA RegisteredHolds ==
    ASSUME NEW l, LedgerInv(l), NEW lease, LeaseIsGranted(lease),
           NEW m, m = [l EXCEPT !.leases = @ \cup {lease}]
    PROVE  /\ LedgerInv(m) /\ m.tenantHeads = l.tenantHeads
           /\ m.admissions = l.admissions /\ \A c : Grows(l, c, m, c)
<1>0. l = Columns(l)
  BY DEF LedgerInv, LedgerTypeOK
<1>1. /\ m = Columns(m)
      /\ m.leases = l.leases \cup {lease}
      /\ m.consumed = l.consumed /\ m.preparations = l.preparations
      /\ m.admissions = l.admissions /\ m.acknowledging = l.acknowledging
      /\ m.tenantHeads = l.tenantHeads /\ m.collectorHeads = l.collectorHeads
      /\ m.versions = l.versions /\ m.policyHeads = l.policyHeads
      /\ m.floor = l.floor
  BY <1>0, RegisteredColumns
<1>2. Receipts(m) = Receipts(l)
  BY <1>1 DEF Receipts
<1>3. /\ Bodies(m) = Bodies(l)
      /\ \A t : OfTenant(m, t) = OfTenant(l, t)
      /\ ChainsAreLinked(m) /\ CollectorsContinue(m) /\ ConsumptionIsMarked(m)
      /\ PoliciesHold(m) /\ BodiesVerify(m) /\ InstantsAreOrdered(m)
  BY <1>1, <1>2, SameReceipts
<1>4. LedgerTypeOK(m)
  BY <1>1, <1>3 DEF LedgerInv, LedgerTypeOK
<1>5. RowsAreUnique(m) /\ OnlyHeadsArePending(m)
  BY <1>1, <1>2, <1>3 DEF LedgerInv, RowsAreUnique, OnlyHeadsArePending
<1>6. ReservationsHold(m)
  BY <1>1, <1>2 DEF LedgerInv, ReservationsHold, ReservesNext, RowsOf
<1>7. \A c : Grows(l, c, m, c)
  BY <1>1, <1>2, <1>3 DEF Grows, Settled
<1> QED
  BY <1>1, <1>3, <1>4, <1>5, <1>6, <1>7 DEF LedgerInv

\* An acknowledgement is prepared for a receipt without one.
LEMMA PreparedHolds ==
    ASSUME NEW l, LedgerInv(l), NEW receipt,
           [receipt |-> receipt, acknowledgement |-> Nil] \in l.admissions,
           NEW m, m = [l EXCEPT !.acknowledging = @ \cup {receipt}]
    PROVE  /\ LedgerInv(m) /\ m.tenantHeads = l.tenantHeads
           /\ m.admissions = l.admissions /\ \A c : Grows(l, c, m, c)
<1>0. l = Columns(l)
  BY DEF LedgerInv, LedgerTypeOK
<1>1. /\ m = Columns(m)
      /\ m.leases = l.leases
      /\ m.consumed = l.consumed /\ m.preparations = l.preparations
      /\ m.admissions = l.admissions
      /\ m.acknowledging = l.acknowledging \cup {receipt}
      /\ m.tenantHeads = l.tenantHeads /\ m.collectorHeads = l.collectorHeads
      /\ m.versions = l.versions /\ m.policyHeads = l.policyHeads
      /\ m.floor = l.floor
  BY <1>0, PreparedColumns
<1>2. Receipts(m) = Receipts(l)
  BY <1>1 DEF Receipts
<1>3. /\ Bodies(m) = Bodies(l)
      /\ \A t : OfTenant(m, t) = OfTenant(l, t)
      /\ ChainsAreLinked(m) /\ CollectorsContinue(m) /\ ConsumptionIsMarked(m)
      /\ PoliciesHold(m) /\ BodiesVerify(m) /\ InstantsAreOrdered(m)
  BY <1>1, <1>2, SameReceipts
<1>4. LedgerTypeOK(m)
  BY <1>1, <1>3 DEF LedgerInv, LedgerTypeOK
<1>5. RowsAreUnique(m) /\ OnlyHeadsArePending(m)
  BY <1>1, <1>2, <1>3 DEF LedgerInv, RowsAreUnique, OnlyHeadsArePending
<1>6. ReservationsHold(m)
  BY <1>1, <1>2 DEF LedgerInv, ReservationsHold, ReservesNext, RowsOf
<1>7. \A c : Grows(l, c, m, c)
  BY <1>1, <1>2, <1>3 DEF Grows, Settled
<1> QED
  BY <1>1, <1>3, <1>4, <1>5, <1>6, <1>7 DEF LedgerInv

\* A receipt's row gets its acknowledgement: the receipts stay what they were.
LEMMA AcknowledgedHolds ==
    ASSUME NEW l, LedgerInv(l), NEW receipt, NEW signature \in Services,
           [receipt |-> receipt, acknowledgement |-> Nil] \in l.admissions,
           NEW m, m = Acknowledged(l, receipt, signature)
    PROVE  /\ LedgerInv(m) /\ m.tenantHeads = l.tenantHeads /\ \A c : Grows(l, c, m, c)
           /\ Receipts(m) = Receipts(l)
           /\ [receipt |-> receipt, acknowledgement |-> signature] \in m.admissions
           /\ \A row \in m.admissions :
                 \/ row \in l.admissions
                 \/ row.receipt = receipt /\ row.acknowledgement = signature
<1> DEFINE was == [receipt |-> receipt, acknowledgement |-> Nil]
           is == [receipt |-> receipt, acknowledgement |-> signature]
<1>0. l = Columns(l)
  BY DEF LedgerInv, LedgerTypeOK
<1>1. /\ m = Columns(m)
      /\ m.leases = l.leases
      /\ m.consumed = l.consumed /\ m.preparations = l.preparations
      /\ m.admissions = (l.admissions \ {was}) \cup {is}
      /\ m.acknowledging = l.acknowledging \ {receipt}
      /\ m.tenantHeads = l.tenantHeads /\ m.collectorHeads = l.collectorHeads
      /\ m.versions = l.versions /\ m.policyHeads = l.policyHeads
      /\ m.floor = l.floor
  BY <1>0, AcknowledgedColumns
<1>w. /\ was.receipt = receipt /\ was.acknowledgement = Nil /\ was \in l.admissions
      /\ is.receipt = receipt /\ is.acknowledgement # Nil
      /\ is = [receipt |-> is.receipt, acknowledgement |-> is.acknowledgement]
  BY EvidenceAdmissionConstants
<1>u. \A r, q \in l.admissions : r.receipt = q.receipt => r = q
  BY DEF LedgerInv, RowsAreUnique
<1> HIDE DEF was, is
<1>2. Receipts(m) = Receipts(l)
  BY <1>1, <1>w DEF Receipts
<1>4. /\ Bodies(m) = Bodies(l)
      /\ \A t : OfTenant(m, t) = OfTenant(l, t)
      /\ ChainsAreLinked(m) /\ CollectorsContinue(m) /\ ConsumptionIsMarked(m)
      /\ PoliciesHold(m) /\ BodiesVerify(m) /\ InstantsAreOrdered(m)
  BY <1>1, <1>2, SameReceipts
<1>5. LedgerTypeOK(m)
  BY <1>1, <1>4, <1>w DEF LedgerInv, LedgerTypeOK
<1>6. RowsAreUnique(m)
  BY <1>1, <1>2, <1>w, <1>u DEF LedgerInv, RowsAreUnique
<1>7. /\ Pending(m.admissions) \subseteq Pending(l.admissions)
      /\ \A t : Pending(RowsOf(m, t)) \subseteq Pending(RowsOf(l, t))
  BY <1>1, <1>w DEF Pending, RowsOf
<1>8. ASSUME NEW r \in m.acknowledging
      PROVE  [receipt |-> r, acknowledgement |-> Nil] \in m.admissions
  <2>1. r # receipt /\ [receipt |-> r, acknowledgement |-> Nil] \in l.admissions
    BY <1>1, <1>8 DEF LedgerInv, OnlyHeadsArePending
  <2>2. [receipt |-> r, acknowledgement |-> Nil] # was
    BY <2>1 DEF was
  <2> QED
    BY <1>1, <2>1, <2>2
<1>9. OnlyHeadsArePending(m)
  BY <1>4, <1>7, <1>8 DEF LedgerInv, OnlyHeadsArePending
<1>10. ReservationsHold(m)
  <2>1. ASSUME NEW b \in m.preparations PROVE ReservesNext(m, b)
    <3>1. ReservesNext(l, b)
      BY <1>1 DEF LedgerInv, ReservationsHold
    <3> QED
      BY <1>1, <1>7, <3>1 DEF ReservesNext
  <2> QED
    BY <1>1, <1>2, <2>1 DEF LedgerInv, ReservationsHold
<1>11. \A c : Grows(l, c, m, c)
  <2>1. Settled(l) \subseteq m.admissions
    BY <1>1, <1>w DEF Settled, Pending
  <2> QED
    BY <1>1, <1>2, <1>4, <2>1 DEF Grows
<1>12. /\ is \in m.admissions
       /\ \A row \in m.admissions : row \in l.admissions \/ row = is
  BY <1>1
<1>13. is.receipt = receipt /\ is.acknowledgement = signature
  BY DEF is
<1> QED
  BY <1>1, <1>2, <1>4, <1>5, <1>6, <1>9, <1>10, <1>11, <1>12, <1>13 DEF LedgerInv, is

\* A reservation: the bodies grow by one, dated and versioned no earlier than the others.
LEMMA ReservedHolds ==
    ASSUME NEW l, LedgerInv(l), NEW body,
           Lease(body) \in l.leases, body.envelope.signatures \in SignatureLists[Lease(body).job],
           body.admitted \in Instants, ClockHolds(l, body.admitted),
           body.sequence = NextSequence(l.tenantHeads[Tenant(body)]),
           body.previous = l.tenantHeads[Tenant(body)],
           \A r \in Receipts(l) : Lease(r.body) # Lease(body),
           TenantIsSettled(l, Tenant(body)), HasRoom(l, Tenant(body)),
           InWindow(body),
           Verified(body.envelope, Document(Policy(body)), Statement, body.admitted),
           ContinuesCollector(l.collectorHeads[Collector(body)], Lease(body)),
           PolicyAdvances(l, Policy(body)),
           NEW m, m = Reserved(l, body)
    PROVE  /\ LedgerInv(m) /\ m.tenantHeads = l.tenantHeads
           /\ m.admissions = l.admissions /\ \A c : Grows(l, c, m, c)
           /\ body \in Bodies(m)
<1> DEFINE policy == Policy(body)
           head == l.tenantHeads[Tenant(body)]
<1>0. l = Columns(l) /\ LedgerTypeOK(l)
  BY DEF LedgerInv, LedgerTypeOK
<1>1. /\ m = Columns(m)
      /\ m.leases = l.leases
      /\ m.consumed = l.consumed /\ m.preparations = l.preparations \cup {body}
      /\ m.admissions = l.admissions /\ m.acknowledging = l.acknowledging
      /\ m.tenantHeads = l.tenantHeads /\ m.collectorHeads = l.collectorHeads
      /\ m.versions = l.versions \cup {policy}
      /\ m.policyHeads = [l.policyHeads EXCEPT ![policy.id] = policy]
      /\ m.floor = body.admitted
  BY <1>0, ReservedColumns
<1>2. Receipts(m) = Receipts(l)
  BY <1>1 DEF Receipts
<1>3. Bodies(m) = Bodies(l) \cup {body}
  BY <1>1, <1>2 DEF Bodies
<1>4. /\ \A t : OfTenant(m, t) = OfTenant(l, t)
      /\ ChainsAreLinked(m) /\ CollectorsContinue(m) /\ ConsumptionIsMarked(m)
  BY <1>1, <1>2, SameChains
<1>5. RowsAreUnique(m) /\ OnlyHeadsArePending(m)
  BY <1>1, <1>2, <1>4 DEF LedgerInv, RowsAreUnique, OnlyHeadsArePending
<1>6. /\ Tenant(body) \in Tenants /\ policy.id \in PolicyIds /\ policy.revision \in Nat
      /\ body.admitted \in Nat
  <2>1. LeaseIsGranted(Lease(body))
    BY <1>0 DEF LedgerTypeOK
  <2> QED
    BY <2>1, LeaseTypes, EvidenceAdmissionConstants DEF Tenant, Policy
<1>7. /\ Length(head) \in Nat /\ Cardinality(RowsOf(l, Tenant(body))) = Length(head)
      /\ Length(head) < MaxAdmissions
  <2>1. Length(head) \in Nat /\ Cardinality(RowsOf(l, Tenant(body))) = Length(head)
    BY <1>6, ChainIsCounted
  <2>2. Cardinality(PreparationsOf(l, Tenant(body))) = 0
    BY FS_EmptySet DEF TenantIsSettled
  <2> QED
    BY <2>1, <2>2 DEF HasRoom
<1>8. body.sequence \in Nat \ {0}
  BY <1>7 DEF NextSequence, Length
<1>9. LedgerTypeOK(m)
  <2>1. m.policyHeads = [i \in PolicyIds |-> m.policyHeads[i]]
    BY <1>0, <1>1 DEF LedgerTypeOK
  <2> QED
    BY <1>0, <1>1, <1>3, <1>6, <1>8, <2>1 DEF LedgerTypeOK
<1>10. ReservationsHold(m)
  <2>1. \A b \in l.preparations : Tenant(b) # Tenant(body)
    BY DEF TenantIsSettled, PreparationsOf
  <2>2. \A t : RowsOf(m, t) = RowsOf(l, t)
    BY <1>1 DEF RowsOf
  <2>3. \A b, c \in m.preparations : Tenant(b) = Tenant(c) => b = c
    BY <1>1, <2>1 DEF LedgerInv, ReservationsHold
  <2>4. ASSUME NEW b \in l.preparations
        PROVE  /\ \A r \in Receipts(m) : Lease(r.body) # Lease(b)
               /\ ReservesNext(m, b)
               /\ Length(m.tenantHeads[Tenant(b)]) < MaxAdmissions
    BY <1>1, <1>2, <2>2 DEF LedgerInv, ReservationsHold, ReservesNext
  <2>5. ReservesNext(m, body)
    BY <1>1, <2>2 DEF ReservesNext, TenantIsSettled
  <2>6. /\ \A r \in Receipts(m) : Lease(r.body) # Lease(body)
        /\ Length(m.tenantHeads[Tenant(body)]) < MaxAdmissions
    BY <1>1, <1>2, <1>7
  <2> QED
    BY <1>1, <2>3, <2>4, <2>5, <2>6 DEF ReservationsHold
<1>11. \A v \in l.versions : v.id \in PolicyIds /\ v.revision \in Nat /\ v # Nil
  BY <1>0, BodyTypes DEF LedgerInv, PoliciesHold
<1>12. \A v \in l.versions : v.id = policy.id => v.revision <= policy.revision
  <2>1. SUFFICES ASSUME NEW v \in l.versions, v.id = policy.id
                 PROVE  v.revision <= policy.revision
    OBVIOUS
  <2>2. /\ l.policyHeads[policy.id] \in l.versions
        /\ v.revision <= l.policyHeads[policy.id].revision
    BY <2>1 DEF LedgerInv, PoliciesHold
  <2>3. l.policyHeads[policy.id].revision <= policy.revision
    BY <2>2, <1>6, <1>11 DEF PolicyAdvances
  <2> QED
    BY <2>2, <2>3, <1>6, <1>11
<1>13. PoliciesHold(m)
  <2>1. m.versions = {Policy(b) : b \in Bodies(m)}
    BY <1>1, <1>3 DEF LedgerInv, PoliciesHold
  <2>2. \A v, w \in m.versions : v.id = w.id /\ v.revision = w.revision => v = w
    BY <1>1 DEF LedgerInv, PoliciesHold, PolicyAdvances
  <2>3. ASSUME NEW v \in m.versions
        PROVE  /\ m.policyHeads[v.id] \in m.versions /\ m.policyHeads[v.id].id = v.id
               /\ v.revision <= m.policyHeads[v.id].revision
    <3>1. CASE v.id = policy.id
      <4>1. m.policyHeads[v.id] = policy
        BY <1>0, <1>1, <1>6, <3>1 DEF LedgerTypeOK
      <4> QED
        BY <1>1, <1>6, <1>12, <3>1, <4>1
    <3>2. CASE v.id # policy.id
      <4>1. v \in l.versions /\ m.policyHeads[v.id] = l.policyHeads[v.id]
        BY <1>0, <1>1, <1>11, <3>2 DEF LedgerTypeOK
      <4> QED
        BY <1>1, <4>1 DEF LedgerInv, PoliciesHold
    <3> QED
      BY <3>1, <3>2
  <2>4. ASSUME NEW i \in PolicyIds, \A v \in m.versions : v.id # i
        PROVE  m.policyHeads[i] = Nil
    <3>1. i # policy.id /\ \A v \in l.versions : v.id # i
      BY <1>1, <2>4
    <3>2. m.policyHeads[i] = l.policyHeads[i]
      BY <1>0, <1>1, <3>1 DEF LedgerTypeOK
    <3> QED
      BY <3>1, <3>2 DEF LedgerInv, PoliciesHold
  <2> QED
    BY <2>1, <2>2, <2>3, <2>4 DEF PoliciesHold
<1>14. BodiesVerify(m)
  BY <1>3 DEF LedgerInv, BodiesVerify
<1>15. InstantsAreOrdered(m)
  <2>1. \A b \in Bodies(l) : b.admitted \in Nat /\ b.admitted <= l.floor
    BY <1>0, BodyTypes DEF LedgerInv, InstantsAreOrdered
  <2>2. l.floor \in Nat /\ l.floor <= body.admitted
    BY <1>0, <1>6 DEF LedgerTypeOK, ClockHolds
  <2>3. \A b \in Bodies(l) : b.admitted <= body.admitted
    BY <2>1, <2>2, <1>6
  <2>4. \A b \in Bodies(l) : Policy(b) \in l.versions
    BY DEF LedgerInv, PoliciesHold
  <2>5. \A b, c \in Bodies(m) :
           Policy(b).id = Policy(c).id /\ b.admitted < c.admitted =>
              Policy(b).revision <= Policy(c).revision
    <3>1. SUFFICES ASSUME NEW b \in Bodies(m), NEW c \in Bodies(m),
                          Policy(b).id = Policy(c).id, b.admitted < c.admitted
                   PROVE  Policy(b).revision <= Policy(c).revision
      OBVIOUS
    <3>2. CASE b = body
      BY <1>3, <1>6, <2>1, <2>3, <3>1, <3>2
    <3>3. CASE b # body /\ c = body
      BY <1>3, <1>12, <2>4, <3>1, <3>3
    <3>4. CASE b # body /\ c # body
      BY <1>3, <3>1, <3>4 DEF LedgerInv, InstantsAreOrdered
    <3> QED
      BY <3>2, <3>3, <3>4
  <2> QED
    BY <1>1, <1>3, <1>6, <2>3, <2>5 DEF InstantsAreOrdered
<1>16. \A c : Grows(l, c, m, c)
  BY <1>1, <1>2, <1>3 DEF Grows, Settled
<1> QED
  BY <1>1, <1>3, <1>4, <1>5, <1>9, <1>10, <1>13, <1>14, <1>15, <1>16 DEF LedgerInv

\* A reservation becomes the last receipt of its tenant and of its collector.
LEMMA FinalizedHolds ==
    ASSUME NEW l, LedgerInv(l), NEW receipt, receipt # Nil, receipt.body \in l.preparations,
           NEW m, m = Finalized(l, receipt)
    PROVE  /\ LedgerInv(m) /\ \A c : Grows(l, c, m, c)
           /\ receipt \in Receipts(m)
           /\ m.tenantHeads = [l.tenantHeads EXCEPT ![Tenant(receipt.body)] = receipt]
           /\ \A row \in m.admissions : row \in l.admissions \/ row.acknowledgement = Nil
<1> DEFINE body == receipt.body
           tenant == Tenant(receipt.body)
           collector == Collector(receipt.body)
           head == l.tenantHeads[tenant]
           new == [receipt |-> receipt, acknowledgement |-> Nil]
<1>0. l = Columns(l) /\ LedgerTypeOK(l)
  BY DEF LedgerInv, LedgerTypeOK
<1>1. /\ m = Columns(m)
      /\ m.leases = l.leases
      /\ m.consumed = l.consumed \cup {[envelope |-> body.envelope, receipt |-> receipt]}
      /\ m.preparations = l.preparations \ {body}
      /\ m.admissions = l.admissions \cup {new}
      /\ m.acknowledging = l.acknowledging
      /\ m.tenantHeads = [l.tenantHeads EXCEPT ![tenant] = receipt]
      /\ m.collectorHeads = [l.collectorHeads EXCEPT ![collector] = receipt]
      /\ m.versions = l.versions /\ m.policyHeads = l.policyHeads
      /\ m.floor = l.floor
  BY <1>0, FinalizedColumns
<1>w. /\ new.receipt = receipt /\ new.acknowledgement = Nil
      /\ new = [receipt |-> new.receipt, acknowledgement |-> new.acknowledgement]
  OBVIOUS
<1> HIDE DEF new
<1>2. Receipts(m) = Receipts(l) \cup {receipt}
  BY <1>1, <1>w DEF Receipts
<1>3. Bodies(m) = Bodies(l) /\ body \in Bodies(l)
  BY <1>1, <1>2 DEF Bodies
<1>4. /\ tenant \in Tenants /\ collector \in Collectors /\ body.sequence \in Nat \ {0}
      /\ \A r \in Receipts(l) : r.body.sequence \in Nat \ {0}
  BY <1>0, <1>3, BodyTypes, ReceiptsHaveBodies
<1>5. /\ body.sequence = NextSequence(head) /\ body.previous = head
      /\ ContinuesCollector(l.collectorHeads[collector], Lease(body))
      /\ Pending(RowsOf(l, tenant)) = {}
      /\ Length(head) < MaxAdmissions
      /\ \A r \in Receipts(l) : Lease(r.body) # Lease(body)
  BY DEF LedgerInv, ReservationsHold, ReservesNext
<1>6. receipt \notin Receipts(l)
  BY <1>5
<1>7. Length(head) \in Nat /\ body.sequence = Length(head) + 1
  BY <1>4, <1>5, ChainIsCounted DEF NextSequence, Length
<1>8. IsLast(head, OfTenant(l, tenant)) /\ Nil \notin Receipts(l)
  BY <1>4 DEF LedgerInv, ChainsAreLinked, RowsAreUnique
<1>9. \A r \in OfTenant(l, tenant) :
         r.body.sequence < body.sequence /\ r.body.sequence \in Nat \ {0}
  <2>1. SUFFICES ASSUME NEW r \in OfTenant(l, tenant)
                 PROVE  r.body.sequence < body.sequence /\ r.body.sequence \in Nat \ {0}
    OBVIOUS
  <2>2. head \in OfTenant(l, tenant) /\ r.body.sequence <= head.body.sequence
    BY <1>8, <2>1 DEF IsLast
  <2>3. head # Nil /\ r \in Receipts(l)
    BY <1>8, <2>1, <2>2 DEF OfTenant
  <2>4. Length(head) = head.body.sequence
    BY <2>3 DEF Length
  <2> QED
    BY <1>4, <1>7, <2>2, <2>3, <2>4
<1>10. /\ \A t : t # tenant => OfTenant(m, t) = OfTenant(l, t)
       /\ OfTenant(m, tenant) = OfTenant(l, tenant) \cup {receipt}
  BY <1>2 DEF OfTenant
<1>11. /\ \A c : c # collector => OfCollector(m, c) = OfCollector(l, c)
       /\ OfCollector(m, collector) = OfCollector(l, collector) \cup {receipt}
  BY <1>2 DEF OfCollector
<1>12. OfCollector(l, collector) \subseteq OfTenant(l, tenant)
  BY SameCollector DEF OfCollector, OfTenant
<1>13. /\ m.tenantHeads[tenant] = receipt
       /\ \A t \in Tenants : t # tenant => m.tenantHeads[t] = l.tenantHeads[t]
       /\ m.tenantHeads = [t \in Tenants |-> m.tenantHeads[t]]
  BY <1>0, <1>1, <1>4 DEF LedgerTypeOK
<1>14. /\ m.collectorHeads[collector] = receipt
       /\ \A c \in Collectors : c # collector => m.collectorHeads[c] = l.collectorHeads[c]
       /\ m.collectorHeads = [c \in Collectors |-> m.collectorHeads[c]]
  BY <1>0, <1>1, <1>4 DEF LedgerTypeOK
<1>15. LedgerTypeOK(m)
  BY <1>0, <1>1, <1>3, <1>13, <1>14, <1>w DEF LedgerTypeOK
<1>16. RowsAreUnique(m)
  <2>1. \A r \in l.admissions : r.receipt \in Receipts(l)
    BY DEF Receipts
  <2>2. \A r, q \in m.admissions : r.receipt = q.receipt => r = q
    BY <1>1, <1>6, <1>w, <2>1 DEF LedgerInv, RowsAreUnique
  <2>3. \A r \in Receipts(l) : Tenant(r.body) = tenant => r.body.sequence # body.sequence
    BY <1>4, <1>9 DEF OfTenant
  <2>4. \A r, q \in Receipts(m) :
           Tenant(r.body) = Tenant(q.body) /\ r.body.sequence = q.body.sequence => r = q
    BY <1>2, <2>3 DEF LedgerInv, RowsAreUnique
  <2> QED
    BY <1>2, <1>8, <2>2, <2>4 DEF RowsAreUnique
<1>17. ChainsAreLinked(m)
  <2>1. ASSUME NEW r \in Receipts(m)
        PROVE  IF r.body.sequence = 1 THEN r.body.previous = Nil
               ELSE /\ r.body.previous \in OfTenant(m, Tenant(r.body))
                    /\ r.body.previous.body.sequence = r.body.sequence - 1
    <3>1. CASE r \in Receipts(l)
      <4>1. \A t : OfTenant(l, t) \subseteq OfTenant(m, t)
        BY <1>10
      <4> QED
        BY <3>1, <4>1 DEF LedgerInv, ChainsAreLinked
    <3>2. CASE r = receipt
      <4>1. CASE OfTenant(l, tenant) = {}
        BY <1>5, <1>8, <3>2, <4>1 DEF IsLast, NextSequence
      <4>2. CASE OfTenant(l, tenant) # {}
        <5>1. head \in OfTenant(l, tenant)
          BY <1>8, <4>2 DEF IsLast
        <5>2. head # Nil
          BY <1>8, <5>1 DEF OfTenant
        <5>3. body.sequence = head.body.sequence + 1 /\ head.body.sequence \in Nat \ {0}
          BY <1>5, <1>9, <5>1, <5>2 DEF NextSequence
        <5> QED
          BY <1>5, <1>10, <3>2, <5>1, <5>3
      <4> QED
        BY <4>1, <4>2
    <3> QED
      BY <1>2, <3>1, <3>2
  <2>2. ASSUME NEW t \in Tenants
        PROVE  /\ IsLast(m.tenantHeads[t], OfTenant(m, t))
               /\ \A n \in 1..Length(m.tenantHeads[t]) :
                     \E r \in OfTenant(m, t) : r.body.sequence = n
               /\ Length(m.tenantHeads[t]) <= MaxAdmissions
    <3>1. CASE t = tenant
      <4>1. Length(m.tenantHeads[t]) = body.sequence
        BY <1>13, <3>1 DEF Length
      <4>2. IsLast(m.tenantHeads[t], OfTenant(m, t))
        BY <1>4, <1>9, <1>10, <1>13, <3>1 DEF IsLast
      <4>3. \A n \in 1..Length(head) : \E r \in OfTenant(l, tenant) : r.body.sequence = n
        BY <1>4 DEF LedgerInv, ChainsAreLinked
      <4>4. \A n \in 1..body.sequence : n \in 1..Length(head) \/ n = body.sequence
        BY <1>7
      <4>5. \A n \in 1..body.sequence : \E r \in OfTenant(m, tenant) : r.body.sequence = n
        BY <1>10, <4>3, <4>4
      <4>6. body.sequence <= MaxAdmissions
        <5>1. MaxAdmissions \in Nat
          BY EvidenceAdmissionConstants
        <5> QED
          BY <1>5, <1>7, <5>1
      <4> QED
        BY <3>1, <4>1, <4>2, <4>5, <4>6
    <3>2. CASE t # tenant
      BY <1>10, <1>13, <3>2 DEF LedgerInv, ChainsAreLinked
    <3> QED
      BY <3>1, <3>2
  <2> QED
    BY <2>1, <2>2 DEF ChainsAreLinked
<1>18. CollectorsContinue(m)
  <2>1. ASSUME NEW c \in Collectors
        PROVE  IsLast(m.collectorHeads[c], OfCollector(m, c))
    <3>1. CASE c = collector
      BY <1>4, <1>9, <1>11, <1>12, <1>14, <3>1 DEF IsLast
    <3>2. CASE c # collector
      BY <1>11, <1>14, <3>2 DEF LedgerInv, CollectorsContinue
    <3> QED
      BY <3>1, <3>2
  <2>2. ASSUME NEW r \in Receipts(l)
        PROVE  \E h \in {Nil} \cup Receipts(m) :
                  IsLast(h, Earlier(m, r)) /\ ContinuesCollector(h, Lease(r.body))
    <3>1. Earlier(m, r) = Earlier(l, r)
      <4>1. CASE Collector(r.body) = collector
        <5>1. r \in OfTenant(l, tenant)
          BY <1>12, <4>1 DEF OfCollector
        <5>2. ~ (body.sequence < r.body.sequence)
          BY <1>4, <1>9, <5>1
        <5> QED
          BY <1>11, <4>1, <5>2 DEF Earlier
      <4>2. CASE Collector(r.body) # collector
        BY <1>11, <4>2 DEF Earlier
      <4> QED
        BY <4>1, <4>2
    <3>2. PICK h \in {Nil} \cup Receipts(l) :
             IsLast(h, Earlier(l, r)) /\ ContinuesCollector(h, Lease(r.body))
      BY DEF LedgerInv, CollectorsContinue
    <3> QED
      BY <1>2, <3>1, <3>2
  <2>3. \E h \in {Nil} \cup Receipts(m) :
           IsLast(h, Earlier(m, receipt)) /\ ContinuesCollector(h, Lease(receipt.body))
    <3>1. Earlier(m, receipt) = OfCollector(l, collector)
      <4>1. \A r \in OfCollector(l, collector) : r.body.sequence < body.sequence
        BY <1>9, <1>12
      <4>2. ~ (body.sequence < body.sequence)
        BY <1>4
      <4> QED
        BY <1>11, <4>1, <4>2 DEF Earlier
    <3>2. IsLast(l.collectorHeads[collector], OfCollector(l, collector))
      BY <1>4 DEF LedgerInv, CollectorsContinue
    <3>3. l.collectorHeads[collector] \in {Nil} \cup Receipts(m)
      BY <1>2, <3>2 DEF IsLast, OfCollector
    <3> QED
      BY <1>5, <3>1, <3>2, <3>3
  <2> QED
    BY <1>2, <2>1, <2>2, <2>3 DEF CollectorsContinue
<1>19. OnlyHeadsArePending(m)
  <2>1. ASSUME NEW row \in Pending(m.admissions),
               NEW r \in OfTenant(m, Tenant(row.receipt.body))
        PROVE  r.body.sequence <= row.receipt.body.sequence
    <3>1. CASE row = new
      <4>1. row.receipt = receipt
        BY <3>1, <1>w
      <4>2. r \in OfTenant(l, tenant) \/ r = receipt
        BY <1>10, <2>1, <4>1
      <4> QED
        BY <1>4, <1>9, <4>1, <4>2
    <3>2. CASE row # new
      <4>1. row \in Pending(l.admissions)
        BY <1>1, <3>2 DEF Pending
      <4>2. Tenant(row.receipt.body) # tenant
        BY <1>5, <4>1 DEF Pending, RowsOf
      <4>3. r \in OfTenant(l, Tenant(row.receipt.body))
        BY <1>10, <2>1, <4>2
      <4> QED
        BY <4>1, <4>3 DEF LedgerInv, OnlyHeadsArePending
    <3> QED
      BY <3>1, <3>2
  <2>2. \A r \in m.acknowledging : [receipt |-> r, acknowledgement |-> Nil] \in m.admissions
    BY <1>1 DEF LedgerInv, OnlyHeadsArePending
  <2> QED
    BY <2>1, <2>2 DEF OnlyHeadsArePending
<1>20. ConsumptionIsMarked(m)
  <2> DEFINE marker == [envelope |-> body.envelope, receipt |-> receipt]
  <2>1. marker.envelope = body.envelope /\ marker.receipt = receipt /\ marker \in m.consumed
    BY <1>1
  <2>2. \A c \in l.consumed : c.receipt \in Receipts(l) /\ c.envelope = c.receipt.body.envelope
    BY DEF LedgerInv, ConsumptionIsMarked
  <2>3. \A c \in m.consumed : c \in l.consumed \/ c = marker
    BY <1>1
  <2>4. \A r \in Receipts(l) : [envelope |-> r.body.envelope, receipt |-> r] \in m.consumed
    BY <1>1 DEF LedgerInv, ConsumptionIsMarked
  <2>5. \A c \in m.consumed : c.receipt \in Receipts(m) /\ c.envelope = c.receipt.body.envelope
    <3> HIDE DEF marker
    <3> QED
      BY <1>2, <2>1, <2>2, <2>3
  <2> QED
    BY <1>2, <2>1, <2>4, <2>5 DEF ConsumptionIsMarked
<1>21. ReservationsHold(m)
  <2>1. \A b, c \in l.preparations : Tenant(b) = Tenant(c) => b = c
    BY DEF LedgerInv, ReservationsHold
  <2>2. ASSUME NEW b \in m.preparations
        PROVE  /\ \A r \in Receipts(m) : Lease(r.body) # Lease(b)
               /\ ReservesNext(m, b)
               /\ Length(m.tenantHeads[Tenant(b)]) < MaxAdmissions
    <3>1. b \in l.preparations /\ Tenant(b) # tenant
      BY <1>1, <2>1
    <3>2. b \in Bodies(l)
      BY <3>1 DEF Bodies
    <3>3. Tenant(b) \in Tenants /\ Collector(b) \in Collectors
      BY <1>0, <3>2, BodyTypes
    <3>4. Collector(b) # collector /\ Lease(b) # Lease(body)
      BY <3>1, SameCollector DEF Tenant
    <3>5. /\ m.tenantHeads[Tenant(b)] = l.tenantHeads[Tenant(b)]
          /\ m.collectorHeads[Collector(b)] = l.collectorHeads[Collector(b)]
      BY <1>13, <1>14, <3>1, <3>3, <3>4
    <3>6. RowsOf(m, Tenant(b)) = RowsOf(l, Tenant(b))
      BY <1>1, <1>w, <3>1 DEF RowsOf
    <3>7. /\ \A r \in Receipts(l) : Lease(r.body) # Lease(b)
          /\ ReservesNext(l, b)
          /\ Length(l.tenantHeads[Tenant(b)]) < MaxAdmissions
      BY <3>1 DEF LedgerInv, ReservationsHold
    <3> QED
      BY <1>2, <3>4, <3>5, <3>6, <3>7 DEF ReservesNext
  <2> QED
    BY <1>1, <2>1, <2>2 DEF ReservationsHold
<1>22. PoliciesHold(m) /\ BodiesVerify(m) /\ InstantsAreOrdered(m)
  BY <1>1, <1>3, SameBodies
<1>23. \A c : Grows(l, c, m, c)
  BY <1>1, <1>2, <1>3 DEF Grows, Settled
<1>24. \A row \in m.admissions : row \in l.admissions \/ row.acknowledgement = Nil
  BY <1>1, <1>w
<1> QED
  BY <1>1, <1>2, <1>15, <1>16, <1>17, <1>18, <1>19, <1>20, <1>21, <1>22, <1>23, <1>24
  DEF LedgerInv

----------------------------------------------------------------------------
(* What no step takes away *)

LEMMA GrowsReflexive == \A l, c : Grows(l, c, l, c)
  BY DEF Grows, Settled

LEMMA KnowledgeStays ==
    ASSUME NEW l, NEW c, NEW m, NEW d, Grows(l, c, m, d), NEW s, ServiceIsKnown(l, c, s)
    PROVE  ServiceIsKnown(m, d, s)
<1>1. \A body : WorksFor(l, s, body) => WorksFor(m, s, body)
  BY DEF Grows, WorksFor, TodoIsKnown
<1>2. \A r : HeldIn(c, r) => HeldIn(d, r)
  BY DEF Grows, HeldIn
<1>3. TodoIsKnown(l, s) => TodoIsKnown(m, s)
  BY DEF Grows, TodoIsKnown
<1>4. ASSUME s.acknowledgement \in Services,
             [receipt |-> s.receipt, acknowledgement |-> s.acknowledgement] \in l.admissions
      PROVE  [receipt |-> s.receipt, acknowledgement |-> s.acknowledgement] \in m.admissions
  <2> DEFINE row == [receipt |-> s.receipt, acknowledgement |-> s.acknowledgement]
  <2>1. row.acknowledgement # Nil
    BY <1>4, EvidenceAdmissionConstants
  <2>2. row \in Settled(l)
    BY <1>4, <2>1 DEF Settled, Pending
  <2> QED
    BY <2>2 DEF Grows
<1>5. /\ s.step = "probed" =>
            /\ s.request.lease \in m.leases
            /\ s.request.signatures \in SignatureLists[s.request.lease.job]
      /\ s.step = "reserved" => s.item \in Bodies(m) /\ WorksFor(m, s, s.item)
      /\ s.step = "signed" =>
            s.item # Nil /\ s.item.body \in Bodies(m) /\ WorksFor(m, s, s.item.body)
  BY <1>1 DEF ServiceIsKnown, Grows
<1>6. /\ s.step \in {"stored", "held", "acknowledging", "acknowledged"} =>
            /\ s.item \in Receipts(m) /\ WorksFor(m, s, s.item.body)
            /\ s = [step |-> s.step, item |-> s.item, request |-> s.request, plan |-> s.plan,
                    todo |-> s.todo, earlier |-> s.earlier]
      /\ s.step \in {"held", "acknowledging", "acknowledged"} => HeldIn(d, s.item)
      /\ s.step = "acknowledged" => s.earlier \in Services
  BY <1>1, <1>2 DEF ServiceIsKnown, Grows
<1>7. /\ s.step = "sweep" =>
            s = [step |-> "sweep", plan |-> s.plan, todo |-> s.todo] /\ TodoIsKnown(m, s)
      /\ s.step = "answered" =>
            /\ s.receipt.body.envelope = s.request
            /\ s.acknowledgement \in Services
            /\ [receipt |-> s.receipt, acknowledgement |-> s.acknowledgement] \in m.admissions
            /\ HeldIn(d, s.receipt)
  BY <1>2, <1>3, <1>4 DEF ServiceIsKnown
<1> QED
  BY <1>5, <1>6, <1>7 DEF ServiceIsKnown

\* A write that acknowledges nothing leaves what custody has to hold.
LEMMA CustodyStaysKnown ==
    ASSUME NEW l, NEW c, NEW m, CustodyIsKnown(l, c), Grows(l, c, m, c),
           \A row \in m.admissions : row \in l.admissions \/ row.acknowledgement = Nil
    PROVE  CustodyIsKnown(m, c)
  BY DEF CustodyIsKnown, Grows

LEMMA OthersStayKnown ==
    ASSUME AdmissionInv, NEW p \in Services, Grows(ledger, custody, ledger', custody'),
           \A q \in Services : q # p => service'[q] = service[q],
           ServiceIsKnown(ledger', custody', service'[p])
    PROVE  \A q \in Services : ServiceIsKnown(ledger', custody', service'[q])
<1>1. SUFFICES ASSUME NEW q \in Services, q # p
               PROVE  ServiceIsKnown(ledger', custody', service'[q])
  OBVIOUS
<1>2. ServiceIsKnown(ledger, custody, service[q])
  BY DEF AdmissionInv
<1>3. ServiceIsKnown(ledger', custody', service[q])
  BY <1>2, KnowledgeStays
<1> QED
  BY <1>1, <1>3

\* The heads a transaction of an open service trusts are those of the tables.
LEMMA HeadsAreKnown ==
    ASSUME AdmissionInv, NEW p \in Services, IsOpen(service[p])
    PROVE  Heads(p) = ledger.tenantHeads /\ storage = "ready"
  BY DEF AdmissionInv, CachesAgree, Heads

\* A transaction that writes nothing, and a step without one.
LEMMA ReadKeeps ==
    ASSUME AdmissionInv, NEW p \in Services, IsOpen(service[p]), IsOpen(service'[p]),
           service' = [service EXCEPT ![p] = service'[p]],
           UNCHANGED << storage, ledger, custody >>,
           Rollback(p) \/ UNCHANGED << known, foreign >>,
           ServiceIsKnown(ledger, custody, service'[p])
    PROVE  AdmissionInv' /\ Grows(ledger, custody, ledger', custody')
<1>1. Grows(ledger, custody, ledger', custody')
  BY GrowsReflexive
<1>2. \A q \in Services : q # p => service'[q] = service[q]
  BY DEF AdmissionInv, CachesAgree
<1>3. \A q \in Services : ServiceIsKnown(ledger', custody', service'[q])
  BY <1>1, <1>2, OthersStayKnown
<1>4. CachesAgree'
  <2>1. Heads(p) = ledger.tenantHeads /\ storage = "ready"
    BY HeadsAreKnown
  <2>2. service' = [q \in Services |-> service'[q]]
    BY DEF AdmissionInv, CachesAgree
  <2>3. /\ known' = [q \in Services |-> known'[q]] /\ foreign' \in [Services -> BOOLEAN]
        /\ \A q \in Services : q # p => known'[q] = known[q] /\ foreign'[q] = foreign[q]
        /\ foreign'[p] \/ known'[p] = ledger'.tenantHeads
    BY <2>1 DEF AdmissionInv, CachesAgree, Rollback
  <2> QED
    BY <1>2, <2>1, <2>2, <2>3 DEF AdmissionInv, CachesAgree, IsOpen
<1> QED
  BY <1>1, <1>3, <1>4 DEF AdmissionInv

\* A transaction that commits and leaves the heads of the tenants.
LEMMA CommitKeeps ==
    ASSUME AdmissionInv, NEW p \in Services, IsOpen(service[p]), IsOpen(service'[p]),
           service' = [service EXCEPT ![p] = service'[p]],
           UNCHANGED << storage, custody >>,
           Commit(p, ledger'), ledger'.tenantHeads = ledger.tenantHeads, LedgerInv(ledger'),
           Grows(ledger, custody, ledger', custody), CustodyIsKnown(ledger', custody),
           ServiceIsKnown(ledger', custody, service'[p])
    PROVE  AdmissionInv' /\ Grows(ledger, custody, ledger', custody')
<1>1. Grows(ledger, custody, ledger', custody')
  OBVIOUS
<1>2. \A q \in Services : q # p => service'[q] = service[q]
  BY DEF AdmissionInv, CachesAgree
<1>3. \A q \in Services : ServiceIsKnown(ledger', custody', service'[q])
  BY <1>1, <1>2, OthersStayKnown
<1>4. CachesAgree'
  <2>1. Heads(p) = ledger.tenantHeads /\ storage = "ready"
    BY HeadsAreKnown
  <2>2. service' = [q \in Services |-> service'[q]]
    BY DEF AdmissionInv, CachesAgree
  <2>3. /\ known' = [q \in Services |-> known'[q]] /\ foreign' \in [Services -> BOOLEAN]
        /\ \A q \in Services : q # p =>
              known'[q] = known[q] /\ (foreign'[q] <=> service[q].step # "closed")
        /\ known'[p] = ledger'.tenantHeads
    BY <2>1 DEF AdmissionInv, CachesAgree, Commit
  <2>4. \A q \in Services : service[q].step # "creating"
    BY <2>1 DEF AdmissionInv, CachesAgree
  <2> QED
    BY <1>2, <2>1, <2>2, <2>3, <2>4 DEF AdmissionInv, CachesAgree, IsOpen
<1> QED
  BY <1>1, <1>3, <1>4 DEF AdmissionInv

----------------------------------------------------------------------------
(* The actions *)

\* The ledger file comes into being empty.
LEMMA EmptyLedgerHolds == LedgerInv(EmptyLedger)
<1> DEFINE l == EmptyLedger
<1>1. /\ l.leases = {} /\ l.consumed = {} /\ l.preparations = {} /\ l.admissions = {}
      /\ l.acknowledging = {} /\ l.versions = {} /\ l.floor = 0
      /\ l.tenantHeads = [t \in Tenants |-> Nil]
      /\ l.collectorHeads = [c \in Collectors |-> Nil]
      /\ l.policyHeads = [i \in PolicyIds |-> Nil]
  BY DEF EmptyLedger
<1>2. l = Columns(l)
  BY DEF EmptyLedger, Columns
<1> HIDE DEF l
<1>3. Receipts(l) = {} /\ Bodies(l) = {}
  BY <1>1 DEF Receipts, Bodies
<1>4. LedgerTypeOK(l)
  BY <1>1, <1>2, <1>3 DEF LedgerTypeOK
<1>5. /\ \A t : OfTenant(l, t) = {}
      /\ \A c : OfCollector(l, c) = {}
  BY <1>3 DEF OfTenant, OfCollector
<1>6. RowsAreUnique(l) /\ CollectorsContinue(l) /\ OnlyHeadsArePending(l)
  BY <1>1, <1>3, <1>5 DEF RowsAreUnique, CollectorsContinue, OnlyHeadsArePending, IsLast, Pending
<1>7. ChainsAreLinked(l)
  <2>1. MaxAdmissions \in Nat
    BY EvidenceAdmissionConstants
  <2>2. \A t \in Tenants : Length(l.tenantHeads[t]) = 0 /\ IsLast(l.tenantHeads[t], {})
    BY <1>1 DEF Length, IsLast
  <2> QED
    BY <1>3, <1>5, <2>1, <2>2 DEF ChainsAreLinked
<1>8. ConsumptionIsMarked(l) /\ ReservationsHold(l) /\ PoliciesHold(l) /\ BodiesVerify(l)
  BY <1>1, <1>3 DEF ConsumptionIsMarked, ReservationsHold, PoliciesHold, BodiesVerify
<1>9. InstantsAreOrdered(l)
  BY <1>1, <1>3 DEF InstantsAreOrdered
<1>10. LedgerInv(l)
  BY <1>4, <1>6, <1>7, <1>8, <1>9 DEF LedgerInv
<1> QED
  BY <1>10 DEF l

\* Steps at which a service relies on nothing.
LEMMA RestingIsKnown ==
    ASSUME NEW l, NEW c, NEW s, s.step \in {"closed", "creating", "idle"}
    PROVE  ServiceIsKnown(l, c, s)
  BY DEF ServiceIsKnown

LEMMA InitiallyKnown == AdmissionInit => AdmissionInv
<1> SUFFICES ASSUME AdmissionInit PROVE AdmissionInv
  OBVIOUS
<1>1. LedgerInv(ledger)
  BY EmptyLedgerHolds DEF AdmissionInit
<1>2. CachesAgree
  BY DEF AdmissionInit, CachesAgree, IsOpen, Closed
<1>3. \A p \in Services : ServiceIsKnown(ledger, custody, service[p])
  BY RestingIsKnown DEF AdmissionInit, Closed
<1>4. CustodyIsKnown(ledger, custody)
  BY DEF AdmissionInit, CustodyIsKnown, EmptyLedger
<1> QED
  BY <1>1, <1>2, <1>3, <1>4 DEF AdmissionInv

\* Creating, opening and losing the ledger.
LEMMA LifecycleKeeps ==
    ASSUME AdmissionInv, NEW p \in Services,
           CreateFile(p) \/ CreateSchema(p) \/ OpenLedger(p) \/ ServiceDies(p)
    PROVE  AdmissionInv' /\ Grows(ledger, custody, ledger', custody')
<1>1. UNCHANGED << ledger, custody >>
  BY DEF CreateFile, CreateSchema, OpenLedger, ServiceDies
<1>2. Grows(ledger, custody, ledger', custody')
  BY <1>1, GrowsReflexive
<1>3. /\ service'[p].step \in {"closed", "creating", "idle"}
      /\ \A q \in Services : q # p => service'[q] = service[q]
      /\ service' = [q \in Services |-> service'[q]]
  BY DEF AdmissionInv, CachesAgree, CreateFile, CreateSchema, OpenLedger, ServiceDies, Moved,
         Idle, Closed
<1>4. \A q \in Services : ServiceIsKnown(ledger', custody', service'[q])
  BY <1>2, <1>3, OthersStayKnown, RestingIsKnown
<1>5. CachesAgree'
  <2>1. CASE CreateFile(p)
    <3>1. storage = "absent" /\ storage' = "file" /\ UNCHANGED << known, foreign >>
      BY <2>1 DEF CreateFile
    <3>2. service[p].step = "closed" /\ service'[p].step = "creating"
      BY <2>1 DEF CreateFile, AdmissionInv, CachesAgree
    <3> QED
      BY <1>1, <1>3, <3>1, <3>2 DEF AdmissionInv, CachesAgree, IsOpen
  <2>2. CASE CreateSchema(p)
    <3>1. storage = "file" /\ storage' = "ready" /\ UNCHANGED << known, foreign >>
      BY <2>2 DEF CreateSchema, AdmissionInv, CachesAgree
    <3>2. service[p].step = "creating" /\ service'[p].step = "idle"
      BY <2>2 DEF CreateSchema, AdmissionInv, CachesAgree, Idle
    <3>3. ledger.tenantHeads = [t \in Tenants |-> Nil]
      BY <3>1 DEF AdmissionInv, CachesAgree, EmptyLedger
    <3> QED
      BY <1>1, <1>3, <3>1, <3>2, <3>3 DEF AdmissionInv, CachesAgree, IsOpen
  <2>3. CASE OpenLedger(p)
    <3>1. /\ storage = "ready" /\ storage' = "ready"
          /\ known' = [known EXCEPT ![p] = ledger.tenantHeads]
          /\ foreign' = [foreign EXCEPT ![p] = FALSE]
      BY <2>3 DEF OpenLedger
    <3>2. service'[p].step = "idle"
      BY <2>3 DEF OpenLedger, AdmissionInv, CachesAgree, Idle
    <3> QED
      BY <1>1, <1>3, <3>1, <3>2 DEF AdmissionInv, CachesAgree, IsOpen
  <2>4. CASE ServiceDies(p)
    <3>1. /\ storage' = storage
          /\ known' = [known EXCEPT ![p] = [t \in Tenants |-> Nil]]
          /\ foreign' = [foreign EXCEPT ![p] = FALSE]
      BY <2>4 DEF ServiceDies, Moved
    <3>2. service'[p].step = "closed"
      BY <2>4 DEF ServiceDies, Moved, AdmissionInv, CachesAgree, Closed
    <3> QED
      BY <1>1, <1>3, <3>1, <3>2 DEF AdmissionInv, CachesAgree, IsOpen
  <2> QED
    BY <2>1, <2>2, <2>3, <2>4
<1> QED
  BY <1>1, <1>2, <1>4, <1>5 DEF AdmissionInv

LEMMA RegisterLeaseKeeps ==
    ASSUME AdmissionInv, NEW p \in Services, RegisterLease(p)
    PROVE  AdmissionInv' /\ Grows(ledger, custody, ledger', custody')
<1>1. PICK template \in Templates, prior \in {Nil} \cup Receipts(ledger) :
         Commit(p, [ledger EXCEPT !.leases = @ \cup {Granted(template, prior)}])
  BY DEF RegisterLease
<1> DEFINE lease == Granted(template, prior)
<1>2. LeaseIsGranted(lease)
  BY DEF LeaseIsGranted, Granted
<1>3. ledger' = [ledger EXCEPT !.leases = @ \cup {lease}] /\ Commit(p, ledger')
  BY <1>1 DEF Commit
<1> HIDE DEF lease
<1>4. /\ LedgerInv(ledger') /\ ledger'.tenantHeads = ledger.tenantHeads
      /\ ledger'.admissions = ledger.admissions /\ Grows(ledger, custody, ledger', custody)
  BY <1>2, <1>3, RegisteredHolds DEF AdmissionInv
<1>8. CustodyIsKnown(ledger', custody)
  BY <1>4, CustodyStaysKnown DEF AdmissionInv
<1>9. /\ UNCHANGED << storage, service, custody >> /\ service[p].step = "idle"
      /\ service' = [service EXCEPT ![p] = service'[p]]
  BY DEF RegisterLease, AdmissionInv, CachesAgree
<1>10. IsOpen(service[p]) /\ ServiceIsKnown(ledger', custody, service'[p])
  BY <1>9, RestingIsKnown DEF IsOpen
<1> QED
  BY <1>3, <1>4, <1>8, <1>9, <1>10, CommitKeeps

\* A step whose service ends where it relies on what it is seen to rely on.
LEMMA MovedWithin ==
    ASSUME AdmissionInv, NEW p \in Services, NEW STATE next, Moved(p, next)
    PROVE  /\ service'[p] = next /\ service' = [service EXCEPT ![p] = service'[p]]
           /\ UNCHANGED storage
  BY DEF Moved, AdmissionInv, CachesAgree

LEMMA ProbeRetryKeeps ==
    ASSUME AdmissionInv, NEW p \in Services, ProbeRetry(p)
    PROVE  AdmissionInv' /\ Grows(ledger, custody, ledger', custody')
<1>1. PICK envelope \in Envelopes :
         \E original : Moved(p, [step |-> "probed", request |-> envelope,
                                 original |-> original])
  BY DEF ProbeRetry
<1>2. PICK original : Moved(p, [step |-> "probed", request |-> envelope,
                                original |-> original])
  BY <1>1
<1>3. /\ service'[p] = [step |-> "probed", request |-> envelope, original |-> original]
      /\ service' = [service EXCEPT ![p] = service'[p]] /\ UNCHANGED storage
  BY <1>2, MovedWithin
<1>4. envelope.lease \in ledger.leases
      /\ envelope.signatures \in SignatureLists[envelope.lease.job]
  BY <1>1 DEF Envelopes
<1>5. service'[p].step = "probed" /\ service'[p].request = envelope
  BY <1>3
<1>6. IsOpen(service'[p]) /\ ServiceIsKnown(ledger, custody, service'[p])
  BY <1>4, <1>5 DEF IsOpen, ServiceIsKnown
<1>7. IsOpen(service[p]) /\ Rollback(p) /\ UNCHANGED custody
  BY DEF ProbeRetry, IsOpen
<1>8. UNCHANGED ledger
  BY <1>7 DEF Rollback
<1> QED
  BY <1>3, <1>6, <1>7, <1>8, ReadKeeps

LEMMA ReservedIsKnown ==
    ASSUME NEW l, NEW c, NEW s, s.step = "reserved", s.item \in Bodies(l),
           WorksFor(l, s, s.item)
    PROVE  ServiceIsKnown(l, c, s) /\ IsOpen(s)
  BY DEF ServiceIsKnown, IsOpen

LEMMA StoredIsKnown ==
    ASSUME NEW l, NEW c, NEW s, s.step = "stored", s.item \in Receipts(l),
           WorksFor(l, s, s.item.body),
           s = [step |-> s.step, item |-> s.item, request |-> s.request, plan |-> s.plan,
                todo |-> s.todo, earlier |-> s.earlier]
    PROVE  ServiceIsKnown(l, c, s) /\ IsOpen(s)
  BY DEF ServiceIsKnown, IsOpen

LEMMA SweepIsKnown ==
    ASSUME NEW l, NEW c, NEW s, s.step = "sweep", TodoIsKnown(l, s),
           s = [step |-> "sweep", plan |-> s.plan, todo |-> s.todo]
    PROVE  ServiceIsKnown(l, c, s) /\ IsOpen(s)
  BY DEF ServiceIsKnown, IsOpen

\* The row of a lease is a receipt of the ledger.
LEMMA RowsAreReceipts ==
    ASSUME NEW row \in ledger.admissions
    PROVE  row.receipt \in Receipts(ledger) /\ row.receipt.body \in Bodies(ledger)
  BY DEF Receipts, Bodies

LEMMA RetryStoredKeeps ==
    ASSUME AdmissionInv, NEW p \in Services, RetryStored(p)
    PROVE  AdmissionInv' /\ Grows(ledger, custody, ledger', custody')
<1> DEFINE request == service[p].request
<1>1. PICK row \in RowOfLease(request.lease) :
         /\ row.receipt.body.envelope = request
         /\ Moved(p, [At("stored", row.receipt, OwnRequest(request))
                         EXCEPT !.earlier = row.acknowledgement])
  BY DEF RetryStored, RetryAgrees
<1> HIDE DEF request
<1>2. row.receipt \in Receipts(ledger)
  BY <1>1, RowsAreReceipts DEF RowOfLease
<1>3. /\ service'[p] = [At("stored", row.receipt, OwnRequest(request))
                           EXCEPT !.earlier = row.acknowledgement]
      /\ service' = [service EXCEPT ![p] = service'[p]] /\ UNCHANGED storage
  BY <1>1, MovedWithin
<1>4. service'[p] = [step |-> "stored", item |-> row.receipt, request |-> request,
                     plan |-> "none", todo |-> {}, earlier |-> row.acknowledgement]
  BY <1>3 DEF At, OwnRequest
<1>5. WorksFor(ledger, service'[p], row.receipt.body)
  BY <1>1, <1>4 DEF WorksFor, TodoIsKnown
<1>6. ServiceIsKnown(ledger, custody, service'[p]) /\ IsOpen(service'[p])
  BY <1>2, <1>4, <1>5, StoredIsKnown
<1>7. IsOpen(service[p]) /\ Rollback(p) /\ UNCHANGED custody
  BY DEF RetryStored, IsOpen
<1>8. UNCHANGED ledger
  BY <1>7 DEF Rollback
<1> QED
  BY <1>3, <1>6, <1>7, <1>8, ReadKeeps

LEMMA RetryPreparedKeeps ==
    ASSUME AdmissionInv, NEW p \in Services, RetryPrepared(p)
    PROVE  AdmissionInv' /\ Grows(ledger, custody, ledger', custody')
<1> DEFINE request == service[p].request
<1>1. PICK body \in PreparationOfLease(request.lease) :
         /\ body.envelope = request
         /\ Moved(p, At("reserved", body, OwnRequest(request)))
  BY DEF RetryPrepared, RetryAgrees
<1> HIDE DEF request
<1>2. body \in Bodies(ledger)
  BY <1>1 DEF PreparationOfLease, Bodies
<1>3. /\ service'[p] = At("reserved", body, OwnRequest(request))
      /\ service' = [service EXCEPT ![p] = service'[p]] /\ UNCHANGED storage
  BY <1>1, MovedWithin
<1>4. /\ service'[p].step = "reserved" /\ service'[p].item = body
      /\ service'[p].request = request /\ service'[p].plan = "none"
  BY <1>3 DEF At, OwnRequest
<1>5. WorksFor(ledger, service'[p], body)
  BY <1>1, <1>4 DEF WorksFor, TodoIsKnown
<1>6. ServiceIsKnown(ledger, custody, service'[p]) /\ IsOpen(service'[p])
  BY <1>2, <1>4, <1>5, ReservedIsKnown
<1>7. IsOpen(service[p]) /\ Rollback(p) /\ UNCHANGED custody
  BY DEF RetryPrepared, IsOpen
<1>8. UNCHANGED ledger
  BY <1>7 DEF Rollback
<1> QED
  BY <1>3, <1>6, <1>7, <1>8, ReadKeeps

LEMMA ReserveReceiptKeeps ==
    ASSUME AdmissionInv, NEW p \in Services, ReserveReceipt(p)
    PROVE  AdmissionInv' /\ Grows(ledger, custody, ledger', custody')
<1> DEFINE envelope == service[p].request
           tenant == envelope.lease.tenant
           Body(now) == ReceiptBody(envelope, now, ledger.tenantHeads[tenant])
<1>1. PICK now \in Instants :
         /\ RowOfLease(envelope.lease) = {}
         /\ TenantIsSettled(ledger, tenant)
         /\ ClockHolds(ledger, now)
         /\ Verified(envelope, Document(Policy(Body(now))), Statement, now)
         /\ InWindow(Body(now))
         /\ ContinuesCollector(ledger.collectorHeads[Collector(Body(now))], envelope.lease)
         /\ PolicyAdvances(ledger, Policy(Body(now)))
         /\ HasRoom(ledger, tenant)
         /\ Commit(p, Reserved(ledger, Body(now)))
         /\ Moved(p, At("reserved", Body(now), OwnRequest(envelope)))
  BY DEF ReserveReceipt
<1> DEFINE body == Body(now)
<1>2. /\ body.envelope = envelope /\ body.admitted = now
      /\ body.sequence = NextSequence(ledger.tenantHeads[tenant])
      /\ body.previous = ledger.tenantHeads[tenant]
      /\ Lease(body) = envelope.lease /\ Tenant(body) = tenant
  BY DEF ReceiptBody, Lease, Tenant
<1> HIDE DEF body, Body, envelope, tenant
<1>b. body = Body(now)
  BY DEF body
<1>3. /\ service[p].step = "probed" /\ ServiceIsKnown(ledger, custody, service[p])
      /\ UNCHANGED custody
  BY DEF ReserveReceipt, AdmissionInv
<1>4. envelope.lease \in ledger.leases
      /\ envelope.signatures \in SignatureLists[envelope.lease.job]
  BY <1>3 DEF ServiceIsKnown, envelope
<1>5. \A r \in Receipts(ledger) : Lease(r.body) # Lease(body)
  BY <1>1, <1>2 DEF RowOfLease, Receipts
<1>6. ledger' = Reserved(ledger, body) /\ Commit(p, ledger')
  BY <1>1, <1>b DEF Commit
<1>7. /\ LedgerInv(ledger') /\ ledger'.tenantHeads = ledger.tenantHeads
      /\ ledger'.admissions = ledger.admissions /\ Grows(ledger, custody, ledger', custody)
      /\ body \in Bodies(ledger')
  <2>1. LedgerInv(ledger)
    BY DEF AdmissionInv
  <2> QED
    BY <1>1, <1>2, <1>4, <1>5, <1>6, <1>b, <2>1, ReservedHolds
<1>11. CustodyIsKnown(ledger', custody)
  BY <1>7, CustodyStaysKnown DEF AdmissionInv
<1>12. /\ service'[p] = At("reserved", body, OwnRequest(envelope))
       /\ service' = [service EXCEPT ![p] = service'[p]] /\ UNCHANGED storage
  BY <1>1, <1>b, MovedWithin
<1>13. /\ service'[p].step = "reserved" /\ service'[p].item = body
       /\ service'[p].request = envelope /\ service'[p].plan = "none"
  BY <1>12 DEF At, OwnRequest
<1>14. WorksFor(ledger', service'[p], body)
  BY <1>2, <1>13 DEF WorksFor, TodoIsKnown
<1>15. ServiceIsKnown(ledger', custody, service'[p]) /\ IsOpen(service'[p])
  BY <1>7, <1>13, <1>14, ReservedIsKnown
<1>16. IsOpen(service[p])
  BY <1>3 DEF IsOpen
<1> QED
  BY <1>3, <1>6, <1>7, <1>11, <1>12, <1>15, <1>16, CommitKeeps

\* None is not a receipt: whatever is signed differs from it.
NilIsNoReceipt == \A body, signature : Nil # [body |-> body, signature |-> signature]

LEMMA SignReceiptKeeps ==
    ASSUME NilIsNoReceipt, AdmissionInv, NEW p \in Services, SignReceipt(p)
    PROVE  AdmissionInv' /\ Grows(ledger, custody, ledger', custody')
<1> DEFINE s == service[p]
           receipt == [body |-> s.item, signature |-> p]
<1>1. s.step = "reserved" /\ ServiceIsKnown(ledger, custody, s)
  BY DEF SignReceipt, AdmissionInv
<1>2. s.item \in Bodies(ledger) /\ WorksFor(ledger, s, s.item)
  BY <1>1 DEF ServiceIsKnown
<1>3. receipt # Nil /\ receipt.body = s.item
  BY DEF NilIsNoReceipt
<1>4. Moved(p, At("signed", receipt, s)) /\ UNCHANGED << ledger, known, foreign, custody >>
  BY DEF SignReceipt
<1> HIDE DEF s, receipt
<1>5. /\ service'[p] = At("signed", receipt, s)
      /\ service' = [service EXCEPT ![p] = service'[p]] /\ UNCHANGED storage
  BY <1>4, MovedWithin DEF s, receipt
<1>6. /\ service'[p].step = "signed" /\ service'[p].item = receipt
      /\ service'[p].request = s.request /\ service'[p].plan = s.plan
      /\ service'[p].todo = s.todo
  BY <1>5 DEF At
<1>7. WorksFor(ledger, service'[p], receipt.body)
  BY <1>2, <1>3, <1>6 DEF WorksFor, TodoIsKnown
<1>8. ServiceIsKnown(ledger, custody, service'[p]) /\ IsOpen(service'[p])
  BY <1>2, <1>3, <1>6, <1>7 DEF ServiceIsKnown, IsOpen
<1>9. IsOpen(service[p])
  BY <1>1 DEF IsOpen, s
<1> QED
  BY <1>4, <1>5, <1>8, <1>9, ReadKeeps

LEMMA FinalizeExistingKeeps ==
    ASSUME AdmissionInv, NEW p \in Services, FinalizeExisting(p)
    PROVE  AdmissionInv' /\ Grows(ledger, custody, ledger', custody')
<1> DEFINE s == service[p]
<1>1. s.step = "signed" /\ ServiceIsKnown(ledger, custody, s)
  BY DEF FinalizeExisting, AdmissionInv
<1>2. WorksFor(ledger, s, s.item.body)
  BY <1>1 DEF ServiceIsKnown
<1>3. PICK row \in RowOfLease(Lease(s.item.body)) :
         /\ row.receipt.body = s.item.body
         /\ Moved(p, [At("stored", row.receipt, s) EXCEPT !.earlier = row.acknowledgement])
  BY DEF FinalizeExisting
<1> HIDE DEF s
<1>4. row.receipt \in Receipts(ledger)
  BY <1>3, RowsAreReceipts DEF RowOfLease
<1>5. /\ service'[p] = [At("stored", row.receipt, s) EXCEPT !.earlier = row.acknowledgement]
      /\ service' = [service EXCEPT ![p] = service'[p]] /\ UNCHANGED storage
  BY <1>3, MovedWithin DEF s
<1>6. service'[p] = [step |-> "stored", item |-> row.receipt, request |-> s.request,
                     plan |-> s.plan, todo |-> s.todo, earlier |-> row.acknowledgement]
  BY <1>5 DEF At
<1>7. WorksFor(ledger, service'[p], row.receipt.body)
  BY <1>2, <1>3, <1>6 DEF WorksFor, TodoIsKnown
<1>8. ServiceIsKnown(ledger, custody, service'[p]) /\ IsOpen(service'[p])
  BY <1>4, <1>6, <1>7, StoredIsKnown
<1>9. IsOpen(service[p]) /\ Rollback(p) /\ UNCHANGED custody
  BY DEF FinalizeExisting, IsOpen
<1>10. UNCHANGED ledger
  BY <1>9 DEF Rollback
<1> QED
  BY <1>5, <1>8, <1>9, <1>10, ReadKeeps

LEMMA FinalizeAdmissionKeeps ==
    ASSUME AdmissionInv, NEW p \in Services, FinalizeAdmission(p)
    PROVE  AdmissionInv' /\ Grows(ledger, custody, ledger', custody')
<1> DEFINE s == service[p]
           receipt == s.item
           tenant == Tenant(receipt.body)
<1>1. s.step = "signed" /\ ServiceIsKnown(ledger, custody, s)
  BY DEF FinalizeAdmission, AdmissionInv
<1>2. receipt # Nil /\ receipt.body \in Bodies(ledger) /\ WorksFor(ledger, s, receipt.body)
  BY <1>1 DEF ServiceIsKnown
<1>3. /\ receipt.body \in ledger.preparations
      /\ ledger' = Finalized(ledger, receipt)
      /\ known' = [known EXCEPT ![p] = [Heads(p) EXCEPT ![tenant] = receipt]]
      /\ foreign' = [q \in Services |-> q # p /\ service[q].step # "closed"]
      /\ Moved(p, At("stored", receipt, s))
      /\ UNCHANGED custody
  BY DEF FinalizeAdmission
<1> HIDE DEF s, receipt, tenant
<1>4. /\ LedgerInv(ledger') /\ Grows(ledger, custody, ledger', custody)
      /\ receipt \in Receipts(ledger')
      /\ ledger'.tenantHeads = [ledger.tenantHeads EXCEPT ![tenant] = receipt]
      /\ \A row \in ledger'.admissions : row \in ledger.admissions \/ row.acknowledgement = Nil
  BY <1>2, <1>3, FinalizedHolds DEF AdmissionInv, tenant
<1>5. CustodyIsKnown(ledger', custody)
  BY <1>4, CustodyStaysKnown DEF AdmissionInv
<1>6. /\ service'[p] = At("stored", receipt, s)
      /\ service' = [service EXCEPT ![p] = service'[p]] /\ UNCHANGED storage
  BY <1>3, MovedWithin DEF s, receipt
<1>7. service'[p] = [step |-> "stored", item |-> receipt, request |-> s.request,
                     plan |-> s.plan, todo |-> s.todo, earlier |-> Nil]
  BY <1>6 DEF At
<1>8. WorksFor(ledger', service'[p], receipt.body)
  BY <1>2, <1>4, <1>7 DEF WorksFor, TodoIsKnown, Grows
<1>9. ServiceIsKnown(ledger', custody, service'[p]) /\ IsOpen(service'[p])
  BY <1>4, <1>7, <1>8, StoredIsKnown
<1>10. IsOpen(service[p])
  BY <1>1 DEF IsOpen, s
<1>11. \A q \in Services : q # p => service'[q] = service[q]
  BY <1>6 DEF AdmissionInv, CachesAgree
<1>12. \A q \in Services : ServiceIsKnown(ledger', custody', service'[q])
  BY <1>3, <1>4, <1>9, <1>11, OthersStayKnown
<1>13. CachesAgree'
  <2>1. Heads(p) = ledger.tenantHeads /\ storage = "ready"
    BY <1>10, HeadsAreKnown
  <2>2. service' = [q \in Services |-> service'[q]]
    BY <1>6 DEF AdmissionInv, CachesAgree
  <2>3. /\ known' = [q \in Services |-> known'[q]] /\ foreign' \in [Services -> BOOLEAN]
        /\ \A q \in Services : q # p =>
              known'[q] = known[q] /\ (foreign'[q] <=> service[q].step # "closed")
        /\ known'[p] = ledger'.tenantHeads
    BY <1>3, <1>4, <2>1 DEF AdmissionInv, CachesAgree
  <2>4. \A q \in Services : service[q].step # "creating"
    BY <2>1 DEF AdmissionInv, CachesAgree
  <2> QED
    BY <1>6, <1>9, <1>11, <2>1, <2>2, <2>3, <2>4 DEF AdmissionInv, CachesAgree, IsOpen
<1> QED
  BY <1>3, <1>4, <1>5, <1>12, <1>13 DEF AdmissionInv

\* What a call relies on once its receipt is in custody.
LEMMA HeldIsKnown ==
    ASSUME NEW l, NEW c, NEW s, s.step \in {"held", "acknowledging", "acknowledged"},
           s.item \in Receipts(l), WorksFor(l, s, s.item.body), HeldIn(c, s.item),
           s.step = "acknowledged" => s.earlier \in Services,
           s = [step |-> s.step, item |-> s.item, request |-> s.request, plan |-> s.plan,
                todo |-> s.todo, earlier |-> s.earlier]
    PROVE  ServiceIsKnown(l, c, s) /\ IsOpen(s)
  BY DEF ServiceIsKnown, IsOpen

\* The columns of a call's state that its later steps keep.
LEMMA WorkColumns ==
    ASSUME NEW l, NEW c, NEW s, ServiceIsKnown(l, c, s),
           s.step \in {"stored", "held", "acknowledging", "acknowledged"}
    PROVE  /\ s.item \in Receipts(l) /\ WorksFor(l, s, s.item.body)
           /\ s.step # "stored" => HeldIn(c, s.item)
           /\ \A step :
                 /\ [s EXCEPT !.step = step] =
                       [step |-> step, item |-> s.item, request |-> s.request,
                        plan |-> s.plan, todo |-> s.todo, earlier |-> s.earlier]
                 /\ \A e : [s EXCEPT !.step = step, !.earlier = e] =
                       [step |-> step, item |-> s.item, request |-> s.request,
                        plan |-> s.plan, todo |-> s.todo, earlier |-> e]
<1>1. /\ s.item \in Receipts(l) /\ WorksFor(l, s, s.item.body)
      /\ s.step # "stored" => HeldIn(c, s.item)
      /\ s = [step |-> s.step, item |-> s.item, request |-> s.request, plan |-> s.plan,
              todo |-> s.todo, earlier |-> s.earlier]
  BY DEF ServiceIsKnown
<1>2. ASSUME NEW step
      PROVE  [s EXCEPT !.step = step] =
                [step |-> step, item |-> s.item, request |-> s.request,
                 plan |-> s.plan, todo |-> s.todo, earlier |-> s.earlier]
  BY <1>1
<1>3. ASSUME NEW step, NEW e
      PROVE  [s EXCEPT !.step = step, !.earlier = e] =
                [step |-> step, item |-> s.item, request |-> s.request,
                 plan |-> s.plan, todo |-> s.todo, earlier |-> e]
  <2> DEFINE t == [s EXCEPT !.step = step]
  <2>1. t = [step |-> step, item |-> s.item, request |-> s.request,
             plan |-> s.plan, todo |-> s.todo, earlier |-> s.earlier]
    BY <1>2
  <2>2. [s EXCEPT !.step = step, !.earlier = e] = [t EXCEPT !.earlier = e]
    OBVIOUS
  <2> HIDE DEF t
  <2>3. [t EXCEPT !.earlier = e] =
           [step |-> step, item |-> s.item, request |-> s.request,
            plan |-> s.plan, todo |-> s.todo, earlier |-> e]
    BY <2>1
  <2> QED
    BY <2>2, <2>3
<1> QED
  BY <1>1, <1>2, <1>3

LEMMA PersistCustodyKeeps ==
    ASSUME AdmissionInv, NEW p \in Services, PersistCustody(p)
    PROVE  AdmissionInv' /\ Grows(ledger, custody, ledger', custody')
<1> DEFINE s == service[p]
           receipt == s.item
           object == [object |-> ObjectOf(receipt), receipt |-> receipt]
<1>1. s.step = "stored" /\ ServiceIsKnown(ledger, custody, s)
  BY DEF PersistCustody, AdmissionInv
<1>2. /\ receipt \in Receipts(ledger) /\ WorksFor(ledger, s, receipt.body)
      /\ [s EXCEPT !.step = "held"] =
            [step |-> "held", item |-> receipt, request |-> s.request, plan |-> s.plan,
             todo |-> s.todo, earlier |-> s.earlier]
  BY <1>1, WorkColumns
<1>3. /\ custody' = custody \cup {object}
      /\ Moved(p, [s EXCEPT !.step = "held"])
      /\ UNCHANGED << ledger, known, foreign >>
  BY DEF PersistCustody
<1>4. object.receipt = receipt /\ HeldIn(custody', receipt)
  BY <1>3 DEF HeldIn
<1> HIDE DEF object
<1>5. Grows(ledger, custody, ledger', custody')
  BY <1>3 DEF Grows, Settled
<1>6. /\ service'[p] = [s EXCEPT !.step = "held"]
      /\ service' = [service EXCEPT ![p] = service'[p]] /\ UNCHANGED storage
  BY <1>3, MovedWithin
<1> HIDE DEF s, receipt
<1>7. service'[p] = [step |-> "held", item |-> receipt, request |-> s.request,
                     plan |-> s.plan, todo |-> s.todo, earlier |-> s.earlier]
  BY <1>2, <1>6
<1>8. WorksFor(ledger', service'[p], receipt.body)
  BY <1>2, <1>3, <1>7 DEF WorksFor, TodoIsKnown
<1>9. ServiceIsKnown(ledger', custody', service'[p]) /\ IsOpen(service'[p])
  BY <1>2, <1>3, <1>4, <1>7, <1>8, HeldIsKnown
<1>10. \A q \in Services : q # p => service'[q] = service[q]
  BY <1>6 DEF AdmissionInv, CachesAgree
<1>11. \A q \in Services : ServiceIsKnown(ledger', custody', service'[q])
  BY <1>5, <1>9, <1>10, OthersStayKnown
<1>12. CustodyIsKnown(ledger', custody')
  BY <1>2, <1>3, <1>4 DEF AdmissionInv, CustodyIsKnown, HeldIn
<1>13. CachesAgree'
  <2>1. service' = [q \in Services |-> service'[q]]
    BY <1>6 DEF AdmissionInv, CachesAgree
  <2>2. IsOpen(service[p])
    BY <1>1 DEF IsOpen, s
  <2> QED
    BY <1>3, <1>6, <1>9, <1>10, <2>1, <2>2 DEF AdmissionInv, CachesAgree, IsOpen
<1> QED
  BY <1>3, <1>5, <1>11, <1>12, <1>13 DEF AdmissionInv

\* Finish: the call answers with a row of the ledger, or its reconciliation goes on.
Ended(s, receipt, acknowledgement) ==
    IF s.request = Nil THEN [step |-> "sweep", plan |-> s.plan, todo |-> s.todo]
    ELSE [step |-> "answered", request |-> s.request, receipt |-> receipt,
          acknowledgement |-> acknowledgement]

LEMMA EndedIsKnown ==
    ASSUME NEW l, NEW c, NEW s, NEW receipt, NEW acknowledgement \in Services,
           WorksFor(l, s, receipt.body), HeldIn(c, receipt),
           [receipt |-> receipt, acknowledgement |-> acknowledgement] \in l.admissions,
           NEW next, next = Ended(s, receipt, acknowledgement)
    PROVE  ServiceIsKnown(l, c, next) /\ IsOpen(next)
<1>1. CASE s.request = Nil
  <2>1. next = [step |-> "sweep", plan |-> s.plan, todo |-> s.todo]
    BY <1>1 DEF Ended
  <2>2. next.step = "sweep" /\ next.plan = s.plan /\ next.todo = s.todo
    BY <2>1
  <2>3. TodoIsKnown(l, next)
    BY <2>2 DEF WorksFor, TodoIsKnown
  <2> QED
    BY <2>1, <2>2, <2>3, SweepIsKnown
<1>2. CASE s.request # Nil
  <2>1. next = [step |-> "answered", request |-> s.request, receipt |-> receipt,
                acknowledgement |-> acknowledgement]
    BY <1>2 DEF Ended
  <2>2. /\ next.step = "answered" /\ next.request = s.request /\ next.receipt = receipt
        /\ next.acknowledgement = acknowledgement
    BY <2>1
  <2>3. receipt.body.envelope = next.request
    BY <1>2, <2>2 DEF WorksFor
  <2> QED
    BY <2>2, <2>3 DEF ServiceIsKnown, IsOpen
<1> QED
  BY <1>1, <1>2

LEMMA FinishMoves ==
    ASSUME AdmissionInv, NEW p \in Services, NEW STATE receipt, NEW STATE acknowledgement,
           Finish(p, receipt, acknowledgement)
    PROVE  /\ service'[p] = Ended(service[p], receipt, acknowledgement)
           /\ service' = [service EXCEPT ![p] = service'[p]] /\ UNCHANGED storage
<1>1. Moved(p, Ended(service[p], receipt, acknowledgement))
  BY DEF Finish, Ended
<1> QED
  BY <1>1, MovedWithin

\* A row has no columns but its receipt and its acknowledgement.
LEMMA RowsOfReceipt ==
    ASSUME AdmissionInv, NEW receipt, NEW row \in RowOf(receipt)
    PROVE  /\ row.receipt = receipt
           /\ [receipt |-> receipt, acknowledgement |-> row.acknowledgement]
                 \in ledger.admissions
           /\ row.acknowledgement # Nil => row.acknowledgement \in Services
<1>1. row \in ledger.admissions /\ row.receipt = receipt
  BY DEF RowOf
<1>2. row = [receipt |-> row.receipt, acknowledgement |-> row.acknowledgement]
  BY <1>1 DEF AdmissionInv, LedgerInv, LedgerTypeOK
<1> QED
  BY <1>1, <1>2 DEF AdmissionInv, CustodyIsKnown

LEMMA AlreadyAcknowledgedKeeps ==
    ASSUME AdmissionInv, NEW p \in Services, AlreadyAcknowledged(p)
    PROVE  AdmissionInv' /\ Grows(ledger, custody, ledger', custody')
<1> DEFINE s == service[p]
<1>1. s.step = "held" /\ ServiceIsKnown(ledger, custody, s)
  BY DEF AlreadyAcknowledged, AdmissionInv
<1>2. WorksFor(ledger, s, s.item.body) /\ HeldIn(custody, s.item)
  BY <1>1 DEF ServiceIsKnown
<1>3. PICK row \in RowOf(s.item) :
         row.acknowledgement # Nil /\ Finish(p, row.receipt, row.acknowledgement)
  BY DEF AlreadyAcknowledged
<1>4. /\ row.receipt = s.item /\ row.acknowledgement \in Services
      /\ [receipt |-> s.item, acknowledgement |-> row.acknowledgement] \in ledger.admissions
  BY <1>3, RowsOfReceipt
<1>5. /\ service'[p] = Ended(s, row.receipt, row.acknowledgement)
      /\ service' = [service EXCEPT ![p] = service'[p]] /\ UNCHANGED storage
  BY <1>3, FinishMoves
<1> HIDE DEF s
<1>6. ServiceIsKnown(ledger, custody, service'[p]) /\ IsOpen(service'[p])
  BY <1>2, <1>4, <1>5, EndedIsKnown
<1>7. IsOpen(service[p]) /\ Rollback(p) /\ UNCHANGED custody
  BY DEF AlreadyAcknowledged, IsOpen
<1>8. UNCHANGED ledger
  BY <1>7 DEF Rollback
<1> QED
  BY <1>5, <1>6, <1>7, <1>8, ReadKeeps

LEMMA PrepareAcknowledgementKeeps ==
    ASSUME AdmissionInv, NEW p \in Services, PrepareAcknowledgement(p)
    PROVE  AdmissionInv' /\ Grows(ledger, custody, ledger', custody')
<1> DEFINE s == service[p]
           receipt == s.item
<1>1. s.step = "held" /\ ServiceIsKnown(ledger, custody, s)
  BY DEF PrepareAcknowledgement, AdmissionInv
<1>2. /\ receipt \in Receipts(ledger) /\ WorksFor(ledger, s, receipt.body)
      /\ HeldIn(custody, receipt)
      /\ [s EXCEPT !.step = "acknowledging"] =
            [step |-> "acknowledging", item |-> receipt, request |-> s.request,
             plan |-> s.plan, todo |-> s.todo, earlier |-> s.earlier]
  BY <1>1, WorkColumns
<1>3. /\ Pending(RowOf(receipt)) # {}
      /\ \/ Rollback(p)
         \/ Commit(p, [ledger EXCEPT !.acknowledging = @ \cup {receipt}])
      /\ Moved(p, [s EXCEPT !.step = "acknowledging"])
      /\ UNCHANGED custody
  BY DEF PrepareAcknowledgement
<1>4. [receipt |-> receipt, acknowledgement |-> Nil] \in ledger.admissions
  <2>1. PICK row \in RowOf(receipt) : row.acknowledgement = Nil
    BY <1>3 DEF Pending
  <2> QED
    BY <2>1, RowsOfReceipt
<1>5. /\ service'[p] = [s EXCEPT !.step = "acknowledging"]
      /\ service' = [service EXCEPT ![p] = service'[p]] /\ UNCHANGED storage
  BY <1>3, MovedWithin
<1>6. IsOpen(service[p])
  BY <1>1 DEF IsOpen
<1> HIDE DEF s, receipt
<1>7. service'[p] = [step |-> "acknowledging", item |-> receipt, request |-> s.request,
                     plan |-> s.plan, todo |-> s.todo, earlier |-> s.earlier]
  BY <1>2, <1>5
<1>8. WorksFor(ledger, service'[p], receipt.body)
  BY <1>2, <1>7 DEF WorksFor, TodoIsKnown
<1>9. ServiceIsKnown(ledger, custody, service'[p]) /\ IsOpen(service'[p])
  BY <1>2, <1>7, <1>8, HeldIsKnown
<1>10. CASE Rollback(p)
  <2>1. UNCHANGED ledger
    BY <1>10 DEF Rollback
  <2> QED
    BY <1>3, <1>5, <1>6, <1>9, <1>10, <2>1, ReadKeeps
<1>11. CASE Commit(p, [ledger EXCEPT !.acknowledging = @ \cup {receipt}])
  <2>1. ledger' = [ledger EXCEPT !.acknowledging = @ \cup {receipt}] /\ Commit(p, ledger')
    BY <1>11 DEF Commit
  <2>2. /\ LedgerInv(ledger') /\ ledger'.tenantHeads = ledger.tenantHeads
        /\ ledger'.admissions = ledger.admissions /\ Grows(ledger, custody, ledger', custody)
    BY <1>4, <2>1, PreparedHolds DEF AdmissionInv
  <2>3. CustodyIsKnown(ledger', custody)
    BY <2>2, CustodyStaysKnown DEF AdmissionInv
  <2>4. ServiceIsKnown(ledger', custody, service'[p])
    BY <1>9, <2>2, KnowledgeStays
  <2> QED
    BY <1>3, <1>5, <1>6, <1>9, <2>1, <2>2, <2>3, <2>4, CommitKeeps
<1> QED
  BY <1>3, <1>10, <1>11

LEMMA SignAcknowledgementKeeps ==
    ASSUME AdmissionInv, NEW p \in Services, SignAcknowledgement(p)
    PROVE  AdmissionInv' /\ Grows(ledger, custody, ledger', custody')
<1> DEFINE s == service[p]
<1>1. s.step = "acknowledging" /\ ServiceIsKnown(ledger, custody, s)
  BY DEF SignAcknowledgement, AdmissionInv
<1>2. /\ s.item \in Receipts(ledger) /\ WorksFor(ledger, s, s.item.body)
      /\ HeldIn(custody, s.item)
      /\ [s EXCEPT !.step = "acknowledged", !.earlier = p] =
            [step |-> "acknowledged", item |-> s.item, request |-> s.request,
             plan |-> s.plan, todo |-> s.todo, earlier |-> p]
  <2>1. /\ s.item \in Receipts(ledger) /\ WorksFor(ledger, s, s.item.body)
        /\ HeldIn(custody, s.item)
    BY <1>1, WorkColumns
  <2> HIDE DEF s
  <2>2. \A e : [s EXCEPT !.step = "acknowledged", !.earlier = e] =
                 [step |-> "acknowledged", item |-> s.item, request |-> s.request,
                  plan |-> s.plan, todo |-> s.todo, earlier |-> e]
    BY <1>1, WorkColumns, Zenon
  <2> QED
    BY <2>1, <2>2
<1>3. /\ Moved(p, [s EXCEPT !.step = "acknowledged", !.earlier = p])
      /\ UNCHANGED << ledger, known, foreign, custody >>
  BY DEF SignAcknowledgement
<1>4. /\ service'[p] = [s EXCEPT !.step = "acknowledged", !.earlier = p]
      /\ service' = [service EXCEPT ![p] = service'[p]] /\ UNCHANGED storage
  BY <1>3, MovedWithin
<1>5. IsOpen(service[p])
  BY <1>1 DEF IsOpen
<1> HIDE DEF s
<1>6. service'[p] = [step |-> "acknowledged", item |-> s.item, request |-> s.request,
                     plan |-> s.plan, todo |-> s.todo, earlier |-> p]
  BY <1>2, <1>4
<1>7. WorksFor(ledger, service'[p], s.item.body)
  BY <1>2, <1>6 DEF WorksFor, TodoIsKnown
<1>8. ServiceIsKnown(ledger, custody, service'[p]) /\ IsOpen(service'[p])
  BY <1>2, <1>6, <1>7, HeldIsKnown
<1> QED
  BY <1>3, <1>4, <1>5, <1>8, ReadKeeps

\* The acknowledgement that is finalized first is of a receipt in custody.
LEMMA FinalizeAcknowledgementKeeps ==
    ASSUME AdmissionInv, NEW p \in Services, FinalizeAcknowledgement(p)
    PROVE  AdmissionInv' /\ Grows(ledger, custody, ledger', custody')
<1> DEFINE s == service[p]
           receipt == s.item
<1>1. s.step = "acknowledged" /\ ServiceIsKnown(ledger, custody, s)
  BY DEF FinalizeAcknowledgement, AdmissionInv
<1>2. /\ WorksFor(ledger, s, receipt.body) /\ HeldIn(custody, receipt)
      /\ s.earlier \in Services
  BY <1>1 DEF ServiceIsKnown
<1>3. IsOpen(service[p]) /\ UNCHANGED custody
  BY DEF FinalizeAcknowledgement, IsOpen
<1>4. CASE \E row \in RowOf(receipt) :
              row.acknowledgement # Nil /\ Rollback(p) /\ Finish(p, receipt, row.acknowledgement)
  <2>1. PICK row \in RowOf(receipt) :
           row.acknowledgement # Nil /\ Rollback(p) /\ Finish(p, receipt, row.acknowledgement)
    BY <1>4
  <2>2. /\ row.acknowledgement \in Services
        /\ [receipt |-> receipt, acknowledgement |-> row.acknowledgement]
              \in ledger.admissions
    BY <2>1, RowsOfReceipt
  <2>3. /\ service'[p] = Ended(s, receipt, row.acknowledgement)
        /\ service' = [service EXCEPT ![p] = service'[p]] /\ UNCHANGED storage
    BY <2>1, FinishMoves
  <2> HIDE DEF s, receipt
  <2>4. ServiceIsKnown(ledger, custody, service'[p]) /\ IsOpen(service'[p])
    BY <1>2, <2>2, <2>3, EndedIsKnown
  <2>5. UNCHANGED ledger
    BY <2>1 DEF Rollback
  <2> QED
    BY <1>3, <2>1, <2>3, <2>4, <2>5, ReadKeeps
<1>5. CASE /\ Pending(RowOf(receipt)) # {}
           /\ Commit(p, Acknowledged(ledger, receipt, s.earlier))
           /\ Finish(p, receipt, s.earlier)
  <2>1. [receipt |-> receipt, acknowledgement |-> Nil] \in ledger.admissions
    <3>1. PICK row \in RowOf(receipt) : row.acknowledgement = Nil
      BY <1>5 DEF Pending
    <3> QED
      BY <3>1, RowsOfReceipt
  <2>2. /\ service'[p] = Ended(s, receipt, s.earlier)
        /\ service' = [service EXCEPT ![p] = service'[p]] /\ UNCHANGED storage
    BY <1>5, FinishMoves
  <2> HIDE DEF s, receipt
  <2>3. ledger' = Acknowledged(ledger, receipt, s.earlier) /\ Commit(p, ledger')
    BY <1>5 DEF Commit
  <2>4. /\ LedgerInv(ledger') /\ ledger'.tenantHeads = ledger.tenantHeads
        /\ Grows(ledger, custody, ledger', custody)
        /\ Receipts(ledger') = Receipts(ledger)
        /\ [receipt |-> receipt, acknowledgement |-> s.earlier] \in ledger'.admissions
        /\ \A row \in ledger'.admissions :
              \/ row \in ledger.admissions
              \/ row.receipt = receipt /\ row.acknowledgement = s.earlier
    BY <1>2, <2>1, <2>3, AcknowledgedHolds DEF AdmissionInv
  <2>5. CustodyIsKnown(ledger', custody)
    BY <1>2, <2>4 DEF AdmissionInv, CustodyIsKnown
  <2>6. WorksFor(ledger', s, receipt.body)
    BY <1>2, <2>4 DEF WorksFor, TodoIsKnown, Grows
  <2>7. ServiceIsKnown(ledger', custody, service'[p]) /\ IsOpen(service'[p])
    BY <1>2, <2>2, <2>4, <2>6, EndedIsKnown
  <2> QED
    BY <1>3, <2>2, <2>3, <2>4, <2>5, <2>7, CommitKeeps
<1> QED
  BY <1>4, <1>5 DEF FinalizeAcknowledgement

----------------------------------------------------------------------------
(* The reconciliation *)

LEMMA ReadPreparedKeeps ==
    ASSUME AdmissionInv, NEW p \in Services, ReadPrepared(p)
    PROVE  AdmissionInv' /\ Grows(ledger, custody, ledger', custody')
<1>1. /\ Moved(p, [step |-> "sweep", plan |-> "prepared", todo |-> ledger.preparations])
      /\ Rollback(p) /\ UNCHANGED custody /\ IsOpen(service[p])
  BY DEF ReadPrepared, IsOpen
<1>2. /\ service'[p] =
            [step |-> "sweep", plan |-> "prepared", todo |-> ledger.preparations]
      /\ service' = [service EXCEPT ![p] = service'[p]] /\ UNCHANGED storage
  BY <1>1, MovedWithin
<1>3. TodoIsKnown(ledger, service'[p])
  BY <1>2 DEF TodoIsKnown, Bodies
<1>4. ServiceIsKnown(ledger, custody, service'[p]) /\ IsOpen(service'[p])
  BY <1>2, <1>3, SweepIsKnown
<1>5. UNCHANGED ledger
  BY <1>1 DEF Rollback
<1> QED
  BY <1>1, <1>2, <1>4, <1>5, ReadKeeps

LEMMA TakePreparedKeeps ==
    ASSUME AdmissionInv, NEW p \in Services, TakePrepared(p)
    PROVE  AdmissionInv' /\ Grows(ledger, custody, ledger', custody')
<1> DEFINE s == service[p]
<1>1. /\ s.step = "sweep" /\ s.plan = "prepared" /\ ServiceIsKnown(ledger, custody, s)
      /\ Rollback(p) /\ UNCHANGED custody
  BY DEF TakePrepared, AdmissionInv
<1>2. /\ s = [step |-> "sweep", plan |-> "prepared", todo |-> s.todo]
      /\ s.todo \subseteq Bodies(ledger)
  BY <1>1 DEF ServiceIsKnown, TodoIsKnown
<1>3. PICK body \in s.todo :
         \/ Moved(p, At("reserved", body,
                        [request |-> Nil, plan |-> "prepared", todo |-> s.todo \ {body}]))
         \/ Moved(p, [s EXCEPT !.todo = s.todo \ {body}])
  BY DEF TakePrepared
<1>4. UNCHANGED ledger /\ IsOpen(service[p])
  BY <1>1 DEF Rollback, IsOpen
<1> DEFINE rest == s.todo \ {body}
<1>5. rest \subseteq Bodies(ledger) /\ body \in Bodies(ledger)
  BY <1>2, <1>3
<1>6. CASE Moved(p, At("reserved", body,
                       [request |-> Nil, plan |-> "prepared", todo |-> rest]))
  <2>1. /\ service'[p] =
              At("reserved", body, [request |-> Nil, plan |-> "prepared", todo |-> rest])
        /\ service' = [service EXCEPT ![p] = service'[p]] /\ UNCHANGED storage
    BY <1>6, MovedWithin
  <2> HIDE DEF s, rest
  <2>2. /\ service'[p].step = "reserved" /\ service'[p].item = body
        /\ service'[p].request = Nil /\ service'[p].plan = "prepared"
        /\ service'[p].todo = rest
    BY <2>1 DEF At
  <2>3. WorksFor(ledger, service'[p], body)
    BY <1>5, <2>2 DEF WorksFor, TodoIsKnown
  <2>4. ServiceIsKnown(ledger, custody, service'[p]) /\ IsOpen(service'[p])
    BY <1>5, <2>2, <2>3, ReservedIsKnown
  <2> QED
    BY <1>1, <1>4, <2>1, <2>4, ReadKeeps
<1>7. CASE Moved(p, [s EXCEPT !.todo = rest])
  <2>1. /\ service'[p] = [s EXCEPT !.todo = rest]
        /\ service' = [service EXCEPT ![p] = service'[p]] /\ UNCHANGED storage
    BY <1>7, MovedWithin
  <2> HIDE DEF s, rest
  <2>2. service'[p] = [step |-> "sweep", plan |-> "prepared", todo |-> rest]
    BY <1>2, <2>1
  <2>3. TodoIsKnown(ledger, service'[p])
    BY <1>5, <2>2 DEF TodoIsKnown
  <2>4. ServiceIsKnown(ledger, custody, service'[p]) /\ IsOpen(service'[p])
    BY <2>2, <2>3, SweepIsKnown
  <2> QED
    BY <1>1, <1>4, <2>1, <2>4, ReadKeeps
<1> QED
  BY <1>3, <1>6, <1>7

LEMMA ReadPendingKeeps ==
    ASSUME AdmissionInv, NEW p \in Services, ReadPending(p)
    PROVE  AdmissionInv' /\ Grows(ledger, custody, ledger', custody')
<1> DEFINE pending == {row.receipt : row \in Pending(ledger.admissions)}
<1>1. /\ Moved(p, [step |-> "sweep", plan |-> "pending", todo |-> pending])
      /\ Rollback(p) /\ UNCHANGED custody /\ IsOpen(service[p])
  BY DEF ReadPending, IsOpen
<1>2. pending \subseteq Receipts(ledger)
  BY DEF Pending, Receipts
<1>3. /\ service'[p] = [step |-> "sweep", plan |-> "pending", todo |-> pending]
      /\ service' = [service EXCEPT ![p] = service'[p]] /\ UNCHANGED storage
  BY <1>1, MovedWithin
<1> HIDE DEF pending
<1>4. TodoIsKnown(ledger, service'[p])
  BY <1>2, <1>3 DEF TodoIsKnown
<1>5. ServiceIsKnown(ledger, custody, service'[p]) /\ IsOpen(service'[p])
  BY <1>3, <1>4, SweepIsKnown
<1>6. UNCHANGED ledger
  BY <1>1 DEF Rollback
<1> QED
  BY <1>1, <1>3, <1>5, <1>6, ReadKeeps

LEMMA TakePendingKeeps ==
    ASSUME AdmissionInv, NEW p \in Services, TakePending(p)
    PROVE  AdmissionInv' /\ Grows(ledger, custody, ledger', custody')
<1> DEFINE s == service[p]
<1>1. /\ s.step = "sweep" /\ s.plan = "pending" /\ ServiceIsKnown(ledger, custody, s)
      /\ UNCHANGED << ledger, known, foreign, custody >>
  BY DEF TakePending, AdmissionInv
<1>2. s.todo \subseteq Receipts(ledger)
  BY <1>1 DEF ServiceIsKnown, TodoIsKnown
<1>3. PICK receipt \in s.todo :
         Moved(p, At("stored", receipt,
                     [request |-> Nil, plan |-> "pending", todo |-> s.todo \ {receipt}]))
  BY DEF TakePending
<1>4. IsOpen(service[p])
  BY <1>1 DEF IsOpen
<1> DEFINE rest == s.todo \ {receipt}
<1>5. rest \subseteq Receipts(ledger) /\ receipt \in Receipts(ledger)
  BY <1>2, <1>3
<1>6. /\ service'[p] =
            At("stored", receipt, [request |-> Nil, plan |-> "pending", todo |-> rest])
      /\ service' = [service EXCEPT ![p] = service'[p]] /\ UNCHANGED storage
  BY <1>3, MovedWithin
<1> HIDE DEF s, rest
<1>7. service'[p] = [step |-> "stored", item |-> receipt, request |-> Nil,
                     plan |-> "pending", todo |-> rest, earlier |-> Nil]
  BY <1>6 DEF At
<1>8. WorksFor(ledger, service'[p], receipt.body)
  BY <1>5, <1>7 DEF WorksFor, TodoIsKnown
<1>9. ServiceIsKnown(ledger, custody, service'[p]) /\ IsOpen(service'[p])
  BY <1>5, <1>7, <1>8, StoredIsKnown
<1> QED
  BY <1>1, <1>4, <1>6, <1>9, ReadKeeps

\* A call that ends leaves what it has committed.
LEMMA CallEndsKeeps ==
    ASSUME AdmissionInv, NEW p \in Services, FinishSweep(p) \/ CallFails(p)
    PROVE  AdmissionInv' /\ Grows(ledger, custody, ledger', custody')
<1>1. /\ Moved(p, Idle) /\ UNCHANGED << ledger, known, foreign, custody >>
      /\ IsOpen(service[p])
  BY DEF FinishSweep, CallFails, IsOpen
<1>2. /\ service'[p] = Idle
      /\ service' = [service EXCEPT ![p] = service'[p]] /\ UNCHANGED storage
  BY <1>1, MovedWithin
<1>3. service'[p].step = "idle"
  BY <1>2 DEF Idle
<1>4. ServiceIsKnown(ledger, custody, service'[p]) /\ IsOpen(service'[p])
  BY <1>3, RestingIsKnown DEF IsOpen
<1> QED
  BY <1>1, <1>2, <1>4, ReadKeeps

----------------------------------------------------------------------------
(* Every step *)

LEMMA NextKeeps ==
    ASSUME NilIsNoReceipt, AdmissionInv, [AdmissionNext]_admissionVars
    PROVE  AdmissionInv' /\ Grows(ledger, custody, ledger', custody')
<1>1. CASE UNCHANGED admissionVars
  <2>1. AdmissionInv'
    BY <1>1
       DEF admissionVars, AdmissionInv, CachesAgree, IsOpen
  <2>2. Grows(ledger, custody, ledger', custody')
    BY <1>1, GrowsReflexive DEF admissionVars
  <2> QED
    BY <2>1, <2>2
<1>2. CASE AdmissionNext
  <2>1. PICK p \in Services :
           \/ CreateFile(p) \/ CreateSchema(p) \/ OpenLedger(p)
           \/ RegisterLease(p)
           \/ ProbeRetry(p) \/ RetryStored(p) \/ RetryPrepared(p) \/ ReserveReceipt(p)
           \/ SignReceipt(p) \/ FinalizeExisting(p) \/ FinalizeAdmission(p)
           \/ PersistCustody(p) \/ AlreadyAcknowledged(p) \/ PrepareAcknowledgement(p)
           \/ SignAcknowledgement(p) \/ FinalizeAcknowledgement(p)
           \/ ReadPrepared(p) \/ TakePrepared(p) \/ ReadPending(p) \/ TakePending(p)
           \/ FinishSweep(p) \/ CallFails(p) \/ ServiceDies(p)
    BY <1>2 DEF AdmissionNext
  <2>2. CASE CreateFile(p) \/ CreateSchema(p) \/ OpenLedger(p) \/ ServiceDies(p)
    BY <2>2, LifecycleKeeps
  <2>3. CASE RegisterLease(p) \/ ProbeRetry(p) \/ RetryStored(p) \/ RetryPrepared(p)
    BY <2>3, RegisterLeaseKeeps, ProbeRetryKeeps, RetryStoredKeeps, RetryPreparedKeeps
  <2>4. CASE ReserveReceipt(p) \/ SignReceipt(p) \/ FinalizeExisting(p) \/ FinalizeAdmission(p)
    BY <2>4, ReserveReceiptKeeps, SignReceiptKeeps, FinalizeExistingKeeps,
       FinalizeAdmissionKeeps
  <2>5. CASE PersistCustody(p) \/ AlreadyAcknowledged(p) \/ PrepareAcknowledgement(p)
             \/ SignAcknowledgement(p) \/ FinalizeAcknowledgement(p)
    BY <2>5, PersistCustodyKeeps, AlreadyAcknowledgedKeeps, PrepareAcknowledgementKeeps,
       SignAcknowledgementKeeps, FinalizeAcknowledgementKeeps
  <2>6. CASE ReadPrepared(p) \/ TakePrepared(p) \/ ReadPending(p) \/ TakePending(p)
    BY <2>6, ReadPreparedKeeps, TakePreparedKeeps, ReadPendingKeeps, TakePendingKeeps
  <2>7. CASE FinishSweep(p) \/ CallFails(p)
    BY <2>7, CallEndsKeeps
  <2> QED
    BY <2>1, <2>2, <2>3, <2>4, <2>5, <2>6, <2>7
<1> QED
  BY <1>1, <1>2

\* As many keys as the threshold asks for, of as many identities, among those that signed:
\* signatures, selected keys and identities are equally many, so none signs twice.
LEMMA SignersAreMany ==
    ASSUME NEW envelope, NEW policy, WellFormedPolicy(policy), policy.threshold \in Nat,
           Len(envelope.signatures) \in Nat,
           DOMAIN envelope.signatures = 1..Len(envelope.signatures),
           SignersAreDistinct(envelope, policy), ThresholdIsMet(envelope, policy)
    PROVE  \E keys \in SUBSET SelectedKeys(envelope, policy) :
              /\ \A j, k \in keys : j # k => j.identity # k.identity
              /\ Cardinality(keys) = policy.threshold
<1> DEFINE n == Len(envelope.signatures)
           S == SelectedKeys(envelope, policy)
           signers == Signers(envelope)
           people == Identities(S)
           f == [i \in 1..n |-> envelope.signatures[i].key]
           g == [k \in S |-> k.id]
           h == [k \in S |-> k.identity]
<1>1. /\ n \in Nat /\ Cardinality(signers) = n /\ Cardinality(people) = n
      /\ n >= policy.threshold
  BY DEF SignersAreDistinct, ThresholdIsMet
<1>2. f \in Surjection(1..n, signers)
  <2>1. \A i \in 1..n : f[i] \in signers
    BY DEF Signers
  <2>2. \A id \in signers : \E i \in 1..n : f[i] = id
    BY DEF Signers
  <2>3. f \in [1..n -> signers]
    BY <2>1
  <2> HIDE DEF f, n, signers
  <2> QED
    BY <2>2, <2>3 DEF Surjection
<1>3. g \in Injection(S, signers)
  <2>1. \A k \in S : k.id \in signers
    BY DEF SelectedKeys
  <2>2. \A j, k \in S : j.id = k.id => j = k
    BY DEF SelectedKeys, WellFormedPolicy
  <2> HIDE DEF S, signers
  <2>3. g \in [S -> signers] /\ \A j, k \in S : g[j] = g[k] => j = k
    BY <2>1, <2>2
  <2> QED
    BY <2>3 DEF Injection, IsInjective
<1>4. h \in Surjection(S, people)
  <2>1. people = {k.identity : k \in S}
    BY DEF Identities
  <2> HIDE DEF S, people
  <2>2. h \in [S -> people] /\ \A who \in people : \E k \in S : h[k] = who
    BY <2>1
  <2> QED
    BY <2>2 DEF Surjection
<1> HIDE DEF n, S, signers, people, f, g
<1>5. IsFiniteSet(signers)
  <2>1. IsFiniteSet(1..n)
    BY <1>1, FS_Interval
  <2> QED
    BY <1>2, <2>1, FS_Surjection
<1>6. IsFiniteSet(S) /\ Cardinality(S) <= n
  BY <1>1, <1>3, <1>5, FS_Injection
<1>7. Cardinality(S) \in Nat /\ ExistsBijection(1..Cardinality(S), S)
  BY <1>6, FS_CardinalityType
<1>8. Cardinality(S) = n /\ h \in Injection(S, people)
  <2> HIDE DEF h
  <2>1. /\ Cardinality(people) <= Cardinality(S)
        /\ Cardinality(people) = Cardinality(S) <=> h \in Injection(S, people)
    BY <1>4, <1>6, FS_Surjection
  <2>2. Cardinality(S) = n
    BY <1>1, <1>6, <1>7, <2>1
  <2> QED
    BY <1>1, <2>1, <2>2
<1>9. \A j, k \in S : j # k => j.identity # k.identity
  <2>1. \A j, k \in S : h[j] = h[k] => j = k
    <3> HIDE DEF h
    <3> QED
      BY <1>8 DEF Injection, IsInjective
  <2> QED
    BY <2>1
<1>10. PICK b \in Bijection(1..n, S) : TRUE
  BY <1>7, <1>8 DEF ExistsBijection
<1> DEFINE m == policy.threshold
           keys == {b[i] : i \in 1..m}
           c == [i \in 1..m |-> b[i]]
<1>11. 1..m \subseteq 1..n
  BY <1>1
<1>12. keys \subseteq S
  BY <1>10, <1>11 DEF Bijection, Injection
<1>13. Cardinality(keys) = m
  <2>1. \A i, j \in 1..m : b[i] = b[j] => i = j
    BY <1>10, <1>11 DEF Bijection, Injection, IsInjective
  <2>2. c \in Bijection(1..m, keys)
    <3>1. c \in [1..m -> keys] /\ \A k \in keys : \E i \in 1..m : c[i] = k
      OBVIOUS
    <3>2. \A i, j \in 1..m : c[i] = c[j] => i = j
      BY <2>1
    <3> HIDE DEF c, keys, m
    <3> QED
      BY <3>1, <3>2 DEF Bijection, Injection, Surjection, IsInjective
  <2> HIDE DEF c, keys, m
  <2>3. ExistsBijection(1..m, keys)
    BY <2>2 DEF ExistsBijection
  <2> QED
    BY <2>3, FS_CountingElements DEF m
<1> QED
  BY <1>9, <1>12, <1>13 DEF S

\* What the invariant makes of a receipt: the first half of AdmittedUnderTrust.
LEMMA ReceiptsAreAttested ==
    ASSUME NEW l, LedgerInv(l), NEW r \in Receipts(l)
    PROVE  \E keys \in SUBSET Document(Policy(r.body)).keys :
              /\ \A k \in keys :
                    /\ \E i \in DOMAIN r.body.envelope.signatures :
                          /\ r.body.envelope.signatures[i].key = k.id
                          /\ r.body.envelope.signatures[i].genuine
                    /\ r.body.admitted >= k.from
                    /\ k.until = Nil \/ r.body.admitted < k.until
              /\ \A j, k \in keys : j # k => j.identity # k.identity
              /\ Cardinality(keys) = Document(Policy(r.body)).threshold
<1> DEFINE envelope == r.body.envelope
           policy == Document(Policy(r.body))
<1>1. r.body \in Bodies(l)
  BY ReceiptsHaveBodies
<1>2. Verified(envelope, policy, Statement, r.body.admitted)
  BY <1>1 DEF LedgerInv, BodiesVerify
<1>3. /\ policy.threshold \in Nat /\ Len(envelope.signatures) \in Nat
      /\ DOMAIN envelope.signatures = 1..Len(envelope.signatures)
  BY <1>1, BodyTypes DEF LedgerInv
<1> HIDE DEF envelope, policy
<1>4. PICK keys \in SUBSET SelectedKeys(envelope, policy) :
         /\ \A j, k \in keys : j # k => j.identity # k.identity
         /\ Cardinality(keys) = policy.threshold
  BY <1>2, <1>3, SignersAreMany DEF Verified
<1>5. ASSUME NEW k \in keys
      PROVE  /\ k \in policy.keys
             /\ \E i \in DOMAIN envelope.signatures :
                   envelope.signatures[i].key = k.id /\ envelope.signatures[i].genuine
             /\ r.body.admitted >= k.from
             /\ k.until = Nil \/ r.body.admitted < k.until
  <2>1. k \in SelectedKeys(envelope, policy)
    BY <1>4, <1>5
  <2>2. k \in policy.keys /\ k.id \in Signers(envelope)
    BY <2>1 DEF SelectedKeys
  <2>3. KeyIsEligible(k, Statement, r.body.admitted)
    BY <1>2, <2>1 DEF Verified
  <2>4. \A i \in DOMAIN envelope.signatures : envelope.signatures[i].genuine
    BY <1>2 DEF Verified
  <2>5. \E i \in DOMAIN envelope.signatures :
           envelope.signatures[i].key = k.id /\ envelope.signatures[i].genuine
    BY <2>2, <2>4 DEF Signers
  <2>6. r.body.admitted >= k.from /\ (k.until = Nil \/ r.body.admitted < k.until)
    BY <2>3 DEF KeyIsEligible
  <2> QED
    BY <2>2, <2>5, <2>6
<1>6. keys \in SUBSET policy.keys
  BY <1>5
<1> QED
  BY <1>4, <1>5, <1>6 DEF envelope, policy

\* Policies of later receipts are not older, and one revision has one document.
LEMMA PoliciesOnlyAdvance ==
    ASSUME NEW l, LedgerInv(l), NEW r \in Receipts(l), NEW q \in Receipts(l),
           Policy(q.body).id = Policy(r.body).id
    PROVE  /\ q.body.admitted < r.body.admitted =>
                 Policy(q.body).revision <= Policy(r.body).revision
           /\ Policy(q.body).revision = Policy(r.body).revision =>
                 Policy(q.body) = Policy(r.body)
<1>1. r.body \in Bodies(l) /\ q.body \in Bodies(l)
  BY ReceiptsHaveBodies
<1>2. Policy(r.body) \in l.versions /\ Policy(q.body) \in l.versions
  BY <1>1 DEF LedgerInv, PoliciesHold
<1> QED
  BY <1>1, <1>2 DEF LedgerInv, PoliciesHold, InstantsAreOrdered

----------------------------------------------------------------------------
(* The theorems: None being no receipt, what TLC checks on two services and three     *)
(* leases holds of any number of services, tenants, leases, policies and instants.    *)

\* The inductive invariant: in every reachable state of any number of services on one
\* ledger (AdmissionService, evidence/admission.py) the chains are linked, one reservation
\* per tenant is next in both chains, only heads await custody, policies and instants do
\* not go back, caches agree with the tables, and each call relies on rows that are there.
THEOREM AdmissionInvariant == NilIsNoReceipt => (AdmissionSpec => []AdmissionInv)
<1> SUFFICES ASSUME NilIsNoReceipt PROVE AdmissionSpec => []AdmissionInv
  OBVIOUS
<1>1. AdmissionInit => AdmissionInv
  BY InitiallyKnown
<1>2. AdmissionInv /\ [AdmissionNext]_admissionVars => AdmissionInv'
  BY NextKeeps
<1> QED
  BY <1>1, <1>2, PTL DEF AdmissionSpec

\* _validate_complete_ledger accepts every ledger the services can leave, and no service
\* that has it open disagrees with its heads: none is ever locked out by its own or
\* another's reservations, signatures, acknowledgements or deaths.
THEOREM LedgerAlwaysValid == NilIsNoReceipt => (AdmissionSpec => []LedgerAlwaysValidates)
<1> SUFFICES ASSUME NilIsNoReceipt PROVE AdmissionSpec => []LedgerAlwaysValidates
  OBVIOUS
<1>1. AdmissionInv => LedgerAlwaysValidates
  <2> SUFFICES ASSUME AdmissionInv PROVE LedgerAlwaysValidates
    OBVIOUS
  <2>1. ValidLedger(ledger)
    BY LedgerValidates DEF AdmissionInv
  <2>2. ASSUME NEW p \in Services, service[p].step \notin {"closed", "creating"},
               NEW t \in Tenants
        PROVE  TrustsHead(p, t)
    <3>1. Heads(p) = ledger.tenantHeads
      BY <2>2, HeadsAreKnown DEF IsOpen
    <3>2. TenantHeadHolds(ledger, t)
      BY <2>2, HeadsHold DEF AdmissionInv
    <3> QED
      BY <3>1, <3>2 DEF TrustsHead
  <2> QED
    BY <2>1, <2>2 DEF LedgerAlwaysValidates
<1>2. AdmissionSpec => []AdmissionInv
  BY AdmissionInvariant
<1> QED
  BY <1>1, <1>2, PTL

\* Every receipt (admit, evidence/admission.py) was attested at its instant by as many
\* people as its policy's threshold, not keys; and policies only advance, over tenants.
THEOREM ReceiptsUnderTrust == NilIsNoReceipt => (AdmissionSpec => []AdmittedUnderTrust)
<1> SUFFICES ASSUME NilIsNoReceipt PROVE AdmissionSpec => []AdmittedUnderTrust
  OBVIOUS
<1>1. AdmissionInv => AdmittedUnderTrust
  <2> SUFFICES ASSUME AdmissionInv PROVE AdmittedUnderTrust
    OBVIOUS
  <2>1. LedgerInv(ledger)
    BY DEF AdmissionInv
  <2> QED
    BY <2>1, ReceiptsAreAttested, PoliciesOnlyAdvance DEF AdmittedUnderTrust
<1>2. AdmissionSpec => []AdmissionInv
  BY AdmissionInvariant
<1> QED
  BY <1>1, <1>2, PTL

\* An answer of admit is what ledger and custody hold, with its predecessors in custody.
LEMMA AnswersAreKnown == AdmissionInv => AnswersAreHeld
<1> SUFFICES ASSUME AdmissionInv PROVE AnswersAreHeld
  OBVIOUS
<1>1. \A r : Held(r) <=> HeldIn(custody, r)
  BY DEF Held, HeldIn
<1>2. \A c \in custody : c.receipt \in Receipts(ledger)
  BY DEF AdmissionInv, CustodyIsKnown
<1>3. ASSUME NEW p \in Services, service[p].step = "answered"
      PROVE  /\ service[p].receipt.body.envelope = service[p].request
             /\ [receipt |-> service[p].receipt,
                 acknowledgement |-> service[p].acknowledgement] \in ledger.admissions
             /\ Held(service[p].receipt)
             /\ \A row \in Predecessors(ledger, service[p].receipt) : Held(row.receipt)
  <2> DEFINE s == service[p]
             answer == [receipt |-> s.receipt, acknowledgement |-> s.acknowledgement]
  <2>1. ServiceIsKnown(ledger, custody, s)
    BY DEF AdmissionInv
  <2>2. /\ s.receipt.body.envelope = s.request
        /\ answer \in ledger.admissions
        /\ HeldIn(custody, s.receipt)
    BY <1>3, <2>1 DEF ServiceIsKnown
  <2>3. s.receipt \in Receipts(ledger)
    <3>1. answer.receipt = s.receipt
      OBVIOUS
    <3> HIDE DEF answer
    <3> QED
      BY <2>2, <3>1 DEF Receipts
  <2>4. Pending(Predecessors(ledger, s.receipt)) = {}
    BY <2>3, PredecessorsAreSettled DEF AdmissionInv
  <2>5. ASSUME NEW row \in Predecessors(ledger, s.receipt) PROVE Held(row.receipt)
    <3>1. row \in ledger.admissions /\ row.acknowledgement # Nil
      BY <2>4, <2>5 DEF Predecessors, RowsOf, Pending
    <3> QED
      BY <1>1, <3>1 DEF AdmissionInv, CustodyIsKnown
  <2> QED
    BY <1>1, <2>2, <2>5
<1> QED
  BY <1>2, <1>3 DEF AnswersAreHeld

\* What admit (evidence/admission.py) answers is held by ledger and custody, with every
\* receipt of the tenant before it, and no step of any service replaces or removes it.
THEOREM AnswersAreFinal == NilIsNoReceipt => (AdmissionSpec => OutcomesAreFinal)
<1> SUFFICES ASSUME NilIsNoReceipt PROVE AdmissionSpec => OutcomesAreFinal
  OBVIOUS
<1>1. AdmissionInv /\ [AdmissionNext]_admissionVars
         => [AnswersAreHeld' /\ SettledRowsStay]_admissionVars
  <2> SUFFICES ASSUME AdmissionInv, [AdmissionNext]_admissionVars
               PROVE  AnswersAreHeld' /\ SettledRowsStay
    OBVIOUS
  <2>1. AdmissionInv' /\ Grows(ledger, custody, ledger', custody')
    BY NextKeeps
  <2>2. AnswersAreHeld'
    BY <2>1, AnswersAreKnown, PTL
  <2>3. Receipts(ledger)' = Receipts(ledger')
    BY DEF Receipts
  <2>4. SettledRowsStay
    BY <2>1, <2>3 DEF Grows, Settled, SettledRowsStay
  <2> QED
    BY <2>2, <2>4
<1>2. AdmissionSpec => []AdmissionInv
  BY AdmissionInvariant
<1> QED
  BY <1>1, <1>2, PTL DEF AdmissionSpec, OutcomesAreFinal
===============================================================================

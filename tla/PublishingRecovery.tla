-------------------------- MODULE PublishingRecovery --------------------------
(***************************************************************************)
(* The recovery authority (runtime/execution_recovery.py): how a new lease *)
(* may adopt the publication of a worker that has gone silent.  A maker    *)
(* requests it; a fencing controller isolates the old workload and attests *)
(* it; a drain controller stops the issue of its credentials, lets the     *)
(* issued ones end and attests that; a checker approves exactly these      *)
(* documents; the recovery authority signs; the journal uses the result    *)
(* once.  A document is its content: a digest is the value it is of.       *)
(*                                                                         *)
(* The old worker is not told.  Until it is isolated it begins calls that  *)
(* run on for MaxInflight and has credentials issued; what ExecutionJournal*)
(* assumes of a recovery (ComputeFenced) is what is shown here.            *)
(***************************************************************************)
EXTENDS Absent, Naturals, FiniteSets

CONSTANTS Publishers, People,
          LeaseTimes,        \* how long each lease lasts
          CredentialTime,    \* how long a credential lives
          MaxInflight,       \* maximum_inflight_seconds
          Skew,              \* clock_skew_seconds: the fencing controller's clock is late
          Spans,             \* how long a controller may keep up its fence
          RequestTime,       \* MAX_RECOVERY_REQUEST_LIFETIME
          AuthorizationTime, \* MAX_RECOVERY_AUTHORIZATION_LIFETIME
          MaxLeases, MaxRows, MaxTime,
          MaxDocuments       \* bound: how many documents of each kind are signed

ASSUME PublishingRecoveryConstants ==
    /\ {CredentialTime, MaxInflight, Skew, RequestTime, AuthorizationTime} \subseteq Nat
    /\ Spans \subseteq Nat
    /\ LeaseTimes \in [1..MaxLeases -> Nat \ {0}]
    /\ {MaxLeases, MaxRows, MaxTime} \subseteq Nat
    /\ Nil \notin Nat

VARIABLES clock,
          leases,      \* the scheduler's claims and what the journal knows of each
          claimed,     \* how many there are
          busy,        \* when the last call of each attempt may end
          rows,        \* the PAM lifecycle rows
          fences,      \* the compute fences in place: of which attempt, from when to when
          seals,       \* the issuance fences, and the rows there were
          documents,   \* what has been signed, by kind
          using,       \* the uses that are verified but not committed
          adoptions    \* the authorizations used

recoveryVars == <<clock, leases, claimed, busy, rows, fences, seals, documents, using, adoptions>>

Attempts == 1..MaxLeases

Unclaimed == [worker |-> Nil, from |-> 0, until |-> 0, publishing |-> Nil]

RecoveryInit ==
    /\ clock = 0
    /\ leases = [f \in Attempts |-> Unclaimed]
    /\ claimed = 0
    /\ busy = [f \in Attempts |-> 0]
    /\ rows = {} /\ fences = {} /\ seals = {}
    /\ documents = [requests |-> {}, fences |-> {}, drains |-> {},
                    approvals |-> {}, authorizations |-> {}]
    /\ using = {} /\ adoptions = {}

ClockTicks ==
    /\ clock < MaxTime
    /\ clock' = clock + 1
    /\ UNCHANGED <<leases, claimed, busy, rows, fences, seals, documents, using, adoptions>>

-------------------------------------------------------------------------------
(* Leases, calls and credentials. *)

\* The scheduler gives out the run again when the last lease has run out.
ClaimLease(w) ==
    /\ claimed < MaxLeases
    /\ claimed > 0 => clock >= leases[claimed].until
    /\ claimed' = claimed + 1
    /\ leases' = [leases EXCEPT ![claimed + 1] =
          [worker |-> w, from |-> clock, until |-> clock + LeaseTimes[claimed + 1], publishing |-> Nil]]
    /\ UNCHANGED <<clock, busy, rows, fences, seals, documents, using, adoptions>>

\* A worker begins to publish; a publication under way bars the way to another.
BeginPublication ==
    /\ claimed > 0 /\ clock < leases[claimed].until
    /\ \A f \in 1..claimed : leases[f].publishing = Nil
    /\ leases' = [leases EXCEPT ![claimed].publishing = clock]
    /\ UNCHANGED <<clock, claimed, busy, rows, fences, seals, documents, using, adoptions>>

InForce(fence, f) == fence.attempt = f /\ clock < fence.until

Isolated(f) == \E fence \in fences : InForce(fence, f)
Sealed(f) == \E seal \in seals : InForce(seal, f)

\* A worker whose lease has run out does not know it, and goes on.
Runs(f) == leases[f].publishing # Nil /\ ~Isolated(f)

BeginCall(f) ==
    /\ Runs(f)
    /\ busy' = [busy EXCEPT ![f] = clock + MaxInflight]
    /\ UNCHANGED <<clock, leases, claimed, rows, fences, seals, documents, using, adoptions>>

\* A row announces until when what is asked for under it may be of use: from its
\* preparation on the authority may grant it (see PamIssuance).
Row(f, n) ==
    [attempt |-> f, sequence |-> n, state |-> "prepared", ends |-> clock + CredentialTime,
     settled |-> Nil]

Replace(row, new) == rows' = (rows \ {row}) \cup {new}

PrepareRow(f) ==
    /\ Runs(f) /\ ~Sealed(f)
    /\ Cardinality(rows) < MaxRows
    /\ rows' = rows \cup {Row(f, Cardinality(rows) + 1)}
    /\ UNCHANGED <<clock, leases, claimed, busy, fences, seals, documents, using, adoptions>>

IssueCredential(row) ==
    /\ row.state = "prepared"
    /\ Runs(row.attempt) /\ ~Sealed(row.attempt)
    /\ Replace(row, [row EXCEPT !.state = "issued", !.ends = clock + CredentialTime])
    /\ UNCHANGED <<clock, leases, claimed, busy, fences, seals, documents, using, adoptions>>

\* Settled as revoked, expired or never issued: in each case when the exposure is over.
SettleRow(row) ==
    /\ row.state # "settled" /\ clock >= row.ends
    /\ Replace(row, [row EXCEPT !.state = "settled", !.settled = clock])
    /\ UNCHANGED <<clock, leases, claimed, busy, fences, seals, documents, using, adoptions>>

-------------------------------------------------------------------------------
(* The documents. *)

Signed(kind, document) ==
    /\ document \notin documents[kind]
    /\ Cardinality(documents[kind]) < MaxDocuments[kind]
    /\ documents' = [documents EXCEPT ![kind] = @ \cup {document}]
    /\ UNCHANGED <<clock, leases, claimed, busy, rows, fences, seals, using, adoptions>>

\* PublishingRecoveryRequestIntent: the successor holds the next lease, begun when the old
\* one had run out, and is another worker.
RequestHolds(request) ==
    LET old == leases[request.attempt] new == leases[request.attempt + 1] IN
    /\ new.from >= old.until
    /\ request.at >= new.from
    /\ new.worker # old.worker
    /\ request.until - request.at <= RequestTime

RequestRecovery(maker) ==
    \E f \in 1..(claimed - 1) :
        LET request == [attempt |-> f, maker |-> maker, at |-> clock, until |-> clock + RequestTime]
        IN /\ leases[f].publishing # Nil
           /\ RequestHolds(request)
           /\ Signed("requests", request)

\* The fencing controller isolates the old workload (external).
FenceCompute ==
    /\ \E request \in documents.requests, span \in Spans, late \in 0..Skew :
          /\ late <= clock
          /\ \A fence \in fences : fence.request # request
          /\ fences' = fences \cup {[request |-> request, attempt |-> request.attempt,
                                     from |-> clock, until |-> clock + span, late |-> late]}
    /\ UNCHANGED <<clock, leases, claimed, busy, rows, seals, documents, using, adoptions>>

\* ComputeFenceAttestation, in the time of the controller's own clock.
FenceHolds(document) ==
    /\ document.effective <= document.observed
    /\ document.observed < document.until

AttestFence ==
    \E fence \in fences :
        LET document == [request |-> fence.request, effective |-> fence.from - fence.late,
                         observed |-> clock - fence.late, until |-> fence.until - fence.late]
        IN /\ FenceHolds(document)
           /\ Signed("fences", document)

\* The drain controller stops the issue of credentials (external; see PamIssuance).
SealIssuance ==
    /\ \E request \in documents.requests, span \in Spans :
          /\ \A seal \in seals : seal.request # request
          /\ seals' = seals \cup {[request |-> request, attempt |-> request.attempt,
                                   from |-> clock, until |-> clock + span,
                                   watermark |-> Cardinality(rows)]}
    /\ UNCHANGED <<clock, leases, claimed, busy, rows, fences, documents, using, adoptions>>

\* PAMDrainAnchor: the row is settled, and not before the credential has ended.
AnchorHolds(row) == row.settled # Nil /\ row.ends <= row.settled

\* What the drain waits for: the credentials, and the calls begun before the fence.
DrainNotBefore(document) ==
    {row.ends : row \in document.anchors}
        \cup {document.fence.effective + MaxInflight + Skew}

\* CredentialDrainAttestation: the rows under the watermark of the seal, all settled.
DrainHolds(document) ==
    /\ document.anchors # {}
    /\ \A row \in document.anchors :
          /\ AnchorHolds(row)
          /\ row.sequence <= document.watermark
          /\ row.settled <= document.checked
    /\ document.sealed <= document.checked /\ document.checked < document.until
    /\ \A instant \in DrainNotBefore(document) : instant <= document.checked

AttestDrain ==
    \E seal \in seals, fence \in documents.fences :
        LET document == [request |-> seal.request, fence |-> fence, checked |-> clock,
                         anchors |-> {row \in rows : row.attempt = seal.attempt},
                         sealed |-> seal.from, until |-> seal.until,
                         watermark |-> seal.watermark]
        IN /\ DrainHolds(document)
           /\ Signed("drains", document)

\* PublishingRecoveryAuthorization: fence and drain are of this request, and the drain is
\* of this fence; maker and checker are two people.
BindingHolds(a) ==
    /\ a.fence.request = a.request
    /\ a.drain.request = a.request
    /\ a.drain.fence = a.fence
    /\ a.checker # a.request.maker

NotBefore(a) ==
    {leases[a.request.attempt].until, a.fence.observed} \cup DrainNotBefore(a.drain)

\* Fault: the fences need not outlast the successor's lease.
TimelineIsOrdered(a) ==
    /\ a.fence.effective >= a.request.at
    /\ a.fence.observed <= a.drain.checked /\ a.drain.checked <= a.approved
    /\ \A instant \in NotBefore(a) : instant <= a.approved
    /\ a.approved <= a.issued /\ a.issued < a.expires

\* Requested, fenced, drained, approved, issued, in this order; short-lived; and the two
\* fences outlast the lease of the successor.
TimelineHolds(a) ==
    LET new == leases[a.request.attempt + 1] IN
    /\ a.fence.effective >= a.request.at
    /\ a.fence.observed <= a.drain.checked /\ a.drain.checked <= a.approved
    /\ \A instant \in NotBefore(a) : instant <= a.approved
    /\ a.approved <= a.issued /\ a.issued < a.expires
    /\ a.expires - a.issued <= AuthorizationTime
    /\ a.expires <= a.request.until
    /\ a.expires <= new.until
    /\ a.fence.until >= new.until
    /\ a.drain.until >= new.until

\* The checker approves all of it, the instants of the authorization included.
ApproveRecovery(checker) ==
    \E drain \in documents.drains, issued \in clock..(clock + 1), life \in 1..AuthorizationTime :
        LET a == [request |-> drain.request, fence |-> drain.fence, drain |-> drain,
                  checker |-> checker, approved |-> clock,
                  issued |-> issued, expires |-> issued + life]
        IN /\ BindingHolds(a)
           /\ TimelineHolds(a)
           /\ Signed("approvals", a)

\* issue_publishing_recovery_authorization: the signatures hold and the authority signs.
IssueAuthorization ==
    \E a \in documents.approvals : Signed("authorizations", a)

\* verify_publishing_recovery_authorization, at the database's instant.
ValidAt(a, instant) ==
    /\ a.issued <= instant
    /\ instant < a.request.until
    /\ instant < leases[a.request.attempt + 1].until
    /\ instant < a.expires
    /\ instant < a.fence.until
    /\ instant < a.drain.until

\* _assert_journal_binding: the abandoned attempt is the journal's current one, publishing,
\* and the successor's claim the next.
JournalBinding(a) ==
    LET f == a.request.attempt IN
    /\ leases[f].publishing # Nil
    /\ \A g \in (f + 1)..MaxLeases : leases[g].publishing = Nil

VerifyAuthorization ==
    /\ \E a \in documents.authorizations :
          /\ ValidAt(a, clock)
          /\ JournalBinding(a)
          /\ using' = using \cup {a}
    /\ UNCHANGED <<clock, leases, claimed, busy, rows, fences, seals, documents, adoptions>>

\* consume_once and the compare-and-swap, in the transaction that has read the clock: the
\* routine locks the rows and compares the tuple again.
ConsumeAuthorization ==
    /\ \E a \in using :
          /\ using' = using \ {a}
          /\ a \notin adoptions
          /\ JournalBinding(a)
          /\ adoptions' = adoptions \cup {a}
          /\ leases' = [leases EXCEPT ![a.request.attempt + 1].publishing = clock]
    /\ UNCHANGED <<clock, claimed, busy, rows, fences, seals, documents>>

\* The transaction is rolled back: the tuple has changed, or it fails.
RollbackUse ==
    /\ \E a \in using : using' = using \ {a}
    /\ UNCHANGED <<clock, leases, claimed, busy, rows, fences, seals, documents, adoptions>>

RecoveryNext ==
    \/ ClockTicks
    \/ \E w \in Publishers : ClaimLease(w)
    \/ BeginPublication
    \/ \E f \in Attempts : BeginCall(f) \/ PrepareRow(f)
    \/ \E row \in rows : IssueCredential(row) \/ SettleRow(row)
    \/ \E person \in People : RequestRecovery(person) \/ ApproveRecovery(person)
    \/ FenceCompute \/ AttestFence \/ SealIssuance \/ AttestDrain
    \/ IssueAuthorization \/ VerifyAuthorization \/ ConsumeAuthorization \/ RollbackUse

RecoverySpec == RecoveryInit /\ [][RecoveryNext]_recoveryVars

-------------------------------------------------------------------------------
(* Properties. *)

\* What is left of an attempt in the world: a process that runs, a call under way, a
\* credential that may work.
CanAct(f) ==
    \/ Runs(f)
    \/ clock < busy[f]
    \/ \E row \in rows : row.attempt = f /\ clock < row.ends

\* "A database lease expiring does not prove that the former worker can no longer call a
\* source, signer, or custody service" (execution_recovery.py): the documents do.  For as
\* long as the successor holds its lease nothing of the attempt it adopted can act, in
\* whatever order and at whatever boundary request, fences, drain, approval and use fell;
\* and no attempt is adopted twice.
AdoptedAlone ==
    /\ \A a \in adoptions :
          clock < leases[a.request.attempt + 1].until => ~CanAct(a.request.attempt)
    /\ \A a, b \in adoptions : a.request.attempt = b.request.attempt => a = b
===============================================================================

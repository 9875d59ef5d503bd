----------------------------- MODULE PamIssuance -----------------------------
(***************************************************************************)
(* Plan-bound issuance of credentials and the fence that recovery puts      *)
(* before it (PostgresPamIssuanceJournal and the triggers of                *)
(* deploy/postgres/pam-journal-schema.sql), for one run.  A binding ties    *)
(* the PAM scopes of a plan to one lease fence.  Credentials are prepared   *)
(* under the active binding before an authority is asked.  Recovery retires *)
(* the binding, registers its successor and draws a high-watermark in one   *)
(* transaction; the snapshot below it tells when the abandoned credentials  *)
(* are all dead.                                                            *)
(***************************************************************************)
EXTENDS Naturals

CONSTANTS Records,     \* lifecycle_record_id
          MaxFence,    \* bound of lease fences
          MaxNow,      \* bound of the clock
          MaxLife      \* bound of leases and of credential lifetimes

ASSUME PamIssuanceConstants == {MaxFence, MaxNow, MaxLife} \subseteq Nat

VARIABLES binding,   \* rows of execution_bindings and issuance_fences, by lease fence
          record,    \* rows of lifecycle_records
          credential,\* expiry of the credential an authority issued, 0 if none
          sequence,  \* lifecycle_sequence: drawn numbers are never given back
          drawn,     \* numbers drawn by inserts that do not yet hold the binding
          now

issuanceVars == <<binding, record, credential, sequence, drawn, now>>

Fences == 1..MaxFence

NoBinding == [state |-> "absent", leaseEnds |-> 0, predecessor |-> 0, watermark |-> 0]
Binding ==
    [state : {"absent", "active", "fenced"}, leaseEnds : Nat, predecessor : Nat, watermark : Nat]

NoRecord == [state |-> "absent", fence |-> 0, seq |-> 0, exposureEnds |-> 0, issued |-> FALSE]
SettledStates == {"expired", "never-issued", "revoked"}
LifecycleRecord ==
    [state : {"absent", "prepared", "issued", "uncertain"} \cup SettledStates,
     fence : Nat, seq : Nat, exposureEnds : Nat, issued : BOOLEAN]

IssuanceInit ==
    /\ binding = [f \in Fences |-> NoBinding]
    /\ record = [r \in Records |-> NoRecord]
    /\ credential = [r \in Records |-> 0]
    /\ sequence = 0
    /\ drawn = [r \in Records |-> [fence |-> 0, seq |-> 0]]
    /\ now = 0

Lifetimes == (now + 1)..(now + MaxLife)

\* Fault: only the lease of the binding is tested.
MayIssueUnderLease(f) == now < binding[f].leaseEnds

\* The trigger's test before an insert and before prepared becomes issued.
MayIssueUnder(f) == binding[f].state = "active" /\ now < binding[f].leaseEnds

ActiveBinding(ends, pred) ==
    [state |-> "active", leaseEnds |-> ends, predecessor |-> pred, watermark |-> 0]

-----------------------------------------------------------------------------
(* Bindings and fences *)

\* At most one binding of a run is active (partial unique index).
RegisterExecutionBinding(f) ==
    /\ binding[f] = NoBinding
    /\ \A g \in Fences : binding[g].state # "active"
    /\ \E ends \in Lifetimes : binding' = [binding EXCEPT ![f] = ActiveBinding(ends, 0)]
    /\ UNCHANGED <<record, credential, sequence, drawn, now>>

\* Retire, register the successor and draw the watermark, under the lock of the
\* retired binding.
InstallRecoveryIssuanceFence(f) ==
    /\ f + 1 \in Fences
    /\ binding[f].state = "active" /\ binding[f + 1] = NoBinding
    /\ sequence' = sequence + 1
    /\ \E ends \in Lifetimes :
         binding' = [binding EXCEPT ![f].state = "fenced", ![f].watermark = sequence + 1,
                                    ![f + 1] = ActiveBinding(ends, f)]
    /\ UNCHANGED <<record, credential, drawn, now>>

-----------------------------------------------------------------------------
(* Lifecycle records *)

\* INSERT evaluates the default of lifecycle_sequence before its trigger waits for
\* the binding.
DrawSequence(r, f) ==
    /\ drawn[r].seq = 0 /\ binding[f] # NoBinding
    /\ sequence' = sequence + 1
    /\ drawn' = [drawn EXCEPT ![r] = [fence |-> f, seq |-> sequence + 1]]
    /\ UNCHANGED <<binding, record, credential, now>>

\* The rest of prepare_lifecycle: refused, or a prepared row.
PrepareLifecycle(r) ==
    LET f == drawn[r].fence IN
    /\ f # 0 /\ record[r] = NoRecord
    /\ \/ /\ ~MayIssueUnder(f)
          /\ drawn' = [drawn EXCEPT ![r].fence = 0] /\ UNCHANGED record
       \/ /\ MayIssueUnder(f) /\ UNCHANGED drawn
          /\ \E ends \in Lifetimes :
               record' = [record EXCEPT ![r] =
                 [state |-> "prepared", fence |-> f, seq |-> drawn[r].seq,
                  exposureEnds |-> ends, issued |-> FALSE]]
    /\ UNCHANGED <<binding, credential, sequence, now>>

\* The authority grants the request at any later time, for no longer than the
\* residual exposure the row announces.
AuthorityIssues(r) ==
    /\ record[r].state # "absent" /\ credential[r] = 0
    /\ \E ends \in Lifetimes :
         ends <= record[r].exposureEnds /\ credential' = [credential EXCEPT ![r] = ends]
    /\ UNCHANGED <<binding, record, sequence, drawn, now>>

\* The exposure is replaced by one that covers the credential.
MarkLifecycleIssued(r) ==
    /\ record[r].state = "prepared" /\ credential[r] > now
    /\ MayIssueUnder(record[r].fence)
    /\ \E ends \in Lifetimes :
         /\ credential[r] <= ends
         /\ record' = [record EXCEPT ![r].state = "issued", ![r].issued = TRUE,
                                     ![r].exposureEnds = ends]
    /\ UNCHANGED <<binding, credential, sequence, drawn, now>>

MarkLifecycleUncertain(r) ==
    /\ record[r].state = "prepared"
    /\ record' = [record EXCEPT ![r].state = "uncertain"]
    /\ UNCHANGED <<binding, credential, sequence, drawn, now>>

\* Settlement is stamped when the exposure is over. A row without an issuance time
\* cannot expire, and never-issued is said of a prepared row only.
SettleLifecycle(r, to) ==
    /\ \/ record[r].state = "prepared" /\ to \in {"never-issued", "revoked"}
       \/ record[r].state \in {"issued", "uncertain"} /\ to = "revoked"
       \/ record[r].state \in {"issued", "uncertain"} /\ to = "expired" /\ record[r].issued
    /\ now >= record[r].exposureEnds
    /\ record' = [record EXCEPT ![r].state = to]
    /\ UNCHANGED <<binding, credential, sequence, drawn, now>>

\* lifecycle_snapshot of a fenced binding: its rows up to the watermark.
SnapshotOf(f) ==
    {r \in Records : /\ record[r].fence = f /\ record[r].state # "absent"
                     /\ record[r].seq <= binding[f].watermark}

AllMatchingRecordsSettled(f) ==
    \A r \in SnapshotOf(f) : record[r].state \in SettledStates

TimePasses ==
    /\ now < MaxNow /\ now' = now + 1
    /\ UNCHANGED <<binding, record, credential, sequence, drawn>>

IssuanceNext ==
    \/ \E f \in Fences : \/ RegisterExecutionBinding(f)
                         \/ InstallRecoveryIssuanceFence(f)
                         \/ \E r \in Records : DrawSequence(r, f)
    \/ \E r \in Records : \/ PrepareLifecycle(r) \/ AuthorityIssues(r)
                          \/ MarkLifecycleIssued(r) \/ MarkLifecycleUncertain(r)
                          \/ \E to \in SettledStates : SettleLifecycle(r, to)
    \/ TimePasses

IssuanceSpec == IssuanceInit /\ [][IssuanceNext]_issuanceVars

-----------------------------------------------------------------------------
(* Properties *)

\* Types: the bindings and lifecycle rows the schema admits.
IssuanceTypeOK ==
    /\ binding \in [Fences -> Binding]
    /\ record \in [Records -> LifecycleRecord]
    /\ credential \in [Records -> Nat]
    /\ sequence \in Nat
    /\ drawn \in [Records -> [fence : Nat, seq : Nat]]
    /\ now \in 0..MaxNow

\* The watermark seals a fenced binding: every row of it lies below, although
\* sequence numbers are drawn outside the lock, so the snapshot misses none.
WatermarkSeals ==
    \A f \in Fences : binding[f].state = "fenced" =>
        \A r \in Records : record[r].state # "absent" /\ record[r].fence = f
            => record[r].seq < binding[f].watermark

\* When the snapshot of a fenced binding is settled, no credential issued under
\* that binding is alive: recovery may go on without meeting the abandoned worker.
DrainedMeansDead ==
    \A f \in Fences : binding[f].state = "fenced" /\ AllMatchingRecordsSettled(f) =>
        \A r \in Records : record[r].fence = f => credential[r] <= now

\* A fence on a binding means what recovery takes it to mean.
FencedMeansDrained == IssuanceTypeOK /\ WatermarkSeals /\ DrainedMeansDead
===============================================================================

------------------------------ MODULE ElasticPam ------------------------------
(***************************************************************************)
(* Just-in-time Elasticsearch API keys (connectors/elastic_pam.py and the  *)
(* lease journal of connectors/postgres_pam_journal.py).  A broker writes a *)
(* prepared lease, creates the key, activates the lease, captures evidence *)
(* under the key, and returns the evidence only after the revocation is    *)
(* confirmed and recorded.  Recovery revokes whatever a dead broker left.  *)
(* Every journal call is a compare-and-swap on the revision of the row;    *)
(* Elasticsearch is another system, whose answers may be lost and which    *)
(* may execute a request after its sender gave up.                         *)
(***************************************************************************)
EXTENDS Naturals, FiniteSets

CONSTANTS Leases,      \* nonces: one per capture
          Brokers,     \* processes
          Recoverers,  \* the brokers that run recovery
          MaxFaults    \* deaths, lost answers and unavailable journals

ASSUME ElasticPamConstants ==
    /\ Recoverers \subseteq Brokers
    /\ MaxFaults \in Nat
    /\ Leases # {}

VARIABLES lease,     \* rows of elastic_jit_leases
          key,       \* the API key of each lease at Elasticsearch
          creating,  \* leases whose create request is still travelling
          expired,   \* leases whose key lived its TTL
          broker,    \* what each broker is doing
          evidence,  \* leases whose capture was returned to the caller
          eFaults

elasticVars == <<lease, key, creating, expired, broker, evidence, eFaults>>

NoLease == [state |-> "absent", revision |-> 0, keyed |-> FALSE]

\* The columns that guards read; keyed: key_id is recorded.
LeaseStates == {"absent", "prepared", "active", "revoke-pending", "revoked"}
LeaseRow == [state : LeaseStates, revision : Nat, keyed : BOOLEAN]

\* Fault: rows whose revocation began are taken for settled.
UnsettledUnlessBegun == {l \in Leases : lease[l].state \in {"prepared", "active"}}

Unsettled == {l \in Leases : lease[l].state \in {"prepared", "active", "revoke-pending"}}

\* What recovery remembers of a row it selected.
Selected(l) == [lease |-> l, revision |-> lease[l].revision, state |-> lease[l].state]

\* The revision a broker last read or wrote, whether the operation
\* failed, and the rows a recovery has still to handle.
IdleBroker ==
    [pc |-> "idle", lease |-> CHOOSE l \in Leases : TRUE, rev |-> 0,
     failed |-> FALSE, recovery |-> FALSE, todo |-> {}]

BrokerState ==
    [pc       : {"idle", "create", "activate", "use", "settle", "revoke", "delete",
                 "finish", "recover"},
     lease    : Leases,
     rev      : Nat,
     failed   : BOOLEAN,
     recovery : BOOLEAN,
     todo     : SUBSET [lease : Leases, revision : Nat, state : LeaseStates]]

ElasticInit ==
    /\ lease = [l \in Leases |-> NoLease]
    /\ key = [l \in Leases |-> "none"]
    /\ creating = {}
    /\ expired = {}
    /\ broker = [b \in Brokers |-> IdleBroker]
    /\ evidence = {}
    /\ eFaults = 0

EFault == eFaults < MaxFaults /\ eFaults' = eFaults + 1

Goto(b, step) == broker' = [broker EXCEPT ![b].pc = step]
FailTo(b, step) == broker' = [broker EXCEPT ![b].pc = step, ![b].failed = TRUE]
Raise(b) == broker' = [broker EXCEPT ![b] = IdleBroker]

\* The row a call names is the one the caller last saw.
SameRevision(b) == lease[broker[b].lease].revision = broker[b].rev

Written(l, state) == [lease[l] EXCEPT !.state = state, !.revision = @ + 1]

\* The rows that prepare, activate, begin_revocation and mark_revoked write.
PreparedLease == [NoLease EXCEPT !.state = "prepared"]
ActiveLease(l) == [Written(l, "active") EXCEPT !.keyed = TRUE]
RevocationBegun(l) == Written(l, "revoke-pending")
RevokedLease(l) == Written(l, "revoked")

-----------------------------------------------------------------------------
(* capture: from the nonce to the end of the operation under the key *)

\* The lease is durable before the key is asked for.
PrepareLease(b, l) ==
    /\ broker[b].pc = "idle" /\ lease[l] = NoLease
    /\ lease' = [lease EXCEPT ![l] = PreparedLease]
    /\ broker' = [broker EXCEPT ![b] = [IdleBroker EXCEPT !.pc = "create", !.lease = l]]
    /\ UNCHANGED <<key, creating, expired, evidence, eFaults>>

\* The create request: a key and a sound response, a refusal, or no answer
\* (the request may be executed later). A response that fails a check of _issue
\* leaves a live key behind an error, as an answered LateCreate does.
CreateKey(b) ==
    LET l == broker[b].lease IN
    /\ broker[b].pc = "create"
    /\ \/ key' = [key EXCEPT ![l] = "live"] /\ Goto(b, "activate")
          /\ UNCHANGED <<creating, eFaults>>
       \/ FailTo(b, "settle") /\ UNCHANGED <<key, creating, eFaults>>
       \/ creating' = creating \cup {l} /\ FailTo(b, "settle") /\ EFault /\ UNCHANGED key
    /\ UNCHANGED <<lease, expired, evidence>>

\* journal.activate; when it raises the intent stays recoverable by key name. An
\* answer may be lost after the commit.
ActivateLease(b) ==
    LET l == broker[b].lease
        Allowed == lease[l].state = "prepared" /\ SameRevision(b) /\ l \notin expired IN
    /\ broker[b].pc = "activate"
    /\ \/ /\ Allowed
          /\ lease' = [lease EXCEPT ![l] = ActiveLease(l)]
          /\ \/ Goto(b, "use") /\ UNCHANGED eFaults
             \/ FailTo(b, "settle") /\ EFault
       \/ /\ (~Allowed /\ UNCHANGED eFaults) \/ EFault
          /\ FailTo(b, "settle") /\ UNCHANGED lease
    /\ UNCHANGED <<key, creating, expired, evidence>>

\* connector.capture(request) under the key.
UseKey(b) ==
    /\ broker[b].pc = "use"
    /\ Goto(b, "settle") \/ FailTo(b, "settle")
    /\ UNCHANGED <<lease, key, creating, expired, evidence, eFaults>>

\* latest = journal.get(lease_id); unreadable, capture raises and leaves the lease.
ReadLatest(b) ==
    LET l == broker[b].lease IN
    /\ broker[b].pc = "settle"
    /\ \/ broker' = [broker EXCEPT ![b].pc = "revoke", ![b].rev = lease[l].revision]
          /\ UNCHANGED eFaults
       \/ Raise(b) /\ EFault
    /\ UNCHANGED <<lease, key, creating, expired, evidence>>

-----------------------------------------------------------------------------
(* _revoke, the same for capture and recovery *)

BeginRevocation(b) ==
    LET l == broker[b].lease
        Allowed == l \in Unsettled /\ SameRevision(b) IN
    /\ broker[b].pc = "revoke"
    /\ \/ /\ Allowed
          /\ lease' = [lease EXCEPT ![l] = RevocationBegun(l)]
          /\ \/ broker' = [broker EXCEPT ![b].pc = "delete", ![b].rev = @ + 1]
                /\ UNCHANGED eFaults
             \/ Raise(b) /\ EFault
       \/ /\ (~Allowed /\ UNCHANGED eFaults) \/ EFault
          /\ Raise(b) /\ UNCHANGED lease
    /\ UNCHANGED <<key, creating, expired, evidence>>

\* Fault: an answer that says nothing of this key is taken for a revocation.
DeleteUnaccounted(b) ==
    /\ broker[b].pc = "delete"
    /\ Goto(b, "finish")
    /\ UNCHANGED <<lease, key, creating, expired, evidence, eFaults>>

\* The DELETE request, by the recorded key id or else by the key name. A clean
\* answer accounts for the key; anything else raises, whether it was executed or not.
DeleteKey(b) ==
    LET l == broker[b].lease
        Invalidated == [key EXCEPT ![l] = IF @ = "live" THEN "dead" ELSE @] IN
    /\ broker[b].pc = "delete"
    /\ \/ key' = Invalidated /\ Goto(b, "finish") /\ UNCHANGED eFaults
       \/ key' \in {key, Invalidated} /\ Raise(b) /\ EFault
    /\ UNCHANGED <<lease, creating, expired, evidence>>

\* The receipt verifies: the lease was closed before its expiration and an issued
\* key was revoked.
ReceiptVerifies(b) == ~broker[b].recovery /\ ~broker[b].failed /\ broker[b].lease \notin expired

\* journal.mark_revoked, and what the caller of _revoke does with its result:
\* capture returns its evidence or raises, recovery goes on to the next row.
FinishRevocation(b) ==
    LET l == broker[b].lease
        Allowed == lease[l].state = "revoke-pending" /\ SameRevision(b) IN
    /\ broker[b].pc = "finish"
    /\ \/ /\ Allowed
          /\ lease' = [lease EXCEPT ![l] = RevokedLease(l)]
          /\ \/ /\ IF broker[b].recovery THEN Goto(b, "recover") ELSE Raise(b)
                /\ evidence' = IF ReceiptVerifies(b) THEN evidence \cup {l} ELSE evidence
                /\ UNCHANGED eFaults
             \/ Raise(b) /\ EFault /\ UNCHANGED evidence
       \/ /\ (~Allowed /\ UNCHANGED eFaults) \/ EFault
          /\ Raise(b) /\ UNCHANGED <<lease, evidence>>
    /\ UNCHANGED <<key, creating, expired>>

-----------------------------------------------------------------------------
(* recover_unsettled and recover_request_digest *)

\* The rows are selected once.
SelectUnsettled(b) ==
    /\ b \in Recoverers /\ broker[b].pc = "idle" /\ Unsettled # {}
    /\ broker' = [broker EXCEPT ![b] = [IdleBroker EXCEPT
                    !.pc = "recover", !.recovery = TRUE,
                    !.todo = {Selected(l) : l \in Unsettled}]]
    /\ UNCHANGED <<lease, key, creating, expired, evidence, eFaults>>

\* A row selected as revoke-pending is read again, others are revoked as selected.
RecoverNext(b) ==
    /\ broker[b].pc = "recover"
    /\ \/ \E r \in broker[b].todo :
             broker' = [broker EXCEPT ![b].pc = "revoke", ![b].lease = r.lease,
                          ![b].rev = IF r.state = "revoke-pending"
                                     THEN lease[r.lease].revision ELSE r.revision,
                          ![b].todo = @ \ {r}]
       \/ broker[b].todo = {} /\ Raise(b)
    /\ UNCHANGED <<lease, key, creating, expired, evidence, eFaults>>

-----------------------------------------------------------------------------
(* Elasticsearch and faults *)

\* A create request whose sender no longer waits is executed.
LateCreate(l) ==
    /\ l \in creating
    /\ creating' = creating \ {l}
    /\ key' = [key EXCEPT ![l] = "live"]
    /\ UNCHANGED <<lease, expired, broker, evidence, eFaults>>

KeyExpires(l) ==
    /\ key[l] = "live"
    /\ key' = [key EXCEPT ![l] = "dead"]
    /\ expired' = expired \cup {l}
    /\ UNCHANGED <<lease, creating, broker, evidence, eFaults>>

BrokerDies(b) ==
    /\ broker[b].pc # "idle" /\ EFault /\ Raise(b)
    /\ UNCHANGED <<lease, key, creating, expired, evidence>>

BrokerStep(b) ==
    \/ CreateKey(b) \/ ActivateLease(b) \/ UseKey(b) \/ ReadLatest(b)
    \/ BeginRevocation(b) \/ DeleteKey(b) \/ FinishRevocation(b) \/ RecoverNext(b)

ElasticNext ==
    \/ \E b \in Brokers : \/ \E l \in Leases : PrepareLease(b, l)
                          \/ BrokerStep(b) \/ SelectUnsettled(b) \/ BrokerDies(b)
    \/ \E l \in Leases : LateCreate(l) \/ KeyExpires(l)

\* A broker that is at work goes on, and somebody runs recovery.
ElasticFairness ==
    /\ \A b \in Brokers : WF_elasticVars(BrokerStep(b))
    /\ \A b \in Recoverers : SF_elasticVars(SelectUnsettled(b))

ElasticSpec == ElasticInit /\ [][ElasticNext]_elasticVars /\ ElasticFairness

-----------------------------------------------------------------------------
(* Properties *)

\* Types: the rows the lease table and the security service can hold.
ElasticTypeOK ==
    /\ lease \in [Leases -> LeaseRow]
    /\ key \in [Leases -> {"none", "live", "dead"}]
    /\ creating \subseteq Leases /\ expired \subseteq Leases /\ evidence \subseteq Leases
    /\ broker \in [Brokers -> BrokerState]
    /\ eFaults \in 0..MaxFaults

\* A lease that recorded its key id and is revoked has no live key, and evidence
\* leaves `capture` only for such a lease: no interleaving of capture, recovery and
\* failures of either closes a lease on an unconfirmed revocation.
RevokedMeansDead ==
    /\ ElasticTypeOK
    /\ \A l \in Leases : lease[l].state = "revoked" /\ lease[l].keyed => key[l] = "dead"
    /\ \A l \in evidence : lease[l].state = "revoked" /\ lease[l].keyed

\* Whatever a dead, failed or confused broker leaves open is revoked in the end.
EveryLeaseIsRevoked ==
    \A l \in Leases : lease[l].state \notin {"absent", "revoked"} ~> lease[l].state = "revoked"
===============================================================================

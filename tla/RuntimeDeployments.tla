--------------------------- MODULE RuntimeDeployments ---------------------------
(***************************************************************************)
(* The deployment target: the part of PostgresRuntimeCatalog that records  *)
(* which configuration of one control the runtime has accepted.            *)
(* ensure_applied is one transaction under the control's advisory lock.    *)
(*                                                                         *)
(* An operation is named by its sequence number; a receipt, which is the   *)
(* digest of a deployment_history row, is named by that row's position.    *)
(***************************************************************************)
EXTENDS Integers, Sequences

CONSTANTS
    Configs,        \* canonical control configurations, named by digest
    Profiles,       \* control profiles, named by digest
    MaxOp,          \* bound: operation sequence numbers of requests
    MaxReqFence,    \* bound: lease fences of requests
    MaxClock,       \* bound: transaction timestamps
    ProfileOf       \* ProfileOf[c]: the profile configuration c is bound to

ASSUME RuntimeDeploymentConstants ==
    /\ ProfileOf \in [Configs -> Profiles]
    /\ MaxOp \in Nat /\ MaxReqFence \in Nat /\ MaxClock \in Nat

VARIABLES
    profiles,       \* control_profiles: registered profiles
    history,        \* deployment_history, in order of insertion
    highest,        \* deployment_operation_fences, by row of history
    current         \* current_deployed_controls: row of history, 0 when none

rdVars == <<profiles, history, highest, current>>

Request == [op : Nat \ {0}, rev : Nat, config : Configs, fence : Nat \ {0}]

Deployment ==
    [op : Nat \ {0}, rev : Nat, config : Configs, fence : Nat \ {0},
     prev : Nat, appliedAt : Nat]

RDInit ==
    /\ profiles = {}
    /\ history = <<>>
    /\ highest = <<>>
    /\ current = 0

RegisterProfile(p) ==
    /\ profiles' = profiles \union {p}
    /\ UNCHANGED <<history, highest, current>>

\* The row of operation op, 0 when it was never committed.
RowOf(op) ==
    IF \E k \in DOMAIN history : history[k].op = op
    THEN CHOOSE k \in DOMAIN history : history[k].op = op
    ELSE 0

\* The operation is committed already, as row k.
VerdictOnRow(req, k) ==
    IF history[k].rev # req.rev \/ history[k].config # req.config THEN "collision"
    ELSE IF current # k THEN "superseded"
    ELSE IF req.fence < highest[k] THEN "stale-fence"
    ELSE "reopened"

\* Fault: an operation older than the current deployment is accepted.
VerdictOnNewUnordered(req) == "inserted"

VerdictOnNew(req) ==
    IF current # 0 /\ req.op <= history[current].op THEN "stale-sequence" ELSE "inserted"

\* What the transaction finds, in the order in which it looks.  Anything but
\* "reopened" and "inserted" is a DeploymentApplyError that is not retryable.
Verdict(req) ==
    IF ProfileOf[req.config] \notin profiles THEN "profile-not-found"
    ELSE IF RowOf(req.op) # 0 THEN VerdictOnRow(req, RowOf(req.op))
    ELSE VerdictOnNew(req)

Accepts(req) == Verdict(req) \in {"reopened", "inserted"}

\* Receipt of the acknowledgement, when the request is accepted.
ReceiptFor(req) == IF RowOf(req.op) # 0 THEN RowOf(req.op) ELSE Len(history) + 1

\* Fault: two deployments of one second get one application time.
AppliedAtWallClock(t) == t

\* Applied strictly after the deployment it replaces, whatever the clock says.
AppliedAt(t) ==
    IF current # 0 /\ t <= history[current].appliedAt
    THEN history[current].appliedAt + 1
    ELSE t

NewDeployment(req, t) ==
    [op |-> req.op, rev |-> req.rev, config |-> req.config, fence |-> req.fence,
     prev |-> current, appliedAt |-> AppliedAt(t)]

InsertDeployment(req, t) ==
    /\ history' = Append(history, NewDeployment(req, t))
    /\ highest' = Append(highest, req.fence)
    /\ current' = Len(history) + 1

RaiseFence(req) ==
    /\ highest' = [highest EXCEPT ![current] = req.fence]
    /\ UNCHANGED <<history, current>>

\* t is transaction_timestamp() in whole seconds.
EnsureApplied(req, t) ==
    /\ UNCHANGED profiles
    /\ \/ Verdict(req) = "inserted" /\ InsertDeployment(req, t)
       \/ Verdict(req) = "reopened" /\ RaiseFence(req)
       \/ ~Accepts(req) /\ UNCHANGED <<history, highest, current>>

----------------------------------------------------------------------------
(* The target on its own: requests arrive in any order, any number of times, *)
(* and transaction timestamps may run backwards between transactions.        *)

RDNext ==
    \/ \E p \in Profiles : RegisterProfile(p)
    \/ \E op \in 1 .. MaxOp, rev \in 1 .. MaxOp, c \in Configs, f \in 1 .. MaxReqFence,
          t \in 0 .. MaxClock :
           EnsureApplied([op |-> op, rev |-> rev, config |-> c, fence |-> f], t)

RDSpec == RDInit /\ [][RDNext]_rdVars

----------------------------------------------------------------------------
(* Properties *)

\* Every stored row has the columns its table declares, and every row of the
\* history has its fence row.
RDTypeOK ==
    /\ profiles \subseteq Profiles
    /\ history \in Seq(Deployment)
    /\ highest \in Seq(Nat \ {0})
    /\ Len(highest) = Len(history)
    /\ current \in 0 .. Len(history)

\* deployment_history_for_control raises RuntimeCatalogIntegrityError when two
\* rows are not strictly ordered in sequence and application time.  It never
\* has to, whatever the order of the requests and whatever the clock does.
HistoryStrictlyOrdered ==
    \A j, k \in DOMAIN history :
        j < k => /\ history[j].op < history[k].op
                 /\ history[j].appliedAt < history[k].appliedAt

\* The receipts are one unbroken chain whose newest link is the current
\* deployment: no accepted request is ever lost or bypassed.
ReceiptChain ==
    /\ current = Len(history)
    /\ \A k \in DOMAIN history : history[k].prev = k - 1

\* A control runs only under a profile that was registered before.
DeployedUnderProfile ==
    \A k \in DOMAIN history : ProfileOf[history[k].config] \in profiles

\* However requests are reordered, repeated and delayed, and whatever the clock does, the
\* deployment history is one chain of receipts, strictly ordered, under known profiles.
HistoryIsOneChain == HistoryStrictlyOrdered /\ ReceiptChain /\ DeployedUnderProfile

\* What was answered once is answered again: committed rows are never written
\* again and the fence a retry must present only rises.
AppendOnlyStep ==
    /\ \A k \in DOMAIN history : k \in DOMAIN history' /\ history'[k] = history[k]
    /\ \A k \in DOMAIN highest : k \in DOMAIN highest' /\ highest'[k] >= highest[k]

AppendOnly == [][AppendOnlyStep]_rdVars
================================================================================

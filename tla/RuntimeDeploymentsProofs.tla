------------------------ MODULE RuntimeDeploymentsProofs ------------------------
(***************************************************************************)
(* Proofs about the deployment target, for every set of configurations and *)
(* profiles and for requests and timestamps of any size, in any order.     *)
(***************************************************************************)
EXTENDS RuntimeDeployments, SequenceTheorems, TLAPS

USE RuntimeDeploymentConstants

\* The inductive invariant.  The order of the history is inductive only
\* together with the receipt chain: ensure_applied compares a new operation
\* with the current row, and the chain says that this is the newest one.
RDInv ==
    /\ RDTypeOK
    /\ HistoryStrictlyOrdered
    /\ ReceiptChain
    /\ DeployedUnderProfile

----------------------------------------------------------------------------
(* What the verdicts of ensure_applied entail. *)

\* A new row is written only under a registered profile and only for an
\* operation newer than the current deployment.
LEMMA InsertedIsNewer ==
    ASSUME NEW req, Verdict(req) = "inserted"
    PROVE  /\ ProfileOf[req.config] \in profiles
           /\ current # 0 => ~(req.op <= history[current].op)
<1>1. ProfileOf[req.config] \in profiles
  BY DEF Verdict
<1>2. RowOf(req.op) = 0
  <2>1. SUFFICES ASSUME RowOf(req.op) # 0 PROVE FALSE
    OBVIOUS
  <2>2. VerdictOnRow(req, RowOf(req.op)) = "inserted"
    BY <1>1, <2>1 DEF Verdict
  <2> QED
    BY <2>2 DEF VerdictOnRow
<1>3. VerdictOnNew(req) = "inserted"
  BY <1>1, <1>2 DEF Verdict
<1> QED
  BY <1>1, <1>3 DEF VerdictOnNew

\* A repeated call is accepted only for the current row and only with a fence
\* that is not lower than any accepted before.
LEMMA ReopenedIsFenced ==
    ASSUME NEW req, Verdict(req) = "reopened"
    PROVE  current # 0 /\ ~(req.fence < highest[current])
<1>1. ProfileOf[req.config] \in profiles
  BY DEF Verdict
<1>2. RowOf(req.op) # 0
  <2>1. SUFFICES ASSUME RowOf(req.op) = 0 PROVE FALSE
    OBVIOUS
  <2>2. VerdictOnNew(req) = "reopened"
    BY <1>1, <2>1 DEF Verdict
  <2> QED
    BY <2>2 DEF VerdictOnNew
<1>3. VerdictOnRow(req, RowOf(req.op)) = "reopened"
  BY <1>1, <1>2 DEF Verdict
<1> QED
  BY <1>2, <1>3 DEF VerdictOnRow

\* A row is applied strictly after the row it replaces, whatever the clock says.
LEMMA AppliedAfterCurrent ==
    ASSUME RDTypeOK, NEW t \in Nat
    PROVE  /\ AppliedAt(t) \in Nat
           /\ current # 0 => history[current].appliedAt < AppliedAt(t)
<1>1. CASE current = 0
  BY <1>1 DEF AppliedAt
<1>2. CASE current # 0
  <2>1. history \in Seq(Deployment) /\ current \in 1 .. Len(history)
    BY <1>2, LenProperties DEF RDTypeOK
  <2>2. history[current] \in Deployment
    BY <2>1, ElementOfSeq
  <2>3. history[current].appliedAt \in Nat
    BY <2>2 DEF Deployment
  <2> QED
    BY <1>2, <2>3 DEF AppliedAt
<1> QED
  BY <1>1, <1>2

----------------------------------------------------------------------------
(* What an insertion writes. *)

\* The new row is well-formed, comes last and leaves the others as they were.
LEMMA InsertWrites ==
    ASSUME RDTypeOK, NEW req \in Request, NEW t \in Nat, InsertDeployment(req, t)
    PROVE  /\ history' \in Seq(Deployment)
           /\ Len(history') = Len(history) + 1
           /\ \A k \in 1 .. Len(history) : history'[k] = history[k]
           /\ history'[Len(history) + 1] = NewDeployment(req, t)
           /\ highest' \in Seq(Nat \ {0})
           /\ Len(highest') = Len(history) + 1
           /\ \A k \in 1 .. Len(history) : highest'[k] = highest[k]
           /\ current' = Len(history) + 1
<1> DEFINE new == NewDeployment(req, t)
           at == AppliedAt(t)
<1>1. /\ history \in Seq(Deployment) /\ highest \in Seq(Nat \ {0})
      /\ Len(highest) = Len(history) /\ Len(history) \in Nat
      /\ current \in Nat
  BY LenProperties DEF RDTypeOK
<1>2. at \in Nat
  BY AppliedAfterCurrent
<1>3. new = [op |-> req.op, rev |-> req.rev, config |-> req.config, fence |-> req.fence,
             prev |-> current, appliedAt |-> at]
  BY DEF NewDeployment
<1> HIDE DEF at
<1>4. new \in Deployment
  BY <1>1, <1>2, <1>3 DEF Request, Deployment
<1>5. history' = Append(history, new) /\ current' = Len(history) + 1
  BY DEF InsertDeployment
<1> HIDE DEF new
<1>6. /\ history' \in Seq(Deployment)
      /\ Len(history') = Len(history) + 1
      /\ \A k \in 1 .. Len(history) : history'[k] = history[k]
      /\ history'[Len(history) + 1] = new
  BY <1>1, <1>4, <1>5, AppendProperties
<1>7. req.fence \in Nat \ {0}
  BY DEF Request
<1>8. highest' = Append(highest, req.fence)
  BY DEF InsertDeployment
<1>9. /\ highest' \in Seq(Nat \ {0})
      /\ Len(highest') = Len(highest) + 1
      /\ \A k \in 1 .. Len(highest) : highest'[k] = highest[k]
  BY <1>1, <1>7, <1>8, AppendProperties
<1> QED
  BY <1>1, <1>5, <1>6, <1>9 DEF new

\* An inserted row keeps the invariant.
LEMMA InsertPreserves ==
    ASSUME RDInv, NEW req \in Request, NEW t \in Nat, Verdict(req) = "inserted",
           InsertDeployment(req, t), UNCHANGED profiles
    PROVE  RDInv'
<1> DEFINE n == Len(history)
<1>1. /\ n \in Nat /\ DOMAIN history = 1 .. n /\ history \in Seq(Deployment)
      /\ current = n
      /\ \A k \in 1 .. n : history[k].prev = k - 1
  BY LenProperties DEF RDInv, RDTypeOK, ReceiptChain
<1>2. /\ history' \in Seq(Deployment) /\ Len(history') = n + 1
      /\ \A k \in 1 .. n : history'[k] = history[k]
      /\ history'[n + 1] = NewDeployment(req, t)
      /\ highest' \in Seq(Nat \ {0}) /\ Len(highest') = n + 1
      /\ current' = n + 1
  BY InsertWrites DEF RDInv
<1>3. DOMAIN history' = 1 .. n + 1
  BY <1>2, LenProperties
<1>4. 1 .. n + 1 = (1 .. n) \union {n + 1}
  BY <1>1
<1>5. /\ history'[n + 1].op = req.op
      /\ history'[n + 1].config = req.config
      /\ history'[n + 1].prev = n
      /\ history'[n + 1].appliedAt = AppliedAt(t)
  BY <1>1, <1>2 DEF NewDeployment
<1> HIDE DEF n
<1>6. RDTypeOK'
  BY <1>1, <1>2 DEF RDInv, RDTypeOK
<1>7. HistoryStrictlyOrdered'
  <2>1. SUFFICES ASSUME NEW j \in 1 .. n + 1, NEW k \in 1 .. n + 1, j < k
                 PROVE  history'[j].op < history'[k].op
                        /\ history'[j].appliedAt < history'[k].appliedAt
    BY <1>3 DEF HistoryStrictlyOrdered
  <2>2. j \in 1 .. n
    BY <1>1, <2>1
  <2>3. CASE k \in 1 .. n
    BY <1>1, <1>2, <2>1, <2>2, <2>3 DEF RDInv, HistoryStrictlyOrdered
  <2>4. CASE k = n + 1
    <3>1. n \in 1 .. n
      BY <1>1, <2>2
    <3>2. history[j] \in Deployment /\ history[n] \in Deployment
      BY <1>1, <2>2, <3>1, ElementOfSeq DEF n
    <3>3. /\ history[j].op \in Nat /\ history[n].op \in Nat /\ req.op \in Nat
          /\ history[j].appliedAt \in Nat /\ history[n].appliedAt \in Nat
      BY <3>2 DEF Deployment, Request
    <3>4. /\ history[j].op <= history[n].op
          /\ history[j].appliedAt <= history[n].appliedAt
      <4>1. CASE j = n
        BY <4>1, <3>3
      <4>2. CASE j < n
        <5>1. j \in DOMAIN history /\ n \in DOMAIN history
          BY <1>1, <2>2, <3>1
        <5>2. history[j].op < history[n].op /\ history[j].appliedAt < history[n].appliedAt
          BY <4>2, <5>1 DEF RDInv, HistoryStrictlyOrdered
        <5> QED
          BY <3>3, <5>2
      <4>3. j = n \/ j < n
        BY <1>1, <2>2
      <4> QED
        BY <4>1, <4>2, <4>3
    <3>5. history[n].op < req.op
      BY <1>1, <2>2, <3>3, InsertedIsNewer
    <3>6. AppliedAt(t) \in Nat /\ history[n].appliedAt < AppliedAt(t)
      <4>1. current = n /\ current # 0
        BY <1>1, <2>2
      <4>2. /\ AppliedAt(t) \in Nat
            /\ current # 0 => history[current].appliedAt < AppliedAt(t)
        BY AppliedAfterCurrent DEF RDInv
      <4> QED
        BY <4>1, <4>2
    <3>7. /\ history'[j] = history[j]
          /\ history'[k].op = req.op /\ history'[k].appliedAt = AppliedAt(t)
      BY <1>2, <1>5, <2>2, <2>4
    <3> QED
      BY <3>3, <3>4, <3>5, <3>6, <3>7
  <2> QED
    BY <1>4, <2>3, <2>4
<1>8. ReceiptChain'
  <2>1. current' = Len(history')
    BY <1>2
  <2>2. SUFFICES ASSUME NEW k \in DOMAIN history'
                 PROVE  history'[k].prev = k - 1
    BY <2>1 DEF ReceiptChain
  <2>3. CASE k \in 1 .. n
    <3>1. history'[k] = history[k] /\ history[k].prev = k - 1
      BY <1>1, <1>2, <2>3
    <3> QED
      BY <3>1
  <2>4. CASE k = n + 1
    BY <1>1, <1>5, <2>4
  <2>5. k \in 1 .. n \/ k = n + 1
    BY <1>3, <1>4
  <2> QED
    BY <2>3, <2>4, <2>5
<1>9. DeployedUnderProfile'
  <2>1. ProfileOf[req.config] \in profiles
    BY InsertedIsNewer
  <2> QED
    BY <1>1, <1>2, <1>3, <1>4, <1>5, <2>1 DEF RDInv, DeployedUnderProfile
<1> QED
  BY <1>6, <1>7, <1>8, <1>9 DEF RDInv

\* A repeated call writes only the fence of the current row, and raises it.
LEMMA RaiseFenceWrites ==
    ASSUME RDTypeOK, NEW req \in Request, Verdict(req) = "reopened", RaiseFence(req)
    PROVE  /\ highest' \in Seq(Nat \ {0})
           /\ Len(highest') = Len(highest)
           /\ \A k \in 1 .. Len(highest) : highest'[k] >= highest[k]
<1>1. highest \in Seq(Nat \ {0}) /\ Len(highest) \in Nat /\ current \in 1 .. Len(highest)
  BY LenProperties, ReopenedIsFenced DEF RDTypeOK
<1>2. req.fence \in Nat \ {0}
  BY DEF Request
<1>3. highest' = [highest EXCEPT ![current] = req.fence]
  BY DEF RaiseFence
<1>4. /\ highest' \in Seq(Nat \ {0})
      /\ Len(highest') = Len(highest)
      /\ \A k \in 1 .. Len(highest) :
             highest'[k] = IF k = current THEN req.fence ELSE highest[k]
  BY <1>1, <1>2, <1>3, ExceptSeq
<1>5. \A k \in 1 .. Len(highest) : highest[k] \in Nat
  BY <1>1, ElementOfSeq
<1>6. req.fence >= highest[current]
  BY <1>1, <1>2, <1>5, ReopenedIsFenced
<1> QED
  BY <1>1, <1>2, <1>4, <1>5, <1>6

\* Every request and every timestamp of RDNext is one of the right sort.
LEMMA RequestsAreTyped ==
    ASSUME NEW op \in 1 .. MaxOp, NEW rev \in 1 .. MaxOp, NEW c \in Configs,
           NEW f \in 1 .. MaxReqFence
    PROVE  [op |-> op, rev |-> rev, config |-> c, fence |-> f] \in Request
BY DEF Request

\* Each call of ensure_applied keeps the invariant, whatever its verdict.
LEMMA EnsureAppliedPreserves ==
    ASSUME RDInv, NEW req \in Request, NEW t \in Nat, EnsureApplied(req, t)
    PROVE  RDInv'
<1>1. CASE Verdict(req) = "inserted" /\ InsertDeployment(req, t)
  BY <1>1, InsertPreserves DEF EnsureApplied
<1>2. CASE Verdict(req) = "reopened" /\ RaiseFence(req)
  <2>1. UNCHANGED <<profiles, history, current>>
    BY <1>2 DEF EnsureApplied, RaiseFence
  <2>2. highest' \in Seq(Nat \ {0}) /\ Len(highest') = Len(highest)
    BY <1>2, RaiseFenceWrites DEF RDInv
  <2> QED
    BY <2>1, <2>2 DEF RDInv, RDTypeOK, HistoryStrictlyOrdered, ReceiptChain,
                      DeployedUnderProfile
<1>3. CASE UNCHANGED <<history, highest, current>>
  BY <1>3 DEF EnsureApplied, RDInv, RDTypeOK, HistoryStrictlyOrdered, ReceiptChain,
              DeployedUnderProfile
<1> QED
  BY <1>1, <1>2, <1>3 DEF EnsureApplied

----------------------------------------------------------------------------
(* The invariant and the properties *)

\* However requests are reordered, repeated or delayed and whatever the clock
\* does, the tables that ensure_applied maintains satisfy the invariant.
THEOREM TargetInvariant == RDSpec => []RDInv
<1>1. RDInit => RDInv
  <2>1. SUFFICES ASSUME RDInit PROVE RDInv
    OBVIOUS
  <2>2. history = <<>> /\ highest = <<>> /\ current = 0 /\ profiles = {}
    BY <2>1 DEF RDInit
  <2>3. /\ history \in Seq(Deployment) /\ highest \in Seq(Nat \ {0})
        /\ Len(history) = 0 /\ Len(highest) = 0 /\ DOMAIN history = {}
    BY <2>2, EmptySeq
  <2> QED
    BY <2>2, <2>3 DEF RDInv, RDTypeOK, HistoryStrictlyOrdered, ReceiptChain,
                      DeployedUnderProfile
<1>2. RDInv /\ [RDNext]_rdVars => RDInv'
  <2>1. SUFFICES ASSUME RDInv, [RDNext]_rdVars PROVE RDInv'
    OBVIOUS
  <2>2. ASSUME NEW p \in Profiles, RegisterProfile(p) PROVE RDInv'
    BY <2>1, <2>2 DEF RegisterProfile, RDInv, RDTypeOK, HistoryStrictlyOrdered,
                      ReceiptChain, DeployedUnderProfile
  <2>3. ASSUME NEW op \in 1 .. MaxOp, NEW rev \in 1 .. MaxOp, NEW c \in Configs,
               NEW f \in 1 .. MaxReqFence, NEW t \in 0 .. MaxClock,
               EnsureApplied([op |-> op, rev |-> rev, config |-> c, fence |-> f], t)
        PROVE  RDInv'
    <3>1. t \in Nat
      OBVIOUS
    <3> QED
      BY <2>1, <2>3, <3>1, RequestsAreTyped, EnsureAppliedPreserves
  <2>4. CASE UNCHANGED rdVars
    BY <2>1, <2>4 DEF rdVars, RDInv, RDTypeOK, HistoryStrictlyOrdered, ReceiptChain,
                      DeployedUnderProfile
  <2> QED
    BY <2>1, <2>2, <2>3, <2>4 DEF RDNext
<1> QED
  BY <1>1, <1>2, PTL DEF RDSpec

\* Every row of the target's tables is well-formed and has its fence row.
THEOREM TargetTypeCorrect == RDSpec => []RDTypeOK
<1>1. RDInv => RDTypeOK
  BY DEF RDInv
<1> QED
  BY <1>1, TargetInvariant, PTL

\* The integrity error of deployment_history_for_control is never raised.
THEOREM HistoryOrdered == RDSpec => []HistoryStrictlyOrdered
<1>1. RDInv => HistoryStrictlyOrdered
  BY DEF RDInv
<1> QED
  BY <1>1, TargetInvariant, PTL

\* The receipts form one chain that ends in the current deployment.
THEOREM ReceiptsChained == RDSpec => []ReceiptChain
<1>1. RDInv => ReceiptChain
  BY DEF RDInv
<1> QED
  BY <1>1, TargetInvariant, PTL

\* Nothing is deployed under a profile that is not registered.
THEOREM ProfilesFirst == RDSpec => []DeployedUnderProfile
<1>1. RDInv => DeployedUnderProfile
  BY DEF RDInv
<1> QED
  BY <1>1, TargetInvariant, PTL

\* ensure_applied appends a row or raises a fence; what is there stays.
LEMMA EnsureAppliedAppends ==
    ASSUME RDTypeOK, NEW req \in Request, NEW t \in Nat, EnsureApplied(req, t)
    PROVE  AppendOnlyStep
<1>1. /\ DOMAIN history = 1 .. Len(history)
      /\ DOMAIN highest = 1 .. Len(highest) /\ Len(highest) = Len(history)
      /\ Len(history) \in Nat
      /\ history \in Seq(Deployment) /\ highest \in Seq(Nat \ {0})
  BY LenProperties DEF RDTypeOK
<1>2. \A k \in DOMAIN highest : highest[k] \in Nat
  BY <1>1, ElementOfSeq
<1>3. CASE UNCHANGED <<history, highest>>
  BY <1>2, <1>3 DEF AppendOnlyStep
<1>4. CASE Verdict(req) = "inserted" /\ InsertDeployment(req, t)
  <2>1. /\ history' \in Seq(Deployment) /\ Len(history') = Len(history) + 1
        /\ \A k \in 1 .. Len(history) : history'[k] = history[k]
        /\ highest' \in Seq(Nat \ {0}) /\ Len(highest') = Len(history) + 1
        /\ \A k \in 1 .. Len(history) : highest'[k] = highest[k]
    BY <1>1, <1>4, InsertWrites
  <2>2. /\ DOMAIN history' = 1 .. Len(history) + 1
        /\ DOMAIN highest' = 1 .. Len(history) + 1
    BY <2>1, LenProperties
  <2>3. 1 .. Len(history) \subseteq 1 .. Len(history) + 1
    BY <1>1
  <2> QED
    BY <1>1, <1>2, <2>1, <2>2, <2>3 DEF AppendOnlyStep
<1>5. CASE Verdict(req) = "reopened" /\ RaiseFence(req)
  <2>1. UNCHANGED history
    BY <1>5 DEF RaiseFence
  <2>2. /\ highest' \in Seq(Nat \ {0}) /\ Len(highest') = Len(highest)
        /\ \A k \in 1 .. Len(highest) : highest'[k] >= highest[k]
    BY <1>1, <1>5, RaiseFenceWrites
  <2>3. DOMAIN highest' = DOMAIN highest
    BY <1>1, <2>2, LenProperties
  <2> QED
    BY <1>1, <2>1, <2>2, <2>3 DEF AppendOnlyStep
<1> QED
  BY <1>3, <1>4, <1>5 DEF EnsureApplied

LEMMA UnchangedAppends ==
    ASSUME RDTypeOK, UNCHANGED <<history, highest>>
    PROVE  AppendOnlyStep
<1>1. \A k \in DOMAIN highest : highest[k] \in Nat
  BY ElementOfSeq, LenProperties DEF RDTypeOK
<1> QED
  BY <1>1 DEF AppendOnlyStep

\* No step rewrites a committed row or lowers a fence, so a receipt that was
\* answered once can be answered again.
THEOREM HistoryAppendOnly == RDSpec => AppendOnly
<1>1. RDInv /\ [RDNext]_rdVars => [AppendOnlyStep]_rdVars
  <2>1. SUFFICES ASSUME RDInv, RDNext PROVE AppendOnlyStep
    BY DEF RDInv
  <2>2. ASSUME NEW p \in Profiles, RegisterProfile(p) PROVE AppendOnlyStep
    BY <2>1, <2>2, UnchangedAppends DEF RegisterProfile, RDInv
  <2>3. ASSUME NEW op \in 1 .. MaxOp, NEW rev \in 1 .. MaxOp, NEW c \in Configs,
               NEW f \in 1 .. MaxReqFence, NEW t \in 0 .. MaxClock,
               EnsureApplied([op |-> op, rev |-> rev, config |-> c, fence |-> f], t)
        PROVE  AppendOnlyStep
    <3>1. t \in Nat
      OBVIOUS
    <3> QED
      BY <2>1, <2>3, <3>1, RequestsAreTyped, EnsureAppliedAppends DEF RDInv
  <2> QED
    BY <2>1, <2>2, <2>3 DEF RDNext
<1>2. RDSpec => [][RDNext]_rdVars
  BY DEF RDSpec
<1> QED
  BY <1>1, <1>2, TargetInvariant, PTL DEF AppendOnly

\* Whatever the order of the requests and the clock, ensure_applied keeps the history one
\* strictly ordered chain of receipts under registered profiles.
THEOREM HistoryInOneChain == RDSpec => []HistoryIsOneChain
<1>1. RDInv => HistoryIsOneChain
  BY DEF RDInv, HistoryIsOneChain
<1> QED
  BY <1>1, TargetInvariant, PTL

================================================================================

----------------------------- MODULE AccessProofs -----------------------------
(***************************************************************************)
(* Proofs about access: the credentials the system asks others for (the    *)
(* issuance journal and its fence, the tokens of Defender XDR, the API     *)
(* keys of Elastic Security) and the sign-in of its own users (logins,     *)
(* sessions, the cache of the identity provider's keys), for any number    *)
(* of rows, brokers, faults, logins, callbacks and threads, any limits and *)
(* lifetimes, and clocks that lag by any amount.                           *)
(***************************************************************************)
EXTENDS PamIssuance, DefenderPam, ElasticPam, OidcLogin, JwksCache, TLAPS

----------------------------------------------------------------------------
(* The issuance journal *)

\* No row and no number drawn for one lies above lifecycle_sequence.
NumbersAreDrawn ==
    \A r \in Records : drawn[r].seq <= sequence /\ record[r].seq <= sequence

\* A row, and an insert that waits for its binding, names a binding that is
\* registered; what is absent has no content.
RowsAreBound ==
    /\ \A f \in Fences : binding[f].state = "absent" => binding[f] = NoBinding
    /\ \A r \in Records :
         /\ drawn[r].fence # 0 =>
              drawn[r].fence \in Fences /\ binding[drawn[r].fence].state # "absent"
         /\ record[r].state = "absent" => record[r] = NoRecord /\ credential[r] = 0
         /\ record[r].state # "absent" =>
              record[r].fence \in Fences /\ binding[record[r].fence].state # "absent"

\* A credential ends within the exposure of its row, and a settled row has
\* outlived its exposure.
ExposureIsHonoured ==
    \A r \in Records :
        /\ credential[r] <= record[r].exposureEnds
        /\ record[r].state \in SettledStates => record[r].exposureEnds <= now

\* The inductive invariant.  A watermark seals its binding because numbers are
\* drawn from one counter, whoever holds the lock, and only an active binding
\* takes rows.
IssuanceInv ==
    IssuanceTypeOK /\ NumbersAreDrawn /\ RowsAreBound /\ ExposureIsHonoured /\ WatermarkSeals

LEMMA IssuanceInitially == IssuanceInit => IssuanceInv
  BY PamIssuanceConstants
  DEF IssuanceInit, IssuanceInv, IssuanceTypeOK, NumbersAreDrawn, RowsAreBound,
      ExposureIsHonoured, WatermarkSeals, NoBinding, NoRecord, Binding, LifecycleRecord,
      SettledStates, Fences

\* A lease and an exposure end at a point in time.
LEMMA LifetimesAreTimes == ASSUME IssuanceInv PROVE Lifetimes \subseteq Nat
<1>1. now \in Nat /\ MaxLife \in Nat
  BY PamIssuanceConstants DEF IssuanceInv, IssuanceTypeOK
<1> QED
  BY <1>1 DEF Lifetimes

\* What the fence writes: the binding retired under a number that no row has,
\* and its successor active.
LEMMA FenceWrites ==
    ASSUME IssuanceInv, NEW f \in Fences, InstallRecoveryIssuanceFence(f)
    PROVE  /\ binding' \in [Fences -> Binding]
           /\ binding'[f].state = "fenced" /\ binding'[f].watermark = sequence + 1
           /\ f + 1 \in Fences /\ binding'[f + 1].state = "active"
           /\ \A g \in Fences \ {f, f + 1} : binding'[g] = binding[g]
<1> USE PamIssuanceConstants DEF IssuanceInv, IssuanceTypeOK
<1>1. f \in Nat /\ f + 1 \in Fences /\ f # f + 1 /\ now \in Nat /\ sequence \in Nat
  BY DEF InstallRecoveryIssuanceFence, Fences
<1>2. PICK ends \in Lifetimes :
        binding' = [binding EXCEPT ![f].state = "fenced", ![f].watermark = sequence + 1,
                                   ![f + 1] = ActiveBinding(ends, f)]
  BY DEF InstallRecoveryIssuanceFence
<1>3. ActiveBinding(ends, f) \in Binding /\ ActiveBinding(ends, f).state = "active"
  BY <1>1, LifetimesAreTimes DEF ActiveBinding, Binding
<1> DEFINE retired == [binding[f] EXCEPT !.state = "fenced", !.watermark = sequence + 1]
<1>4. retired \in Binding /\ retired.state = "fenced" /\ retired.watermark = sequence + 1
  <2>1. binding[f] \in Binding /\ sequence + 1 \in Nat
    BY <1>1
  <2>2. \A b \in Binding, n \in Nat :
          /\ [b EXCEPT !.state = "fenced", !.watermark = n] \in Binding
          /\ [b EXCEPT !.state = "fenced", !.watermark = n].state = "fenced"
          /\ [b EXCEPT !.state = "fenced", !.watermark = n].watermark = n
    BY DEF Binding
  <2> QED
    BY <2>1, <2>2
<1>5. binding' = [g \in Fences |-> IF g = f + 1 THEN ActiveBinding(ends, f)
                                   ELSE IF g = f THEN retired ELSE binding[g]]
  BY <1>1, <1>2
<1> HIDE DEF retired
<1> QED
  BY <1>1, <1>3, <1>4, <1>5

LEMMA IssuanceKeepsTypes ==
    ASSUME IssuanceInv, [IssuanceNext]_issuanceVars PROVE IssuanceTypeOK'
<1> USE PamIssuanceConstants, LifetimesAreTimes DEF IssuanceInv, IssuanceTypeOK
<1>0. now \in Nat /\ sequence \in Nat /\ \A f \in Fences : f \in Nat
  BY DEF Fences
<1>1. ASSUME NEW f \in Fences, RegisterExecutionBinding(f) PROVE IssuanceTypeOK'
  <2>1. PICK ends \in Lifetimes : binding' = [binding EXCEPT ![f] = ActiveBinding(ends, 0)]
    BY <1>1 DEF RegisterExecutionBinding
  <2>2. ActiveBinding(ends, 0) \in Binding
    BY DEF ActiveBinding, Binding
  <2> QED
    BY <1>1, <2>1, <2>2 DEF RegisterExecutionBinding
<1>2. ASSUME NEW f \in Fences, InstallRecoveryIssuanceFence(f) PROVE IssuanceTypeOK'
  <2>1. binding' \in [Fences -> Binding]
    BY <1>2, FenceWrites
  <2>2. sequence' = sequence + 1 /\ UNCHANGED <<record, credential, drawn, now>>
    BY <1>2 DEF InstallRecoveryIssuanceFence
  <2> QED
    BY <1>0, <2>1, <2>2
<1>3. ASSUME NEW f \in Fences, NEW r \in Records, DrawSequence(r, f) PROVE IssuanceTypeOK'
  BY <1>0, <1>3 DEF DrawSequence
<1>4. ASSUME NEW r \in Records, PrepareLifecycle(r) PROVE IssuanceTypeOK'
  <2>1. drawn' \in [Records -> [fence : Nat, seq : Nat]]
    BY <1>4 DEF PrepareLifecycle
  <2>2. record' \in [Records -> LifecycleRecord]
    <3>1. CASE UNCHANGED record
      BY <3>1
    <3>2. CASE \E ends \in Lifetimes :
                 record' = [record EXCEPT ![r] =
                   [state |-> "prepared", fence |-> drawn[r].fence, seq |-> drawn[r].seq,
                    exposureEnds |-> ends, issued |-> FALSE]]
      BY <3>2 DEF LifecycleRecord
    <3> QED
      BY <1>4, <3>1, <3>2 DEF PrepareLifecycle
  <2> QED
    BY <1>4, <2>1, <2>2 DEF PrepareLifecycle
<1>5. ASSUME NEW r \in Records, AuthorityIssues(r) PROVE IssuanceTypeOK'
  BY <1>0, <1>5 DEF AuthorityIssues
<1>6. ASSUME NEW r \in Records, MarkLifecycleIssued(r) PROVE IssuanceTypeOK'
  <2>1. PICK ends \in Lifetimes :
          record' = [record EXCEPT ![r].state = "issued", ![r].issued = TRUE,
                                   ![r].exposureEnds = ends]
    BY <1>6 DEF MarkLifecycleIssued
  <2>2. [record[r] EXCEPT !.state = "issued", !.issued = TRUE, !.exposureEnds = ends]
          \in LifecycleRecord
    BY <1>0 DEF LifecycleRecord
  <2>3. record' \in [Records -> LifecycleRecord]
    BY <2>1, <2>2
  <2> QED
    BY <1>6, <2>3 DEF MarkLifecycleIssued
<1>7. ASSUME NEW r \in Records, MarkLifecycleUncertain(r) PROVE IssuanceTypeOK'
  BY <1>7 DEF MarkLifecycleUncertain, LifecycleRecord
<1>8. ASSUME NEW r \in Records, NEW to \in SettledStates, SettleLifecycle(r, to)
      PROVE  IssuanceTypeOK'
  <2>1. [record[r] EXCEPT !.state = to] \in LifecycleRecord
    BY DEF LifecycleRecord
  <2> QED
    BY <1>8, <2>1 DEF SettleLifecycle
<1>9. CASE TimePasses
  BY <1>9 DEF TimePasses
<1>10. CASE UNCHANGED issuanceVars
  BY <1>10 DEF issuanceVars
<1> QED
  BY <1>1, <1>2, <1>3, <1>4, <1>5, <1>6, <1>7, <1>8, <1>9, <1>10 DEF IssuanceNext

\* A step that changes the state and the exposure of one present row keeps the
\* invariant when the row stays present, covers its credential and is settled
\* only when its exposure is over.
LEMMA RowMayMove ==
    ASSUME IssuanceInv, IssuanceTypeOK', NEW r \in Records,
           record[r].state # "absent", record'[r].state # "absent",
           record'[r].fence = record[r].fence, record'[r].seq = record[r].seq,
           \A q \in Records \ {r} : record'[q] = record[q],
           credential[r] <= record'[r].exposureEnds,
           record'[r].state \in SettledStates => record'[r].exposureEnds <= now,
           UNCHANGED <<binding, credential, sequence, drawn, now>>
    PROVE  IssuanceInv'
<1> USE DEF IssuanceInv
<1>1. NumbersAreDrawn'
  BY DEF NumbersAreDrawn
<1>2. RowsAreBound'
  BY DEF RowsAreBound
<1>3. ExposureIsHonoured'
  BY DEF ExposureIsHonoured
<1>4. WatermarkSeals'
  BY DEF WatermarkSeals
<1> QED
  BY <1>1, <1>2, <1>3, <1>4

LEMMA IssuanceKeepsInv == IssuanceInv /\ [IssuanceNext]_issuanceVars => IssuanceInv'
<1> SUFFICES ASSUME IssuanceInv, [IssuanceNext]_issuanceVars PROVE IssuanceInv'
  OBVIOUS
<1>0. IssuanceTypeOK'
  BY IssuanceKeepsTypes
<1>a. /\ now \in Nat /\ sequence \in Nat
      /\ \A f \in Fences : f \in Nat /\ f # 0 /\ binding[f] \in Binding
      /\ \A r \in Records : /\ record[r] \in LifecycleRecord /\ credential[r] \in Nat
                            /\ drawn[r] \in [fence : Nat, seq : Nat]
  BY PamIssuanceConstants DEF IssuanceInv, IssuanceTypeOK, Fences
<1> USE <1>0, <1>a DEF IssuanceInv, IssuanceTypeOK, LifecycleRecord
<1>1. ASSUME NEW f \in Fences, RegisterExecutionBinding(f) PROVE IssuanceInv'
  <2>1. /\ binding[f] = NoBinding /\ binding'[f].state = "active"
        /\ \A g \in Fences \ {f} : binding'[g] = binding[g]
        /\ UNCHANGED <<record, credential, sequence, drawn, now>>
    BY <1>1 DEF RegisterExecutionBinding, ActiveBinding
  <2>2. NumbersAreDrawn' /\ ExposureIsHonoured'
    BY <2>1 DEF NumbersAreDrawn, ExposureIsHonoured
  <2>3. RowsAreBound'
    BY <2>1 DEF RowsAreBound
  <2>4. WatermarkSeals'
    BY <2>1 DEF WatermarkSeals
  <2> QED
    BY <2>2, <2>3, <2>4
<1>2. ASSUME NEW f \in Fences, InstallRecoveryIssuanceFence(f) PROVE IssuanceInv'
  <2>1. /\ sequence' = sequence + 1 /\ UNCHANGED <<record, credential, drawn, now>>
        /\ binding[f].state = "active" /\ binding[f + 1] = NoBinding
    BY <1>2 DEF InstallRecoveryIssuanceFence
  <2>2. /\ binding'[f].state = "fenced" /\ binding'[f].watermark = sequence + 1
        /\ f + 1 \in Fences /\ binding'[f + 1].state = "active"
        /\ \A g \in Fences \ {f, f + 1} : binding'[g] = binding[g]
    BY <1>2, FenceWrites
  <2>3. NumbersAreDrawn' /\ ExposureIsHonoured'
    BY <2>1 DEF NumbersAreDrawn, ExposureIsHonoured
  <2>a. \A g \in Fences : binding'[g].state = "absent" =>
                            binding'[g] = binding[g] /\ binding[g].state = "absent"
    BY <2>2
  <2>4. RowsAreBound'
    BY <2>1, <2>a DEF RowsAreBound
  <2>5. WatermarkSeals'
    BY <2>1, <2>2 DEF WatermarkSeals, NumbersAreDrawn
  <2> QED
    BY <2>3, <2>4, <2>5
<1>3. ASSUME NEW f \in Fences, NEW r \in Records, DrawSequence(r, f) PROVE IssuanceInv'
  <2>1. /\ binding[f].state # "absent" /\ sequence' = sequence + 1
        /\ drawn'[r] = [fence |-> f, seq |-> sequence + 1]
        /\ \A q \in Records \ {r} : drawn'[q] = drawn[q]
        /\ UNCHANGED <<binding, record, credential, now>>
    BY <1>3 DEF DrawSequence, RowsAreBound
  <2>2. NumbersAreDrawn'
    BY <2>1 DEF NumbersAreDrawn
  <2>3. RowsAreBound'
    BY <2>1 DEF RowsAreBound
  <2>4. ExposureIsHonoured' /\ WatermarkSeals'
    BY <2>1 DEF ExposureIsHonoured, WatermarkSeals
  <2> QED
    BY <2>2, <2>3, <2>4
<1>4. ASSUME NEW r \in Records, PrepareLifecycle(r) PROVE IssuanceInv'
  <2> DEFINE f == drawn[r].fence
  <2>1. UNCHANGED <<binding, credential, sequence, now>> /\ f # 0 /\ record[r] = NoRecord
    BY <1>4 DEF PrepareLifecycle
  <2>2. CASE ~MayIssueUnder(f)
    <3>1. /\ UNCHANGED record /\ drawn'[r].fence = 0 /\ drawn'[r].seq = drawn[r].seq
          /\ \A q \in Records \ {r} : drawn'[q] = drawn[q]
      BY <1>4, <2>2 DEF PrepareLifecycle
    <3>2. NumbersAreDrawn'
      BY <2>1, <3>1 DEF NumbersAreDrawn
    <3>3. RowsAreBound'
      BY <2>1, <3>1 DEF RowsAreBound
    <3>4. ExposureIsHonoured' /\ WatermarkSeals'
      BY <2>1, <3>1 DEF ExposureIsHonoured, WatermarkSeals
    <3> QED
      BY <3>2, <3>3, <3>4
  <2>3. CASE MayIssueUnder(f)
    <3>1. PICK ends \in Lifetimes :
            record' = [record EXCEPT ![r] =
              [state |-> "prepared", fence |-> f, seq |-> drawn[r].seq,
               exposureEnds |-> ends, issued |-> FALSE]]
      BY <1>4, <2>3 DEF PrepareLifecycle
    <3>2. /\ UNCHANGED drawn /\ binding[f].state = "active" /\ f \in Fences
          /\ record'[r].state = "prepared" /\ record'[r].fence = f
          /\ record'[r].seq = drawn[r].seq
          /\ \A q \in Records \ {r} : record'[q] = record[q]
      BY <1>4, <2>1, <2>3, <3>1 DEF PrepareLifecycle, MayIssueUnder, RowsAreBound
    <3>3. credential[r] = 0
      BY <2>1 DEF RowsAreBound, NoRecord
    <3> HIDE DEF f
    <3>4. NumbersAreDrawn'
      BY <2>1, <3>2 DEF NumbersAreDrawn
    <3>5. RowsAreBound'
      BY <2>1, <3>2 DEF RowsAreBound
    <3>6. ExposureIsHonoured'
      BY <2>1, <3>2, <3>3 DEF ExposureIsHonoured, SettledStates
    <3>7. WatermarkSeals'
      BY <2>1, <3>2 DEF WatermarkSeals
    <3> QED
      BY <3>4, <3>5, <3>6, <3>7
  <2> QED
    BY <2>2, <2>3
<1>5. ASSUME NEW r \in Records, AuthorityIssues(r) PROVE IssuanceInv'
  <2>1. /\ record[r].state # "absent" /\ credential'[r] <= record[r].exposureEnds
        /\ \A q \in Records \ {r} : credential'[q] = credential[q]
        /\ UNCHANGED <<binding, record, sequence, drawn, now>>
    BY <1>5 DEF AuthorityIssues
  <2>2. NumbersAreDrawn' /\ WatermarkSeals'
    BY <2>1 DEF NumbersAreDrawn, WatermarkSeals
  <2>3. RowsAreBound'
    BY <2>1 DEF RowsAreBound
  <2>4. ExposureIsHonoured'
    BY <2>1 DEF ExposureIsHonoured
  <2> QED
    BY <2>2, <2>3, <2>4
<1>6. ASSUME NEW r \in Records, MarkLifecycleIssued(r) PROVE IssuanceInv'
  <2>1. PICK ends \in Lifetimes :
          /\ credential[r] <= ends
          /\ record' = [record EXCEPT ![r].state = "issued", ![r].issued = TRUE,
                                      ![r].exposureEnds = ends]
    BY <1>6 DEF MarkLifecycleIssued
  <2>2. /\ record'[r].state = "issued" /\ record'[r].exposureEnds = ends
        /\ record'[r].fence = record[r].fence /\ record'[r].seq = record[r].seq
        /\ \A q \in Records \ {r} : record'[q] = record[q]
    BY <2>1
  <2>3. record[r].state = "prepared" /\ UNCHANGED <<binding, credential, sequence, drawn, now>>
    BY <1>6 DEF MarkLifecycleIssued
  <2>4. record'[r].state # "absent" /\ record'[r].state \notin SettledStates
    BY <2>2 DEF SettledStates
  <2>5. credential[r] <= record'[r].exposureEnds
    BY <2>1, <2>2
  <2> QED
    BY <2>2, <2>3, <2>4, <2>5, RowMayMove
<1>7. ASSUME NEW r \in Records, MarkLifecycleUncertain(r) PROVE IssuanceInv'
  <2>1. /\ record[r].state = "prepared" /\ record'[r].state = "uncertain"
        /\ record'[r].fence = record[r].fence /\ record'[r].seq = record[r].seq
        /\ record'[r].exposureEnds = record[r].exposureEnds
        /\ \A q \in Records \ {r} : record'[q] = record[q]
        /\ UNCHANGED <<binding, credential, sequence, drawn, now>>
    BY <1>7 DEF MarkLifecycleUncertain
  <2> QED
    BY <2>1, RowMayMove DEF SettledStates, ExposureIsHonoured
<1>8. ASSUME NEW r \in Records, NEW to \in SettledStates, SettleLifecycle(r, to)
      PROVE  IssuanceInv'
  <2>1. /\ record'[r].state = to /\ now >= record[r].exposureEnds
        /\ record'[r].fence = record[r].fence /\ record'[r].seq = record[r].seq
        /\ record'[r].exposureEnds = record[r].exposureEnds
        /\ \A q \in Records \ {r} : record'[q] = record[q]
        /\ UNCHANGED <<binding, credential, sequence, drawn, now>>
    BY <1>8 DEF SettleLifecycle
  <2>2. record[r].state # "absent" /\ record'[r].state # "absent"
    BY <1>8, <2>1 DEF SettleLifecycle, SettledStates
  <2> QED
    BY <2>1, <2>2, RowMayMove DEF ExposureIsHonoured
<1>9. CASE TimePasses
  <2>1. now' = now + 1 /\ UNCHANGED <<binding, record, credential, sequence, drawn>>
    BY <1>9 DEF TimePasses
  <2> QED
    BY <2>1 DEF NumbersAreDrawn, RowsAreBound, ExposureIsHonoured, WatermarkSeals
<1>10. CASE UNCHANGED issuanceVars
  BY <1>10 DEF issuanceVars, NumbersAreDrawn, RowsAreBound, ExposureIsHonoured, WatermarkSeals
<1> QED
  BY <1>1, <1>2, <1>3, <1>4, <1>5, <1>6, <1>7, <1>8, <1>9, <1>10 DEF IssuanceNext

\* What recovery concludes from a settled snapshot: the watermark seals the
\* binding, so the snapshot holds all its rows, and a settled row outlived its
\* credential.
LEMMA SnapshotTellsAll == IssuanceInv => FencedMeansDrained
<1> SUFFICES ASSUME IssuanceInv PROVE FencedMeansDrained
  OBVIOUS
<1> USE DEF IssuanceInv, IssuanceTypeOK
<1>1. SUFFICES ASSUME NEW f \in Fences, binding[f].state = "fenced",
                      AllMatchingRecordsSettled(f),
                      NEW r \in Records, record[r].fence = f
               PROVE  credential[r] <= now
  BY DEF FencedMeansDrained, DrainedMeansDead
<1>2. record[r].state # "absent"
  BY <1>1, PamIssuanceConstants DEF RowsAreBound, NoRecord, Fences
<1>3. r \in SnapshotOf(f)
  BY <1>1, <1>2 DEF SnapshotOf, WatermarkSeals, Binding, LifecycleRecord
<1>4. record[r].state \in SettledStates
  BY <1>1, <1>3 DEF AllMatchingRecordsSettled
<1> QED
  BY <1>4, PamIssuanceConstants DEF ExposureIsHonoured, LifecycleRecord

\* A fence on a binding means what recovery takes it to mean: every row of the
\* binding lies below the watermark, and when the rows below it are settled no
\* credential issued under the binding is alive.
THEOREM FenceDrains == IssuanceSpec => []FencedMeansDrained
<1>1. IssuanceSpec => []IssuanceInv
  BY IssuanceInitially, IssuanceKeepsInv, PTL DEF IssuanceSpec
<1> QED
  BY <1>1, SnapshotTellsAll, PTL

----------------------------------------------------------------------------
(* Tokens of Defender XDR *)

\* Nobody else works on the acquisition of a broker at work: a row is prepared once.
AcquisitionsAreOwned ==
    \A b, c \in TokenBrokers :
        tBroker[b].pc # "idle" /\ tBroker[c].pc # "idle" /\ Acq(b) = Acq(c) => b = c

\* A row r against the token t of its acquisition: no token precedes its row, a
\* recorded expiry is that of a token, and within the exposure counted from the
\* row's writing; what was issued or completed has a recorded expiry, and a
\* completed row is closed, so that no journal call moves it again.
RowHolds(r, t) ==
    /\ r.state = "absent" => t = NoToken /\ r.expires = 0
    /\ r.state # "absent" => r.exposureEnd = r.created + MaxTtl + Skew
    /\ r.expires # 0 => t.ends # 0 /\ t.ends <= r.expires /\ r.expires <= r.exposureEnd
    /\ r.state = "issued" => r.expires # 0
    /\ r.closure = "completed" => r.state = "closed" /\ r.expires # 0

\* A broker in state s against the row and the token of its acquisition: it has
\* written the row, holds no token before its request was answered, records an
\* expiry that counts from the receipt of the answer, and uses what is recorded.
BrokerHolds(s, r, t, sent, time) ==
    /\ s.pc # "idle" => r.state # "absent"
    /\ s.pc \in {"issue", "request"} => t = NoToken /\ ~sent
    /\ s.pc = "record" => t.ends # 0 /\ t.ends <= time + s.ttl
    /\ s.pc \in {"use", "close"} => r.expires # 0

BrokersHold ==
    \A b \in TokenBrokers :
        BrokerHolds(tBroker[b], tokenRow[Acq(b)], token[Acq(b)], Acq(b) \in travelling, clock)

\* The inductive invariant.
TokenInv ==
    /\ TokenTypeOK
    /\ AcquisitionsAreOwned
    /\ \A a \in Acquisitions : RowHolds(tokenRow[a], token[a])
    /\ BrokersHold
    /\ \A a \in travelling : token[a] = NoToken /\ tokenRow[a].state # "absent"
    /\ \A a \in captured : tokenRow[a].closure = "completed"

LEMMA TokenInvariantImplies == TokenInv => ExposureIsCovered /\ CaptureIsClosed
<1> SUFFICES ASSUME TokenInv PROVE ExposureIsCovered /\ CaptureIsClosed
  OBVIOUS
<1>1. /\ TokenTypeOK /\ MaxTtl \in Nat /\ Skew \in Nat
      /\ \A a \in Acquisitions : tokenRow[a] \in TokenRow /\ token[a] \in [at : Nat, ends : Nat]
      /\ captured \subseteq Acquisitions
  BY DefenderPamConstants DEF TokenInv, TokenTypeOK
<1>2. ASSUME NEW a \in Acquisitions
      PROVE  /\ tokenRow[a].expires # 0 =>
                  /\ token[a].ends \in 1 .. tokenRow[a].expires
                  /\ tokenRow[a].expires <= tokenRow[a].exposureEnd
             /\ token[a].ends > tokenRow[a].exposureEnd =>
                  \/ token[a].ends - token[a].at > MaxTtl
                  \/ token[a].at > tokenRow[a].created + Skew
  <2>1. RowHolds(tokenRow[a], token[a])
    BY DEF TokenInv
  <2>2. /\ token[a].at \in Nat /\ token[a].ends \in Nat /\ tokenRow[a].created \in Nat
        /\ tokenRow[a].exposureEnd \in Nat /\ tokenRow[a].expires \in Nat
    BY <1>1 DEF TokenRow
  <2>3. tokenRow[a].state = "absent" => token[a].ends = 0
    BY <2>1 DEF RowHolds, NoToken
  <2> QED
    BY <1>1, <2>1, <2>2, <2>3 DEF RowHolds
<1>3. \A b \in TokenBrokers :
        tBroker[b].pc \in {"use", "close"} => tokenRow[Acq(b)].expires # 0
  BY DEF TokenInv, BrokersHold, BrokerHolds
<1>4. ExposureIsCovered
  BY <1>1, <1>2, <1>3 DEF ExposureIsCovered
<1>5. CaptureIsClosed
  BY <1>1 DEF CaptureIsClosed, TokenInv, RowHolds
<1> QED
  BY <1>4, <1>5

LEMMA TokenInitially == TokenInit => TokenInv
<1> SUFFICES ASSUME TokenInit PROVE TokenInv
  OBVIOUS
<1> USE DefenderPamConstants DEF TokenInit
<1>1. IdleTokenBroker \in TokenBrokerState /\ IdleTokenBroker.pc = "idle"
  BY DEF IdleTokenBroker, TokenBrokerState
<1>2. NoTokenRow \in TokenRow /\ NoToken \in [at : Nat, ends : Nat]
  BY DEF NoTokenRow, TokenRow, NoToken
<1>3. TokenTypeOK
  BY <1>1, <1>2 DEF TokenTypeOK
<1>4. RowHolds(NoTokenRow, NoToken)
  BY DEF RowHolds, NoTokenRow
<1>5. BrokersHold
  BY <1>1 DEF BrokersHold, BrokerHolds
<1> QED
  BY <1>1, <1>3, <1>4, <1>5 DEF TokenInv, AcquisitionsAreOwned

\* A step of broker b on its acquisition keeps the invariant when row, token and
\* broker fit together afterwards.
LEMMA BrokerStepKeeps ==
    ASSUME TokenInv, TokenTypeOK', NEW b \in TokenBrokers, tBroker[b].pc # "idle",
           \A c \in TokenBrokers \ {b} : tBroker'[c] = tBroker[c],
           tBroker'[b].pc # "idle" => tBroker'[b].acq = Acq(b),
           \A a \in Acquisitions \ {Acq(b)} : tokenRow'[a] = tokenRow[a] /\ token'[a] = token[a],
           RowHolds(tokenRow'[Acq(b)], token'[Acq(b)]),
           BrokerHolds(tBroker'[b], tokenRow'[Acq(b)], token'[Acq(b)],
                       Acq(b) \in travelling', clock),
           travelling' \subseteq travelling \cup {Acq(b)},
           Acq(b) \in travelling' =>
             token'[Acq(b)] = NoToken /\ tokenRow'[Acq(b)].state # "absent",
           captured' \subseteq captured \cup {Acq(b)},
           Acq(b) \in captured' => tokenRow'[Acq(b)].closure = "completed",
           clock' = clock
    PROVE  TokenInv'
<1>0. /\ \A c \in TokenBrokers : Acq(c) \in Acquisitions
      /\ travelling \subseteq Acquisitions /\ captured \subseteq Acquisitions
  BY DEF TokenInv, TokenTypeOK, TokenBrokerState, Acq
<1>1. \A c \in TokenBrokers \ {b} : Acq(c)' = Acq(c)
  BY DEF Acq
<1>2. \A c \in TokenBrokers \ {b} : tBroker[c].pc # "idle" => Acq(c) # Acq(b)
  BY DEF TokenInv, AcquisitionsAreOwned
<1>3. tBroker'[b].pc # "idle" => Acq(b)' = Acq(b)
  BY DEF Acq
<1>4. AcquisitionsAreOwned'
  BY <1>1, <1>2, <1>3 DEF TokenInv, AcquisitionsAreOwned
<1>5. BrokersHold'
  <2> SUFFICES ASSUME NEW c \in TokenBrokers
               PROVE  BrokerHolds(tBroker'[c], tokenRow'[Acq(c)'], token'[Acq(c)'],
                                  Acq(c)' \in travelling', clock')
    BY DEF BrokersHold
  <2>1. CASE tBroker'[c].pc = "idle"
    BY <2>1 DEF BrokerHolds
  <2>2. CASE c = b /\ tBroker'[c].pc # "idle"
    BY <1>3, <2>2
  <2>3. CASE c # b /\ tBroker'[c].pc # "idle"
    <3>1. tBroker'[c] = tBroker[c] /\ Acq(c)' = Acq(c) /\ Acq(c) # Acq(b)
      BY <1>1, <1>2, <2>3
    <3>2. /\ tokenRow'[Acq(c)] = tokenRow[Acq(c)] /\ token'[Acq(c)] = token[Acq(c)]
          /\ Acq(c) \in travelling' => Acq(c) \in travelling
      BY <1>0, <3>1
    <3>3. BrokerHolds(tBroker[c], tokenRow[Acq(c)], token[Acq(c)],
                      Acq(c) \in travelling, clock)
      BY DEF TokenInv, BrokersHold
    <3> QED
      BY <3>1, <3>2, <3>3 DEF BrokerHolds
  <2> QED
    BY <2>1, <2>2, <2>3
<1>6. \A a \in Acquisitions : RowHolds(tokenRow'[a], token'[a])
  BY DEF TokenInv
<1>7. \A a \in travelling' : token'[a] = NoToken /\ tokenRow'[a].state # "absent"
  BY <1>0 DEF TokenInv
<1>8. \A a \in captured' : tokenRow'[a].closure = "completed"
  BY <1>0 DEF TokenInv
<1> QED
  BY <1>4, <1>5, <1>6, <1>7, <1>8 DEF TokenInv

\* What the journal calls of a broker do: the row is moved as asked or left alone,
\* and the broker gives up, or goes on with a row that was moved.
Quits(b) == TRaise(b) \/ TGoto(b, "reread")
CallEffect(b, from, Row, next) ==
    /\ \/ UNCHANGED tokenRow /\ Quits(b)
       \/ /\ tokenRow[Acq(b)].state = from /\ tokenRow' = [tokenRow EXCEPT ![Acq(b)] = Row]
          /\ Quits(b) \/ TGoto(b, next)
    /\ tFaults' \in 0 .. MaxTokenFaults

LEMMA CallsOfSteps ==
    ASSUME TokenTypeOK, NEW b \in TokenBrokers
    PROVE  /\ RecordDoubt(b) => CallEffect(b, "prepared", UncertainRow(Acq(b)), "reread")
           /\ RecordRejection(b) =>
                CallEffect(b, "prepared", ClosedRow(Acq(b), "no-token"), "reread")
           /\ RecordToken(b) =>
                \/ CallEffect(b, "prepared", UncertainRow(Acq(b)), "reread")
                \/ /\ clock + tBroker[b].ttl <= tokenRow[Acq(b)].exposureEnd
                   /\ CallEffect(b, "prepared", IssuedRow(Acq(b), clock + tBroker[b].ttl), "use")
           /\ RereadAfterError(b) =>
                CallEffect(b, "prepared", ClosedRow(Acq(b), "no-token"), "reread")
<1>0. tFaults \in 0 .. MaxTokenFaults /\ MaxTokenFaults \in Nat
  BY DefenderPamConstants DEF TokenTypeOK
<1>f. TFault \/ UNCHANGED tFaults => tFaults' \in 0 .. MaxTokenFaults
  BY <1>0 DEF TFault
<1> USE <1>f DEF CallEffect, JournalCall, Moved, Quits
<1>1. RecordDoubt(b) => CallEffect(b, "prepared", UncertainRow(Acq(b)), "reread")
  BY DEF RecordDoubt
<1>2. RecordRejection(b) => CallEffect(b, "prepared", ClosedRow(Acq(b), "no-token"), "reread")
  BY DEF RecordRejection
<1>3. RecordToken(b) =>
        \/ CallEffect(b, "prepared", UncertainRow(Acq(b)), "reread")
        \/ /\ clock + tBroker[b].ttl <= tokenRow[Acq(b)].exposureEnd
           /\ CallEffect(b, "prepared", IssuedRow(Acq(b), clock + tBroker[b].ttl), "use")
  BY DEF RecordToken
<1>4. RereadAfterError(b) =>
        CallEffect(b, "prepared", ClosedRow(Acq(b), "no-token"), "reread")
  BY DEF RereadAfterError
<1> QED
  BY <1>1, <1>2, <1>3, <1>4

\* The rows that brokers and recovery write are rows, and none reopens or
\* shortens what the old one announced.
LEMMA RowsWritten ==
    ASSUME TokenTypeOK, NEW a \in Acquisitions, NEW ends \in Nat,
           NEW why \in {"completed", "failed", "no-token", "abandoned"}
    PROVE  /\ IssuedRow(a, ends) \in TokenRow /\ IssuedRow(a, ends).state = "issued"
           /\ IssuedRow(a, ends).exposureEnd = tokenRow[a].exposureEnd
           /\ IssuedRow(a, ends).created = tokenRow[a].created
           /\ IssuedRow(a, ends).expires = ends
           /\ IssuedRow(a, ends).closure = tokenRow[a].closure
           /\ ClosedRow(a, why) \in TokenRow /\ ClosedRow(a, why).state = "closed"
           /\ ClosedRow(a, why).exposureEnd = tokenRow[a].exposureEnd
           /\ ClosedRow(a, why).created = tokenRow[a].created
           /\ ClosedRow(a, why).expires = tokenRow[a].expires
           /\ ClosedRow(a, why).closure = why
           /\ UncertainRow(a) \in TokenRow /\ UncertainRow(a).state = "uncertain"
           /\ UncertainRow(a).exposureEnd = tokenRow[a].exposureEnd
           /\ UncertainRow(a).created = tokenRow[a].created
           /\ UncertainRow(a).expires = tokenRow[a].expires
           /\ UncertainRow(a).closure = "ambiguous"
<1>1. tokenRow[a] \in TokenRow
  BY DEF TokenTypeOK
<1> QED
  BY <1>1 DEF IssuedRow, ClosedRow, UncertainRow, TokenRow

\* A row that is closed or marked uncertain goes on to hold.
LEMMA ClosingHolds ==
    ASSUME TokenInv, NEW a \in Acquisitions, tokenRow[a].state # "absent",
           NEW why \in {"completed", "failed", "no-token", "abandoned"},
           why = "completed" => tokenRow[a].state = "issued"
    PROVE  RowHolds(ClosedRow(a, why), token[a]) /\ RowHolds(UncertainRow(a), token[a])
<1>1. RowHolds(tokenRow[a], token[a]) /\ TokenTypeOK /\ 0 \in Nat
  BY DEF TokenInv
<1> QED
  BY <1>1, RowsWritten DEF RowHolds

\* A journal call of a broker keeps the invariant.
LEMMA CallKeeps ==
    ASSUME TokenInv, NEW b \in TokenBrokers, tBroker[b].pc # "idle",
           NEW from \in {"prepared", "issued"}, NEW Row \in TokenRow,
           NEW next \in {"reread", "use"}, CallEffect(b, from, Row, next),
           tokenRow[Acq(b)].state = from => RowHolds(Row, token[Acq(b)]),
           Row.state # "absent", next = "use" => Row.expires # 0,
           captured' \subseteq captured \cup {Acq(b)},
           Acq(b) \in captured' /\ Acq(b) \notin captured =>
             tokenRow'[Acq(b)].closure = "completed",
           UNCHANGED <<token, travelling, clock>>
    PROVE  TokenInv'
<1>0. /\ TokenTypeOK /\ Acq(b) \in Acquisitions
      /\ \A c \in TokenBrokers : tBroker[c] \in TokenBrokerState
      /\ \A a \in Acquisitions : RowHolds(tokenRow[a], token[a])
      /\ tokenRow[Acq(b)].state # "absent"
  BY DEF TokenInv, TokenTypeOK, TokenBrokerState, Acq, BrokersHold, BrokerHolds
<1>1. IdleTokenBroker \in TokenBrokerState /\ IdleTokenBroker.pc = "idle"
  BY DefenderPamConstants DEF IdleTokenBroker, TokenBrokerState
<1>2. ASSUME NEW step \in {"reread", "use"}, TGoto(b, step)
      PROVE  /\ tBroker' \in [TokenBrokers -> TokenBrokerState]
             /\ \A c \in TokenBrokers \ {b} : tBroker'[c] = tBroker[c]
             /\ tBroker'[b].pc = step /\ tBroker'[b].acq = Acq(b)
  BY <1>0, <1>2 DEF TGoto, TokenTypeOK, TokenBrokerState, Acq
<1>3. ASSUME TRaise(b)
      PROVE  /\ tBroker' \in [TokenBrokers -> TokenBrokerState]
             /\ \A c \in TokenBrokers \ {b} : tBroker'[c] = tBroker[c]
             /\ tBroker'[b].pc = "idle"
  BY <1>0, <1>1, <1>3 DEF TRaise, TokenTypeOK
<1>4. /\ tBroker' \in [TokenBrokers -> TokenBrokerState]
      /\ \A c \in TokenBrokers \ {b} : tBroker'[c] = tBroker[c]
      /\ tBroker'[b].pc # "idle" => tBroker'[b].acq = Acq(b)
      /\ \/ tBroker'[b].pc \in {"idle", "reread"}
         \/ tBroker'[b].pc = "use" /\ next = "use" /\ tokenRow[Acq(b)].state = from
            /\ tokenRow' = [tokenRow EXCEPT ![Acq(b)] = Row]
  BY <1>2, <1>3 DEF CallEffect, Quits
<1>5. /\ tokenRow' \in [Acquisitions -> TokenRow]
      /\ \A a \in Acquisitions \ {Acq(b)} : tokenRow'[a] = tokenRow[a]
      /\ \/ tokenRow'[Acq(b)] = tokenRow[Acq(b)]
         \/ tokenRow'[Acq(b)] = Row /\ tokenRow[Acq(b)].state = from
  BY <1>0 DEF CallEffect, TokenTypeOK
<1>6. tFaults' \in 0 .. MaxTokenFaults
  BY DEF CallEffect
<1>7. TokenTypeOK'
  BY <1>0, <1>4, <1>5, <1>6 DEF TokenTypeOK
<1>8. RowHolds(tokenRow'[Acq(b)], token'[Acq(b)]) /\ tokenRow'[Acq(b)].state # "absent"
  BY <1>0, <1>5
<1>9. BrokerHolds(tBroker'[b], tokenRow'[Acq(b)], token'[Acq(b)], Acq(b) \in travelling', clock)
  <2>1. CASE tBroker'[b].pc \in {"idle", "reread"}
    BY <1>8, <2>1 DEF BrokerHolds
  <2>2. CASE tBroker'[b].pc = "use" /\ tokenRow'[Acq(b)] = Row /\ next = "use"
    BY <1>8, <2>2 DEF BrokerHolds
  <2>3. tokenRow' = [tokenRow EXCEPT ![Acq(b)] = Row] => tokenRow'[Acq(b)] = Row
    BY <1>0 DEF TokenTypeOK
  <2> QED
    BY <1>4, <2>1, <2>2, <2>3
<1>10. Acq(b) \in travelling' => token'[Acq(b)] = NoToken
  BY DEF TokenInv
<1>11. Acq(b) \in captured' => tokenRow'[Acq(b)].closure = "completed"
  <2>1. CASE Acq(b) \in captured
    <3>1. tokenRow[Acq(b)].closure = "completed"
      BY <2>1 DEF TokenInv
    <3>2. tokenRow[Acq(b)].state # from
      BY <1>0, <3>1 DEF RowHolds
    <3> QED
      BY <1>5, <3>1, <3>2
  <2> QED
    BY <2>1
<1> QED
  BY <1>4, <1>5, <1>7, <1>8, <1>9, <1>10, <1>11, BrokerStepKeeps

\* A step of a broker that leaves the journal alone.
LEMMA BrokerKeeps ==
    ASSUME TokenInv, NEW b \in TokenBrokers, tBroker[b].pc # "idle",
           NEW s \in TokenBrokerState, tBroker' = [tBroker EXCEPT ![b] = s],
           s.pc # "idle" => s.acq = Acq(b),
           NEW t \in [at : Nat, ends : Nat], token' = [token EXCEPT ![Acq(b)] = t],
           t # token[Acq(b)] => tokenRow[Acq(b)].expires = 0,
           travelling' \subseteq travelling \cup {Acq(b)},
           Acq(b) \in travelling' => t = NoToken,
           BrokerHolds(s, tokenRow[Acq(b)], t, Acq(b) \in travelling', clock),
           UNCHANGED <<tokenRow, captured, clock>>, tFaults' \in 0 .. MaxTokenFaults
    PROVE  TokenInv'
<1>0. /\ TokenTypeOK /\ Acq(b) \in Acquisitions
      /\ tokenRow[Acq(b)].state # "absent" /\ RowHolds(tokenRow[Acq(b)], token[Acq(b)])
  BY DEF TokenInv, TokenTypeOK, TokenBrokerState, Acq, BrokersHold, BrokerHolds
<1>1. /\ tBroker' \in [TokenBrokers -> TokenBrokerState] /\ tBroker'[b] = s
      /\ \A c \in TokenBrokers \ {b} : tBroker'[c] = tBroker[c]
  BY <1>0 DEF TokenTypeOK
<1>2. /\ token' \in [Acquisitions -> [at : Nat, ends : Nat]] /\ token'[Acq(b)] = t
      /\ \A a \in Acquisitions \ {Acq(b)} : token'[a] = token[a]
  BY <1>0 DEF TokenTypeOK
<1>3. TokenTypeOK'
  BY <1>0, <1>1, <1>2 DEF TokenTypeOK
<1>4. RowHolds(tokenRow[Acq(b)], t)
  BY <1>0 DEF RowHolds
<1>5. Acq(b) \in captured => tokenRow[Acq(b)].closure = "completed"
  BY DEF TokenInv
<1> QED
  BY <1>0, <1>1, <1>2, <1>3, <1>4, <1>5, BrokerStepKeeps

\* A request: the token it leads to, and what its broker and the wire know of it.
LEMMA RequestKeeps ==
    ASSUME TokenInv, NEW b \in TokenBrokers, RequestToken(b)
    PROVE  TokenInv'
<1>0. /\ TokenTypeOK /\ clock \in Nat /\ tFaults \in 0 .. MaxTokenFaults
      /\ MaxLifetime \in Nat /\ MinTtl \in Nat /\ MinTtl > 0 /\ MaxTtl \in Nat
      /\ tBroker[b] \in TokenBrokerState /\ Acq(b) \in Acquisitions
      /\ tBroker \in [TokenBrokers -> TokenBrokerState]
      /\ token \in [Acquisitions -> [at : Nat, ends : Nat]]
  BY DefenderPamConstants DEF TokenInv, TokenTypeOK, TokenBrokerState, Acq
<1>1. PICK next \in TransportOutcomes(b), ttl \in 0 .. MaxLifetime :
        /\ tBroker[b].pc = "request"
        /\ next = "record" => ttl \in MinTtl .. MaxTtl
        /\ ttl > 0 => next # "reject" /\ InTime(b)
        /\ token' = IF ttl > 0 THEN [token EXCEPT ![Acq(b)] = IssuedFor(ttl)] ELSE token
        /\ travelling' = IF ttl = 0 /\ next = "doubt" /\ InTime(b)
                         THEN travelling \cup {Acq(b)} ELSE travelling
        /\ tBroker' = [tBroker EXCEPT ![b].pc = next, ![b].ttl = ttl]
        /\ UNCHANGED <<tokenRow, captured, clock, tFaults>>
  BY DEF RequestToken
<1> DEFINE s == [tBroker[b] EXCEPT !.pc = next, !.ttl = ttl]
           t == IF ttl > 0 THEN IssuedFor(ttl) ELSE token[Acq(b)]
<1>2. next \in {"reject", "record", "doubt"} /\ ttl \in Nat
  BY <1>0 DEF TransportOutcomes
<1>3. s \in TokenBrokerState /\ s.pc = next /\ s.ttl = ttl /\ s.acq = Acq(b)
  BY <1>0, <1>2 DEF TokenBrokerState, Acq
<1>4. tBroker' = [tBroker EXCEPT ![b] = s]
  BY <1>0, <1>1
<1>5. /\ token[Acq(b)] = NoToken /\ tokenRow[Acq(b)].state # "absent"
      /\ Acq(b) \notin travelling
  BY <1>1 DEF TokenInv, BrokersHold, BrokerHolds
<1>6. tokenRow[Acq(b)].expires = 0
  BY <1>0, <1>5 DEF TokenInv, RowHolds, NoToken
<1>7. t \in [at : Nat, ends : Nat] /\ token' = [token EXCEPT ![Acq(b)] = t]
  <2>1. CASE ttl > 0
    <3>1. IssuedFor(ttl) \in [at : Nat, ends : Nat]
      BY <1>0, <1>2 DEF IssuedFor
    <3> QED
      BY <1>1, <2>1, <3>1
  <2>2. CASE ~(ttl > 0)
    <3>1. token' = token /\ t = token[Acq(b)]
      BY <1>1, <2>2
    <3> HIDE DEF t
    <3> QED
      BY <1>0, <3>1
  <2> QED
    BY <2>1, <2>2
<1>8. next = "record" => t.ends # 0 /\ t.ends <= clock + ttl
  BY <1>0, <1>1, <1>2 DEF IssuedFor
<1>9. Acq(b) \in travelling' => t = NoToken
  BY <1>1, <1>2, <1>5
<1>10. BrokerHolds(s, tokenRow[Acq(b)], t, Acq(b) \in travelling', clock)
  <2> HIDE DEF s, t
  <2> QED
    BY <1>2, <1>3, <1>5, <1>8 DEF BrokerHolds
<1>11. travelling' \subseteq travelling \cup {Acq(b)}
  BY <1>1
<1> HIDE DEF s, t
<1> QED
  BY <1>0, <1>1, <1>3, <1>4, <1>6, <1>7, <1>9, <1>10, <1>11, BrokerKeeps

LEMMA TokenKeepsInv == TokenInv /\ [TokenNext]_tokenVars => TokenInv'
<1> SUFFICES ASSUME TokenInv, [TokenNext]_tokenVars PROVE TokenInv'
  OBVIOUS
<1>0. /\ TokenTypeOK /\ clock \in Nat /\ tFaults \in 0 .. MaxTokenFaults
      /\ MaxTokenFaults \in Nat /\ MaxTtl \in Nat /\ Skew \in Nat /\ Timeout \in Nat
      /\ tBroker \in [TokenBrokers -> TokenBrokerState]
      /\ token \in [Acquisitions -> [at : Nat, ends : Nat]]
      /\ \A c \in TokenBrokers : tBroker[c] \in TokenBrokerState /\ Acq(c) \in Acquisitions
      /\ \A a \in Acquisitions : tokenRow[a] \in TokenRow /\ token[a] \in [at : Nat, ends : Nat]
  BY DefenderPamConstants DEF TokenInv, TokenTypeOK, TokenBrokerState, Acq
<1>i. IdleTokenBroker \in TokenBrokerState /\ IdleTokenBroker.pc = "idle"
  BY DefenderPamConstants DEF IdleTokenBroker, TokenBrokerState
<1>h. \A c \in TokenBrokers :
        BrokerHolds(tBroker[c], tokenRow[Acq(c)], token[Acq(c)], Acq(c) \in travelling, clock)
  BY DEF TokenInv, BrokersHold
<1>t. \A c \in TokenBrokers :
        /\ token = [token EXCEPT ![Acq(c)] = token[Acq(c)]]
        /\ Acq(c) \in travelling => token[Acq(c)] = NoToken
  BY <1>0 DEF TokenInv
<1>1. ASSUME NEW b \in TokenBrokers, BeginIssue(b) PROVE TokenInv'
  <2> DEFINE s == [tBroker[b] EXCEPT !.pc = "request", !.deadline = clock + Timeout]
  <2>1. /\ tBroker[b].pc = "issue"
        /\ tBroker' = [tBroker EXCEPT ![b].pc = "request", ![b].deadline = clock + Timeout]
        /\ UNCHANGED <<tokenRow, token, travelling, captured, clock, tFaults>>
    BY <1>1 DEF BeginIssue
  <2>2. s \in TokenBrokerState /\ s.pc = "request" /\ s.acq = Acq(b)
    <3>1. clock + Timeout \in Nat
      BY <1>0
    <3> QED
      BY <1>0, <3>1 DEF TokenBrokerState, Acq
  <2>3. tBroker' = [tBroker EXCEPT ![b] = s]
    BY <1>0, <2>1
  <2> HIDE DEF s
  <2>4. BrokerHolds(s, tokenRow[Acq(b)], token[Acq(b)], Acq(b) \in travelling, clock)
    BY <1>h, <2>1, <2>2 DEF BrokerHolds
  <2> QED
    BY <1>0, <1>t, <2>1, <2>2, <2>3, <2>4, BrokerKeeps
<1>2. ASSUME NEW b \in TokenBrokers, AssertionFails(b) PROVE TokenInv'
  <2> DEFINE s == [tBroker[b] EXCEPT !.pc = "reread"]
  <2>1. /\ tBroker[b].pc = "request" /\ tBroker' = [tBroker EXCEPT ![b] = s]
        /\ UNCHANGED <<tokenRow, token, travelling, captured, clock, tFaults>>
    BY <1>0, <1>2 DEF AssertionFails, TGoto
  <2>2. s \in TokenBrokerState /\ s.pc = "reread" /\ s.acq = Acq(b)
    BY <1>0 DEF TokenBrokerState, Acq
  <2> HIDE DEF s
  <2>3. BrokerHolds(s, tokenRow[Acq(b)], token[Acq(b)], Acq(b) \in travelling, clock)
    BY <1>h, <2>1, <2>2 DEF BrokerHolds
  <2> QED
    BY <1>0, <1>t, <2>1, <2>2, <2>3, BrokerKeeps
<1>3. ASSUME NEW b \in TokenBrokers, RecordDoubt(b) PROVE TokenInv'
  <2>1. CallEffect(b, "prepared", UncertainRow(Acq(b)), "reread")
    BY <1>0, <1>3, CallsOfSteps
  <2>2. tBroker[b].pc # "idle" /\ UNCHANGED <<token, travelling, captured, clock>>
    BY <1>3 DEF RecordDoubt
  <2>3. /\ UncertainRow(Acq(b)) \in TokenRow /\ UncertainRow(Acq(b)).state # "absent"
        /\ tokenRow[Acq(b)].state = "prepared" => RowHolds(UncertainRow(Acq(b)), token[Acq(b)])
    BY <1>0, RowsWritten, ClosingHolds
  <2> QED
    BY <2>1, <2>2, <2>3, CallKeeps
<1>4. ASSUME NEW b \in TokenBrokers, RecordRejection(b) \/ RereadAfterError(b) PROVE TokenInv'
  <2> DEFINE Row == ClosedRow(Acq(b), "no-token")
  <2>1. CallEffect(b, "prepared", Row, "reread")
    BY <1>0, <1>4, CallsOfSteps
  <2>2. tBroker[b].pc # "idle" /\ UNCHANGED <<token, travelling, captured, clock>>
    BY <1>4 DEF RecordRejection, RereadAfterError
  <2>3. /\ Row \in TokenRow /\ Row.state # "absent"
        /\ tokenRow[Acq(b)].state = "prepared" => RowHolds(Row, token[Acq(b)])
    BY <1>0, RowsWritten, ClosingHolds
  <2> QED
    BY <2>1, <2>2, <2>3, CallKeeps
<1>5. ASSUME NEW b \in TokenBrokers, RecordToken(b) PROVE TokenInv'
  <2> DEFINE ends == clock + tBroker[b].ttl
             Row == IssuedRow(Acq(b), ends)
  <2>1. \/ CallEffect(b, "prepared", UncertainRow(Acq(b)), "reread")
        \/ ends <= tokenRow[Acq(b)].exposureEnd /\ CallEffect(b, "prepared", Row, "use")
    BY <1>0, <1>5, CallsOfSteps
  <2>2. tBroker[b].pc = "record" /\ UNCHANGED <<token, travelling, captured, clock>>
    BY <1>5 DEF RecordToken
  <2>3. CASE CallEffect(b, "prepared", UncertainRow(Acq(b)), "reread")
    <3>1. /\ UncertainRow(Acq(b)) \in TokenRow /\ UncertainRow(Acq(b)).state # "absent"
          /\ tokenRow[Acq(b)].state = "prepared" =>
               RowHolds(UncertainRow(Acq(b)), token[Acq(b)])
      BY <1>0, RowsWritten, ClosingHolds
    <3> QED
      BY <2>2, <2>3, <3>1, CallKeeps
  <2>4. CASE ends <= tokenRow[Acq(b)].exposureEnd /\ CallEffect(b, "prepared", Row, "use")
    <3>1. token[Acq(b)].ends # 0 /\ token[Acq(b)].ends <= ends
      BY <1>h, <2>2 DEF BrokerHolds
    <3>2. ends \in Nat /\ token[Acq(b)].ends \in Nat
      BY <1>0 DEF TokenBrokerState
    <3>3. ends # 0
      BY <3>1, <3>2
    <3> HIDE DEF ends
    <3>4. /\ Row \in TokenRow /\ Row.state = "issued" /\ Row.expires = ends
          /\ Row.exposureEnd = tokenRow[Acq(b)].exposureEnd
          /\ Row.created = tokenRow[Acq(b)].created /\ Row.closure = tokenRow[Acq(b)].closure
      BY <1>0, <3>2, RowsWritten
    <3> HIDE DEF Row
    <3>5. RowHolds(tokenRow[Acq(b)], token[Acq(b)])
      BY <1>0 DEF TokenInv
    <3>6. tokenRow[Acq(b)].state = "prepared" => RowHolds(Row, token[Acq(b)])
      BY <2>4, <3>1, <3>3, <3>4, <3>5 DEF RowHolds
    <3> QED
      BY <2>2, <2>4, <3>3, <3>4, <3>6, CallKeeps
  <2> QED
    BY <2>1, <2>3, <2>4
<1>6. ASSUME NEW b \in TokenBrokers, UseToken(b) PROVE TokenInv'
  <2>1. PICK f \in BOOLEAN : tBroker' = [tBroker EXCEPT ![b].pc = "close", ![b].failed = f]
    BY <1>6 DEF UseToken
  <2> DEFINE s == [tBroker[b] EXCEPT !.pc = "close", !.failed = f]
  <2>2. /\ tBroker[b].pc = "use"
        /\ UNCHANGED <<tokenRow, token, travelling, captured, clock, tFaults>>
    BY <1>6 DEF UseToken
  <2>3. s \in TokenBrokerState /\ s.pc = "close" /\ s.acq = Acq(b)
    BY <1>0 DEF TokenBrokerState, Acq
  <2>4. tBroker' = [tBroker EXCEPT ![b] = s]
    BY <1>0, <2>1
  <2> HIDE DEF s
  <2>5. BrokerHolds(s, tokenRow[Acq(b)], token[Acq(b)], Acq(b) \in travelling, clock)
    BY <1>h, <2>2, <2>3 DEF BrokerHolds
  <2> QED
    BY <1>0, <1>t, <2>2, <2>3, <2>4, <2>5, BrokerKeeps
<1>7. ASSUME NEW b \in TokenBrokers, CloseToken(b) PROVE TokenInv'
  <2> DEFINE why == IF tBroker[b].failed THEN "failed" ELSE "completed"
             Row == ClosedRow(Acq(b), why)
  <2>1. tBroker[b].pc = "close" /\ UNCHANGED <<token, travelling, clock>> /\ TRaise(b)
    BY <1>7 DEF CloseToken, JournalCall
  <2>2. \/ UNCHANGED <<tokenRow, captured>>
        \/ tokenRow[Acq(b)].state = "issued" /\ tokenRow' = [tokenRow EXCEPT ![Acq(b)] = Row]
           /\ captured' \in {captured, CaptureResult(b)}
    BY <1>7 DEF CloseToken, JournalCall, Moved
  <2>3. tFaults' \in 0 .. MaxTokenFaults
    BY <1>0, <1>7 DEF CloseToken, JournalCall, TFault
  <2>4. why \in {"completed", "failed"}
    OBVIOUS
  <2>5. /\ Row \in TokenRow /\ Row.state = "closed" /\ Row.closure = why
        /\ tokenRow[Acq(b)].state = "issued" => RowHolds(Row, token[Acq(b)])
    BY <1>0, <2>4, RowsWritten, ClosingHolds
  <2>6. CallEffect(b, "issued", Row, "reread")
    BY <2>1, <2>2, <2>3 DEF CallEffect, Quits
  <2>7. captured' \subseteq captured \cup {Acq(b)}
    BY <2>2 DEF CaptureResult
  <2>8. Acq(b) \in captured' /\ Acq(b) \notin captured => tokenRow'[Acq(b)].closure = "completed"
    <3>1. SUFFICES ASSUME Acq(b) \in captured', Acq(b) \notin captured
                   PROVE  tokenRow'[Acq(b)].closure = "completed"
      OBVIOUS
    <3>2. why = "completed" /\ tokenRow' = [tokenRow EXCEPT ![Acq(b)] = Row]
      BY <2>2, <3>1 DEF CaptureResult, ReceiptHolds, Receipt
    <3> HIDE DEF why, Row
    <3> QED
      BY <1>0, <2>5, <3>2 DEF TokenTypeOK
  <2> HIDE DEF why, Row
  <2> QED
    BY <2>1, <2>5, <2>6, <2>7, <2>8, CallKeeps
<1>8. ASSUME NEW b \in TokenBrokers, TokenBrokerDies(b) PROVE TokenInv'
  <2>1. /\ tBroker[b].pc # "idle" /\ tBroker' = [tBroker EXCEPT ![b] = IdleTokenBroker]
        /\ UNCHANGED <<tokenRow, token, travelling, captured, clock>>
    BY <1>8 DEF TokenBrokerDies, TRaise
  <2>2. tFaults' \in 0 .. MaxTokenFaults
    BY <1>0, <1>8 DEF TokenBrokerDies, TFault
  <2>3. BrokerHolds(IdleTokenBroker, tokenRow[Acq(b)], token[Acq(b)],
                    Acq(b) \in travelling, clock)
    BY <1>i DEF BrokerHolds
  <2> QED
    BY <1>0, <1>i, <1>t, <2>1, <2>2, <2>3, BrokerKeeps
<1>9. ASSUME NEW b \in TokenBrokers, NEW a \in Acquisitions, PrepareToken(b, a) PROVE TokenInv'
  <2> DEFINE Row == [NoTokenRow EXCEPT !.state = "prepared", !.created = clock,
                                       !.exposureEnd = clock + MaxTtl + Skew]
             Start == [IdleTokenBroker EXCEPT !.pc = "issue", !.acq = a]
  <2>1. /\ tBroker[b].pc = "idle" /\ tokenRow[a] = NoTokenRow /\ tokenRow[a].state = "absent"
        /\ UNCHANGED <<token, travelling, captured, clock, tFaults>>
        /\ tokenRow' = [tokenRow EXCEPT ![a] = Row] /\ tBroker' = [tBroker EXCEPT ![b] = Start]
    BY <1>9 DEF PrepareToken, NoTokenRow
  <2>2. /\ Row \in TokenRow /\ Row.state = "prepared" /\ Row.closure = "none"
        /\ Row.created = clock /\ Row.exposureEnd = clock + MaxTtl + Skew /\ Row.expires = 0
    <3>1. clock + MaxTtl + Skew \in Nat
      BY <1>0
    <3> QED
      BY <1>0, <3>1 DEF NoTokenRow, TokenRow
  <2>3. Start \in TokenBrokerState /\ Start.pc = "issue" /\ Start.acq = a
    BY <1>i DEF TokenBrokerState
  <2> HIDE DEF Row, Start
  <2>4. /\ tokenRow' \in [Acquisitions -> TokenRow] /\ tokenRow'[a] = Row
        /\ \A d \in Acquisitions \ {a} : tokenRow'[d] = tokenRow[d]
        /\ tBroker' \in [TokenBrokers -> TokenBrokerState] /\ tBroker'[b] = Start
        /\ \A c \in TokenBrokers \ {b} : tBroker'[c] = tBroker[c] /\ Acq(c)' = Acq(c)
    BY <1>0, <2>1, <2>2, <2>3 DEF TokenTypeOK, Acq
  <2>5. TokenTypeOK'
    BY <1>0, <2>1, <2>4 DEF TokenTypeOK
  <2>6. Acq(b)' = a /\ \A c \in TokenBrokers : tBroker[c].pc # "idle" => Acq(c) # a
    BY <1>h, <2>1, <2>3, <2>4 DEF Acq, BrokerHolds
  <2>7. AcquisitionsAreOwned'
    BY <1>0, <2>4, <2>6 DEF TokenInv, AcquisitionsAreOwned
  <2>8. token[a] = NoToken /\ a \notin travelling
    BY <2>1 DEF TokenInv, RowHolds
  <2>9. \A d \in Acquisitions : RowHolds(tokenRow'[d], token'[d])
    <3>1. RowHolds(Row, token[a])
      BY <2>2 DEF RowHolds
    <3> QED
      BY <2>1, <2>4, <3>1 DEF TokenInv
  <2>10. BrokersHold'
    <3> SUFFICES ASSUME NEW c \in TokenBrokers
                 PROVE  BrokerHolds(tBroker'[c], tokenRow'[Acq(c)'], token'[Acq(c)'],
                                    Acq(c)' \in travelling', clock')
      BY DEF BrokersHold
    <3>1. CASE c = b
      BY <2>1, <2>2, <2>3, <2>4, <2>6, <2>8, <3>1 DEF BrokerHolds
    <3>2. CASE c # b /\ tBroker[c].pc = "idle"
      BY <2>4, <3>2 DEF BrokerHolds
    <3>3. CASE c # b /\ tBroker[c].pc # "idle"
      <4>1. /\ tBroker'[c] = tBroker[c] /\ Acq(c)' = Acq(c)
            /\ tokenRow'[Acq(c)] = tokenRow[Acq(c)]
        BY <1>0, <2>4, <2>6, <3>3
      <4> QED
        BY <1>h, <2>1, <4>1
    <3> QED
      BY <3>1, <3>2, <3>3
  <2>11. \A d \in travelling' : token'[d] = NoToken /\ tokenRow'[d].state # "absent"
    BY <1>0, <2>1, <2>4, <2>8 DEF TokenInv, TokenTypeOK
  <2>12. \A d \in captured' : tokenRow'[d].closure = "completed"
    <3>1. tokenRow[a].closure # "completed"
      BY <2>1 DEF NoTokenRow
    <3> QED
      BY <1>0, <2>1, <2>4, <3>1 DEF TokenInv, TokenTypeOK
  <2> QED
    BY <2>5, <2>7, <2>9, <2>10, <2>11, <2>12 DEF TokenInv
<1>10. ASSUME NEW a \in Acquisitions, RecoverToken(a) PROVE TokenInv'
  <2>1. UNCHANGED <<token, travelling, tBroker, captured, clock, tFaults>>
    BY <1>10 DEF RecoverToken
  <2>2. PICK Row \in TokenRow :
          /\ tokenRow' = [tokenRow EXCEPT ![a] = Row]
          /\ Row.expires = tokenRow[a].expires /\ Row.state # "absent"
          /\ tokenRow[a].state \in {"prepared", "issued"} /\ RowHolds(Row, token[a])
    BY <1>0, <1>10, RowsWritten, ClosingHolds DEF RecoverToken, Moved
  <2>3. /\ tokenRow' \in [Acquisitions -> TokenRow] /\ tokenRow'[a] = Row
        /\ \A d \in Acquisitions \ {a} : tokenRow'[d] = tokenRow[d]
    BY <1>0, <2>2 DEF TokenTypeOK
  <2>4. TokenTypeOK'
    BY <1>0, <2>1, <2>3 DEF TokenTypeOK
  <2>5. \A d \in Acquisitions :
          /\ tokenRow'[d].expires = tokenRow[d].expires
          /\ tokenRow[d].state # "absent" => tokenRow'[d].state # "absent"
    BY <2>2, <2>3
  <2>6. BrokersHold'
    BY <1>0, <1>h, <2>1, <2>5 DEF BrokersHold, BrokerHolds, Acq
  <2>7. a \notin captured
    BY <1>0, <2>2 DEF TokenInv, RowHolds
  <2>8. AcquisitionsAreOwned'
    BY <2>1 DEF TokenInv, AcquisitionsAreOwned, Acq
  <2>9. \A d \in Acquisitions : RowHolds(tokenRow'[d], token'[d])
    BY <2>1, <2>2, <2>3 DEF TokenInv
  <2>10. \A d \in travelling' : token'[d] = NoToken /\ tokenRow'[d].state # "absent"
    BY <1>0, <2>1, <2>5 DEF TokenInv, TokenTypeOK
  <2>11. \A d \in captured' : tokenRow'[d].closure = "completed"
    BY <1>0, <2>1, <2>3, <2>7 DEF TokenInv, TokenTypeOK
  <2> QED
    BY <2>4, <2>6, <2>8, <2>9, <2>10, <2>11 DEF TokenInv
<1>11. ASSUME NEW a \in Acquisitions, IssuedLate(a) PROVE TokenInv'
  <2>1. /\ a \in travelling /\ travelling' = travelling \ {a}
        /\ UNCHANGED <<tokenRow, tBroker, captured, clock, tFaults>>
    BY <1>11 DEF IssuedLate
  <2>2. PICK ttl \in 1 .. MaxLifetime : token' = [token EXCEPT ![a] = IssuedFor(ttl)]
    BY <1>11 DEF IssuedLate
  <2>3. IssuedFor(ttl) \in [at : Nat, ends : Nat]
    BY <1>0, <2>2, DefenderPamConstants DEF IssuedFor
  <2>4. /\ token' \in [Acquisitions -> [at : Nat, ends : Nat]]
        /\ \A d \in Acquisitions \ {a} : token'[d] = token[d]
    BY <1>0, <2>2, <2>3
  <2>5. TokenTypeOK'
    BY <1>0, <2>1, <2>4 DEF TokenTypeOK
  <2>6. /\ token[a] = NoToken /\ tokenRow[a].state # "absent"
        /\ RowHolds(tokenRow[a], token[a])
    BY <2>1 DEF TokenInv
  <2>7. RowHolds(tokenRow[a], token'[a])
    BY <2>6 DEF RowHolds, NoToken
  <2>8. \A d \in Acquisitions : RowHolds(tokenRow'[d], token'[d])
    BY <2>1, <2>4, <2>7 DEF TokenInv
  <2>9. BrokersHold'
    <3> SUFFICES ASSUME NEW c \in TokenBrokers
                 PROVE  BrokerHolds(tBroker'[c], tokenRow'[Acq(c)'], token'[Acq(c)'],
                                    Acq(c)' \in travelling', clock')
      BY DEF BrokersHold
    <3>1. Acq(c)' = Acq(c) /\ tBroker'[c] = tBroker[c]
      BY <2>1 DEF Acq
    <3>2. CASE Acq(c) = a
      <4>1. tBroker[c].pc \notin {"issue", "request", "record"}
        BY <1>h, <2>1, <2>6, <3>2 DEF BrokerHolds, NoToken
      <4> QED
        BY <1>h, <2>1, <3>1, <4>1 DEF BrokerHolds
    <3>3. CASE Acq(c) # a
      BY <1>0, <1>h, <2>1, <2>4, <3>1, <3>3 DEF BrokerHolds
    <3> QED
      BY <3>2, <3>3
  <2>10. AcquisitionsAreOwned'
    BY <2>1 DEF TokenInv, AcquisitionsAreOwned, Acq
  <2>11. \A d \in travelling' : token'[d] = NoToken /\ tokenRow'[d].state # "absent"
    BY <1>0, <2>1, <2>4 DEF TokenInv, TokenTypeOK
  <2>12. \A d \in captured' : tokenRow'[d].closure = "completed"
    BY <2>1 DEF TokenInv
  <2> QED
    BY <2>5, <2>8, <2>9, <2>10, <2>11, <2>12 DEF TokenInv
<1>12. CASE ClockTicks
  <2>1. /\ UNCHANGED <<tokenRow, token, travelling, tBroker, captured, tFaults>>
        /\ clock' \in 0 .. MaxTime /\ clock' = clock + 1
    BY <1>0, <1>12, DefenderPamConstants DEF ClockTicks, TokenTypeOK
  <2>2. BrokersHold'
    <3> SUFFICES ASSUME NEW c \in TokenBrokers
                 PROVE  BrokerHolds(tBroker[c], tokenRow[Acq(c)], token[Acq(c)],
                                    Acq(c) \in travelling, clock')
      BY <2>1 DEF BrokersHold, Acq
    <3>1. token[Acq(c)].ends \in Nat /\ tBroker[c].ttl \in Nat
      BY <1>0 DEF TokenBrokerState
    <3> QED
      BY <1>0, <1>h, <2>1, <3>1 DEF BrokerHolds
  <2> QED
    BY <2>1, <2>2 DEF TokenInv, TokenTypeOK, AcquisitionsAreOwned, Acq
<1>13. CASE UNCHANGED tokenVars
  BY <1>13 DEF tokenVars, TokenInv, TokenTypeOK, AcquisitionsAreOwned, BrokersHold, Acq
<1>14. ASSUME NEW b \in TokenBrokers, RequestToken(b) PROVE TokenInv'
  BY <1>14, RequestKeeps
<1> QED
  BY <1>1, <1>2, <1>3, <1>4, <1>5, <1>6, <1>7, <1>8, <1>9, <1>10, <1>11, <1>12, <1>13, <1>14
  DEF TokenNext, TokenStep

LEMMA TokenInvariance == TokenSpec => []TokenInv
  BY TokenInitially, TokenKeepsInv, PTL DEF TokenSpec

\* Whatever lifetime Entra gives a token and however late it serves a request, a
\* recorded expiry covers its token within the recorded exposure, no other token is
\* used, and only a token outside the policy, or issued later than the skew allows
\* for, outlives its exposure.  Nothing relates the timeout of brokers to the skew.
THEOREM TokensUsedAreCovered == TokenSpec => []ExposureIsCovered
  BY TokenInvariance, TokenInvariantImplies, PTL

\* Evidence is returned only for a capture whose token was issued and whose row this
\* capture closed, whatever recovery and dying brokers do to the row meanwhile.
THEOREM CapturesAreClosed == TokenSpec => []CaptureIsClosed
  BY TokenInvariance, TokenInvariantImplies, PTL

----------------------------------------------------------------------------
(* API keys of Elastic Security *)

\* The lease a broker works on, and whether its key may still be made or recorded.
LeaseOf(b) == broker[b].lease
Issuing(b) == broker[b].pc \in {"create", "activate"}

\* A key is made at most once: a lease has one broker that makes and records its
\* key, a request that still travels has no such broker any more, and a recorded
\* key exists.
KeysAreMadeOnce ==
    /\ \A b \in Brokers : Issuing(b) =>
         lease[LeaseOf(b)].state # "absent" /\ LeaseOf(b) \notin creating
    /\ \A b \in Brokers : broker[b].pc = "create" => ~lease[LeaseOf(b)].keyed
    /\ \A b \in Brokers : broker[b].pc = "activate" => key[LeaseOf(b)] # "none"
    /\ \A b, c \in Brokers : Issuing(b) /\ Issuing(c) /\ LeaseOf(b) = LeaseOf(c) => b = c
    /\ \A l \in creating : lease[l].state # "absent" /\ ~lease[l].keyed
    /\ \A l \in Leases : lease[l].keyed => lease[l].state # "absent" /\ key[l] # "none"

\* Whoever had its deletion answered and still sees the row it marked has a dead
\* key, if one is recorded: recording one would have changed the revision.
DeletionsAreConfirmed ==
    \A b \in Brokers :
        /\ broker[b].pc \in {"delete", "finish"} => broker[b].rev <= lease[LeaseOf(b)].revision
        /\ /\ broker[b].pc = "finish" /\ broker[b].rev = lease[LeaseOf(b)].revision
           /\ lease[LeaseOf(b)].keyed
           => key[LeaseOf(b)] = "dead"

\* A capture that did not fail has recorded its key.
GoodCapturesAreKeyed ==
    \A b \in Brokers :
        /\ broker[b].pc = "recover" => broker[b].recovery
        /\ /\ broker[b].pc \in {"use", "settle", "revoke", "delete", "finish"}
           /\ ~broker[b].failed /\ ~broker[b].recovery
           => lease[LeaseOf(b)].keyed

\* The inductive invariant.
ElasticInv ==
    KeysAreMadeOnce /\ DeletionsAreConfirmed /\ GoodCapturesAreKeyed /\ RevokedMeansDead

\* The elements of the state have the types that ElasticTypeOK gives them.
LEMMA ElasticTypes ==
    ASSUME ElasticTypeOK
    PROVE  /\ \A l \in Leases : lease[l] \in LeaseRow
           /\ \A b \in Brokers : broker[b] \in BrokerState /\ LeaseOf(b) \in Leases
           /\ IdleBroker \in BrokerState /\ IdleBroker.pc = "idle" /\ ~IdleBroker.recovery
           /\ eFaults \in Nat /\ MaxFaults \in Nat /\ (EFault => eFaults' \in 0 .. MaxFaults)
<1>1. \A b \in Brokers : broker[b] \in BrokerState /\ LeaseOf(b) \in Leases
  BY DEF ElasticTypeOK, BrokerState, LeaseOf
<1>2. IdleBroker \in BrokerState /\ IdleBroker.pc = "idle" /\ ~IdleBroker.recovery
  BY ElasticPamConstants DEF IdleBroker, BrokerState
<1>3. eFaults \in Nat /\ MaxFaults \in Nat /\ (EFault => eFaults' \in 0 .. MaxFaults)
  BY ElasticPamConstants DEF ElasticTypeOK, EFault
<1> QED
  BY <1>1, <1>2, <1>3 DEF ElasticTypeOK

LEMMA ElasticInitially == ElasticInit => ElasticInv
<1> SUFFICES ASSUME ElasticInit PROVE ElasticInv
  OBVIOUS
<1> USE ElasticPamConstants DEF ElasticInit
<1>1. IdleBroker \in BrokerState /\ IdleBroker.pc = "idle"
  BY DEF IdleBroker, BrokerState
<1>2. NoLease \in LeaseRow
  BY DEF NoLease, LeaseRow, LeaseStates
<1>3. ElasticTypeOK
  BY <1>1, <1>2 DEF ElasticTypeOK
<1> QED
  BY <1>1, <1>3
  DEF ElasticInv, KeysAreMadeOnce, DeletionsAreConfirmed, GoodCapturesAreKeyed,
      RevokedMeansDead, NoLease, LeaseOf, Issuing

\* How a broker goes on, after a success or a failure.
LEMMA BrokerGoesOn ==
    ASSUME ElasticTypeOK, NEW b \in Brokers,
           NEW step \in {"activate", "use", "settle", "finish", "recover"},
           Goto(b, step) \/ FailTo(b, step)
    PROVE  /\ broker' \in [Brokers -> BrokerState]
           /\ \A c \in Brokers \ {b} : broker'[c] = broker[c]
           /\ broker'[b].pc = step /\ broker'[b].lease = broker[b].lease
           /\ broker'[b].rev = broker[b].rev /\ broker'[b].recovery = broker[b].recovery
           /\ broker'[b].failed \/ broker'[b].failed = broker[b].failed
           /\ FailTo(b, step) => broker'[b].failed
<1> DEFINE going(s) == [s EXCEPT !.pc = step]
           failing(s) == [s EXCEPT !.pc = step, !.failed = TRUE]
<1>1. broker[b] \in BrokerState
  BY ElasticTypes
<1>2. \A s \in BrokerState :
        /\ going(s) \in BrokerState /\ going(s).pc = step /\ going(s).lease = s.lease
        /\ going(s).rev = s.rev /\ going(s).failed = s.failed
        /\ going(s).recovery = s.recovery
  BY DEF BrokerState
<1>3. \A s \in BrokerState :
        /\ failing(s) \in BrokerState /\ failing(s).pc = step /\ failing(s).lease = s.lease
        /\ failing(s).rev = s.rev /\ failing(s).failed = TRUE
        /\ failing(s).recovery = s.recovery
  BY DEF BrokerState
<1>4. Goto(b, step) => broker' = [broker EXCEPT ![b] = going(broker[b])]
  BY <1>1 DEF Goto, ElasticTypeOK
<1>5. FailTo(b, step) => broker' = [broker EXCEPT ![b] = failing(broker[b])]
  BY <1>1 DEF FailTo, ElasticTypeOK
<1> HIDE DEF going, failing
<1>6. CASE FailTo(b, step)
  BY <1>1, <1>3, <1>5, <1>6 DEF ElasticTypeOK
<1>7. CASE Goto(b, step) /\ ~FailTo(b, step)
  BY <1>1, <1>2, <1>4, <1>7 DEF ElasticTypeOK
<1> QED
  BY <1>6, <1>7

\* How a broker gives up or dies.
LEMMA BrokerRaises ==
    ASSUME ElasticTypeOK, NEW b \in Brokers, Raise(b)
    PROVE  /\ broker' \in [Brokers -> BrokerState]
           /\ \A c \in Brokers \ {b} : broker'[c] = broker[c]
           /\ broker'[b].pc = "idle"
  BY ElasticTypes DEF Raise, ElasticTypeOK

\* A capture or a recovery goes on soundly: it no longer issues, has marked no row
\* it does not know of, has a dead key where it expects one, and carries evidence
\* only of a recorded key.
GoesOnSoundly(b) ==
    LET l == broker'[b].lease IN
    /\ broker'[b].pc \notin {"create", "activate"}
    /\ broker'[b].pc \in {"delete", "finish"} => broker'[b].rev <= lease'[l].revision
    /\ broker'[b].pc = "finish" /\ broker'[b].rev = lease'[l].revision /\ lease'[l].keyed
         => key'[l] = "dead"
    /\ broker'[b].pc = "recover" => broker'[b].recovery
    /\ /\ broker'[b].pc \in {"use", "settle", "revoke", "delete", "finish"}
       /\ ~broker'[b].failed /\ ~broker'[b].recovery
       => lease'[l].keyed

\* A row is written once more by its broker: it does not leave the absent or the
\* revoked state, records the key of a broker that made one, and is revoked only
\* when a recorded key is dead.
RowIsWritten(b, l) ==
    /\ lease[l].state \notin {"absent", "revoked"} /\ lease'[l].state # "absent"
    /\ lease'[l].revision = lease[l].revision + 1
    /\ \/ lease'[l].keyed = lease[l].keyed
       \/ /\ lease'[l].keyed /\ key[l] # "none"
          /\ b \in Brokers /\ Issuing(b) /\ LeaseOf(b) = l
    /\ lease'[l].state = "revoked" /\ lease'[l].keyed => key'[l] = "dead"

\* All steps but the preparation of a lease and the creation of a key.
LEMMA ElasticStepKeeps ==
    ASSUME ElasticInv, ElasticTypeOK', NEW b,
           \A c \in Brokers : broker'[c] = broker[c] \/ (c = b /\ GoesOnSoundly(b)),
           \A l \in Leases : key'[l] = key[l] \/ (key[l] = "live" /\ key'[l] = "dead"),
           \A l \in Leases : lease'[l] = lease[l] \/ (RowIsWritten(b, l) /\ GoesOnSoundly(b)),
           \/ creating' = creating
           \/ /\ creating' = creating \cup {LeaseOf(b)} /\ lease' = lease
              /\ b \in Brokers /\ broker[b].pc = "create" /\ GoesOnSoundly(b),
           \A l \in evidence' \ evidence : lease'[l].state = "revoked" /\ lease'[l].keyed
    PROVE  ElasticInv'
<1>0. /\ ElasticTypeOK
      /\ \A l \in Leases : lease[l] \in LeaseRow /\ lease'[l] \in LeaseRow
      /\ \A c \in Brokers : LeaseOf(c) \in Leases /\ broker[c] \in BrokerState
      /\ \A c \in Brokers : LeaseOf(c)' \in Leases /\ broker'[c] \in BrokerState
  BY DEF ElasticInv, RevokedMeansDead, ElasticTypeOK, BrokerState, LeaseOf
<1>1. \A c \in Brokers : c # b \/ ~GoesOnSoundly(b) =>
        broker'[c] = broker[c] /\ LeaseOf(c)' = LeaseOf(c)
  BY DEF LeaseOf
<1>2. \A c \in Brokers : Issuing(c)' =>
        /\ Issuing(c) /\ LeaseOf(c)' = LeaseOf(c) /\ broker'[c] = broker[c]
  BY <1>1 DEF Issuing, GoesOnSoundly
<1>3. \A l \in Leases :
        /\ lease[l].state # "absent" => lease'[l].state # "absent"
        /\ lease[l].keyed => lease'[l].keyed
        /\ lease'[l].revision >= lease[l].revision
        /\ lease'[l].keyed /\ ~lease[l].keyed =>
             /\ lease'[l].revision > lease[l].revision /\ key[l] # "none"
             /\ b \in Brokers /\ Issuing(b) /\ LeaseOf(b) = l
  BY <1>0 DEF RowIsWritten, LeaseRow
<1>4. KeysAreMadeOnce'
  <2> USE DEF ElasticInv, KeysAreMadeOnce
  <2>1. \A c \in Brokers : Issuing(c)' =>
          lease'[LeaseOf(c)'].state # "absent" /\ LeaseOf(c)' \notin creating'
    BY <1>0, <1>2, <1>3 DEF GoesOnSoundly, Issuing
  <2>2. \A c \in Brokers : broker'[c].pc = "create" => ~lease'[LeaseOf(c)'].keyed
    BY <1>0, <1>2, <1>3 DEF GoesOnSoundly, Issuing
  <2>3. \A c \in Brokers : broker'[c].pc = "activate" => key'[LeaseOf(c)'] # "none"
    BY <1>0, <1>2 DEF Issuing
  <2>4. \A c, d \in Brokers : Issuing(c)' /\ Issuing(d)' /\ LeaseOf(c)' = LeaseOf(d)' => c = d
    BY <1>2
  <2>5. \A l \in creating' : lease'[l].state # "absent" /\ ~lease'[l].keyed
    BY <1>0, <1>3 DEF Issuing, ElasticTypeOK
  <2>6. \A l \in Leases : lease'[l].keyed => lease'[l].state # "absent" /\ key'[l] # "none"
    BY <1>0, <1>3
  <2> QED
    BY <2>1, <2>2, <2>3, <2>4, <2>5, <2>6
<1>5. DeletionsAreConfirmed'
  <2>1. ASSUME NEW c \in Brokers, broker'[c] = broker[c]
        PROVE  /\ broker'[c].pc \in {"delete", "finish"} =>
                    broker'[c].rev <= lease'[LeaseOf(c)'].revision
               /\ /\ broker'[c].pc = "finish" /\ broker'[c].rev = lease'[LeaseOf(c)'].revision
                  /\ lease'[LeaseOf(c)'].keyed
                  => key'[LeaseOf(c)'] = "dead"
    <3>1. LeaseOf(c)' = LeaseOf(c)
      BY <2>1 DEF LeaseOf
    <3> QED
      BY <1>0, <1>3, <2>1, <3>1 DEF ElasticInv, DeletionsAreConfirmed, LeaseRow, BrokerState
  <2> QED
    BY <2>1 DEF DeletionsAreConfirmed, GoesOnSoundly, LeaseOf
<1>6. GoodCapturesAreKeyed'
  <2>1. ASSUME NEW c \in Brokers, broker'[c] = broker[c]
        PROVE  /\ broker'[c].pc = "recover" => broker'[c].recovery
               /\ /\ broker'[c].pc \in {"use", "settle", "revoke", "delete", "finish"}
                  /\ ~broker'[c].failed /\ ~broker'[c].recovery
                  => lease'[LeaseOf(c)'].keyed
    <3>1. LeaseOf(c)' = LeaseOf(c)
      BY <2>1 DEF LeaseOf
    <3> QED
      BY <1>0, <1>3, <2>1, <3>1 DEF ElasticInv, GoodCapturesAreKeyed
  <2> QED
    BY <2>1 DEF GoodCapturesAreKeyed, GoesOnSoundly, LeaseOf
<1>7. RevokedMeansDead'
  <2>1. ASSUME NEW l \in Leases, lease'[l].state = "revoked", lease'[l].keyed
        PROVE  key'[l] = "dead"
    BY <2>1 DEF ElasticInv, RevokedMeansDead, RowIsWritten
  <2>2. ASSUME NEW l \in evidence' PROVE lease'[l].state = "revoked" /\ lease'[l].keyed
    BY <1>0, <2>2 DEF ElasticInv, RevokedMeansDead, RowIsWritten, ElasticTypeOK
  <2> QED
    BY <2>1, <2>2 DEF RevokedMeansDead
<1> QED
  BY <1>4, <1>5, <1>6, <1>7 DEF ElasticInv

\* The rows that activation and the two halves of revocation write.
LEMMA LeasesWritten ==
    ASSUME ElasticTypeOK, NEW l \in Leases, NEW state \in {"revoke-pending", "revoked"}
    PROVE  /\ Written(l, state) \in LeaseRow /\ Written(l, state).state = state
           /\ Written(l, state).revision = lease[l].revision + 1
           /\ Written(l, state).keyed = lease[l].keyed
           /\ ActiveLease(l) \in LeaseRow /\ ActiveLease(l).state = "active"
           /\ ActiveLease(l).revision = lease[l].revision + 1 /\ ActiveLease(l).keyed
<1>1. lease[l] \in LeaseRow
  BY ElasticTypes
<1>2. ASSUME NEW st \in {"active", "revoke-pending", "revoked"}
      PROVE  /\ Written(l, st) \in LeaseRow /\ Written(l, st).state = st
             /\ Written(l, st).revision = lease[l].revision + 1
             /\ Written(l, st).keyed = lease[l].keyed
  <2> DEFINE next == lease[l].revision + 1
  <2>2. next \in Nat
    BY <1>1 DEF LeaseRow
  <2>3. Written(l, st) = [lease[l] EXCEPT !.state = st, !.revision = next]
    BY <1>1 DEF LeaseRow, Written
  <2> HIDE DEF next
  <2>4. /\ Written(l, st) \in LeaseRow /\ Written(l, st).state = st
        /\ Written(l, st).revision = next /\ Written(l, st).keyed = lease[l].keyed
    BY <1>1, <2>2, <2>3 DEF LeaseRow, LeaseStates
  <2> QED
    BY <2>4 DEF next
<1>3. \A r \in LeaseRow :
        LET w == [r EXCEPT !.keyed = TRUE] IN
        /\ w \in LeaseRow /\ w.state = r.state /\ w.revision = r.revision /\ w.keyed
  BY DEF LeaseRow
<1>4. /\ Written(l, "active") \in LeaseRow /\ Written(l, "active").state = "active"
      /\ Written(l, "active").revision = lease[l].revision + 1
  BY <1>2
<1>5. /\ ActiveLease(l) \in LeaseRow /\ ActiveLease(l).state = "active"
      /\ ActiveLease(l).revision = lease[l].revision + 1 /\ ActiveLease(l).keyed
  BY <1>3, <1>4 DEF ActiveLease
<1>6. /\ Written(l, state) \in LeaseRow /\ Written(l, state).state = state
      /\ Written(l, state).revision = lease[l].revision + 1
      /\ Written(l, state).keyed = lease[l].keyed
  BY <1>2
<1> QED
  BY <1>5, <1>6

\* Steps of a broker that leave leases, keys and requests alone.
LEMMA OnlyBrokerMoves ==
    ASSUME ElasticInv, NEW b \in Brokers, broker' \in [Brokers -> BrokerState],
           \A c \in Brokers \ {b} : broker'[c] = broker[c],
           broker'[b].pc \in {"idle", "use", "settle", "revoke", "recover"},
           broker'[b].pc = "recover" => broker'[b].recovery,
           broker'[b].pc \in {"use", "settle", "revoke"}
             /\ ~broker'[b].failed /\ ~broker'[b].recovery => lease[broker'[b].lease].keyed,
           UNCHANGED <<lease, key, creating, expired, evidence>>, eFaults' \in 0 .. MaxFaults
    PROVE  ElasticInv'
<1>1. ElasticTypeOK'
  BY DEF ElasticInv, RevokedMeansDead, ElasticTypeOK
<1>2. GoesOnSoundly(b)
  BY DEF GoesOnSoundly
<1>3. \A c \in Brokers : broker'[c] = broker[c] \/ (c = b /\ GoesOnSoundly(b))
  BY <1>2
<1>4. \A l \in Leases : lease'[l] = lease[l] /\ key'[l] = key[l]
  OBVIOUS
<1>5. creating' = creating
  OBVIOUS
<1>6. evidence' \ evidence = {}
  OBVIOUS
<1>7. \A l \in Leases : key'[l] = key[l] \/ (key[l] = "live" /\ key'[l] = "dead")
  BY <1>4
<1>8. \A l \in Leases : lease'[l] = lease[l] \/ (RowIsWritten(b, l) /\ GoesOnSoundly(b))
  BY <1>4
<1>9. \A l \in evidence' \ evidence : lease'[l].state = "revoked" /\ lease'[l].keyed
  BY <1>6
<1> QED
  BY <1>1, <1>3, <1>5, <1>7, <1>8, <1>9, ElasticStepKeeps

\* A lease is prepared for one broker, which will ask for its key.
LEMMA PrepareKeeps ==
    ASSUME ElasticInv, NEW b \in Brokers, NEW l \in Leases, PrepareLease(b, l)
    PROVE  ElasticInv'
<1> DEFINE Start == [IdleBroker EXCEPT !.pc = "create", !.lease = l]
<1>0. /\ ElasticTypeOK /\ \A m \in Leases : lease[m] \in LeaseRow
      /\ \A c \in Brokers : broker[c] \in BrokerState /\ LeaseOf(c) \in Leases
      /\ IdleBroker \in BrokerState
  BY ElasticTypes DEF ElasticInv, RevokedMeansDead
<1>1. /\ broker[b].pc = "idle" /\ lease[l].state = "absent" /\ ~lease[l].keyed
      /\ lease[l].revision = 0
      /\ lease' = [lease EXCEPT ![l] = PreparedLease] /\ broker' = [broker EXCEPT ![b] = Start]
      /\ UNCHANGED <<key, creating, expired, evidence, eFaults>>
  BY DEF PrepareLease, NoLease
<1>2. /\ PreparedLease \in LeaseRow /\ PreparedLease.state = "prepared"
      /\ ~PreparedLease.keyed /\ PreparedLease.revision = 0
  <2>1. NoLease \in LeaseRow /\ ~NoLease.keyed /\ NoLease.revision = 0
    BY DEF NoLease, LeaseRow, LeaseStates
  <2>2. \A r \in LeaseRow :
          LET w == [r EXCEPT !.state = "prepared"] IN
          /\ w \in LeaseRow /\ w.state = "prepared" /\ w.keyed = r.keyed
          /\ w.revision = r.revision
    BY DEF LeaseRow, LeaseStates
  <2> QED
    BY <2>1, <2>2 DEF PreparedLease
<1>3. Start \in BrokerState /\ Start.pc = "create" /\ Start.lease = l
  <2>1. \A s \in BrokerState :
          LET t == [s EXCEPT !.pc = "create", !.lease = l] IN
          t \in BrokerState /\ t.pc = "create" /\ t.lease = l
    BY DEF BrokerState
  <2> QED
    BY <1>0, <2>1
<1> HIDE DEF Start
<1>4. /\ lease' \in [Leases -> LeaseRow] /\ lease'[l] = PreparedLease
      /\ \A m \in Leases \ {l} : lease'[m] = lease[m]
      /\ broker' \in [Brokers -> BrokerState] /\ broker'[b] = Start
      /\ \A c \in Brokers \ {b} : broker'[c] = broker[c]
  BY <1>0, <1>1, <1>2, <1>3 DEF ElasticTypeOK
<1>5. ElasticTypeOK'
  BY <1>0, <1>1, <1>4 DEF ElasticTypeOK
<1>6. LeaseOf(b)' = l /\ \A c \in Brokers \ {b} : LeaseOf(c)' = LeaseOf(c)
  BY <1>3, <1>4 DEF LeaseOf
<1>7. \A c \in Brokers : Issuing(c) => LeaseOf(c) # l
  BY <1>1 DEF ElasticInv, KeysAreMadeOnce
<1>8. l \notin creating /\ l \notin evidence
  BY <1>1 DEF ElasticInv, KeysAreMadeOnce, RevokedMeansDead
<1>9. KeysAreMadeOnce'
  <2>1. \A c \in Brokers \ {b} : Issuing(c)' => Issuing(c) /\ LeaseOf(c)' # l
    BY <1>4, <1>6, <1>7 DEF Issuing
  <2>2. \A c \in Brokers : Issuing(c)' =>
          lease'[LeaseOf(c)'].state # "absent" /\ LeaseOf(c)' \notin creating'
    BY <1>0, <1>1, <1>2, <1>4, <1>6, <1>8, <2>1 DEF ElasticInv, KeysAreMadeOnce
  <2>3. \A c \in Brokers : broker'[c].pc = "create" => ~lease'[LeaseOf(c)'].keyed
    BY <1>0, <1>2, <1>4, <1>6 DEF ElasticInv, KeysAreMadeOnce
  <2>4. \A c \in Brokers : broker'[c].pc = "activate" => key'[LeaseOf(c)'] # "none"
    BY <1>1, <1>3, <1>4, <1>6 DEF ElasticInv, KeysAreMadeOnce
  <2>5. \A c, d \in Brokers : Issuing(c)' /\ Issuing(d)' /\ LeaseOf(c)' = LeaseOf(d)' => c = d
    BY <1>6, <2>1 DEF ElasticInv, KeysAreMadeOnce
  <2>6. \A m \in creating' : lease'[m].state # "absent" /\ ~lease'[m].keyed
    BY <1>0, <1>1, <1>4, <1>8 DEF ElasticInv, KeysAreMadeOnce, ElasticTypeOK
  <2>7. \A m \in Leases : lease'[m].keyed => lease'[m].state # "absent" /\ key'[m] # "none"
    BY <1>1, <1>2, <1>4 DEF ElasticInv, KeysAreMadeOnce
  <2> QED
    BY <2>2, <2>3, <2>4, <2>5, <2>6, <2>7 DEF KeysAreMadeOnce
<1>10. DeletionsAreConfirmed'
  BY <1>0, <1>1, <1>2, <1>3, <1>4, <1>6 DEF ElasticInv, DeletionsAreConfirmed
<1>11. GoodCapturesAreKeyed'
  BY <1>0, <1>1, <1>2, <1>3, <1>4, <1>6 DEF ElasticInv, GoodCapturesAreKeyed
<1>12. RevokedMeansDead'
  BY <1>0, <1>1, <1>2, <1>4, <1>5, <1>8 DEF ElasticInv, RevokedMeansDead, ElasticTypeOK
<1> QED
  BY <1>9, <1>10, <1>11, <1>12 DEF ElasticInv

\* A key appears for a lease that recorded none, made by the one broker or the one
\* request that may make it.
LEMMA KeyIsMade ==
    ASSUME ElasticInv, ElasticTypeOK', NEW l \in Leases, ~lease[l].keyed,
           key' = [key EXCEPT ![l] = "live"],
           \A c \in Brokers : \/ broker'[c] = broker[c]
                              \/ /\ broker[c].pc = "create" /\ LeaseOf(c) = l
                                 /\ broker'[c].pc = "activate" /\ LeaseOf(c)' = l,
           creating' \subseteq creating, UNCHANGED <<lease, evidence>>
    PROVE  ElasticInv'
<1>0. /\ ElasticTypeOK /\ \A c \in Brokers : LeaseOf(c) \in Leases
      /\ \A c \in Brokers : LeaseOf(c)' = LeaseOf(c)
      /\ \A c \in Brokers : Issuing(c)' => Issuing(c)
      /\ key'[l] = "live" /\ \A m \in Leases \ {l} : key'[m] = key[m]
  BY ElasticTypes DEF ElasticInv, RevokedMeansDead, ElasticTypeOK, LeaseOf, Issuing
<1>1. KeysAreMadeOnce'
  BY <1>0 DEF ElasticInv, KeysAreMadeOnce
<1>2. DeletionsAreConfirmed'
  BY <1>0 DEF ElasticInv, DeletionsAreConfirmed
<1>3. GoodCapturesAreKeyed'
  BY <1>0 DEF ElasticInv, GoodCapturesAreKeyed
<1>4. RevokedMeansDead'
  BY <1>0 DEF ElasticInv, RevokedMeansDead
<1> QED
  BY <1>1, <1>2, <1>3, <1>4 DEF ElasticInv

LEMMA CreateKeyKeeps == ASSUME ElasticInv, NEW b \in Brokers, CreateKey(b) PROVE ElasticInv'
<1> DEFINE l == broker[b].lease
<1>0. /\ ElasticTypeOK /\ broker[b] \in BrokerState /\ LeaseOf(b) \in Leases /\ l = LeaseOf(b)
  BY ElasticTypes DEF ElasticInv, RevokedMeansDead, LeaseOf
<1>1. broker[b].pc = "create" /\ UNCHANGED <<lease, expired, evidence>>
  BY DEF CreateKey
<1>2. CASE /\ key' = [key EXCEPT ![l] = "live"] /\ Goto(b, "activate")
           /\ UNCHANGED <<creating, eFaults>>
  <2>1. /\ broker' \in [Brokers -> BrokerState] /\ broker'[b].pc = "activate"
        /\ \A c \in Brokers \ {b} : broker'[c] = broker[c]
        /\ LeaseOf(b)' = LeaseOf(b)
    BY <1>0, <1>2, BrokerGoesOn DEF LeaseOf
  <2>2. ElasticTypeOK'
    BY <1>0, <1>1, <1>2, <2>1 DEF ElasticTypeOK
  <2>3. ~lease[l].keyed
    BY <1>0, <1>1 DEF ElasticInv, KeysAreMadeOnce
  <2> QED
    BY <1>0, <1>1, <1>2, <2>1, <2>2, <2>3, KeyIsMade
<1>3. CASE FailTo(b, "settle") /\ UNCHANGED <<key, creating, eFaults>>
  <2>1. /\ broker' \in [Brokers -> BrokerState] /\ broker'[b].pc = "settle"
        /\ broker'[b].failed /\ \A c \in Brokers \ {b} : broker'[c] = broker[c]
    BY <1>0, <1>3, BrokerGoesOn
  <2>2. eFaults' \in 0 .. MaxFaults
    BY <1>0, <1>3 DEF ElasticTypeOK
  <2> QED
    BY <1>1, <1>3, <2>1, <2>2, OnlyBrokerMoves
<1>4. CASE creating' = creating \cup {l} /\ FailTo(b, "settle") /\ EFault /\ UNCHANGED key
  <2>1. /\ broker' \in [Brokers -> BrokerState] /\ broker'[b].pc = "settle"
        /\ broker'[b].failed /\ \A c \in Brokers \ {b} : broker'[c] = broker[c]
    BY <1>0, <1>4, BrokerGoesOn
  <2>2. eFaults' \in 0 .. MaxFaults
    BY <1>0, <1>4, ElasticTypes
  <2>3. ElasticTypeOK'
    BY <1>0, <1>1, <1>4, <2>1, <2>2 DEF ElasticTypeOK
  <2>4. GoesOnSoundly(b)
    BY <2>1 DEF GoesOnSoundly
  <2> QED
    BY <1>0, <1>1, <1>4, <2>1, <2>3, <2>4, ElasticStepKeeps
<1> QED
  BY <1>2, <1>3, <1>4 DEF CreateKey

\* A step of a broker that writes the row of its lease and leaves the key alone.
LEMMA BrokerWrites ==
    ASSUME ElasticInv, NEW b \in Brokers, NEW Row \in LeaseRow,
           lease' = [lease EXCEPT ![LeaseOf(b)] = Row],
           broker' \in [Brokers -> BrokerState],
           \A c \in Brokers \ {b} : broker'[c] = broker[c],
           GoesOnSoundly(b), RowIsWritten(b, LeaseOf(b)),
           evidence' \in {evidence, evidence \cup {LeaseOf(b)}},
           evidence' # evidence => Row.state = "revoked" /\ Row.keyed,
           UNCHANGED <<key, creating, expired>>, eFaults' \in 0 .. MaxFaults
    PROVE  ElasticInv'
<1>0. ElasticTypeOK /\ LeaseOf(b) \in Leases
  BY ElasticTypes DEF ElasticInv, RevokedMeansDead
<1>1. /\ lease' \in [Leases -> LeaseRow] /\ lease'[LeaseOf(b)] = Row
      /\ \A l \in Leases \ {LeaseOf(b)} : lease'[l] = lease[l]
  BY <1>0 DEF ElasticTypeOK
<1>2. ElasticTypeOK'
  BY <1>0, <1>1 DEF ElasticTypeOK
<1>3. \A l \in Leases : lease'[l] = lease[l] \/ (RowIsWritten(b, l) /\ GoesOnSoundly(b))
  BY <1>1
<1>4. \A l \in evidence' \ evidence : lease'[l].state = "revoked" /\ lease'[l].keyed
  BY <1>1
<1>5. creating' = creating /\ \A l \in Leases : key'[l] = key[l]
  OBVIOUS
<1>6. \A c \in Brokers : broker'[c] = broker[c] \/ (c = b /\ GoesOnSoundly(b))
  OBVIOUS
<1> QED
  BY <1>2, <1>3, <1>4, <1>5, <1>6, ElasticStepKeeps

LEMMA ActivateKeeps == ASSUME ElasticInv, NEW b \in Brokers, ActivateLease(b) PROVE ElasticInv'
<1> DEFINE l == broker[b].lease
           Allowed == lease[l].state = "prepared" /\ SameRevision(b) /\ l \notin expired
<1>0. /\ ElasticTypeOK /\ broker[b] \in BrokerState /\ LeaseOf(b) \in Leases /\ l = LeaseOf(b)
      /\ lease[l] \in LeaseRow
  BY ElasticTypes DEF ElasticInv, RevokedMeansDead, LeaseOf
<1>1. broker[b].pc = "activate" /\ UNCHANGED <<key, creating, expired, evidence>>
  BY DEF ActivateLease
<1>2. Issuing(b) /\ key[l] # "none"
  BY <1>0, <1>1 DEF ElasticInv, KeysAreMadeOnce, Issuing
<1>f. eFaults' \in 0 .. MaxFaults
  <2>1. UNCHANGED eFaults \/ EFault
    BY DEF ActivateLease
  <2> QED
    BY <1>0, <2>1, ElasticTypes DEF ElasticTypeOK
<1>3. CASE Allowed /\ lease' = [lease EXCEPT ![l] = ActiveLease(l)]
           /\ (Goto(b, "use") \/ FailTo(b, "settle"))
  <2>1. /\ ActiveLease(l) \in LeaseRow /\ ActiveLease(l).state = "active"
        /\ ActiveLease(l).revision = lease[l].revision + 1 /\ ActiveLease(l).keyed
    BY <1>0, LeasesWritten
  <2>2. lease'[l] = ActiveLease(l)
    BY <1>0, <1>3 DEF ElasticTypeOK
  <2>3. /\ broker' \in [Brokers -> BrokerState]
        /\ \A c \in Brokers \ {b} : broker'[c] = broker[c]
        /\ broker'[b].pc \in {"use", "settle"} /\ broker'[b].lease = l
    BY <1>0, <1>3, BrokerGoesOn
  <2>4. GoesOnSoundly(b)
    BY <2>1, <2>2, <2>3 DEF GoesOnSoundly
  <2>5. RowIsWritten(b, LeaseOf(b))
    BY <1>0, <1>2, <1>3, <2>1, <2>2 DEF RowIsWritten
  <2> QED
    BY <1>0, <1>1, <1>3, <1>f, <2>1, <2>3, <2>4, <2>5, BrokerWrites
<1>4. CASE FailTo(b, "settle") /\ UNCHANGED lease
  <2>1. /\ broker' \in [Brokers -> BrokerState]
        /\ \A c \in Brokers \ {b} : broker'[c] = broker[c]
        /\ broker'[b].pc = "settle" /\ broker'[b].failed
    BY <1>0, <1>4, BrokerGoesOn
  <2> QED
    BY <1>1, <1>4, <1>f, <2>1, OnlyBrokerMoves
<1> QED
  BY <1>3, <1>4 DEF ActivateLease

LEMMA BeginRevocationKeeps ==
    ASSUME ElasticInv, NEW b \in Brokers, BeginRevocation(b) PROVE ElasticInv'
<1> DEFINE l == broker[b].lease
           Allowed == l \in Unsettled /\ SameRevision(b)
<1>0. /\ ElasticTypeOK /\ broker[b] \in BrokerState /\ LeaseOf(b) \in Leases /\ l = LeaseOf(b)
      /\ lease[l] \in LeaseRow
  BY ElasticTypes DEF ElasticInv, RevokedMeansDead, LeaseOf
<1>1. broker[b].pc = "revoke" /\ UNCHANGED <<key, creating, expired, evidence>>
  BY DEF BeginRevocation
<1>f. eFaults' \in 0 .. MaxFaults
  <2>1. UNCHANGED eFaults \/ EFault
    BY DEF BeginRevocation
  <2> QED
    BY <1>0, <2>1, ElasticTypes DEF ElasticTypeOK
<1>2. CASE Raise(b) /\ UNCHANGED lease
  <2>1. /\ broker' \in [Brokers -> BrokerState] /\ broker'[b].pc = "idle"
        /\ \A c \in Brokers \ {b} : broker'[c] = broker[c]
    BY <1>0, <1>2, BrokerRaises
  <2> QED
    BY <1>1, <1>2, <1>f, <2>1, OnlyBrokerMoves
<1>3. CASE /\ Allowed /\ lease' = [lease EXCEPT ![l] = RevocationBegun(l)]
           /\ \/ broker' = [broker EXCEPT ![b].pc = "delete", ![b].rev = @ + 1]
              \/ Raise(b)
  <2>1. /\ RevocationBegun(l) \in LeaseRow /\ RevocationBegun(l).state = "revoke-pending"
        /\ RevocationBegun(l).revision = lease[l].revision + 1
        /\ RevocationBegun(l).keyed = lease[l].keyed
    BY <1>0, LeasesWritten DEF RevocationBegun
  <2>2. lease'[l] = RevocationBegun(l)
    BY <1>0, <1>3 DEF ElasticTypeOK
  <2>3. /\ broker' \in [Brokers -> BrokerState]
        /\ \A c \in Brokers \ {b} : broker'[c] = broker[c]
        /\ \/ broker'[b].pc = "idle"
           \/ /\ broker'[b].pc = "delete" /\ broker'[b].lease = l
              /\ broker'[b].rev = broker[b].rev + 1
              /\ broker'[b].failed = broker[b].failed
              /\ broker'[b].recovery = broker[b].recovery
    <3>1. CASE Raise(b)
      BY <1>0, <3>1, BrokerRaises
    <3>2. CASE broker' = [broker EXCEPT ![b].pc = "delete", ![b].rev = @ + 1]
      <4> DEFINE next == broker[b].rev + 1
      <4>1. next \in Nat /\ broker' = [broker EXCEPT ![b].pc = "delete", ![b].rev = next]
        BY <1>0, <3>2 DEF BrokerState, ElasticTypeOK
      <4> HIDE DEF next
      <4>2. /\ broker' \in [Brokers -> BrokerState]
            /\ \A c \in Brokers \ {b} : broker'[c] = broker[c]
            /\ broker'[b].pc = "delete" /\ broker'[b].lease = l /\ broker'[b].rev = next
            /\ broker'[b].failed = broker[b].failed
            /\ broker'[b].recovery = broker[b].recovery
        BY <1>0, <4>1 DEF BrokerState, ElasticTypeOK
      <4> QED
        BY <4>2 DEF next
    <3> QED
      BY <1>3, <3>1, <3>2
  <2>4. lease[l].revision = broker[b].rev /\ lease[l].state \notin {"absent", "revoked"}
    BY <1>3 DEF SameRevision, Unsettled
  <2>5. GoesOnSoundly(b)
    <3>1. ~broker[b].failed /\ ~broker[b].recovery => lease[l].keyed
      BY <1>1 DEF ElasticInv, GoodCapturesAreKeyed, LeaseOf
    <3> QED
      BY <1>0, <2>1, <2>2, <2>3, <2>4, <3>1 DEF GoesOnSoundly, LeaseRow, BrokerState
  <2>6. RowIsWritten(b, LeaseOf(b))
    BY <1>0, <2>1, <2>2, <2>4 DEF RowIsWritten
  <2> QED
    BY <1>0, <1>1, <1>3, <1>f, <2>1, <2>3, <2>5, <2>6, BrokerWrites
<1> QED
  BY <1>2, <1>3 DEF BeginRevocation

LEMMA DeleteKeeps == ASSUME ElasticInv, NEW b \in Brokers, DeleteKey(b) PROVE ElasticInv'
<1> DEFINE l == broker[b].lease
           Invalidated == [key EXCEPT ![l] = IF @ = "live" THEN "dead" ELSE @]
<1>0. /\ ElasticTypeOK /\ broker[b] \in BrokerState /\ LeaseOf(b) \in Leases /\ l = LeaseOf(b)
      /\ lease[l] \in LeaseRow
  BY ElasticTypes DEF ElasticInv, RevokedMeansDead, LeaseOf
<1>1. broker[b].pc = "delete" /\ UNCHANGED <<lease, creating, expired, evidence>>
  BY DEF DeleteKey
<1>2. /\ Invalidated \in [Leases -> {"none", "live", "dead"}]
      /\ key[l] # "none" => Invalidated[l] = "dead"
      /\ \A m \in Leases :
           Invalidated[m] = key[m] \/ (key[m] = "live" /\ Invalidated[m] = "dead")
  BY <1>0 DEF ElasticTypeOK
<1> HIDE DEF Invalidated
<1>3. key' \in {key, Invalidated} /\ (Raise(b) \/ (key' = Invalidated /\ Goto(b, "finish")))
  BY DEF DeleteKey, Invalidated
<1>4. eFaults' \in 0 .. MaxFaults
  <2>1. UNCHANGED eFaults \/ EFault
    BY DEF DeleteKey
  <2> QED
    BY <1>0, <2>1, ElasticTypes DEF ElasticTypeOK
<1>5. /\ broker' \in [Brokers -> BrokerState]
      /\ \A c \in Brokers \ {b} : broker'[c] = broker[c]
      /\ GoesOnSoundly(b)
  <2>1. CASE Raise(b)
    BY <1>0, <2>1, BrokerRaises DEF GoesOnSoundly
  <2>2. CASE key' = Invalidated /\ Goto(b, "finish")
    <3>1. /\ broker' \in [Brokers -> BrokerState]
          /\ \A c \in Brokers \ {b} : broker'[c] = broker[c]
          /\ broker'[b].pc = "finish" /\ broker'[b].lease = l
          /\ broker'[b].rev = broker[b].rev /\ broker'[b].recovery = broker[b].recovery
          /\ broker'[b].failed \/ broker'[b].failed = broker[b].failed
      BY <1>0, <2>2, BrokerGoesOn
    <3>2. /\ broker[b].rev <= lease[l].revision
          /\ ~broker[b].failed /\ ~broker[b].recovery => lease[l].keyed
      BY <1>1 DEF ElasticInv, DeletionsAreConfirmed, GoodCapturesAreKeyed, LeaseOf
    <3>3. lease[l].keyed => key'[l] = "dead"
      BY <1>0, <1>2, <2>2 DEF ElasticInv, KeysAreMadeOnce
    <3> QED
      BY <1>1, <3>1, <3>2, <3>3 DEF GoesOnSoundly
  <2> QED
    BY <1>3, <2>1, <2>2
<1>6. ElasticTypeOK'
  BY <1>0, <1>1, <1>2, <1>3, <1>4, <1>5 DEF ElasticTypeOK
<1>7. \A m \in Leases : key'[m] = key[m] \/ (key[m] = "live" /\ key'[m] = "dead")
  BY <1>2, <1>3
<1> QED
  BY <1>1, <1>5, <1>6, <1>7, ElasticStepKeeps

LEMMA FinishKeeps == ASSUME ElasticInv, NEW b \in Brokers, FinishRevocation(b) PROVE ElasticInv'
<1> DEFINE l == broker[b].lease
           Allowed == lease[l].state = "revoke-pending" /\ SameRevision(b)
<1>0. /\ ElasticTypeOK /\ broker[b] \in BrokerState /\ LeaseOf(b) \in Leases /\ l = LeaseOf(b)
      /\ lease[l] \in LeaseRow
  BY ElasticTypes DEF ElasticInv, RevokedMeansDead, LeaseOf
<1>1. broker[b].pc = "finish" /\ UNCHANGED <<key, creating, expired>>
  BY DEF FinishRevocation
<1>f. eFaults' \in 0 .. MaxFaults
  <2>1. UNCHANGED eFaults \/ EFault
    BY DEF FinishRevocation
  <2> QED
    BY <1>0, <2>1, ElasticTypes DEF ElasticTypeOK
<1>2. CASE Raise(b) /\ UNCHANGED <<lease, evidence>>
  <2>1. /\ broker' \in [Brokers -> BrokerState] /\ broker'[b].pc = "idle"
        /\ \A c \in Brokers \ {b} : broker'[c] = broker[c]
    BY <1>0, <1>2, BrokerRaises
  <2> QED
    BY <1>1, <1>2, <1>f, <2>1, OnlyBrokerMoves
<1>3. CASE /\ Allowed /\ lease' = [lease EXCEPT ![l] = RevokedLease(l)]
           /\ Raise(b) \/ (broker[b].recovery /\ Goto(b, "recover"))
           /\ evidence' \in {evidence, IF ReceiptVerifies(b) THEN evidence \cup {l} ELSE evidence}
  <2>1. /\ RevokedLease(l) \in LeaseRow /\ RevokedLease(l).state = "revoked"
        /\ RevokedLease(l).revision = lease[l].revision + 1
        /\ RevokedLease(l).keyed = lease[l].keyed
    BY <1>0, LeasesWritten DEF RevokedLease
  <2>2. lease'[l] = RevokedLease(l)
    BY <1>0, <1>3 DEF ElasticTypeOK
  <2>3. /\ broker' \in [Brokers -> BrokerState]
        /\ \A c \in Brokers \ {b} : broker'[c] = broker[c]
        /\ GoesOnSoundly(b)
    <3>1. CASE Raise(b)
      BY <1>0, <3>1, BrokerRaises DEF GoesOnSoundly
    <3>2. CASE broker[b].recovery /\ Goto(b, "recover")
      BY <1>0, <3>2, BrokerGoesOn DEF GoesOnSoundly
    <3> QED
      BY <1>3, <3>1, <3>2
  <2>4. lease[l].keyed => key[l] = "dead"
    BY <1>0, <1>1, <1>3 DEF SameRevision, ElasticInv, DeletionsAreConfirmed
  <2>5. RowIsWritten(b, LeaseOf(b))
    BY <1>0, <1>1, <1>3, <2>1, <2>2, <2>4 DEF RowIsWritten
  <2>6. ReceiptVerifies(b) => lease[l].keyed
    BY <1>0, <1>1 DEF ReceiptVerifies, ElasticInv, GoodCapturesAreKeyed
  <2>7. /\ evidence' \in {evidence, evidence \cup {LeaseOf(b)}}
        /\ evidence' # evidence => RevokedLease(l).state = "revoked" /\ RevokedLease(l).keyed
    BY <1>0, <1>3, <2>1, <2>6
  <2> QED
    BY <1>0, <1>1, <1>3, <1>f, <2>1, <2>3, <2>5, <2>7, BrokerWrites
<1>4. FinishRevocation(b) =>
        \/ Raise(b) /\ UNCHANGED <<lease, evidence>>
        \/ /\ Allowed /\ lease' = [lease EXCEPT ![l] = RevokedLease(l)]
           /\ Raise(b) \/ (broker[b].recovery /\ Goto(b, "recover"))
           /\ evidence' \in {evidence, IF ReceiptVerifies(b) THEN evidence \cup {l} ELSE evidence}
  BY <1>0 DEF FinishRevocation
<1> QED
  BY <1>2, <1>3, <1>4

LEMMA ElasticKeepsInv == ElasticInv /\ [ElasticNext]_elasticVars => ElasticInv'
<1> SUFFICES ASSUME ElasticInv, [ElasticNext]_elasticVars PROVE ElasticInv'
  OBVIOUS
<1>0. /\ ElasticTypeOK /\ eFaults \in 0 .. MaxFaults
      /\ \A b \in Brokers : broker[b] \in BrokerState /\ LeaseOf(b) \in Leases
      /\ \A l \in Leases : lease[l] \in LeaseRow
  BY ElasticTypes DEF ElasticInv, RevokedMeansDead, ElasticTypeOK
<1>1. ASSUME NEW b \in Brokers, UseKey(b) PROVE ElasticInv'
  <2>1. /\ broker[b].pc = "use" /\ UNCHANGED <<lease, key, creating, expired, evidence, eFaults>>
        /\ Goto(b, "settle") \/ FailTo(b, "settle")
    BY <1>1 DEF UseKey
  <2>2. /\ broker' \in [Brokers -> BrokerState] /\ broker'[b].pc = "settle"
        /\ \A c \in Brokers \ {b} : broker'[c] = broker[c]
        /\ broker'[b].lease = broker[b].lease /\ broker'[b].recovery = broker[b].recovery
        /\ broker'[b].failed \/ broker'[b].failed = broker[b].failed
    BY <1>0, <2>1, BrokerGoesOn
  <2>3. ~broker[b].failed /\ ~broker[b].recovery => lease[broker[b].lease].keyed
    BY <2>1 DEF ElasticInv, GoodCapturesAreKeyed, LeaseOf
  <2> QED
    BY <1>0, <2>1, <2>2, <2>3, OnlyBrokerMoves
<1>2. ASSUME NEW b \in Brokers, ReadLatest(b) PROVE ElasticInv'
  <2>1. broker[b].pc = "settle" /\ UNCHANGED <<lease, key, creating, expired, evidence>>
    BY <1>2 DEF ReadLatest
  <2>2. CASE Raise(b) /\ EFault
    BY <1>0, <2>1, <2>2, BrokerRaises, ElasticTypes, OnlyBrokerMoves
  <2>3. CASE /\ broker' = [broker EXCEPT ![b].pc = "revoke",
                                         ![b].rev = lease[broker[b].lease].revision]
             /\ UNCHANGED eFaults
    <3>1. lease[broker[b].lease].revision \in Nat
      BY <1>0 DEF LeaseRow, LeaseOf
    <3>2. /\ broker' \in [Brokers -> BrokerState] /\ broker'[b].pc = "revoke"
          /\ \A c \in Brokers \ {b} : broker'[c] = broker[c]
          /\ broker'[b].lease = broker[b].lease /\ broker'[b].recovery = broker[b].recovery
          /\ broker'[b].failed = broker[b].failed
      <4> DEFINE row == [broker[b] EXCEPT !.pc = "revoke",
                                          !.rev = lease[broker[b].lease].revision]
      <4>1. broker \in [Brokers -> BrokerState]
        BY <1>0 DEF ElasticTypeOK
      <4>2. /\ row \in BrokerState /\ row.pc = "revoke" /\ row.lease = broker[b].lease
            /\ row.recovery = broker[b].recovery /\ row.failed = broker[b].failed
        BY <3>1, <4>1 DEF BrokerState
      <4>3. broker' = [broker EXCEPT ![b] = row]
        BY <2>3, <4>1
      <4> HIDE DEF row
      <4> QED
        BY <4>1, <4>2, <4>3
    <3>3. ~broker[b].failed /\ ~broker[b].recovery => lease[broker[b].lease].keyed
      BY <2>1 DEF ElasticInv, GoodCapturesAreKeyed, LeaseOf
    <3> QED
      BY <1>0, <2>1, <2>3, <3>2, <3>3, OnlyBrokerMoves
  <2> QED
    BY <1>2, <2>2, <2>3 DEF ReadLatest
<1>3. ASSUME NEW b \in Brokers, SelectUnsettled(b) PROVE ElasticInv'
  <2> DEFINE todo == {Selected(l) : l \in Unsettled}
  <2>1. /\ UNCHANGED <<lease, key, creating, expired, evidence, eFaults>>
        /\ broker' = [broker EXCEPT ![b] =
             [IdleBroker EXCEPT !.pc = "recover", !.recovery = TRUE, !.todo = todo]]
    BY <1>3 DEF SelectUnsettled
  <2>2. todo \subseteq [lease : Leases, revision : Nat, state : LeaseStates]
    <3>1. SUFFICES ASSUME NEW l \in Unsettled
                   PROVE  Selected(l) \in [lease : Leases, revision : Nat, state : LeaseStates]
      OBVIOUS
    <3>2. lease[l].revision \in Nat /\ l \in Leases
      BY <1>0 DEF Unsettled, LeaseRow
    <3>3. lease[l].state \in LeaseStates
      BY <3>2, <1>0 DEF LeaseRow
    <3> QED
      BY <3>2, <3>3 DEF Selected
  <2> HIDE DEF todo
  <2>3. \A s \in BrokerState :
          LET t == [s EXCEPT !.pc = "recover", !.recovery = TRUE, !.todo = todo] IN
          t \in BrokerState /\ t.pc = "recover" /\ t.recovery
    BY <2>2 DEF BrokerState
  <2>4. IdleBroker \in BrokerState
    BY <1>0, ElasticTypes
  <2>5. /\ broker' \in [Brokers -> BrokerState] /\ broker'[b].pc = "recover"
        /\ broker'[b].recovery /\ \A c \in Brokers \ {b} : broker'[c] = broker[c]
    BY <1>0, <2>1, <2>3, <2>4 DEF ElasticTypeOK
  <2> QED
    BY <1>0, <2>1, <2>5, OnlyBrokerMoves
<1>4. ASSUME NEW b \in Brokers, RecoverNext(b) PROVE ElasticInv'
  <2>1. broker[b].pc = "recover" /\ UNCHANGED <<lease, key, creating, expired, evidence, eFaults>>
    BY <1>4 DEF RecoverNext
  <2>2. CASE Raise(b)
    BY <1>0, <2>1, <2>2, BrokerRaises, OnlyBrokerMoves
  <2>3. ASSUME NEW r \in broker[b].todo,
               broker' = [broker EXCEPT ![b].pc = "revoke", ![b].lease = r.lease,
                            ![b].rev = IF r.state = "revoke-pending"
                                       THEN lease[r.lease].revision ELSE r.revision,
                            ![b].todo = @ \ {r}]
        PROVE  ElasticInv'
    <3> DEFINE n == IF r.state = "revoke-pending" THEN lease[r.lease].revision ELSE r.revision
               rest == broker[b].todo \ {r}
    <3>1. r \in [lease : Leases, revision : Nat, state : LeaseStates]
      BY <1>0, <2>3 DEF BrokerState
    <3>2. n \in Nat /\ r.lease \in Leases
      BY <1>0, <3>1 DEF LeaseRow
    <3>3. rest \subseteq [lease : Leases, revision : Nat, state : LeaseStates]
      BY <1>0 DEF BrokerState
    <3>4. broker' = [broker EXCEPT ![b] = [broker[b] EXCEPT !.pc = "revoke", !.lease = r.lease,
                                                            !.rev = n, !.todo = rest]]
      BY <1>0, <2>3 DEF BrokerState, ElasticTypeOK
    <3> HIDE DEF n, rest
    <3>5. \A s \in BrokerState :
            LET t == [s EXCEPT !.pc = "revoke", !.lease = r.lease, !.rev = n, !.todo = rest] IN
            t \in BrokerState /\ t.pc = "revoke" /\ t.recovery = s.recovery
      BY <3>2, <3>3 DEF BrokerState
    <3>6. /\ broker' \in [Brokers -> BrokerState] /\ broker'[b].pc = "revoke"
          /\ broker'[b].recovery = broker[b].recovery
          /\ \A c \in Brokers \ {b} : broker'[c] = broker[c]
      BY <1>0, <3>4, <3>5 DEF ElasticTypeOK
    <3>7. broker[b].recovery
      BY <2>1 DEF ElasticInv, GoodCapturesAreKeyed
    <3> QED
      BY <1>0, <2>1, <3>6, <3>7, OnlyBrokerMoves
  <2> QED
    BY <1>4, <2>2, <2>3 DEF RecoverNext
<1>5. ASSUME NEW b \in Brokers, BrokerDies(b) PROVE ElasticInv'
  BY <1>0, <1>5, BrokerRaises, ElasticTypes, OnlyBrokerMoves DEF BrokerDies
<1>6. ASSUME NEW l \in Leases, LateCreate(l) PROVE ElasticInv'
  <2>1. /\ l \in creating /\ creating' \subseteq creating /\ key' = [key EXCEPT ![l] = "live"]
        /\ UNCHANGED <<lease, expired, broker, evidence, eFaults>>
    BY <1>6 DEF LateCreate
  <2>2. ElasticTypeOK'
    BY <1>0, <2>1 DEF ElasticTypeOK
  <2>3. ~lease[l].keyed
    BY <2>1 DEF ElasticInv, KeysAreMadeOnce
  <2> QED
    BY <2>1, <2>2, <2>3, KeyIsMade
<1>7. ASSUME NEW l \in Leases, KeyExpires(l) PROVE ElasticInv'
  <2>1. /\ key[l] = "live" /\ key' = [key EXCEPT ![l] = "dead"]
        /\ expired' = expired \cup {l}
        /\ UNCHANGED <<lease, creating, broker, evidence, eFaults>>
    BY <1>7 DEF KeyExpires
  <2>2. ElasticTypeOK'
    BY <1>0, <2>1 DEF ElasticTypeOK
  <2>3. \A m \in Leases : key'[m] = key[m] \/ (key[m] = "live" /\ key'[m] = "dead")
    BY <1>0, <2>1 DEF ElasticTypeOK
  <2> QED
    BY <2>1, <2>2, <2>3, ElasticStepKeeps
<1>8. CASE UNCHANGED elasticVars
  BY <1>8
  DEF elasticVars, ElasticInv, KeysAreMadeOnce, DeletionsAreConfirmed, GoodCapturesAreKeyed,
      RevokedMeansDead, ElasticTypeOK, LeaseOf, Issuing
<1> QED
  BY <1>1, <1>2, <1>3, <1>4, <1>5, <1>6, <1>7, <1>8, PrepareKeeps, CreateKeyKeeps,
     ActivateKeeps, BeginRevocationKeeps, DeleteKeeps, FinishKeeps
  DEF ElasticNext, BrokerStep

\* A revoked lease that recorded its key has no live key, and evidence leaves a
\* capture only for such a lease, however captures, recoveries, late requests and
\* failures interleave.
THEOREM RevokedKeysAreDead == ElasticSpec => []RevokedMeansDead
<1>1. ElasticInv => RevokedMeansDead
  BY DEF ElasticInv
<1> QED
  BY <1>1, ElasticInitially, ElasticKeepsInv, PTL DEF ElasticSpec

----------------------------------------------------------------------------
(* Sign-in *)

\* The callbacks past the consumption of their login.
Consumed == {"exchange", "session", "ended"}

CallbackRow ==
    [pc : {"idle", "failed"} \cup Consumed, login : Logins, at : Nat, auth : Nat, exp : Nat]

SessionRow ==
    [state : {"none", "live", "revoked", "removed"}, login : Logins, issued : Nat,
     expires : Nat, auth : Nat, used : Int]

\* The rows the two theorems read.
LoginTypes ==
    /\ DOMAIN admission = Logins
    /\ begin \in [Logins -> {"idle", "protect", "finalize", "cancel", "redirected", "failed"}]
    /\ callback \in [Callbacks -> CallbackRow]
    /\ session \in [Callbacks -> SessionRow]
    /\ instant \in Nat

\* A consumed transaction does not come back: its login was redirected, which
\* happens once, and no longer has a ready admission.
ConsumedIsGone ==
    \A c \in Callbacks : callback[c].pc \in Consumed =>
        /\ begin[callback[c].login] = "redirected"
        /\ admission[callback[c].login].phase # "ready"

\* A token is kept, and a session counted, from an authentication recent at the
\* start of the callback.
AuthenticationIsRecent ==
    /\ \A c \in Callbacks : callback[c].pc = "session" =>
         callback[c].at - callback[c].auth <= MaxAuthAge + TokenSkew
    /\ \A c \in Callbacks : session[c].state # "none" =>
         /\ session[c].issued - session[c].auth <= MaxAuthAge + TokenSkew
         /\ session[c].expires <= session[c].issued + SessionTtl

\* The inductive invariant.
LoginInv ==
    /\ LoginTypes
    /\ ConsumedIsGone /\ OneSessionPerLogin
    /\ AuthenticationIsRecent /\ AuthenticationAgeIsBounded

LEMMA LoginInitially == LoginInit => LoginInv
<1> SUFFICES ASSUME LoginInit PROVE LoginInv
  OBVIOUS
<1>1. NoCallback \in CallbackRow /\ NoCallback.pc = "idle"
  BY OidcLoginConstants DEF NoCallback, CallbackRow, Consumed
<1>2. NoSession \in SessionRow /\ NoSession.state = "none" /\ NoSession.used = -1
  BY OidcLoginConstants DEF NoSession, SessionRow
<1>3. LoginTypes
  BY <1>1, <1>2 DEF LoginInit, LoginTypes
<1> QED
  BY <1>1, <1>2, <1>3
  DEF LoginInit, LoginInv, ConsumedIsGone, OneSessionPerLogin, AuthenticationIsRecent,
      AuthenticationAgeIsBounded, Consumed

\* Steps of begin: a ready admission appears only where begin has not redirected
\* yet, and a redirected login stays so.
LEMMA BeginKeeps ==
    ASSUME LoginInv, UNCHANGED <<callback, session, instant>>,
           DOMAIN admission' = Logins,
           begin' \in [Logins -> {"idle", "protect", "finalize", "cancel", "redirected", "failed"}],
           \A l \in Logins : begin[l] = "redirected" =>
             /\ begin'[l] = "redirected"
             /\ admission[l].phase # "ready" => admission'[l].phase # "ready"
    PROVE  LoginInv'
<1>1. LoginTypes'
  BY DEF LoginInv, LoginTypes
<1>2. \A c \in Callbacks : callback[c].login \in Logins
  BY DEF LoginInv, LoginTypes, CallbackRow
<1>3. ConsumedIsGone'
  BY <1>2 DEF LoginInv, ConsumedIsGone
<1> QED
  BY <1>1, <1>3
  DEF LoginInv, OneSessionPerLogin, AuthenticationIsRecent, AuthenticationAgeIsBounded

\* Steps of one callback that leave admissions and sessions alone.
LEMMA CallbackKeeps ==
    ASSUME LoginInv, NEW c \in Callbacks, NEW Row \in CallbackRow,
           callback' = [callback EXCEPT ![c] = Row],
           Row.pc \in Consumed => callback[c].pc \in Consumed /\ Row.login = callback[c].login,
           Row.pc = "session" => Row.at - Row.auth <= MaxAuthAge + TokenSkew,
           UNCHANGED <<admission, begin, session, instant>>
    PROVE  LoginInv'
<1>1. /\ callback' \in [Callbacks -> CallbackRow] /\ callback'[c] = Row
      /\ \A d \in Callbacks \ {c} : callback'[d] = callback[d]
  BY DEF LoginInv, LoginTypes
<1>2. LoginTypes'
  BY <1>1 DEF LoginInv, LoginTypes
<1>3. \A d \in Callbacks : callback'[d].pc \in Consumed =>
        callback[d].pc \in Consumed /\ callback'[d].login = callback[d].login
  BY <1>1
<1>4. ConsumedIsGone'
  BY <1>3 DEF LoginInv, ConsumedIsGone
<1>5. OneSessionPerLogin'
  BY <1>3 DEF LoginInv, OneSessionPerLogin, Consumed
<1>6. AuthenticationIsRecent'
  BY <1>1 DEF LoginInv, AuthenticationIsRecent
<1>7. AuthenticationAgeIsBounded'
  BY DEF LoginInv, AuthenticationAgeIsBounded
<1> QED
  BY <1>2, <1>4, <1>5, <1>6, <1>7 DEF LoginInv

\* Steps on sessions: each keeps what it was counted from, and is used only within
\* its window on a clock that lags at most Lag.
LEMMA SessionKeeps ==
    ASSUME LoginInv, session' \in [Callbacks -> SessionRow],
           \A c \in Callbacks : session'[c].state # "none" =>
             /\ session'[c].issued - session'[c].auth <= MaxAuthAge + TokenSkew
             /\ session'[c].expires <= session'[c].issued + SessionTtl,
           \A c \in Callbacks : session'[c].used # -1 =>
             session'[c].used - session'[c].auth < MaxAuthAge + TokenSkew + SessionTtl + Lag,
           UNCHANGED <<admission, begin, callback, instant>>
    PROVE  LoginInv'
<1>1. LoginTypes'
  BY DEF LoginInv, LoginTypes
<1> QED
  BY <1>1
  DEF LoginInv, ConsumedIsGone, OneSessionPerLogin, AuthenticationIsRecent,
      AuthenticationAgeIsBounded

\* The consumption: the one step in which a callback gets past a login, and it
\* takes the ready admission away.
LEMMA ConsumeKeeps ==
    ASSUME LoginInv, NEW c \in Callbacks, NEW l \in Logins, NEW matches \in BOOLEAN,
           ConsumeTransaction(c, l, matches)
    PROVE  LoginInv'
<1>1. PICK at \in Readings, step \in {"exchange", "failed"} :
        /\ callback' = [callback EXCEPT ![c] =
             [NoCallback EXCEPT !.pc = step, !.login = l, !.at = at]]
        /\ \/ step = "failed" /\ UNCHANGED admission
           \/ /\ admission[l].phase = "ready"
              /\ admission' = [admission EXCEPT ![l] = NoAdmission]
  BY DEF ConsumeTransaction
<1>2. /\ callback[c].pc = "idle" /\ begin[l] = "redirected"
      /\ UNCHANGED <<begin, session, instant>>
  BY DEF ConsumeTransaction
<1> DEFINE Row == [NoCallback EXCEPT !.pc = step, !.login = l, !.at = at]
<1>3. Row \in CallbackRow /\ Row.pc = step /\ Row.login = l
  <2>1. NoCallback \in CallbackRow /\ at \in Nat
    BY OidcLoginConstants DEF NoCallback, CallbackRow, Consumed, Readings, LoginInv, LoginTypes
  <2>2. \A r \in CallbackRow :
          LET n == [r EXCEPT !.pc = step, !.login = l, !.at = at] IN
          n \in CallbackRow /\ n.pc = step /\ n.login = l
    BY <2>1 DEF CallbackRow, Consumed
  <2> QED
    BY <2>1, <2>2
<1> HIDE DEF Row
<1>4. /\ callback' \in [Callbacks -> CallbackRow] /\ callback'[c] = Row
      /\ \A d \in Callbacks \ {c} : callback'[d] = callback[d]
  BY <1>1, <1>3 DEF LoginInv, LoginTypes, Row
<1>5. /\ DOMAIN admission' = Logins
      /\ \A k \in Logins : admission'[k] = admission[k] \/ admission'[k].phase = "none"
      /\ step = "exchange" => admission[l].phase = "ready" /\ admission'[l].phase = "none"
  BY <1>1 DEF LoginInv, LoginTypes, NoAdmission
<1>6. LoginTypes'
  BY <1>2, <1>4, <1>5 DEF LoginInv, LoginTypes
<1>7. \A d \in Callbacks : callback[d].login \in Logins
  BY DEF LoginInv, LoginTypes, CallbackRow
<1>8. ConsumedIsGone'
  BY <1>2, <1>3, <1>4, <1>5, <1>7 DEF LoginInv, ConsumedIsGone, Consumed
<1>9. OneSessionPerLogin'
  <2>1. \A d \in Callbacks : step = "exchange" /\ callback[d].pc \in Consumed =>
          callback[d].login # l
    BY <1>5 DEF LoginInv, ConsumedIsGone
  <2> QED
    BY <1>3, <1>4, <2>1 DEF LoginInv, OneSessionPerLogin, Consumed
<1>10. AuthenticationIsRecent' /\ AuthenticationAgeIsBounded'
  BY <1>2, <1>3, <1>4 DEF LoginInv, AuthenticationIsRecent, AuthenticationAgeIsBounded
<1> QED
  BY <1>6, <1>8, <1>9, <1>10 DEF LoginInv

\* The session of a callback is counted from its start and ends with the token at
\* the latest; sessions that end before are removed.
LEMMA CreateKeeps ==
    ASSUME LoginInv, NEW c \in Callbacks, CreateSession(c)
    PROVE  LoginInv'
<1> DEFINE at == callback[c].at
           Kept(d) == IF session[d].state # "none" /\ session[d].expires <= at
                      THEN [session[d] EXCEPT !.state = "removed"] ELSE session[d]
           New == [state |-> "live", login |-> callback[c].login, issued |-> at,
                   expires |-> SessionEnd(c), auth |-> callback[c].auth, used |-> -1]
<1>0. /\ callback[c] \in CallbackRow /\ \A d \in Callbacks : session[d] \in SessionRow
      /\ SessionTtl \in Nat
  BY OidcLoginConstants DEF LoginInv, LoginTypes
<1>1. /\ callback[c].pc = "session" /\ callback' = [callback EXCEPT ![c].pc = "ended"]
      /\ UNCHANGED <<admission, begin, instant>>
  BY DEF CreateSession
<1>2. /\ SessionEnd(c) \in Nat /\ SessionEnd(c) <= at + SessionTtl
      /\ at - callback[c].auth <= MaxAuthAge + TokenSkew
  BY <1>0, <1>1 DEF SessionEnd, CallbackRow, LoginInv, AuthenticationIsRecent
<1>3. \A d \in Callbacks :
        /\ Kept(d) \in SessionRow /\ Kept(d).issued = session[d].issued
        /\ Kept(d).expires = session[d].expires /\ Kept(d).auth = session[d].auth
        /\ Kept(d).used = session[d].used
        /\ Kept(d).state = "none" <=> session[d].state = "none"
  BY <1>0 DEF SessionRow
<1>4. New \in SessionRow
  BY <1>0, <1>2 DEF SessionRow, CallbackRow
<1>5. /\ New.issued = at /\ New.expires = SessionEnd(c) /\ New.auth = callback[c].auth
      /\ New.used = -1
  OBVIOUS
<1>6. \/ UNCHANGED session
      \/ session' = [d \in Callbacks |-> IF d = c THEN New ELSE Kept(d)]
  BY DEF CreateSession
<1> HIDE DEF New, Kept
<1>7. /\ session' \in [Callbacks -> SessionRow]
      /\ \A d \in Callbacks : session'[d].state # "none" =>
           /\ session'[d].issued - session'[d].auth <= MaxAuthAge + TokenSkew
           /\ session'[d].expires <= session'[d].issued + SessionTtl
      /\ \A d \in Callbacks : session'[d].used # -1 =>
           session'[d].used - session'[d].auth < MaxAuthAge + TokenSkew + SessionTtl + Lag
  <2>1. CASE UNCHANGED session
    BY <2>1
    DEF LoginInv, LoginTypes, AuthenticationIsRecent, AuthenticationAgeIsBounded
  <2>2. CASE session' = [d \in Callbacks |-> IF d = c THEN New ELSE Kept(d)]
    BY <1>2, <1>3, <1>4, <1>5, <2>2
    DEF LoginInv, AuthenticationIsRecent, AuthenticationAgeIsBounded
  <2> QED
    BY <1>6, <2>1, <2>2
<1> DEFINE Row == [callback[c] EXCEPT !.pc = "ended"]
<1>8. Row \in CallbackRow /\ Row.pc = "ended" /\ Row.login = callback[c].login
  BY <1>0 DEF CallbackRow, Consumed
<1>9. callback' = [callback EXCEPT ![c] = Row]
  BY <1>1 DEF LoginInv, LoginTypes
<1> HIDE DEF Row
<1>10. /\ callback' \in [Callbacks -> CallbackRow] /\ callback'[c] = Row
       /\ \A d \in Callbacks \ {c} : callback'[d] = callback[d]
  BY <1>8, <1>9 DEF LoginInv, LoginTypes
<1>11. LoginTypes'
  BY <1>1, <1>7, <1>10 DEF LoginInv, LoginTypes
<1>12. \A d \in Callbacks : callback'[d].pc \in Consumed =>
         callback[d].pc \in Consumed /\ callback'[d].login = callback[d].login
  BY <1>1, <1>8, <1>10 DEF Consumed
<1>13. ConsumedIsGone'
  BY <1>1, <1>12 DEF LoginInv, ConsumedIsGone
<1>14. OneSessionPerLogin'
  BY <1>12 DEF LoginInv, OneSessionPerLogin, Consumed
<1>15. AuthenticationIsRecent'
  BY <1>7, <1>8, <1>10 DEF LoginInv, AuthenticationIsRecent
<1>16. AuthenticationAgeIsBounded'
  BY <1>7 DEF AuthenticationAgeIsBounded
<1> QED
  BY <1>11, <1>13, <1>14, <1>15, <1>16 DEF LoginInv

\* A session is used within its window on some replica's clock.
LEMMA AuthenticateKeeps ==
    ASSUME LoginInv, NEW c \in Callbacks, AuthenticateSession(c)
    PROVE  LoginInv'
<1>0. /\ session[c] \in SessionRow /\ instant \in Nat /\ Lag \in Nat /\ SessionTtl \in Nat
      /\ MaxAuthAge \in Nat /\ TokenSkew \in Nat
  BY OidcLoginConstants DEF LoginInv, LoginTypes
<1>1. PICK at \in Readings :
        session' = [session EXCEPT ![c] =
          IF at < @.issued \/ at >= @.expires THEN [@ EXCEPT !.state = "revoked"]
          ELSE [@ EXCEPT !.used = instant]]
  BY DEF AuthenticateSession
<1>2. session[c].state = "live" /\ UNCHANGED <<admission, begin, callback, instant>>
  BY DEF AuthenticateSession
<1> DEFINE Late == at < session[c].issued \/ at >= session[c].expires
           Row == IF Late THEN [session[c] EXCEPT !.state = "revoked"]
                  ELSE [session[c] EXCEPT !.used = instant]
<1>3. session' = [session EXCEPT ![c] = Row]
  BY <1>1 DEF LoginInv, LoginTypes
<1>4. /\ Row \in SessionRow /\ Row.issued = session[c].issued /\ Row.auth = session[c].auth
      /\ Row.expires = session[c].expires
      /\ Row.used = IF Late THEN session[c].used ELSE instant
  BY <1>0 DEF SessionRow
<1>5. ~Late => instant - session[c].auth < MaxAuthAge + TokenSkew + SessionTtl + Lag
  <2>1. /\ session[c].issued - session[c].auth <= MaxAuthAge + TokenSkew
        /\ session[c].expires <= session[c].issued + SessionTtl
    BY <1>2 DEF LoginInv, AuthenticationIsRecent
  <2>2. at \in Nat /\ at >= instant - Lag
    BY <1>0 DEF Readings
  <2> QED
    BY <1>0, <2>1, <2>2 DEF SessionRow
<1> HIDE DEF Row, Late
<1>6. /\ session' \in [Callbacks -> SessionRow] /\ session'[c] = Row
      /\ \A d \in Callbacks \ {c} : session'[d] = session[d]
  BY <1>3, <1>4 DEF LoginInv, LoginTypes
<1>7. \A d \in Callbacks : session'[d].state # "none" =>
        /\ session'[d].issued - session'[d].auth <= MaxAuthAge + TokenSkew
        /\ session'[d].expires <= session'[d].issued + SessionTtl
  BY <1>2, <1>4, <1>6 DEF LoginInv, AuthenticationIsRecent
<1>8. \A d \in Callbacks : session'[d].used # -1 =>
        session'[d].used - session'[d].auth < MaxAuthAge + TokenSkew + SessionTtl + Lag
  BY <1>4, <1>5, <1>6 DEF LoginInv, AuthenticationAgeIsBounded
<1> QED
  BY <1>2, <1>6, <1>7, <1>8, SessionKeeps

LEMMA LoginKeepsInv == LoginInv /\ [LoginNext]_loginVars => LoginInv'
<1> SUFFICES ASSUME LoginInv, [LoginNext]_loginVars PROVE LoginInv'
  OBVIOUS
<1> DEFINE Steps == {"idle", "protect", "finalize", "cancel", "redirected", "failed"}
<1>0. /\ DOMAIN admission = Logins /\ begin \in [Logins -> Steps]
      /\ \A c \in Callbacks : callback[c] \in CallbackRow /\ session[c] \in SessionRow
  BY DEF LoginInv, LoginTypes
<1>1. ASSUME NEW l \in Logins, NEW s \in Sources, ReserveLoginAdmission(l, s) PROVE LoginInv'
  <2>1. begin[l] = "idle" /\ UNCHANGED <<callback, session, instant>>
    BY <1>1 DEF ReserveLoginAdmission
  <2>2. begin' \in [Logins -> Steps] /\ \A k \in Logins \ {l} : begin'[k] = begin[k]
    BY <1>0, <1>1 DEF ReserveLoginAdmission
  <2>3. /\ DOMAIN admission' = Logins
        /\ \A k \in Logins \ {l} : admission'[k] \in {admission[k], NoAdmission}
    BY <1>0, <1>1 DEF ReserveLoginAdmission, CleanAdmissions
  <2> QED
    BY <1>0, <2>1, <2>2, <2>3, BeginKeeps DEF NoAdmission
<1>2. ASSUME NEW l \in Logins, ProtectVerifier(l) PROVE LoginInv'
  <2>1. /\ begin[l] = "protect" /\ UNCHANGED <<admission, callback, session, instant>>
        /\ begin' \in [Logins -> Steps] /\ \A k \in Logins \ {l} : begin'[k] = begin[k]
    BY <1>0, <1>2 DEF ProtectVerifier
  <2> QED
    BY <1>0, <2>1, BeginKeeps
<1>3. ASSUME NEW l \in Logins, FinalizeLoginAdmission(l) PROVE LoginInv'
  <2>1. /\ begin[l] = "finalize" /\ UNCHANGED <<callback, session, instant>>
        /\ begin' \in [Logins -> Steps] /\ \A k \in Logins \ {l} : begin'[k] = begin[k]
    BY <1>0, <1>3 DEF FinalizeLoginAdmission
  <2>2. /\ DOMAIN admission' = Logins
        /\ \A k \in Logins \ {l} : admission'[k] = admission[k]
    BY <1>0, <1>3 DEF FinalizeLoginAdmission
  <2> QED
    BY <1>0, <2>1, <2>2, BeginKeeps
<1>4. ASSUME NEW l \in Logins, CancelFailedAdmission(l) PROVE LoginInv'
  <2>1. /\ begin[l] = "cancel" /\ UNCHANGED <<callback, session, instant>>
        /\ begin' \in [Logins -> Steps] /\ \A k \in Logins \ {l} : begin'[k] = begin[k]
    BY <1>0, <1>4 DEF CancelFailedAdmission
  <2>2. /\ DOMAIN admission' = Logins
        /\ \A k \in Logins \ {l} : admission'[k] = admission[k]
    BY <1>0, <1>4 DEF CancelFailedAdmission
  <2> QED
    BY <1>0, <2>1, <2>2, BeginKeeps
<1>5. ASSUME NEW c \in Callbacks, ExchangeCode(c) PROVE LoginInv'
  <2>1. callback[c].pc = "exchange" /\ UNCHANGED <<admission, begin, session, instant>>
    BY <1>5 DEF ExchangeCode
  <2>2. CASE callback' = [callback EXCEPT ![c].pc = "failed"]
    <3> DEFINE Row == [callback[c] EXCEPT !.pc = "failed"]
    <3>1. Row \in CallbackRow /\ Row.pc = "failed"
      BY <1>0 DEF CallbackRow
    <3>2. callback' = [callback EXCEPT ![c] = Row]
      BY <2>2 DEF LoginInv, LoginTypes
    <3> HIDE DEF Row
    <3> QED
      BY <2>1, <3>1, <3>2, CallbackKeeps DEF Consumed
  <2>3. ASSUME NEW iat \in 0 .. instant, NEW auth \in 0 .. instant, NEW exp \in 0 .. MaxInstant,
               FreshToken(iat, exp, auth, callback[c].at),
               callback' = [callback EXCEPT ![c].pc = "session", ![c].auth = auth,
                                            ![c].exp = exp]
        PROVE  LoginInv'
    <3> DEFINE Row == [callback[c] EXCEPT !.pc = "session", !.auth = auth, !.exp = exp]
    <3>1. auth \in Nat /\ exp \in Nat /\ callback[c].at - auth <= MaxAuthAge + TokenSkew
      BY <2>3, OidcLoginConstants DEF FreshToken, LoginInv, LoginTypes
    <3>2. /\ Row \in CallbackRow /\ Row.pc = "session" /\ Row.auth = auth
          /\ Row.at = callback[c].at /\ Row.login = callback[c].login
      BY <1>0, <3>1 DEF CallbackRow, Consumed
    <3>3. callback' = [callback EXCEPT ![c] = Row]
      BY <1>0, <2>3 DEF LoginInv, LoginTypes, CallbackRow
    <3> HIDE DEF Row
    <3> QED
      BY <2>1, <3>1, <3>2, <3>3, CallbackKeeps DEF Consumed
  <2> QED
    BY <1>5, <2>2, <2>3 DEF ExchangeCode
<1>6. ASSUME NEW c \in Callbacks, CallbackDies(c) PROVE LoginInv'
  <2> DEFINE Row == [callback[c] EXCEPT !.pc = "failed"]
  <2>1. Row \in CallbackRow /\ Row.pc = "failed"
    BY <1>0 DEF CallbackRow
  <2>2. /\ callback' = [callback EXCEPT ![c] = Row]
        /\ UNCHANGED <<admission, begin, session, instant>>
    BY <1>6 DEF CallbackDies, LoginInv, LoginTypes
  <2> HIDE DEF Row
  <2> QED
    BY <2>1, <2>2, CallbackKeeps DEF Consumed
<1>7. ASSUME NEW c \in Callbacks, Logout(c) PROVE LoginInv'
  <2> DEFINE Row == [session[c] EXCEPT !.state = "revoked"]
  <2>1. /\ Row \in SessionRow /\ Row.issued = session[c].issued /\ Row.auth = session[c].auth
        /\ Row.expires = session[c].expires /\ Row.used = session[c].used
    BY <1>0 DEF SessionRow
  <2>2. /\ session[c].state = "live" /\ session' = [session EXCEPT ![c] = Row]
        /\ UNCHANGED <<admission, begin, callback, instant>>
    BY <1>7 DEF Logout, LoginInv, LoginTypes
  <2> HIDE DEF Row
  <2>3. /\ session' \in [Callbacks -> SessionRow] /\ session'[c] = Row
        /\ \A d \in Callbacks \ {c} : session'[d] = session[d]
    BY <2>1, <2>2 DEF LoginInv, LoginTypes
  <2> QED
    BY <2>1, <2>2, <2>3, SessionKeeps
    DEF LoginInv, AuthenticationIsRecent, AuthenticationAgeIsBounded
<1>8. CASE InstantPasses
  <2>1. UNCHANGED <<admission, begin, callback, session>> /\ instant' \in Nat
    BY <1>8 DEF InstantPasses, LoginInv, LoginTypes
  <2> QED
    BY <2>1
    DEF LoginInv, LoginTypes, ConsumedIsGone, OneSessionPerLogin, AuthenticationIsRecent,
        AuthenticationAgeIsBounded
<1>9. CASE UNCHANGED loginVars
  BY <1>9
  DEF loginVars, LoginInv, LoginTypes, ConsumedIsGone, OneSessionPerLogin,
      AuthenticationIsRecent, AuthenticationAgeIsBounded
<1> QED
  BY <1>1, <1>2, <1>3, <1>4, <1>5, <1>6, <1>7, <1>8, <1>9, ConsumeKeeps, CreateKeeps,
     AuthenticateKeeps
  DEF LoginNext

LEMMA LoginInvariance == LoginSpec => []LoginInv
  BY LoginInitially, LoginKeepsInv, PTL DEF LoginSpec

\* However many callbacks present one cookie, on whatever replicas, at most one of
\* them gets past the consumption, also after the replay ledger was purged.
THEOREM LoginsAreConsumedOnce == LoginSpec => []OneSessionPerLogin
<1>1. LoginInv => OneSessionPerLogin
  BY DEF LoginInv
<1> QED
  BY <1>1, LoginInvariance, PTL

\* However long the exchange takes and whichever replica reads it, a session is
\* honoured only so long after the person authenticated.
THEOREM SessionsFollowAuthentication == LoginSpec => []AuthenticationAgeIsBounded
<1>1. LoginInv => AuthenticationAgeIsBounded
  BY DEF LoginInv
<1> QED
  BY <1>1, LoginInvariance, PTL

----------------------------------------------------------------------------
(* The cache of the provider's keys *)

Generations == 1 .. MaxRotation

ThreadRow ==
    [pc : {"idle", "fetch", "lead", "land", "join", "verify"},
     observed : Generations \cup {0}, got : Generations \cup {0}]

JwksTypes ==
    /\ rotation \in Generations
    /\ cache \in [payload : Generations \cup {0}, until : Nat]
    /\ notBefore \in [Generations -> Nat]
    /\ failure \in Nat /\ gets \in Nat /\ moment \in Nat /\ landed \in Nat
    /\ flight \in [on : BOOLEAN, forced : BOOLEAN]
    /\ thread \in [Threads -> ThreadRow]

\* One thread at most leads the flight, and only while there is one; what it will
\* land is not older than what landed last.
OneLeader ==
    /\ \A t \in Threads : thread[t].pc \in {"lead", "land"} => flight.on
    /\ \A t, u \in Threads :
         thread[t].pc \in {"lead", "land"} /\ thread[u].pc \in {"lead", "land"} => t = u
    /\ \A t \in Threads : thread[t].pc = "land" =>
         thread[t].got \in landed .. rotation /\ thread[t].got # 0
    /\ landed <= rotation

\* No flight can begin at this moment: the pause after a failure, or a cached set
\* whose forced refresh is bounded.
NoMoreFlights ==
    moment < failure \/ (IsFresh /\ moment < notBefore[cache.payload])

\* What the requests sent at this moment leave possible: after one, only a forced
\* refresh of a fresh set; after two, nothing.
GetsAreSpent ==
    /\ gets <= 2
    /\ gets = 1 /\ ~flight.on => moment < failure \/ IsFresh
    /\ gets = 2 => IF flight.on THEN flight.forced ELSE NoMoreFlights

\* The inductive invariant.
JwksInv == JwksTypes /\ OneLeader /\ GetsAreSpent

LEMMA JwksInitially == JwksInit => JwksInv
  BY JwksCacheConstants
  DEF JwksInit, JwksInv, JwksTypes, OneLeader, GetsAreSpent, Generations, ThreadRow,
      NoCache, NoFlight, IdleThread

\* What a step does to the threads: one row changes, or the whole flight ends.
LEMMA ServedRow ==
    ASSUME JwksTypes, NEW t \in Threads, NEW payload \in Generations, Serve(t, payload)
    PROVE  /\ thread' \in [Threads -> ThreadRow]
           /\ \A u \in Threads : u # t => thread'[u] = thread[u]
           /\ thread'[t].pc \in {"verify", "idle"}
  BY DEF JwksTypes, Serve, ThreadRow, IdleThread

LEMMA LandedRows ==
    ASSUME JwksTypes, NEW t \in Threads, NEW payload \in Generations \cup {0},
           Landed(t, payload)
    PROVE  /\ thread' \in [Threads -> ThreadRow]
           /\ \A u \in Threads : \/ u # t /\ thread'[u] = thread[u]
                                 \/ thread'[u].pc \in {"verify", "idle"}
  BY DEF JwksTypes, Landed, ThreadRow, IdleThread

\* A step that lets one thread move to a state in which it does not lead.
LEMMA ThreadMoves ==
    ASSUME JwksInv, NEW t \in Threads,
           thread' \in [Threads -> ThreadRow],
           \A u \in Threads : u # t => thread'[u] = thread[u],
           thread'[t].pc \notin {"lead", "land"},
           UNCHANGED <<rotation, cache, notBefore, failure, flight, landed, gets, moment>>
    PROVE  JwksInv'
<1>1. JwksTypes'
  BY DEF JwksInv, JwksTypes
<1>2. OneLeader'
  BY DEF JwksInv, JwksTypes, OneLeader
<1>3. GetsAreSpent'
  BY DEF JwksInv, GetsAreSpent, NoMoreFlights, IsFresh
<1> QED  BY <1>1, <1>2, <1>3 DEF JwksInv

LEMMA JwksKeepsInv ==
    ASSUME JwksInv, [JwksNext]_jwksVars
    PROVE  JwksInv'
<1> USE JwksCacheConstants
<1>1. CASE UNCHANGED jwksVars
  BY <1>1 DEF jwksVars, JwksInv, JwksTypes, OneLeader, GetsAreSpent, NoMoreFlights, IsFresh
<1>2. ASSUME NEW t \in Threads, NeedKeys(t)
      PROVE  JwksInv'
  BY <1>2, ThreadMoves DEF NeedKeys, JwksInv, JwksTypes, ThreadRow
<1>3. ASSUME NEW t \in Threads, VerifyWith(t)
      PROVE  JwksInv'
  BY <1>3, ThreadMoves DEF VerifyWith, JwksInv, JwksTypes, ThreadRow, IdleThread
<1>4. ASSUME NEW t \in Threads, AnswerFromCache(t)
      PROVE  JwksInv'
  <2>1. cache.payload \in Generations
    BY <1>4 DEF AnswerFromCache, ServedFromCache, IsFresh, JwksInv, JwksTypes
  <2> QED  BY <1>4, <2>1, ServedRow, ThreadMoves DEF AnswerFromCache, JwksInv
<1>5. ASSUME NEW t \in Threads, RefuseAfterFailure(t)
      PROVE  JwksInv'
  BY <1>5, ThreadMoves DEF RefuseAfterFailure, JwksInv, JwksTypes, ThreadRow, IdleThread
<1>6. ASSUME NEW t \in Threads, JoinTimesOut(t)
      PROVE  JwksInv'
  BY <1>6, ThreadMoves DEF JoinTimesOut, JwksInv, JwksTypes, ThreadRow, IdleThread
<1>7. ASSUME NEW t \in Threads, LeadFlight(t)
      PROVE  JwksInv'
  <2>1. /\ flight' = [on |-> TRUE, forced |-> thread[t].observed # 0]
        /\ cache' \in {NoCache, cache} /\ gets' = gets + 1
        /\ ~flight.on /\ moment >= failure /\ ~ServedFromCache(t)
        /\ UNCHANGED <<rotation, notBefore, failure, landed, moment>>
    BY <1>7 DEF LeadFlight
  <2>2. /\ thread' \in [Threads -> ThreadRow]
        /\ \A u \in Threads : u # t => thread'[u] = thread[u]
        /\ thread'[t].pc = "lead"
    BY <1>7 DEF LeadFlight, JwksInv, JwksTypes, ThreadRow
  <2>3. JwksTypes'
    BY <2>1, <2>2 DEF JwksInv, JwksTypes, NoCache
  <2>4. OneLeader'
    BY <2>1, <2>2 DEF JwksInv, JwksTypes, OneLeader
  <2>5. GetsAreSpent'
    <3>1. ~(gets = 2)
      BY <2>1 DEF JwksInv, JwksTypes, GetsAreSpent, NoMoreFlights, ServedFromCache
    <3>2. gets = 1 => thread[t].observed # 0
      BY <2>1 DEF JwksInv, JwksTypes, GetsAreSpent, ServedFromCache
    <3>3. flight'.on /\ (thread[t].observed # 0 => flight'.forced)
      BY <2>1
    <3>4. gets' = 2 => flight'.forced
      BY <2>1, <3>2, <3>3 DEF JwksInv, JwksTypes
    <3>5. gets' <= 2
      BY <2>1, <3>1 DEF JwksInv, JwksTypes, GetsAreSpent
    <3> QED  BY <3>3, <3>4, <3>5 DEF GetsAreSpent
  <2> QED  BY <2>3, <2>4, <2>5 DEF JwksInv
<1>8. ASSUME NEW t \in Threads, JoinFlight(t)
      PROVE  JwksInv'
  <2>1. /\ flight' \in [on : BOOLEAN, forced : BOOLEAN]
        /\ flight.on /\ flight'.on /\ (flight.forced => flight'.forced)
        /\ UNCHANGED <<rotation, cache, notBefore, failure, landed, gets, moment>>
    BY <1>8 DEF JoinFlight, JwksInv, JwksTypes
  <2>2. /\ thread' \in [Threads -> ThreadRow]
        /\ \A u \in Threads : u # t => thread'[u] = thread[u]
        /\ thread'[t].pc = "join"
    BY <1>8 DEF JoinFlight, JwksInv, JwksTypes, ThreadRow
  <2>3. JwksTypes'
    BY <2>1, <2>2 DEF JwksInv, JwksTypes
  <2>4. OneLeader'
    BY <2>1, <2>2 DEF JwksInv, JwksTypes, OneLeader
  <2>5. GetsAreSpent'
    BY <2>1 DEF JwksInv, GetsAreSpent
  <2> QED  BY <2>3, <2>4, <2>5 DEF JwksInv
<1>9. ASSUME NEW t \in Threads, ProviderAnswers(t)
      PROVE  JwksInv'
  <2>1. /\ thread[t].pc = "lead"
        /\ UNCHANGED <<rotation, cache, notBefore, failure, flight, landed, gets, moment>>
    BY <1>9 DEF ProviderAnswers
  <2>2. /\ thread' \in [Threads -> ThreadRow]
        /\ \A u \in Threads : u # t => thread'[u] = thread[u]
        /\ thread'[t].pc = "land" /\ thread'[t].got = rotation
    <3> DEFINE row == [thread[t] EXCEPT !.pc = "land", !.got = rotation]
    <3>1. thread \in [Threads -> ThreadRow] /\ rotation \in Generations
      BY DEF JwksInv, JwksTypes, Generations
    <3>2. row \in ThreadRow /\ row.pc = "land" /\ row.got = rotation
      BY <3>1 DEF ThreadRow
    <3>3. thread' = [thread EXCEPT ![t] = row]
      BY <1>9, <3>1 DEF ProviderAnswers
    <3> HIDE DEF row
    <3> QED  BY <3>1, <3>2, <3>3
  <2>3. JwksTypes'
    BY <2>1, <2>2 DEF JwksInv, JwksTypes
  <2>4. OneLeader'
    BY <2>1, <2>2 DEF JwksInv, JwksTypes, OneLeader, Generations
  <2>5. GetsAreSpent'
    BY <2>1 DEF JwksInv, GetsAreSpent, NoMoreFlights, IsFresh
  <2> QED  BY <2>3, <2>4, <2>5 DEF JwksInv
<1>10. ASSUME NEW t \in Threads, LandFlight(t)
       PROVE  JwksInv'
  <2> DEFINE g == thread[t].got
  <2>1. /\ thread[t].pc = "land" /\ g \in Generations /\ landed <= g /\ g <= rotation
        /\ flight.on
    BY <1>10 DEF LandFlight, JwksInv, JwksTypes, OneLeader, ThreadRow
  <2>2. /\ cache' = [payload |-> g, until |-> moment + CacheSeconds]
        /\ landed' = g /\ failure' = 0 /\ flight' = NoFlight
        /\ notBefore' \in [Generations -> Nat]
        /\ flight.forced => notBefore'[g] = moment + NegativeSeconds
        /\ UNCHANGED <<rotation, gets, moment>>
    BY <1>10, <2>1 DEF LandFlight, JwksInv, JwksTypes
  <2>3. /\ thread' \in [Threads -> ThreadRow]
        /\ \A u \in Threads : \/ u # t /\ thread'[u] = thread[u]
                              \/ thread'[u].pc \in {"verify", "idle"}
    BY <1>10, <2>1, LandedRows DEF LandFlight, JwksInv
  <2>4. \A u \in Threads : thread'[u].pc \notin {"lead", "land"}
    BY <2>1, <2>3 DEF JwksInv, OneLeader
  <2> HIDE DEF g
  <2>5. JwksTypes'
    BY <2>1, <2>2, <2>3 DEF JwksInv, JwksTypes, NoFlight, Generations
  <2>6. OneLeader'
    BY <2>1, <2>2, <2>4 DEF JwksInv, OneLeader
  <2>7. GetsAreSpent'
    BY <2>1, <2>2
    DEF JwksInv, JwksTypes, GetsAreSpent, NoMoreFlights, IsFresh, NoFlight, Generations
  <2> QED  BY <2>5, <2>6, <2>7 DEF JwksInv
<1>11. ASSUME NEW t \in Threads, FlightFails(t)
       PROVE  JwksInv'
  <2>1. /\ thread[t].pc \in {"lead", "land"}
        /\ cache' = NoCache
        /\ failure' = moment + NegativeSeconds /\ flight' = NoFlight
        /\ UNCHANGED <<rotation, notBefore, landed, gets, moment>>
    BY <1>11 DEF FlightFails
  <2>2. /\ thread' \in [Threads -> ThreadRow]
        /\ \A u \in Threads : \/ u # t /\ thread'[u] = thread[u]
                              \/ thread'[u].pc \in {"verify", "idle"}
    BY <1>11, LandedRows DEF FlightFails, JwksInv
  <2>3. \A u \in Threads : thread'[u].pc \notin {"lead", "land"}
    BY <2>1, <2>2 DEF JwksInv, OneLeader
  <2>4. JwksTypes'
    BY <2>1, <2>2 DEF JwksInv, JwksTypes, NoFlight, NoCache
  <2>5. OneLeader'
    BY <2>1, <2>3 DEF JwksInv, OneLeader
  <2>6. GetsAreSpent'
    BY <2>1 DEF JwksInv, JwksTypes, GetsAreSpent, NoMoreFlights, NoFlight
  <2> QED  BY <2>4, <2>5, <2>6 DEF JwksInv
<1>12. CASE Rotate
  <2>1. JwksTypes'
    BY <1>12 DEF Rotate, JwksInv, JwksTypes, Generations
  <2>2. OneLeader'
    BY <1>12 DEF Rotate, JwksInv, JwksTypes, OneLeader, Generations, ThreadRow
  <2>3. GetsAreSpent'
    BY <1>12 DEF Rotate, JwksInv, GetsAreSpent, NoMoreFlights, IsFresh
  <2> QED  BY <2>1, <2>2, <2>3 DEF JwksInv
<1>13. CASE MomentPasses
  <2>1. JwksTypes'
    BY <1>13 DEF MomentPasses, JwksInv, JwksTypes
  <2>2. OneLeader'
    BY <1>13 DEF MomentPasses, JwksInv, OneLeader
  <2>3. GetsAreSpent'
    BY <1>13 DEF MomentPasses, GetsAreSpent
  <2> QED  BY <2>1, <2>2, <2>3 DEF JwksInv
<1> QED
  BY <1>1, <1>2, <1>3, <1>4, <1>5, <1>6, <1>7, <1>8, <1>9, <1>10, <1>11, <1>12, <1>13
  DEF JwksNext

LEMMA JwksIsInductive == JwksSpec => []JwksInv
<1>1. JwksInit => JwksInv  BY JwksInitially
<1>2. JwksInv /\ [JwksNext]_jwksVars => JwksInv'  BY JwksKeepsInv
<1> QED  BY <1>1, <1>2, PTL DEF JwksSpec

\* For any number of threads and rotations the provider is asked at most twice in a
\* moment: the one flight at a time, the pause after a failure and the bound on forced
\* refreshes of PinnedOIDCHTTPClient together leave no third request.
THEOREM ProviderIsAskedTwiceAtMost == JwksSpec => []GetsAreBounded
<1>1. JwksInv => GetsAreBounded  BY DEF JwksInv, GetsAreSpent, GetsAreBounded
<1> QED  BY <1>1, JwksIsInductive, PTL

\* For any number of threads and rotations no answer that was slow on its way puts an
\* older key set into the cache than one that was there before.
THEOREM NoKeySetReturns == JwksSpec => KeySetsNeverGoBack
<1>1. ASSUME JwksInv, [JwksNext]_jwksVars
      PROVE  [landed' >= landed]_jwksVars
  <2>1. landed \in Nat
    BY <1>1 DEF JwksInv, JwksTypes
  <2>2. ASSUME NEW t \in Threads, LandFlight(t)
        PROVE  landed' >= landed
    BY <1>1, <2>2 DEF LandFlight, JwksInv, JwksTypes, OneLeader
  <2>3. CASE UNCHANGED landed
    BY <2>1, <2>3
  <2>4. UNCHANGED landed \/ \E t \in Threads : LandFlight(t)
    BY <1>1
    DEF JwksNext, jwksVars, NeedKeys, VerifyWith, AnswerFromCache, RefuseAfterFailure,
        LeadFlight, JoinFlight, ProviderAnswers, FlightFails, JoinTimesOut, Rotate,
        MomentPasses
  <2> QED  BY <2>2, <2>3, <2>4
<1> QED  BY <1>1, JwksIsInductive, PTL DEF JwksSpec, KeySetsNeverGoBack
===============================================================================

------------------------- MODULE RuntimeCatalogProofs -------------------------
(***************************************************************************)
(* Proofs about the runs of a control, for every schedule, any number of   *)
(* deployments, workers and attempts, and any error of the workers'        *)
(* clocks: the windows that due_window_ends computes, the ledgers that     *)
(* claim_next_run, complete_run and fail_run write, what none of them      *)
(* rewrites, and that worker processes which crash, stop and lose answers  *)
(* drive the catalog through these transactions alone.                     *)
(***************************************************************************)
EXTENDS RuntimeWorker, RuntimeDeploymentsProofs, FiniteSetTheorems

USE RuntimeCatalogConstants

----------------------------------------------------------------------------
(* Division.  The boundaries of a schedule are the multiples of its interval. *)

LEMMA Division ==
    ASSUME NEW n \in Int, NEW i \in Nat \ {0}
    PROVE  n \div i \in Int /\ n % i \in 0 .. i - 1 /\ n = (n \div i) * i + (n % i)
  OBVIOUS

LEMMA MultiplesAreOrdered ==
    ASSUME NEW p \in Int, NEW q \in Int, NEW i \in Nat \ {0}
    PROVE  (p <= q => p * i <= q * i) /\ (p * i < (q + 1) * i => p <= q)
  OBVIOUS

LEMMA DivisionIsUnique ==
    ASSUME NEW p \in Int, NEW q \in Int, NEW i \in Nat \ {0},
           NEW r \in 0 .. i - 1, NEW s \in 0 .. i - 1, p * i + r = q * i + s
    PROVE  r = s
  OBVIOUS

\* The boundary at or before z: what is a multiple and not after z is not after it.
LEMMA FloorBoundary ==
    ASSUME NEW i \in Nat \ {0}, NEW z \in Int, NEW e \in Int, e % i = 0
    PROVE  (z \div i) * i \in Int /\ (e <= (z \div i) * i <=> e <= z)
<1> DEFINE p == e \div i
           q == z \div i
<1>1. p \in Int /\ e = p * i
  BY Division
<1>2. q \in Int /\ z % i \in 0 .. i - 1 /\ z = q * i + (z % i)
  BY Division
<1>3. q * i <= z /\ z < (q + 1) * i
  BY <1>2
<1> HIDE DEF p, q
<1>4. q * i \in Int /\ p * i \in Int
  BY <1>1, <1>2
<1>5. ASSUME e <= z PROVE p * i <= q * i
  <2>1. p * i < (q + 1) * i
    BY <1>1, <1>2, <1>3, <1>4, <1>5
  <2> QED  BY <1>1, <1>2, <2>1, MultiplesAreOrdered
<1> QED  BY <1>1, <1>2, <1>3, <1>4, <1>5 DEF p, q

\* A boundary may be taken off before the remainder is.
LEMMA BoundariesDoNotShift ==
    ASSUME NEW i \in Nat \ {0}, NEW q \in Int, NEW n \in Int
    PROVE  (n - q * i) % i = n % i
<1> DEFINE m == (n - q * i) \div i
           r == (n - q * i) % i
           p == n \div i
           s == n % i
<1>1. n - q * i \in Int
  OBVIOUS
<1>2. m \in Int /\ r \in 0 .. i - 1 /\ n - q * i = m * i + r
  BY <1>1, Division
<1>3. p \in Int /\ s \in 0 .. i - 1 /\ n = p * i + s
  BY Division
<1> HIDE DEF m, r, p, s
<1>4. m + q \in Int /\ (m + q) * i + r = p * i + s
  BY <1>2, <1>3
<1>5. r = s
  BY <1>2, <1>3, <1>4, DivisionIsUnique
<1> QED  BY <1>5 DEF r, s

\* The boundary at or after a, and the boundaries that follow it.
LEMMA CeilingBoundary ==
    ASSUME NEW i \in Nat \ {0}, NEW a \in Nat
    PROVE  /\ ((a + i - 1) \div i) * i \in Nat
           /\ \A e \in Int :
                (/\ ((a + i - 1) \div i) * i <= e
                 /\ (e - ((a + i - 1) \div i) * i) % i = 0) <=> (a <= e /\ e % i = 0)
<1> DEFINE q == (a + i - 1) \div i
           r == (a + i - 1) % i
<1>1. a + i - 1 \in Int
  OBVIOUS
<1>2. q \in Int /\ r \in 0 .. i - 1 /\ a + i - 1 = q * i + r
  BY <1>1, Division
<1> HIDE DEF q, r
<1>3. q * i \in Int /\ a <= q * i /\ q * i < a + i
  BY <1>2
<1>4. ASSUME NEW e \in Int, a <= e, e % i = 0 PROVE q * i <= e
  <2> DEFINE p == e \div i
  <2>1. p \in Int /\ e = p * i
    BY <1>4, Division
  <2> HIDE DEF p
  <2>2. q * i < (p + 1) * i
    BY <1>2, <1>3, <1>4, <2>1
  <2>3. q <= p
    BY <1>2, <2>1, <2>2, MultiplesAreOrdered
  <2> QED  BY <1>2, <2>1, <2>3, MultiplesAreOrdered
<1>5. \A e \in Int : (e - q * i) % i = e % i
  BY <1>2, BoundariesDoNotShift
<1>6. \A e \in Int : (q * i <= e /\ (e - q * i) % i = 0) <=> (a <= e /\ e % i = 0)
  <2>1. \A first, e \in Int : a <= first /\ first <= e => a <= e
    OBVIOUS
  <2>2. \A e \in Int : q * i <= e => a <= e
    BY <1>3, <2>1
  <2> QED  BY <1>4, <1>5, <2>2, Zenon
<1> QED  BY <1>3, <1>6 DEF q

----------------------------------------------------------------------------
(* The windows *)

\* The rows of the history and the schedules they set.
LEMMA RowsAreDeployments ==
    ASSUME RDTypeOK
    PROVE  /\ DOMAIN history = 1 .. Len(history) /\ Len(history) \in Nat
           /\ \A k \in DOMAIN history :
                history[k] \in Deployment /\ ScheduleOf(k) \in ScheduleConfiguration
<1>1. DOMAIN history = 1 .. Len(history) /\ Len(history) \in Nat
  BY LenProperties DEF RDTypeOK
<1>2. \A k \in DOMAIN history : history[k] \in Deployment
  BY <1>1, ElementOfSeq DEF RDTypeOK
<1> QED  BY <1>1, <1>2 DEF Deployment, ScheduleOf

\* due_window_ends computes exactly the windows that the documentation defines.
LEMMA DueWindows ==
    ASSUME RDTypeOK, NEW k \in DOMAIN history, NEW horizon \in Nat
    PROVE  /\ DueWindowEnds(k, horizon) \subseteq Nat
           /\ DueWindowEnds(k, horizon) = {e \in 0 .. horizon : WindowIsDue(k, e, horizon)}
<1> DEFINE s == ScheduleOf(k)
           i == s.interval
           a == history[k].appliedAt + s.window
           z == horizon - s.lag
<1>0. /\ history[k] \in Deployment /\ s \in ScheduleConfiguration
      /\ k < Len(history) => history[k + 1] \in Deployment
  BY RowsAreDeployments
<1>1. /\ i \in Nat \ {0} /\ s.window \in Nat /\ s.lag \in Nat /\ s.enabled \in BOOLEAN
      /\ history[k].appliedAt \in Nat /\ a \in Nat /\ z \in Int /\ z <= horizon
      /\ k < Len(history) => history[k + 1].appliedAt \in Nat
  <2> HIDE DEF s
  <2>1. i \in Nat \ {0} /\ s.window \in Nat /\ s.lag \in Nat /\ s.enabled \in BOOLEAN
    BY <1>0 DEF ScheduleConfiguration
  <2>2. /\ history[k].appliedAt \in Nat
        /\ k < Len(history) => history[k + 1].appliedAt \in Nat
    BY <1>0 DEF Deployment
  <2> QED  BY <2>1, <2>2
<1>2. FirstEnd(k) = ((a + i - 1) \div i) * i
  BY DEF FirstEnd
<1>3. /\ FirstEnd(k) \in Nat
      /\ \A e \in Int : (FirstEnd(k) <= e /\ (e - FirstEnd(k)) % i = 0)
                        <=> (a <= e /\ e % i = 0)
  <2> HIDE DEF i, a
  <2>1. /\ ((a + i - 1) \div i) * i \in Nat
        /\ \A e \in Int :
                (/\ ((a + i - 1) \div i) * i <= e
                 /\ (e - ((a + i - 1) \div i) * i) % i = 0) <=> (a <= e /\ e % i = 0)
    BY <1>1, CeilingBoundary
  <2> QED  BY <1>2, <2>1
<1>4. /\ LastEnd(k, horizon) \in Int
      /\ \A e \in Int : e % i = 0 =>
           (e <= LastEnd(k, horizon) <=>
              e <= z /\ (k < Len(history) => e <= history[k + 1].appliedAt))
  <2>1. \A y \in Int : (y \div i) * i \in Int /\ \A e \in Int :
          e % i = 0 => (e <= (y \div i) * i <=> e <= y)
    <3> HIDE DEF i
    <3>1. \A y \in Int : (y \div i) * i \in Int
      BY <1>1
    <3>2. ASSUME NEW y \in Int, NEW e \in Int, e % i = 0
          PROVE  e <= (y \div i) * i <=> e <= y
      BY <1>1, <3>2, FloorBoundary
    <3> QED  BY <3>1, <3>2
  <2> DEFINE byHorizon == (z \div i) * i
             bySuccessor == (history[k + 1].appliedAt \div i) * i
  <2>2. LastEnd(k, horizon) =
          IF k < Len(history) /\ bySuccessor < byHorizon THEN bySuccessor ELSE byHorizon
    BY DEF LastEnd
  <2>3. byHorizon \in Int /\ \A e \in Int : e % i = 0 => (e <= byHorizon <=> e <= z)
    <3> HIDE DEF i, z
    <3> QED  BY <1>1, <2>1
  <2>4. k < Len(history) =>
          /\ bySuccessor \in Int
          /\ \A e \in Int : e % i = 0 =>
               (e <= bySuccessor <=> e <= history[k + 1].appliedAt)
    <3> HIDE DEF i
    <3> SUFFICES ASSUME k < Len(history)
                 PROVE  /\ bySuccessor \in Int
                        /\ \A e \in Int : e % i = 0 =>
                             (e <= bySuccessor <=> e <= history[k + 1].appliedAt)
      OBVIOUS
    <3>1. history[k + 1].appliedAt \in Int
      BY <1>1
    <3> QED  BY <2>1, <3>1
  <2> HIDE DEF byHorizon, bySuccessor, i, z
  <2> QED  BY <1>1, <2>2, <2>3, <2>4
<1> HIDE DEF s, i, a, z
<1>5. \A e \in Int :
        /\ FirstEnd(k) <= e /\ e <= LastEnd(k, horizon)
        /\ (e - FirstEnd(k)) % i = 0
        <=> /\ a <= e /\ e % i = 0
            /\ e <= z /\ (k < Len(history) => e <= history[k + 1].appliedAt)
  BY <1>3, <1>4
<1>6. \A e \in Int : e \in DueWindowEnds(k, horizon) <=>
        /\ FirstEnd(k) <= e /\ e <= LastEnd(k, horizon)
        /\ s.enabled /\ (e - FirstEnd(k)) % i = 0
  BY <1>3, <1>4 DEF DueWindowEnds, s, i
<1>7. \A e \in Int : WindowIsDue(k, e, horizon) <=>
        /\ s.enabled /\ a <= e /\ e % i = 0
        /\ e <= z /\ (k < Len(history) => e <= history[k + 1].appliedAt)
  <2>1. SUFFICES ASSUME NEW e \in Int
                 PROVE  WindowIsDue(k, e, horizon) <=>
                          /\ s.enabled /\ a <= e /\ e % i = 0
                          /\ e <= z /\ (k < Len(history) => e <= history[k + 1].appliedAt)
    OBVIOUS
  <2>2. (e - s.window >= history[k].appliedAt <=> a <= e) /\ (e + s.lag <= horizon <=> e <= z)
    <3>1. a = history[k].appliedAt + s.window /\ z = horizon - s.lag
      BY DEF a, z
    <3>2. /\ s.window \in Int /\ s.lag \in Int /\ history[k].appliedAt \in Int
          /\ horizon \in Int
      BY <1>1
    <3> QED  BY <3>1, <3>2
  <2>3. WindowIsDue(k, e, horizon) <=>
          /\ s.enabled /\ e % i = 0 /\ e - s.window >= history[k].appliedAt
          /\ e + s.lag <= horizon /\ (k < Len(history) => e <= history[k + 1].appliedAt)
    BY DEF WindowIsDue, s, i
  <2> QED  BY <2>2, <2>3
<1>8. DueWindowEnds(k, horizon) \subseteq Nat
  BY <1>3, <1>4 DEF DueWindowEnds
<1> QED  BY <1>1, <1>5, <1>6, <1>7, <1>8

----------------------------------------------------------------------------
(* The ledgers *)

\* What LedgersAgree says of one run, without the sets of fences: r is the row of run
\* id, C the claims and X the outcomes.
Story(id, r, C, X) ==
    /\ \A c \in C : c.run = id => c.fence \in 1 .. r.fence
    /\ \A f \in 1 .. r.fence : \E c \in C : c.run = id /\ c.fence = f
    /\ \A c, x \in C : c.run = id /\ x.run = id /\ c.fence = x.fence => c = x
    /\ \A o \in X : o.run = id /\ o.what = "succeeded" =>
                      r.state = "succeeded" /\ o.fence = r.fence
    /\ r.state = "succeeded" =>
         \E o \in X : o.run = id /\ o.what = "succeeded" /\ o.fence = r.fence
    /\ \A o \in X : o.run = id /\ o.what = "failed" =>
         /\ o.fence \in 1 .. r.fence
         /\ r.state = "succeeded" => o.fence # r.fence
         /\ o.fence = r.fence => r.state = "failed"
    /\ r.state = "failed" =>
         \E o \in X : o.run = id /\ o.what = "failed" /\ o.fence = r.fence

Stories == \A id \in DOMAIN runs : Story(id, runs[id], claims, outcomes)

LEMMA StoriesAreLedgers == Stories => LedgersAgree
<1> SUFFICES ASSUME Stories, NEW id \in DOMAIN runs
             PROVE  LET r == runs[id] IN
                    /\ FencesClaimed(id) = 1 .. r.fence
                    /\ \A c, x \in claims :
                         c.run = id /\ x.run = id /\ c.fence = x.fence => c = x
                    /\ FencesOf(id, "succeeded") =
                         IF r.state = "succeeded" THEN {r.fence} ELSE {}
                    /\ FencesOf(id, "failed") \subseteq
                         FencesClaimed(id) \ FencesOf(id, "succeeded")
                    /\ r.fence \in FencesOf(id, "failed") <=> r.state = "failed"
  BY DEF LedgersAgree
<1>1. Story(id, runs[id], claims, outcomes)
  BY DEF Stories
<1>2. FencesClaimed(id) = 1 .. runs[id].fence
  BY <1>1 DEF Story, FencesClaimed
<1>3. FencesOf(id, "succeeded") = IF runs[id].state = "succeeded"
                                  THEN {runs[id].fence} ELSE {}
  BY <1>1 DEF Story, FencesOf
<1>4. \A f \in FencesOf(id, "failed") :
        f \in 1 .. runs[id].fence /\ (runs[id].state = "succeeded" => f # runs[id].fence)
  BY <1>1 DEF Story, FencesOf
<1>5. runs[id].fence \in FencesOf(id, "failed") <=> runs[id].state = "failed"
  BY <1>1 DEF Story, FencesOf
<1>6. \A c, x \in claims : c.run = id /\ x.run = id /\ c.fence = x.fence => c = x
  BY <1>1 DEF Story
<1> QED  BY <1>2, <1>3, <1>4, <1>5, <1>6

LedgerRows ==
    /\ claims \subseteq [run : DOMAIN runs, fence : Nat, by : Workers]
    /\ outcomes \subseteq [run : DOMAIN runs, fence : Nat, what : {"succeeded", "failed"}]

\* How the story of one run goes on: it is not touched, it is claimed, it is closed.
LEMMA StoryIsUntouched ==
    ASSUME NEW id, NEW r \in Run, NEW n \in Run, NEW C, NEW X, NEW D, NEW Y,
           Story(id, r, C, X), n.state = r.state, n.fence = r.fence,
           \A c \in D : c.run # id, \A o \in Y : o.run # id
    PROVE  Story(id, n, C \union D, X \union Y)
  BY DEF Story

LEMMA StoryOfClaim ==
    ASSUME NEW id, NEW r \in Run, NEW C, NEW X, NEW Y, NEW w \in Workers, NEW d \in ClockError,
           Story(id, r, C, X), r.state # "succeeded", r.fence < MaxRunAttempts,
           \A o \in Y : o.run # id
    PROVE  /\ ClaimedRun(r, w, d) \in Run
           /\ Story(id, ClaimedRun(r, w, d), C \union {Claim(id, w, r.fence + 1)}, X \union Y)
<1> DEFINE n == ClaimedRun(r, w, d)
           claim == Claim(id, w, r.fence + 1)
<1>1. /\ n \in Run /\ n.state = "leased" /\ n.fence = r.fence + 1 /\ r.fence \in Nat
      /\ claim.run = id /\ claim.fence = r.fence + 1
  BY DEF Run, ClaimedRun, ClockError, Claim
<1> HIDE DEF n, claim
<1>2. \A f : f \in 1 .. n.fence <=> f \in 1 .. r.fence \/ f = r.fence + 1
  BY <1>1
<1>3. Story(id, n, C \union {claim}, X \union Y)
  BY <1>1, <1>2 DEF Story
<1> QED  BY <1>1, <1>3 DEF n, claim

LEMMA ClosedRow ==
    ASSUME NEW r \in Run, NEW what \in {"succeeded", "failed"}, NEW retry \in BOOLEAN,
           NEW left \in Int
    PROVE  LET n == Closed(r, what, retry, left) IN
           n \in Run /\ n.state = what /\ n.fence = r.fence
  BY DEF Run, Closed

LEMMA StoryOfClosure ==
    ASSUME NEW id, NEW r \in Run, NEW n \in Run, NEW C, NEW X, NEW D,
           NEW what \in {"succeeded", "failed"}, n.state = what, n.fence = r.fence,
           Story(id, r, C, X), r.state = "leased", r.fence \in 1 .. r.fence,
           \A c \in D : c.run # id
    PROVE  Story(id, n, C \union D, X \union {Outcome(id, r.fence, what)})
<1> DEFINE outcome == Outcome(id, r.fence, what)
<1>1. outcome.run = id /\ outcome.fence = r.fence /\ outcome.what = what
  BY DEF Outcome
<1> HIDE DEF outcome
<1>2. Story(id, n, C \union D, X \union {outcome})
  BY <1>1 DEF Story
<1> QED  BY <1>2 DEF outcome

----------------------------------------------------------------------------
(* The inductive invariant *)

RunTypes ==
    /\ now \in 0 .. MaxNow
    /\ DOMAIN runs \subseteq RunId
    /\ \A id \in DOMAIN runs : runs[id] \in Run /\ id[1] \in DOMAIN history

\* No run exists before the lag after its window has passed.  This is what a late
\* deployment meets: only one older than that lag falls before the end of a run.
RunsAreDue == \A id \in DOMAIN runs : DueAt(id) <= now

RCInv == RDInv /\ RunTypes /\ LedgerRows /\ Stories /\ RunsAreDue

LEMMA CatalogInitially == RCInit => RCInv
<1> SUFFICES ASSUME RCInit PROVE RCInv
  OBVIOUS
<1>1. history = <<>> /\ highest = <<>> /\ current = 0 /\ profiles = {}
  BY DEF RCInit, RDInit
<1>2. /\ history \in Seq(Deployment) /\ highest \in Seq(Nat \ {0})
      /\ Len(history) = 0 /\ Len(highest) = 0 /\ DOMAIN history = {}
  BY <1>1, EmptySeq
<1>3. RDInv
  BY <1>1, <1>2
  DEF RDInv, RDTypeOK, HistoryStrictlyOrdered, ReceiptChain, DeployedUnderProfile
<1>4. DOMAIN runs = {} /\ now = 0 /\ claims = {} /\ outcomes = {}
  BY DEF RCInit
<1> QED  BY <1>3, <1>4 DEF RCInv, RunTypes, LedgerRows, Stories, RunsAreDue

\* The ledgers stay as they are and no row changes its state or its fence.
LEMMA RowsAreKept ==
    ASSUME RCInv, UNCHANGED <<claims, outcomes>>, DOMAIN runs' = DOMAIN runs,
           \A id \in DOMAIN runs : /\ runs'[id] \in Run
                                   /\ runs'[id].state = runs[id].state
                                   /\ runs'[id].fence = runs[id].fence
    PROVE  LedgerRows' /\ Stories'
<1>1. LedgerRows'
  BY DEF RCInv, LedgerRows
<1>2. ASSUME NEW id \in DOMAIN runs PROVE Story(id, runs'[id], claims', outcomes')
  <2>1. Story(id, runs[id], claims, outcomes) /\ runs[id] \in Run
    BY <1>2 DEF RCInv, Stories, RunTypes
  <2>2. Story(id, runs'[id], claims \union {}, outcomes \union {})
    BY <1>2, <2>1, StoryIsUntouched
  <2>3. claims' = claims \union {} /\ outcomes' = outcomes \union {}
    OBVIOUS
  <2> QED  BY <2>2, <2>3
<1> QED  BY <1>1, <1>2 DEF Stories

\* A step of the deployment target leaves the rows that runs refer to.
LEMMA TargetStepKeeps ==
    ASSUME RCInv, RDInv', UNCHANGED <<now, runVars>>,
           \A k \in DOMAIN history : k \in DOMAIN history' /\ history'[k] = history[k]
    PROVE  RCInv'
<1>1. UNCHANGED <<now, runs, claims, outcomes>>
  BY DEF runVars
<1>2. RunTypes'
  BY <1>1 DEF RCInv, RunTypes
<1>3. LedgerRows' /\ Stories'
  BY <1>1, RowsAreKept DEF RCInv, RunTypes
<1>4. RunsAreDue'
  BY <1>1 DEF RCInv, RunTypes, RunsAreDue, DueAt, ScheduleOf
<1> QED  BY <1>2, <1>3, <1>4 DEF RCInv

LEMMA TargetUntouched ==
    ASSUME RDInv, UNCHANGED rdVars
    PROVE  RDInv'
  BY DEF rdVars, RDInv, RDTypeOK, HistoryStrictlyOrdered, ReceiptChain, DeployedUnderProfile

\* A step of the runs keeps their set, or adds due ones.
LEMMA RunsStepKeeps ==
    ASSUME RCInv, UNCHANGED rdVars, RunTypes', LedgerRows', Stories',
           \A id \in DOMAIN runs' : id \in DOMAIN runs \/ DueAt(id) <= now, now <= now'
    PROVE  RCInv'
<1>1. RDInv'
  BY TargetUntouched DEF RCInv
<1>2. RunsAreDue'
  <2> SUFFICES ASSUME NEW id \in DOMAIN runs' PROVE DueAt(id)' <= now'
    BY DEF RunsAreDue
  <2>1. DueAt(id) <= now
    BY DEF RCInv, RunsAreDue
  <2>2. DueAt(id)' = DueAt(id)
    BY DEF DueAt, ScheduleOf, rdVars
  <2>3. id \in RunId /\ id[1] \in DOMAIN history
    BY DEF RunTypes, rdVars
  <2>4. DueAt(id) \in Int
    BY <2>3, RowsAreDeployments DEF DueAt, RunId, ScheduleConfiguration, RCInv, RDInv
  <2>5. now \in Int /\ now' \in Int
    BY DEF RCInv, RunTypes
  <2> QED  BY <2>1, <2>2, <2>4, <2>5
<1> QED  BY <1>1, <1>2 DEF RCInv

LEMMA DeployKeeps ==
    ASSUME RCInv, NEW op \in 1 .. MaxOp, NEW c \in Configs, NEW t \in 0 .. MaxNow,
           Deploy(op, c, t)
    PROVE  RCInv' /\ AppendOnlyStep
<1> DEFINE req == [op |-> op, rev |-> op, config |-> c, fence |-> 1]
<1>1. req \in Request /\ t \in Nat
  BY DEF Request
<1>2. EnsureApplied(req, t) /\ UNCHANGED <<now, runVars>>
  BY DEF Deploy
<1> HIDE DEF req
<1>3. RDInv'
  BY <1>1, <1>2, EnsureAppliedPreserves DEF RCInv
<1>4. AppendOnlyStep
  BY <1>1, <1>2, EnsureAppliedAppends DEF RCInv, RDInv
<1> QED  BY <1>2, <1>3, <1>4, TargetStepKeeps DEF AppendOnlyStep

LEMMA NewProfileKeeps ==
    ASSUME RCInv, NEW p \in Profiles, NewProfile(p)
    PROVE  RCInv' /\ AppendOnlyStep
<1>1. RegisterProfile(p) /\ UNCHANGED <<now, runVars>>
  BY DEF NewProfile
<1>2. RDInv'
  BY <1>1
  DEF RegisterProfile, RCInv, RDInv, RDTypeOK, HistoryStrictlyOrdered, ReceiptChain,
      DeployedUnderProfile
<1>3. UNCHANGED <<history, highest>>
  BY <1>1 DEF RegisterProfile
<1>4. AppendOnlyStep
  BY <1>3, UnchangedAppends DEF RCInv, RDInv
<1> QED  BY <1>1, <1>2, <1>4, TargetStepKeeps DEF AppendOnlyStep

\* The runs that materialize_due_runs appends: their windows are due.
LEMMA NewRunsAreDue ==
    ASSUME RCInv, NEW horizon \in 0 .. now, NEW id \in NewRuns(horizon)
    PROVE  /\ id \in RunId /\ id \notin DOMAIN runs
           /\ id[1] \in DOMAIN history
           /\ WindowIsDue(id[1], id[2], horizon)
<1>1. PICK k \in DOMAIN history : \E e \in DueWindowEnds(k, horizon) : id = <<k, e>>
  BY DEF NewRuns, DueRuns
<1>2. PICK e \in DueWindowEnds(k, horizon) : id = <<k, e>>
  BY <1>1
<1>3. horizon \in Nat
  BY DEF RCInv, RunTypes
<1>4. e \in Nat /\ WindowIsDue(k, e, horizon)
  BY <1>3, DueWindows DEF RCInv, RDInv
<1>5. k \in Nat \ {0}
  BY RowsAreDeployments DEF RCInv, RDInv
<1>6. id \notin DOMAIN runs
  BY DEF NewRuns
<1> QED  BY <1>2, <1>4, <1>5, <1>6 DEF RunId

LEMMA MaterializeKeeps ==
    ASSUME RCInv, NEW horizon \in 0 .. now, Materialize(horizon)
    PROVE  RCInv'
<1>1. /\ DOMAIN runs' = DOMAIN runs \union NewRuns(horizon)
      /\ \A id \in DOMAIN runs' :
           runs'[id] = IF id \in DOMAIN runs THEN runs[id] ELSE PendingRun
      /\ UNCHANGED <<rdVars, now, claims, outcomes>>
  BY DEF Materialize, AppendRuns
<1>2. PendingRun \in Run /\ PendingRun.state = "pending" /\ PendingRun.fence = 0
  BY DEF PendingRun, Run
<1>3. RunTypes'
  BY <1>1, <1>2, NewRunsAreDue DEF RCInv, RunTypes, rdVars
<1>4. LedgerRows'
  BY <1>1 DEF RCInv, LedgerRows
<1>5. Stories'
  <2> SUFFICES ASSUME NEW id \in DOMAIN runs' PROVE Story(id, runs'[id], claims', outcomes')
    BY DEF Stories
  <2>1. CASE id \in DOMAIN runs
    <3>1. runs'[id] = runs[id] /\ claims' = claims /\ outcomes' = outcomes
      BY <1>1, <2>1
    <3> QED  BY <2>1, <3>1 DEF RCInv, Stories
  <2>2. CASE id \notin DOMAIN runs
    <3>1. runs'[id] = PendingRun /\ claims' = claims /\ outcomes' = outcomes
      BY <1>1, <2>2
    <3>2. (\A c \in claims : c.run # id) /\ (\A o \in outcomes : o.run # id)
      BY <2>2 DEF RCInv, LedgerRows
    <3> QED  BY <1>2, <3>1, <3>2 DEF Story
  <2> QED  BY <2>1, <2>2
<1>6. ASSUME NEW id \in DOMAIN runs' PROVE id \in DOMAIN runs \/ DueAt(id) <= now
  <2>1. CASE id \in NewRuns(horizon)
    <3>1. WindowIsDue(id[1], id[2], horizon) /\ id \in RunId /\ id[1] \in DOMAIN history
      BY <2>1, NewRunsAreDue
    <3>2. ScheduleOf(id[1]) \in ScheduleConfiguration
      BY <3>1, RowsAreDeployments DEF RCInv, RDInv
    <3>3. id[2] + ScheduleOf(id[1]).lag <= horizon
      BY <3>1 DEF WindowIsDue
    <3> QED  BY <3>1, <3>2, <3>3 DEF DueAt, RCInv, RunTypes, RunId, ScheduleConfiguration
  <2> QED  BY <1>1, <2>1
<1>7. now <= now'
  BY <1>1 DEF RCInv, RunTypes
<1> QED  BY <1>1, <1>3, <1>4, <1>5, <1>6, <1>7, RunsStepKeeps

LEMMA ClaimNextRunKeeps ==
    ASSUME RCInv, NEW w \in Workers, NEW d \in ClockError, NEW exhausted, NEW claimed,
           ClaimNextRun(w, exhausted, claimed, d)
    PROVE  RCInv'
<1>1. /\ exhausted \subseteq Exhausted(d) /\ claimed \subseteq Claimable(d)
      /\ \A i, j \in exhausted : i = j
      /\ \A i, j \in claimed : i = j
  BY DEF ClaimNextRun, LimitOne
<1>2. /\ DOMAIN runs' = DOMAIN runs
      /\ \A id \in DOMAIN runs :
           runs'[id] = IF id \in exhausted THEN Closed(runs[id], "failed", FALSE, 0)
                       ELSE IF id \in claimed THEN ClaimedRun(runs[id], w, d)
                       ELSE runs[id]
      /\ outcomes' = outcomes \union
                       {Outcome(id, runs[id].fence, "failed") : id \in exhausted}
      /\ claims' = claims \union {Claim(id, w, runs[id].fence + 1) : id \in claimed}
      /\ UNCHANGED <<rdVars, now>>
  BY DEF ClaimNextRun, RecordExhausted
<1> DEFINE D == {Claim(id, w, runs[id].fence + 1) : id \in claimed}
           Y == {Outcome(id, runs[id].fence, "failed") : id \in exhausted}
<1>3. \A id \in exhausted :
        /\ id \in DOMAIN runs /\ runs[id].state = "leased"
        /\ runs[id].fence >= MaxRunAttempts
  BY <1>1 DEF Exhausted, Expired
<1>4. \A id \in claimed :
        /\ id \in DOMAIN runs /\ runs[id].state # "succeeded"
        /\ runs[id].fence < MaxRunAttempts
  BY <1>1 DEF Claimable, Expired
<1>5. \A id \in DOMAIN runs : runs[id] \in Run /\ runs[id].fence \in 0 .. MaxRunAttempts
  BY DEF RCInv, RunTypes, Run
<1>6. \A id \in exhausted : id \notin claimed
  BY <1>3, <1>4, <1>5
<1>7. /\ \A id : id \notin claimed => \A c \in D : c.run # id
      /\ \A id : id \notin exhausted => \A o \in Y : o.run # id
      /\ \A id \in claimed : D = {Claim(id, w, runs[id].fence + 1)}
      /\ \A id \in exhausted : Y = {Outcome(id, runs[id].fence, "failed")}
  BY <1>1 DEF Claim, Outcome
<1>8. D \subseteq [run : DOMAIN runs, fence : Nat, by : Workers]
  BY <1>4, <1>5 DEF Claim
<1>9. Y \subseteq [run : DOMAIN runs, fence : Nat, what : {"succeeded", "failed"}]
  BY <1>3, <1>5 DEF Outcome
<1>10. claims' = claims \union D /\ outcomes' = outcomes \union Y
  BY <1>2
<1> HIDE DEF D, Y
<1>11. LedgerRows'
  BY <1>2, <1>8, <1>9, <1>10 DEF RCInv, LedgerRows
<1>12. ASSUME NEW id \in DOMAIN runs
       PROVE  runs'[id] \in Run /\ Story(id, runs'[id], claims', outcomes')
  <2>1. Story(id, runs[id], claims, outcomes)
    BY DEF RCInv, Stories
  <2>2. CASE id \in exhausted
    <3>1. runs'[id] = Closed(runs[id], "failed", FALSE, 0)
      BY <1>2, <2>2
    <3>2. runs[id].fence \in 1 .. runs[id].fence
      BY <1>3, <1>5, <2>2
    <3>3. \A c \in D : c.run # id
      BY <1>6, <1>7, <2>2
    <3>0. /\ runs'[id] \in Run /\ runs'[id].state = "failed"
          /\ runs'[id].fence = runs[id].fence
      <4>1. PICK no \in BOOLEAN : no = FALSE
        OBVIOUS
      <4>2. runs'[id] = Closed(runs[id], "failed", no, 0)
        BY <3>1, <4>1
      <4> QED  BY <1>5, <4>2, ClosedRow
    <3>4. Story(id, runs'[id], claims \union D,
                outcomes \union {Outcome(id, runs[id].fence, "failed")})
      BY <1>3, <1>5, <2>1, <2>2, <3>0, <3>2, <3>3, StoryOfClosure
    <3> QED  BY <1>7, <1>10, <2>2, <3>0, <3>4
  <2>3. CASE id \in claimed
    <3>1. runs'[id] = ClaimedRun(runs[id], w, d)
      BY <1>2, <1>6, <2>3
    <3>2. \A o \in Y : o.run # id
      BY <1>6, <1>7, <2>3
    <3>3. /\ ClaimedRun(runs[id], w, d) \in Run
          /\ Story(id, ClaimedRun(runs[id], w, d),
                   claims \union {Claim(id, w, runs[id].fence + 1)}, outcomes \union Y)
      BY <1>4, <1>5, <2>1, <2>3, <3>2, StoryOfClaim
    <3> QED  BY <1>7, <1>10, <2>3, <3>1, <3>3
  <2>4. CASE id \notin exhausted /\ id \notin claimed
    <3>1. runs'[id] = runs[id]
      BY <1>2, <2>4
    <3>2. (\A c \in D : c.run # id) /\ (\A o \in Y : o.run # id)
      BY <1>7, <2>4
    <3>3. Story(id, runs[id], claims \union D, outcomes \union Y)
      BY <1>5, <2>1, <3>2, StoryIsUntouched
    <3> QED  BY <1>5, <1>10, <3>1, <3>3
  <2> QED  BY <2>2, <2>3, <2>4
<1>13. RunTypes' /\ Stories'
  BY <1>2, <1>12 DEF RCInv, RunTypes, Stories, rdVars
<1>14. now <= now'
  BY <1>2 DEF RCInv, RunTypes
<1> QED  BY <1>2, <1>11, <1>13, <1>14, RunsStepKeeps

\* complete_run and fail_run close the lease that the claim was given, or nothing.
LEMMA ClosureKeeps ==
    ASSUME RCInv, NEW id \in DOMAIN runs, NEW claim \in claims, claim.run = id,
           NEW w, NEW d, HoldsRun(w, id, claim.fence, d),
           NEW what \in {"succeeded", "failed"}, NEW retry \in BOOLEAN, NEW left \in Int,
           runs' = [runs EXCEPT ![id] = Closed(runs[id], what, retry, left)],
           outcomes' = outcomes \union {Outcome(id, claim.fence, what)},
           UNCHANGED <<rdVars, now, claims>>
    PROVE  RCInv'
<1> DEFINE n == Closed(runs[id], what, retry, left)
           outcome == Outcome(id, claim.fence, what)
<1>1. runs[id].state = "leased" /\ runs[id].fence = claim.fence
  BY DEF HoldsRun
<1>2. \A i \in DOMAIN runs : runs[i] \in Run /\ Story(i, runs[i], claims, outcomes)
  BY DEF RCInv, RunTypes, Stories
<1>3. runs[id].fence \in 1 .. runs[id].fence
  BY <1>1, <1>2 DEF Story
<1>4. n \in Run /\ Story(id, n, claims \union {}, outcomes \union {outcome})
  <2>0. runs[id] \in Run
    BY <1>2
  <2>1. n \in Run /\ n.state = what /\ n.fence = runs[id].fence
    BY <2>0 DEF Closed, Run
  <2>2. outcome = Outcome(id, runs[id].fence, what)
    BY <1>1
  <2> HIDE DEF n, outcome
  <2> QED  BY <1>1, <1>2, <1>3, <2>1, <2>2, StoryOfClosure
<1>5. /\ outcome.run = id
      /\ outcome \in [run : DOMAIN runs, fence : Nat, what : {"succeeded", "failed"}]
  BY DEF Outcome, RCInv, LedgerRows
<1> HIDE DEF n, outcome
<1>6. /\ DOMAIN runs' = DOMAIN runs
      /\ \A i \in DOMAIN runs : runs'[i] = IF i = id THEN n ELSE runs[i]
  BY DEF n
<1>7. claims' = claims \union {} /\ outcomes' = outcomes \union {outcome}
  BY DEF outcome
<1>8. LedgerRows'
  BY <1>5, <1>6, <1>7 DEF RCInv, LedgerRows
<1>9. ASSUME NEW i \in DOMAIN runs
      PROVE  runs'[i] \in Run /\ Story(i, runs'[i], claims', outcomes')
  <2>1. CASE i = id
    BY <1>4, <1>6, <1>7, <2>1
  <2>2. CASE i # id
    <3>1. runs'[i] = runs[i]
      BY <1>6, <2>2
    <3>2. Story(i, runs[i], claims \union {}, outcomes \union {outcome})
      BY <1>2, <1>5, <2>2, StoryIsUntouched
    <3> QED  BY <1>2, <1>7, <3>1, <3>2
  <2> QED  BY <2>1, <2>2
<1>10. RunTypes' /\ Stories'
  BY <1>6, <1>9 DEF RCInv, RunTypes, Stories, rdVars
<1>11. now <= now'
  BY DEF RCInv, RunTypes
<1> QED  BY <1>6, <1>8, <1>10, <1>11, RunsStepKeeps

LEMMA RunStepKeeps ==
    ASSUME RCInv, NEW w \in Workers, NEW d \in ClockError, RunStep(w, d)
    PROVE  RCInv'
<1>1. ASSUME NEW x, NEW c, ClaimNextRun(w, x, c, d) PROVE RCInv'
  BY <1>1, ClaimNextRunKeeps
<1>2. ASSUME NEW claim \in claims, CompleteRun(w, claim.run, claim.fence, d)
      PROVE  RCInv'
  <2>1. claim.run \in DOMAIN runs
    BY <1>2 DEF RCInv, LedgerRows
  <2>2. /\ HoldsRun(w, claim.run, claim.fence, d)
        /\ runs' = [runs EXCEPT ![claim.run] =
                       Closed(runs[claim.run], "succeeded", FALSE, 0)]
        /\ outcomes' = outcomes \union {Outcome(claim.run, claim.fence, "succeeded")}
        /\ UNCHANGED <<rdVars, now, claims>>
    BY <1>2 DEF CompleteRun, MayClose
  <2>3. FALSE \in BOOLEAN /\ 0 \in Int
    OBVIOUS
  <2> QED  BY <1>2, <2>1, <2>2, <2>3, ClosureKeeps
<1>3. ASSUME NEW claim \in claims, NEW delay \in 0 .. MaxRunRetry,
             FailRun(w, claim.run, claim.fence, delay, d)
      PROVE  RCInv'
  <2> DEFINE retry == delay # 0 /\ runs[claim.run].fence < MaxRunAttempts
             left == IF retry THEN delay + d ELSE 0
  <2>1. claim.run \in DOMAIN runs
    BY <1>3 DEF RCInv, LedgerRows
  <2>2. retry \in BOOLEAN /\ left \in Int
    BY <1>3 DEF ClockError
  <2>3. /\ HoldsRun(w, claim.run, claim.fence, d)
        /\ runs' = [runs EXCEPT ![claim.run] = Closed(runs[claim.run], "failed", retry, left)]
        /\ outcomes' = outcomes \union {Outcome(claim.run, claim.fence, "failed")}
        /\ UNCHANGED <<rdVars, now, claims>>
    BY <1>3 DEF FailRun, MayClose
  <2> HIDE DEF retry, left
  <2> QED  BY <1>3, <2>1, <2>2, <2>3, ClosureKeeps
<1> QED  BY <1>1, <1>2, <1>3 DEF RunStep

LEMMA TickKeeps ==
    ASSUME RCInv, Tick
    PROVE  RCInv'
<1>1. /\ now' = IF now < MaxNow THEN now + 1 ELSE now
      /\ DOMAIN runs' = DOMAIN runs
      /\ \A id \in DOMAIN runs : runs'[id] = Elapsed(runs[id])
      /\ UNCHANGED <<rdVars, claims, outcomes>>
  BY DEF Tick
<1>2. \A r \in Run : /\ Elapsed(r) \in Run /\ Elapsed(r).state = r.state
                     /\ Elapsed(r).fence = r.fence
  BY DEF Elapsed, Run
<1>3. LedgerRows' /\ Stories'
  BY <1>1, <1>2, RowsAreKept DEF RCInv, RunTypes
<1>4. now' \in 0 .. MaxNow /\ now <= now'
  BY <1>1 DEF RCInv, RunTypes
<1>5. RunTypes'
  BY <1>1, <1>2, <1>4 DEF RCInv, RunTypes, rdVars
<1> QED  BY <1>1, <1>3, <1>4, <1>5, RunsStepKeeps

LEMMA CatalogKeepsInv ==
    ASSUME RCInv, [RCNext]_rcVars
    PROVE  RCInv'
<1>1. CASE UNCHANGED rcVars
  <2>1. UNCHANGED <<rdVars, now, runVars>>
    BY <1>1 DEF rcVars
  <2> QED  BY <2>1, TargetUntouched, TargetStepKeeps DEF RCInv, rdVars
<1> QED
  BY <1>1, NewProfileKeeps, DeployKeeps, MaterializeKeeps, RunStepKeeps, TickKeeps DEF RCNext

LEMMA CatalogIsInductive == RCSpec => []RCInv
<1>1. RCInit => RCInv  BY CatalogInitially
<1>2. RCInv /\ [RCNext]_rcVars => RCInv'  BY CatalogKeepsInv
<1> QED  BY <1>1, <1>2, PTL DEF RCSpec

\* For any number of workers, runs and attempts and any error of the clocks below the
\* lease time, the rows written by claim_next_run, complete_run, fail_run and
\* materialize_due_runs are well-formed, and the claim and outcome ledgers of every run
\* tell what its row says.
THEOREM LedgersTellTheStory == RCSpec => []RunsAreAccounted
<1>1. RCInv => RunsAreAccounted
  BY StoriesAreLedgers
  DEF RCInv, RDInv, RunTypes, LedgerRows, RunsAreAccounted, RCTypeOK
<1> QED  BY <1>1, CatalogIsInductive, PTL

----------------------------------------------------------------------------
(* Windows and deployments *)

\* How the history moves in one step: not at all, or by a row that is appended and is
\* not applied before its transaction began.
LEMMA HistoryMoves ==
    ASSUME RCInv, [RCNext]_rcVars
    PROVE  \/ UNCHANGED history
           \/ /\ UNCHANGED <<now, runs>>
              /\ Len(history') = Len(history) + 1
              /\ \A k \in 1 .. Len(history) : history'[k] = history[k]
              /\ history'[Len(history) + 1].appliedAt \in Nat
              /\ history'[Len(history) + 1].appliedAt >= now - MaxCommitDelay
<1>1. ASSUME NEW op \in 1 .. MaxOp, NEW c \in Configs, NEW t \in 0 .. MaxNow,
             Deploy(op, c, t), ~UNCHANGED history
      PROVE  /\ UNCHANGED <<now, runs>>
             /\ Len(history') = Len(history) + 1
             /\ \A k \in 1 .. Len(history) : history'[k] = history[k]
             /\ history'[Len(history) + 1].appliedAt \in Nat
             /\ history'[Len(history) + 1].appliedAt >= now - MaxCommitDelay
  <2> DEFINE req == [op |-> op, rev |-> op, config |-> c, fence |-> 1]
  <2>1. req \in Request /\ t \in Nat /\ t >= now - MaxCommitDelay
    BY <1>1 DEF Request, Deploy, RCInv, RunTypes
  <2>2. Verdict(req) = "inserted" /\ InsertDeployment(req, t) /\ UNCHANGED <<now, runs>>
    BY <1>1 DEF Deploy, EnsureApplied, RaiseFence, runVars
  <2> HIDE DEF req
  <2>3. /\ history \in Seq(Deployment) /\ Len(history) \in Nat
        /\ current = Len(history)
    BY RowsAreDeployments DEF RCInv, RDInv, RDTypeOK, ReceiptChain
  <2>4. /\ Len(history') = Len(history) + 1
        /\ \A k \in 1 .. Len(history) : history'[k] = history[k]
        /\ history'[Len(history) + 1] = NewDeployment(req, t)
    BY <2>1, <2>2, InsertWrites DEF RCInv, RDInv
  <2>5. current # 0 => history[current].appliedAt \in Nat
    BY <2>3, RowsAreDeployments DEF RCInv, RDInv, Deployment
  <2>6. AppliedAt(t) \in Nat /\ AppliedAt(t) >= t
    BY <2>1, <2>5 DEF AppliedAt
  <2>7. NewDeployment(req, t).appliedAt = AppliedAt(t)
    BY DEF NewDeployment
  <2>8. AppliedAt(t) >= now - MaxCommitDelay
    BY <2>1, <2>6 DEF RCInv, RunTypes
  <2> QED  BY <2>2, <2>4, <2>6, <2>7, <2>8
<1>2. ASSUME NEW p \in Profiles, NewProfile(p) PROVE UNCHANGED history
  BY <1>2 DEF NewProfile, RegisterProfile
<1>3. ASSUME NEW horizon \in 0 .. now, Materialize(horizon) PROVE UNCHANGED history
  BY <1>3 DEF Materialize, rdVars
<1>4. ASSUME NEW w \in Workers, NEW d \in ClockError, RunStep(w, d) PROVE UNCHANGED history
  BY <1>4 DEF RunStep, ClaimNextRun, CompleteRun, FailRun, rdVars
<1>5. CASE Tick
  BY <1>5 DEF Tick, rdVars
<1>6. CASE UNCHANGED rcVars
  BY <1>6 DEF rcVars, rdVars
<1> QED  BY <1>1, <1>2, <1>3, <1>4, <1>5, <1>6 DEF RCNext

\* How the runs move: none is lost, and the new ones have due windows.
LEMMA RunsMove ==
    ASSUME RCInv, [RCNext]_rcVars, NEW id \in DOMAIN runs'
    PROVE  \/ id \in DOMAIN runs
           \/ UNCHANGED history /\ id \in RunId /\ id[1] \in DOMAIN history
              /\ \E horizon \in 0 .. now : WindowIsDue(id[1], id[2], horizon)
<1>1. ASSUME NEW horizon \in 0 .. now, Materialize(horizon), id \notin DOMAIN runs
      PROVE  /\ UNCHANGED history /\ id \in RunId /\ id[1] \in DOMAIN history
             /\ \E h \in 0 .. now : WindowIsDue(id[1], id[2], h)
  <2>1. id \in NewRuns(horizon) /\ UNCHANGED history
    BY <1>1 DEF Materialize, AppendRuns, rdVars
  <2> QED  BY <2>1, NewRunsAreDue
<1>2. ASSUME NEW p \in Profiles, NewProfile(p) PROVE DOMAIN runs' = DOMAIN runs
  BY <1>2 DEF NewProfile, runVars
<1>3. ASSUME NEW op, NEW c, NEW t, Deploy(op, c, t) PROVE DOMAIN runs' = DOMAIN runs
  BY <1>3 DEF Deploy, runVars
<1>4. ASSUME NEW w \in Workers, NEW d \in ClockError, RunStep(w, d)
      PROVE  DOMAIN runs' = DOMAIN runs
  BY <1>4 DEF RunStep, ClaimNextRun, CompleteRun, FailRun
<1>5. CASE Tick
  BY <1>5 DEF Tick
<1>6. CASE UNCHANGED rcVars
  BY <1>6 DEF rcVars, runVars
<1> QED  BY <1>1, <1>2, <1>3, <1>4, <1>5, <1>6 DEF RCNext

LEMMA WindowsKeepTheirDeployment ==
    ASSUME RCInv, WindowsBelongToOneDeployment, [RCNext]_rcVars,
           \A c \in Configs : Schedule[c].lag >= MaxCommitDelay
    PROVE  WindowsBelongToOneDeployment'
<1> SUFFICES ASSUME NEW id \in DOMAIN runs'
             PROVE  /\ history'[id[1]].appliedAt
                         <= id[2] - Schedule[history'[id[1]].config].window
                    /\ id[1] < Len(history') => id[2] <= history'[id[1] + 1].appliedAt
  BY DEF WindowsBelongToOneDeployment, ScheduleOf
<1>1. /\ DOMAIN history = 1 .. Len(history) /\ Len(history) \in Nat
      /\ \A k \in DOMAIN history :
           /\ history[k] \in Deployment /\ ScheduleOf(k) \in ScheduleConfiguration
           /\ ScheduleOf(k) = Schedule[history[k].config]
  BY RowsAreDeployments DEF RCInv, RDInv, ScheduleOf
<1>2. CASE id \in DOMAIN runs /\ UNCHANGED history
  BY <1>2 DEF WindowsBelongToOneDeployment, ScheduleOf
<1>3. CASE id \in DOMAIN runs /\ ~UNCHANGED history
  <2> DEFINE k == id[1]
             e == id[2]
             new == history'[Len(history) + 1].appliedAt
  <2>1. /\ UNCHANGED <<now, runs>>
        /\ Len(history') = Len(history) + 1
        /\ \A j \in 1 .. Len(history) : history'[j] = history[j]
        /\ new \in Nat /\ new >= now - MaxCommitDelay
    BY <1>3, HistoryMoves
  <2>2. k \in 1 .. Len(history) /\ e \in Nat /\ now \in Nat
    BY <1>1, <1>3 DEF RCInv, RunTypes, RunId
  <2>3. /\ history[k].appliedAt <= e - Schedule[history[k].config].window
        /\ k < Len(history) => e <= history[k + 1].appliedAt
    BY <1>3 DEF WindowsBelongToOneDeployment, ScheduleOf
  <2>4. e + ScheduleOf(k).lag <= now
    BY <1>3 DEF RCInv, RunsAreDue, DueAt
  <2>5. ScheduleOf(k).lag \in Nat /\ ScheduleOf(k).lag >= MaxCommitDelay
    BY <1>1, <2>2 DEF ScheduleConfiguration, Deployment
  <2> HIDE DEF k, e, new
  <2>6. e <= new
    BY <2>1, <2>2, <2>4, <2>5
  <2>7. k < Len(history') => e <= history'[k + 1].appliedAt
    <3>1. CASE k < Len(history)
      <4>1. k + 1 \in 1 .. Len(history)
        BY <1>1, <2>2, <3>1
      <4> QED  BY <2>1, <2>3, <3>1, <4>1
    <3>2. CASE k = Len(history)
      BY <2>6, <3>2 DEF new
    <3>3. k < Len(history) \/ k = Len(history)
      <4>1. \A n \in Nat : \A j \in 1 .. n : j < n \/ j = n
        OBVIOUS
      <4> QED  BY <1>1, <2>2, <4>1, Zenon
    <3> QED  BY <3>1, <3>2, <3>3
  <2>8. history'[k] = history[k]
    BY <2>1, <2>2
  <2> QED  BY <2>3, <2>7, <2>8 DEF k, e
<1>4. CASE id \notin DOMAIN runs
  <2> DEFINE k == id[1]
             e == id[2]
  <2>1. UNCHANGED history /\ id \in RunId /\ k \in DOMAIN history
    BY <1>4, RunsMove
  <2>2. PICK horizon \in 0 .. now : WindowIsDue(k, e, horizon)
    BY <1>4, RunsMove
  <2>3. e \in Nat /\ k \in Nat /\ history[k].appliedAt \in Nat /\ ScheduleOf(k).window \in Nat
    BY <1>1, <2>1 DEF RunId, Deployment, ScheduleConfiguration
  <2>4. /\ e - ScheduleOf(k).window >= history[k].appliedAt
        /\ k < Len(history) => e <= history[k + 1].appliedAt
    BY <2>2 DEF WindowIsDue
  <2>5. ScheduleOf(k) = Schedule[history[k].config]
    BY <1>1, <2>1
  <2> HIDE DEF k, e
  <2> QED  BY <2>1, <2>3, <2>4, <2>5 DEF k, e
<1> QED  BY <1>2, <1>3, <1>4

\* What a step may do to the windows: new runs are due by now, and a deployment cuts a window
\* only if it was applied longer ago than the lag that the run waited for.
LEMMA CutsAreLate ==
    ASSUME RCInv, [RCNext]_rcVars
    PROVE  CutIsLate
<1>1. ASSUME NEW id \in DOMAIN runs', id \notin DOMAIN runs
      PROVE  WindowIsDue(id[1], id[2], now)
  <2> DEFINE k == id[1]
             e == id[2]
  <2>1. id \in RunId /\ k \in DOMAIN history
    BY <1>1, RunsMove
  <2>2. PICK horizon \in 0 .. now : WindowIsDue(k, e, horizon)
    BY <1>1, RunsMove
  <2>3. ScheduleOf(k) \in ScheduleConfiguration
    BY <2>1, RowsAreDeployments DEF RCInv, RDInv
  <2>4. e \in Nat /\ ScheduleOf(k).lag \in Nat /\ now \in Nat
    BY <2>1, <2>3 DEF RunId, ScheduleConfiguration, RCInv, RunTypes
  <2>5. e + ScheduleOf(k).lag <= horizon
    BY <2>2 DEF WindowIsDue
  <2> HIDE DEF k, e
  <2>6. e + ScheduleOf(k).lag <= now
    BY <2>2, <2>4, <2>5
  <2>7. WindowIsDue(k, e, now)
    BY <2>2, <2>6 DEF WindowIsDue
  <2> QED  BY <2>7 DEF k, e
<1>2. ASSUME NEW id \in DOMAIN runs, Cut(id)', ~ Cut(id)
      PROVE  /\ id[1] = Len(history)
             /\ now - history'[Len(history')].appliedAt > ScheduleOf(id[1]).lag
  <2> DEFINE k == id[1]
             e == id[2]
             n == Len(history)
             new == history'[n + 1].appliedAt
  <2>1. k < Len(history') /\ e > history'[k + 1].appliedAt
    BY <1>2 DEF Cut
  <2>2. ~ (k < n /\ e > history[k + 1].appliedAt)
    BY <1>2 DEF Cut
  <2>3. ~ UNCHANGED history
    BY <2>1, <2>2
  <2>4. /\ Len(history') = n + 1 /\ new \in Nat
        /\ \A j \in 1 .. n : history'[j] = history[j]
    BY <2>3, HistoryMoves
  <2>5. /\ k \in 1 .. n /\ e \in Nat /\ now \in Nat /\ n \in Nat
        /\ ScheduleOf(k) \in ScheduleConfiguration
    BY RowsAreDeployments DEF RCInv, RDInv, RunTypes, RunId
  <2>6. ScheduleOf(k).lag \in Nat
    BY <2>5 DEF ScheduleConfiguration
  <2>7. e + ScheduleOf(k).lag <= now
    BY DEF RCInv, RunsAreDue, DueAt
  <2> HIDE DEF k, e, n, new
  <2>8. ~ (k < n)
    <3> SUFFICES ASSUME k < n PROVE FALSE
      OBVIOUS
    <3>1. k + 1 \in 1 .. n
      BY <2>5
    <3>2. history'[k + 1] = history[k + 1]
      BY <2>4, <3>1
    <3> QED  BY <2>1, <2>2, <3>2
  <2>9. k = n
    BY <2>5, <2>8
  <2>10. e > new
    BY <2>1, <2>9 DEF new
  <2>11. now - new > ScheduleOf(k).lag
    BY <2>4, <2>5, <2>6, <2>7, <2>10
  <2> QED  BY <2>4, <2>9, <2>11 DEF k, n, new
<1> QED  BY <1>1, <1>2 DEF CutIsLate

\* Runs are made for exactly the windows the documentation defines, for every schedule and at
\* every horizon, and a window that was handed out is cut only by a deployment whose
\* transaction was open for longer than the collection lag of the run.  Nothing is assumed of
\* the lag, which may be 0, nor of how long a transaction takes (due_window_ends,
\* materialize_due_runs, ensure_applied).
THEOREM WindowsAreWhole == RCSpec => WindowsAreExact
<1>1. RCInv => WindowArithmetic
  <2> SUFFICES ASSUME RCInv, NEW k \in DOMAIN history, NEW horizon \in 0 .. now
               PROVE  DueWindowEnds(k, horizon)
                        = {e \in 0 .. horizon : WindowIsDue(k, e, horizon)}
    BY DEF WindowArithmetic
  <2>1. horizon \in Nat
    BY DEF RCInv, RunTypes
  <2> QED  BY <2>1, DueWindows DEF RCInv, RDInv
<1>2. RCInv' => WindowArithmetic'
  BY <1>1, PTL
<1>3. RCInv /\ RCInv' /\ [RCNext]_rcVars
        => [CutIsLate /\ (UNCHANGED <<history, now>> \/ WindowArithmetic')]_rcVars
  BY <1>2, CutsAreLate
<1> QED  BY <1>3, CatalogIsInductive, PTL DEF RCSpec, WindowsAreExact

\* What a deployment of this system has to see to: if no transaction takes longer to commit
\* than the collection lag of any schedule, the promise of the documentation holds.
THEOREM LagKeepsThePromise ==
    ASSUME \A c \in Configs : Schedule[c].lag >= MaxCommitDelay
    PROVE  RCSpec => []WindowsBelongToOneDeployment
<1>1. RCInit => WindowsBelongToOneDeployment
  BY DEF RCInit, WindowsBelongToOneDeployment
<1>2. RCInv /\ WindowsBelongToOneDeployment /\ [RCNext]_rcVars
        => WindowsBelongToOneDeployment'
  BY WindowsKeepTheirDeployment
<1> QED  BY <1>1, <1>2, CatalogIsInductive, PTL DEF RCSpec

----------------------------------------------------------------------------
(* What is never rewritten *)

LEMMA EndedStay ==
    ASSUME RCInv, [RCNext]_rcVars
    PROVE  EndedRunsStayStep
<1> SUFFICES ASSUME NEW id \in DOMAIN runs, Ended(runs[id])
             PROVE  id \in DOMAIN runs' /\ runs'[id] = runs[id]
  BY DEF EndedRunsStayStep
<1>1. /\ runs[id].state # "leased" /\ runs[id].state # "pending"
      /\ ~(runs[id].state = "failed" /\ runs[id].retry)
  BY DEF Ended
<1>2. ASSUME NEW p \in Profiles, NewProfile(p) PROVE UNCHANGED runs
  BY <1>2 DEF NewProfile, runVars
<1>3. ASSUME NEW op, NEW c, NEW t, Deploy(op, c, t) PROVE UNCHANGED runs
  BY <1>3 DEF Deploy, runVars
<1>4. ASSUME NEW horizon \in 0 .. now, Materialize(horizon)
      PROVE  id \in DOMAIN runs' /\ runs'[id] = runs[id]
  BY <1>4 DEF Materialize, AppendRuns
<1>5. ASSUME NEW w \in Workers, NEW d \in ClockError, NEW x, NEW c, ClaimNextRun(w, x, c, d)
      PROVE  id \in DOMAIN runs' /\ runs'[id] = runs[id]
  <2>1. x \subseteq Exhausted(d) /\ c \subseteq Claimable(d)
    BY <1>5 DEF ClaimNextRun, LimitOne
  <2>2. id \notin x /\ id \notin c
    BY <1>1, <2>1 DEF Exhausted, Claimable, Expired
  <2> QED  BY <1>5, <2>2 DEF ClaimNextRun
<1>6. ASSUME NEW w, NEW d, NEW i, NEW f, CompleteRun(w, i, f, d)
      PROVE  id \in DOMAIN runs' /\ runs'[id] = runs[id]
  BY <1>1, <1>6 DEF CompleteRun, MayClose, HoldsRun
<1>7. ASSUME NEW w, NEW d, NEW i, NEW f, NEW delay, FailRun(w, i, f, delay, d)
      PROVE  id \in DOMAIN runs' /\ runs'[id] = runs[id]
  BY <1>1, <1>7 DEF FailRun, MayClose, HoldsRun
<1>8. CASE Tick
  <2>1. ~Timed(runs[id])
    BY <1>1 DEF Timed
  <2> QED  BY <1>8, <2>1 DEF Tick, Elapsed
<1>9. CASE UNCHANGED rcVars
  BY <1>9 DEF rcVars, runVars
<1> QED
  BY <1>2, <1>3, <1>4, <1>5, <1>6, <1>7, <1>8, <1>9 DEF RCNext, RunStep

LEMMA HistoryIsAppended ==
    ASSUME RCInv, [RCNext]_rcVars
    PROVE  AppendOnlyStep
<1>1. ASSUME UNCHANGED rdVars PROVE AppendOnlyStep
  BY <1>1, UnchangedAppends DEF RCInv, RDInv, rdVars
<1>2. ASSUME NEW horizon \in 0 .. now, Materialize(horizon) PROVE UNCHANGED rdVars
  BY <1>2 DEF Materialize
<1>3. ASSUME NEW w \in Workers, NEW d \in ClockError, RunStep(w, d) PROVE UNCHANGED rdVars
  BY <1>3 DEF RunStep, ClaimNextRun, CompleteRun, FailRun
<1>4. CASE Tick
  BY <1>1, <1>4 DEF Tick
<1>5. CASE UNCHANGED rcVars
  BY <1>1, <1>5 DEF rcVars
<1> QED
  BY <1>1, <1>2, <1>3, <1>4, <1>5, NewProfileKeeps, DeployKeeps DEF RCNext

\* No worker, however late, no exhausted lease and no materialization rewrites a run
\* that has ended, and none of them nor any deployment rewrites a committed row of the
\* history.
THEOREM CatalogRewritesNothing == RCSpec => NothingIsRewritten
<1>1. RCInv /\ [RCNext]_rcVars => [AppendOnlyStep]_rdVars
  BY HistoryIsAppended
<1>2. RCInv /\ [RCNext]_rcVars => [EndedRunsStayStep]_rcVars
  BY EndedStay
<1> QED
  BY <1>1, <1>2, CatalogIsInductive, PTL
  DEF RCSpec, NothingIsRewritten, AppendOnly, EndedRunsStay

\* The target's history stays one chain inside the catalog, where transactions commit
\* late and their timestamps run backwards.
THEOREM CatalogHistoryInOneChain == RCSpec => []HistoryIsOneChain
<1>1. RCInv => HistoryIsOneChain
  BY DEF RCInv, RDInv, HistoryIsOneChain
<1> QED  BY <1>1, CatalogIsInductive, PTL

----------------------------------------------------------------------------
(* The worker processes *)

Holding == {"executing", "executed", "unable", "refused"}

\* The inductive invariant: what a process holds between claim and closure is a claim
\* of the ledger, which the catalog alone lets close a run.
RWInv == RCInv /\ RWTypeOK /\ DOMAIN held = Workers

LEMMA WorkersInitially == RWInit => RWInv
<1> SUFFICES ASSUME RWInit PROVE RWInv
  OBVIOUS
<1>1. RCInv
  BY CatalogInitially DEF RWInit
<1> QED  BY <1>1 DEF RWInit, RWInv, RWTypeOK, PC

LEMMA ClaimsAreKept ==
    ASSUME [RCNext]_rcVars
    PROVE  claims \subseteq claims'
<1>1. ASSUME NEW w, NEW d, RunStep(w, d) PROVE claims \subseteq claims'
  BY <1>1 DEF RunStep, ClaimNextRun, CompleteRun, FailRun
<1>2. ASSUME NEW horizon, Materialize(horizon) PROVE claims \subseteq claims'
  BY <1>2 DEF Materialize
<1>3. ASSUME NEW op, NEW c, NEW t, Deploy(op, c, t) PROVE claims \subseteq claims'
  BY <1>3 DEF Deploy, runVars
<1>4. ASSUME NEW p, NewProfile(p) PROVE claims \subseteq claims'
  BY <1>4 DEF NewProfile, runVars
<1>5. CASE Tick
  BY <1>5 DEF Tick
<1>6. CASE UNCHANGED rcVars
  BY <1>6 DEF rcVars, runVars
<1> QED  BY <1>1, <1>2, <1>3, <1>4, <1>5, <1>6 DEF RCNext

\* 2 ^ n counts the subsets of 1 .. n.
LEMMA PowersAreNatural ==
    ASSUME NEW n \in Nat
    PROVE  2 ^ n \in Nat
<1>1. IsFiniteSet(1 .. n) /\ Cardinality(1 .. n) = n
  BY FS_Interval
<1>2. IsFiniteSet(SUBSET (1 .. n)) /\ Cardinality(SUBSET (1 .. n)) = 2 ^ n
  BY <1>1, FS_SUBSET
<1> QED  BY <1>2, FS_CardinalityType

\* The backoff of the scheduler, at any fence, is a delay that fail_run accepts.
LEMMA DelayIsBounded ==
    ASSUME NEW w, held[w].fence \in Nat \ {0}
    PROVE  RetryDelay(w) \in 0 .. MaxRunRetry
<1> DEFINE n == IF held[w].fence > 31 THEN 30 ELSE held[w].fence - 1
           power == 2 ^ n
<1>1. n \in Nat
  OBVIOUS
<1> HIDE DEF n
<1>2. power \in Nat
  BY <1>1, PowersAreNatural
<1> HIDE DEF power
<1>3. BaseRetry * power \in Nat
  BY <1>2, RuntimeWorkerConstants
<1>4. RetryDelay(w) =
        IF pc[w] = "refused" \/ held[w].fence >= MaxRunAttempts THEN 0
        ELSE IF BaseRetry * power < MaxRunRetry THEN BaseRetry * power ELSE MaxRunRetry
  BY DEF RetryDelay, power, n
<1> QED  BY <1>3, <1>4

LEMMA CloseIsCatalogStep ==
    ASSUME RWInv, NEW w \in Workers, NEW d \in ClockError, Close(w, d)
    PROVE  RCNext
<1> DEFINE claim == Claim(held[w].run, w, held[w].fence)
<1>1. claim \in claims
  BY DEF Close, RWInv, RWTypeOK
<1>2. claim.by = w /\ claim.run = held[w].run /\ claim.fence = held[w].fence
  BY DEF Claim
<1>3. claim.run \in DOMAIN runs
  BY <1>1 DEF RWInv, RCInv, LedgerRows
<1> HIDE DEF claim
<1>4. Story(claim.run, runs[claim.run], claims, outcomes)
  BY <1>3 DEF RWInv, RCInv, Stories
<1>5. claim.fence \in Nat \ {0}
  BY <1>1, <1>4 DEF Story
<1>6. RetryDelay(w) \in 0 .. MaxRunRetry
  BY <1>2, <1>5, DelayIsBounded
<1>7. \/ CompleteRun(w, claim.run, claim.fence, d)
      \/ FailRun(w, claim.run, claim.fence, RetryDelay(w), d)
  BY <1>2 DEF Close
<1>8. RunStep(w, d)
  BY <1>1, <1>2, <1>6, <1>7 DEF RunStep
<1> QED  BY <1>8 DEF RCNext

\* Each step of a process, of what is around it and of the environment is one
\* transaction of the catalog or leaves the catalog as it is.
LEMMA WorkersUseTheCatalog ==
    ASSUME RWInv, [RWNext]_rwVars
    PROVE  [RCNext]_rcVars
<1>1. ASSUME NEW w \in Workers, MaterializeDue(w) PROVE RCNext
  <2>1. now \in 0 .. now
    BY DEF RWInv, RCInv, RunTypes
  <2> QED  BY <1>1, <2>1 DEF MaterializeDue, RCNext
<1>2. ASSUME NEW w \in Workers, NEW d \in ClockError, NEW x, NEW c,
             ClaimNextRun(w, x, c, d)
      PROVE  RCNext
  <2>1. x \in LimitOne(Exhausted(d)) /\ c \in LimitOne(Claimable(d))
    BY <1>2 DEF ClaimNextRun
  <2> QED  BY <1>2, <2>1 DEF RunStep, RCNext
<1>3. ASSUME NEW w \in Workers, WorkerStep(w) PROVE [RCNext]_rcVars
  <2>1. CASE MaterializationRaises(w) \/ SkipMaterialization(w)
             \/ BeginRunOnce(w) \/ EndBackoff(w) \/ SeesStop(w)
             \/ \E answer \in {"executed", "unable", "refused"} : Execute(w, answer)
    BY <2>1 DEF MaterializationRaises, SkipMaterialization, BeginRunOnce, EndBackoff,
                SeesStop, Execute
  <2>2. ASSUME NEW d \in ClockError, NEW x, NEW c,
               ClaimRun(w, x, c, d) \/ ClaimIsLost(w, x, c, d)
        PROVE  RCNext
    BY <1>2, <2>2 DEF ClaimRun, ClaimIsLost
  <2>3. ASSUME NEW d \in ClockError, NEW next, CloseRun(w, d, next) PROVE RCNext
    BY <2>3, CloseIsCatalogStep DEF CloseRun
  <2>4. ASSUME NEW d \in ClockError, LeaseIsStale(w, d) \/ ClosureOutcomeUnknown(w, d)
        PROVE  [RCNext]_rcVars
    BY <2>4, CloseIsCatalogStep DEF LeaseIsStale, ClosureOutcomeUnknown
  <2> QED  BY <1>3, <2>1, <2>2, <2>3, <2>4 DEF WorkerStep
<1>4. ASSUME NEW w \in Workers,
             CatalogUnavailable(w) \/ RequestStop(w) \/ Crash(w) \/ Restart(w)
      PROVE  UNCHANGED rcVars
  BY <1>4 DEF CatalogUnavailable, RequestStop, Crash, Restart
<1>5. CASE Environment
  BY <1>5 DEF Environment, RCNext
<1>6. CASE UNCHANGED rwVars
  BY <1>6 DEF rwVars
<1> QED  BY <1>1, <1>3, <1>4, <1>5, <1>6 DEF RWNext

\* One process moves, and holds a claim where its next step will close one.
LEMMA ProcessMoves ==
    ASSUME RWInv, claims \subseteq claims', NEW w \in Workers, NEW where \in PC,
           Goto(w, where), stop' \in [Workers -> BOOLEAN], DOMAIN held' = Workers,
           \A v \in Workers \ {w} : held'[v] = held[v],
           where \in Holding => Claim(held'[w].run, w, held'[w].fence) \in claims'
    PROVE  RWTypeOK' /\ DOMAIN held' = Workers
<1>1. pc' \in [Workers -> PC] /\ \A v \in Workers : pc'[v] = IF v = w THEN where ELSE pc[v]
  BY DEF Goto, RWInv, RWTypeOK
<1>2. ASSUME NEW v \in Workers, pc'[v] \in Holding
      PROVE  Claim(held'[v].run, v, held'[v].fence) \in claims'
  <2>1. CASE v = w
    BY <1>1, <1>2, <2>1
  <2>2. CASE v # w
    BY <1>1, <1>2, <2>2 DEF RWInv, RWTypeOK, Holding
  <2> QED  BY <2>1, <2>2
<1> QED  BY <1>1, <1>2 DEF RWTypeOK, Holding

LEMMA WorkerStepKeeps ==
    ASSUME RWInv, claims \subseteq claims', NEW w \in Workers, WorkerStep(w)
    PROVE  RWTypeOK' /\ DOMAIN held' = Workers
<1> USE DEF Holding, PC
<1>1. /\ stop \in [Workers -> BOOLEAN] /\ DOMAIN held = Workers
      /\ pc[w] \in Holding => Claim(held[w].run, w, held[w].fence) \in claims
  BY DEF RWInv, RWTypeOK
<1>2. ASSUME NEW code, Fail(w, code) PROVE RWTypeOK' /\ DOMAIN held' = Workers
  BY <1>1, <1>2, ProcessMoves DEF Fail, Release
<1>3. CASE \/ MaterializationRaises(w) \/ \E d \in ClockError :
                 LeaseIsStale(w, d) \/ ClosureOutcomeUnknown(w, d)
  BY <1>2, <1>3 DEF MaterializationRaises, LeaseIsStale, ClosureOutcomeUnknown
<1>4. CASE SkipMaterialization(w) \/ BeginRunOnce(w) \/ EndBackoff(w) \/ SeesStop(w)
  BY <1>1, <1>4, ProcessMoves DEF SkipMaterialization, BeginRunOnce, EndBackoff, SeesStop
<1>5. ASSUME NEW answer \in {"executed", "unable", "refused"}, Execute(w, answer)
      PROVE  RWTypeOK' /\ DOMAIN held' = Workers
  BY <1>1, <1>5, ProcessMoves DEF Execute
<1>6. ASSUME NEW d \in ClockError, NEW x, NEW c, ClaimRun(w, x, c, d)
      PROVE  RWTypeOK' /\ DOMAIN held' = Workers
  <2>1. /\ held' = [held EXCEPT ![w] = ClaimOf(c)] /\ stop' = stop
        /\ Goto(w, IF c = {} THEN "head" ELSE "executing")
        /\ claims' = claims \union {Claim(id, w, runs[id].fence + 1) : id \in c}
    BY <1>6 DEF ClaimRun, ClaimNextRun
  <2>2. ASSUME c # {} PROVE Claim(held'[w].run, w, held'[w].fence) \in claims'
    <3> DEFINE id == CHOOSE id \in c : TRUE
    <3>1. id \in c
      BY <2>2
    <3>2. ClaimOf(c) = [run |-> id, fence |-> runs[id].fence + 1]
      BY <2>2 DEF ClaimOf
    <3> HIDE DEF id
    <3>3. held'[w].run = id /\ held'[w].fence = runs[id].fence + 1
      BY <1>1, <2>1, <3>2
    <3> QED  BY <2>1, <3>1, <3>3
  <2> QED  BY <1>1, <2>1, <2>2, ProcessMoves
<1>7. ASSUME NEW d \in ClockError, NEW x, NEW c, ClaimIsLost(w, x, c, d)
      PROVE  RWTypeOK' /\ DOMAIN held' = Workers
  BY <1>1, <1>7, ProcessMoves DEF ClaimIsLost
<1>8. ASSUME NEW d \in ClockError, NEW next \in {"burst", "head"}, CloseRun(w, d, next)
      PROVE  RWTypeOK' /\ DOMAIN held' = Workers
  BY <1>1, <1>8, ProcessMoves DEF CloseRun, Release
<1> QED  BY <1>3, <1>4, <1>5, <1>6, <1>7, <1>8 DEF WorkerStep

LEMMA WorkersKeepInv ==
    ASSUME RWInv, [RWNext]_rwVars
    PROVE  RWInv'
<1>1. [RCNext]_rcVars
  BY WorkersUseTheCatalog
<1>2. RCInv' /\ claims \subseteq claims'
  BY <1>1, CatalogKeepsInv, ClaimsAreKept DEF RWInv
<1>3. stop \in [Workers -> BOOLEAN] /\ DOMAIN held = Workers
  BY DEF RWInv, RWTypeOK
<1> USE DEF Holding, PC
<1>4. ASSUME NEW w \in Workers,
             MaterializeDue(w) \/ CatalogUnavailable(w) \/ Crash(w) \/ Restart(w)
      PROVE  RWTypeOK' /\ DOMAIN held' = Workers
  BY <1>2, <1>3, <1>4, ProcessMoves
  DEF MaterializeDue, CatalogUnavailable, Crash, Restart, Release
<1>5. ASSUME NEW w \in Workers, RequestStop(w)
      PROVE  RWTypeOK' /\ DOMAIN held' = Workers
  BY <1>2, <1>3, <1>5 DEF RequestStop, RWInv, RWTypeOK
<1>6. CASE UNCHANGED workerVars
  BY <1>2, <1>6 DEF RWInv, RWTypeOK, workerVars
<1>7. ASSUME NEW w \in Workers, WorkerStep(w) PROVE RWTypeOK' /\ DOMAIN held' = Workers
  BY <1>2, <1>7, WorkerStepKeeps
<1>8. CASE UNCHANGED rwVars
  BY <1>6, <1>8 DEF rwVars
<1>9. ASSUME RWTypeOK' /\ DOMAIN held' = Workers PROVE RWInv'
  BY <1>2, <1>9 DEF RWInv
<1> QED  BY <1>4, <1>5, <1>6, <1>7, <1>8, <1>9 DEF RWNext

\* Worker processes that crash, are restarted or stopped, lose leases or the answers to
\* their claims and closures drive the catalog through its own transactions, with delays
\* and fences it allows, and hold no claim that the catalog does not know: the theorems
\* about RCSpec hold of the running system.
THEOREM WorkersImplementCatalog == RWSpec => ImplementsCatalog
<1>1. RWInit => RWInv /\ RCInit
  BY WorkersInitially DEF RWInit
<1>2. RWInv /\ [RWNext]_rwVars => RWInv' /\ [RCNext]_rcVars
  BY WorkersKeepInv, WorkersUseTheCatalog
<1>3. RWInv => RWTypeOK
  BY DEF RWInv
<1> QED  BY <1>1, <1>2, <1>3, PTL DEF RWSpec, RCSpec, ImplementsCatalog
=============================================================================

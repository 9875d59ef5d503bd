------------------------ MODULE ExecutionJournalProofs ------------------------
(***************************************************************************)
(* Proofs about the durable executor and its journal, for any number of    *)
(* workers, attempts and faults: whatever is lost, late, repeated or       *)
(* recovered, one run is published once, with one composition.             *)
(***************************************************************************)
EXTENDS ExecutionJournal, SequenceTheorems, TLAPS

USE ExecutionJournalConstants

----------------------------------------------------------------------------
(* The rows *)

IdentityOrNone == Identities \union {NoIdentity}
EvidenceOrNone == Evidence \union {NoEvidence}

RunRow == [state : {"queued", "leased", "succeeded", "failed"}, evidence : EvidenceOrNone]

JournalRow ==
    [plan : 0 .. MaxRunAttempts, identity : IdentityOrNone, highest : 0 .. MaxRunAttempts,
     attempts : [0 .. MaxRunAttempts -> Attempt], completion : 0 .. MaxRunAttempts,
     evidence : EvidenceOrNone]

JobRow ==
    [fence : 0 .. MaxRunAttempts, plan : 0 .. MaxRunAttempts, revision : 0 .. 1,
     expected : IdentityOrNone, identity : IdentityOrNone, evidence : EvidenceOrNone,
     ending : Ending]

\* The revision of an attempt that is still open tells its state.
AttemptShape(a) ==
    /\ a.state = "none" => a = NoAttempt
    /\ a.state # "none" => a.by \in Workers
    /\ a.state = "prepared" => a.revision = 0
    /\ a.state = "publishing" => a.revision = 1

\* The constraints of the journal's tables: the attempts up to the highest fence are
\* there, only the highest is open or completed, and a completed run is bound.
JournalShape(j) ==
    /\ j \in JournalRow
    /\ \A f \in 0 .. MaxRunAttempts : AttemptShape(j.attempts[f])
    /\ j.attempts[0] = NoAttempt
    /\ \A f \in Fences : f > j.highest => j.attempts[f] = NoAttempt
    /\ \A f \in Fences : j.attempts[f].state \in Open \union {"completed"} => f = j.highest
    /\ j.plan = 0 <=> j.highest = 0
    /\ j.completion # 0 <=> j.attempts[j.highest].state = "completed"
    /\ j.completion # 0 => j.identity # NoIdentity

\* What no transaction takes back.
JournalStep(j, k) ==
    /\ j.plan # 0 => k.plan = j.plan
    /\ j.identity # NoIdentity => k.identity = j.identity
    /\ j.completion # 0 => k = j
    /\ k.highest >= j.highest
    /\ \A f \in Fences :
         j.attempts[f].state \in {"failed", "uncertain", "completed"} =>
           k.attempts[f] = j.attempts[f]

----------------------------------------------------------------------------
(* The transactions *)

\* A call as workers make it.
GoodCall(c) ==
    /\ c \in Call
    /\ c.kind = "insert" => c.plan \in Fences
    /\ c.kind = "bind" => c.identity \in Identities

LEMMA AttemptRows ==
    ASSUME JournalShape(journal)
    PROVE  /\ journal.highest \in 0 .. MaxRunAttempts
           /\ journal.attempts \in [0 .. MaxRunAttempts -> Attempt]
           /\ Current = journal.attempts[journal.highest]
           /\ Current \in Attempt /\ AttemptShape(Current)
  BY DEF JournalShape, JournalRow, Current

\* One attempt goes from an open state to an ended one, or from prepared to publishing.
LEMMA CurrentMoves ==
    ASSUME JournalShape(journal), Current.state \in Open, NEW state \in AttemptState,
           state # "prepared", state = "publishing" => Current.state = "prepared"
    PROVE  /\ journal.highest \in Fences
           /\ CurrentMoved(state) \in [0 .. MaxRunAttempts -> Attempt]
           /\ \A f \in 0 .. MaxRunAttempts :
                CurrentMoved(state)[f] = IF f = journal.highest THEN Moved(Current, state)
                                         ELSE journal.attempts[f]
           /\ Moved(Current, state) \in Attempt /\ AttemptShape(Moved(Current, state))
           /\ Moved(Current, state).state = state
           /\ Moved(Current, state).by = Current.by
           /\ Moved(Current, state).revision = Current.revision + 1
<1>1. /\ Current \in Attempt /\ AttemptShape(Current)
      /\ journal.attempts \in [0 .. MaxRunAttempts -> Attempt]
      /\ journal.highest \in 0 .. MaxRunAttempts
      /\ Current = journal.attempts[journal.highest]
  BY AttemptRows
<1>2. Current.revision \in 0 .. 1 /\ Current.by \in Workers
  BY <1>1 DEF AttemptShape, Open
<1>3. /\ Moved(Current, state) \in Attempt /\ AttemptShape(Moved(Current, state))
      /\ Moved(Current, state).state = state /\ Moved(Current, state).by = Current.by
      /\ Moved(Current, state).revision = Current.revision + 1
  BY <1>1, <1>2 DEF Moved, Attempt, AttemptShape, AttemptState, Open
<1>4. journal.highest # 0
  BY <1>1 DEF JournalShape, NoAttempt, Open
<1>5. journal.highest \in Fences
  BY <1>1, <1>4 DEF Fences
<1> HIDE DEF Moved
<1>6. /\ CurrentMoved(state) \in [0 .. MaxRunAttempts -> Attempt]
      /\ \A f \in 0 .. MaxRunAttempts :
           CurrentMoved(state)[f] = IF f = journal.highest THEN Moved(Current, state)
                                    ELSE journal.attempts[f]
  BY <1>1, <1>3 DEF CurrentMoved
<1> QED  BY <1>3, <1>5, <1>6

\* prepare writes: the fence is new, nothing is completed, and no identity is bound.
LEMMA TakeOverKeeps ==
    ASSUME JournalShape(journal), NEW c, GoodCall(c),
           c.kind \in {"prepare", "insert", "adopt"},
           PrepareVerdict(c) = "write", journal' = TakenOver(c)
    PROVE  /\ JournalShape(journal') /\ JournalStep(journal, journal')
           /\ ~(IdentityBound /\ Current.state = "publishing")
<1> DEFINE top == c.fence
           plan == IF journal.plan = 0 THEN c.plan ELSE journal.plan
           attempts == [Superseded EXCEPT ![c.fence] = Prepared(c.by)]
<1>1. /\ journal \in JournalRow /\ journal.highest \in 0 .. MaxRunAttempts
      /\ Current = journal.attempts[journal.highest]
      /\ Current \in Attempt
      /\ journal.plan \in 0 .. MaxRunAttempts
  BY AttemptRows DEF JournalShape, JournalRow
<1>2. /\ top \in Fences /\ c.by \in Workers /\ journal.completion = 0
      /\ journal.highest < top
      /\ \/ journal.plan = 0 /\ c.plan \in Fences /\ journal.highest = 0
         \/ journal.plan # 0 /\ journal.identity = NoIdentity
  <2>1. top \in Fences /\ c.by \in Workers
    BY DEF GoodCall, Call
  <2>2. CASE journal.plan = 0
    <3>1. journal.highest = 0 /\ c.plan \in Fences
      BY <2>2 DEF PrepareVerdict, GoodCall, JournalShape
    <3>2. Current.state = "none"
      BY <1>1, <3>1 DEF JournalShape, NoAttempt
    <3>3. journal.completion = 0
      BY <1>1, <3>2 DEF JournalShape
    <3> QED  BY <2>1, <2>2, <3>1, <3>3 DEF Fences
  <2>3. CASE journal.plan # 0
    BY <1>1, <2>1, <2>3 DEF PrepareVerdict, Completed, IdentityBound, Fences
  <2> QED  BY <2>2, <2>3
<1>3. Current.state # "completed"
  BY <1>1, <1>2 DEF JournalShape
<1>4. plan \in Fences /\ (journal.plan # 0 => plan = journal.plan)
  BY <1>1, <1>2 DEF Fences
<1>5. /\ Superseded \in [0 .. MaxRunAttempts -> Attempt]
      /\ \A f \in 0 .. MaxRunAttempts : AttemptShape(Superseded[f])
      /\ \A f \in 0 .. MaxRunAttempts : f # journal.highest =>
           Superseded[f] = journal.attempts[f]
      /\ Superseded[0] = NoAttempt
      /\ Superseded[journal.highest].state \notin Open \union {"completed"}
      /\ Current.state \notin Open => Superseded[journal.highest] = Current
  <2>1. CASE Current.state \in Open
    <3>1. Superseded = CurrentMoved("uncertain")
      BY <2>1 DEF Superseded
    <3>2. "uncertain" \in AttemptState /\ "uncertain" \notin Open \union {"completed"}
      BY DEF AttemptState, Open
    <3>3. /\ journal.highest \in Fences
          /\ Superseded \in [0 .. MaxRunAttempts -> Attempt]
          /\ \A f \in 0 .. MaxRunAttempts :
               Superseded[f] = IF f = journal.highest THEN Moved(Current, "uncertain")
                               ELSE journal.attempts[f]
          /\ AttemptShape(Moved(Current, "uncertain"))
          /\ Moved(Current, "uncertain").state = "uncertain"
      BY <2>1, <3>1, <3>2, CurrentMoves
    <3>4. Superseded[0] = NoAttempt
      BY <3>3 DEF JournalShape, Fences
    <3>5. Superseded[journal.highest].state \notin Open \union {"completed"}
      BY <1>1, <3>3 DEF Open
    <3>6. \A f \in 0 .. MaxRunAttempts : AttemptShape(Superseded[f])
      BY <3>3 DEF JournalShape
    <3>7. \A f \in 0 .. MaxRunAttempts : f # journal.highest =>
            Superseded[f] = journal.attempts[f]
      BY <3>3
    <3> QED  BY <2>1, <3>3, <3>4, <3>5, <3>6, <3>7
  <2>2. CASE Current.state \notin Open
    <3>1. Superseded = journal.attempts
      BY <2>2 DEF Superseded
    <3> QED  BY <1>1, <1>3, <2>2, <3>1 DEF JournalShape, JournalRow
  <2> QED  BY <2>1, <2>2
<1>6. Prepared(c.by) \in Attempt /\ AttemptShape(Prepared(c.by))
      /\ Prepared(c.by).state = "prepared"
  BY <1>2 DEF Prepared, Attempt, AttemptShape, AttemptState, Open
<1>7. /\ attempts \in [0 .. MaxRunAttempts -> Attempt]
      /\ \A f \in 0 .. MaxRunAttempts :
           attempts[f] = IF f = top THEN Prepared(c.by) ELSE Superseded[f]
  BY <1>2, <1>5, <1>6
<1>8. /\ journal' \in JournalRow /\ journal'.plan = plan /\ journal'.highest = top
      /\ journal'.attempts = attempts /\ journal'.identity = journal.identity
      /\ journal'.completion = journal.completion
  <2>1. journal' = [journal EXCEPT !.plan = plan, !.highest = top, !.attempts = attempts]
    BY DEF TakenOver
  <2> HIDE DEF plan, top, attempts
  <2>2. plan \in 0 .. MaxRunAttempts /\ top \in 0 .. MaxRunAttempts
    BY <1>2, <1>4 DEF Fences
  <2>3. journal' = [plan |-> plan, identity |-> journal.identity, highest |-> top,
                    attempts |-> attempts, completion |-> journal.completion,
                    evidence |-> journal.evidence]
    BY <1>1, <2>1 DEF JournalRow
  <2> QED  BY <1>1, <1>7, <2>2, <2>3 DEF JournalRow
<1> HIDE DEF plan, top, attempts
<1>9. JournalShape(journal')
  <2>1. \A f \in 0 .. MaxRunAttempts : AttemptShape(journal'.attempts[f])
    BY <1>5, <1>6, <1>7, <1>8
  <2>2. journal'.attempts[0] = NoAttempt
    BY <1>2, <1>5, <1>7, <1>8 DEF Fences
  <2>3. \A f \in Fences : f > journal'.highest => journal'.attempts[f] = NoAttempt
    BY <1>1, <1>2, <1>5, <1>7, <1>8 DEF Fences, JournalShape
  <2>4. \A f \in Fences :
          journal'.attempts[f].state \in Open \union {"completed"} => f = journal'.highest
    BY <1>1, <1>2, <1>5, <1>7, <1>8 DEF Fences, JournalShape
  <2>5. journal'.plan # 0 /\ journal'.highest # 0
    BY <1>2, <1>4, <1>8 DEF Fences
  <2>6. journal'.completion = 0 /\ journal'.attempts[journal'.highest].state = "prepared"
    BY <1>2, <1>6, <1>7, <1>8 DEF Fences
  <2> QED  BY <1>8, <2>1, <2>2, <2>3, <2>4, <2>5, <2>6 DEF JournalShape
<1>10. JournalStep(journal, journal')
  <2>1. ASSUME NEW f \in Fences,
               journal.attempts[f].state \in {"failed", "uncertain", "completed"}
        PROVE  journal'.attempts[f] = journal.attempts[f]
    <3>1. f # top
      <4>1. f = top => journal.attempts[f] = NoAttempt
        BY <1>2 DEF JournalShape
      <4> QED  BY <2>1, <4>1 DEF NoAttempt
    <3>2. Superseded[f] = journal.attempts[f]
      BY <1>1, <1>5, <2>1 DEF Open, Fences
    <3> QED  BY <1>7, <1>8, <3>1, <3>2 DEF Fences
  <2> QED  BY <1>1, <1>2, <1>4, <1>8, <2>1 DEF JournalStep, Fences
<1>11. ~(IdentityBound /\ Current.state = "publishing")
  BY <1>1, <1>2 DEF IdentityBound, JournalShape, NoAttempt
<1> QED  BY <1>9, <1>10, <1>11

\* The current attempt moves: begin_publishing, mark_failed, mark_uncertain and
\* mark_completed, which completes the run with it.
LEMMA AttemptMoveKeeps ==
    ASSUME JournalShape(journal), Current.state \in Open, journal.completion = 0,
           NEW state \in AttemptState, state # "prepared",
           state = "publishing" => Current.state = "prepared",
           NEW completion \in 0 .. MaxRunAttempts, NEW e \in EvidenceOrNone,
           completion # 0 <=> state = "completed",
           completion # 0 => journal.identity # NoIdentity,
           journal' = [journal EXCEPT !.attempts = CurrentMoved(state),
                                      !.completion = completion, !.evidence = e]
    PROVE  /\ JournalShape(journal') /\ JournalStep(journal, journal')
           /\ journal'.highest = journal.highest /\ journal'.identity = journal.identity
           /\ journal'.plan = journal.plan
           /\ journal'.completion = completion /\ journal'.evidence = e
<1>1. /\ journal.highest \in Fences
      /\ CurrentMoved(state) \in [0 .. MaxRunAttempts -> Attempt]
      /\ \A f \in 0 .. MaxRunAttempts :
           CurrentMoved(state)[f] = IF f = journal.highest THEN Moved(Current, state)
                                    ELSE journal.attempts[f]
      /\ AttemptShape(Moved(Current, state)) /\ Moved(Current, state).state = state
  BY CurrentMoves
<1>2. /\ journal' \in JournalRow /\ journal'.attempts = CurrentMoved(state)
      /\ journal'.plan = journal.plan /\ journal'.highest = journal.highest
      /\ journal'.identity = journal.identity /\ journal'.completion = completion
      /\ journal'.evidence = e
  BY <1>1 DEF JournalShape, JournalRow
<1>3. JournalShape(journal')
  <2>1. \A f \in 0 .. MaxRunAttempts : AttemptShape(journal'.attempts[f])
    BY <1>1, <1>2 DEF JournalShape
  <2>2. journal'.attempts[0] = NoAttempt
    BY <1>1, <1>2 DEF JournalShape, Fences
  <2>3. \A f \in Fences : f > journal'.highest => journal'.attempts[f] = NoAttempt
    BY <1>1, <1>2 DEF JournalShape, Fences
  <2>4. \A f \in Fences :
          journal'.attempts[f].state \in Open \union {"completed"} => f = journal'.highest
    BY <1>1, <1>2 DEF JournalShape, Fences
  <2>5. journal'.attempts[journal'.highest].state = state
    BY <1>1, <1>2 DEF Fences
  <2> QED  BY <1>2, <2>1, <2>2, <2>3, <2>4, <2>5 DEF JournalShape
<1>4. JournalStep(journal, journal')
  <2>1. ASSUME NEW f \in Fences,
               journal.attempts[f].state \in {"failed", "uncertain", "completed"}
        PROVE  journal'.attempts[f] = journal.attempts[f]
    <3>1. f # journal.highest
      BY <2>1, AttemptRows DEF Open
    <3> QED  BY <1>1, <1>2, <3>1 DEF Fences
  <2> QED  BY <1>1, <1>2, <2>1 DEF JournalStep, Fences
<1> QED  BY <1>2, <1>3, <1>4

LEMMA NoStep ==
    ASSUME JournalShape(journal), UNCHANGED journal
    PROVE  JournalShape(journal') /\ JournalStep(journal, journal')
<1>1. journal.highest \in Nat
  BY AttemptRows
<1> QED  BY <1>1 DEF JournalStep

LEMMA TransitionKeeps ==
    ASSUME JournalShape(journal), NEW c, GoodCall(c), c.kind \in {"begin", "fail", "uncertain"},
           TransitionVerdict(c) = "write",
           journal' = [journal EXCEPT !.attempts = CurrentMoved(Target(c))]
    PROVE  /\ JournalShape(journal') /\ JournalStep(journal, journal')
           /\ OwnAttempt(c)
           /\ Current.state = "publishing" => c.kind # "begin"
<1> DEFINE state == Target(c)
<1>1. /\ state \in {"publishing", "failed", "uncertain"}
      /\ state = "publishing" <=> c.kind = "begin"
  BY DEF Target
<1>2. OwnAttempt(c) /\ ~Completed /\ Current.state \in Sources(state)
  BY DEF TransitionVerdict
<1>3. /\ Current.state \in Open
      /\ state = "publishing" => Current.state = "prepared"
  BY <1>1, <1>2 DEF Sources, Open
<1>4. journal.completion = 0 /\ journal \in JournalRow
  BY <1>2 DEF Completed, JournalShape
<1>5. journal' = [journal EXCEPT !.attempts = CurrentMoved(state),
                                 !.completion = 0, !.evidence = journal.evidence]
  <2>1. journal' = [journal EXCEPT !.attempts = CurrentMoved(state)]
    OBVIOUS
  <2> HIDE DEF state
  <2> QED  BY <1>4, <2>1 DEF JournalRow
<1>6. /\ state \in AttemptState /\ state # "prepared" /\ state # "completed"
  BY <1>1 DEF AttemptState, Open
<1> HIDE DEF state
<1>7. 0 \in 0 .. MaxRunAttempts /\ journal.evidence \in EvidenceOrNone
  BY <1>4 DEF JournalRow
<1>8. JournalShape(journal') /\ JournalStep(journal, journal')
  BY <1>3, <1>4, <1>5, <1>6, <1>7, AttemptMoveKeeps
<1> QED  BY <1>1, <1>2, <1>3, <1>8

LEMMA BindKeeps ==
    ASSUME JournalShape(journal), NEW c, GoodCall(c), c.kind = "bind",
           BindVerdict(c) = "write", journal' = [journal EXCEPT !.identity = c.identity]
    PROVE  /\ JournalShape(journal') /\ JournalStep(journal, journal')
           /\ ~IdentityBound
<1>1. c.identity \in Identities /\ ~IdentityBound /\ journal \in JournalRow
  BY DEF BindVerdict, GoodCall, JournalShape
<1>2. /\ journal' \in JournalRow /\ journal'.identity = c.identity
      /\ journal'.attempts = journal.attempts /\ journal'.plan = journal.plan
      /\ journal'.highest = journal.highest /\ journal'.completion = journal.completion
  BY <1>1 DEF JournalRow, IdentityOrNone
<1>3. c.identity # NoIdentity
  BY <1>1
<1>4. JournalShape(journal')
  BY <1>2, <1>3 DEF JournalShape
<1>5. JournalStep(journal, journal')
  <2>1. journal.completion = 0
    BY <1>1 DEF IdentityBound, JournalShape
  <2>2. journal.highest \in Nat
    BY AttemptRows
  <2> QED  BY <1>1, <1>2, <2>1, <2>2 DEF JournalStep, IdentityBound
<1> QED  BY <1>1, <1>4, <1>5

LEMMA CompleteKeeps ==
    ASSUME JournalShape(journal), NEW c, GoodCall(c), c.kind = "complete",
           CompleteVerdict(c) = "write",
           journal' = [journal EXCEPT !.attempts = CurrentMoved("completed"),
                                      !.completion = c.fence, !.evidence = c.evidence]
    PROVE  /\ JournalShape(journal') /\ JournalStep(journal, journal')
           /\ OwnAttempt(c)
           /\ journal'.completion # 0 /\ journal'.evidence = c.evidence
<1>1. /\ OwnAttempt(c) /\ ~Completed /\ IdentityBound /\ Current.state = "publishing"
  BY DEF CompleteVerdict
<1>2. c.fence \in 0 .. MaxRunAttempts /\ c.fence # 0 /\ c.evidence \in EvidenceOrNone
  BY DEF GoodCall, Call, Fences, EvidenceOrNone
<1>3. Current.state \in Open /\ journal.completion = 0 /\ journal.identity # NoIdentity
  BY <1>1 DEF Open, Completed, IdentityBound
<1>4. "completed" \in AttemptState /\ "completed" # "prepared" /\ "completed" # "publishing"
  BY DEF AttemptState
<1>5. /\ JournalShape(journal') /\ JournalStep(journal, journal')
      /\ journal'.completion = c.fence /\ journal'.evidence = c.evidence
  BY <1>2, <1>3, <1>4, AttemptMoveKeeps
<1> QED  BY <1>1, <1>2, <1>5

\* Every transaction keeps the constraints of the tables and takes nothing back, and a
\* publication that is under way is ended by its own worker's calls only.
LEMMA TransactKeeps ==
    ASSUME JournalShape(journal), NEW c, GoodCall(c), Transact(c)
    PROVE  /\ JournalShape(journal') /\ JournalStep(journal, journal')
           /\ IdentityBound /\ Current.state = "publishing" =>
                \/ journal' = journal
                \/ OwnAttempt(c) /\ c.kind \in {"fail", "uncertain", "complete"}
<1>1. c.kind \in Calls
  BY DEF GoodCall, Call
<1>2. CASE Verdict(c) # "write"
  BY <1>2, NoStep DEF Transact
<1>3. CASE Verdict(c) = "write" /\ c.kind \in {"prepare", "insert", "adopt"}
  <2>1. PrepareVerdict(c) = "write" /\ journal' = TakenOver(c)
    BY <1>3 DEF Verdict, Written, Transact
  <2> QED  BY <1>3, <2>1, TakeOverKeeps
<1>4. CASE Verdict(c) = "write" /\ c.kind \in {"begin", "fail", "uncertain"}
  <2>1. TransitionVerdict(c) = "write"
        /\ journal' = [journal EXCEPT !.attempts = CurrentMoved(Target(c))]
    BY <1>4 DEF Verdict, Written, Transact
  <2> QED  BY <1>4, <2>1, TransitionKeeps
<1>5. CASE Verdict(c) = "write" /\ c.kind = "bind"
  <2>1. BindVerdict(c) = "write" /\ journal' = [journal EXCEPT !.identity = c.identity]
    BY <1>5 DEF Verdict, Written, Transact
  <2> QED  BY <1>5, <2>1, BindKeeps
<1>6. CASE Verdict(c) = "write" /\ c.kind = "complete"
  <2>1. CompleteVerdict(c) = "write"
        /\ journal' = [journal EXCEPT !.attempts = CurrentMoved("completed"),
                                      !.completion = c.fence, !.evidence = c.evidence]
    BY <1>6 DEF Verdict, Written, Transact
  <2> QED  BY <1>6, <2>1, CompleteKeeps
<1> QED  BY <1>1, <1>2, <1>3, <1>4, <1>5, <1>6 DEF Calls

----------------------------------------------------------------------------
(* The inductive invariant *)

\* Worker w, whose job is b, owns the current attempt of journal j and may publish.
Owner(j, w, b) ==
    /\ j.highest = b.fence
    /\ j.attempts[j.highest].by = w
    /\ j.attempts[j.highest].state = "publishing"
    /\ j.attempts[j.highest].revision = b.revision
    /\ j.identity = b.identity

Planned == {"begin", "reread-begin", "environment", "bind", "reread-bind"}

\* What worker w knows at step p of its job b, when the journal is j and L leases were
\* given.
Informed(j, L, w, p, b) ==
    /\ p # "idle" => b.fence \in 1 .. L
    /\ p = "insert" => b.plan \in Fences
    /\ p \in Planned => j.plan # 0 /\ b.plan = j.plan
    /\ p \in {"bind", "reread-bind", "publish"} => b.identity \in Identities
    /\ p = "publish" => Owner(j, w, b)
    /\ p \in {"fail", "uncertain"} => b.ending \in {"retryable", "refused"}
    /\ p = "close" /\ b.ending = "result" => j.completion # 0 /\ b.evidence = j.evidence

\* A call that is late: its worker, if it still has the job, is past that call.
Late(c, L, p, b) ==
    /\ GoodCall(c) /\ c.fence \in 1 .. L
    /\ p # "idle" /\ b.fence = c.fence =>
         /\ c.kind \in {"fail", "uncertain"} => p = "close"
         /\ c.kind = "complete" => p \in {"reread-complete", "close"}

\* An authorization is for an attempt that nobody works on any more, nor will.
Abandoned(a, L) ==
    /\ a.abandoned < L
    /\ \A w \in Workers : pc[w] = "idle" \/ job[w].fence # a.abandoned

Rows ==
    /\ run \in RunRow
    /\ leases \in Seq(Workers) /\ Len(leases) <= MaxRunAttempts
    /\ pc \in [Workers -> PC] /\ job \in [Workers -> JobRow]
    /\ authorizations \subseteq [abandoned : Fences, worker : Workers, successor : Workers]
    /\ effects \subseteq [plan : Fences, identity : Identities]
    /\ faults \in 0 .. MaxFaults

WorkersAreInformed == \A w \in Workers : Informed(journal, Len(leases), w, pc[w], job[w])

LateCallsArePast == \A c \in inflight : Late(c, Len(leases), pc[c.by], job[c.by])

AbandonedIsFenced == \A a \in authorizations : Abandoned(a, Len(leases))

EJInv ==
    /\ Rows
    /\ JournalShape(journal)
    /\ WorkersAreInformed
    /\ LateCallsArePast
    /\ AbandonedIsFenced
    /\ OneComposition
    /\ ReportedIsJournaled

LEMMA InvImpliesOnePublication == EJInv => OnePublication
<1> SUFFICES ASSUME EJInv PROVE OnePublication
  OBVIOUS
<1>1. inflight \subseteq Call
  BY DEF EJInv, LateCallsArePast, Late, GoodCall
<1>2. EJTypeOK
  BY <1>1 DEF EJInv, Rows, JournalShape, EJTypeOK, RunRow, JournalRow, JobRow,
     IdentityOrNone, EvidenceOrNone
<1>3. PublisherIsCurrent
  BY DEF EJInv, WorkersAreInformed, Informed, Owner, PublisherIsCurrent, OwnAttempt, CallOf,
     Current
<1>4. SolePublisher
  BY <1>3 DEF PublisherIsCurrent, OwnAttempt, CallOf, SolePublisher
<1>5. OnlyCurrentIsOpen
  BY DEF EJInv, JournalShape, OnlyCurrentIsOpen, Completed, Current
<1> QED  BY <1>2, <1>3, <1>4, <1>5 DEF EJInv, OnePublication

LEMMA JournalInitially == EJInit => EJInv
<1> SUFFICES ASSUME EJInit PROVE EJInv
  OBVIOUS
<1>1. leases = <<>> /\ leases \in Seq(Workers) /\ Len(leases) = 0
  BY EmptySeq DEF EJInit
<1>2. /\ NoAttempt \in Attempt /\ AttemptShape(NoAttempt) /\ NoAttempt.state = "none"
  BY DEF NoAttempt, Attempt, AttemptShape
<1>3. JournalShape(journal)
  <2>1. journal = [plan |-> 0, identity |-> NoIdentity, highest |-> 0,
                   attempts |-> [f \in 0 .. MaxRunAttempts |-> NoAttempt],
                   completion |-> 0, evidence |-> NoEvidence]
    BY DEF EJInit
  <2>2. [f \in 0 .. MaxRunAttempts |-> NoAttempt] \in [0 .. MaxRunAttempts -> Attempt]
    BY <1>2
  <2>3. journal \in JournalRow
    BY <2>1, <2>2 DEF JournalRow, IdentityOrNone, EvidenceOrNone
  <2> QED  BY <1>2, <2>1, <2>3 DEF JournalShape, Fences, Open
<1>4. NoJob \in JobRow
  BY DEF NoJob, JobRow, Ending, IdentityOrNone, EvidenceOrNone
<1>5. /\ pc = [w \in Workers |-> "idle"] /\ job = [w \in Workers |-> NoJob]
      /\ run = [state |-> "queued", evidence |-> NoEvidence]
      /\ authorizations = {} /\ inflight = {} /\ effects = {} /\ faults = 0
  BY DEF EJInit
<1>6. Rows
  BY <1>1, <1>4, <1>5 DEF Rows, RunRow, EvidenceOrNone, PC
<1>7. WorkersAreInformed
  BY <1>5 DEF WorkersAreInformed, Informed, Planned
<1> QED
  BY <1>3, <1>5, <1>6, <1>7
  DEF EJInv, LateCallsArePast, AbandonedIsFenced, OneComposition, ReportedIsJournaled

----------------------------------------------------------------------------
(* A step of one worker *)

\* What a worker's call is.
LEMMA CallsAreGood ==
    ASSUME EJInv, NEW w \in Workers, pc[w] \in Calls
    PROVE  /\ GoodCall(CallOf(w)) /\ CallOf(w).fence \in 1 .. Len(leases)
           /\ CallOf(w).kind = pc[w] /\ CallOf(w).by = w /\ CallOf(w).fence = job[w].fence
           /\ CallOf(w).identity = job[w].identity /\ CallOf(w).evidence = job[w].evidence
           /\ CallOf(w).revision = job[w].revision /\ CallOf(w).plan = job[w].plan
<1>1. job[w] \in JobRow /\ Len(leases) \in Nat /\ Len(leases) <= MaxRunAttempts
  BY LenProperties DEF EJInv, Rows
<1>2. Informed(journal, Len(leases), w, pc[w], job[w]) /\ pc[w] # "idle"
  BY DEF EJInv, WorkersAreInformed, Calls
<1>3. job[w].fence \in 1 .. Len(leases) /\ job[w].fence \in Fences
  BY <1>1, <1>2 DEF Informed, Fences
<1>4. CallOf(w) \in Call
  BY <1>1, <1>3 DEF CallOf, Call, JobRow, IdentityOrNone, EvidenceOrNone
<1> QED
  BY <1>2, <1>3, <1>4 DEF CallOf, GoodCall, Informed

\* A transaction disturbs no publication but that of a worker that ends it itself.
LEMMA OthersStayInformed ==
    ASSUME JournalShape(journal), JournalStep(journal, journal'),
           NEW L, NEW v, NEW p, NEW b, Informed(journal, L, v, p, b),
           p = "publish" /\ journal' # journal =>
             ~(IdentityBound /\ Current.state = "publishing"
               /\ Current.by = v /\ journal.highest = b.fence)
    PROVE  Informed(journal', L, v, p, b)
<1>1. p = "publish" => journal' = journal
  <2> SUFFICES ASSUME p = "publish", journal' # journal PROVE FALSE
    OBVIOUS
  <2>1. Owner(journal, v, b) /\ b.identity \in Identities
    BY DEF Informed
  <2> QED  BY <2>1 DEF Owner, IdentityBound, Current
<1> QED  BY <1>1 DEF Informed, JournalStep

LEMMA WorkerMoves ==
    ASSUME EJInv, NEW w \in Workers, NEW p \in PC, NEW b \in JobRow,
           pc[w] # "idle", Goto(w, p, b),
           JournalShape(journal'), JournalStep(journal, journal'),
           \A v \in Workers : v # w => Informed(journal', Len(leases), v, pc[v], job[v]),
           Informed(journal', Len(leases), w, p, b),
           p = "idle" \/ b.fence = job[w].fence,
           pc[w] \in {"close", "reread-complete"} => p \in {"close", "idle"},
           inflight' \subseteq inflight \union {CallOf(w)},
           inflight' # inflight =>
             /\ pc[w] \in Calls
             /\ pc[w] \in {"fail", "uncertain"} => p \in {"close", "idle"}
             /\ pc[w] = "complete" => p \in {"reread-complete", "close", "idle"},
           \A e \in effects' : \/ e \in effects
                               \/ /\ e.plan = journal'.plan /\ e.identity = journal'.identity
                                  /\ e \in [plan : Fences, identity : Identities],
           UNCHANGED <<leases, authorizations>>, faults' \in 0 .. MaxFaults,
           run' \in RunRow,
           run'.state = "succeeded" =>
             journal'.completion # 0 /\ run'.evidence = journal'.evidence
    PROVE  EJInv'
<1>1. /\ pc' \in [Workers -> PC] /\ job' \in [Workers -> JobRow]
      /\ pc'[w] = p /\ job'[w] = b
      /\ \A v \in Workers : v # w => pc'[v] = pc[v] /\ job'[v] = job[v]
  BY DEF Goto, EJInv, Rows
<1>2. Rows'
  BY <1>1 DEF EJInv, Rows
<1>3. WorkersAreInformed'
  <2> SUFFICES ASSUME NEW v \in Workers
               PROVE  Informed(journal', Len(leases'), v, pc'[v], job'[v])
    BY DEF WorkersAreInformed
  <2>1. Len(leases') = Len(leases)
    OBVIOUS
  <2>2. CASE v = w
    BY <1>1, <2>1, <2>2
  <2>3. CASE v # w
    BY <1>1, <2>1, <2>3
  <2> QED  BY <2>2, <2>3
<1>4. LateCallsArePast'
  <2> SUFFICES ASSUME NEW c \in inflight'
               PROVE  Late(c, Len(leases'), pc'[c.by], job'[c.by])
    BY DEF LateCallsArePast
  <2>1. Len(leases') = Len(leases)
    OBVIOUS
  <2>2. CASE c \in inflight
    <3>1. Late(c, Len(leases), pc[c.by], job[c.by]) /\ c.by \in Workers
      BY <2>2 DEF EJInv, LateCallsArePast, Late, GoodCall, Call
    <3>2. CASE c.by # w
      BY <1>1, <2>1, <3>1, <3>2
    <3>3. CASE c.by = w
      BY <1>1, <2>1, <3>1, <3>3 DEF Late
    <3> QED  BY <3>2, <3>3
  <2>3. CASE c \notin inflight
    <3>1. c = CallOf(w) /\ inflight' # inflight /\ pc[w] \in Calls
      BY <2>3
    <3>2. /\ GoodCall(c) /\ c.fence \in 1 .. Len(leases) /\ c.kind = pc[w] /\ c.by = w
      BY <3>1, CallsAreGood
    <3> QED  BY <1>1, <2>1, <3>1, <3>2 DEF Late
  <2> QED  BY <2>2, <2>3
<1>5. AbandonedIsFenced'
  <2> SUFFICES ASSUME NEW a \in authorizations
               PROVE  /\ a.abandoned < Len(leases')
                      /\ \A v \in Workers : pc'[v] = "idle" \/ job'[v].fence # a.abandoned
    BY DEF AbandonedIsFenced, Abandoned
  <2>1. /\ a.abandoned < Len(leases)
        /\ \A v \in Workers : pc[v] = "idle" \/ job[v].fence # a.abandoned
    BY DEF EJInv, AbandonedIsFenced, Abandoned
  <2> QED  BY <1>1, <2>1
<1>6. OneComposition'
  <2> SUFFICES ASSUME NEW e \in effects'
               PROVE  e.plan = journal'.plan /\ e.identity = journal'.identity
    BY DEF OneComposition
  <2>1. CASE e \in effects
    <3>1. /\ e.plan = journal.plan /\ e.identity = journal.identity
          /\ e.plan \in Fences /\ e.identity \in Identities
      BY <2>1 DEF EJInv, OneComposition, Rows
    <3> QED  BY <3>1 DEF JournalStep, Fences
  <2> QED  BY <2>1
<1>7. ReportedIsJournaled'
  BY DEF ReportedIsJournaled, Completed
<1> QED  BY <1>2, <1>3, <1>4, <1>5, <1>6, <1>7 DEF EJInv

\* What a step of worker w may do to the journal.
JournalMoved(w) ==
    /\ JournalShape(journal') /\ JournalStep(journal, journal')
    /\ \A v \in Workers : v # w => Informed(journal', Len(leases), v, pc[v], job[v])

LEMMA UntouchedJournal ==
    ASSUME EJInv, NEW w \in Workers, UNCHANGED journal
    PROVE  JournalMoved(w)
  BY NoStep DEF EJInv, WorkersAreInformed, JournalMoved

LEMMA OwnTransaction ==
    ASSUME EJInv, NEW w \in Workers, pc[w] \in Calls, Transact(CallOf(w))
    PROVE  JournalMoved(w)
<1> DEFINE c == CallOf(w)
<1>1. GoodCall(c) /\ c.by = w
  BY CallsAreGood
<1>2. Transact(c) /\ JournalShape(journal)
  BY DEF EJInv
<1> HIDE DEF c
<1>3. /\ JournalShape(journal') /\ JournalStep(journal, journal')
      /\ IdentityBound /\ Current.state = "publishing" =>
           \/ journal' = journal
           \/ OwnAttempt(c) /\ c.kind \in {"fail", "uncertain", "complete"}
  BY <1>1, <1>2, TransactKeeps
<1>4. ASSUME NEW v \in Workers, v # w
      PROVE  Informed(journal', Len(leases), v, pc[v], job[v])
  <2>1. Informed(journal, Len(leases), v, pc[v], job[v])
    BY DEF EJInv, WorkersAreInformed
  <2>2. journal' # journal =>
          ~(IdentityBound /\ Current.state = "publishing" /\ Current.by = v)
    BY <1>1, <1>3, <1>4 DEF OwnAttempt
  <2> QED  BY <1>2, <1>3, <2>1, <2>2, OthersStayInformed
<1> QED  BY <1>3, <1>4 DEF JournalMoved

\* Goes on to a step p in which it does not publish, or ends its job.
LEMMA WorkerGoesOn ==
    ASSUME EJInv, NEW w \in Workers, NEW p \in PC, NEW b \in JobRow,
           pc[w] # "idle", Goto(w, p, b), JournalMoved(w),
           Informed(journal', Len(leases), w, p, b), b.fence = job[w].fence,
           pc[w] \in {"close", "reread-complete"} => p = "close",
           UNCHANGED effects, Local
    PROVE  EJInv'
<1>1. UNCHANGED <<run, leases, authorizations, inflight, faults, effects>>
  BY DEF Local
<1>2. /\ run' \in RunRow /\ faults' \in 0 .. MaxFaults
      /\ run'.state = "succeeded" =>
           journal'.completion # 0 /\ run'.evidence = journal'.evidence
  BY <1>1 DEF EJInv, Rows, ReportedIsJournaled, Completed, JournalMoved, JournalStep
<1> QED  BY <1>1, <1>2, WorkerMoves DEF JournalMoved

LEMMA WorkerEnds ==
    ASSUME EJInv, NEW w \in Workers, pc[w] # "idle", JournalMoved(w),
           NEW ending \in Ending, NEW e \in EvidenceOrNone, Finish(w, ending, e),
           ending = "result" => journal'.completion # 0 /\ e = journal'.evidence,
           inflight' = inflight \/ (pc[w] \in Calls /\ inflight' = inflight \union {CallOf(w)}),
           UNCHANGED <<run, leases, authorizations, effects>>, faults' \in 0 .. MaxFaults
    PROVE  EJInv'
<1> DEFINE b == [job[w] EXCEPT !.ending = ending, !.evidence = e]
<1>1. job[w] \in JobRow
  BY DEF EJInv, Rows
<1>2. b \in JobRow /\ b.fence = job[w].fence /\ b.ending = ending /\ b.evidence = e
  BY <1>1 DEF JobRow
<1>3. Goto(w, "close", b)
  BY DEF Finish
<1> HIDE DEF b
<1>4. job[w].fence \in 1 .. Len(leases)
  BY DEF EJInv, WorkersAreInformed, Informed
<1>5. Informed(journal', Len(leases), w, "close", b)
  BY <1>2, <1>4 DEF Informed, Planned
<1>6. "close" \in PC
  BY DEF PC
<1>7. /\ run' \in RunRow
      /\ run'.state = "succeeded" =>
           journal'.completion # 0 /\ run'.evidence = journal'.evidence
  BY DEF EJInv, Rows, ReportedIsJournaled, Completed, JournalMoved, JournalStep
<1> QED  BY <1>2, <1>3, <1>5, <1>6, <1>7, WorkerMoves DEF JournalMoved

LEMMA WorkerRaises ==
    ASSUME EJInv, NEW w \in Workers, pc[w] # "idle", JournalMoved(w),
           NEW ending \in Ending \ {"result"}, Raise(w, ending),
           UNCHANGED effects, Local
    PROVE  EJInv'
<1>1. NoEvidence \in EvidenceOrNone /\ ending \in Ending /\ ending # "result"
  BY DEF EvidenceOrNone
<1>2. Finish(w, ending, NoEvidence)
  BY DEF Raise
<1>3. faults' \in 0 .. MaxFaults /\ UNCHANGED <<run, leases, authorizations, inflight>>
  BY DEF Local, EJInv, Rows
<1> QED  BY <1>1, <1>2, <1>3, WorkerEnds

LEMMA WorkerReturns ==
    ASSUME EJInv, NEW w \in Workers, pc[w] # "idle", JournalMoved(w),
           Finish(w, "result", journal'.evidence), journal'.completion # 0,
           UNCHANGED effects, Local
    PROVE  EJInv'
<1>1. journal'.evidence \in EvidenceOrNone /\ "result" \in Ending
  BY DEF JournalMoved, JournalShape, JournalRow, Ending
<1>3. faults' \in 0 .. MaxFaults /\ UNCHANGED <<run, leases, authorizations, inflight>>
  BY DEF Local, EJInv, Rows
<1> QED  BY <1>1, <1>3, WorkerEnds

\* The record of an open attempt.
LEMMA OpenRecords ==
    ASSUME NEW j, JournalShape(j), Record(j).state \in Open
    PROVE  /\ j.plan # 0 /\ j.plan \in 0 .. MaxRunAttempts
           /\ Record(j).revision \in 0 .. 1
           /\ j.identity \in IdentityOrNone
<1>1. /\ j \in JournalRow /\ j.highest \in 0 .. MaxRunAttempts
      /\ AttemptShape(j.attempts[j.highest])
  BY DEF JournalShape, JournalRow
<1>2. j.highest # 0
  BY DEF JournalShape, Record, NoAttempt, Open
<1>3. j.plan # 0
  BY <1>2 DEF JournalShape
<1> QED  BY <1>1, <1>3 DEF JournalRow, AttemptShape, Record, Open

----------------------------------------------------------------------------
(* The steps of ensure_executed *)

LEMMA WorkerRows ==
    ASSUME EJInv, NEW w \in Workers, pc[w] # "idle"
    PROVE  /\ job[w] \in JobRow /\ job[w].fence \in 1 .. Len(leases)
           /\ job[w].fence \in Fences
           /\ Informed(journal, Len(leases), w, pc[w], job[w])
<1>1. Len(leases) \in Nat /\ Len(leases) <= MaxRunAttempts
  BY LenProperties DEF EJInv, Rows
<1>2. job[w] \in JobRow /\ Informed(journal, Len(leases), w, pc[w], job[w])
  BY DEF EJInv, Rows, WorkersAreInformed
<1> QED  BY <1>1, <1>2 DEF Informed, Fences

LEMMA ResumeKeeps ==
    ASSUME EJInv, NEW w \in Workers, pc[w] \in {"prepare", "insert", "adopt"},
           JournalMoved(w), Resume(w, journal'), UNCHANGED effects, Local
    PROVE  EJInv'
<1> DEFINE r == [job[w] EXCEPT !.plan = PlanOf(w, journal'),
                               !.revision = Record(journal').revision,
                               !.expected = journal'.identity]
           g == [r EXCEPT !.ending = "refused"]
<1>1. pc[w] # "idle" /\ pc[w] \notin {"close", "reread-complete"}
  OBVIOUS
<1>2. CASE journal'.completion # 0
  <2>1. Finish(w, "result", journal'.evidence)
    BY <1>2 DEF Resume, Return
  <2> QED  BY <1>1, <1>2, <2>1, WorkerReturns
<1>3. CASE journal'.completion = 0 /\ Record(journal').state \notin Open
  <2>1. Raise(w, "retryable") /\ "retryable" \in Ending \ {"result"}
    BY <1>3 DEF Resume, Ending
  <2> QED  BY <1>1, <2>1, WorkerRaises
<1>4. CASE journal'.completion = 0 /\ Record(journal').state \in Open
  <2>1. \/ Goto(w, "begin", r) \/ Goto(w, "environment", r) \/ Goto(w, "fail", g)
        \/ Raise(w, "refused")
    BY <1>4 DEF Resume
  <2>2. /\ journal'.plan # 0 /\ journal'.plan \in 0 .. MaxRunAttempts
        /\ Record(journal').revision \in 0 .. 1 /\ journal'.identity \in IdentityOrNone
    BY <1>4, OpenRecords DEF JournalMoved
  <2>3. job[w] \in JobRow /\ job[w].fence \in 1 .. Len(leases)
    BY <1>1, WorkerRows
  <2>4. r \in JobRow /\ r.fence = job[w].fence /\ r.plan = journal'.plan
    BY <2>2, <2>3 DEF JobRow, PlanOf
  <2> HIDE DEF r
  <2>5. g \in JobRow /\ g.fence = job[w].fence /\ g.ending = "refused"
    BY <2>4 DEF JobRow, Ending
  <2> HIDE DEF g
  <2>6. /\ Informed(journal', Len(leases), w, "begin", r)
        /\ Informed(journal', Len(leases), w, "environment", r)
        /\ Informed(journal', Len(leases), w, "fail", g)
    BY <2>2, <2>3, <2>4, <2>5 DEF Informed, Planned
  <2>7. {"begin", "environment", "fail"} \subseteq PC /\ "refused" \in Ending \ {"result"}
    BY DEF PC, Calls, Ending
  <2> QED  BY <1>1, <2>1, <2>4, <2>5, <2>6, <2>7, WorkerGoesOn, WorkerRaises
<1> QED  BY <1>2, <1>3, <1>4

LEMMA PrepareKeeps ==
    ASSUME EJInv, NEW w \in Workers, Prepare(w)
    PROVE  EJInv'
<1>1. /\ pc[w] \in {"prepare", "insert", "adopt"} /\ pc[w] \in Calls
      /\ Transact(CallOf(w)) /\ UNCHANGED effects /\ Local
  BY DEF Prepare, Calls
<1>2. JournalMoved(w)
  BY <1>1, OwnTransaction
<1>3. job[w] \in JobRow /\ job[w].fence \in 1 .. Len(leases) /\ job[w].fence \in Fences
  BY <1>1, WorkerRows
<1>4. CASE Resume(w, journal')
  BY <1>1, <1>2, <1>4, ResumeKeeps
<1>5. CASE Goto(w, "insert", [job[w] EXCEPT !.plan = job[w].fence])
  <2> DEFINE b == [job[w] EXCEPT !.plan = job[w].fence]
  <2>1. b \in JobRow /\ b.fence = job[w].fence /\ b.plan = job[w].fence
    BY <1>3 DEF JobRow
  <2>2. Goto(w, "insert", b)
    BY <1>5
  <2> HIDE DEF b
  <2>3. Informed(journal', Len(leases), w, "insert", b) /\ "insert" \in PC
    BY <1>3, <2>1 DEF Informed, Planned, PC, Calls
  <2> QED  BY <1>1, <1>2, <2>1, <2>2, <2>3, WorkerGoesOn
<1>6. CASE Goto(w, "adopt", job[w])
  <2>1. Informed(journal', Len(leases), w, "adopt", job[w]) /\ "adopt" \in PC
    BY <1>3 DEF Informed, Planned, PC, Calls
  <2> QED  BY <1>1, <1>2, <1>3, <1>6, <2>1, WorkerGoesOn
<1>7. CASE Raise(w, "retryable")
  <2>1. "retryable" \in Ending \ {"result"}
    BY DEF Ending
  <2> QED  BY <1>1, <1>2, <1>7, <2>1, WorkerRaises
<1> QED  BY <1>4, <1>5, <1>6, <1>7 DEF Prepare

LEMMA ContinueKeeps ==
    ASSUME EJInv, NEW w \in Workers, pc[w] \in {"begin", "reread-begin"},
           JournalMoved(w), Continue(w, journal'), UNCHANGED effects, Local
    PROVE  EJInv'
<1>1. pc[w] # "idle" /\ pc[w] \notin {"close", "reread-complete"}
  OBVIOUS
<1>2. CASE journal'.completion # 0
  <2>1. Finish(w, "result", journal'.evidence)
    BY <1>2 DEF Continue, Return
  <2> QED  BY <1>1, <1>2, <2>1, WorkerReturns
<1>3. CASE journal'.completion = 0 /\ Record(journal').state # "publishing"
  <2>1. Raise(w, "retryable") /\ "retryable" \in Ending \ {"result"}
    BY <1>3 DEF Continue, Ending
  <2> QED  BY <1>1, <2>1, WorkerRaises
<1>4. CASE journal'.completion = 0 /\ Record(journal').state = "publishing"
  <2> DEFINE b == [job[w] EXCEPT !.revision = Record(journal').revision,
                                 !.expected = journal'.identity]
  <2>1. Goto(w, "environment", b)
    BY <1>4 DEF Continue
  <2>2. Record(journal').state \in Open
    BY <1>4 DEF Open
  <2>3. Record(journal').revision \in 0 .. 1 /\ journal'.identity \in IdentityOrNone
    BY <2>2, OpenRecords DEF JournalMoved
  <2>4. /\ job[w] \in JobRow /\ job[w].fence \in 1 .. Len(leases)
        /\ Informed(journal, Len(leases), w, pc[w], job[w])
    BY <1>1, WorkerRows
  <2>5. b \in JobRow /\ b.fence = job[w].fence /\ b.plan = job[w].plan
    BY <2>3, <2>4 DEF JobRow
  <2> HIDE DEF b
  <2>6. journal'.plan # 0 /\ b.plan = journal'.plan
    BY <2>4, <2>5 DEF Informed, Planned, JournalMoved, JournalStep
  <2>7. Informed(journal', Len(leases), w, "environment", b) /\ "environment" \in PC
    BY <2>4, <2>5, <2>6 DEF Informed, Planned, PC
  <2> QED  BY <1>1, <2>1, <2>5, <2>7, WorkerGoesOn
<1> QED  BY <1>2, <1>3, <1>4

LEMMA BeginKeeps ==
    ASSUME EJInv, NEW w \in Workers, BeginPublishing(w) \/ RereadBegin(w)
    PROVE  EJInv'
<1>1. CASE BeginPublishing(w)
  <2>1. pc[w] = "begin" /\ pc[w] \in Calls /\ Transact(CallOf(w)) /\ UNCHANGED effects /\ Local
    BY <1>1 DEF BeginPublishing, Calls
  <2>2. JournalMoved(w)
    BY <2>1, OwnTransaction
  <2>3. CASE Raise(w, "retryable")
    <3>1. "retryable" \in Ending \ {"result"}
      BY DEF Ending
    <3> QED  BY <2>1, <2>2, <2>3, <3>1, WorkerRaises
  <2>4. CASE Continue(w, journal')
    BY <2>1, <2>2, <2>4, ContinueKeeps
  <2> QED  BY <1>1, <2>3, <2>4 DEF BeginPublishing
<1>2. CASE RereadBegin(w)
  <2>1. pc[w] = "reread-begin" /\ UNCHANGED <<journal, effects>> /\ Local
    BY <1>2 DEF RereadBegin
  <2>2. Continue(w, journal')
    BY <1>2, <2>1 DEF RereadBegin
  <2>3. JournalMoved(w)
    BY <2>1, UntouchedJournal
  <2> QED  BY <2>1, <2>2, <2>3, ContinueKeeps
<1> QED  BY <1>1, <1>2

LEMMA EnvironmentKeeps ==
    ASSUME EJInv, NEW w \in Workers, PrepareEnvironment(w)
    PROVE  EJInv'
<1>1. pc[w] = "environment" /\ UNCHANGED <<journal, effects>> /\ Local
  BY DEF PrepareEnvironment
<1>2. JournalMoved(w)
  BY <1>1, UntouchedJournal
<1>3. /\ job[w] \in JobRow /\ job[w].fence \in 1 .. Len(leases)
      /\ journal.plan # 0 /\ job[w].plan = journal.plan
  BY <1>1, WorkerRows DEF Informed, Planned
<1>4. ASSUME NEW i \in Identities, Goto(w, "bind", [job[w] EXCEPT !.identity = i])
      PROVE  EJInv'
  <2> DEFINE b == [job[w] EXCEPT !.identity = i]
  <2>1. /\ b \in JobRow /\ b.fence = job[w].fence /\ b.identity = i /\ b.plan = job[w].plan
    BY <1>3 DEF JobRow, IdentityOrNone
  <2>2. Goto(w, "bind", b)
    BY <1>4
  <2> HIDE DEF b
  <2>3. Informed(journal', Len(leases), w, "bind", b) /\ "bind" \in PC
    BY <1>1, <1>3, <2>1 DEF Informed, Planned, PC, Calls
  <2> QED  BY <1>1, <1>2, <2>1, <2>2, <2>3, WorkerGoesOn
<1>5. ASSUME NEW ending \in {"retryable", "refused"},
             Goto(w, "fail", [job[w] EXCEPT !.ending = ending])
      PROVE  EJInv'
  <2> DEFINE b == [job[w] EXCEPT !.ending = ending]
  <2>1. b \in JobRow /\ b.fence = job[w].fence /\ b.ending = ending
    BY <1>3 DEF JobRow, Ending
  <2>2. Goto(w, "fail", b)
    BY <1>5
  <2> HIDE DEF b
  <2>3. Informed(journal', Len(leases), w, "fail", b) /\ "fail" \in PC
    BY <1>3, <2>1 DEF Informed, Planned, PC, Calls
  <2> QED  BY <1>1, <1>2, <2>1, <2>2, <2>3, WorkerGoesOn
<1> QED  BY <1>4, <1>5 DEF PrepareEnvironment

\* A worker publishes when it has seen that the current attempt is its own, is
\* publishing, and is bound to its environment.
LEMMA PublishKeeps ==
    ASSUME EJInv, NEW w \in Workers, pc[w] \in {"bind", "reread-bind"}, JournalMoved(w),
           NEW revision, Publish(w, revision), Local,
           revision = journal'.attempts[journal'.highest].revision,
           journal'.highest = job[w].fence,
           journal'.attempts[journal'.highest].by = w,
           journal'.attempts[journal'.highest].state = "publishing",
           journal'.identity = job[w].identity
    PROVE  EJInv'
<1> DEFINE b == [job[w] EXCEPT !.revision = revision]
           e == [plan |-> job[w].plan, identity |-> job[w].identity]
<1>1. /\ job[w] \in JobRow /\ job[w].fence \in 1 .. Len(leases)
      /\ journal.plan # 0 /\ job[w].plan = journal.plan /\ job[w].identity \in Identities
  BY WorkerRows DEF Informed, Planned
<1>2. Record(journal').state \in Open
  BY DEF Record, Open
<1>3. revision \in 0 .. 1
  BY <1>2, OpenRecords DEF Record, JournalMoved
<1>4. b \in JobRow /\ b.fence = job[w].fence /\ b.revision = revision
      /\ b.identity = job[w].identity
  BY <1>1, <1>3 DEF JobRow
<1>5. Goto(w, "publish", b) /\ effects' = effects \union {e}
  BY DEF Publish
<1>6. e \in [plan : Fences, identity : Identities] /\ e.plan = journal'.plan
      /\ e.identity = journal'.identity
  BY <1>1 DEF JobRow, Fences, JournalMoved, JournalStep
<1> HIDE DEF b, e
<1>7. Informed(journal', Len(leases), w, "publish", b) /\ "publish" \in PC
  BY <1>1, <1>4 DEF Informed, Planned, Owner, PC
<1>8. UNCHANGED <<run, leases, authorizations, inflight, faults>>
  BY DEF Local
<1>9. /\ run' \in RunRow /\ faults' \in 0 .. MaxFaults
      /\ run'.state = "succeeded" =>
           journal'.completion # 0 /\ run'.evidence = journal'.evidence
  BY <1>8 DEF EJInv, Rows, ReportedIsJournaled, Completed, JournalMoved, JournalStep
<1> QED  BY <1>4, <1>5, <1>6, <1>7, <1>8, <1>9, WorkerMoves DEF JournalMoved

LEMMA BindExecutionIdentityKeeps ==
    ASSUME EJInv, NEW w \in Workers, BindExecutionIdentity(w)
    PROVE  EJInv'
<1> DEFINE c == CallOf(w)
<1>1. pc[w] = "bind" /\ pc[w] \in Calls /\ Transact(c) /\ Local
  BY DEF BindExecutionIdentity, Calls
<1>2. JournalMoved(w)
  BY <1>1, OwnTransaction
<1>3. /\ c.kind = "bind" /\ c.by = w /\ c.fence = job[w].fence /\ c.identity = job[w].identity
  BY <1>1, CallsAreGood
<1>4. job[w] \in JobRow /\ job[w].fence \in 1 .. Len(leases)
      /\ Informed(journal, Len(leases), w, pc[w], job[w])
  BY <1>1, WorkerRows
<1>5. CASE Verdict(c) # "conflict"
  <2>1. Publish(w, Record(journal').revision)
    BY <1>5 DEF BindExecutionIdentity
  <2> HIDE DEF c
  <2>2. /\ BindVerdict(c) # "conflict"
        /\ journal' = IF BindVerdict(c) = "write"
                      THEN [journal EXCEPT !.identity = c.identity] ELSE journal
    BY <1>1, <1>3, <1>5 DEF Verdict, Written, Transact
  <2>3. /\ OwnAttempt(c) /\ Current.state = "publishing"
        /\ BindVerdict(c) # "write" => journal.identity = c.identity
    BY <2>2 DEF BindVerdict
  <2>4. journal \in JournalRow
    BY DEF EJInv, JournalShape
  <2>5. /\ journal'.identity = c.identity /\ journal'.highest = journal.highest
        /\ journal'.attempts = journal.attempts
    BY <2>2, <2>3, <2>4 DEF JournalRow
  <2>6. /\ Record(journal').revision = journal'.attempts[journal'.highest].revision
        /\ journal'.highest = job[w].fence
        /\ journal'.attempts[journal'.highest].by = w
        /\ journal'.attempts[journal'.highest].state = "publishing"
        /\ journal'.identity = job[w].identity
    BY <1>3, <2>3, <2>5 DEF Record, OwnAttempt, Current
  <2> QED  BY <1>1, <1>2, <2>1, <2>6, PublishKeeps
<1>6. CASE Verdict(c) = "conflict"
  <2> DEFINE b == [job[w] EXCEPT !.ending = "conflict"]
  <2>1. Goto(w, "reread-bind", b) /\ UNCHANGED effects
    BY <1>6 DEF BindExecutionIdentity
  <2>2. b \in JobRow /\ b.fence = job[w].fence /\ b.plan = job[w].plan
        /\ b.identity = job[w].identity
    BY <1>4 DEF JobRow, Ending
  <2> HIDE DEF b
  <2>3. Informed(journal', Len(leases), w, "reread-bind", b) /\ "reread-bind" \in PC
    BY <1>1, <1>2, <1>4, <2>2 DEF Informed, Planned, PC, JournalMoved, JournalStep
  <2> QED  BY <1>1, <1>2, <2>1, <2>2, <2>3, WorkerGoesOn
<1> QED  BY <1>5, <1>6

LEMMA RereadBindKeeps ==
    ASSUME EJInv, NEW w \in Workers, RereadBind(w)
    PROVE  EJInv'
<1>1. pc[w] = "reread-bind" /\ UNCHANGED journal /\ Local
  BY DEF RereadBind
<1>2. JournalMoved(w)
  BY <1>1, UntouchedJournal
<1>3. CASE BoundByUs(w) /\ ~Completed
  <2>1. Publish(w, Current.revision)
    BY <1>3 DEF RereadBind
  <2>2. Current.state # "completed"
    BY <1>3 DEF EJInv, JournalShape, Completed, Current
  <2>3. /\ Current.revision = journal'.attempts[journal'.highest].revision
        /\ journal'.highest = job[w].fence
        /\ journal'.attempts[journal'.highest].by = w
        /\ journal'.attempts[journal'.highest].state = "publishing"
        /\ journal'.identity = job[w].identity
    BY <1>1, <1>3, <2>2 DEF BoundByUs, OwnAttempt, CallOf, Current
  <2> QED  BY <1>1, <1>2, <2>1, <2>3, PublishKeeps
<1>4. CASE ~(BoundByUs(w) /\ ~Completed)
  <2>1. UNCHANGED effects
    BY <1>4 DEF RereadBind
  <2>2. CASE BoundByUs(w)
    <3>1. Finish(w, "result", journal'.evidence) /\ journal'.completion # 0
      BY <1>1, <1>4, <2>2 DEF RereadBind, Return, Completed
    <3> QED  BY <1>1, <1>2, <2>1, <3>1, WorkerReturns
  <2>3. CASE ~BoundByUs(w)
    <3>1. Raise(w, EndingAfterReread(w))
      BY <1>4, <2>3 DEF RereadBind
    <3>2. EndingAfterReread(w) \in Ending \ {"result"}
      BY DEF EndingAfterReread, Ending
    <3> QED  BY <1>1, <1>2, <2>1, <3>1, <3>2, WorkerRaises
  <2> QED  BY <2>2, <2>3
<1> QED  BY <1>3, <1>4

LEMMA EndPublicationKeeps ==
    ASSUME EJInv, NEW w \in Workers, EndPublication(w)
    PROVE  EJInv'
<1>1. pc[w] = "publish" /\ UNCHANGED <<journal, effects>> /\ Local
  BY DEF EndPublication
<1>2. JournalMoved(w)
  BY <1>1, UntouchedJournal
<1>3. job[w] \in JobRow /\ job[w].fence \in 1 .. Len(leases)
  BY <1>1, WorkerRows
<1>4. ASSUME NEW e \in Evidence, Goto(w, "complete", [job[w] EXCEPT !.evidence = e])
      PROVE  EJInv'
  <2> DEFINE b == [job[w] EXCEPT !.evidence = e]
  <2>1. b \in JobRow /\ b.fence = job[w].fence
    BY <1>3 DEF JobRow, EvidenceOrNone
  <2>2. Goto(w, "complete", b)
    BY <1>4
  <2> HIDE DEF b
  <2>3. Informed(journal', Len(leases), w, "complete", b) /\ "complete" \in PC
    BY <1>3, <2>1 DEF Informed, Planned, PC, Calls
  <2> QED  BY <1>1, <1>2, <2>1, <2>2, <2>3, WorkerGoesOn
<1>5. ASSUME NEW ending \in {"retryable", "refused"},
             Goto(w, "uncertain", [job[w] EXCEPT !.ending = ending])
      PROVE  EJInv'
  <2> DEFINE b == [job[w] EXCEPT !.ending = ending]
  <2>1. b \in JobRow /\ b.fence = job[w].fence /\ b.ending = ending
    BY <1>3 DEF JobRow, Ending
  <2>2. Goto(w, "uncertain", b)
    BY <1>5
  <2> HIDE DEF b
  <2>3. Informed(journal', Len(leases), w, "uncertain", b) /\ "uncertain" \in PC
    BY <1>3, <2>1 DEF Informed, Planned, PC, Calls
  <2> QED  BY <1>1, <1>2, <2>1, <2>2, <2>3, WorkerGoesOn
<1> QED  BY <1>4, <1>5 DEF EndPublication

LEMMA MarkCompletedKeeps ==
    ASSUME EJInv, NEW w \in Workers, MarkCompleted(w)
    PROVE  EJInv'
<1> DEFINE c == CallOf(w)
<1>1. pc[w] = "complete" /\ pc[w] \in Calls /\ Transact(c) /\ UNCHANGED effects /\ Local
  BY DEF MarkCompleted, Calls
<1>2. JournalMoved(w)
  BY <1>1, OwnTransaction
<1>3. job[w] \in JobRow /\ job[w].fence \in 1 .. Len(leases)
  BY <1>1, WorkerRows
<1>4. CASE Verdict(c) = "conflict"
  <2> DEFINE b == [job[w] EXCEPT !.ending = "conflict"]
  <2>1. Goto(w, "reread-complete", b)
    BY <1>4 DEF MarkCompleted
  <2>2. b \in JobRow /\ b.fence = job[w].fence
    BY <1>3 DEF JobRow, Ending
  <2> HIDE DEF b
  <2>3. Informed(journal', Len(leases), w, "reread-complete", b) /\ "reread-complete" \in PC
    BY <1>3, <2>2 DEF Informed, Planned, PC
  <2> QED  BY <1>1, <1>2, <2>1, <2>2, <2>3, WorkerGoesOn
<1>5. CASE Verdict(c) # "conflict"
  <2>1. Finish(w, "result", journal'.evidence)
    BY <1>5 DEF MarkCompleted, Return
  <2>2. c.kind = "complete" /\ GoodCall(c)
    BY <1>1, CallsAreGood
  <2> HIDE DEF c
  <2>3. journal'.completion # 0
    <3>1. /\ CompleteVerdict(c) # "conflict"
          /\ journal' = IF CompleteVerdict(c) = "write"
                        THEN [journal EXCEPT !.attempts = CurrentMoved("completed"),
                                             !.completion = c.fence, !.evidence = c.evidence]
                        ELSE journal
      BY <1>1, <1>5, <2>2 DEF Verdict, Written, Transact
    <3>2. CASE CompleteVerdict(c) = "write"
      BY <2>2, <3>1, <3>2, CompleteKeeps DEF EJInv
    <3>3. CASE CompleteVerdict(c) # "write"
      BY <3>1, <3>3 DEF CompleteVerdict, Completed
    <3> QED  BY <3>2, <3>3
  <2> QED  BY <1>1, <1>2, <2>1, <2>3, WorkerReturns
<1> QED  BY <1>4, <1>5

LEMMA RereadCompletedKeeps ==
    ASSUME EJInv, NEW w \in Workers, RereadCompleted(w)
    PROVE  EJInv'
<1>1. pc[w] = "reread-complete" /\ UNCHANGED <<journal, effects>> /\ Local
  BY DEF RereadCompleted
<1>2. JournalMoved(w)
  BY <1>1, UntouchedJournal
<1>3. CASE Completed /\ Return(w, journal)
  <2>1. Finish(w, "result", journal'.evidence) /\ journal'.completion # 0
    BY <1>1, <1>3 DEF Return, Completed
  <2> QED  BY <1>1, <1>2, <2>1, WorkerReturns
<1>4. CASE Raise(w, "refused")
  <2>1. "refused" \in Ending \ {"result"}
    BY DEF Ending
  <2> QED  BY <1>1, <1>2, <1>4, <2>1, WorkerRaises
<1>5. CASE Raise(w, EndingAfterReread(w))
  <2>1. EndingAfterReread(w) \in Ending \ {"result"}
    BY DEF EndingAfterReread, Ending
  <2> QED  BY <1>1, <1>2, <1>5, <2>1, WorkerRaises
<1> QED  BY <1>3, <1>4, <1>5 DEF RereadCompleted

LEMMA MarkEndedKeeps ==
    ASSUME EJInv, NEW w \in Workers, MarkEnded(w)
    PROVE  EJInv'
<1> DEFINE ending == IF Verdict(CallOf(w)) = "conflict" THEN "retryable" ELSE job[w].ending
<1>1. /\ pc[w] \in {"fail", "uncertain"} /\ pc[w] \in Calls /\ Transact(CallOf(w))
      /\ Raise(w, ending) /\ UNCHANGED effects /\ Local
  BY DEF MarkEnded, Calls
<1>2. JournalMoved(w)
  BY <1>1, OwnTransaction
<1>3. ending \in Ending \ {"result"}
  BY <1>1, WorkerRows DEF Informed, Ending
<1> HIDE DEF ending
<1> QED  BY <1>1, <1>2, <1>3, WorkerRaises

\* A worker that has no job any more.
LEMMA WorkerLeaves ==
    ASSUME EJInv, NEW w \in Workers, pc[w] # "idle", Goto(w, "idle", NoJob),
           UNCHANGED <<leases, journal, authorizations, effects>>,
           faults' \in 0 .. MaxFaults,
           inflight' = inflight \/ (pc[w] \in Calls /\ inflight' = inflight \union {CallOf(w)}),
           run' \in RunRow,
           run'.state = "succeeded" =>
             journal.completion # 0 /\ run'.evidence = journal.evidence
    PROVE  EJInv'
<1>1. JournalMoved(w)
  BY UntouchedJournal
<1>2. NoJob \in JobRow /\ "idle" \in PC
  BY DEF NoJob, JobRow, Ending, IdentityOrNone, EvidenceOrNone, PC
<1>3. Informed(journal', Len(leases), w, "idle", NoJob)
  BY DEF Informed, Planned
<1> QED  BY <1>1, <1>2, <1>3, WorkerMoves DEF JournalMoved

LEMMA CloseKeeps ==
    ASSUME EJInv, NEW w \in Workers, Close(w)
    PROVE  EJInv'
<1>1. /\ pc[w] = "close" /\ Goto(w, "idle", NoJob)
      /\ UNCHANGED <<leases, journal, authorizations, inflight, effects, faults>>
  BY DEF Close
<1>2. /\ job[w] \in JobRow /\ run \in RunRow /\ faults \in 0 .. MaxFaults
      /\ Informed(journal, Len(leases), w, pc[w], job[w])
      /\ run.state = "succeeded" => journal.completion # 0 /\ run.evidence = journal.evidence
  BY <1>1, WorkerRows DEF EJInv, Rows, ReportedIsJournaled, Completed
<1>3. /\ run' \in RunRow
      /\ run'.state = "succeeded" =>
           journal.completion # 0 /\ run'.evidence = journal.evidence
  <2>1. CASE ~HoldsRun(w)
    BY <1>2, <2>1 DEF Close
  <2>2. CASE HoldsRun(w) /\ job[w].ending = "result"
    <3>1. run' = [state |-> "succeeded", evidence |-> job[w].evidence]
      BY <2>2 DEF Close
    <3>2. journal.completion # 0 /\ job[w].evidence = journal.evidence
      BY <1>1, <1>2, <2>2 DEF Informed
    <3> QED  BY <1>2, <3>1, <3>2 DEF RunRow, JobRow
  <2>3. CASE HoldsRun(w) /\ job[w].ending # "result"
    <3>1. PICK s \in {"queued", "failed"} : run' = [run EXCEPT !.state = s]
      BY <2>3 DEF Close
    <3> QED  BY <1>2, <3>1 DEF RunRow
  <2> QED  BY <2>1, <2>2, <2>3
<1> QED  BY <1>1, <1>2, <1>3, WorkerLeaves

----------------------------------------------------------------------------
(* Faults *)

LEMMA AnswerLostKeeps ==
    ASSUME EJInv, NEW w \in Workers, AnswerLost(w)
    PROVE  EJInv'
<1>1. /\ pc[w] \in Calls /\ pc[w] # "idle"
      /\ UNCHANGED <<run, leases, authorizations, effects>>
      /\ faults < MaxFaults /\ faults' = faults + 1
  BY DEF AnswerLost, Calls
<1>2. faults' \in 0 .. MaxFaults
  BY <1>1 DEF EJInv, Rows
<1>3. JournalMoved(w) /\ (inflight' = inflight \/ inflight' = inflight \union {CallOf(w)})
  BY <1>1, OwnTransaction, UntouchedJournal DEF AnswerLost
<1>4. /\ job[w] \in JobRow /\ job[w].fence \in 1 .. Len(leases)
      /\ Informed(journal, Len(leases), w, pc[w], job[w])
  BY <1>1, WorkerRows
<1>5. CASE pc[w] \notin {"begin", "bind", "complete"}
  <2>1. Finish(w, "retryable", NoEvidence)
    BY <1>5 DEF AnswerLost, Raise
  <2>2. "retryable" \in Ending /\ NoEvidence \in EvidenceOrNone
    BY DEF Ending, EvidenceOrNone
  <2> QED  BY <1>1, <1>2, <1>3, <2>1, <2>2, WorkerEnds
<1>6. CASE pc[w] \in {"begin", "bind", "complete"}
  <2> DEFINE b == [job[w] EXCEPT !.ending = "unknown"]
             p == CASE pc[w] = "begin" -> "reread-begin"
                    [] pc[w] = "bind" -> "reread-bind"
                    [] pc[w] = "complete" -> "reread-complete"
  <2>1. Goto(w, p, b)
    BY <1>6 DEF AnswerLost
  <2>2. /\ b \in JobRow /\ b.fence = job[w].fence /\ b.plan = job[w].plan
        /\ b.identity = job[w].identity
    BY <1>4 DEF JobRow, Ending
  <2>3. \/ pc[w] = "begin" /\ p = "reread-begin"
        \/ pc[w] = "bind" /\ p = "reread-bind"
        \/ pc[w] = "complete" /\ p = "reread-complete"
    BY <1>6
  <2> HIDE DEF b, p
  <2>4. Informed(journal', Len(leases), w, p, b)
    BY <1>3, <1>4, <2>2, <2>3 DEF Informed, Planned, JournalMoved, JournalStep
  <2>5. p \in PC
    BY <2>3 DEF PC
  <2>6. /\ run' \in RunRow
        /\ run'.state = "succeeded" =>
             journal'.completion # 0 /\ run'.evidence = journal'.evidence
    BY <1>1, <1>3
    DEF EJInv, Rows, ReportedIsJournaled, Completed, JournalMoved, JournalStep
  <2> QED
    BY <1>1, <1>2, <1>3, <2>1, <2>2, <2>3, <2>4, <2>5, <2>6, WorkerMoves DEF JournalMoved
<1> QED  BY <1>5, <1>6

LEMMA ReadFailsKeeps ==
    ASSUME EJInv, NEW w \in Workers, ReadFails(w)
    PROVE  EJInv'
<1>1. /\ pc[w] \in {"reread-begin", "reread-bind", "reread-complete", "close"}
      /\ UNCHANGED <<run, leases, journal, authorizations, inflight, effects>>
      /\ faults < MaxFaults /\ faults' = faults + 1
  BY DEF ReadFails
<1>2. faults' \in 0 .. MaxFaults
  BY <1>1 DEF EJInv, Rows
<1>3. JournalMoved(w)
  BY <1>1, UntouchedJournal
<1>4. CASE pc[w] = "close"
  <2>1. Goto(w, "idle", NoJob)
    BY <1>4 DEF ReadFails
  <2>2. /\ run' \in RunRow
        /\ run'.state = "succeeded" =>
             journal.completion # 0 /\ run'.evidence = journal.evidence
    BY <1>1 DEF EJInv, Rows, ReportedIsJournaled, Completed
  <2> QED  BY <1>1, <1>2, <1>4, <2>1, <2>2, WorkerLeaves
<1>5. CASE pc[w] # "close"
  <2>1. PICK ending \in {"retryable", "refused"} : Finish(w, ending, NoEvidence)
    BY <1>1, <1>5 DEF ReadFails, Raise, EndingAfterReread
  <2>2. ending \in Ending /\ ending # "result" /\ NoEvidence \in EvidenceOrNone
    BY DEF Ending, EvidenceOrNone
  <2> QED  BY <1>1, <1>2, <1>3, <2>1, <2>2, WorkerEnds
<1> QED  BY <1>4, <1>5

LEMMA DieKeeps ==
    ASSUME EJInv, NEW w \in Workers, Die(w)
    PROVE  EJInv'
<1>1. /\ pc[w] # "idle" /\ Goto(w, "idle", NoJob)
      /\ inflight' = inflight \/ (pc[w] \in Calls /\ inflight' = inflight \union {CallOf(w)})
      /\ UNCHANGED <<run, leases, journal, authorizations, effects>>
      /\ faults < MaxFaults /\ faults' = faults + 1
  BY DEF Die
<1>2. faults' \in 0 .. MaxFaults
  BY <1>1 DEF EJInv, Rows
<1>3. /\ run' \in RunRow
      /\ run'.state = "succeeded" =>
           journal.completion # 0 /\ run'.evidence = journal.evidence
  BY <1>1 DEF EJInv, Rows, ReportedIsJournaled, Completed
<1> QED  BY <1>1, <1>2, <1>3, WorkerLeaves

----------------------------------------------------------------------------
(* Leases, late commits and recovery *)

LEMMA ClaimKeeps ==
    ASSUME EJInv, NEW w \in Workers, Claim(w)
    PROVE  EJInv'
<1> DEFINE b == [NoJob EXCEPT !.fence = Len(leases) + 1]
           L == Len(leases)
<1>1. /\ pc[w] = "idle" /\ Goto(w, "prepare", b) /\ L < MaxRunAttempts
      /\ run.state \in {"queued", "leased"} /\ run' = [run EXCEPT !.state = "leased"]
      /\ leases' = Append(leases, w) /\ LeaseRunsOut
      /\ UNCHANGED <<journal, authorizations, inflight, effects>>
  BY DEF Claim
<1>2. L \in Nat /\ leases' \in Seq(Workers) /\ Len(leases') = L + 1
  BY <1>1, LenProperties, AppendProperties DEF EJInv, Rows
<1>3. b \in JobRow /\ b.fence = L + 1
  BY <1>1, <1>2 DEF NoJob, JobRow, Ending, IdentityOrNone, EvidenceOrNone
<1> HIDE DEF b
<1>4. /\ pc' \in [Workers -> PC] /\ job' \in [Workers -> JobRow]
      /\ pc'[w] = "prepare" /\ job'[w] = b
      /\ \A v \in Workers : v # w => pc'[v] = pc[v] /\ job'[v] = job[v]
  BY <1>1, <1>3 DEF Goto, EJInv, Rows, PC, Calls
<1>5. run' \in RunRow /\ run'.state = "leased"
  BY <1>1 DEF EJInv, Rows, RunRow
<1>6. faults' \in 0 .. MaxFaults
  BY <1>1 DEF LeaseRunsOut, EJInv, Rows
<1>7. Rows'
  BY <1>1, <1>2, <1>4, <1>5, <1>6 DEF EJInv, Rows
<1> HIDE DEF L
<1>8. WorkersAreInformed'
  <2> SUFFICES ASSUME NEW v \in Workers
               PROVE  Informed(journal', Len(leases'), v, pc'[v], job'[v])
    BY DEF WorkersAreInformed
  <2>1. CASE v = w
    BY <1>2, <1>3, <1>4, <2>1 DEF Informed, Planned
  <2>2. CASE v # w
    <3>1. Informed(journal, L, v, pc[v], job[v])
      BY DEF EJInv, WorkersAreInformed, L
    <3> QED  BY <1>1, <1>2, <1>4, <2>2, <3>1 DEF Informed
  <2> QED  BY <2>1, <2>2
<1>9. LateCallsArePast'
  <2> SUFFICES ASSUME NEW c \in inflight
               PROVE  Late(c, Len(leases'), pc'[c.by], job'[c.by])
    BY <1>1 DEF LateCallsArePast
  <2>1. Late(c, L, pc[c.by], job[c.by]) /\ c.by \in Workers
    BY DEF EJInv, LateCallsArePast, Late, GoodCall, Call, L
  <2>2. c.fence \in 1 .. L /\ c.fence # L + 1
    BY <1>2, <2>1 DEF Late
  <2>3. CASE c.by = w
    BY <1>2, <1>3, <1>4, <2>1, <2>2, <2>3 DEF Late
  <2>4. CASE c.by # w
    BY <1>2, <1>4, <2>1, <2>4 DEF Late
  <2> QED  BY <2>3, <2>4
<1>10. AbandonedIsFenced'
  <2> SUFFICES ASSUME NEW a \in authorizations
               PROVE  /\ a.abandoned < Len(leases')
                      /\ \A v \in Workers : pc'[v] = "idle" \/ job'[v].fence # a.abandoned
    BY <1>1 DEF AbandonedIsFenced, Abandoned
  <2>1. /\ a.abandoned < L /\ a.abandoned \in Fences
        /\ \A v \in Workers : pc[v] = "idle" \/ job[v].fence # a.abandoned
    BY DEF EJInv, AbandonedIsFenced, Abandoned, L, Rows
  <2>2. a.abandoned < L + 1 /\ a.abandoned # L + 1
    BY <1>2, <2>1 DEF Fences
  <2> QED  BY <1>2, <1>3, <1>4, <2>1, <2>2
<1>11. OneComposition' /\ ReportedIsJournaled' /\ JournalShape(journal')
  BY <1>1, <1>5 DEF EJInv, OneComposition, ReportedIsJournaled
<1> QED  BY <1>7, <1>8, <1>9, <1>10, <1>11 DEF EJInv

LEMMA TerminalizeKeeps ==
    ASSUME EJInv, TerminalizeExhaustedLease
    PROVE  EJInv'
<1>1. /\ run' = [run EXCEPT !.state = "failed"] /\ LeaseRunsOut
      /\ UNCHANGED <<leases, journal, authorizations, pc, job, inflight, effects>>
  BY DEF TerminalizeExhaustedLease
<1>2. run' \in RunRow /\ run'.state = "failed"
  BY <1>1 DEF EJInv, Rows, RunRow
<1>3. faults' \in 0 .. MaxFaults
  BY <1>1 DEF LeaseRunsOut, EJInv, Rows
<1>4. Rows'
  BY <1>1, <1>2, <1>3 DEF EJInv, Rows
<1>5. WorkersAreInformed' /\ LateCallsArePast' /\ AbandonedIsFenced'
  BY <1>1 DEF EJInv, WorkersAreInformed, LateCallsArePast, AbandonedIsFenced, Abandoned
<1>6. OneComposition' /\ ReportedIsJournaled' /\ JournalShape(journal')
  BY <1>1, <1>2 DEF EJInv, OneComposition, ReportedIsJournaled
<1> QED  BY <1>4, <1>5, <1>6 DEF EJInv

\* The journal moves while no worker does.
LEMMA JournalOnly ==
    ASSUME EJInv, JournalShape(journal'), JournalStep(journal, journal'),
           \A v \in Workers : Informed(journal', Len(leases), v, pc[v], job[v]),
           inflight' \subseteq inflight,
           UNCHANGED <<run, leases, authorizations, pc, job, effects, faults>>
    PROVE  EJInv'
<1>1. Rows'
  BY DEF EJInv, Rows
<1>2. WorkersAreInformed'
  BY DEF WorkersAreInformed
<1>3. LateCallsArePast'
  BY DEF EJInv, LateCallsArePast
<1>4. AbandonedIsFenced'
  BY DEF EJInv, AbandonedIsFenced, Abandoned
<1>5. OneComposition'
  <2> SUFFICES ASSUME NEW e \in effects
               PROVE  e.plan = journal'.plan /\ e.identity = journal'.identity
    BY DEF OneComposition
  <2>1. /\ e.plan = journal.plan /\ e.identity = journal.identity
        /\ e.plan \in Fences /\ e.identity \in Identities
    BY DEF EJInv, OneComposition, Rows
  <2> QED  BY <2>1 DEF JournalStep, Fences
<1>6. ReportedIsJournaled'
  BY DEF EJInv, ReportedIsJournaled, Completed, JournalStep
<1> QED  BY <1>1, <1>2, <1>3, <1>4, <1>5, <1>6 DEF EJInv

LEMMA LateCommitKeeps ==
    ASSUME EJInv, NEW c \in inflight, LateCommit(c)
    PROVE  EJInv'
<1>1. /\ Transact(c) /\ inflight' \subseteq inflight
      /\ UNCHANGED <<run, leases, authorizations, pc, job, effects, faults>>
  BY DEF LateCommit
<1>2. Late(c, Len(leases), pc[c.by], job[c.by]) /\ GoodCall(c) /\ JournalShape(journal)
  BY DEF EJInv, LateCallsArePast, Late
<1>3. /\ JournalShape(journal') /\ JournalStep(journal, journal')
      /\ IdentityBound /\ Current.state = "publishing" =>
           \/ journal' = journal
           \/ OwnAttempt(c) /\ c.kind \in {"fail", "uncertain", "complete"}
  BY <1>1, <1>2, TransactKeeps
<1>4. ASSUME NEW v \in Workers
      PROVE  Informed(journal', Len(leases), v, pc[v], job[v])
  <2>1. Informed(journal, Len(leases), v, pc[v], job[v])
    BY DEF EJInv, WorkersAreInformed
  <2>2. pc[v] = "publish" /\ journal' # journal =>
          ~(IdentityBound /\ Current.state = "publishing"
            /\ Current.by = v /\ journal.highest = job[v].fence)
    BY <1>2, <1>3 DEF OwnAttempt, Late
  <2> QED  BY <1>2, <1>3, <2>1, <2>2, OthersStayInformed
<1> QED  BY <1>1, <1>3, <1>4, JournalOnly

LEMMA AuthorizeRecoveryKeeps ==
    ASSUME EJInv, AuthorizeRecovery
    PROVE  EJInv'
<1> DEFINE a == [abandoned |-> journal.highest, worker |-> Current.by,
                 successor |-> leases[journal.highest + 1]]
<1>1. /\ Current.state = "publishing" /\ journal.highest < Len(leases) /\ ComputeFenced
      /\ authorizations' = authorizations \union {a}
      /\ UNCHANGED <<run, leases, journal, pc, job, inflight, effects, faults>>
  BY DEF AuthorizeRecovery
<1>2. /\ journal.highest \in 0 .. MaxRunAttempts /\ Current.by \in Workers
      /\ Current = journal.attempts[journal.highest]
  BY <1>1, AttemptRows DEF EJInv, AttemptShape
<1>3. journal.highest \in Fences
  BY <1>1, <1>2 DEF EJInv, JournalShape, NoAttempt, Fences
<1>4. leases[journal.highest + 1] \in Workers
  <2>1. journal.highest + 1 \in 1 .. Len(leases)
    BY <1>1, <1>2, LenProperties DEF EJInv, Rows
  <2> QED  BY <2>1, ElementOfSeq DEF EJInv, Rows
<1>5. /\ a \in [abandoned : Fences, worker : Workers, successor : Workers]
      /\ a.abandoned = journal.highest
  BY <1>2, <1>3, <1>4
<1> HIDE DEF a
<1>6. Rows'
  BY <1>1, <1>5 DEF EJInv, Rows
<1>7. AbandonedIsFenced'
  BY <1>1, <1>5 DEF EJInv, AbandonedIsFenced, Abandoned, ComputeFenced
<1>8. WorkersAreInformed' /\ LateCallsArePast'
  BY <1>1 DEF EJInv, WorkersAreInformed, LateCallsArePast
<1>9. OneComposition' /\ ReportedIsJournaled' /\ JournalShape(journal')
  BY <1>1 DEF EJInv, OneComposition, ReportedIsJournaled, Completed
<1> QED  BY <1>6, <1>7, <1>8, <1>9 DEF EJInv

LEMMA RecoverMoves ==
    ASSUME EJInv, NEW a \in authorizations, Recover(a)
    PROVE  JournalShape(journal') /\ JournalStep(journal, journal')
<1> DEFINE next == a.abandoned + 1
           heir == [by |-> a.successor, state |-> "publishing", revision |-> 1]
           moved == CurrentMoved("uncertain")
           attempts == [moved EXCEPT ![next] = heir]
<1>1. /\ journal.highest = a.abandoned /\ Current.state = "publishing" /\ journal.completion = 0
      /\ journal' = [journal EXCEPT !.highest = next, !.attempts = attempts]
  BY DEF Recover, StillAbandoned, Completed
<1>2. /\ a.abandoned \in Fences /\ a.successor \in Workers
      /\ a.abandoned < Len(leases) /\ Len(leases) <= MaxRunAttempts /\ Len(leases) \in Nat
  BY LenProperties DEF EJInv, Rows, AbandonedIsFenced, Abandoned
<1>3. next \in Fences /\ next > journal.highest /\ next # journal.highest
  BY <1>1, <1>2 DEF Fences
<1>4. JournalShape(journal) /\ journal \in JournalRow
  BY DEF EJInv, JournalShape
<1>5. Current.state \in Open /\ "uncertain" \in AttemptState
  BY <1>1 DEF Open, AttemptState
<1>6. /\ moved \in [0 .. MaxRunAttempts -> Attempt]
      /\ \A f \in 0 .. MaxRunAttempts :
           moved[f] = IF f = journal.highest THEN Moved(Current, "uncertain")
                      ELSE journal.attempts[f]
      /\ AttemptShape(Moved(Current, "uncertain"))
      /\ Moved(Current, "uncertain").state = "uncertain"
      /\ journal.highest \in Fences
  BY <1>4, <1>5, CurrentMoves
<1>7. heir \in Attempt /\ AttemptShape(heir) /\ heir.state = "publishing"
  BY <1>2 DEF Attempt, AttemptShape, AttemptState, Open
<1> HIDE DEF heir, moved, next
<1>8. /\ attempts \in [0 .. MaxRunAttempts -> Attempt]
      /\ \A f \in 0 .. MaxRunAttempts : attempts[f] = IF f = next THEN heir ELSE moved[f]
  BY <1>3, <1>6, <1>7 DEF Fences
<1> HIDE DEF attempts
<1>9. /\ journal' \in JournalRow /\ journal'.highest = next /\ journal'.attempts = attempts
      /\ journal'.plan = journal.plan /\ journal'.identity = journal.identity
      /\ journal'.completion = journal.completion
  <2>1. journal' = [plan |-> journal.plan, identity |-> journal.identity, highest |-> next,
                    attempts |-> attempts, completion |-> journal.completion,
                    evidence |-> journal.evidence]
    BY <1>1, <1>4 DEF JournalRow
  <2>2. next \in 0 .. MaxRunAttempts
    BY <1>3 DEF Fences
  <2> QED  BY <1>4, <1>8, <2>1, <2>2 DEF JournalRow
<1>10. JournalShape(journal')
  <2>1. \A f \in 0 .. MaxRunAttempts : AttemptShape(journal'.attempts[f])
    BY <1>4, <1>6, <1>7, <1>8, <1>9 DEF JournalShape
  <2>2. journal'.attempts[0] = NoAttempt
    BY <1>3, <1>4, <1>6, <1>8, <1>9 DEF JournalShape, Fences
  <2>3. \A f \in Fences : f > journal'.highest => journal'.attempts[f] = NoAttempt
    BY <1>3, <1>4, <1>6, <1>8, <1>9 DEF JournalShape, Fences
  <2>4. \A f \in Fences :
          journal'.attempts[f].state \in Open \union {"completed"} => f = journal'.highest
    BY <1>3, <1>4, <1>6, <1>8, <1>9 DEF JournalShape, Fences, Open
  <2>5. journal'.plan # 0 /\ journal'.highest # 0
    BY <1>3, <1>4, <1>6, <1>9 DEF JournalShape, Fences
  <2>6. journal'.attempts[journal'.highest].state = "publishing" /\ journal'.completion = 0
    BY <1>1, <1>3, <1>7, <1>8, <1>9 DEF Fences
  <2> QED  BY <1>9, <2>1, <2>2, <2>3, <2>4, <2>5, <2>6 DEF JournalShape
<1>11. JournalStep(journal, journal')
  <2>1. ASSUME NEW f \in Fences,
               journal.attempts[f].state \in {"failed", "uncertain", "completed"}
        PROVE  journal'.attempts[f] = journal.attempts[f]
    <3>1. f # journal.highest
      BY <1>1, <2>1 DEF Current
    <3>2. f # next
      BY <1>3, <1>4, <2>1 DEF JournalShape, NoAttempt
    <3> QED  BY <1>6, <1>8, <1>9, <3>1, <3>2 DEF Fences
  <2>2. journal'.highest >= journal.highest
    BY <1>3, <1>6, <1>9 DEF Fences
  <2> QED  BY <1>1, <1>9, <2>1, <2>2 DEF JournalStep
<1> QED  BY <1>10, <1>11

LEMMA RecoverKeeps ==
    ASSUME EJInv, NEW a \in authorizations, Recover(a)
    PROVE  EJInv'
<1>1. /\ StillAbandoned(a)
      /\ UNCHANGED <<run, leases, authorizations, pc, job, inflight, effects, faults>>
  BY DEF Recover
<1>2. JournalShape(journal') /\ JournalStep(journal, journal')
  BY RecoverMoves
<1>3. ASSUME NEW v \in Workers
      PROVE  Informed(journal', Len(leases), v, pc[v], job[v])
  <2>1. Informed(journal, Len(leases), v, pc[v], job[v])
    BY DEF EJInv, WorkersAreInformed
  <2>2. pc[v] # "publish"
    BY <1>1, <2>1 DEF EJInv, AbandonedIsFenced, Abandoned, Informed, Owner, StillAbandoned
  <2> QED  BY <1>2, <2>1, <2>2, OthersStayInformed DEF EJInv
<1> QED  BY <1>1, <1>2, <1>3, JournalOnly

----------------------------------------------------------------------------
(* The theorems *)

LEMMA EJKeepsInv ==
    ASSUME EJInv, [EJNext]_ejVars
    PROVE  EJInv'
<1>1. CASE UNCHANGED ejVars
  <2>1. UNCHANGED <<run, leases, journal, authorizations, pc, job, inflight, effects, faults>>
    BY <1>1 DEF ejVars
  <2>2. JournalShape(journal') /\ JournalStep(journal, journal')
    BY <2>1, NoStep DEF EJInv
  <2>3. \A v \in Workers : Informed(journal', Len(leases), v, pc[v], job[v])
    BY <2>1 DEF EJInv, WorkersAreInformed
  <2> QED  BY <2>1, <2>2, <2>3, JournalOnly
<1>2. ASSUME NEW w \in Workers, WorkerStep(w)
      PROVE  EJInv'
  BY <1>2, PrepareKeeps, BeginKeeps, EnvironmentKeeps, BindExecutionIdentityKeeps,
     RereadBindKeeps, EndPublicationKeeps, MarkCompletedKeeps, RereadCompletedKeeps,
     MarkEndedKeeps, CloseKeeps
  DEF WorkerStep
<1>3. ASSUME NEW w \in Workers, FaultStep(w)
      PROVE  EJInv'
  BY <1>3, AnswerLostKeeps, ReadFailsKeeps, DieKeeps DEF FaultStep
<1> QED
  BY <1>1, <1>2, <1>3, ClaimKeeps, TerminalizeKeeps, LateCommitKeeps,
     AuthorizeRecoveryKeeps, RecoverKeeps
  DEF EJNext

LEMMA EJIsInductive == EJSpec => []EJInv
<1>1. EJInit => EJInv  BY JournalInitially
<1>2. EJInv /\ [EJNext]_ejVars => EJInv'  BY EJKeepsInv
<1> QED  BY <1>1, <1>2, PTL DEF EJSpec

\* For any number of workers, attempts and faults: no two processes publish a run at
\* once, a process that publishes owns the current attempt of the journal, everything
\* the outside was touched with is one composition, and a run is reported to have
\* succeeded only with the evidence the journal completed.
THEOREM RunIsPublishedOnce == EJSpec => []OnePublication
<1>1. EJInv => OnePublication  BY InvImpliesOnePublication
<1> QED  BY <1>1, EJIsInductive, PTL

\* Every step that writes the journal takes nothing back.
LEMMA JournalMovesForward ==
    ASSUME EJInv, [EJNext]_ejVars
    PROVE  JournalStep(journal, journal')
<1>1. CASE UNCHANGED journal
  BY <1>1, NoStep DEF EJInv
<1>2. ASSUME NEW w \in Workers, pc[w] \in Calls, Transact(CallOf(w))
      PROVE  JournalStep(journal, journal')
  BY <1>2, OwnTransaction DEF JournalMoved
<1>3. ASSUME NEW c \in inflight, LateCommit(c)
      PROVE  JournalStep(journal, journal')
  <2>1. GoodCall(c) /\ JournalShape(journal) /\ Transact(c)
    BY <1>3 DEF EJInv, LateCallsArePast, Late, LateCommit
  <2> QED  BY <2>1, TransactKeeps
<1>4. ASSUME NEW w \in Workers, WorkerStep(w)
      PROVE  JournalStep(journal, journal')
  BY <1>1, <1>2, <1>4
  DEF WorkerStep, Prepare, BeginPublishing, RereadBegin, PrepareEnvironment,
      BindExecutionIdentity, RereadBind, EndPublication, MarkCompleted, RereadCompleted,
      MarkEnded, Close, Calls
<1>5. ASSUME NEW w \in Workers, FaultStep(w)
      PROVE  JournalStep(journal, journal')
  BY <1>1, <1>2, <1>5 DEF FaultStep, AnswerLost, ReadFails, Die
<1>6. ASSUME NEW w \in Workers, Claim(w)
      PROVE  UNCHANGED journal
  BY <1>6 DEF Claim
<1>7. CASE TerminalizeExhaustedLease \/ AuthorizeRecovery
  BY <1>1, <1>7 DEF TerminalizeExhaustedLease, AuthorizeRecovery
<1>8. CASE UNCHANGED ejVars
  BY <1>1, <1>8 DEF ejVars
<1> QED
  BY <1>1, <1>3, <1>4, <1>5, <1>6, <1>7, <1>8, RecoverMoves DEF EJNext

\* What the journal has decided, no transaction takes back, however late it commits:
\* plan, identity, completion, the end of every attempt.
THEOREM NothingDecidedIsUndone == EJSpec => DecidedStays
<1>1. ASSUME EJInv, [EJNext]_ejVars
      PROVE  /\ journal.plan # 0 => journal'.plan = journal.plan
             /\ IdentityBound => journal'.identity = journal.identity
             /\ Completed => journal' = journal
             /\ journal'.highest >= journal.highest
             /\ \A f \in Fences :
                  journal.attempts[f].state \in {"failed", "uncertain", "completed"}
                    => journal'.attempts[f] = journal.attempts[f]
  BY <1>1, JournalMovesForward DEF JournalStep, IdentityBound, Completed
<1> QED  BY <1>1, EJIsInductive, PTL DEF EJSpec, DecidedStays
=============================================================================

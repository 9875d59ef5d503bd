----------------------------- MODULE EvidenceProofs -----------------------------
(***************************************************************************)
(* Proofs about what becomes of evidence: the two custody stores keep the  *)
(* promise of a custody store, a publication is held and is one, and who   *)
(* adopts the publication of a silent worker is alone; for any number of   *)
(* processes, objects, power losses, lost answers, leases and documents.   *)
(***************************************************************************)
EXTENDS FilesystemCustody, ManagedPublication, PublishingRecovery, SequenceTheorems,
        FiniteSetTheorems, WellFoundedInduction, TLAPS

USE FilesystemCustodyConstants

----------------------------------------------------------------------------
(* The file system.  The inductive invariant: a directory is renamed to an   *)
(* object's name only when all of it is on disk, the name of an object is    *)
(* taken once, a stage that is being written has one writer, and what a      *)
(* caller was told is on disk under its name.                                *)

Whole(d) == (\A f \in Files : d.files[f] = "clean") /\ d.entries = Files

Sound(d) == (d.name = "object" => Whole(d)) /\ (d.saved = "object" => d.name = "object")

Persisting ==
    [step : {"write", "publish", "published", "verify", "durable", "told"},
     stage : 1 .. MaxStages, object : Objects, payload : Payloads]

CustodyTypes ==
    /\ stages \in [1 .. MaxStages -> Directories \union {Nil}]
    /\ persister \in [Persisters -> Persisting \union {NotPersisting}]
    /\ told \subseteq Objects \X Payloads
    /\ losses \in Nat

NamedAreWhole == \A i \in Made : Sound(stages[i])

OneNamed ==
    \A i, j \in Made :
        /\ stages[i].name = "object" /\ stages[j].name = "object"
        /\ stages[i].object = stages[j].object
        => i = j

\* What process p, at work on directory d, has come to.
WorksOn(p, d) ==
    /\ d # Nil /\ d.object = p.object
    /\ p.step \in {"write", "publish"} => d.name = "pending" /\ d.payload = p.payload
    /\ p.step = "publish" => Whole(d)
    /\ p.step \in {"published", "verify", "durable", "told"} => d.name = "object"
    /\ p.step \in {"durable", "told"} => d.saved = "object" /\ d.payload = p.payload

StagesAreWorkedOn ==
    \A w \in Persisters :
        persister[w].step # "idle" => WorksOn(persister[w], stages[persister[w].stage])

Writing(w) == persister[w].step \in {"write", "publish"}

OneWriter ==
    \A v, w \in Persisters :
        Writing(v) /\ Writing(w) /\ persister[v].stage = persister[w].stage => v = w

\* Directory d holds what t names, and all of it is on disk.
Durable(t, d) ==
    d # Nil /\ d.object = t[1] /\ d.payload = t[2] /\ d.name = "object" /\ d.saved = "object"

ToldIsDurable == \A t \in told : \E i \in 1 .. MaxStages : Durable(t, stages[i])

CustodyInv ==
    /\ CustodyTypes
    /\ NamedAreWhole
    /\ OneNamed
    /\ StagesAreWorkedOn
    /\ OneWriter
    /\ ToldIsDurable

LEMMA NotPersistingIsIdle ==
    /\ NotPersisting.step = "idle" /\ NotPersisting \notin Persisting
    /\ \A p \in Persisting : p.step # "idle"
BY DEF NotPersisting, Persisting

LEMMA PersisterIsTyped ==
    ASSUME CustodyInv, NEW w \in Persisters, persister[w].step # "idle"
    PROVE  /\ persister[w] \in Persisting
           /\ persister[w].stage \in Made
           /\ stages[persister[w].stage] \in Directories
           /\ WorksOn(persister[w], stages[persister[w].stage])
<1>1. persister[w] \in Persisting
  BY NotPersistingIsIdle DEF CustodyInv, CustodyTypes
<1>2. persister[w].stage \in 1 .. MaxStages
  BY <1>1 DEF Persisting
<1>3. WorksOn(persister[w], stages[persister[w].stage])
  BY DEF CustodyInv, StagesAreWorkedOn
<1> QED  BY <1>1, <1>2, <1>3 DEF CustodyInv, CustodyTypes, Made, WorksOn

\* The objects that are there under their names, as directories S, are held whole.
Names(S) == {i \in 1 .. MaxStages : S[i] # Nil /\ S[i].name = "object"}

H(S) == {<<S[i].object, S[i].payload>> : i \in Names(S)}

LEMMA HeldIsWhole ==
    ASSUME NEW S, \A i \in Names(S) : Whole(S[i])
    PROVE  {<<S[i].object, HeldPayload(S[i])>> :
               i \in {j \in {k \in 1 .. MaxStages : S[k] # Nil} : S[j].name = "object"}} = H(S)
<1>1. \A i \in Names(S) : HeldPayload(S[i]) = S[i].payload
  BY DEF Whole, HeldPayload, Readable
<1>2. {j \in {k \in 1 .. MaxStages : S[k] # Nil} : S[j].name = "object"} = Names(S)
  BY DEF Names
<1> QED  BY <1>1, <1>2 DEF H

----------------------------------------------------------------------------
(* What a step other than a power loss may do to directory d *)

Follows(d, e) ==
    /\ e \in Directories /\ Sound(e)
    /\ e.object = d.object /\ e.payload = d.payload
    /\ d.name = "object" => e.name = "object"
    /\ d.saved = "object" => e.saved = "object"

Untouched(d, e) == Follows(d, e) /\ e.name = d.name /\ (Whole(d) => Whole(e))

\* The directory process w is writing is the only one it may rename or fill.
DirectoriesMove(w) ==
    /\ stages' \in [1 .. MaxStages -> Directories \union {Nil}]
    /\ \A i \in Made :
           /\ Follows(stages[i], stages'[i])
           /\ (Writing(w) /\ i = persister[w].stage) \/ Untouched(stages[i], stages'[i])
           /\ stages[i].name # "object" /\ stages'[i].name = "object" =>
                  i = persister[w].stage /\ Named(stages[i].object) = {}
    /\ \A i \in 1 .. MaxStages \ Made :
           stages'[i] # Nil => stages'[i].name = "pending" /\ stages'[i].saved = "none"

\* What process w goes on with is its own, or a directory just made.
PersisterMoves(w, p) ==
    /\ persister' = [persister EXCEPT ![w] = p]
    /\ p \in Persisting \union {NotPersisting}
    /\ p.step # "idle" => WorksOn(p, stages'[p.stage])
    /\ p.step \in {"write", "publish"} =>
           (Writing(w) /\ p.stage = persister[w].stage) \/ p.stage \notin Made

LEMMA StillWorksOn ==
    ASSUME NEW p, NEW d, NEW e, WorksOn(p, d), Follows(d, e),
           Untouched(d, e) \/ p.step \notin {"write", "publish"}
    PROVE  WorksOn(p, e)
BY DEF WorksOn, Follows, Untouched

LEMMA PersistStepKeeps ==
    ASSUME CustodyInv, NEW w \in Persisters, NEW p, DirectoriesMove(w), PersisterMoves(w, p),
           told' \subseteq Objects \X Payloads, losses' \in Nat,
           \A t \in told' : t \in told \/ \E i \in 1 .. MaxStages : Durable(t, stages'[i])
    PROVE  CustodyInv'
<1>0. Made \subseteq 1 .. MaxStages /\ \A i \in Made : stages'[i] # Nil
  BY DEF Made, DirectoriesMove, Follows
<1>1. /\ persister' \in [Persisters -> Persisting \union {NotPersisting}]
      /\ \A v \in Persisters : persister'[v] = IF v = w THEN p ELSE persister[v]
  BY DEF CustodyInv, CustodyTypes, PersisterMoves
<1>2. CustodyTypes'
  BY <1>1 DEF CustodyTypes, DirectoriesMove
<1>3. NamedAreWhole'
  <2> SUFFICES ASSUME NEW i \in Made' PROVE Sound(stages'[i])
    BY DEF NamedAreWhole
  <2>1. CASE i \in Made
    BY <2>1 DEF DirectoriesMove, Follows
  <2>2. CASE i \notin Made
    BY <2>2 DEF DirectoriesMove, Sound, Made
  <2> QED  BY <2>1, <2>2
<1>4. OneNamed'
  <2> SUFFICES ASSUME NEW i \in Made', NEW j \in Made',
                      stages'[i].name = "object", stages'[j].name = "object",
                      stages'[i].object = stages'[j].object
               PROVE  i = j
    BY DEF OneNamed
  <2>1. i \in Made /\ j \in Made
    BY DEF DirectoriesMove, Made
  <2>2. stages[i].object = stages[j].object
    BY <2>1 DEF DirectoriesMove, Follows
  <2>3. CASE stages[i].name = "object" /\ stages[j].name = "object"
    BY <2>1, <2>2, <2>3 DEF CustodyInv, OneNamed
  <2>4. CASE stages[i].name # "object"
    <3>1. i = persister[w].stage /\ stages[j].name # "object"
      BY <2>1, <2>2, <2>4 DEF DirectoriesMove, Named
    <3> QED  BY <2>1, <3>1 DEF DirectoriesMove
  <2>5. CASE stages[j].name # "object"
    <3>1. j = persister[w].stage /\ stages[i].name # "object"
      BY <2>1, <2>2, <2>5 DEF DirectoriesMove, Named
    <3> QED  BY <2>1, <3>1 DEF DirectoriesMove
  <2> QED  BY <2>3, <2>4, <2>5
<1>5. StagesAreWorkedOn'
  <2> SUFFICES ASSUME NEW v \in Persisters, persister'[v].step # "idle"
               PROVE  WorksOn(persister'[v], stages'[persister'[v].stage])
    BY DEF StagesAreWorkedOn
  <2>1. CASE v = w
    BY <1>1, <2>1 DEF PersisterMoves
  <2>2. CASE v # w
    <3> DEFINE i == persister[v].stage
    <3>1. persister'[v] = persister[v]
      BY <1>1, <2>2
    <3>2. WorksOn(persister[v], stages[i]) /\ i \in Made
      BY <3>1, PersisterIsTyped
    <3>3. Untouched(stages[i], stages'[i]) \/ persister[v].step \notin {"write", "publish"}
      BY <2>2, <3>2 DEF DirectoriesMove, CustodyInv, OneWriter, Writing
    <3> QED  BY <3>1, <3>2, <3>3, StillWorksOn DEF DirectoriesMove
  <2> QED  BY <2>1, <2>2
<1>6. OneWriter'
  <2> SUFFICES ASSUME NEW u \in Persisters, NEW v \in Persisters,
                      persister'[u].step \in {"write", "publish"},
                      persister'[v].step \in {"write", "publish"},
                      persister'[u].stage = persister'[v].stage
               PROVE  u = v
    BY DEF OneWriter, Writing
  <2>1. ASSUME NEW x \in Persisters, x # w, Writing(x)
        PROVE  persister[x].stage \in Made
    BY <2>1, PersisterIsTyped DEF Writing
  <2> QED  BY <1>1, <2>1 DEF PersisterMoves, CustodyInv, OneWriter, Writing
<1>7. ToldIsDurable'
  <2> SUFFICES ASSUME NEW t \in told'
               PROVE  \E i \in 1 .. MaxStages : Durable(t, stages'[i])
    BY DEF ToldIsDurable
  <2>1. CASE t \in told
    <3>1. PICK i \in 1 .. MaxStages : Durable(t, stages[i])
      BY <2>1 DEF CustodyInv, ToldIsDurable
    <3>2. i \in Made
      BY <3>1 DEF Made, Durable
    <3>3. Durable(t, stages'[i])
      BY <1>0, <3>1, <3>2 DEF Durable, DirectoriesMove, Follows
    <3> QED  BY <3>3
  <2> QED  BY <2>1
<1> QED  BY <1>2, <1>3, <1>4, <1>5, <1>6, <1>7 DEF CustodyInv

\* What the promise allows a step to do to the objects held and to what callers were told.
Promised ==
    \/ H(stages') = H(stages) /\ told' = told
    \/ \E e : /\ H(stages') = H(stages) \union {e} /\ told' = told
              /\ \A other \in H(stages) : other[1] # e[1]
    \/ \E e \in H(stages) : H(stages') = H(stages) /\ told' = told \union {e}
    \/ told \subseteq H(stages') /\ H(stages') \subseteq H(stages) /\ told' = told

\* Without a new name nothing else is held.
LEMMA SameNames ==
    ASSUME CustodyInv, NEW w, DirectoriesMove(w),
           \A i \in Made : stages'[i].name = "object" => stages[i].name = "object"
    PROVE  H(stages') = H(stages)
<1>1. Names(stages') = Names(stages)
  BY DEF Names, DirectoriesMove, Made, Follows
<1>2. \A i \in Names(stages) : /\ stages'[i].object = stages[i].object
                               /\ stages'[i].payload = stages[i].payload
  BY DEF Names, DirectoriesMove, Made, Follows
<1> QED  BY <1>1, <1>2 DEF H

LEMMA DirectoriesAreTyped ==
    ASSUME CustodyInv
    PROVE  \A i \in Made : stages[i] \in Directories /\ Sound(stages[i]) /\ i \in 1 .. MaxStages
BY DEF CustodyInv, CustodyTypes, NamedAreWhole, Made

LEMMA SameDirectories ==
    ASSUME CustodyInv, NEW w, UNCHANGED stages
    PROVE  DirectoriesMove(w) /\ H(stages') = H(stages)
<1>1. \A i \in Made : Follows(stages[i], stages[i]) /\ Untouched(stages[i], stages[i])
  BY DirectoriesAreTyped DEF Follows, Untouched
<1>2. DirectoriesMove(w)
  BY <1>1 DEF DirectoriesMove, CustodyInv, CustodyTypes, Made
<1> QED  BY <1>2

\* A process writes in its own stage.
LEMMA OwnStage ==
    ASSUME CustodyInv, NEW w \in Persisters, Writing(w), NEW e,
           Follows(stages[persister[w].stage], e), e.name # "object",
           stages' = [stages EXCEPT ![persister[w].stage] = e]
    PROVE  /\ DirectoriesMove(w) /\ H(stages') = H(stages)
           /\ stages'[persister[w].stage] = e
<1> DEFINE i == persister[w].stage
<1>1. i \in Made
  BY PersisterIsTyped DEF Writing
<1>2. /\ stages' \in [1 .. MaxStages -> Directories \union {Nil}]
      /\ \A j \in 1 .. MaxStages : stages'[j] = IF j = i THEN e ELSE stages[j]
  BY <1>1 DEF CustodyInv, CustodyTypes, Made, Follows
<1>3. \A j \in Made : Follows(stages[j], stages[j]) /\ Untouched(stages[j], stages[j])
  BY DirectoriesAreTyped DEF Follows, Untouched
<1> HIDE DEF i
<1>4. DirectoriesMove(w)
  BY <1>1, <1>2, <1>3 DEF DirectoriesMove, Made, i
<1>5. H(stages') = H(stages)
  BY <1>2, <1>4, SameNames DEF Made
<1> QED  BY <1>1, <1>2, <1>4, <1>5 DEF i, Made

\* fsync of the root writes the names that are there.
LEMMA SyncedDirectory ==
    ASSUME NEW d \in Directories, d.name = "object" => Whole(d)
    PROVE  LET e == [d EXCEPT !.saved = d.name] IN
           /\ e \in Directories /\ Sound(e) /\ e # Nil
           /\ e.object = d.object /\ e.payload = d.payload /\ e.name = d.name
           /\ e.saved = d.name /\ (Whole(d) => Whole(e))
BY DEF Directories, Sound, Whole

LEMMA RootSynced ==
    ASSUME NEW S \in [1 .. MaxStages -> Directories \union {Nil}],
           \A i \in Names(S) : Whole(S[i])
    PROVE  /\ SyncedRoot(S) \in [1 .. MaxStages -> Directories \union {Nil}]
           /\ \A i \in 1 .. MaxStages :
                  /\ S[i] = Nil => SyncedRoot(S)[i] = Nil
                  /\ S[i] # Nil =>
                        /\ SyncedRoot(S)[i] \in Directories /\ Sound(SyncedRoot(S)[i])
                        /\ SyncedRoot(S)[i].object = S[i].object
                        /\ SyncedRoot(S)[i].payload = S[i].payload
                        /\ SyncedRoot(S)[i].name = S[i].name
                        /\ SyncedRoot(S)[i].saved = S[i].name
                        /\ Whole(S[i]) => Whole(SyncedRoot(S)[i])
<1>1. \A i \in 1 .. MaxStages :
          SyncedRoot(S)[i] = IF S[i] = Nil THEN Nil ELSE [S[i] EXCEPT !.saved = S[i].name]
  BY DEF SyncedRoot
<1>2. ASSUME NEW i \in 1 .. MaxStages, S[i] # Nil
      PROVE  /\ SyncedRoot(S)[i] \in Directories /\ Sound(SyncedRoot(S)[i])
             /\ SyncedRoot(S)[i].object = S[i].object
             /\ SyncedRoot(S)[i].payload = S[i].payload
             /\ SyncedRoot(S)[i].name = S[i].name
             /\ SyncedRoot(S)[i].saved = S[i].name
             /\ Whole(S[i]) => Whole(SyncedRoot(S)[i])
  <2>1. S[i] \in Directories /\ (S[i].name = "object" => Whole(S[i]))
    BY <1>2 DEF Names
  <2>2. SyncedRoot(S)[i] = [S[i] EXCEPT !.saved = S[i].name]
    BY <1>1, <1>2
  <2> QED  BY <2>1, <2>2, SyncedDirectory
<1>3. SyncedRoot(S) \in [1 .. MaxStages -> Directories \union {Nil}]
  BY <1>1, <1>2 DEF SyncedRoot
<1> QED  BY <1>1, <1>2, <1>3

\* fsync of the root after directories S were written, in which process w has at most
\* removed its own stage.
LEMMA SyncMoves ==
    ASSUME CustodyInv, NEW w \in Persisters,
           NEW S \in [1 .. MaxStages -> Directories \union {Nil}], stages' = SyncedRoot(S),
           \A i \in 1 .. MaxStages : S[i] = Nil <=> stages[i] = Nil,
           \A i \in Made :
               /\ S[i].object = stages[i].object /\ S[i].payload = stages[i].payload
               /\ \/ S[i].name = stages[i].name /\ (Whole(stages[i]) => Whole(S[i]))
                  \/ Writing(w) /\ i = persister[w].stage /\ S[i].name = "none"
    PROVE  /\ DirectoriesMove(w) /\ H(stages') = H(stages)
           /\ \A i \in Made : /\ stages'[i] # Nil
                              /\ stages'[i].object = stages[i].object
                              /\ stages'[i].payload = stages[i].payload
                              /\ stages'[i].name = S[i].name /\ stages'[i].saved = S[i].name
<1>1. \A i \in Names(S) : Whole(S[i])
  BY DirectoriesAreTyped DEF Names, Made, Sound
<1>2. /\ stages' \in [1 .. MaxStages -> Directories \union {Nil}]
      /\ \A i \in 1 .. MaxStages :
             /\ S[i] = Nil => stages'[i] = Nil
             /\ S[i] # Nil =>
                   /\ stages'[i] \in Directories /\ Sound(stages'[i])
                   /\ stages'[i].object = S[i].object
                   /\ stages'[i].payload = S[i].payload
                   /\ stages'[i].name = S[i].name
                   /\ stages'[i].saved = S[i].name
                   /\ Whole(S[i]) => Whole(stages'[i])
  BY <1>1, RootSynced
<1>3. ASSUME NEW i \in Made
      PROVE  /\ Follows(stages[i], stages'[i])
             /\ (Writing(w) /\ i = persister[w].stage) \/ Untouched(stages[i], stages'[i])
             /\ stages'[i].name = "object" => stages[i].name = "object"
             /\ stages'[i] # Nil
             /\ stages'[i].object = stages[i].object /\ stages'[i].payload = stages[i].payload
             /\ stages'[i].name = S[i].name /\ stages'[i].saved = S[i].name
  <2>1. i \in 1 .. MaxStages /\ S[i] # Nil /\ Sound(stages[i])
    BY DirectoriesAreTyped DEF Made
  <2>2. /\ stages'[i] \in Directories /\ Sound(stages'[i])
        /\ stages'[i].object = S[i].object /\ stages'[i].payload = S[i].payload
        /\ stages'[i].name = S[i].name /\ stages'[i].saved = S[i].name
        /\ Whole(S[i]) => Whole(stages'[i])
    BY <1>2, <2>1
  <2>3. CASE S[i].name = stages[i].name /\ (Whole(stages[i]) => Whole(S[i]))
    BY <2>1, <2>2, <2>3 DEF Follows, Untouched, Sound
  <2>4. CASE Writing(w) /\ i = persister[w].stage /\ S[i].name = "none"
    <3>1. stages[i].name = "pending"
      BY <2>4, PersisterIsTyped DEF Writing, WorksOn
    <3>2. stages[i].saved # "object"
      BY <2>1, <3>1 DEF Sound
    <3> QED  BY <2>2, <2>4, <3>1, <3>2 DEF Follows
  <2> QED  BY <2>2, <2>3, <2>4
<1>4. DirectoriesMove(w)
  BY <1>2, <1>3 DEF DirectoriesMove, Made
<1>5. H(stages') = H(stages)
  BY <1>3, <1>4, SameNames
<1> QED  BY <1>3, <1>4, <1>5

\* _cleanup_pending_directory: the stage is removed and the root fsynced.
LEMMA StageRemoved ==
    ASSUME CustodyInv, NEW w \in Persisters, Writing(w),
           stages' = SyncedRoot([stages EXCEPT ![persister[w].stage].name = "none"])
    PROVE  /\ DirectoriesMove(w) /\ H(stages') = H(stages)
           /\ \A i \in Made : i # persister[w].stage =>
                  /\ stages'[i] # Nil /\ stages'[i].object = stages[i].object
                  /\ stages'[i].name = stages[i].name
<1> DEFINE j == persister[w].stage
           S == [stages EXCEPT ![j].name = "none"]
<1>1. j \in Made /\ stages[j] \in Directories
  BY PersisterIsTyped DEF Writing
<1>2. [stages[j] EXCEPT !.name = "none"] \in Directories
  BY <1>1 DEF Directories
<1>3. /\ S \in [1 .. MaxStages -> Directories \union {Nil}]
      /\ \A i \in 1 .. MaxStages :
             S[i] = IF i = j THEN [stages[j] EXCEPT !.name = "none"] ELSE stages[i]
  BY <1>1, <1>2 DEF CustodyInv, CustodyTypes, Made
<1>4. /\ [stages[j] EXCEPT !.name = "none"].name = "none"
      /\ [stages[j] EXCEPT !.name = "none"].object = stages[j].object
      /\ [stages[j] EXCEPT !.name = "none"].payload = stages[j].payload
  BY <1>1 DEF Directories
<1>5. /\ \A i \in 1 .. MaxStages : S[i] = Nil <=> stages[i] = Nil
      /\ \A i \in Made :
             /\ S[i].object = stages[i].object /\ S[i].payload = stages[i].payload
             /\ \/ S[i].name = stages[i].name /\ (Whole(stages[i]) => Whole(S[i]))
                \/ Writing(w) /\ i = j /\ S[i].name = "none"
      /\ \A i \in Made : i # j => S[i].name = stages[i].name
  BY <1>1, <1>2, <1>3, <1>4 DEF Made
<1> HIDE DEF j, S
<1>6. stages' = SyncedRoot(S)
  BY DEF S, j
<1>7. \A i \in Made :
             /\ S[i].object = stages[i].object /\ S[i].payload = stages[i].payload
             /\ \/ S[i].name = stages[i].name /\ (Whole(stages[i]) => Whole(S[i]))
                \/ Writing(w) /\ i = persister[w].stage /\ S[i].name = "none"
  BY <1>5 DEF j
<1>8. /\ DirectoriesMove(w) /\ H(stages') = H(stages)
      /\ \A i \in Made : /\ stages'[i] # Nil
                         /\ stages'[i].object = stages[i].object
                         /\ stages'[i].payload = stages[i].payload
                         /\ stages'[i].name = S[i].name /\ stages'[i].saved = S[i].name
  BY <1>3, <1>5, <1>6, <1>7, SyncMoves
<1> QED  BY <1>5, <1>8 DEF j

----------------------------------------------------------------------------
(* The steps of persist *)

Kept == CustodyInv' /\ Promised

LEMMA QuietStep ==
    ASSUME CustodyInv, NEW w \in Persisters, NEW p, DirectoriesMove(w), PersisterMoves(w, p),
           H(stages') = H(stages), UNCHANGED told, UNCHANGED losses
    PROVE  Kept
<1>1. CustodyInv'
  BY PersistStepKeeps DEF CustodyInv, CustodyTypes
<1> QED  BY <1>1 DEF Kept, Promised

LEMMA PersistKeeps ==
    ASSUME CustodyInv, NEW w \in Persisters, NEW object \in Objects, NEW payload \in Payloads,
           Persist(w, object, payload)
    PROVE  Kept
<1>0. UNCHANGED told /\ UNCHANGED losses
  BY DEF Persist
<1>1. ASSUME NEW i \in 1 .. MaxStages, stages[i] = Nil,
             stages' = [stages EXCEPT ![i] = Stage(object, payload)],
             persister' = [persister EXCEPT ![w] =
                [step |-> "write", stage |-> i, object |-> object, payload |-> payload]]
      PROVE  Kept
  <2> DEFINE d == Stage(object, payload)
             p == [step |-> "write", stage |-> i, object |-> object, payload |-> payload]
  <2>1. d \in Directories
    BY DEF Stage, Directories
  <2>2. d.object = object /\ d.payload = payload /\ d.name = "pending" /\ d.saved = "none"
    BY DEF Stage
  <2>3. p \in Persisting /\ p.step = "write" /\ p.stage = i
    BY DEF Persisting
  <2>4. i \notin Made /\ d # Nil
    BY <1>1, <2>1 DEF Made
  <2>5. WorksOn(p, d)
    BY <2>2, <2>4 DEF WorksOn
  <2> HIDE DEF d, p
  <2>6. /\ stages' \in [1 .. MaxStages -> Directories \union {Nil}]
        /\ \A j \in 1 .. MaxStages : stages'[j] = IF j = i THEN d ELSE stages[j]
    BY <1>1, <2>1 DEF CustodyInv, CustodyTypes, d
  <2>7. \A j \in Made : Follows(stages[j], stages[j]) /\ Untouched(stages[j], stages[j])
    BY DirectoriesAreTyped DEF Follows, Untouched
  <2>8. DirectoriesMove(w)
    BY <2>2, <2>4, <2>6, <2>7 DEF DirectoriesMove, Made
  <2>9. H(stages') = H(stages)
    BY <2>4, <2>6, <2>8, SameNames DEF Made
  <2>10. PersisterMoves(w, p)
    BY <1>1, <2>3, <2>4, <2>5, <2>6 DEF PersisterMoves, p
  <2> QED  BY <1>0, <2>8, <2>9, <2>10, QuietStep
<1>2. ASSUME NEW i \in Named(object), UNCHANGED stages,
             persister' = [persister EXCEPT ![w] =
                [step |-> "verify", stage |-> i, object |-> object, payload |-> payload]]
      PROVE  Kept
  <2> DEFINE p == [step |-> "verify", stage |-> i, object |-> object, payload |-> payload]
  <2>1. i \in 1 .. MaxStages /\ stages[i] # Nil
        /\ stages[i].object = object /\ stages[i].name = "object"
    BY <1>2 DEF Named, Made
  <2>2. p \in Persisting /\ WorksOn(p, stages[i]) /\ p.step = "verify" /\ p.stage = i
    BY <2>1 DEF Persisting, WorksOn
  <2> HIDE DEF p
  <2>3. PersisterMoves(w, p)
    BY <1>2, <2>2 DEF PersisterMoves, p
  <2> QED  BY <1>0, <1>2, <2>3, SameDirectories, QuietStep
<1> QED  BY <1>1, <1>2 DEF Persist

\* The stage under the hands of its writer.
LEMMA WriterAt ==
    ASSUME CustodyInv, NEW w \in Persisters, Writing(w)
    PROVE  LET i == persister[w].stage IN
           /\ persister[w] \in Persisting /\ i \in Made /\ stages[i] \in Directories
           /\ stages[i].object = persister[w].object
           /\ stages[i].payload = persister[w].payload
           /\ stages[i].name = "pending" /\ stages[i].saved # "object"
<1>1. /\ persister[w] \in Persisting /\ persister[w].stage \in Made
      /\ stages[persister[w].stage] \in Directories
      /\ WorksOn(persister[w], stages[persister[w].stage])
  BY PersisterIsTyped DEF Writing
<1>2. Sound(stages[persister[w].stage])
  BY <1>1, DirectoriesAreTyped
<1> QED  BY <1>1, <1>2 DEF WorksOn, Writing, Sound

\* A file of the stage is written or fsynced.
LEMMA FileWritten ==
    ASSUME CustodyInv, NEW w \in Persisters, persister[w].step = "write",
           NEW f \in Files, NEW state \in {"dirty", "clean"},
           stages' = [stages EXCEPT ![persister[w].stage].files[f] = state],
           UNCHANGED <<persister, told, losses>>
    PROVE  Kept
<1> DEFINE i == persister[w].stage
           e == [stages[i] EXCEPT !.files[f] = state]
<1>1. /\ Writing(w) /\ persister[w] \in Persisting /\ i \in Made /\ stages[i] \in Directories
      /\ stages[i].object = persister[w].object /\ stages[i].payload = persister[w].payload
      /\ stages[i].name = "pending" /\ stages[i].saved # "object"
  BY WriterAt DEF Writing
<1>2. /\ e \in Directories /\ e.object = stages[i].object /\ e.payload = stages[i].payload
      /\ e.name = stages[i].name /\ e.saved = stages[i].saved
  BY <1>1 DEF Directories
<1>3. stages' = [stages EXCEPT ![i] = e] /\ e # Nil
  BY <1>2
<1> HIDE DEF i, e
<1>4. Follows(stages[i], e) /\ e.name # "object"
  BY <1>1, <1>2 DEF Follows, Sound
<1>5. WorksOn(persister[w], e)
  BY <1>1, <1>2, <1>3 DEF WorksOn
<1>6. DirectoriesMove(w) /\ H(stages') = H(stages) /\ stages'[i] = e
  BY <1>1, <1>3, <1>4, OwnStage DEF i
<1>7. PersisterMoves(w, persister[w])
  BY <1>1, <1>5, <1>6 DEF PersisterMoves, i, CustodyInv, CustodyTypes
<1> QED  BY <1>6, <1>7, QuietStep

LEMMA SyncStageKeeps ==
    ASSUME CustodyInv, NEW w \in Persisters, SyncStage(w)
    PROVE  Kept
<1> DEFINE i == persister[w].stage
           e == [stages[i] EXCEPT !.entries = Files]
           p == [persister[w] EXCEPT !.step = "publish"]
<1>1. /\ persister[w].step = "write" /\ \A f \in Files : stages[i].files[f] = "clean"
      /\ stages' = [stages EXCEPT ![i].entries = Files]
      /\ persister' = [persister EXCEPT ![w].step = "publish"]
      /\ UNCHANGED told /\ UNCHANGED losses
  BY DEF SyncStage, Advance
<1>2. /\ Writing(w) /\ persister[w] \in Persisting /\ i \in Made /\ stages[i] \in Directories
      /\ stages[i].object = persister[w].object /\ stages[i].payload = persister[w].payload
      /\ stages[i].name = "pending" /\ stages[i].saved # "object"
  BY <1>1, WriterAt DEF Writing
<1>3. /\ e \in Directories /\ e.object = stages[i].object /\ e.payload = stages[i].payload
      /\ e.name = stages[i].name /\ e.saved = stages[i].saved /\ Whole(e)
  BY <1>1, <1>2 DEF Directories, Whole
<1>4. stages' = [stages EXCEPT ![i] = e] /\ e # Nil
  BY <1>1, <1>3
<1>5. /\ p \in Persisting /\ p.step = "publish" /\ p.stage = i
      /\ p.object = persister[w].object /\ p.payload = persister[w].payload
      /\ persister' = [persister EXCEPT ![w] = p]
  BY <1>1, <1>2 DEF Persisting
<1> HIDE DEF i, e, p
<1>6. Follows(stages[i], e) /\ e.name # "object"
  BY <1>2, <1>3 DEF Follows, Sound
<1>7. WorksOn(p, e)
  BY <1>2, <1>3, <1>4, <1>5 DEF WorksOn
<1>8. DirectoriesMove(w) /\ H(stages') = H(stages) /\ stages'[i] = e
  BY <1>2, <1>4, <1>6, OwnStage DEF i
<1>9. PersisterMoves(w, p)
  BY <1>2, <1>5, <1>7, <1>8 DEF PersisterMoves, i
<1> QED  BY <1>1, <1>8, <1>9, QuietStep

LEMMA Advanced ==
    ASSUME CustodyInv, NEW w \in Persisters, persister[w] \in Persisting,
           NEW s \in {"published", "verify", "durable", "told"}, Advance(w, s)
    PROVE  LET p == [persister[w] EXCEPT !.step = s] IN
           /\ p \in Persisting /\ p.step = s /\ p.stage = persister[w].stage
           /\ p.object = persister[w].object /\ p.payload = persister[w].payload
           /\ persister' = [persister EXCEPT ![w] = p]
BY DEF Advance, Persisting

\* The rename puts a whole directory under a name that was free.
LEMMA PublishKeeps ==
    ASSUME CustodyInv, NEW w \in Persisters, Publish(w)
    PROVE  Kept
<1> DEFINE i == persister[w].stage
           e == [stages[i] EXCEPT !.name = "object"]
           p == [persister[w] EXCEPT !.step = "published"]
           x == <<e.object, e.payload>>
<1>1. /\ persister[w].step = "publish" /\ Named(persister[w].object) = {}
      /\ stages' = [stages EXCEPT ![i].name = "object"] /\ Advance(w, "published")
      /\ UNCHANGED told /\ UNCHANGED losses
  BY DEF Publish
<1>2. /\ Writing(w) /\ persister[w] \in Persisting /\ i \in Made /\ stages[i] \in Directories
      /\ stages[i].object = persister[w].object /\ stages[i].payload = persister[w].payload
      /\ stages[i].name = "pending" /\ stages[i].saved # "object"
  BY <1>1, WriterAt DEF Writing
<1>3. Whole(stages[i])
  BY <1>1, PersisterIsTyped DEF WorksOn
<1>4. /\ e \in Directories /\ e.object = stages[i].object /\ e.payload = stages[i].payload
      /\ e.name = "object" /\ e.saved = stages[i].saved /\ Whole(e)
  BY <1>2, <1>3 DEF Directories, Whole
<1>5. stages' = [stages EXCEPT ![i] = e] /\ e # Nil
  BY <1>1, <1>4
<1>6. /\ p \in Persisting /\ p.step = "published" /\ p.stage = i
      /\ p.object = persister[w].object
      /\ persister' = [persister EXCEPT ![w] = p]
  BY <1>1, <1>2, Advanced
<1> HIDE DEF i, e, p
<1>7. Follows(stages[i], e)
  BY <1>2, <1>4 DEF Follows, Sound
<1>8. /\ stages' \in [1 .. MaxStages -> Directories \union {Nil}]
      /\ \A j \in 1 .. MaxStages : stages'[j] = IF j = i THEN e ELSE stages[j]
  BY <1>4, <1>5 DEF CustodyInv, CustodyTypes
<1>9. \A j \in Made : Follows(stages[j], stages[j]) /\ Untouched(stages[j], stages[j])
  BY DirectoriesAreTyped DEF Follows, Untouched
<1>10. DirectoriesMove(w)
  BY <1>1, <1>2, <1>7, <1>8, <1>9 DEF DirectoriesMove, Made, i
<1>11. PersisterMoves(w, p)
  BY <1>2, <1>4, <1>5, <1>6, <1>8 DEF PersisterMoves, WorksOn, Made
<1>12. CustodyInv'
  BY <1>1, <1>10, <1>11, PersistStepKeeps DEF CustodyInv, CustodyTypes
<1>13. Names(stages') = Names(stages) \union {i}
  BY <1>2, <1>4, <1>5, <1>8 DEF Names, Made
<1>14. i \notin Names(stages) /\ \A j \in Names(stages) : stages'[j] = stages[j]
  BY <1>2, <1>8 DEF Names
<1>15. H(stages') = H(stages) \union {x}
  BY <1>2, <1>8, <1>13, <1>14 DEF H, Made
<1>16. \A other \in H(stages) : other[1] # x[1]
  BY <1>1, <1>2, <1>4 DEF H, Names, Named, Made
<1> HIDE DEF x
<1> QED  BY <1>1, <1>12, <1>15, <1>16 DEF Kept, Promised

LEMMA SyncRootKeeps ==
    ASSUME CustodyInv, NEW w \in Persisters, SyncRoot(w)
    PROVE  Kept
<1> DEFINE i == persister[w].stage
           p == [persister[w] EXCEPT !.step = "verify"]
<1>1. /\ persister[w].step = "published" /\ stages' = SyncedRoot(stages)
      /\ Advance(w, "verify") /\ UNCHANGED told /\ UNCHANGED losses
  BY DEF SyncRoot
<1>2. /\ persister[w] \in Persisting /\ i \in Made
      /\ stages[i].object = persister[w].object /\ stages[i].name = "object"
  BY <1>1, PersisterIsTyped DEF WorksOn
<1>3. /\ p \in Persisting /\ p.step = "verify" /\ p.stage = i
      /\ p.object = persister[w].object
      /\ persister' = [persister EXCEPT ![w] = p]
  BY <1>1, <1>2, Advanced
<1> HIDE DEF i, p
<1>4. /\ DirectoriesMove(w) /\ H(stages') = H(stages)
      /\ \A j \in Made : /\ stages'[j] # Nil
                         /\ stages'[j].object = stages[j].object
                         /\ stages'[j].payload = stages[j].payload
                         /\ stages'[j].name = stages[j].name
  BY <1>1, SyncMoves DEF CustodyInv, CustodyTypes
<1>5. PersisterMoves(w, p)
  BY <1>2, <1>3, <1>4 DEF PersisterMoves, WorksOn
<1> QED  BY <1>1, <1>4, <1>5, QuietStep

LEMMA YieldKeeps ==
    ASSUME CustodyInv, NEW w \in Persisters, Yield(w)
    PROVE  Kept
<1>1. PICK other \in Named(persister[w].object) :
          /\ stages' = SyncedRoot([stages EXCEPT ![persister[w].stage].name = "none"])
          /\ Working(w, other, "verify")
  BY DEF Yield
<1> DEFINE p == [persister[w] EXCEPT !.step = "verify", !.stage = other]
<1>2. Writing(w) /\ UNCHANGED told /\ UNCHANGED losses
  BY DEF Yield, Writing
<1>3. persister[w] \in Persisting /\ stages[persister[w].stage].name = "pending"
  BY <1>2, WriterAt
<1>4. /\ other \in Made /\ other \in 1 .. MaxStages
      /\ stages[other].object = persister[w].object /\ stages[other].name = "object"
  BY DEF Named, Made
<1>5. /\ p \in Persisting /\ p.step = "verify" /\ p.stage = other
      /\ p.object = persister[w].object
      /\ persister' = [persister EXCEPT ![w] = p]
  BY <1>1, <1>3, <1>4 DEF Working, Persisting
<1> HIDE DEF p
<1>6. /\ DirectoriesMove(w) /\ H(stages') = H(stages)
      /\ stages'[other] # Nil /\ stages'[other].object = stages[other].object
      /\ stages'[other].name = stages[other].name
  BY <1>1, <1>2, <1>3, <1>4, StageRemoved
<1>7. PersisterMoves(w, p)
  BY <1>4, <1>5, <1>6 DEF PersisterMoves, WorksOn
<1> QED  BY <1>2, <1>6, <1>7, QuietStep

\* What is verified is fsynced with its name, whoever wrote it.
LEMMA VerifyObjectKeeps ==
    ASSUME CustodyInv, NEW w \in Persisters, VerifyObject(w)
    PROVE  Kept
<1> DEFINE i == persister[w].stage
           e == [stages[i] EXCEPT !.files = [f \in Files |-> "clean"], !.entries = Files]
           S == [stages EXCEPT ![i] = e]
           p == [persister[w] EXCEPT !.step = "durable"]
<1>1. /\ persister[w].step = "verify" /\ stages[i].name = "object"
      /\ stages[i].payload = persister[w].payload
      /\ stages' = MadeDurable(stages, i)
      /\ Advance(w, "durable") /\ UNCHANGED told /\ UNCHANGED losses
  BY DEF VerifyObject, Holds
<1>2. /\ persister[w] \in Persisting /\ i \in Made /\ i \in 1 .. MaxStages
      /\ stages[i] \in Directories /\ stages[i].object = persister[w].object
  BY <1>1, PersisterIsTyped DEF WorksOn, Made
<1>3. /\ e \in Directories /\ e.object = stages[i].object /\ e.payload = stages[i].payload
      /\ e.name = stages[i].name /\ e.saved = stages[i].saved /\ Whole(e)
  BY <1>2 DEF Directories, Whole
<1>4. stages' = SyncedRoot(S) /\ e # Nil
  <2>1. stages \in [1 .. MaxStages -> Directories \union {Nil}]
    BY DEF CustodyInv, CustodyTypes
  <2>2. [stages EXCEPT ![i].files = [f \in Files |-> "clean"], ![i].entries = Files] = S
    BY <1>2, <2>1
  <2> QED  BY <1>1, <1>3, <2>2 DEF MadeDurable
<1>5. /\ p \in Persisting /\ p.step = "durable" /\ p.stage = i
      /\ p.object = persister[w].object /\ p.payload = persister[w].payload
      /\ persister' = [persister EXCEPT ![w] = p]
  BY <1>1, <1>2, Advanced
<1> HIDE DEF i, e, p
<1>6. /\ S \in [1 .. MaxStages -> Directories \union {Nil}]
      /\ \A j \in 1 .. MaxStages : S[j] = IF j = i THEN e ELSE stages[j]
  BY <1>3 DEF CustodyInv, CustodyTypes
<1>7. /\ \A j \in 1 .. MaxStages : S[j] = Nil <=> stages[j] = Nil
      /\ \A j \in Made : /\ S[j].object = stages[j].object /\ S[j].payload = stages[j].payload
                         /\ S[j].name = stages[j].name /\ (Whole(stages[j]) => Whole(S[j]))
  BY <1>2, <1>3, <1>4, <1>6 DEF Made
<1> HIDE DEF S
<1>8. /\ DirectoriesMove(w) /\ H(stages') = H(stages)
      /\ \A j \in Made : /\ stages'[j] # Nil
                         /\ stages'[j].object = stages[j].object
                         /\ stages'[j].payload = stages[j].payload
                         /\ stages'[j].name = S[j].name /\ stages'[j].saved = S[j].name
  BY <1>4, <1>6, <1>7, SyncMoves
<1>9. PersisterMoves(w, p)
  BY <1>1, <1>2, <1>5, <1>7, <1>8 DEF PersisterMoves, WorksOn
<1> QED  BY <1>1, <1>8, <1>9, QuietStep

LEMMA ReturnKeeps ==
    ASSUME CustodyInv, NEW w \in Persisters, Return(w)
    PROVE  Kept
<1> DEFINE i == persister[w].stage
           t == <<persister[w].object, persister[w].payload>>
           p == [persister[w] EXCEPT !.step = "told"]
<1>1. /\ persister[w].step = "durable" /\ told' = told \union {t}
      /\ Advance(w, "told") /\ UNCHANGED stages /\ UNCHANGED losses
  BY DEF Return
<1>2. /\ persister[w] \in Persisting /\ i \in Made /\ i \in 1 .. MaxStages
      /\ WorksOn(persister[w], stages[i])
  BY <1>1, PersisterIsTyped DEF Made
<1>3. /\ stages[i] # Nil /\ stages[i].name = "object" /\ stages[i].saved = "object"
      /\ stages[i].object = persister[w].object /\ stages[i].payload = persister[w].payload
  BY <1>1, <1>2 DEF WorksOn
<1>4. Durable(t, stages[i]) /\ t \in Objects \X Payloads
  BY <1>2, <1>3 DEF Durable, Persisting
<1>5. t \in H(stages)
  BY <1>2, <1>3 DEF H, Names
<1>6. /\ p \in Persisting /\ p.step = "told" /\ p.stage = i
      /\ p.object = persister[w].object /\ p.payload = persister[w].payload
      /\ persister' = [persister EXCEPT ![w] = p]
  BY <1>1, <1>2, Advanced
<1> HIDE DEF i, p, t
<1>7. DirectoriesMove(w) /\ H(stages') = H(stages)
  BY <1>1, SameDirectories
<1>8. PersisterMoves(w, p)
  BY <1>1, <1>3, <1>6 DEF PersisterMoves, WorksOn
<1>9. CustodyInv'
  BY <1>1, <1>2, <1>4, <1>7, <1>8, PersistStepKeeps DEF CustodyInv, CustodyTypes
<1> QED  BY <1>1, <1>5, <1>7, <1>9 DEF Kept, Promised

\* The call ends, and its stage is left or removed.
LEMMA PersistEnds ==
    ASSUME CustodyInv, NEW w \in Persisters,
           ConfirmObject(w) \/ PersistFails(w) \/ PersisterDies(w)
    PROVE  Kept
<1>1. /\ persister' = [persister EXCEPT ![w] = NotPersisting]
      /\ UNCHANGED told /\ UNCHANGED losses
      /\ \/ UNCHANGED stages
         \/ /\ Writing(w)
            /\ stages' = SyncedRoot([stages EXCEPT ![persister[w].stage].name = "none"])
  BY DEF ConfirmObject, PersistFails, PersisterDies, Writing
<1>2. DirectoriesMove(w) /\ H(stages') = H(stages)
  BY <1>1, SameDirectories, StageRemoved
<1>3. PersisterMoves(w, NotPersisting)
  BY <1>1, NotPersistingIsIdle DEF PersisterMoves
<1> QED  BY <1>1, <1>2, <1>3, QuietStep

----------------------------------------------------------------------------
(* Power loss *)

\* What a power loss leaves of directory d: the same object's, under its name only if it
\* had it, and all of it if its name was on disk.
LEMMA SurvivorIsSound ==
    ASSUME NEW d \in Directories, Sound(d), NEW e \in Survivors(d)
    PROVE  /\ e \in Directories /\ Sound(e) /\ e # Nil
           /\ e.object = d.object /\ e.payload = d.payload
           /\ e.name = "object" => d.name = "object"
           /\ d.saved = "object" => e.name = "object" /\ e.saved = "object"
<1>1. PICK name \in {d.name, d.saved}, gone \in SUBSET (Present(d) \ d.entries),
           torn \in SUBSET {f \in Files : d.files[f] = "dirty"} :
             e = Found(d, name, gone, torn)
  BY DEF Survivors
<1> DEFINE left == Present(d) \ gone
           files == [f \in Files |-> IF f \in gone THEN "absent"
                                     ELSE IF f \in torn THEN "torn"
                                     ELSE IF d.files[f] = "dirty" THEN "clean" ELSE d.files[f]]
<1>2. e = [d EXCEPT !.name = name, !.saved = name, !.entries = left, !.files = files]
  BY <1>1 DEF Found
<1>3. /\ left \in SUBSET Files
      /\ files \in [Files -> {"absent", "dirty", "clean", "torn"}]
  BY DEF Present, Directories
<1>4. ASSUME Whole(d)
      PROVE  left = Files /\ \A f \in Files : files[f] = "clean"
  <2>1. Present(d) = Files /\ gone = {} /\ torn = {}
    BY <1>4 DEF Whole, Present
  <2> QED  BY <1>4, <2>1 DEF Whole
<1> HIDE DEF left, files
<1>5. /\ e \in Directories /\ e.object = d.object /\ e.payload = d.payload
      /\ e.name = name /\ e.saved = name /\ e.entries = left /\ e.files = files
  BY <1>2, <1>3 DEF Directories
<1>6. name = "object" => d.name = "object"
  BY DEF Sound
<1>7. Whole(d) => Whole(e)
  BY <1>4, <1>5 DEF Whole
<1> QED  BY <1>5, <1>6, <1>7 DEF Sound

LEMMA PowerLossKeeps ==
    ASSUME CustodyInv, PowerLoss
    PROVE  Kept
<1>1. PICK after \in [Made -> UNION {Survivors(stages[i]) : i \in Made}] :
          /\ \A i \in Made : after[i] \in Survivors(stages[i])
          /\ stages' = [i \in 1 .. MaxStages |-> IF i \in Made THEN after[i] ELSE Nil]
  BY DEF PowerLoss
<1>2. /\ persister' = [w \in Persisters |-> NotPersisting] /\ told' = told
      /\ losses' = losses + 1
  BY DEF PowerLoss
<1>3. \A i \in Made : /\ stages'[i] \in Directories /\ Sound(stages'[i]) /\ stages'[i] # Nil
                      /\ stages'[i].object = stages[i].object
                      /\ stages'[i].payload = stages[i].payload
                      /\ stages'[i].name = "object" => stages[i].name = "object"
                      /\ stages[i].saved = "object" =>
                             stages'[i].name = "object" /\ stages'[i].saved = "object"
  BY <1>1, DirectoriesAreTyped, SurvivorIsSound
<1>4. /\ \A i \in 1 .. MaxStages \ Made : stages'[i] = Nil
      /\ stages' \in [1 .. MaxStages -> Directories \union {Nil}]
  BY <1>1, <1>3
<1>5. Made' = Made
  BY <1>3, <1>4 DEF Made
<1>6. CustodyTypes'
  BY <1>2, <1>4 DEF CustodyInv, CustodyTypes
<1>7. NamedAreWhole'
  BY <1>3, <1>5 DEF NamedAreWhole
<1>8. OneNamed'
  BY <1>3, <1>5 DEF CustodyInv, OneNamed
<1>9. \A w \in Persisters : persister'[w].step = "idle"
  BY <1>2, NotPersistingIsIdle
<1>10. StagesAreWorkedOn' /\ OneWriter'
  BY <1>9 DEF StagesAreWorkedOn, OneWriter, Writing
<1>11. \A t \in told : \E i \in 1 .. MaxStages : Durable(t, stages'[i])
  <2> SUFFICES ASSUME NEW t \in told
               PROVE  \E i \in 1 .. MaxStages : Durable(t, stages'[i])
    OBVIOUS
  <2>1. PICK i \in 1 .. MaxStages : Durable(t, stages[i])
    BY DEF CustodyInv, ToldIsDurable
  <2>2. i \in Made
    BY <2>1 DEF Made, Durable
  <2>3. Durable(t, stages'[i])
    BY <1>3, <2>1, <2>2 DEF Durable
  <2> QED  BY <2>3
<1>12. ToldIsDurable'
  BY <1>2, <1>11 DEF ToldIsDurable
<1>13. H(stages') \subseteq H(stages)
  <2>1. Names(stages') \subseteq Names(stages)
    BY <1>3, <1>4 DEF Names, Made
  <2>2. \A i \in Names(stages') : /\ stages'[i].object = stages[i].object
                                  /\ stages'[i].payload = stages[i].payload
    BY <1>3, <2>1 DEF Names, Made
  <2> QED  BY <2>1, <2>2 DEF H
<1>14. told \subseteq H(stages')
  <2> SUFFICES ASSUME NEW t \in told PROVE t \in H(stages')
    OBVIOUS
  <2>1. PICK i \in 1 .. MaxStages : Durable(t, stages'[i])
    BY <1>11
  <2>2. t = <<t[1], t[2]>>
    BY DEF CustodyInv, CustodyTypes
  <2>3. i \in Names(stages') /\ t = <<stages'[i].object, stages'[i].payload>>
    BY <2>1, <2>2 DEF Names, Durable
  <2> QED  BY <2>3 DEF H
<1> QED  BY <1>2, <1>6, <1>7, <1>8, <1>10, <1>12, <1>13, <1>14 DEF Kept, Promised, CustodyInv

----------------------------------------------------------------------------
(* The promise *)

LEMMA CustodyInitInv == CustodyInit => CustodyInv
<1> SUFFICES ASSUME CustodyInit PROVE CustodyInv
  OBVIOUS
<1>1. Made = {} /\ told = {}
  BY DEF CustodyInit, Made
<1>2. \A w \in Persisters : persister[w].step = "idle"
  BY NotPersistingIsIdle DEF CustodyInit
<1>3. CustodyTypes
  BY <1>1 DEF CustodyInit, CustodyTypes
<1>4. NamedAreWhole /\ OneNamed /\ ToldIsDurable
  BY <1>1 DEF NamedAreWhole, OneNamed, ToldIsDurable
<1>5. StagesAreWorkedOn /\ OneWriter
  BY <1>2 DEF StagesAreWorkedOn, OneWriter, Writing
<1> QED  BY <1>3, <1>4, <1>5 DEF CustodyInv

LEMMA CustodyNextKept ==
    ASSUME CustodyInv, [CustodyNext]_custodyVars
    PROVE  Kept
<1>1. ASSUME NEW w \in Persisters, WriteFile(w) \/ SyncFile(w)
      PROVE  Kept
  BY <1>1, FileWritten DEF WriteFile, SyncFile
<1>2. CASE UNCHANGED custodyVars
  <2>1. stages' = stages /\ persister' = persister /\ told' = told /\ losses' = losses
    BY <1>2 DEF custodyVars
  <2>2. CustodyInv'
    BY <2>1 DEF CustodyInv, CustodyTypes, NamedAreWhole, OneNamed, StagesAreWorkedOn, OneWriter,
                ToldIsDurable, Made, Writing
  <2> QED  BY <2>1, <2>2 DEF Kept, Promised
<1> QED  BY <1>1, <1>2, PersistKeeps, SyncStageKeeps, PublishKeeps, SyncRootKeeps, YieldKeeps,
            VerifyObjectKeeps, ReturnKeeps, PersistEnds, PowerLossKeeps DEF CustodyNext

\* The inductive invariant holds of every state of the file system, whoever persists and
\* whatever a power loss takes.
THEOREM FilesystemInvariant == CustodySpec => []CustodyInv
<1>1. CustodyInit => CustodyInv
  BY CustodyInitInv
<1>2. CustodyInv /\ [CustodyNext]_custodyVars => CustodyInv'
  BY CustodyNextKept DEF Kept
<1> QED  BY <1>1, <1>2, PTL DEF CustodySpec

\* Whoever persists, fails or dies and whatever a power loss takes of what is not fsynced,
\* persist keeps the promise of a custody store: whole objects, none replaced, and none
\* lost once anyone has its reference.
THEOREM FilesystemImplementsPromise == CustodySpec => FilesystemKeepsPromise
<1>1. CustodyInit => Promise!Init
  BY DEF CustodyInit, Promise!Init, Made
<1>2. CustodyInv /\ CustodyInv' /\ [CustodyNext]_custodyVars =>
         \/ Promise!Next
         \/ UNCHANGED <<{<<stages[i].object, HeldPayload(stages[i])>> :
                             i \in {j \in Made : stages[j].name = "object"}}, told>>
  <2> SUFFICES ASSUME CustodyInv, CustodyInv', [CustodyNext]_custodyVars
               PROVE  \/ Promise!Next
                      \/ UNCHANGED <<{<<stages[i].object, HeldPayload(stages[i])>> :
                             i \in {j \in Made : stages[j].name = "object"}}, told>>
    OBVIOUS
  <2>1. Promised
    BY CustodyNextKept DEF Kept
  <2>2. \A i \in Names(stages) : Whole(stages[i])
    BY DEF CustodyInv, NamedAreWhole, Sound, Names, Made
  <2>3. \A i \in Names(stages') : Whole(stages'[i])
    BY DEF CustodyInv, NamedAreWhole, Sound, Names, Made
  <2>4. {<<stages[i].object, HeldPayload(stages[i])>> :
             i \in {j \in Made : stages[j].name = "object"}} = H(stages)
    BY <2>2, HeldIsWhole DEF Made
  <2>5. {<<stages'[i].object, HeldPayload(stages'[i])>> :
             i \in {j \in Made' : stages'[j].name = "object"}} = H(stages')
    BY <2>3, HeldIsWhole DEF Made
  <2>6. CASE H(stages') = H(stages) /\ told' = told
    BY <2>4, <2>5, <2>6
  <2>7. ASSUME NEW e, H(stages') = H(stages) \union {e}, told' = told,
               \A other \in H(stages) : other[1] # e[1]
        PROVE  Promise!Store
    BY <2>4, <2>5, <2>7 DEF Promise!Store
  <2>8. ASSUME NEW e \in H(stages), H(stages') = H(stages), told' = told \union {e}
        PROVE  Promise!Tell
    BY <2>4, <2>5, <2>8 DEF Promise!Tell
  <2>9. CASE told \subseteq H(stages') /\ H(stages') \subseteq H(stages) /\ told' = told
    BY <2>4, <2>5, <2>9 DEF Promise!Next, Promise!Lose
  <2> QED  BY <2>1, <2>6, <2>7, <2>8, <2>9 DEF Promised, Promise!Next
<1>3. CustodySpec => Promise!Spec
  BY <1>1, <1>2, FilesystemInvariant, PTL DEF CustodySpec, Promise!Spec
<1> QED  BY <1>3 DEF FilesystemKeepsPromise

----------------------------------------------------------------------------
(* S3 custody.  The inductive invariant: what has been acknowledged, to a    *)
(* client or to all, is a version of the very bytes under the retention      *)
(* asked for, and a client that verifies looks at an entry that is there.    *)

HIDE FilesystemCustodyConstants
USE S3CustodyConstants, ManagedPublicationConstants

\* A set of indices that is not empty has a largest one.
LEMMA LargestIndex ==
    ASSUME NEW n \in Nat, NEW T \in SUBSET (1 .. n), T # {}
    PROVE  \E i \in T : \A j \in T : j <= i
<1> DEFINE R == OpToRel(<, Nat)
           U == {n - i : i \in T}
<1>1. IsWellFoundedOn(R, Nat)
  BY NatLessThanWellFounded
<1>4. \A x, y \in Nat : x < y => <<x, y>> \in R
  BY DEF OpToRel
<1> HIDE DEF R
<1>2. U \subseteq Nat /\ U # {}
  <2>1. \A i \in T : n - i \in Nat
    OBVIOUS
  <2>2. PICK i \in T : TRUE
    OBVIOUS
  <2>3. n - i \in U
    OBVIOUS
  <2>4. QED
    BY <2>1, <2>3
<1> HIDE DEF U
<1>3. \E x \in U : \A y \in U : ~(<<y, x>> \in R)
  BY <1>1, <1>2, WFMin
<1>5. PICK x \in U : \A y \in U : ~(y < x)
  BY <1>2, <1>3, <1>4
<1>6. PICK i \in T : x = n - i
  BY DEF U
<1>7. \A j \in T : ~(n - j < n - i)
  BY <1>5, <1>6 DEF U
<1>8. QED
  BY <1>7

EntryTypes ==
    [kind : {"version"}, exact : BOOLEAN, retain : {RetainUntil, Nil}]
        \union {DeleteMarker, Deleted}

\* Under key of bucket b there is a version of the very bytes, under the plan's retention.
HeldAt(b, key, version) ==
    /\ key \in DOMAIN b
    /\ version \in DOMAIN b[key]
    /\ b[key][version] = Version(TRUE, RetainUntil)

\* The put of a client, with what it knows of the bucket b.
PutIsTyped(p, b) ==
    \/ p = NoPut
    \/ \E key : p = [step |-> "sent", key |-> key] \/ p = [step |-> "reconcile", key |-> key]
    \/ \E key \in DOMAIN b : \E version \in DOMAIN b[key] :
          p = [step |-> "verify", key |-> key, version |-> version]
    \/ \E key, version :
          /\ p = [step |-> "acknowledged", key |-> key, version |-> version]
          /\ HeldAt(b, key, version)

BucketIsTyped(b) == b \in [DOMAIN b -> Seq(EntryTypes)]

S3Inv ==
    /\ BucketIsTyped(bucket)
    /\ put = [c \in Clients |-> put[c]] /\ \A c \in Clients : PutIsTyped(put[c], bucket)
    /\ \A a \in acked : a = <<a[1], a[2]>> /\ HeldAt(bucket, a[1], a[2])

LEMMA EntriesAreTyped ==
    ASSUME S3Inv, NEW key
    PROVE  Entries(key) \in Seq(EntryTypes) /\ Len(Entries(key)) \in Nat
              /\ DOMAIN Entries(key) = 1 .. Len(Entries(key))
BY DEF S3Inv, BucketIsTyped, Entries

LEMMA EntryFields ==
    /\ \A entry \in EntryTypes : VersionMatches(entry) => entry = Version(TRUE, RetainUntil)
    /\ VersionMatches(Version(TRUE, RetainUntil)) /\ Version(TRUE, RetainUntil).retain # Nil
    /\ Version(TRUE, RetainUntil).kind = "version"
    /\ DeleteMarker.kind = "marker" /\ Deleted.kind = "deleted"
    /\ Version(TRUE, RetainUntil) \in EntryTypes /\ Version(FALSE, RetainUntil) \in EntryTypes
    /\ Version(TRUE, Nil) \in EntryTypes
    /\ DeleteMarker \in EntryTypes /\ Deleted \in EntryTypes
BY DEF EntryTypes, Version, DeleteMarker, Deleted, VersionMatches

LEMMA CurrentIsAnEntry ==
    ASSUME S3Inv, NEW key, Current(key) # Nil
    PROVE  key \in DOMAIN bucket /\ Current(key) \in DOMAIN bucket[key]
<1> DEFINE entries == Entries(key)
           left == {i \in DOMAIN entries : entries[i].kind # "deleted"}
<1>1. left # {} /\ Current(key) = CHOOSE i \in left : \A j \in left : j <= i
  BY DEF Current
<1>2. \E i \in left : \A j \in left : j <= i
  <2>1. Len(entries) \in Nat /\ left \in SUBSET (1 .. Len(entries))
    BY EntriesAreTyped
  <2> HIDE DEF left, entries
  <2>2. QED
    BY <1>1, <2>1, LargestIndex
<1>3. Current(key) \in left
  <2> HIDE DEF left
  <2>1. QED
    BY <1>1, <1>2
<1>4. Current(key) \in DOMAIN Entries(key)
  BY <1>3
<1>5. QED
  BY <1>4, EntriesAreTyped DEF Entries

LEMMA CreatesHere ==
    ASSUME S3Inv, NEW key, HeldAt(bucket, key, 1), Len(bucket[key]) = 1
    PROVE  Current(key) = 1
<1> DEFINE entries == Entries(key)
           left == {i \in DOMAIN entries : entries[i].kind # "deleted"}
<1>a. entries = bucket[key] /\ entries[1] = Version(TRUE, RetainUntil)
  BY DEF HeldAt, Entries
<1>b. DOMAIN entries = 1 .. Len(entries) /\ Len(entries) = 1
  BY <1>a, EntriesAreTyped
<1> HIDE DEF entries
<1>1. entries[1].kind = "version"
  BY <1>a, EntryFields
<1>2. left = {1}
  BY <1>b, <1>1
<1>3. (CHOOSE i \in left : \A j \in left : j <= i) = 1
  BY <1>2
<1>4. QED
  BY <1>1, <1>2, <1>3 DEF Current, entries

----------------------------------------------------------------------------
(* What a step may do to the bucket: it keeps what is under retention, and   *)
(* adds one version or loses some.                                           *)

VersionsOf(b) ==
    {version \in UNION {{<<<<key, i>>, b[key][i]>> : i \in DOMAIN b[key]} : key \in DOMAIN b} :
        version[2].kind = "version"}

KeepsRetained(b, c) ==
    /\ DOMAIN b \subseteq DOMAIN c
    /\ \A key \in DOMAIN b :
          /\ DOMAIN b[key] \subseteq DOMAIN c[key]
          /\ \A i \in DOMAIN b[key] :
                b[key][i] = Version(TRUE, RetainUntil) => c[key][i] = b[key][i]

AddsVersion(b, c) ==
    \E entry : /\ VersionsOf(c) = VersionsOf(b) \union {entry}
               /\ \A other \in VersionsOf(b) : other[1] # entry[1]

Moves(b, c) ==
    /\ BucketIsTyped(c)
    /\ KeepsRetained(b, c)
    /\ AddsVersion(b, c) \/ VersionsOf(c) \subseteq VersionsOf(b)

LEMMA VersionsAre ==
    ASSUME NEW b, NEW x
    PROVE  x \in VersionsOf(b) <=>
             \E key \in DOMAIN b : \E i \in DOMAIN b[key] :
                 x = <<<<key, i>>, b[key][i]>> /\ b[key][i].kind = "version"
BY DEF VersionsOf

LEMMA StandsStill == S3Inv => Moves(bucket, bucket)
BY DEF Moves, KeepsRetained, S3Inv

LEMMA HeldAtIsKept ==
    ASSUME NEW b, NEW c, KeepsRetained(b, c), NEW key, NEW version, HeldAt(b, key, version)
    PROVE  HeldAt(c, key, version)
BY DEF KeepsRetained, HeldAt

LEMMA PutIsKept ==
    ASSUME NEW b, NEW c, KeepsRetained(b, c), NEW p, PutIsTyped(p, b)
    PROVE  PutIsTyped(p, c)
BY HeldAtIsKept DEF KeepsRetained, PutIsTyped

LEMMA AppendedMoves ==
    ASSUME S3Inv, NEW key, NEW entry \in EntryTypes
    PROVE  /\ Moves(bucket, Appended(key, entry))
           /\ key \in DOMAIN Appended(key, entry)
           /\ Appended(key, entry)[key] = Append(Entries(key), entry)
           /\ Len(Entries(key)) + 1 \in DOMAIN Appended(key, entry)[key]
           /\ Appended(key, entry)[key][Len(Entries(key)) + 1] = entry
<1> DEFINE c == Appended(key, entry)
           n == Len(Entries(key)) + 1
<1>1. /\ DOMAIN c = DOMAIN bucket \union {key}
      /\ c[key] = Append(Entries(key), entry)
      /\ \A k \in DOMAIN bucket : k # key => c[k] = bucket[k]
      /\ c = [k \in DOMAIN c |-> c[k]]
  BY DEF Appended
<1>2. /\ Entries(key) \in Seq(EntryTypes) /\ n \in Nat \ {0} /\ n \notin DOMAIN Entries(key)
      /\ DOMAIN Entries(key) = 1 .. (n - 1)
  BY EntriesAreTyped
<1> HIDE DEF c
<1>3. /\ c[key] \in Seq(EntryTypes) /\ DOMAIN c[key] = 1 .. n /\ c[key][n] = entry
      /\ \A i \in 1 .. (n - 1) : c[key][i] = Entries(key)[i]
  BY <1>1, <1>2
<1> HIDE DEF n
<1>4. \A k \in DOMAIN bucket : bucket[k] \in Seq(EntryTypes)
  BY DEF S3Inv, BucketIsTyped
<1>5. BucketIsTyped(c)
  <2>1. \A k \in DOMAIN c : c[k] \in Seq(EntryTypes)
    BY <1>1, <1>3, <1>4
  <2>2. QED
    BY <1>1, <2>1 DEF BucketIsTyped
<1>6. \A k \in DOMAIN bucket : \A i \in DOMAIN bucket[k] :
        k \in DOMAIN c /\ i \in DOMAIN c[k] /\ c[k][i] = bucket[k][i]
  <2> SUFFICES ASSUME NEW k \in DOMAIN bucket, NEW i \in DOMAIN bucket[k]
               PROVE  k \in DOMAIN c /\ i \in DOMAIN c[k] /\ c[k][i] = bucket[k][i]
    OBVIOUS
  <2>1. CASE k # key
    BY <2>1, <1>1
  <2>2. CASE k = key
    <3>1. Entries(key) = bucket[key] /\ i \in 1 .. (n - 1)
      BY <2>2, <1>2 DEF Entries
    <3>2. i \in 1 .. n
      BY <3>1, <1>2
    <3>3. QED
      BY <2>2, <3>1, <3>2, <1>1, <1>3
  <2>3. QED
    BY <2>1, <2>2
<1>7. KeepsRetained(bucket, c)
  BY <1>6, <1>1 DEF KeepsRetained
<1>8. \A k \in DOMAIN c : \A i \in DOMAIN c[k] :
        \/ k = key /\ i = n
        \/ k \in DOMAIN bucket /\ i \in DOMAIN bucket[k]
  <2> SUFFICES ASSUME NEW k \in DOMAIN c, NEW i \in DOMAIN c[k], ~(k = key /\ i = n)
               PROVE  k \in DOMAIN bucket /\ i \in DOMAIN bucket[k]
    OBVIOUS
  <2>1. CASE k # key
    BY <2>1, <1>1
  <2>2. CASE k = key
    <3>1. i \in 1 .. (n - 1)
      BY <2>2, <1>2, <1>3
    <3>2. QED
      BY <2>2, <3>1, <1>2 DEF Entries
  <2>3. QED
    BY <2>1, <2>2
<1>9. ~(key \in DOMAIN bucket /\ n \in DOMAIN bucket[key])
  BY <1>2 DEF Entries
<1>10. AddsVersion(bucket, c) \/ VersionsOf(c) \subseteq VersionsOf(bucket)
  <2>1. CASE entry.kind = "version"
    <3> DEFINE x == <<<<key, n>>, entry>>
    <3>1. VersionsOf(c) = VersionsOf(bucket) \union {x}
      <4>1. ASSUME NEW y \in VersionsOf(c) PROVE y \in VersionsOf(bucket) \union {x}
        BY <4>1, VersionsAre, <1>3, <1>6, <1>8
      <4>2. ASSUME NEW y \in VersionsOf(bucket) PROVE y \in VersionsOf(c)
        BY <4>2, VersionsAre, <1>6
      <4>3. x \in VersionsOf(c)
        BY <2>1, <1>1, <1>2, <1>3, VersionsAre
      <4>4. QED
        BY <4>1, <4>2, <4>3
    <3>2. \A other \in VersionsOf(bucket) : other[1] # x[1]
      BY VersionsAre, <1>9
    <3>3. QED
      BY <3>1, <3>2 DEF AddsVersion
  <2>2. CASE entry.kind # "version"
    BY <2>2, VersionsAre, <1>3, <1>6, <1>8
  <2>3. QED
    BY <2>1, <2>2
<1>11. Moves(bucket, c)
  BY <1>5, <1>7, <1>10 DEF Moves
<1>12. n \in DOMAIN c[key]
  BY <1>2, <1>3
<1>13. QED
  BY <1>1, <1>3, <1>11, <1>12 DEF c, n

LEMMA StoredMoves ==
    ASSUME S3Inv, NEW key
    PROVE  /\ Moves(bucket, Stored(key))
           /\ Creates(key) => HeldAt(Stored(key), key, Len(Entries(key)) + 1)
BY AppendedMoves, StandsStill, EntryFields DEF Stored, HeldAt

LEMMA DeletedMoves ==
    ASSUME S3Inv, NEW key, DeleteVersion(key) PROVE Moves(bucket, bucket')
<1>1. PICK i \in DOMAIN Entries(key) :
        /\ bucket[key][i].retain = Nil
        /\ bucket' = [bucket EXCEPT ![key][i] = Deleted]
  BY DEF DeleteVersion
<1>2. key \in DOMAIN bucket /\ i \in DOMAIN bucket[key]
  BY EntriesAreTyped DEF Entries
<1>3. bucket[key] \in Seq(EntryTypes) /\ [bucket[key] EXCEPT ![i] = Deleted] \in Seq(EntryTypes)
  BY <1>2, EntryFields DEF S3Inv, BucketIsTyped
<1>4. /\ DOMAIN bucket' = DOMAIN bucket /\ bucket' = [k \in DOMAIN bucket |-> bucket'[k]]
      /\ bucket'[key] = [bucket[key] EXCEPT ![i] = Deleted]
      /\ \A k \in DOMAIN bucket : k # key => bucket'[k] = bucket[k]
  BY <1>1, <1>2 DEF S3Inv, BucketIsTyped
<1>5. BucketIsTyped(bucket')
  <2>1. \A k \in DOMAIN bucket : bucket'[k] \in Seq(EntryTypes)
    BY <1>3, <1>4 DEF S3Inv, BucketIsTyped
  <2>2. QED
    BY <1>4, <2>1 DEF BucketIsTyped
<1>6. /\ \A k \in DOMAIN bucket : DOMAIN bucket'[k] = DOMAIN bucket[k]
      /\ \A k \in DOMAIN bucket : \A j \in DOMAIN bucket[k] :
            bucket'[k][j] = IF k = key /\ j = i THEN Deleted ELSE bucket[k][j]
  BY <1>2, <1>3, <1>4
<1>7. bucket[key][i] # Version(TRUE, RetainUntil)
  BY <1>1, EntryFields
<1>8. KeepsRetained(bucket, bucket')
  BY <1>4, <1>6, <1>7 DEF KeepsRetained
<1>9. VersionsOf(bucket') \subseteq VersionsOf(bucket)
  <2> SUFFICES ASSUME NEW x \in VersionsOf(bucket') PROVE x \in VersionsOf(bucket)
    OBVIOUS
  <2>1. PICK k \in DOMAIN bucket' : \E j \in DOMAIN bucket'[k] :
          x = <<<<k, j>>, bucket'[k][j]>> /\ bucket'[k][j].kind = "version"
    BY VersionsAre
  <2>2. PICK j \in DOMAIN bucket'[k] :
          x = <<<<k, j>>, bucket'[k][j]>> /\ bucket'[k][j].kind = "version"
    BY <2>1
  <2>3. bucket'[k][j] = bucket[k][j]
    BY <2>2, <1>4, <1>6, EntryFields
  <2>4. QED
    BY <2>2, <2>3, <1>4, <1>6, VersionsAre
<1>10. QED
  BY <1>5, <1>8, <1>9 DEF Moves

----------------------------------------------------------------------------
(* S3 custody, action by action. *)

LEMMA S3InvInit == S3Init => S3Inv
BY DEF S3Init, S3Inv, BucketIsTyped, PutIsTyped, NoPut

\* The bucket moves, client c has come to a put that fits it, and no acknowledgement is new.
LEMMA S3InvMoves ==
    ASSUME S3Inv, Moves(bucket, bucket'), acked' = acked,
           NEW c \in Clients, NEW p, PutIsTyped(p, bucket'),
           put' = put \/ put' = [put EXCEPT ![c] = p]
    PROVE  S3Inv'
<1>1. BucketIsTyped(bucket') /\ KeepsRetained(bucket, bucket')
  BY DEF Moves
<1>2. put' = [d \in Clients |-> put'[d]]
  BY DEF S3Inv
<1>3. \A d \in Clients : PutIsTyped(put'[d], bucket')
  <2>1. \A d \in Clients : PutIsTyped(put[d], bucket')
    BY <1>1, PutIsKept DEF S3Inv
  <2>2. \A d \in Clients : put'[d] = put[d] \/ put'[d] = p
    BY DEF S3Inv
  <2>3. QED
    BY <2>1, <2>2
<1>4. \A a \in acked' : a = <<a[1], a[2]>> /\ HeldAt(bucket', a[1], a[2])
  BY <1>1, HeldAtIsKept DEF S3Inv
<1>5. QED
  BY <1>1, <1>2, <1>3, <1>4 DEF S3Inv

LEMMA SendPutKeeps ==
    ASSUME S3Inv, NEW c \in Clients, NEW key, SendPut(c, key)
    PROVE  S3Inv' /\ Moves(bucket, bucket')
<1>1. PutIsTyped([step |-> "sent", key |-> key], bucket)
  BY DEF PutIsTyped
<1>2. QED
  BY <1>1, StandsStill, S3InvMoves DEF SendPut

\* The shape of a put, by its step.
PutHasShape(p) ==
    /\ p.step \in {"none", "sent", "reconcile", "verify", "acknowledged"}
    /\ p.step = "none" => p = NoPut
    /\ p.step \in {"sent", "reconcile"} => p = [step |-> p.step, key |-> p.key]
    /\ p.step \in {"verify", "acknowledged"} =>
          /\ p = [step |-> p.step, key |-> p.key, version |-> p.version]
          /\ p.key \in DOMAIN bucket
          /\ p.version \in DOMAIN bucket[p.key]
    /\ p.step = "acknowledged" => HeldAt(bucket, p.key, p.version)

LEMMA PutShapes ==
    ASSUME S3Inv, NEW c \in Clients
    PROVE  PutHasShape(put[c])
<1>1. PutIsTyped(put[c], bucket)
  BY DEF S3Inv
<1>2. CASE put[c] = NoPut
  BY <1>2 DEF NoPut, PutHasShape
<1>3. ASSUME NEW key,
             put[c] = [step |-> "sent", key |-> key] \/ put[c] = [step |-> "reconcile", key |-> key]
      PROVE  PutHasShape(put[c])
  BY <1>3 DEF PutHasShape
<1>4. ASSUME NEW key \in DOMAIN bucket, NEW version \in DOMAIN bucket[key],
             put[c] = [step |-> "verify", key |-> key, version |-> version]
      PROVE  PutHasShape(put[c])
  BY <1>4 DEF PutHasShape
<1>5. ASSUME NEW key, NEW version, HeldAt(bucket, key, version),
             put[c] = [step |-> "acknowledged", key |-> key, version |-> version]
      PROVE  PutHasShape(put[c])
  BY <1>5 DEF HeldAt, PutHasShape
<1>6. QED
  BY <1>1, <1>2, <1>3, <1>4, <1>5 DEF PutIsTyped

LEMMA PutStepKeeps ==
    ASSUME S3Inv, NEW c \in Clients, PutStep(c)
    PROVE  /\ S3Inv' /\ Moves(bucket, bucket') /\ acked' = acked
           /\ put[c].step \in {"sent", "reconcile"}
           /\ \E p : /\ put' = [put EXCEPT ![c] = p] /\ p.key = put[c].key
                     /\ p.step \in {"reconcile", "verify"}
<1>0. put = [d \in Clients |-> put[d]]
  BY DEF S3Inv
<1>1. CASE PutCreated(c)
  <2> DEFINE key == put[c].key
             p == [step |-> "verify", key |-> key, version |-> Len(Entries(key)) + 1]
  <2>1. put[c].step = "sent" /\ bucket' = Stored(key) /\ acked' = acked
    BY <1>1 DEF PutCreated
  <2>2. put' = [put EXCEPT ![c] = p]
    BY <1>0, <1>1 DEF PutCreated, Verifying
  <2>3. HeldAt(bucket', key, Len(Entries(key)) + 1) /\ Moves(bucket, bucket')
    BY <1>1, <2>1, StoredMoves DEF PutCreated
  <2>4. PutIsTyped(p, bucket')
    BY <2>3 DEF PutIsTyped, HeldAt
  <2>5. p.key = put[c].key /\ p.step = "verify"
    OBVIOUS
  <2> HIDE DEF p, key
  <2>6. S3Inv'
    BY <2>1, <2>2, <2>3, <2>4, S3InvMoves
  <2>7. QED
    BY <2>1, <2>2, <2>3, <2>5, <2>6
<1>2. CASE PutConflicts(c) \/ PutAnswerLost(c)
  <2> DEFINE p == [step |-> "reconcile", key |-> put[c].key]
  <2>1. /\ put[c].step = "sent" /\ bucket' = bucket /\ acked' = acked
        /\ put' = [put EXCEPT ![c].step = "reconcile"]
    BY <1>2 DEF PutConflicts, PutAnswerLost, LoseAnswer
  <2>2. put[c] = [step |-> "sent", key |-> put[c].key]
    BY <2>1, PutShapes DEF PutHasShape
  <2>3. put' = [put EXCEPT ![c] = p]
    <3>1. [put[c] EXCEPT !.step = "reconcile"] = p
      BY <2>2
    <3>2. put' = [put EXCEPT ![c] = [put[c] EXCEPT !.step = "reconcile"]]
      BY <1>0, <2>1
    <3>3. QED
      BY <3>1, <3>2
  <2>4. PutIsTyped(p, bucket') /\ p.key = put[c].key /\ p.step = "reconcile"
    BY DEF PutIsTyped
  <2> HIDE DEF p
  <2>5. Moves(bucket, bucket')
    BY <2>1, StandsStill
  <2>6. S3Inv'
    BY <2>1, <2>3, <2>4, <2>5, S3InvMoves
  <2>7. QED
    BY <2>1, <2>3, <2>4, <2>5, <2>6
<1>3. CASE ReconcilePut(c)
  <2> DEFINE key == put[c].key
             p == [step |-> "verify", key |-> key, version |-> Current(key)]
  <2>1. put[c].step = "reconcile" /\ bucket' = bucket /\ acked' = acked /\ Current(key) # Nil
    BY <1>3 DEF ReconcilePut
  <2>2. put' = [put EXCEPT ![c] = p]
    BY <1>0, <1>3 DEF ReconcilePut, Verifying
  <2>3. key \in DOMAIN bucket /\ Current(key) \in DOMAIN bucket[key]
    BY <2>1, CurrentIsAnEntry
  <2>4. PutIsTyped(p, bucket') /\ p.key = put[c].key /\ p.step = "verify"
    BY <2>1, <2>3 DEF PutIsTyped
  <2> HIDE DEF p, key
  <2>5. Moves(bucket, bucket')
    BY <2>1, StandsStill
  <2>6. S3Inv'
    BY <2>1, <2>2, <2>4, <2>5, S3InvMoves
  <2>7. QED
    BY <2>1, <2>2, <2>4, <2>5, <2>6
<1>4. QED
  BY <1>1, <1>2, <1>3 DEF PutStep

LEMMA BucketStepKeeps ==
    ASSUME S3Inv, BucketStep
    PROVE  S3Inv' /\ Moves(bucket, bucket') /\ acked' = acked /\ put' = put
<1>1. Moves(bucket, bucket') /\ acked' = acked /\ put' = put
  <2>1. CASE LandLate
    BY <2>1, StoredMoves DEF LandLate
  <2>2. ASSUME NEW key, ForeignPut(key) \/ HideObject(key) PROVE <1>1!:
    <3>1. \E entry \in EntryTypes : bucket' = Appended(key, entry)
      BY <2>2, EntryFields DEF ForeignPut, HideObject
    <3>2. acked' = acked /\ put' = put
      BY <2>2 DEF ForeignPut, HideObject
    <3>3. QED
      BY <3>1, <3>2, AppendedMoves
  <2>3. ASSUME NEW key, DeleteVersion(key) PROVE <1>1!:
    BY <2>3, DeletedMoves DEF DeleteVersion
  <2>4. QED
    BY <2>1, <2>2, <2>3 DEF BucketStep
<1>2. \A a \in acked' : a = <<a[1], a[2]>> /\ HeldAt(bucket', a[1], a[2])
  BY <1>1, HeldAtIsKept DEF S3Inv, Moves
<1>3. \A d \in Clients : PutIsTyped(put'[d], bucket')
  BY <1>1, PutIsKept DEF S3Inv, Moves
<1>4. QED
  BY <1>1, <1>2, <1>3 DEF S3Inv, Moves

LEMMA AcknowledgePutKeeps ==
    ASSUME S3Inv, NEW c \in Clients, AcknowledgePut(c)
    PROVE  /\ S3Inv' /\ bucket' = bucket /\ HeldAt(bucket, put[c].key, put[c].version)
           /\ put[c].step = "verify" /\ acked' = acked \union {<<put[c].key, put[c].version>>}
           /\ put' = [put EXCEPT ![c] = [step |-> "acknowledged", key |-> put[c].key,
                                         version |-> put[c].version]]
<1> DEFINE key == put[c].key
           version == put[c].version
           p == [step |-> "acknowledged", key |-> key, version |-> version]
<1>1. /\ put[c].step = "verify" /\ VersionMatches(Entries(key)[version]) /\ bucket' = bucket
      /\ acked' = acked \union {<<key, version>>}
      /\ put' = [put EXCEPT ![c].step = "acknowledged"]
  BY DEF AcknowledgePut, Acknowledgement
<1>2. /\ key \in DOMAIN bucket /\ version \in DOMAIN bucket[key]
      /\ put[c] = [step |-> "verify", key |-> key, version |-> version]
  BY <1>1, PutShapes DEF PutHasShape
<1>3. Entries(key) = bucket[key] /\ bucket[key] \in Seq(EntryTypes)
  BY <1>2 DEF Entries, S3Inv, BucketIsTyped
<1>4. bucket[key][version] \in EntryTypes
  BY <1>2, <1>3
<1>5. HeldAt(bucket, key, version)
  BY <1>1, <1>2, <1>3, <1>4, EntryFields DEF HeldAt
<1>6. put' = [put EXCEPT ![c] = p] /\ put = [d \in Clients |-> put[d]]
  <2>1. [put[c] EXCEPT !.step = "acknowledged"] = p
    BY <1>2
  <2>2. put = [d \in Clients |-> put[d]]
    BY DEF S3Inv
  <2>3. put' = [put EXCEPT ![c] = [put[c] EXCEPT !.step = "acknowledged"]]
    BY <1>1, <2>2
  <2>4. QED
    BY <2>1, <2>2, <2>3
<1>7. PutIsTyped(p, bucket)
  BY <1>5 DEF PutIsTyped
<1>8. put' = [d \in Clients |-> put'[d]] /\ \A d \in Clients : PutIsTyped(put'[d], bucket)
  <2> HIDE DEF p
  <2>1. QED
    BY <1>6, <1>7 DEF S3Inv
<1>9. \A a \in acked' : a = <<a[1], a[2]>> /\ HeldAt(bucket, a[1], a[2])
  <2>1. \A a \in acked : a = <<a[1], a[2]>> /\ HeldAt(bucket, a[1], a[2])
    BY DEF S3Inv
  <2>2. QED
    BY <1>1, <1>5, <2>1
<1>10. S3Inv'
  BY <1>1, <1>8, <1>9 DEF S3Inv
<1>11. QED
  BY <1>1, <1>5, <1>6, <1>10

----------------------------------------------------------------------------
(* The publication's part of the bucket, and the refinement. *)

\* What a step of a publication does to the bucket and to what has been acknowledged.
Custodial ==
    /\ S3Inv' /\ Moves(bucket, bucket')
    /\ \/ acked' = acked
       \/ bucket' = bucket /\ \E a \in acked' : acked' = acked \union {a}

LEMMA UntouchedBucket ==
    ASSUME S3Inv, bucket' = bucket, acked' = acked, NEW c \in Clients,
           put' = put \/ put' = [put EXCEPT ![c] = NoPut]
    PROVE  Custodial
<1>1. Moves(bucket, bucket') /\ PutIsTyped(NoPut, bucket')
  BY StandsStill DEF PutIsTyped
<1>2. QED
  BY <1>1, S3InvMoves DEF Custodial

LEMMA PublicationIsCustodial ==
    ASSUME S3Inv, [PublicationNext]_publicationVars PROVE Custodial
<1>1. ASSUME NEW p \in Clients, LocalStep(p) /\ UNCHANGED bucketVars PROVE Custodial
  BY <1>1, UntouchedBucket DEF bucketVars
<1>2. ASSUME NEW p \in Clients, PutComponent(p) \/ PutClosure(p) PROVE Custodial
  <2>1. PICK key : SendPut(p, key)
    BY <1>2 DEF PutComponent, PutClosure, PutBytes, PutFile
  <2>2. S3Inv' /\ Moves(bucket, bucket')
    BY <2>1, SendPutKeeps
  <2>3. acked' = acked
    BY <2>1 DEF SendPut
  <2>4. QED
    BY <2>2, <2>3 DEF Custodial
<1>3. ASSUME NEW p \in Clients, TakeAcknowledgement(p) PROVE Custodial
  <2>1. AcknowledgePut(p)
    BY <1>3 DEF TakeAcknowledgement
  <2>2. QED
    BY <2>1, AcknowledgePutKeeps, StandsStill DEF Custodial
<1>4. ASSUME NEW p \in Clients, VerifyCustody(p) PROVE Custodial
  BY <1>4, UntouchedBucket DEF VerifyCustody, bucketVars
<1>5. ASSUME NEW p \in Clients, ReturnPublication(p) \/ Abandon(p) PROVE Custodial
  BY <1>5, UntouchedBucket DEF ReturnPublication, Abandon
<1>6. ASSUME NEW p \in Clients, PutStep(p) PROVE Custodial
  BY <1>6, PutStepKeeps DEF Custodial
<1>7. CASE BucketStep
  BY <1>7, BucketStepKeeps DEF Custodial
<1>8. CASE UNCHANGED publicationVars
  <2>1. UNCHANGED bucketVars
    BY <1>8 DEF publicationVars
  <2>2. S3Inv'
    BY <2>1 DEF bucketVars, S3Inv
  <2>3. QED
    BY <2>1, <2>2, StandsStill DEF bucketVars, Custodial
<1>9. QED
  BY <1>1, <1>2, <1>3, <1>4, <1>5, <1>6, <1>7, <1>8 DEF PublicationNext

\* S3 custody, whatever is late, lost or done to the bucket by others, keeps the promise of
\* a custody store, an object being a version of a key: a version is not replaced, is not
\* lost once it has been acknowledged, and what is acknowledged is the bytes and the
\* retention asked for.  For any number of clients, keys, versions and lost answers.
THEOREM S3ImplementsPromise == PublicationSpec => S3KeepsPromise
<1> DEFINE heldNow == {version \in HeldVersions : version[2].kind = "version"}
           toldNow == {<<a, Version(TRUE, RetainUntil)>> : a \in acked}
<1>1. PublicationInit => S3Promise!Init
  BY DEF PublicationInit, S3Init, S3Promise!Init, HeldVersions
<1>2. PublicationInit => S3Inv
  BY S3InvInit DEF PublicationInit
<1>3. S3Inv /\ [PublicationNext]_publicationVars => S3Inv'
  BY PublicationIsCustodial DEF Custodial
<1>4. S3Inv /\ [PublicationNext]_publicationVars =>
         [S3Promise!Next]_<<heldNow, toldNow>>
  <2> SUFFICES ASSUME S3Inv, [PublicationNext]_publicationVars
               PROVE  S3Promise!Next \/ UNCHANGED <<heldNow, toldNow>>
    OBVIOUS
  <2>1. Custodial
    BY PublicationIsCustodial
  <2>2. heldNow = VersionsOf(bucket) /\ heldNow' = VersionsOf(bucket')
    BY DEF HeldVersions, VersionsOf
  <2>3. toldNow \subseteq VersionsOf(bucket) /\ toldNow' \subseteq VersionsOf(bucket')
    <3>1. ASSUME NEW b, NEW a, a = <<a[1], a[2]>>, HeldAt(b, a[1], a[2])
          PROVE  <<a, Version(TRUE, RetainUntil)>> \in VersionsOf(b)
      BY <3>1, VersionsAre, EntryFields DEF HeldAt
    <3>2. toldNow \subseteq VersionsOf(bucket)
      BY <3>1 DEF S3Inv
    <3>3. \A a \in acked' : a = <<a[1], a[2]>> /\ HeldAt(bucket', a[1], a[2])
      BY <2>1 DEF Custodial, S3Inv
    <3>4. QED
      BY <3>1, <3>2, <3>3
  <2>4. CASE acked' = acked /\ AddsVersion(bucket, bucket')
    <3>1. S3Promise!Store
      BY <2>2, <2>4 DEF AddsVersion, S3Promise!Store
    <3>2. QED
      BY <3>1 DEF S3Promise!Next
  <2>5. CASE acked' = acked /\ VersionsOf(bucket') \subseteq VersionsOf(bucket)
    <3>1. S3Promise!Lose
      BY <2>2, <2>3, <2>5 DEF S3Promise!Lose
    <3>2. QED
      BY <3>1 DEF S3Promise!Next
  <2>6. ASSUME NEW a \in acked', bucket' = bucket, acked' = acked \union {a}
        PROVE  S3Promise!Tell
    <3> DEFINE entry == <<a, Version(TRUE, RetainUntil)>>
    <3>1. entry \in heldNow
      BY <2>2, <2>3, <2>6
    <3>2. toldNow' = toldNow \union {entry} /\ heldNow' = heldNow
      BY <2>2, <2>6
    <3>3. QED
      BY <3>1, <3>2 DEF S3Promise!Tell
  <2>7. QED
    BY <2>1, <2>4, <2>5, <2>6 DEF Custodial, Moves, S3Promise!Next
<1>5. PublicationSpec => S3Promise!Spec
  BY <1>1, <1>2, <1>3, <1>4, PTL DEF PublicationSpec, S3Promise!Spec
<1>6. QED
  BY <1>5 DEF S3KeepsPromise

----------------------------------------------------------------------------
(* The publication.  The inductive invariant: who has come to sealing works  *)
(* from the one snapshot, which is whole and stays; what it has been         *)
(* acknowledged is held under the key of its place; and a bucket nobody has  *)
(* touched from outside has one version of each key.                         *)

Sealing == {"seal", "sealed", "sign"}
WritingCab == {"fill", "filled"}

Publishing ==
    [step : {"capture", "write", "stream", "copy", "copied"} \union WritingCab \union Sealing,
     runtime : Runtimes, evidence : CapturedEvidence \union {Nil}, acks : Seq(Nat)]

WorkspaceTypes ==
    /\ cab \in WorkspaceDirectories \union {Nil}
    /\ snapshot \in WorkspaceDirectories \union {Nil}
    /\ captures \in Nat
    /\ publisher \in [Clients -> Publishing \union {NotPublishing}]

\* The key the next acknowledgement is of.
NextKey(q) ==
    IF ClosesOver(q.acks) THEN ClosureKey(q.evidence, q.acks)
                          ELSE ComponentKey(q.evidence, Len(q.acks) + 1)

AcksAreHeld(b, evidence, acks) ==
    \A n \in DOMAIN acks : HeldAt(b, ComponentKey(evidence, n), acks[n])

\* What publisher q, whose put is p, has come to, with bucket b and snapshot d.
Publishes(q, p, b, d) ==
    /\ q.step # "capture" => q.evidence \in CapturedEvidence
    /\ q.step = "copy" => d # Nil
    /\ q.step \notin Sealing => p = NoPut /\ q.acks = <<>>
    /\ q.step \in Sealing =>
          /\ StillHolds(d, q.evidence) /\ q.evidence.flaws = {}
          /\ AcksAreHeld(b, q.evidence, q.acks)
    /\ q.step = "seal" /\ p.step \in {"sent", "reconcile", "verify"} => p.key = NextKey(q)
    /\ q.step \in {"sealed", "sign"} => p.step = "acknowledged"

PublisherIsSound(q, p, b, d) == IF q.step = "idle" THEN p = NoPut ELSE Publishes(q, p, b, d)

PublishersAreSound ==
    \A c \in Clients : PublisherIsSound(publisher[c], put[c], bucket, snapshot)

OneCabWriter ==
    /\ \A c \in Clients : publisher[c].step \in WritingCab => cab # Nil
    /\ \A c, d \in Clients :
          publisher[c].step \in WritingCab /\ publisher[d].step \in WritingCab => c = d

ResultHolds(x, b, d) ==
    /\ x.evidence.flaws = {} /\ StillHolds(d, x.evidence)
    /\ x.acks \in Seq(Nat) /\ ClosesOver(x.acks) /\ AcksAreHeld(b, x.evidence, x.acks)
    /\ x.closure = [step |-> "acknowledged", key |-> ClosureKey(x.evidence, x.acks),
                    version |-> x.closure.version]
    /\ HeldAt(b, x.closure.key, x.closure.version)
    /\ x = [evidence |-> x.evidence, acks |-> x.acks, closure |-> x.closure]

PublicationsHold == \A x \in publications : ResultHolds(x, bucket, snapshot)

OneVersionEach(b) == \A key \in DOMAIN b : Len(b[key]) = 1 /\ HeldAt(b, key, 1)

VersionsUnlessOutside == outside \in Nat /\ (outside = 0 => OneVersionEach(bucket))

PubInv ==
    /\ S3Inv
    /\ VersionsUnlessOutside
    /\ WorkspaceTypes
    /\ PublishersAreSound
    /\ OneCabWriter
    /\ PublicationsHold

LEMMA PubInvInit == PublicationInit => PubInv
<1> SUFFICES ASSUME PublicationInit PROVE PubInv
  OBVIOUS
<1>1. S3Inv
  BY S3InvInit DEF PublicationInit
<1>2. VersionsUnlessOutside
  BY DEF PublicationInit, S3Init, VersionsUnlessOutside, OneVersionEach
<1>3. QED
  BY <1>1, <1>2 DEF PublicationInit, S3Init, PubInv, WorkspaceTypes, PublishersAreSound,
     PublisherIsSound, NotPublishing, OneCabWriter, WritingCab, PublicationsHold

\* A snapshot that holds evidence goes on holding it.
SnapshotKept == (snapshot # Nil => snapshot' # Nil)
                /\ \A evidence : StillHolds(snapshot, evidence) => StillHolds(snapshot', evidence)

LEMMA SoundIsKept ==
    ASSUME NEW b, NEW c, KeepsRetained(b, c), SnapshotKept, NEW q, NEW p,
           PublisherIsSound(q, p, b, snapshot)
    PROVE  PublisherIsSound(q, p, c, snapshot')
BY HeldAtIsKept DEF PublisherIsSound, Publishes, AcksAreHeld, SnapshotKept

LEMMA HoldsIsKept ==
    ASSUME NEW b, NEW c, KeepsRetained(b, c), SnapshotKept, NEW x, ResultHolds(x, b, snapshot)
    PROVE  ResultHolds(x, c, snapshot')
BY HeldAtIsKept DEF ResultHolds, AcksAreHeld, SnapshotKept

\* A step of process p: the others find what they knew, and p is sound where it has come to.
LEMMA ProcessStep ==
    ASSUME PubInv, S3Inv', VersionsUnlessOutside', KeepsRetained(bucket, bucket'), SnapshotKept,
           cab' \in WorkspaceDirectories \union {Nil},
           snapshot' \in WorkspaceDirectories \union {Nil}, captures' \in Nat,
           NEW p \in Clients, NEW q \in Publishing \union {NotPublishing},
           publisher' = [publisher EXCEPT ![p] = q],
           \A c \in Clients : c # p => put'[c] = put[c],
           PublisherIsSound(q, put'[p], bucket', snapshot'),
           OneCabWriter',
           \A x \in publications' : x \in publications \/ ResultHolds(x, bucket', snapshot')
    PROVE  PubInv'
<1>1. WorkspaceTypes'
  BY DEF PubInv, WorkspaceTypes
<1>2. PublishersAreSound'
  <2> SUFFICES ASSUME NEW c \in Clients
               PROVE  PublisherIsSound(publisher'[c], put'[c], bucket', snapshot')
    BY DEF PublishersAreSound
  <2>1. CASE c = p
    <3>1. publisher'[c] = q
      BY <2>1 DEF PubInv, WorkspaceTypes
    <3>2. QED
      BY <2>1, <3>1
  <2>2. CASE c # p
    <3>1. publisher'[c] = publisher[c] /\ put'[c] = put[c]
      BY <2>2 DEF PubInv, WorkspaceTypes
    <3>2. PublisherIsSound(publisher[c], put[c], bucket, snapshot)
      BY DEF PubInv, PublishersAreSound
    <3>3. QED
      BY <3>1, <3>2, SoundIsKept
  <2>3. QED
    BY <2>1, <2>2
<1>3. PublicationsHold'
  BY HoldsIsKept DEF PubInv, PublicationsHold
<1>4. QED
  BY <1>1, <1>2, <1>3 DEF PubInv

\* A process that has not begun to write the CAB leaves its writer alone.
LEMMA SameCabWriter ==
    ASSUME PubInv, cab' = cab, NEW p \in Clients, NEW q \in Publishing \union {NotPublishing},
           publisher' = [publisher EXCEPT ![p] = q],
           q.step \in WritingCab => publisher[p].step \in WritingCab
    PROVE  OneCabWriter'
<1>1. \A c \in Clients : publisher'[c].step \in WritingCab => publisher[c].step \in WritingCab
  BY DEF PubInv, WorkspaceTypes
<1>2. QED
  BY <1>1 DEF PubInv, OneCabWriter

LEMMA PublisherAt ==
    ASSUME PubInv, NEW p \in Clients
    PROVE  /\ publisher[p] \in Publishing \union {NotPublishing}
           /\ publisher[p].step # "idle" =>
                 /\ publisher[p] \in Publishing
                 /\ Publishes(publisher[p], put[p], bucket, snapshot)
           /\ publisher[p].step = "idle" => put[p] = NoPut
           /\ NotPublishing.step = "idle"
BY DEF PubInv, WorkspaceTypes, PublishersAreSound, PublisherIsSound, NotPublishing

\* A step of process p that leaves the bucket alone.
LEMMA WorkspaceStep ==
    ASSUME PubInv, UNCHANGED bucketVars, publications' = publications, SnapshotKept,
           cab' \in WorkspaceDirectories \union {Nil},
           snapshot' \in WorkspaceDirectories \union {Nil}, captures' \in Nat,
           NEW p \in Clients, NEW q \in Publishing \union {NotPublishing},
           publisher' = [publisher EXCEPT ![p] = q],
           PublisherIsSound(q, put[p], bucket, snapshot'),
           OneCabWriter'
    PROVE  PubInv'
<1>1. S3Inv' /\ VersionsUnlessOutside'
  BY DEF PubInv, bucketVars, S3Inv, VersionsUnlessOutside
<1>2. KeepsRetained(bucket, bucket') /\ bucket' = bucket /\ put' = put
  BY DEF bucketVars, KeepsRetained
<1>3. QED
  BY <1>1, <1>2, ProcessStep

LEMMA SnapshotStays == snapshot' = snapshot => SnapshotKept
BY DEF SnapshotKept

LEMMA WorkspaceIsTyped ==
    PubInv => /\ cab \in WorkspaceDirectories \union {Nil}
              /\ snapshot \in WorkspaceDirectories \union {Nil}
              /\ captures \in Nat
BY DEF PubInv, WorkspaceTypes

LEMMA GotoStep ==
    ASSUME PubInv, NEW p \in Clients, publisher[p].step # "idle",
           NEW step \in {"stream", "copy", "copied"} \union WritingCab \union Sealing,
           Goto(p, step)
    PROVE  \E q \in Publishing :
              /\ publisher' = [publisher EXCEPT ![p] = q]
              /\ q.step = step /\ q.evidence = publisher[p].evidence
              /\ q.acks = publisher[p].acks /\ q.runtime = publisher[p].runtime
<1> DEFINE q == [publisher[p] EXCEPT !.step = step]
<1>1. publisher[p] \in Publishing
  BY PublisherAt
<1>2. /\ q \in Publishing /\ q.step = step /\ q.evidence = publisher[p].evidence
      /\ q.acks = publisher[p].acks /\ q.runtime = publisher[p].runtime
  BY <1>1 DEF Publishing
<1>3. publisher' = [publisher EXCEPT ![p] = q]
  BY DEF Goto, PubInv, WorkspaceTypes
<1>4. QED
  BY <1>2, <1>3

\* A process that begins works from nothing, from the CAB, or from the snapshot.
LEMMA BeginsKeeps ==
    ASSUME PubInv, UNCHANGED bucketVars, UNCHANGED <<cab, snapshot, captures, publications>>,
           NEW p \in Clients, NEW runtime \in Runtimes,
           NEW evidence \in CapturedEvidence \union {Nil}, NEW step,
           Begins(p, runtime, evidence, step),
           \/ step = "capture"
           \/ step = "stream" /\ evidence \in CapturedEvidence
           \/ step = "seal" /\ StillHolds(snapshot, evidence) /\ evidence.flaws = {}
              /\ evidence \in CapturedEvidence
    PROVE  PubInv'
<1> DEFINE q == [step |-> step, runtime |-> runtime, evidence |-> evidence, acks |-> <<>>]
<1>1. q \in Publishing /\ q.step = step /\ q.evidence = evidence /\ q.acks = <<>>
  BY DEF Publishing, WritingCab, Sealing
<1>2. publisher' = [publisher EXCEPT ![p] = q] /\ put[p] = NoPut /\ publisher[p].step = "idle"
  BY PublisherAt DEF Begins, AtStep
<1> HIDE DEF q
<1>3. PublisherIsSound(q, put[p], bucket, snapshot)
  BY <1>1, <1>2 DEF PublisherIsSound, Publishes, Sealing, NoPut, AcksAreHeld
<1>4. OneCabWriter'
  BY <1>1, <1>2, SameCabWriter DEF WritingCab
<1>5. QED
  BY <1>1, <1>2, <1>3, <1>4, WorkspaceStep, SnapshotStays, WorkspaceIsTyped

LEMMA StageKeeps ==
    ASSUME PubInv, UNCHANGED bucketVars, NEW p \in Clients, NEW runtime \in Runtimes,
           StageSnapshot(p, runtime) \/ StageCab(p, runtime) \/ StageCapture(p, runtime)
    PROVE  PubInv'
<1>1. CASE StageSnapshot(p, runtime)
  <2>1. snapshot \in WorkspaceDirectories
    BY <1>1, WorkspaceIsTyped DEF StageSnapshot, Reopens, SnapshotVerifies
  <2>2. snapshot.evidence \in CapturedEvidence /\ snapshot.evidence.flaws \in Flaws
    BY <2>1 DEF WorkspaceDirectories, CapturedEvidence
  <2>3. snapshot.evidence.flaws = {} /\ StillHolds(snapshot, snapshot.evidence)
    BY <1>1, <2>2 DEF StageSnapshot, Reopens, EntriesVerify, VerifiedCapture, VerifiedPam, Flaws,
       StillHolds
  <2>4. QED
    BY <1>1, <2>2, <2>3, BeginsKeeps DEF StageSnapshot
<1>2. CASE StageCab(p, runtime)
  <2>1. cab.evidence \in CapturedEvidence
    BY <1>2, WorkspaceIsTyped DEF StageCab, WorkspaceDirectories
  <2>2. QED
    BY <1>2, <2>1, BeginsKeeps DEF StageCab
<1>3. CASE StageCapture(p, runtime)
  BY <1>3, BeginsKeeps DEF StageCapture
<1>4. QED
  BY <1>1, <1>2, <1>3

LEMMA CaptureSourceKeeps ==
    ASSUME PubInv, UNCHANGED bucketVars, NEW p \in Clients, CaptureSource(p) PROVE PubInv'
<1>1. PICK flaws \in Flaws : publisher' = [publisher EXCEPT ![p] =
         [@ EXCEPT !.evidence = Captured(captures', flaws), !.step = "write"]]
  BY DEF CaptureSource
<1>2. /\ publisher[p].step = "capture" /\ captures' \in Nat
      /\ UNCHANGED <<cab, snapshot, publications>>
  BY WorkspaceIsTyped DEF CaptureSource, AtStep
<1>3. publisher[p] \in Publishing /\ Publishes(publisher[p], put[p], bucket, snapshot)
  BY <1>2, PublisherAt
<1> DEFINE evidence == Captured(captures', flaws)
           q == [publisher[p] EXCEPT !.evidence = evidence, !.step = "write"]
<1>4. evidence \in CapturedEvidence
  BY <1>2 DEF Captured, CapturedEvidence
<1>5. publisher' = [publisher EXCEPT ![p] = q]
  BY <1>1 DEF PubInv, WorkspaceTypes
<1> HIDE DEF evidence
<1>6. q \in Publishing /\ q.step = "write" /\ q.evidence = evidence /\ q.acks = publisher[p].acks
  BY <1>3, <1>4 DEF Publishing
<1> HIDE DEF q
<1>7. PublisherIsSound(q, put[p], bucket, snapshot)
  BY <1>2, <1>3, <1>4, <1>6 DEF PublisherIsSound, Publishes, Sealing
<1>8. OneCabWriter'
  BY <1>2, <1>5, <1>6, SameCabWriter DEF WritingCab
<1>9. QED
  BY <1>2, <1>5, <1>6, <1>7, <1>8, WorkspaceStep, SnapshotStays, WorkspaceIsTyped

LEMMA MakeCabKeeps ==
    ASSUME PubInv, UNCHANGED bucketVars, NEW p \in Clients, MakeCab(p) PROVE PubInv'
<1>1. /\ publisher[p].step = "write" /\ cab = Nil /\ Goto(p, "fill")
      /\ cab' = Directory(publisher[p].evidence, FALSE)
      /\ UNCHANGED <<snapshot, captures, publications>>
  BY DEF MakeCab, AtStep
<1>2. Publishes(publisher[p], put[p], bucket, snapshot)
  BY <1>1, PublisherAt
<1>3. cab' \in WorkspaceDirectories
  BY <1>1, <1>2 DEF Publishes, Directory, WorkspaceDirectories
<1>4. PICK q \in Publishing :
        /\ publisher' = [publisher EXCEPT ![p] = q] /\ q.step = "fill"
        /\ q.evidence = publisher[p].evidence /\ q.acks = publisher[p].acks
  BY <1>1, GotoStep DEF WritingCab
<1>5. PublisherIsSound(q, put[p], bucket, snapshot)
  BY <1>1, <1>2, <1>4 DEF PublisherIsSound, Publishes, Sealing
<1>6. OneCabWriter'
  <2>1. \A c \in Clients : publisher[c].step \notin WritingCab
    BY <1>1 DEF PubInv, OneCabWriter
  <2>2. \A c \in Clients : publisher'[c].step \in WritingCab => c = p
    BY <1>4, <2>1 DEF PubInv, WorkspaceTypes
  <2>3. cab' # Nil
    BY <1>3, ManagedPublicationConstants
  <2>4. QED
    BY <2>2, <2>3 DEF OneCabWriter
<1>7. QED
  BY <1>1, <1>3, <1>4, <1>5, <1>6, WorkspaceStep, SnapshotStays, WorkspaceIsTyped

LEMMA FillCabKeeps ==
    ASSUME PubInv, UNCHANGED bucketVars, NEW p \in Clients, FillCab(p) PROVE PubInv'
<1>1. /\ publisher[p].step = "fill" /\ Goto(p, "filled")
      /\ cab' = [cab EXCEPT !.whole = TRUE]
      /\ UNCHANGED <<snapshot, captures, publications>>
  BY DEF FillCab, AtStep
<1>2. Publishes(publisher[p], put[p], bucket, snapshot)
  BY <1>1, PublisherAt
<1>3. cab \in WorkspaceDirectories
  BY <1>1, WorkspaceIsTyped DEF PubInv, OneCabWriter, WritingCab
<1>4. cab' \in WorkspaceDirectories
  BY <1>1, <1>3 DEF WorkspaceDirectories
<1>5. PICK q \in Publishing :
        /\ publisher' = [publisher EXCEPT ![p] = q] /\ q.step = "filled"
        /\ q.evidence = publisher[p].evidence /\ q.acks = publisher[p].acks
  BY <1>1, GotoStep DEF WritingCab
<1>6. PublisherIsSound(q, put[p], bucket, snapshot)
  BY <1>1, <1>2, <1>5 DEF PublisherIsSound, Publishes, Sealing
<1>7. OneCabWriter'
  <2>1. \A c \in Clients : publisher'[c].step \in WritingCab => publisher[c].step \in WritingCab
    BY <1>1, <1>5 DEF PubInv, WorkspaceTypes, WritingCab
  <2>2. cab' # Nil
    BY <1>4, ManagedPublicationConstants
  <2>3. QED
    BY <2>1, <2>2 DEF PubInv, OneCabWriter
<1>8. QED
  BY <1>1, <1>4, <1>5, <1>6, <1>7, WorkspaceStep, SnapshotStays, WorkspaceIsTyped

LEMMA AcceptCabKeeps ==
    ASSUME PubInv, UNCHANGED bucketVars, NEW p \in Clients, AcceptCab(p) PROVE PubInv'
<1>1. /\ publisher[p].step = "filled" /\ Goto(p, "stream")
      /\ UNCHANGED <<cab, snapshot, captures, publications>>
  BY DEF AcceptCab, AtStep
<1>2. Publishes(publisher[p], put[p], bucket, snapshot)
  BY <1>1, PublisherAt
<1>3. PICK q \in Publishing :
        /\ publisher' = [publisher EXCEPT ![p] = q] /\ q.step = "stream"
        /\ q.evidence = publisher[p].evidence /\ q.acks = publisher[p].acks
  BY <1>1, GotoStep
<1>4. PublisherIsSound(q, put[p], bucket, snapshot)
  BY <1>1, <1>2, <1>3 DEF PublisherIsSound, Publishes, Sealing
<1>5. OneCabWriter'
  BY <1>1, <1>3, SameCabWriter DEF WritingCab
<1>6. QED
  BY <1>1, <1>3, <1>4, <1>5, WorkspaceStep, SnapshotStays, WorkspaceIsTyped

LEMMA RemoveCabKeeps ==
    ASSUME PubInv, UNCHANGED bucketVars, NEW p \in Clients, RemoveCab(p) PROVE PubInv'
<1>1. /\ publisher[p].step \in WritingCab /\ cab' = Nil
      /\ publisher' = [publisher EXCEPT ![p] = NotPublishing]
      /\ UNCHANGED <<snapshot, captures, publications>>
  BY DEF RemoveCab, WritingCab
<1>2. Publishes(publisher[p], put[p], bucket, snapshot)
  BY <1>1, PublisherAt DEF WritingCab
<1>3. PublisherIsSound(NotPublishing, put[p], bucket, snapshot)
  BY <1>1, <1>2, PublisherAt DEF PublisherIsSound, Publishes, Sealing, WritingCab
<1>4. OneCabWriter'
  <2>1. \A c \in Clients : publisher'[c].step \notin WritingCab
    BY <1>1, PublisherAt DEF PubInv, WorkspaceTypes, OneCabWriter, WritingCab
  <2>2. QED
    BY <2>1 DEF OneCabWriter
<1>5. QED
  BY <1>1, <1>3, <1>4, WorkspaceStep, SnapshotStays, WorkspaceIsTyped

LEMMA MakeSnapshotKeeps ==
    ASSUME PubInv, UNCHANGED bucketVars, NEW p \in Clients, MakeSnapshot(p) PROVE PubInv'
<1>1. /\ publisher[p].step = "stream" /\ snapshot = Nil /\ Goto(p, "copy")
      /\ snapshot' = Directory(publisher[p].evidence, FALSE)
      /\ UNCHANGED <<cab, captures, publications>>
  BY DEF MakeSnapshot, SnapshotPlaceFree, AtStep
<1>2. Publishes(publisher[p], put[p], bucket, snapshot)
  BY <1>1, PublisherAt
<1>a. snapshot' \in WorkspaceDirectories
  BY <1>1, <1>2 DEF Publishes, Directory, WorkspaceDirectories
<1>3. snapshot' \in WorkspaceDirectories /\ snapshot' # Nil
  BY <1>a
<1>4. SnapshotKept
  BY <1>1 DEF SnapshotKept, StillHolds, SnapshotVerifies
<1>5. PICK q \in Publishing :
        /\ publisher' = [publisher EXCEPT ![p] = q] /\ q.step = "copy"
        /\ q.evidence = publisher[p].evidence /\ q.acks = publisher[p].acks
  BY <1>1, GotoStep
<1>6. PublisherIsSound(q, put[p], bucket, snapshot')
  BY <1>1, <1>2, <1>3, <1>5 DEF PublisherIsSound, Publishes, Sealing
<1>7. OneCabWriter'
  BY <1>1, <1>5, SameCabWriter DEF WritingCab
<1>8. QED
  BY <1>1, <1>3, <1>4, <1>5, <1>6, <1>7, WorkspaceStep, WorkspaceIsTyped

LEMMA CopyBlobsKeeps ==
    ASSUME PubInv, UNCHANGED bucketVars, NEW p \in Clients, CopyBlobs(p) PROVE PubInv'
<1>1. /\ publisher[p].step = "copy" /\ Goto(p, "copied")
      /\ snapshot' = [snapshot EXCEPT !.whole = TRUE]
      /\ UNCHANGED <<cab, captures, publications>>
  BY DEF CopyBlobs, AtStep
<1>2. Publishes(publisher[p], put[p], bucket, snapshot)
  BY <1>1, PublisherAt
<1>3. snapshot \in WorkspaceDirectories
  BY <1>1, <1>2, WorkspaceIsTyped DEF Publishes
<1>4. /\ snapshot' \in WorkspaceDirectories /\ snapshot' # Nil
      /\ snapshot'.whole = TRUE /\ snapshot'.evidence = snapshot.evidence
  BY <1>1, <1>3 DEF WorkspaceDirectories
<1>5. SnapshotKept
  BY <1>4 DEF SnapshotKept, StillHolds, SnapshotVerifies
<1>6. PICK q \in Publishing :
        /\ publisher' = [publisher EXCEPT ![p] = q] /\ q.step = "copied"
        /\ q.evidence = publisher[p].evidence /\ q.acks = publisher[p].acks
  BY <1>1, GotoStep
<1>7. PublisherIsSound(q, put[p], bucket, snapshot')
  BY <1>1, <1>2, <1>6 DEF PublisherIsSound, Publishes, Sealing
<1>8. OneCabWriter'
  BY <1>1, <1>6, SameCabWriter DEF WritingCab
<1>9. QED
  BY <1>1, <1>4, <1>5, <1>6, <1>7, <1>8, WorkspaceStep, WorkspaceIsTyped

LEMMA CloseSnapshotKeeps ==
    ASSUME PubInv, UNCHANGED bucketVars, NEW p \in Clients, CloseSnapshot(p) PROVE PubInv'
<1>1. /\ publisher[p].step = "copied" /\ Goto(p, "seal")
      /\ StillHolds(snapshot, publisher[p].evidence) /\ EntriesVerify(snapshot.evidence)
      /\ UNCHANGED <<cab, snapshot, captures, publications>>
  BY DEF CloseSnapshot, Reopens, AtStep
<1>2. Publishes(publisher[p], put[p], bucket, snapshot)
  BY <1>1, PublisherAt
<1>3. PICK q \in Publishing :
        /\ publisher' = [publisher EXCEPT ![p] = q] /\ q.step = "seal"
        /\ q.evidence = publisher[p].evidence /\ q.acks = publisher[p].acks
  BY <1>1, GotoStep DEF Sealing
<1>4. q.evidence.flaws \in Flaws /\ q.evidence = snapshot.evidence
  BY <1>1, <1>2, <1>3 DEF Publishes, CapturedEvidence, StillHolds
<1>5. q.evidence.flaws = {}
  BY <1>1, <1>4 DEF EntriesVerify, VerifiedCapture, VerifiedPam, Flaws
<1>6. PublisherIsSound(q, put[p], bucket, snapshot)
  BY <1>1, <1>2, <1>3, <1>5 DEF PublisherIsSound, Publishes, Sealing, AcksAreHeld, NoPut
<1>7. OneCabWriter'
  BY <1>1, <1>3, SameCabWriter DEF WritingCab
<1>8. QED
  BY <1>1, <1>3, <1>6, <1>7, WorkspaceStep, SnapshotStays, WorkspaceIsTyped

----------------------------------------------------------------------------
(* Sealing. *)

\* A put into a bucket nobody has touched makes the first version of its key, or none.
LEMMA StoredIsFirst ==
    ASSUME S3Inv, OneVersionEach(bucket), NEW key PROVE OneVersionEach(Stored(key))
<1>1. CASE ~Creates(key)
  BY <1>1 DEF Stored
<1>2. CASE Creates(key)
  <2>1. key \notin DOMAIN bucket
    BY <1>2, CreatesHere DEF Creates, OneVersionEach
  <2>2. Entries(key) = <<>>
    BY <2>1 DEF Entries
  <2>3. HeldAt(Stored(key), key, Len(Entries(key)) + 1)
    BY <1>2, StoredMoves
  <2>4. /\ DOMAIN Stored(key) = DOMAIN bucket \union {key}
        /\ \A k \in DOMAIN bucket : Stored(key)[k] = bucket[k]
        /\ Stored(key)[key] = Append(<<>>, Version(TRUE, RetainUntil))
    BY <1>2, <2>1, <2>2 DEF Stored, Appended
  <2>5. Len(Append(<<>>, Version(TRUE, RetainUntil))) = 1 /\ Len(Entries(key)) + 1 = 1
    <3>1. Version(TRUE, RetainUntil) \in EntryTypes
      BY EntryFields
    <3>2. <<>> \in Seq(EntryTypes) /\ Len(<<>>) = 0
      OBVIOUS
    <3>3. QED
      BY <2>2, <3>1, <3>2
  <2>6. \A k \in DOMAIN bucket : HeldAt(Stored(key), k, 1)
    BY <2>4 DEF OneVersionEach, HeldAt
  <2>7. QED
    BY <2>3, <2>4, <2>5, <2>6 DEF OneVersionEach
<1>3. QED
  BY <1>1, <1>2

LEMMA BucketIsUntouched ==
    ASSUME S3Inv, VersionsUnlessOutside, BucketStep \/ \E c \in Clients : PutStep(c)
    PROVE  VersionsUnlessOutside'
<1>1. ASSUME NEW key, bucket' = Stored(key), outside' = outside PROVE VersionsUnlessOutside'
  BY <1>1, StoredIsFirst DEF VersionsUnlessOutside
<1>2. CASE LandLate
  BY <1>1, <1>2 DEF LandLate
<1>3. ASSUME NEW key, ForeignPut(key) \/ HideObject(key) PROVE VersionsUnlessOutside'
  <2>1. outside' = outside + 1 /\ outside \in Nat
    BY <1>3 DEF ForeignPut, HideObject, VersionsUnlessOutside
  <2>2. QED
    BY <2>1 DEF VersionsUnlessOutside
<1>4. ASSUME NEW key, DeleteVersion(key) PROVE VersionsUnlessOutside'
  <2>1. outside' = outside
    BY <1>4 DEF DeleteVersion
  <2>2. ASSUME OneVersionEach(bucket) PROVE FALSE
    <3>1. PICK i \in DOMAIN Entries(key) : bucket[key][i].retain = Nil
      BY <1>4 DEF DeleteVersion
    <3>2. key \in DOMAIN bucket /\ i \in DOMAIN bucket[key]
      BY EntriesAreTyped DEF Entries
    <3>3. DOMAIN bucket[key] = 1 .. Len(bucket[key])
      BY <3>2 DEF S3Inv, BucketIsTyped
    <3>a. Len(bucket[key]) = 1 /\ HeldAt(bucket, key, 1)
      BY <2>2, <3>2 DEF OneVersionEach
    <3>4. i = 1 /\ HeldAt(bucket, key, 1)
      BY <3>2, <3>3, <3>a
    <3>5. QED
      BY <3>1, <3>4, EntryFields DEF HeldAt
  <2>3. QED
    BY <2>1, <2>2 DEF VersionsUnlessOutside
<1>5. ASSUME NEW c \in Clients, PutStep(c) PROVE VersionsUnlessOutside'
  <2>1. CASE PutCreated(c)
    BY <1>1, <2>1 DEF PutCreated
  <2>2. CASE PutConflicts(c) \/ PutAnswerLost(c) \/ ReconcilePut(c)
    <3>1. bucket' = bucket /\ outside' = outside
      BY <2>2 DEF PutConflicts, PutAnswerLost, ReconcilePut
    <3>2. QED
      BY <3>1 DEF VersionsUnlessOutside
  <2>3. QED
    BY <1>5, <2>1, <2>2 DEF PutStep
<1>6. QED
  BY <1>2, <1>3, <1>4, <1>5 DEF BucketStep

\* The process stays where it is.
LEMMA StaysThere ==
    ASSUME PubInv, publisher' = publisher, cab' = cab, NEW p \in Clients
    PROVE  publisher' = [publisher EXCEPT ![p] = publisher[p]] /\ OneCabWriter'
BY DEF PubInv, WorkspaceTypes, OneCabWriter

LEMMA PutStepPublishes ==
    ASSUME PubInv, NEW p \in Clients, PutStep(p), UNCHANGED workspaceVars PROVE PubInv'
<1>1. /\ S3Inv' /\ Moves(bucket, bucket') /\ put[p].step \in {"sent", "reconcile"}
      /\ \E r : /\ put' = [put EXCEPT ![p] = r] /\ r.key = put[p].key
                /\ r.step \in {"reconcile", "verify"}
  BY PutStepKeeps DEF PubInv
<1>2. VersionsUnlessOutside' /\ KeepsRetained(bucket, bucket')
  BY <1>1, BucketIsUntouched DEF PubInv, Moves
<1>3. UNCHANGED <<cab, snapshot, publisher, captures, publications>>
  BY DEF workspaceVars
<1>4. put'[p].key = put[p].key /\ put'[p].step \in {"reconcile", "verify"}
      /\ \A c \in Clients : c # p => put'[c] = put[c]
  BY <1>1 DEF PubInv, S3Inv
<1>5. put[p] # NoPut
  BY <1>1 DEF NoPut
<1>6. publisher[p] \in Publishing /\ Publishes(publisher[p], put[p], bucket, snapshot)
  BY <1>5, PublisherAt
<1>7. PublisherIsSound(publisher[p], put[p], bucket', snapshot')
  BY <1>2, <1>3, SoundIsKept, SnapshotStays DEF PubInv, PublishersAreSound
<1>8. PublisherIsSound(publisher[p], put'[p], bucket', snapshot')
  <2>1. publisher[p].step \in Sealing /\ publisher[p].step # "idle"
    BY <1>5, <1>6 DEF Publishes, Sealing
  <2>2. Publishes(publisher[p], put[p], bucket', snapshot')
    BY <1>7, <2>1 DEF PublisherIsSound
  <2>3. publisher[p].step = "seal"
    BY <1>1, <2>1, <2>2 DEF Publishes, Sealing
  <2>4. put[p].key = NextKey(publisher[p])
    BY <1>1, <2>2, <2>3 DEF Publishes
  <2>5. Publishes(publisher[p], put'[p], bucket', snapshot')
    BY <1>4, <2>2, <2>3, <2>4 DEF Publishes, Sealing
  <2>6. QED
    BY <2>1, <2>5 DEF PublisherIsSound
<1>9. publisher' = [publisher EXCEPT ![p] = publisher[p]] /\ OneCabWriter'
  BY <1>3, StaysThere
<1>10. QED
  BY <1>1, <1>2, <1>3, <1>4, <1>6, <1>8, <1>9, ProcessStep, SnapshotStays, WorkspaceIsTyped

LEMMA BucketStepPublishes ==
    ASSUME PubInv, BucketStep, UNCHANGED workspaceVars PROVE PubInv'
<1>1. S3Inv' /\ Moves(bucket, bucket') /\ put' = put
  BY BucketStepKeeps DEF PubInv
<1>2. VersionsUnlessOutside' /\ KeepsRetained(bucket, bucket')
  BY <1>1, BucketIsUntouched DEF PubInv, Moves
<1>3. UNCHANGED <<cab, snapshot, publisher, captures, publications>> /\ SnapshotKept
  BY SnapshotStays DEF workspaceVars
<1>4. PublishersAreSound' /\ PublicationsHold'
  BY <1>1, <1>2, <1>3, SoundIsKept, HoldsIsKept
     DEF PubInv, PublishersAreSound, PublicationsHold
<1>5. QED
  BY <1>1, <1>2, <1>3, <1>4 DEF PubInv, WorkspaceTypes, OneCabWriter

LEMMA SendPublishes ==
    ASSUME PubInv, NEW p \in Clients, PutComponent(p) \/ PutClosure(p) PROVE PubInv'
<1> DEFINE key == NextKey(publisher[p])
<1>1. publisher[p].step = "seal" /\ SendPut(p, key) /\ UNCHANGED workspaceVars
  BY DEF PutComponent, PutClosure, PutBytes, PutFile, AtStep, NextKey
<1> HIDE DEF key
<1>2. /\ S3Inv' /\ UNCHANGED <<bucket, outside>>
      /\ put' = [put EXCEPT ![p] = [step |-> "sent", key |-> key]]
  BY <1>1, SendPutKeeps DEF PubInv, SendPut
<1>3. VersionsUnlessOutside' /\ KeepsRetained(bucket, bucket')
  BY <1>2 DEF PubInv, VersionsUnlessOutside, KeepsRetained
<1>4. UNCHANGED <<cab, snapshot, publisher, captures, publications>>
  BY <1>1 DEF workspaceVars
<1>5. put'[p].key = key /\ put'[p].step = "sent" /\ \A c \in Clients : c # p => put'[c] = put[c]
  BY <1>2 DEF PubInv, S3Inv
<1>6. publisher[p] \in Publishing /\ Publishes(publisher[p], put[p], bucket, snapshot)
  BY <1>1, PublisherAt
<1>7. PublisherIsSound(publisher[p], put'[p], bucket', snapshot')
  BY <1>1, <1>2, <1>4, <1>5, <1>6 DEF PublisherIsSound, Publishes, Sealing, key
<1>8. publisher' = [publisher EXCEPT ![p] = publisher[p]] /\ OneCabWriter'
  BY <1>4, StaysThere
<1>9. QED
  BY <1>2, <1>3, <1>4, <1>5, <1>6, <1>7, <1>8, ProcessStep, SnapshotStays, WorkspaceIsTyped

LEMMA TakePublishes ==
    ASSUME PubInv, NEW p \in Clients, TakeAcknowledgement(p) PROVE PubInv'
<1> DEFINE mine == publisher[p]
           version == put[p].version
           taken == [mine EXCEPT !.acks = Append(@, version)]
           sealed == [mine EXCEPT !.step = "sealed"]
           q == IF ClosesOver(mine.acks) THEN sealed ELSE taken
<1>1. /\ mine.step = "seal" /\ AcknowledgePut(p)
      /\ UNCHANGED <<cab, snapshot, captures, publications>>
  BY DEF TakeAcknowledgement, AtStep
<1>2. publisher' = [publisher EXCEPT ![p] = q]
  <2>2. publisher \in [Clients -> Publishing \union {NotPublishing}]
    BY DEF PubInv, WorkspaceTypes
  <2>3. CASE ClosesOver(mine.acks)
    BY <2>2, <2>3 DEF TakeAcknowledgement, Goto
  <2>4. CASE ~ClosesOver(mine.acks)
    BY <2>2, <2>4 DEF TakeAcknowledgement
  <2>5. QED
    BY <2>3, <2>4
<1>3. /\ S3Inv' /\ bucket' = bucket /\ HeldAt(bucket, put[p].key, version)
      /\ put[p].step = "verify" /\ UNCHANGED outside
      /\ put' = [put EXCEPT ![p] = [step |-> "acknowledged", key |-> put[p].key,
                                    version |-> version]]
  BY <1>1, AcknowledgePutKeeps DEF PubInv, AcknowledgePut
<1>4. mine \in Publishing /\ Publishes(mine, put[p], bucket, snapshot)
  BY <1>1, PublisherAt
<1>5. put'[p].step = "acknowledged" /\ \A c \in Clients : c # p => put'[c] = put[c]
  BY <1>3 DEF PubInv, S3Inv
<1>6. version \in Nat
  <2>1. put[p].key \in DOMAIN bucket /\ version \in DOMAIN bucket[put[p].key]
    BY <1>3 DEF HeldAt
  <2>2. QED
    BY <2>1 DEF PubInv, S3Inv, BucketIsTyped
<1>7. put[p].key = NextKey(mine)
  BY <1>1, <1>3, <1>4 DEF Publishes
<1>8. q \in Publishing /\ PublisherIsSound(q, put'[p], bucket, snapshot) /\ q.step \notin WritingCab
  <2>1. CASE ClosesOver(mine.acks)
    <3>1. /\ sealed \in Publishing /\ sealed.step = "sealed" /\ sealed.evidence = mine.evidence
          /\ sealed.acks = mine.acks
      BY <1>4 DEF Publishing, Sealing
    <3> HIDE DEF sealed
    <3>2. PublisherIsSound(sealed, put'[p], bucket, snapshot)
      BY <1>1, <1>4, <1>5, <3>1 DEF PublisherIsSound, Publishes, Sealing
    <3>3. QED
      BY <2>1, <3>1, <3>2 DEF WritingCab
  <2>2. CASE ~ClosesOver(mine.acks)
    <3>1. mine.acks \in Seq(Nat) /\ Append(mine.acks, version) \in Seq(Nat)
      BY <1>4, <1>6 DEF Publishing
    <3>2. /\ taken \in Publishing /\ taken.step = "seal" /\ taken.evidence = mine.evidence
          /\ taken.acks = Append(mine.acks, version)
      BY <1>1, <1>4, <3>1 DEF Publishing
    <3> HIDE DEF taken
    <3>3. HeldAt(bucket, ComponentKey(mine.evidence, Len(mine.acks) + 1), version)
      BY <1>3, <1>7, <2>2 DEF NextKey
    <3>4. AcksAreHeld(bucket, mine.evidence, mine.acks)
      BY <1>1, <1>4 DEF Publishes, Sealing
    <3>5. AcksAreHeld(bucket, mine.evidence, Append(mine.acks, version))
      <4> HIDE DEF mine, version
      <4>1. \A n \in DOMAIN Append(mine.acks, version) :
              \/ n \in DOMAIN mine.acks /\ Append(mine.acks, version)[n] = mine.acks[n]
              \/ n = Len(mine.acks) + 1 /\ Append(mine.acks, version)[n] = version
        BY <1>6, <3>1
      <4>2. QED
        BY <3>3, <3>4, <4>1 DEF AcksAreHeld
    <3>6. PublisherIsSound(taken, put'[p], bucket, snapshot)
      BY <1>1, <1>4, <1>5, <3>2, <3>5 DEF PublisherIsSound, Publishes, Sealing
    <3>7. QED
      BY <2>2, <3>2, <3>6 DEF WritingCab
  <2>3. QED
    BY <2>1, <2>2
<1> HIDE DEF q
<1>9. OneCabWriter'
  BY <1>1, <1>2, <1>8, SameCabWriter
<1>10. VersionsUnlessOutside' /\ KeepsRetained(bucket, bucket')
  BY <1>3 DEF PubInv, VersionsUnlessOutside, KeepsRetained
<1>11. QED
  BY <1>1, <1>2, <1>3, <1>5, <1>8, <1>9, <1>10, ProcessStep, SnapshotStays, WorkspaceIsTyped

LEMMA VerifyCustodyPublishes ==
    ASSUME PubInv, NEW p \in Clients, VerifyCustody(p) PROVE PubInv'
<1>1. /\ publisher[p].step = "sealed" /\ Goto(p, "sign")
      /\ UNCHANGED bucketVars /\ UNCHANGED <<cab, snapshot, captures, publications>>
  BY DEF VerifyCustody, AtStep, bucketVars
<1>2. Publishes(publisher[p], put[p], bucket, snapshot)
  BY <1>1, PublisherAt
<1>3. PICK q \in Publishing :
        /\ publisher' = [publisher EXCEPT ![p] = q] /\ q.step = "sign"
        /\ q.evidence = publisher[p].evidence /\ q.acks = publisher[p].acks
  BY <1>1, GotoStep DEF Sealing
<1>4. PublisherIsSound(q, put[p], bucket, snapshot)
  BY <1>1, <1>2, <1>3 DEF PublisherIsSound, Publishes, Sealing
<1>5. OneCabWriter'
  BY <1>1, <1>3, SameCabWriter DEF WritingCab
<1>6. QED
  BY <1>1, <1>3, <1>4, <1>5, WorkspaceStep, SnapshotStays, WorkspaceIsTyped

\* A process that returns, fails or dies leaves its put.
LEMMA LeavesPut ==
    ASSUME PubInv, NEW p \in Clients, bucket' = bucket, acked' = acked, outside' = outside,
           put' = [put EXCEPT ![p] = NoPut], UNCHANGED <<cab, snapshot, captures>>,
           publisher' = [publisher EXCEPT ![p] = NotPublishing],
           \A x \in publications' : x \in publications \/ ResultHolds(x, bucket, snapshot)
    PROVE  PubInv'
<1>1. S3Inv'
  BY UntouchedBucket DEF PubInv, Custodial
<1>2. VersionsUnlessOutside' /\ KeepsRetained(bucket, bucket')
  BY DEF PubInv, VersionsUnlessOutside, KeepsRetained
<1>3. put'[p] = NoPut /\ \A c \in Clients : c # p => put'[c] = put[c]
  BY DEF PubInv, S3Inv
<1>4. NotPublishing.step = "idle" /\ PublisherIsSound(NotPublishing, NoPut, bucket', snapshot')
  BY PublisherAt DEF PublisherIsSound
<1>5. OneCabWriter'
  BY <1>4, SameCabWriter DEF WritingCab
<1>6. QED
  BY <1>1, <1>2, <1>3, <1>4, <1>5, ProcessStep, SnapshotStays, WorkspaceIsTyped

LEMMA ReturnPublishes ==
    ASSUME PubInv, NEW p \in Clients, ReturnPublication(p) PROVE PubInv'
<1> DEFINE mine == publisher[p]
           closure == put[p]
           x == Publication(mine, closure)
<1>1. /\ mine.step = "sign" /\ closure.key = ClosureKey(mine.evidence, mine.acks)
      /\ ClosesOver(mine.acks) /\ publications' = publications \union {x}
  BY DEF ReturnPublication, AtStep, ReceiptCloses, ReceiptVerifies, ClosureVerifies
<1>2. mine \in Publishing /\ Publishes(mine, closure, bucket, snapshot)
  BY <1>1, PublisherAt
<1>3. closure.step = "acknowledged"
  BY <1>1, <1>2 DEF Publishes
<1>4. /\ closure = [step |-> "acknowledged", key |-> closure.key, version |-> closure.version]
      /\ HeldAt(bucket, closure.key, closure.version)
  BY <1>3, PutShapes DEF PutHasShape, PubInv
<1>5. /\ StillHolds(snapshot, mine.evidence) /\ mine.evidence.flaws = {}
      /\ AcksAreHeld(bucket, mine.evidence, mine.acks) /\ mine.acks \in Seq(Nat)
  BY <1>1, <1>2 DEF Publishes, Sealing, Publishing
<1>6. x = [evidence |-> mine.evidence, acks |-> mine.acks, closure |-> closure]
  BY DEF Publication
<1> HIDE DEF x, mine, closure
<1>7. x.evidence = mine.evidence /\ x.acks = mine.acks /\ x.closure = closure
  BY <1>6
<1>8. ResultHolds(x, bucket, snapshot)
  BY <1>1, <1>4, <1>5, <1>6, <1>7 DEF ResultHolds
<1>9. QED
  BY <1>1, <1>8, LeavesPut DEF ReturnPublication

LEMMA AbandonPublishes ==
    ASSUME PubInv, NEW p \in Clients, Abandon(p) PROVE PubInv'
BY LeavesPut DEF Abandon

LEMMA PubInvStep == PubInv /\ [PublicationNext]_publicationVars => PubInv'
<1> SUFFICES ASSUME PubInv, [PublicationNext]_publicationVars PROVE PubInv'
  OBVIOUS
<1>1. ASSUME NEW p \in Clients, LocalStep(p), UNCHANGED bucketVars PROVE PubInv'
  BY <1>1, StageKeeps, CaptureSourceKeeps, MakeCabKeeps, FillCabKeeps, AcceptCabKeeps,
     RemoveCabKeeps, MakeSnapshotKeeps, CopyBlobsKeeps, CloseSnapshotKeeps DEF LocalStep
<1>2. ASSUME NEW p \in Clients,
             \/ PutComponent(p) \/ PutClosure(p) \/ TakeAcknowledgement(p)
             \/ VerifyCustody(p) \/ ReturnPublication(p) \/ Abandon(p)
      PROVE  PubInv'
  BY <1>2, SendPublishes, TakePublishes, VerifyCustodyPublishes, ReturnPublishes,
     AbandonPublishes
<1>3. ASSUME NEW p \in Clients, PutStep(p), UNCHANGED workspaceVars PROVE PubInv'
  BY <1>3, PutStepPublishes
<1>4. CASE BucketStep /\ UNCHANGED workspaceVars
  BY <1>4, BucketStepPublishes
<1>5. CASE UNCHANGED publicationVars
  BY <1>5 DEF publicationVars, bucketVars, workspaceVars, PubInv, S3Inv, VersionsUnlessOutside,
     WorkspaceTypes, PublishersAreSound, OneCabWriter, PublicationsHold
<1>6. QED
  BY <1>1, <1>2, <1>3, <1>4, <1>5 DEF PublicationNext

\* The inductive invariant holds of every state of a publication, however many processes
\* publish, die and are replaced, and whatever becomes of their requests.
THEOREM PublicationInvariant == PublicationSpec => []PubInv
BY PubInvInit, PubInvStep, PTL DEF PublicationSpec

LEMMA PubInvHolds == PubInv => PublicationIsHeld
<1> SUFFICES ASSUME PubInv, NEW x \in publications
             PROVE  /\ x.evidence.flaws = {}
                    /\ StillHolds(snapshot, x.evidence)
                    /\ Len(x.acks) = 1 + Blobs
                    /\ \A n \in DOMAIN x.acks :
                          Entries(ComponentKey(x.evidence, n))[x.acks[n]]
                             = Version(TRUE, RetainUntil)
                    /\ Entries(x.closure.key)[x.closure.version] = Version(TRUE, RetainUntil)
  BY DEF PublicationIsHeld
<1>1. ResultHolds(x, bucket, snapshot)
  BY DEF PubInv, PublicationsHold
<1>2. ASSUME NEW key, NEW version, HeldAt(bucket, key, version)
      PROVE  Entries(key)[version] = Version(TRUE, RetainUntil)
  BY <1>2 DEF HeldAt, Entries
<1>3. QED
  BY <1>1, <1>2 DEF ResultHolds, AcksAreHeld, ClosesOver

LEMMA PubInvOneResult == PubInv => OneLogicalResult
<1> SUFFICES ASSUME PubInv, NEW x \in publications, NEW y \in publications
             PROVE  x.evidence = y.evidence /\ (outside = 0 => x = y)
  BY DEF OneLogicalResult
<1>1. ResultHolds(x, bucket, snapshot) /\ ResultHolds(y, bucket, snapshot)
  BY DEF PubInv, PublicationsHold
<1>2. x.evidence = y.evidence
  BY <1>1 DEF ResultHolds, StillHolds
<1>3. ASSUME outside = 0 PROVE x = y
  <2>1. OneVersionEach(bucket)
    BY <1>3 DEF PubInv, VersionsUnlessOutside
  <2>2. ASSUME NEW key, NEW version, HeldAt(bucket, key, version) PROVE version = 1
    <3>1. key \in DOMAIN bucket /\ version \in DOMAIN bucket[key] /\ Len(bucket[key]) = 1
      BY <2>1, <2>2 DEF HeldAt, OneVersionEach
    <3>2. DOMAIN bucket[key] = 1 .. Len(bucket[key])
      BY <3>1 DEF PubInv, S3Inv, BucketIsTyped
    <3>3. QED
      BY <3>1, <3>2
  <2>3. ASSUME NEW z, ResultHolds(z, bucket, snapshot)
        PROVE  /\ z.acks \in Seq(Nat) /\ Len(z.acks) = 1 + Blobs
               /\ \A n \in 1 .. (1 + Blobs) : z.acks[n] = 1
               /\ z.closure.version = 1
    <3>1. z.acks \in Seq(Nat) /\ Len(z.acks) = 1 + Blobs /\ DOMAIN z.acks = 1 .. (1 + Blobs)
      BY <2>3 DEF ResultHolds, ClosesOver
    <3>2. QED
      BY <2>2, <2>3, <3>1 DEF ResultHolds, AcksAreHeld
  <2>4. x.acks = y.acks
    <3>1. /\ x.acks \in Seq(Nat) /\ y.acks \in Seq(Nat) /\ Len(x.acks) = Len(y.acks)
          /\ \A n \in 1 .. Len(x.acks) : x.acks[n] = y.acks[n]
      BY <1>1, <2>3
    <3>2. QED
      BY <3>1, SeqEqual
  <2>5. x.closure = y.closure
    BY <1>1, <1>2, <2>3, <2>4 DEF ResultHolds
  <2>6. QED
    BY <1>1, <1>2, <2>4, <2>5 DEF ResultHolds
<1>4. QED
  BY <1>2, <1>3

\* What publish_managed_evidence has returned is in custody and stays there: each object of
\* the snapshot and the closure over exactly these is a version of the very bytes under the
\* plan's retention, for any number of processes, blobs, captures and lost answers.
THEOREM PublicationsAreHeld == PublicationSpec => []PublicationIsHeld
BY PublicationInvariant, PubInvHolds, PTL

\* However many processes publish the run they publish one capture, and in a bucket nobody
\* else has touched they return one and the same result (seal_streamed_cab_snapshot).
THEOREM RetriesGiveOneResult == PublicationSpec => []OneLogicalResult
BY PublicationInvariant, PubInvOneResult, PTL

LEMMA RecoveryTimes ==
    /\ CredentialTime \in Nat /\ MaxInflight \in Nat /\ Skew \in Nat
    /\ RequestTime \in Nat /\ AuthorizationTime \in Nat
    /\ Spans \subseteq Nat
    /\ MaxLeases \in Nat /\ LeaseTimes \in [1 .. MaxLeases -> Nat \ {0}]
    /\ Nil \notin Nat
BY PublishingRecoveryConstants

HIDE S3CustodyConstants
HIDE ManagedPublicationConstants
USE RecoveryTimes

----------------------------------------------------------------------------
(* Recovery.  The inductive invariant: as long as a fence is up no call of   *)
(* the attempt runs on for longer than MaxInflight from its beginning, as    *)
(* long as a seal is up no credential of the attempt outlives the drain that *)
(* was attested under it, and an authorization stands on documents of both,  *)
(* which outlast the lease of the successor.                                 *)

Requests == [attempt : Attempts, maker : People, at : Nat, until : Nat]

LifecycleRows ==
    [attempt : Attempts, sequence : Nat, state : {"prepared", "issued", "settled"},
     ends : Nat, settled : Nat \union {Nil}]

FenceDocuments == [request : Requests, effective : Nat, observed : Nat, until : Nat]

DrainDocuments ==
    [request : Requests, fence : FenceDocuments, checked : Nat, anchors : SUBSET LifecycleRows,
     sealed : Nat, until : Nat, watermark : Nat]

Authorizations ==
    [request : Requests, fence : FenceDocuments, drain : DrainDocuments, checker : People,
     approved : Nat, issued : Nat, expires : Nat]

RecoveryTypes ==
    /\ clock \in Nat /\ claimed \in 0 .. MaxLeases
    /\ leases \in [Attempts -> [worker : Publishers \union {Nil}, from : Nat, until : Nat,
                                publishing : Nat \union {Nil}]]
    /\ busy \in [Attempts -> Nat]
    /\ rows \subseteq LifecycleRows /\ IsFiniteSet(rows)
    /\ fences \subseteq [request : Requests, attempt : Attempts, from : Nat, until : Nat,
                         late : 0 .. Skew]
    /\ seals \subseteq [request : Requests, attempt : Attempts, from : Nat, until : Nat,
                        watermark : Nat]
    /\ documents \in [requests : SUBSET Requests, fences : SUBSET FenceDocuments,
                      drains : SUBSET DrainDocuments, approvals : SUBSET Authorizations,
                      authorizations : SUBSET Authorizations]

\* The successor of every request has been claimed: its lease is what it will be.
SuccessorsAreClaimed == \A request \in documents.requests : request.attempt + 1 <= claimed

CallsAreBounded == \A f \in Attempts : busy[f] <= clock + MaxInflight

FencesAreUp ==
    \A fence \in fences :
        /\ fence.attempt = fence.request.attempt
        /\ fence.late <= fence.from /\ fence.from <= clock /\ fence.from <= fence.until
        /\ clock < fence.until => busy[fence.attempt] <= fence.from + MaxInflight

SealsAreOfRequests ==
    \A seal \in seals : seal.attempt = seal.request.attempt /\ seal.request \in documents.requests

\* What the fencing controller attested is a fence it keeps up, in its own time.
FencesAreAttested ==
    \A document \in documents.fences : \E fence \in fences :
        /\ fence.request = document.request
        /\ document.effective = fence.from - fence.late
        /\ document.until = fence.until - fence.late

\* What the drain controller attested stays so while the seal is up.
DrainsHold ==
    \A document \in documents.drains :
        /\ document.request \in documents.requests
        /\ document.fence \in documents.fences
        /\ document.fence.effective + MaxInflight + Skew <= document.checked
        /\ document.checked <= clock
        /\ \E seal \in seals :
              seal.attempt = document.request.attempt /\ seal.until = document.until
        /\ clock < document.until =>
              \A row \in rows :
                  row.attempt = document.request.attempt => row.ends <= document.checked

\* An authorization is of one request, one fence and one drain, and both outlast the
\* lease of the successor.
ApprovalsHold ==
    \A a \in documents.approvals :
        /\ a.drain \in documents.drains
        /\ a.fence = a.drain.fence /\ a.fence.request = a.request /\ a.drain.request = a.request
        /\ a.fence.until >= leases[a.request.attempt + 1].until
        /\ a.drain.until >= leases[a.request.attempt + 1].until

UsesAreAuthorized ==
    /\ documents.authorizations \subseteq documents.approvals
    /\ using \subseteq documents.authorizations
    /\ adoptions \subseteq documents.authorizations

\* An adoption is a publication of the successor, and there is none before it.
AdoptionsAreJournaled ==
    /\ \A a \in adoptions : leases[a.request.attempt + 1].publishing # Nil
    /\ \A a, b \in adoptions : a.request.attempt = b.request.attempt => a = b

RecoveryInv ==
    /\ RecoveryTypes
    /\ SuccessorsAreClaimed
    /\ CallsAreBounded
    /\ FencesAreUp
    /\ SealsAreOfRequests
    /\ FencesAreAttested
    /\ DrainsHold
    /\ ApprovalsHold
    /\ UsesAreAuthorized
    /\ AdoptionsAreJournaled

LEMMA RecoveryInvInit == RecoveryInit => RecoveryInv
<1> SUFFICES ASSUME RecoveryInit PROVE RecoveryInv
  OBVIOUS
<1>1. RecoveryTypes
  BY FS_EmptySet DEF RecoveryInit, RecoveryTypes, Unclaimed, Attempts
<1>2. QED
  BY <1>1 DEF RecoveryInit, RecoveryInv, SuccessorsAreClaimed, CallsAreBounded, FencesAreUp,
     SealsAreOfRequests, FencesAreAttested, DrainsHold, ApprovalsHold, UsesAreAuthorized,
     AdoptionsAreJournaled

\* An authorization stands on the lease of a successor that has been claimed.
LEMMA SuccessorOfApproval ==
    ASSUME RecoveryInv, NEW a \in documents.approvals
    PROVE  /\ a.request \in documents.requests
           /\ a.request.attempt \in Attempts /\ a.request.attempt + 1 \in Attempts
           /\ a.request.attempt + 1 <= claimed
<1>1. a.request \in documents.requests /\ a.request \in Requests
  BY DEF RecoveryInv, RecoveryTypes, ApprovalsHold, DrainsHold
<1>2. a.request.attempt \in Attempts
  BY <1>1 DEF Requests
<1>3. a.request.attempt + 1 <= claimed /\ claimed \in 0 .. MaxLeases
  BY <1>1 DEF RecoveryInv, RecoveryTypes, SuccessorsAreClaimed
<1>4. QED
  BY <1>1, <1>2, <1>3 DEF Attempts

LeaseRows ==
    [worker : Publishers \union {Nil}, from : Nat, until : Nat, publishing : Nat \union {Nil}]

LEMMA LeasesAreTyped ==
    ASSUME RecoveryInv
    PROVE  /\ clock \in Nat /\ claimed \in 0 .. MaxLeases
           /\ leases \in [Attempts -> LeaseRows] /\ busy \in [Attempts -> Nat]
BY DEF RecoveryInv, RecoveryTypes, LeaseRows

\* The types after a step that leaves rows, fences, seals and documents alone.
LEMMA TypesKeep ==
    ASSUME RecoveryInv, UNCHANGED <<rows, fences, seals, documents>>,
           clock' \in Nat, claimed' \in 0 .. MaxLeases,
           leases' \in [Attempts -> LeaseRows], busy' \in [Attempts -> Nat]
    PROVE  RecoveryTypes'
<1>1. /\ rows' \subseteq LifecycleRows /\ IsFiniteSet(rows')
      /\ fences' \subseteq [request : Requests, attempt : Attempts, from : Nat, until : Nat,
                            late : 0 .. Skew]
      /\ seals' \subseteq [request : Requests, attempt : Attempts, from : Nat, until : Nat,
                           watermark : Nat]
  BY DEF RecoveryInv, RecoveryTypes
<1>2. documents' \in [requests : SUBSET Requests, fences : SUBSET FenceDocuments,
                      drains : SUBSET DrainDocuments, approvals : SUBSET Authorizations,
                      authorizations : SUBSET Authorizations]
  BY DEF RecoveryInv, RecoveryTypes
<1>3. leases' \in [Attempts -> [worker : Publishers \union {Nil}, from : Nat, until : Nat,
                                publishing : Nat \union {Nil}]]
  BY DEF LeaseRows
<1> QED
  BY <1>1, <1>2, <1>3, Zenon DEF RecoveryTypes

LEMMA TickKeeps == RecoveryInv /\ ClockTicks => RecoveryInv'
<1> SUFFICES ASSUME RecoveryInv, ClockTicks PROVE RecoveryInv'
  OBVIOUS
<1> USE DEF ClockTicks
<1>1. clock \in Nat /\ clock' = clock + 1
  BY DEF RecoveryInv, RecoveryTypes
<1>2. RecoveryTypes'
  BY <1>1, LeasesAreTyped, TypesKeep
<1>3. CallsAreBounded'
  BY <1>1 DEF RecoveryInv, RecoveryTypes, CallsAreBounded
<1>4. FencesAreUp'
  BY <1>1 DEF RecoveryInv, RecoveryTypes, FencesAreUp
<1>5. DrainsHold'
  <2>1. \A document \in documents.drains : document.checked \in Nat /\ document.until \in Nat
    BY DEF RecoveryInv, RecoveryTypes, DrainDocuments
  <2>2. QED
    BY <1>1, <2>1 DEF RecoveryInv, DrainsHold
<1>6. QED
  BY <1>2, <1>3, <1>4, <1>5 DEF RecoveryInv, SuccessorsAreClaimed, SealsAreOfRequests,
     FencesAreAttested, ApprovalsHold, UsesAreAuthorized, AdoptionsAreJournaled

\* A step that only changes leases keeps the invariant if the leases given out keep
\* their ends and a publication is not taken back.
LEMMA LeasesKeep ==
    ASSUME RecoveryInv, RecoveryTypes',
           claimed <= claimed',
           \A f \in 1 .. claimed :
               /\ leases'[f].until = leases[f].until
               /\ leases[f].publishing # Nil => leases'[f].publishing # Nil,
           UNCHANGED <<clock, busy, rows, fences, seals, documents, using, adoptions>>
    PROVE  RecoveryInv'
<1>1. SuccessorsAreClaimed'
  BY DEF RecoveryInv, RecoveryTypes, SuccessorsAreClaimed, Requests, Attempts
<1>2. \A a \in documents.approvals : a.request.attempt + 1 \in 1 .. claimed
  BY SuccessorOfApproval DEF Attempts
<1>3. ApprovalsHold'
  BY <1>2 DEF RecoveryInv, ApprovalsHold
<1>4. AdoptionsAreJournaled'
  BY <1>2 DEF RecoveryInv, UsesAreAuthorized, AdoptionsAreJournaled
<1>5. QED
  BY <1>1, <1>3, <1>4 DEF RecoveryInv, CallsAreBounded, FencesAreUp, SealsAreOfRequests,
     FencesAreAttested, DrainsHold, UsesAreAuthorized

LEMMA ClaimLeaseKeeps == ASSUME RecoveryInv, NEW w \in Publishers, ClaimLease(w) PROVE RecoveryInv'
<1> USE DEF ClaimLease
<1>1. claimed \in Nat /\ claimed + 1 \in Attempts
  BY DEF RecoveryInv, RecoveryTypes, Attempts
<1> DEFINE lease == [worker |-> w, from |-> clock, until |-> clock + LeaseTimes[claimed + 1],
                     publishing |-> Nil]
<1>a. clock \in Nat /\ LeaseTimes[claimed + 1] \in Nat
  BY <1>1 DEF RecoveryInv, RecoveryTypes, Attempts
<1>b. lease \in [worker : Publishers \union {Nil}, from : Nat, until : Nat,
                 publishing : Nat \union {Nil}]
  BY <1>a
<1>c. leases' = [leases EXCEPT ![claimed + 1] = lease] /\ claimed' \in 0 .. MaxLeases
  BY <1>1 DEF Attempts
<1> HIDE DEF lease
<1>2. RecoveryTypes'
  BY <1>1, <1>b, <1>c DEF RecoveryInv, RecoveryTypes
<1>3. \A f \in 1 .. claimed : leases'[f] = leases[f]
  BY <1>1 DEF RecoveryInv, RecoveryTypes, Attempts
<1>4. QED
  BY <1>1, <1>2, <1>3, LeasesKeep

LEMMA BeginPublicationKeeps == RecoveryInv /\ BeginPublication => RecoveryInv'
<1> SUFFICES ASSUME RecoveryInv, BeginPublication PROVE RecoveryInv'
  OBVIOUS
<1> USE DEF BeginPublication
<1>1. claimed \in Attempts /\ clock \in Nat
  BY DEF RecoveryInv, RecoveryTypes, Attempts
<1>2. RecoveryTypes'
  <2>1. leases[claimed] \in LeaseRows
    BY <1>1, LeasesAreTyped
  <2>2. [leases[claimed] EXCEPT !.publishing = clock] \in LeaseRows
    BY <1>1, <2>1 DEF LeaseRows
  <2>3. leases' \in [Attempts -> LeaseRows]
    BY <1>1, <2>2, LeasesAreTyped
  <2>4. QED
    BY <1>1, <2>3, LeasesAreTyped, TypesKeep
<1>3. \A f \in Attempts :
        /\ leases'[f].until = leases[f].until
        /\ leases[f].publishing # Nil => leases'[f].publishing # Nil
  BY <1>1 DEF RecoveryInv, RecoveryTypes
<1>4. 1 .. claimed \subseteq Attempts /\ claimed' = claimed /\ claimed <= claimed'
  BY <1>1 DEF Attempts
<1>5. QED
  BY <1>1, <1>2, <1>3, <1>4, LeasesKeep

LEMMA BeginCallKeeps ==
    ASSUME RecoveryInv, NEW f \in Attempts, BeginCall(f) PROVE RecoveryInv'
<1> USE DEF BeginCall
<1>1. RecoveryTypes'
  <2>1. clock \in Nat /\ busy' \in [Attempts -> Nat]
    BY LeasesAreTyped
  <2>2. QED
    BY <2>1, LeasesAreTyped, TypesKeep
<1>2. CallsAreBounded'
  BY DEF RecoveryInv, RecoveryTypes, CallsAreBounded
<1>3. FencesAreUp'
  BY DEF RecoveryInv, RecoveryTypes, FencesAreUp, Runs, Isolated, InForce
<1>4. QED
  BY <1>1, <1>2, <1>3 DEF RecoveryInv, SuccessorsAreClaimed, SealsAreOfRequests,
     FencesAreAttested, DrainsHold, ApprovalsHold, UsesAreAuthorized, AdoptionsAreJournaled

\* A step that only changes rows keeps the invariant if no credential of an attempt
\* under seal is prolonged or added.
LEMMA RowsKeep ==
    ASSUME RecoveryInv, rows' \subseteq LifecycleRows, IsFiniteSet(rows'),
           \A new \in rows' :
               \/ ~Sealed(new.attempt)
               \/ \E row \in rows : row.attempt = new.attempt /\ row.ends = new.ends,
           UNCHANGED <<clock, leases, claimed, busy, fences, seals, documents, using, adoptions>>
    PROVE  RecoveryInv'
<1>1. RecoveryTypes'
  BY DEF RecoveryInv, RecoveryTypes
<1>2. DrainsHold'
  <2> SUFFICES ASSUME NEW document \in documents.drains, clock < document.until,
                      NEW new \in rows', new.attempt = document.request.attempt
               PROVE  new.ends <= document.checked
    BY DEF RecoveryInv, DrainsHold
  <2>1. Sealed(new.attempt)
    BY DEF RecoveryInv, DrainsHold, Sealed, InForce
  <2>2. PICK row \in rows : row.attempt = new.attempt /\ row.ends = new.ends
    BY <2>1
  <2>3. QED
    BY <2>2 DEF RecoveryInv, DrainsHold
<1>3. QED
  BY <1>1, <1>2 DEF RecoveryInv, SuccessorsAreClaimed, CallsAreBounded, FencesAreUp,
     SealsAreOfRequests, FencesAreAttested, ApprovalsHold, UsesAreAuthorized,
     AdoptionsAreJournaled

LEMMA PrepareRowKeeps ==
    ASSUME RecoveryInv, NEW f \in Attempts, PrepareRow(f) PROVE RecoveryInv'
<1> USE DEF PrepareRow
<1> DEFINE new == Row(f, Cardinality(rows) + 1)
<1>1. Cardinality(rows) \in Nat /\ clock \in Nat
  BY FS_CardinalityType DEF RecoveryInv, RecoveryTypes
<1>2. new \in LifecycleRows /\ new.attempt = f
  BY <1>1 DEF Row, LifecycleRows
<1>3. IsFiniteSet(rows')
  BY FS_AddElement DEF RecoveryInv, RecoveryTypes
<1>4. rows' = rows \union {new} /\ rows \subseteq LifecycleRows
  BY DEF RecoveryInv, RecoveryTypes
<1> HIDE DEF new
<1>5. QED
  BY <1>2, <1>3, <1>4, RowsKeep

LEMMA IssueCredentialKeeps ==
    ASSUME RecoveryInv, NEW row \in rows, IssueCredential(row) PROVE RecoveryInv'
<1> USE DEF IssueCredential
<1> DEFINE new == [row EXCEPT !.state = "issued", !.ends = clock + CredentialTime]
<1>a. row \in LifecycleRows /\ clock + CredentialTime \in Nat
  BY DEF RecoveryInv, RecoveryTypes
<1>1. new \in LifecycleRows /\ new.attempt = row.attempt
  BY <1>a DEF LifecycleRows
<1>2. IsFiniteSet(rows')
  BY FS_AddElement, FS_RemoveElement DEF RecoveryInv, RecoveryTypes, Replace
<1>3. rows' = (rows \ {row}) \union {new} /\ rows \subseteq LifecycleRows
  BY DEF RecoveryInv, RecoveryTypes, Replace
<1> HIDE DEF new
<1>4. QED
  BY <1>1, <1>2, <1>3, RowsKeep

LEMMA SettleRowKeeps ==
    ASSUME RecoveryInv, NEW row \in rows, SettleRow(row) PROVE RecoveryInv'
<1> USE DEF SettleRow
<1> DEFINE new == [row EXCEPT !.state = "settled", !.settled = clock]
<1>1. new \in LifecycleRows /\ new.attempt = row.attempt /\ new.ends = row.ends
  BY DEF RecoveryInv, RecoveryTypes, LifecycleRows
<1>2. IsFiniteSet(rows')
  BY FS_AddElement, FS_RemoveElement DEF RecoveryInv, RecoveryTypes, Replace
<1>3. rows' = (rows \ {row}) \union {new} /\ rows \subseteq LifecycleRows
  BY DEF RecoveryInv, RecoveryTypes, Replace
<1> HIDE DEF new
<1>4. QED
  BY <1>1, <1>2, <1>3, RowsKeep

----------------------------------------------------------------------------

\* A document that is signed joins those of its kind, and nothing else happens.
Joined(kind, document, name) ==
    IF kind = name THEN documents[name] \union {document} ELSE documents[name]

LEMMA SigningKeepsTheRest ==
    ASSUME RecoveryInv, NEW kind \in DOMAIN documents, NEW document, Signed(kind, document)
    PROVE  /\ documents'.requests = Joined(kind, document, "requests")
           /\ documents'.fences = Joined(kind, document, "fences")
           /\ documents'.drains = Joined(kind, document, "drains")
           /\ documents'.approvals = Joined(kind, document, "approvals")
           /\ documents'.authorizations = Joined(kind, document, "authorizations")
           /\ UNCHANGED <<clock, leases, claimed, busy, rows, fences, seals, using, adoptions>>
BY DEF Signed, RecoveryInv, RecoveryTypes, Joined

LEMMA DocumentKinds ==
    RecoveryInv =>
        DOMAIN documents = {"requests", "fences", "drains", "approvals", "authorizations"}
BY DEF RecoveryInv, RecoveryTypes

LEMMA RequestRecoveryKeeps ==
    ASSUME RecoveryInv, NEW maker \in People, RequestRecovery(maker) PROVE RecoveryInv'
<1>1. PICK f \in 1 .. (claimed - 1) :
        Signed("requests", [attempt |-> f, maker |-> maker, at |-> clock,
                            until |-> clock + RequestTime])
  BY DEF RequestRecovery
<1> DEFINE request == [attempt |-> f, maker |-> maker, at |-> clock, until |-> clock + RequestTime]
<1>2. f \in Attempts /\ f + 1 <= claimed /\ clock \in Nat /\ clock + RequestTime \in Nat
  BY DEF RecoveryInv, RecoveryTypes, Attempts
<1>3. request \in Requests /\ request.attempt + 1 <= claimed
  BY <1>2 DEF Requests
<1>4. /\ documents'.requests = documents.requests \union {request}
      /\ documents'.fences = documents.fences /\ documents'.drains = documents.drains
      /\ documents'.approvals = documents.approvals
      /\ documents'.authorizations = documents.authorizations
      /\ UNCHANGED <<clock, leases, claimed, busy, rows, fences, seals, using, adoptions>>
  BY <1>1, SigningKeepsTheRest, DocumentKinds DEF Joined
<1> HIDE DEF request
<1>5. RecoveryTypes'
  BY <1>1, <1>3 DEF RecoveryInv, RecoveryTypes, Signed, request
<1>6. SuccessorsAreClaimed'
  BY <1>3, <1>4 DEF RecoveryInv, SuccessorsAreClaimed
<1>7. SealsAreOfRequests' /\ FencesAreUp'
  BY <1>4 DEF RecoveryInv, SealsAreOfRequests, FencesAreUp
<1>8. DrainsHold'
  BY <1>4 DEF RecoveryInv, DrainsHold
<1>9. QED
  BY <1>4, <1>5, <1>6, <1>7, <1>8 DEF RecoveryInv, CallsAreBounded, FencesAreAttested,
     ApprovalsHold, UsesAreAuthorized, AdoptionsAreJournaled

LEMMA FenceComputeKeeps == RecoveryInv /\ FenceCompute => RecoveryInv'
<1> SUFFICES ASSUME RecoveryInv, FenceCompute PROVE RecoveryInv'
  OBVIOUS
<1>1. PICK request \in documents.requests, span \in Spans, behind \in 0 .. Skew :
        /\ behind <= clock
        /\ fences' = fences \union {[request |-> request, attempt |-> request.attempt,
                                     from |-> clock, until |-> clock + span, late |-> behind]}
  BY DEF FenceCompute
<1> DEFINE new == [request |-> request, attempt |-> request.attempt,
                   from |-> clock, until |-> clock + span, late |-> behind]
<1>2. UNCHANGED <<clock, leases, claimed, busy, rows, seals, documents, using, adoptions>>
  BY DEF FenceCompute
<1>3. /\ request \in Requests /\ request.attempt \in Attempts
      /\ clock \in Nat /\ span \in Nat /\ clock + span \in Nat
  BY DEF RecoveryInv, RecoveryTypes, Requests
<1>4. /\ new \in [request : Requests, attempt : Attempts, from : Nat, until : Nat,
                  late : 0 .. Skew]
      /\ fences' = fences \union {new}
  BY <1>1, <1>3
<1>5. /\ new.attempt = new.request.attempt /\ new.late <= new.from
      /\ new.from = clock /\ new.from <= new.until
      /\ busy[new.attempt] <= new.from + MaxInflight
  BY <1>1, <1>3 DEF RecoveryInv, CallsAreBounded
<1> HIDE DEF new
<1>6. RecoveryTypes'
  BY <1>2, <1>4 DEF RecoveryInv, RecoveryTypes
<1>7. FencesAreUp'
  BY <1>2, <1>3, <1>4, <1>5 DEF RecoveryInv, FencesAreUp
<1>8. FencesAreAttested'
  BY <1>2, <1>4 DEF RecoveryInv, FencesAreAttested
<1>9. QED
  BY <1>2, <1>6, <1>7, <1>8 DEF RecoveryInv, SuccessorsAreClaimed, CallsAreBounded,
     SealsAreOfRequests, DrainsHold, ApprovalsHold, UsesAreAuthorized, AdoptionsAreJournaled

LEMMA AttestFenceKeeps == RecoveryInv /\ AttestFence => RecoveryInv'
<1> SUFFICES ASSUME RecoveryInv, AttestFence PROVE RecoveryInv'
  OBVIOUS
<1>1. PICK fence \in fences :
        Signed("fences", [request |-> fence.request, effective |-> fence.from - fence.late,
                          observed |-> clock - fence.late, until |-> fence.until - fence.late])
  BY DEF AttestFence
<1> DEFINE document == [request |-> fence.request, effective |-> fence.from - fence.late,
                        observed |-> clock - fence.late, until |-> fence.until - fence.late]
<1>2. /\ fence.request \in Requests /\ fence.from - fence.late \in Nat
      /\ clock - fence.late \in Nat /\ fence.until - fence.late \in Nat
  BY DEF RecoveryInv, RecoveryTypes, FencesAreUp
<1>3. document \in FenceDocuments
  BY <1>2 DEF FenceDocuments
<1>a. Signed("fences", document)
  BY <1>1
<1>b. /\ document.request = fence.request
      /\ document.effective = fence.from - fence.late
      /\ document.until = fence.until - fence.late
  OBVIOUS
<1> HIDE DEF document
<1>4. /\ documents'.fences = documents.fences \union {document}
      /\ documents'.requests = documents.requests /\ documents'.drains = documents.drains
      /\ documents'.approvals = documents.approvals
      /\ documents'.authorizations = documents.authorizations
      /\ UNCHANGED <<clock, leases, claimed, busy, rows, fences, seals, using, adoptions>>
  BY <1>a, SigningKeepsTheRest, DocumentKinds DEF Joined
<1>5. FencesAreAttested'
  BY <1>4, <1>b DEF RecoveryInv, FencesAreAttested
<1>6. RecoveryTypes'
  BY <1>a, <1>3 DEF RecoveryInv, RecoveryTypes, Signed
<1>7. DrainsHold'
  BY <1>4 DEF RecoveryInv, DrainsHold
<1>8. QED
  BY <1>4, <1>5, <1>6, <1>7 DEF RecoveryInv, SuccessorsAreClaimed, CallsAreBounded, FencesAreUp,
     SealsAreOfRequests, ApprovalsHold, UsesAreAuthorized, AdoptionsAreJournaled

LEMMA SealIssuanceKeeps == RecoveryInv /\ SealIssuance => RecoveryInv'
<1> SUFFICES ASSUME RecoveryInv, SealIssuance PROVE RecoveryInv'
  OBVIOUS
<1>1. PICK request \in documents.requests, span \in Spans :
        seals' = seals \union {[request |-> request, attempt |-> request.attempt,
                                from |-> clock, until |-> clock + span,
                                watermark |-> Cardinality(rows)]}
  BY DEF SealIssuance
<1> DEFINE new == [request |-> request, attempt |-> request.attempt, from |-> clock,
                   until |-> clock + span, watermark |-> Cardinality(rows)]
<1>2. UNCHANGED <<clock, leases, claimed, busy, rows, fences, documents, using, adoptions>>
  BY DEF SealIssuance
<1>3. /\ request \in Requests /\ request.attempt \in Attempts
      /\ clock \in Nat /\ clock + span \in Nat /\ Cardinality(rows) \in Nat
  BY FS_CardinalityType DEF RecoveryInv, RecoveryTypes, Requests
<1>4. /\ new \in [request : Requests, attempt : Attempts, from : Nat, until : Nat,
                  watermark : Nat]
      /\ seals' = seals \union {new}
      /\ new.attempt = new.request.attempt /\ new.request \in documents.requests
  BY <1>1, <1>3
<1> HIDE DEF new
<1>5. RecoveryTypes'
  BY <1>2, <1>4 DEF RecoveryInv, RecoveryTypes
<1>6. SealsAreOfRequests' /\ DrainsHold'
  BY <1>2, <1>4 DEF RecoveryInv, SealsAreOfRequests, DrainsHold
<1>7. QED
  BY <1>2, <1>5, <1>6 DEF RecoveryInv, SuccessorsAreClaimed, CallsAreBounded, FencesAreUp,
     FencesAreAttested, ApprovalsHold, UsesAreAuthorized, AdoptionsAreJournaled

LEMMA AttestDrainKeeps == RecoveryInv /\ AttestDrain => RecoveryInv'
<1> SUFFICES ASSUME RecoveryInv, AttestDrain PROVE RecoveryInv'
  OBVIOUS
<1>1. PICK seal \in seals, fence \in documents.fences :
        LET document == [request |-> seal.request, fence |-> fence, checked |-> clock,
                         anchors |-> {row \in rows : row.attempt = seal.attempt},
                         sealed |-> seal.from, until |-> seal.until,
                         watermark |-> seal.watermark]
        IN DrainHolds(document) /\ Signed("drains", document)
  BY DEF AttestDrain
<1> DEFINE anchors == {row \in rows : row.attempt = seal.attempt}
           document == [request |-> seal.request, fence |-> fence, checked |-> clock,
                        anchors |-> anchors, sealed |-> seal.from, until |-> seal.until,
                        watermark |-> seal.watermark]
<1>2. DrainHolds(document) /\ Signed("drains", document)
  BY <1>1
<1>a. Signed("drains", document)
  BY <1>2
<1>3. /\ seal.request \in Requests /\ fence \in FenceDocuments /\ clock \in Nat
      /\ anchors \in SUBSET LifecycleRows
      /\ seal.from \in Nat /\ seal.until \in Nat /\ seal.watermark \in Nat
  BY DEF RecoveryInv, RecoveryTypes
<1>4. /\ document.request = seal.request /\ document.fence = fence /\ document.checked = clock
      /\ document.until = seal.until /\ document.anchors = anchors
  OBVIOUS
<1> HIDE DEF anchors
<1>5. document \in DrainDocuments
  BY <1>3 DEF DrainDocuments
<1> HIDE DEF document
<1>6. /\ documents'.drains = documents.drains \union {document}
      /\ documents'.requests = documents.requests /\ documents'.fences = documents.fences
      /\ documents'.approvals = documents.approvals
      /\ documents'.authorizations = documents.authorizations
      /\ UNCHANGED <<clock, leases, claimed, busy, rows, fences, seals, using, adoptions>>
  BY <1>a, SigningKeepsTheRest, DocumentKinds DEF Joined
<1>7. RecoveryTypes'
  BY <1>2, <1>5 DEF RecoveryInv, RecoveryTypes, Signed
<1>8. /\ fence.effective + MaxInflight + Skew <= clock
      /\ \A row \in anchors : row.ends <= clock
  BY <1>2, <1>4 DEF DrainHolds, DrainNotBefore
<1>9. /\ seal.request \in documents.requests /\ seal.attempt = seal.request.attempt
      /\ \A row \in rows : row.attempt = seal.request.attempt => row.ends <= clock
  BY <1>8 DEF RecoveryInv, SealsAreOfRequests, anchors
<1>10. DrainsHold'
  <2>1. clock <= clock
    BY <1>3
  <2>2. QED
    BY <1>4, <1>6, <1>8, <1>9, <2>1 DEF RecoveryInv, DrainsHold
<1>11. ApprovalsHold'
  BY <1>6 DEF RecoveryInv, ApprovalsHold
<1>12. QED
  BY <1>6, <1>7, <1>10, <1>11 DEF RecoveryInv, SuccessorsAreClaimed, CallsAreBounded,
     FencesAreUp, SealsAreOfRequests, FencesAreAttested, UsesAreAuthorized,
     AdoptionsAreJournaled

LEMMA ApproveRecoveryKeeps ==
    ASSUME RecoveryInv, NEW checker \in People, ApproveRecovery(checker) PROVE RecoveryInv'
<1>1. PICK drain \in documents.drains, issued \in clock .. (clock + 1),
           life \in 1 .. AuthorizationTime :
        LET a == [request |-> drain.request, fence |-> drain.fence, drain |-> drain,
                  checker |-> checker, approved |-> clock,
                  issued |-> issued, expires |-> issued + life]
        IN BindingHolds(a) /\ TimelineHolds(a) /\ Signed("approvals", a)
  BY DEF ApproveRecovery
<1> DEFINE a == [request |-> drain.request, fence |-> drain.fence, drain |-> drain,
                 checker |-> checker, approved |-> clock,
                 issued |-> issued, expires |-> issued + life]
<1>2. BindingHolds(a) /\ TimelineHolds(a) /\ Signed("approvals", a)
  BY <1>1
<1>a. Signed("approvals", a)
  BY <1>2
<1>3. clock \in Nat /\ issued \in Nat /\ issued + life \in Nat /\ drain \in DrainDocuments
  BY DEF RecoveryInv, RecoveryTypes
<1>4. a \in Authorizations
  BY <1>3 DEF Authorizations, DrainDocuments
<1>5. a.drain = drain /\ a.fence = drain.fence /\ a.request = drain.request
  OBVIOUS
<1> HIDE DEF a
<1>6. /\ documents'.approvals = documents.approvals \union {a}
      /\ documents'.requests = documents.requests /\ documents'.fences = documents.fences
      /\ documents'.drains = documents.drains
      /\ documents'.authorizations = documents.authorizations
      /\ UNCHANGED <<clock, leases, claimed, busy, rows, fences, seals, using, adoptions>>
  BY <1>a, SigningKeepsTheRest, DocumentKinds DEF Joined
<1>7. RecoveryTypes'
  BY <1>2, <1>4 DEF RecoveryInv, RecoveryTypes, Signed
<1>8. ApprovalsHold'
  BY <1>2, <1>5, <1>6 DEF RecoveryInv, ApprovalsHold, BindingHolds, TimelineHolds
<1>9. DrainsHold' /\ UsesAreAuthorized'
  BY <1>6 DEF RecoveryInv, DrainsHold, UsesAreAuthorized
<1>10. QED
  BY <1>6, <1>7, <1>8, <1>9 DEF RecoveryInv, SuccessorsAreClaimed, CallsAreBounded,
     FencesAreUp, SealsAreOfRequests, FencesAreAttested, AdoptionsAreJournaled

LEMMA IssueAuthorizationKeeps == RecoveryInv /\ IssueAuthorization => RecoveryInv'
<1> SUFFICES ASSUME RecoveryInv, IssueAuthorization PROVE RecoveryInv'
  OBVIOUS
<1>1. PICK a \in documents.approvals : Signed("authorizations", a)
  BY DEF IssueAuthorization
<1>2. /\ documents'.authorizations = documents.authorizations \union {a}
      /\ documents'.requests = documents.requests /\ documents'.fences = documents.fences
      /\ documents'.drains = documents.drains /\ documents'.approvals = documents.approvals
      /\ UNCHANGED <<clock, leases, claimed, busy, rows, fences, seals, using, adoptions>>
  BY <1>1, SigningKeepsTheRest, DocumentKinds DEF Joined
<1>3. RecoveryTypes'
  BY <1>1 DEF RecoveryInv, RecoveryTypes, Signed
<1>4. UsesAreAuthorized'
  BY <1>2 DEF RecoveryInv, UsesAreAuthorized
<1>5. DrainsHold' /\ ApprovalsHold'
  BY <1>2 DEF RecoveryInv, DrainsHold, ApprovalsHold
<1>6. QED
  BY <1>2, <1>3, <1>4, <1>5 DEF RecoveryInv, SuccessorsAreClaimed, CallsAreBounded,
     FencesAreUp, SealsAreOfRequests, FencesAreAttested, AdoptionsAreJournaled

LEMMA UseKeeps ==
    RecoveryInv /\ (VerifyAuthorization \/ RollbackUse) => RecoveryInv'
<1> SUFFICES ASSUME RecoveryInv, VerifyAuthorization \/ RollbackUse PROVE RecoveryInv'
  OBVIOUS
<1>1. UNCHANGED <<clock, leases, claimed, busy, rows, fences, seals, documents, adoptions>>
  BY DEF VerifyAuthorization, RollbackUse
<1>2. using' \subseteq documents.authorizations
  BY DEF VerifyAuthorization, RollbackUse, RecoveryInv, UsesAreAuthorized
<1>3. UsesAreAuthorized'
  BY <1>1, <1>2 DEF RecoveryInv, UsesAreAuthorized
<1>4. QED
  BY <1>1, <1>3 DEF RecoveryInv, RecoveryTypes, SuccessorsAreClaimed, CallsAreBounded,
     FencesAreUp, SealsAreOfRequests, FencesAreAttested, DrainsHold, ApprovalsHold,
     AdoptionsAreJournaled

LEMMA ConsumeAuthorizationKeeps == RecoveryInv /\ ConsumeAuthorization => RecoveryInv'
<1> SUFFICES ASSUME RecoveryInv, ConsumeAuthorization PROVE RecoveryInv'
  OBVIOUS
<1>1. PICK a \in using :
        /\ using' = using \ {a} /\ JournalBinding(a)
        /\ adoptions' = adoptions \union {a}
        /\ leases' = [leases EXCEPT ![a.request.attempt + 1].publishing = clock]
  BY DEF ConsumeAuthorization
<1>2. UNCHANGED <<clock, claimed, busy, rows, fences, seals, documents>>
  BY DEF ConsumeAuthorization
<1>3. a \in documents.approvals /\ a \in documents.authorizations
  BY DEF RecoveryInv, UsesAreAuthorized
<1>4. a.request.attempt \in Attempts /\ a.request.attempt + 1 \in Attempts
  BY <1>3, SuccessorOfApproval
<1>5. leases[a.request.attempt + 1].publishing = Nil /\ clock \in Nat
  BY <1>1, <1>4 DEF JournalBinding, RecoveryInv, RecoveryTypes, Attempts
<1>6. RecoveryTypes'
  <2>1. leases \in [Attempts -> LeaseRows]
    BY LeasesAreTyped
  <2>2. leases' \in [Attempts -> LeaseRows]
    <3>0. leases[a.request.attempt + 1] \in LeaseRows
      BY <1>4, <2>1
    <3>1. [leases[a.request.attempt + 1] EXCEPT !.publishing = clock] \in LeaseRows
      BY <1>5, <3>0 DEF LeaseRows
    <3>2. leases' = [leases EXCEPT ![a.request.attempt + 1] =
                        [leases[a.request.attempt + 1] EXCEPT !.publishing = clock]]
      BY <1>1, <1>4, <2>1
    <3>3. QED
      BY <1>4, <2>1, <3>1, <3>2
  <2>3. QED
    BY <1>2, <2>2, LeasesAreTyped, TypesKeep
<1>7. \A f \in Attempts :
        /\ leases'[f].until = leases[f].until
        /\ leases[f].publishing # Nil => leases'[f].publishing # Nil
  BY <1>1, <1>4, <1>5 DEF RecoveryInv, RecoveryTypes
<1>8. leases'[a.request.attempt + 1].publishing # Nil
  BY <1>1, <1>4, <1>5 DEF RecoveryInv, RecoveryTypes
<1>9. \A b \in documents.approvals : b.request.attempt + 1 \in Attempts
  BY SuccessorOfApproval
<1>10. ApprovalsHold'
  BY <1>2, <1>7, <1>9 DEF RecoveryInv, ApprovalsHold
<1>11. UsesAreAuthorized'
  BY <1>1, <1>2, <1>3 DEF RecoveryInv, UsesAreAuthorized
<1>12. AdoptionsAreJournaled'
  BY <1>1, <1>2, <1>5, <1>7, <1>8, <1>9 DEF RecoveryInv, UsesAreAuthorized, AdoptionsAreJournaled
<1>13. QED
  BY <1>2, <1>6, <1>10, <1>11, <1>12 DEF RecoveryInv, SuccessorsAreClaimed, CallsAreBounded,
     FencesAreUp, SealsAreOfRequests, FencesAreAttested, DrainsHold

LEMMA RecoveryInvStep == RecoveryInv /\ [RecoveryNext]_recoveryVars => RecoveryInv'
<1> SUFFICES ASSUME RecoveryInv, [RecoveryNext]_recoveryVars PROVE RecoveryInv'
  OBVIOUS
<1>1. CASE ClockTicks \/ BeginPublication \/ \E w \in Publishers : ClaimLease(w)
  BY <1>1, TickKeeps, BeginPublicationKeeps, ClaimLeaseKeeps
<1>2. CASE \E f \in Attempts : BeginCall(f) \/ PrepareRow(f)
  BY <1>2, BeginCallKeeps, PrepareRowKeeps
<1>3. CASE \E row \in rows : IssueCredential(row) \/ SettleRow(row)
  BY <1>3, IssueCredentialKeeps, SettleRowKeeps
<1>4. CASE \E person \in People : RequestRecovery(person) \/ ApproveRecovery(person)
  BY <1>4, RequestRecoveryKeeps, ApproveRecoveryKeeps
<1>5. CASE FenceCompute \/ AttestFence \/ SealIssuance \/ AttestDrain
  BY <1>5, FenceComputeKeeps, AttestFenceKeeps, SealIssuanceKeeps, AttestDrainKeeps
<1>6. CASE IssueAuthorization \/ VerifyAuthorization \/ ConsumeAuthorization \/ RollbackUse
  BY <1>6, IssueAuthorizationKeeps, UseKeeps, ConsumeAuthorizationKeeps
<1>7. CASE UNCHANGED recoveryVars
  BY <1>7 DEF recoveryVars, RecoveryInv, RecoveryTypes, SuccessorsAreClaimed, CallsAreBounded,
     FencesAreUp, SealsAreOfRequests, FencesAreAttested, DrainsHold, ApprovalsHold,
     UsesAreAuthorized, AdoptionsAreJournaled
<1>8. QED
  BY <1>1, <1>2, <1>3, <1>4, <1>5, <1>6, <1>7 DEF RecoveryNext

\* The arithmetic of a drain: a call that began before the fence has ended when the
\* drain is checked.
LEMMA DrainOutlastsCalls ==
    ASSUME NEW call \in Nat, NEW from \in Nat, NEW effective \in Nat, NEW checked \in Nat,
           NEW at \in Nat, NEW inflight \in Nat, NEW skew \in Nat,
           call <= from + inflight, from <= effective + skew,
           effective + inflight + skew <= checked, checked <= at
    PROVE  call <= at
OBVIOUS

LEMMA RecoveryInvAlone == RecoveryInv => AdoptedAlone
<1> SUFFICES ASSUME RecoveryInv PROVE AdoptedAlone
  OBVIOUS
<1>1. ASSUME NEW a \in adoptions, clock < leases[a.request.attempt + 1].until
      PROVE  ~CanAct(a.request.attempt)
  <2> DEFINE f == a.request.attempt
  <2>1. a \in documents.approvals
    BY DEF RecoveryInv, UsesAreAuthorized
  <2>2. /\ a.drain \in documents.drains /\ a.fence \in documents.fences
        /\ a.fence = a.drain.fence /\ a.fence.request = a.request /\ a.drain.request = a.request
        /\ a.fence.until >= leases[f + 1].until /\ a.drain.until >= leases[f + 1].until
    BY <2>1 DEF RecoveryInv, ApprovalsHold, DrainsHold
  <2>3. /\ f \in Attempts /\ leases[f + 1].until \in Nat /\ clock \in Nat /\ busy[f] \in Nat
        /\ a.fence.until \in Nat /\ a.drain.until \in Nat /\ a.drain.checked \in Nat
        /\ a.fence.effective \in Nat
    BY <2>1, <2>2, SuccessorOfApproval
       DEF RecoveryInv, RecoveryTypes, FenceDocuments, DrainDocuments
  <2>4. PICK fence \in fences :
          /\ fence.request = a.request
          /\ a.fence.effective = fence.from - fence.late
          /\ a.fence.until = fence.until - fence.late
    BY <2>2 DEF RecoveryInv, FencesAreAttested
  <2>5. /\ fence.from \in Nat /\ fence.until \in Nat /\ fence.late \in 0 .. Skew
        /\ fence.attempt = f /\ fence.late <= fence.from
        /\ clock < fence.until => busy[f] <= fence.from + MaxInflight
    BY <2>4 DEF RecoveryInv, RecoveryTypes, FencesAreUp
  <2>a. clock < leases[f + 1].until /\ a.drain.request.attempt = f
    BY <1>1, <2>2
  <2> HIDE DEF f
  <2>b. fence.late \in Nat /\ fence.late <= Skew
    BY <2>5
  <2>c. a.fence.until <= fence.until /\ fence.from <= a.fence.effective + Skew
    <3>1. a.fence.until = fence.until - fence.late /\ a.fence.effective = fence.from - fence.late
      BY <2>4
    <3>2. fence.from \in Nat /\ fence.until \in Nat
      BY <2>5
    <3>3. QED
      BY <3>1, <3>2, <2>b
  <2>6. clock < fence.until /\ clock < a.drain.until
    <3>1. /\ leases[f + 1].until \in Nat /\ a.fence.until \in Nat /\ a.drain.until \in Nat
          /\ clock \in Nat /\ fence.until \in Nat
      BY <2>3, <2>5
    <3>2. a.fence.until >= leases[f + 1].until /\ a.drain.until >= leases[f + 1].until
      BY <2>2
    <3>3. QED
      BY <3>1, <3>2, <2>a, <2>c
  <2>7. ~Runs(f)
    BY <2>5, <2>6 DEF Runs, Isolated, InForce
  <2>8. /\ a.fence.effective + MaxInflight + Skew <= a.drain.checked /\ a.drain.checked <= clock
        /\ \A row \in rows : row.attempt = f => row.ends <= a.drain.checked
    BY <2>2, <2>a, <2>6 DEF RecoveryInv, DrainsHold
  <2>9. busy[f] <= clock
    <3>1. busy[f] <= fence.from + MaxInflight /\ fence.from \in Nat
      BY <2>5, <2>6
    <3>2. /\ busy[f] \in Nat /\ clock \in Nat /\ a.fence.effective \in Nat
          /\ a.drain.checked \in Nat
      BY <2>3
    <3>3. /\ fence.from <= a.fence.effective + Skew
          /\ a.fence.effective + MaxInflight + Skew <= a.drain.checked /\ a.drain.checked <= clock
      BY <2>c, <2>8
    <3>4. MaxInflight \in Nat /\ Skew \in Nat
      OBVIOUS
    <3>5. QED
      BY <3>1, <3>2, <3>3, <3>4, DrainOutlastsCalls
  <2>10. \A row \in rows : row.attempt = f => row.ends \in Nat /\ row.ends <= clock
    <3>1. \A row \in rows : row.ends \in Nat
      BY DEF RecoveryInv, RecoveryTypes, LifecycleRows
    <3>2. clock \in Nat /\ a.drain.checked \in Nat
      BY <2>3
    <3>3. QED
      BY <3>1, <3>2, <2>8
  <2>11. ~CanAct(f)
    BY <2>3, <2>7, <2>9, <2>10 DEF CanAct
  <2>12. QED
    BY <2>11 DEF f
<1>2. QED
  BY <1>1 DEF AdoptedAlone, RecoveryInv, AdoptionsAreJournaled

\* For as long as the successor holds its lease nothing of the attempt it adopted runs, is
\* under way or holds a credential, and no attempt is adopted twice: for any number of
\* leases, rows, documents and instants, any time limits and any skew of the fencing
\* controller's clock (verify_publishing_recovery_authorization, execution_recovery.py).
THEOREM AdopterIsAlone == RecoverySpec => []AdoptedAlone
BY RecoveryInvInit, RecoveryInvStep, RecoveryInvAlone, PTL DEF RecoverySpec
=============================================================================

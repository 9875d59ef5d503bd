--------------------------- MODULE FilesystemCustody ---------------------------
(***************************************************************************)
(* AtomicFilesystemCustodyStore (evidence/reference_adapters.py): several  *)
(* processes persist objects under one root.  An object is staged in a     *)
(* pending directory, every file and the directory are fsynced, the        *)
(* directory is renamed to the object's name without replacing one, and    *)
(* the object is read back and fsynced again, whoever wrote it.            *)
(*                                                                         *)
(* What fsync promises is the model of the file system: after a power loss *)
(* a file that was not fsynced is whole or torn, a directory entry that    *)
(* was not is there or not, and a name in the root likewise.               *)
(***************************************************************************)
EXTENDS Absent, Naturals, FiniteSets

CONSTANTS Objects, Payloads,
          Files,      \* the files of an object
          Persisters, \* the processes that persist
          MaxStages,  \* bound: pending directories ever made
          MaxLosses   \* bound: power losses

\* A directory: its name in the root as seen and as on disk, its files, and the entries
\* that are on disk.
Directories ==
    [object : Objects, payload : Payloads,
     name : {"pending", "object", "none"}, saved : {"pending", "object", "none"},
     files : [Files -> {"absent", "dirty", "clean", "torn"}], entries : SUBSET Files]

ASSUME FilesystemCustodyConstants ==
    MaxStages \in Nat /\ MaxLosses \in Nat /\ Nil \notin Directories

VARIABLES stages,     \* the directories ever made, in the order of their making
          persister,  \* what each process is doing
          told,       \* the references returned
          losses

custodyVars == <<stages, persister, told, losses>>

\* A new directory, of which nothing is on disk.
Stage(object, payload) ==
    [object |-> object, payload |-> payload, name |-> "pending", saved |-> "none",
     files |-> [f \in Files |-> "absent"], entries |-> {}]

NotPersisting == [step |-> "idle"]

CustodyInit ==
    /\ stages = [i \in 1..MaxStages |-> Nil]
    /\ persister = [w \in Persisters |-> NotPersisting]
    /\ told = {}
    /\ losses = 0

Made == {i \in 1..MaxStages : stages[i] # Nil}
Named(object) == {i \in Made : stages[i].object = object /\ stages[i].name = "object"}
Present(stage) == {f \in Files : stage.files[f] # "absent"}
Readable(stage) == \A f \in Files : stage.files[f] \in {"dirty", "clean"}

\* _verify_open_directory_contents: the files are the four expected, with their bytes.
Holds(stage, payload) == Readable(stage) /\ stage.payload = payload

Working(w, i, step) ==
    persister' = [persister EXCEPT ![w] = [@ EXCEPT !.step = step, !.stage = i]]
Advance(w, step) == persister' = [persister EXCEPT ![w].step = step]

-------------------------------------------------------------------------------
(* persist *)

\* The name is looked up once: an object that is there is only verified.
Persist(w, object, payload) ==
    LET existing == Named(object) IN
    /\ persister[w].step = "idle"
    /\ \/ /\ existing = {}
          /\ \E i \in 1..MaxStages :
                /\ stages[i] = Nil /\ \A j \in 1..(i - 1) : stages[j] # Nil
                /\ stages' = [stages EXCEPT ![i] = Stage(object, payload)]
                /\ persister' = [persister EXCEPT ![w] =
                      [step |-> "write", stage |-> i, object |-> object, payload |-> payload]]
       \/ \E i \in existing :
             /\ persister' = [persister EXCEPT ![w] =
                   [step |-> "verify", stage |-> i, object |-> object, payload |-> payload]]
             /\ UNCHANGED stages
    /\ UNCHANGED <<told, losses>>

\* _write_new_private_file: the file is written, then fsynced before the next.
WriteFile(w) ==
    LET i == persister[w].stage IN
    /\ persister[w].step = "write"
    /\ \A f \in Files : stages[i].files[f] # "dirty"
    /\ \E f \in Files \ Present(stages[i]) :
          stages' = [stages EXCEPT ![i].files[f] = "dirty"]
    /\ UNCHANGED <<persister, told, losses>>

SyncFile(w) ==
    LET i == persister[w].stage IN
    /\ persister[w].step = "write"
    /\ \E f \in Files :
          /\ stages[i].files[f] = "dirty"
          /\ stages' = [stages EXCEPT ![i].files[f] = "clean"]
    /\ UNCHANGED <<persister, told, losses>>

\* The directory is fsynced, and verified before it is published.
SyncStage(w) ==
    LET i == persister[w].stage IN
    /\ persister[w].step = "write"
    /\ \A f \in Files : stages[i].files[f] = "clean"
    /\ Holds(stages[i], persister[w].payload)
    /\ stages' = [stages EXCEPT ![i].entries = Files]
    /\ Advance(w, "publish")
    /\ UNCHANGED <<told, losses>>

SyncedRoot(all) ==
    [i \in 1..MaxStages |->
        IF all[i] = Nil THEN Nil ELSE [all[i] EXCEPT !.saved = all[i].name]]

\* renameat2 with RENAME_NOREPLACE; the name is not on disk before the root is fsynced.
Publish(w) ==
    LET i == persister[w].stage IN
    /\ persister[w].step = "publish"
    /\ Named(persister[w].object) = {}
    /\ stages' = [stages EXCEPT ![i].name = "object"]
    /\ Advance(w, "published")
    /\ UNCHANGED <<told, losses>>

SyncRoot(w) ==
    /\ persister[w].step = "published"
    /\ stages' = SyncedRoot(stages)
    /\ Advance(w, "verify")
    /\ UNCHANGED <<told, losses>>

\* Another process has published first: the stage is removed (_cleanup_pending_directory)
\* and the object that is there verified instead.
Yield(w) ==
    /\ persister[w].step = "publish"
    /\ \E other \in Named(persister[w].object) :
          /\ stages' = SyncedRoot([stages EXCEPT ![persister[w].stage].name = "none"])
          /\ Working(w, other, "verify")
    /\ UNCHANGED <<told, losses>>

\* Fault: an object that is there with the right bytes is taken to be on disk.
VerifiedIsDurable(all, i) == all

\* _verify_object with establish_durability: the files, the directory and the root are
\* fsynced whether or not this process wrote them.
MadeDurable(all, i) ==
    SyncedRoot([all EXCEPT ![i].files = [f \in Files |-> "clean"], ![i].entries = Files])

VerifyObject(w) ==
    LET i == persister[w].stage IN
    /\ persister[w].step = "verify"
    /\ stages[i].name = "object"
    /\ Holds(stages[i], persister[w].payload)
    /\ stages' = MadeDurable(stages, i)
    /\ Advance(w, "durable")
    /\ UNCHANGED <<told, losses>>

\* The reference is returned.  The admission service verifies it once more (verify).
Return(w) ==
    /\ persister[w].step = "durable"
    /\ told' = told \cup {<<persister[w].object, persister[w].payload>>}
    /\ Advance(w, "told")
    /\ UNCHANGED <<stages, losses>>

ConfirmObject(w) ==
    /\ persister[w].step = "told"
    /\ \E i \in Named(persister[w].object) : Holds(stages[i], persister[w].payload)
    /\ persister' = [persister EXCEPT ![w] = NotPersisting]
    /\ UNCHANGED <<stages, told, losses>>

\* A call fails; its stage is removed if it was not published and nothing else fails.
PersistFails(w) ==
    /\ persister[w].step \in {"write", "publish", "published", "verify", "durable"}
    /\ persister' = [persister EXCEPT ![w] = NotPersisting]
    /\ \/ UNCHANGED stages
       \/ /\ persister[w].step \in {"write", "publish"}
          /\ stages' = SyncedRoot([stages EXCEPT ![persister[w].stage].name = "none"])
    /\ UNCHANGED <<told, losses>>

\* A process dies and leaves its stage where it is: nothing removes it (list_pending).
PersisterDies(w) ==
    /\ persister[w].step # "idle"
    /\ persister' = [persister EXCEPT ![w] = NotPersisting]
    /\ UNCHANGED <<stages, told, losses>>

\* What is found of a directory after a power loss that takes some of the entries and
\* tears some of the files that are not on disk.
Found(stage, name, gone, torn) ==
    [stage EXCEPT
        !.name = name, !.saved = name, !.entries = Present(stage) \ gone,
        !.files = [f \in Files |-> IF f \in gone THEN "absent"
                                  ELSE IF f \in torn THEN "torn"
                                  ELSE IF @[f] = "dirty" THEN "clean" ELSE @[f]]]

Survivors(stage) ==
    {Found(stage, name, gone, torn) :
        name \in {stage.name, stage.saved},
        gone \in SUBSET (Present(stage) \ stage.entries),
        torn \in SUBSET {f \in Files : stage.files[f] = "dirty"}}

PowerLoss ==
    /\ losses < MaxLosses
    /\ \E after \in [Made -> UNION {Survivors(stages[i]) : i \in Made}] :
          /\ \A i \in Made : after[i] \in Survivors(stages[i])
          /\ stages' = [i \in 1..MaxStages |-> IF i \in Made THEN after[i] ELSE Nil]
    /\ persister' = [w \in Persisters |-> NotPersisting]
    /\ losses' = losses + 1
    /\ UNCHANGED told

CustodyNext ==
    \/ \E w \in Persisters :
          \/ \E object \in Objects, payload \in Payloads : Persist(w, object, payload)
          \/ WriteFile(w) \/ SyncFile(w) \/ SyncStage(w) \/ Publish(w) \/ SyncRoot(w)
          \/ Yield(w) \/ VerifyObject(w) \/ Return(w) \/ ConfirmObject(w)
          \/ PersistFails(w) \/ PersisterDies(w)
    \/ PowerLoss

CustodySpec == CustodyInit /\ [][CustodyNext]_custodyVars

-------------------------------------------------------------------------------
(* Properties. *)

\* What is there under an object's name; a torn directory is no payload.
HeldPayload(stage) == IF Readable(stage) THEN stage.payload ELSE "torn"

Promise == INSTANCE CustodyPromise
    WITH held <- {<<stages[i].object, HeldPayload(stages[i])>> :
                      i \in {j \in Made : stages[j].name = "object"}},
         told <- told

\* persist keeps the promise of a custody store, whoever else persists, fails or dies
\* and whatever a power loss takes: an object appears whole, is never replaced, and is
\* not lost once anyone has been given its reference, which is of the bytes it holds.
FilesystemKeepsPromise == Promise!Spec
===============================================================================

------------------------------- MODULE StateStore -------------------------------
(***************************************************************************)
(* The state store (src/state.go): the task states in memory behind a      *)
(* mutex, and the state file, rewritten by every update through a          *)
(* temporary file.  What the file system may do to them when the process   *)
(* or the machine dies closes the model.                                   *)
(*                                                                         *)
(* A state of the tasks is abstracted to the set of updates it reflects,   *)
(* so that a lost update, a torn file and a mixture of two saves can all   *)
(* be told apart.  The updates come from the goroutines in Callers: the    *)
(* scheduler's loop and the config watcher's callback.                     *)
(***************************************************************************)
EXTENDS Integers, FiniteSets

CONSTANTS
  Callers,      \* the goroutines that call UpdateTask
  Boot,         \* the one that calls Load before any of them runs
  Nobody,       \* "the mutex is free"
  InitFiles,    \* the state files the daemon may find at its first start
  MayLosePower, \* whether the machine may die, and not only the process
  MaxUpdates    \* bound: how many updates are made

ASSUME CallersAssumption == Callers # {} /\ Boot \notin Callers
ASSUME NobodyAssumption == Nobody \notin Callers \cup {Boot}
ASSUME MaxUpdatesAssumption == MaxUpdates \in Nat

Goroutines == Callers \cup {Boot}
Updates == 1..MaxUpdates

(* What a path may name: nothing, a file someone else damaged, a file just *)
(* created, one written in part, or a whole state; and whether the bytes   *)
(* would survive the loss of power.                                        *)
Contents == [kind : {"absent", "damaged", "empty", "torn", "whole"},
             saved : SUBSET Updates, synced : BOOLEAN]
Absent  == [kind |-> "absent",  saved |-> {}, synced |-> TRUE]
Damaged == [kind |-> "damaged", saved |-> {}, synced |-> TRUE]
Empty   == [kind |-> "empty",   saved |-> {}, synced |-> TRUE]
Torn    == [kind |-> "torn",    saved |-> {}, synced |-> TRUE]
Whole(state, synced) == [kind |-> "whole", saved |-> state, synced |-> synced]

ASSUME InitFilesAssumption == InitFiles \subseteq {Absent, Damaged, Whole({}, TRUE)}

VARIABLES
  phase,   \* the process: "down", "loading" or "up"
  mem,     \* the state in memory: the updates it reflects
  lock,    \* who holds the mutex
  step,    \* where each goroutine is
  data,    \* the state each goroutine marshalled
  fresh,   \* the next update's number
  file,    \* what the state path names
  tmp,     \* what the path of the temporary file names
  older,   \* what the state path named before the directory last hit the disk
  acked    \* history: the updates whose save was reported as done

disks == <<file, tmp, older>>
vars == <<phase, mem, lock, step, data, fresh, disks, acked>>

-----------------------------------------------------------------------------
Init == /\ phase = "down"
        /\ mem = {}
        /\ lock = Nobody
        /\ step = [g \in Goroutines |-> "idle"]
        /\ data = [g \in Goroutines |-> {}]
        /\ fresh = 1
        /\ file \in InitFiles
        /\ tmp = Absent
        /\ older = {}
        /\ acked = {}

(* saveAtomic begins: the whole state is marshalled, with the mutex held.  *)
BeginSave(g, state) == /\ step' = [step EXCEPT ![g] = "create"]
                       /\ data' = [data EXCEPT ![g] = state]
                       /\ lock' = g

(* Load: a missing file is created at once, a damaged one is copied aside  *)
(* and left there; either way the state starts empty.                      *)
LoadMissing == /\ phase = "down"
               /\ file.kind = "absent"
               /\ phase' = "loading"
               /\ mem' = {}
               /\ BeginSave(Boot, {})
               /\ UNCHANGED <<fresh, disks, acked>>

LoadCorrupt == /\ phase = "down"
               /\ file.kind \in {"damaged", "empty", "torn"}
               /\ phase' = "up"
               /\ mem' = {}
               /\ UNCHANGED <<lock, step, data, fresh, disks, acked>>

LoadWhole == /\ phase = "down"
             /\ file.kind = "whole"
             /\ phase' = "up"
             /\ mem' = file.saved
             /\ UNCHANGED <<lock, step, data, fresh, disks, acked>>

-----------------------------------------------------------------------------
(* UpdateTask: wait for the mutex, change the memory, save.                *)
Waiting == {c \in Callers : step[c] = "waiting"}

Call(c) == /\ phase = "up"
           /\ step[c] = "idle"
           /\ fresh + Cardinality(Waiting) <= MaxUpdates
           /\ step' = [step EXCEPT ![c] = "waiting"]
           /\ UNCHANGED <<phase, mem, lock, data, fresh, disks, acked>>

(* Slip: the mutex is taken only to change the memory, not for the save.   *)
MutateUnlocked(c) == /\ step[c] = "waiting"
                     /\ mem' = mem \cup {fresh}
                     /\ fresh' = fresh + 1
                     /\ BeginSave(c, mem \cup {fresh})
                     /\ UNCHANGED <<phase, disks, acked>>

Mutate(c) == /\ step[c] = "waiting"
             /\ lock = Nobody
             /\ mem' = mem \cup {fresh}
             /\ fresh' = fresh + 1
             /\ BeginSave(c, mem \cup {fresh})
             /\ UNCHANGED <<phase, disks, acked>>

(* saveAtomic: one temporary file, always of the same name.                *)
Goes(g, from, to) == /\ step[g] = from
                     /\ step' = [step EXCEPT ![g] = to]

(* Slip: the state file itself is truncated and rewritten.                 *)
CreateInPlace(g) == /\ Goes(g, "create", "write")
                    /\ file' = Empty
                    /\ tmp' = Empty
                    /\ UNCHANGED <<phase, mem, lock, data, fresh, older, acked>>

CreateTmp(g) == /\ Goes(g, "create", "write")
                /\ tmp' = Empty
                /\ UNCHANGED <<phase, mem, lock, data, fresh, file, older, acked>>

WriteTmp(g) == /\ Goes(g, "write", "sync")
               /\ tmp' = Whole(data[g], FALSE)
               /\ UNCHANGED <<phase, mem, lock, data, fresh, file, older, acked>>

(* Slip: no fsync.                                                         *)
SyncNothing(g) == /\ Goes(g, "sync", "rename")
                  /\ UNCHANGED <<phase, mem, lock, data, fresh, disks, acked>>

SyncTmp(g) == /\ Goes(g, "sync", "rename")
              /\ tmp' = [tmp EXCEPT !.synced = TRUE]
              /\ UNCHANGED <<phase, mem, lock, data, fresh, file, older, acked>>

(* Close and rename, and return.  Nobody flushes the directory.            *)
RenameTmp(g) == /\ Goes(g, "rename", "idle")
                /\ file' = tmp
                /\ tmp' = Absent
                /\ older' = older \cup {file}
                /\ acked' = acked \cup data[g]
                /\ lock' = Nobody
                /\ phase' = "up"
                /\ UNCHANGED <<mem, data, fresh>>

(* Slip: an error is swallowed and the update reported as done.            *)
FailUnreported(g) == /\ step[g] \in {"create", "write", "sync", "rename"}
                     /\ step' = [step EXCEPT ![g] = "idle"]
                     /\ tmp' = IF step[g] = "create" THEN tmp ELSE Absent
                     /\ lock' = Nobody
                     /\ phase' = IF g = Boot THEN "down" ELSE phase
                     /\ acked' = acked \cup data[g]
                     /\ UNCHANGED <<mem, data, fresh, file, older>>

(* Any call fails: the temporary file is removed, if it was created, and   *)
(* the error returned.  Callers of UpdateTask go on with a memory that is  *)
(* ahead of the file; a daemon whose first save fails exits.               *)
Fail(g) == /\ step[g] \in {"create", "write", "sync", "rename"}
           /\ step' = [step EXCEPT ![g] = "idle"]
           /\ tmp' = IF step[g] = "create" THEN tmp ELSE Absent
           /\ lock' = Nobody
           /\ phase' = IF g = Boot THEN "down" ELSE phase
           /\ UNCHANGED <<mem, data, fresh, file, older, acked>>

-----------------------------------------------------------------------------
(* The process dies; both files stay as they are.                          *)
Dies == /\ phase' = "down"
        /\ mem' = {}
        /\ lock' = Nobody
        /\ step' = [g \in Goroutines |-> "idle"]
        /\ data' = [g \in Goroutines |-> {}]
        /\ UNCHANGED fresh

Crash == Dies /\ phase # "down" /\ UNCHANGED <<disks, acked>>

(* The machine dies: the path may name an earlier file again, and bytes    *)
(* that were not synced may be missing.                                    *)
AfterPowerLoss(c) == IF c.synced THEN {c} ELSE {Empty, Torn, [c EXCEPT !.synced = TRUE]}

PowerLoss == /\ MayLosePower
             /\ Dies
             /\ \E c \in older \cup {file} : file' \in AfterPowerLoss(c)
             /\ tmp' \in {Absent, Torn}
             /\ older' = {}
             /\ acked' = acked \cap file'.saved

(* The kernel writes the directory back in its own time.                   *)
WriteBack == /\ older # {}
             /\ older' = {}
             /\ UNCHANGED <<phase, mem, lock, step, data, fresh, file, tmp, acked>>

Save(g) == CreateTmp(g) \/ WriteTmp(g) \/ SyncTmp(g) \/ RenameTmp(g) \/ Fail(g)

Next == \/ LoadMissing \/ LoadCorrupt \/ LoadWhole
        \/ \E c \in Callers : Call(c) \/ Mutate(c)
        \/ \E g \in Goroutines : Save(g)
        \/ Crash \/ PowerLoss \/ WriteBack

Spec == Init /\ [][Next]_vars

-----------------------------------------------------------------------------
(* Types, and the mutex: only its holder is inside UpdateTask or Load.     *)
Steps == {"idle", "waiting", "create", "write", "sync", "rename"}
TypeOK == /\ phase \in {"down", "loading", "up"}
          /\ mem \subseteq Updates
          /\ lock \in Goroutines \cup {Nobody}
          /\ step \in [Goroutines -> Steps]
          /\ \A g \in Goroutines : step[g] \notin {"idle", "waiting"} => lock = g
          /\ data \in [Goroutines -> SUBSET Updates]
          /\ fresh \in 1..(MaxUpdates + 1)
          /\ file \in Contents /\ tmp \in Contents
          /\ older \subseteq Contents
          /\ acked \subseteq Updates

(* The daemon never leaves a truncated or partial state file behind,       *)
(* whenever the process or the machine dies: what Load finds is whole,     *)
(* unless someone else damaged it.                                         *)
NeverTorn == \A c \in older \cup {file} : c.kind \in {"absent", "damaged", "whole"}

(* An update whose save was reported as done is in the state file and in   *)
(* the memory of every later incarnation of the daemon, until a power loss *)
(* takes it back, even if saves before or after it fail.                   *)
AckedSurvive == /\ acked \subseteq file.saved
                /\ phase = "up" => acked \subseteq mem

-----------------------------------------------------------------------------
Store == INSTANCE AtomicStore
           WITH serving <- phase # "down",
                disk    <- file.saved,
                past    <- {c.saved : c \in older}

(* The files implement a store that persists whole states, one at a time.  *)
ImplementsAtomicStore == Store!ASpec
=================================================================================

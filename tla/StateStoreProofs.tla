---------------------------- MODULE StateStoreProofs ----------------------------
(***************************************************************************)
(* Theorems about the state store, however many goroutines update it, how- *)
(* ever many updates they make and wherever the process or the machine     *)
(* dies.                                                                   *)
(***************************************************************************)
EXTENDS StateStore, FiniteSetTheorems, TLAPS

-----------------------------------------------------------------------------
(* The inductive invariant.                                                *)

Saving(g) == step[g] \notin {"idle", "waiting"}

(* The mutex is held by a goroutine that saves, and what that goroutine    *)
(* marshalled is still what the memory holds.                              *)
Locked == /\ lock # Nobody => Saving(lock)
          /\ \A g \in Goroutines : Saving(g) => data[g] = mem

(* Load runs before any UpdateTask, on an empty memory.                    *)
Loaded == /\ phase = "loading" <=> lock = Boot
          /\ step[Boot] # "waiting"
          /\ phase = "down" => lock = Nobody
          /\ phase # "up" => Waiting = {} /\ mem = {}

(* What the save in progress has put into the temporary file.              *)
Prepared ==
  \A g \in Goroutines :
    step[g] \in {"sync", "rename"} =>
      tmp.kind = "whole" /\ tmp.saved = data[g] /\ (step[g] = "rename" => tmp.synced)

(* Everything the state path names, or may name after a loss of power, is  *)
(* safe on the disk, and whole if it has anything in it to lose.           *)
Settled(c) == /\ c.synced
              /\ c.kind \in {"absent", "damaged", "whole"}
              /\ c.kind # "whole" => c.saved = {}
Persisted == \A c \in older \cup {file} : Settled(c)

(* The memory is never behind the file, nor the file behind the promises.  *)
Covered == /\ acked \subseteq file.saved
           /\ phase # "down" => file.saved \subseteq mem

(* The next update's number is new to the memory and to every file.        *)
Unused == /\ \A u \in mem : u < fresh
          /\ \A c \in older \cup {file} : \A u \in c.saved : u < fresh

(* Every waiting update has a number left.                                 *)
Counted == /\ IsFiniteSet(Waiting)
           /\ fresh + Cardinality(Waiting) <= MaxUpdates + 1

IInv == TypeOK /\ Locked /\ Loaded /\ Prepared /\ Persisted /\ Covered /\ Unused /\ Counted

-----------------------------------------------------------------------------
(* A goroutine that waits has a number to take.                            *)
LEMMA NumberLeft ==
  ASSUME TypeOK, Counted, NEW c \in Callers, step[c] = "waiting"
  PROVE  fresh \in Updates
<1>1. c \in Waiting
  BY DEF Waiting
<1>2. Cardinality(Waiting) \in Nat /\ Cardinality(Waiting) # 0
  BY <1>1, FS_CardinalityType, FS_EmptySet DEF Counted
<1> QED
  BY <1>2, MaxUpdatesAssumption DEF Counted, TypeOK, Updates

(* What the files may hold.                                                *)
LEMMA ContentsHold ==
  /\ {} \in SUBSET Updates
  /\ {Absent, Damaged, Empty, Torn} \subseteq Contents
  /\ \A s \in SUBSET Updates, b \in BOOLEAN : Whole(s, b) \in Contents
<1>1. {} \in SUBSET Updates
  OBVIOUS
<1> QED
  BY <1>1 DEF Contents, Absent, Damaged, Empty, Torn, Whole

(* The types.                                                              *)
LEMMA TypeStep ==
  ASSUME TypeOK, Loaded, Counted, [Next]_vars
  PROVE  TypeOK'
<1> USE ContentsHold,
    CallersAssumption, NobodyAssumption, MaxUpdatesAssumption
    DEF TypeOK, Goroutines, Steps, disks
<1>1. CASE LoadMissing
  <2>1. data' = [data EXCEPT ![Boot] = {}] /\ step' = [step EXCEPT ![Boot] = "create"]
    BY <1>1 DEF LoadMissing, BeginSave
  <2>2. mem' \subseteq Updates /\ data' \in [Goroutines -> SUBSET Updates]
    BY <1>1, <2>1 DEF LoadMissing
  <2> QED
    BY <1>1, <2>1, <2>2 DEF LoadMissing, BeginSave, Loaded
<1>2. CASE LoadCorrupt
  BY <1>2 DEF LoadCorrupt
<1>3. CASE LoadWhole
  BY <1>3 DEF LoadWhole, Contents
<1>4. ASSUME NEW c \in Callers, Call(c) PROVE TypeOK'
  BY <1>4 DEF Call
<1>5. ASSUME NEW c \in Callers, Mutate(c) PROVE TypeOK'
  BY <1>5, NumberLeft DEF Mutate, BeginSave, Updates
<1>6. ASSUME NEW g \in Goroutines, CreateTmp(g) PROVE TypeOK'
  BY <1>6 DEF CreateTmp, Goes
<1>7. ASSUME NEW g \in Goroutines, WriteTmp(g) PROVE TypeOK'
  BY <1>7 DEF WriteTmp, Goes
<1>8. ASSUME NEW g \in Goroutines, SyncTmp(g) PROVE TypeOK'
  <2>1. [tmp EXCEPT !.synced = TRUE] \in Contents
    BY DEF Contents
  <2> QED
    BY <1>8, <2>1 DEF SyncTmp, Goes
<1>9. ASSUME NEW g \in Goroutines, RenameTmp(g) PROVE TypeOK'
  BY <1>9 DEF RenameTmp, Goes
<1>10. ASSUME NEW g \in Goroutines, Fail(g) PROVE TypeOK'
  BY <1>10 DEF Fail
<1>11. CASE Crash
  BY <1>11 DEF Crash, Dies
<1>12. CASE PowerLoss
  <2>1. file' \in Contents
    <3>1. PICK c \in older \cup {file} : file' \in AfterPowerLoss(c)
      BY <1>12 DEF PowerLoss
    <3>2. c \in Contents /\ [c EXCEPT !.synced = TRUE] \in Contents
      BY DEF Contents
    <3> QED
      BY <3>1, <3>2 DEF AfterPowerLoss
  <2>2. acked' \subseteq Updates /\ older' \subseteq Contents /\ tmp' \in Contents
    BY <1>12 DEF PowerLoss
  <2> QED
    BY <1>12, <2>1, <2>2 DEF PowerLoss, Dies
<1>13. CASE WriteBack
  BY <1>13 DEF WriteBack
<1>14. CASE UNCHANGED vars
  BY <1>14 DEF vars, disks
<1> QED
  BY <1>1, <1>2, <1>3, <1>4, <1>5, <1>6, <1>7,
     <1>8, <1>9, <1>10, <1>11, <1>12, <1>13, <1>14 DEF Next, Save

(* The mutex.                                                              *)
LEMMA LockedStep ==
  ASSUME TypeOK, Loaded, Locked, [Next]_vars
  PROVE  Locked'
<1> USE CallersAssumption, NobodyAssumption, MaxUpdatesAssumption
    DEF TypeOK, Goroutines, Steps, disks,
    Locked, Loaded, Saving
<1>1. CASE LoadMissing
  BY <1>1 DEF LoadMissing, BeginSave
<1>2. CASE LoadCorrupt
  BY <1>2 DEF LoadCorrupt
<1>3. CASE LoadWhole
  BY <1>3 DEF LoadWhole
<1>4. ASSUME NEW c \in Callers, Call(c) PROVE Locked'
  BY <1>4 DEF Call
<1>5. ASSUME NEW c \in Callers, Mutate(c) PROVE Locked'
  BY <1>5 DEF Mutate, BeginSave
<1>6. ASSUME NEW g \in Goroutines, CreateTmp(g) PROVE Locked'
  BY <1>6 DEF CreateTmp, Goes
<1>7. ASSUME NEW g \in Goroutines, WriteTmp(g) PROVE Locked'
  BY <1>7 DEF WriteTmp, Goes
<1>8. ASSUME NEW g \in Goroutines, SyncTmp(g) PROVE Locked'
  BY <1>8 DEF SyncTmp, Goes
<1>9. ASSUME NEW g \in Goroutines, RenameTmp(g) PROVE Locked'
  BY <1>9 DEF RenameTmp, Goes
<1>10. ASSUME NEW g \in Goroutines, Fail(g) PROVE Locked'
  BY <1>10 DEF Fail
<1>11. CASE Crash
  BY <1>11 DEF Crash, Dies
<1>12. CASE PowerLoss
  BY <1>12 DEF PowerLoss, Dies, AfterPowerLoss
<1>13. CASE WriteBack
  BY <1>13 DEF WriteBack
<1>14. CASE UNCHANGED vars
  BY <1>14 DEF vars, disks
<1> QED
  BY <1>1, <1>2, <1>3, <1>4, <1>5, <1>6, <1>7,
     <1>8, <1>9, <1>10, <1>11, <1>12, <1>13, <1>14 DEF Next, Save

(* Load before the updates.                                                *)
LEMMA LoadedStep ==
  ASSUME TypeOK, Loaded, Locked, [Next]_vars
  PROVE  Loaded'
<1> USE CallersAssumption, NobodyAssumption, MaxUpdatesAssumption
    DEF TypeOK, Goroutines, Steps, disks,
    Locked, Loaded, Saving, Waiting
<1>1. CASE LoadMissing
  BY <1>1 DEF LoadMissing, BeginSave
<1>2. CASE LoadCorrupt
  BY <1>2 DEF LoadCorrupt
<1>3. CASE LoadWhole
  BY <1>3 DEF LoadWhole
<1>4. ASSUME NEW c \in Callers, Call(c) PROVE Loaded'
  BY <1>4 DEF Call
<1>5. ASSUME NEW c \in Callers, Mutate(c) PROVE Loaded'
  BY <1>5 DEF Mutate, BeginSave
<1>6. ASSUME NEW g \in Goroutines, CreateTmp(g) PROVE Loaded'
  BY <1>6 DEF CreateTmp, Goes
<1>7. ASSUME NEW g \in Goroutines, WriteTmp(g) PROVE Loaded'
  BY <1>7 DEF WriteTmp, Goes
<1>8. ASSUME NEW g \in Goroutines, SyncTmp(g) PROVE Loaded'
  BY <1>8 DEF SyncTmp, Goes
<1>9. ASSUME NEW g \in Goroutines, RenameTmp(g) PROVE Loaded'
  BY <1>9 DEF RenameTmp, Goes
<1>10. ASSUME NEW g \in Goroutines, Fail(g) PROVE Loaded'
  BY <1>10 DEF Fail
<1>11. CASE Crash
  BY <1>11 DEF Crash, Dies
<1>12. CASE PowerLoss
  BY <1>12 DEF PowerLoss, Dies, AfterPowerLoss
<1>13. CASE WriteBack
  BY <1>13 DEF WriteBack
<1>14. CASE UNCHANGED vars
  BY <1>14 DEF vars, disks
<1> QED
  BY <1>1, <1>2, <1>3, <1>4, <1>5, <1>6, <1>7,
     <1>8, <1>9, <1>10, <1>11, <1>12, <1>13, <1>14 DEF Next, Save

(* The temporary file.                                                     *)
LEMMA PreparedStep ==
  ASSUME TypeOK, Locked, Prepared, [Next]_vars
  PROVE  Prepared'
<1> USE CallersAssumption, NobodyAssumption, MaxUpdatesAssumption
    DEF TypeOK, Goroutines, Steps, disks,
    Locked, Saving, Prepared, Whole
<1>1. CASE LoadMissing
  BY <1>1 DEF LoadMissing, BeginSave
<1>2. CASE LoadCorrupt
  BY <1>2 DEF LoadCorrupt
<1>3. CASE LoadWhole
  BY <1>3 DEF LoadWhole
<1>4. ASSUME NEW c \in Callers, Call(c) PROVE Prepared'
  BY <1>4 DEF Call
<1>5. ASSUME NEW c \in Callers, Mutate(c) PROVE Prepared'
  BY <1>5 DEF Mutate, BeginSave
<1>6. ASSUME NEW g \in Goroutines, CreateTmp(g) PROVE Prepared'
  BY <1>6 DEF CreateTmp, Goes
<1>7. ASSUME NEW g \in Goroutines, WriteTmp(g) PROVE Prepared'
  BY <1>7 DEF WriteTmp, Goes
<1>8. ASSUME NEW g \in Goroutines, SyncTmp(g) PROVE Prepared'
  <2>1. tmp' \in Contents /\ tmp'.kind = tmp.kind /\ tmp'.saved = tmp.saved /\ tmp'.synced
    BY <1>8 DEF SyncTmp, Goes, Contents
  <2>2. \A h \in Goroutines : step'[h] \in {"sync", "rename"} => h = g
    BY <1>8 DEF SyncTmp, Goes
  <2> QED
    BY <1>8, <2>1, <2>2 DEF SyncTmp, Goes
<1>9. ASSUME NEW g \in Goroutines, RenameTmp(g) PROVE Prepared'
  BY <1>9 DEF RenameTmp, Goes
<1>10. ASSUME NEW g \in Goroutines, Fail(g) PROVE Prepared'
  BY <1>10 DEF Fail
<1>11. CASE Crash
  BY <1>11 DEF Crash, Dies
<1>12. CASE PowerLoss
  BY <1>12 DEF PowerLoss, Dies, AfterPowerLoss
<1>13. CASE WriteBack
  BY <1>13 DEF WriteBack
<1>14. CASE UNCHANGED vars
  BY <1>14 DEF vars, disks
<1> QED
  BY <1>1, <1>2, <1>3, <1>4, <1>5, <1>6, <1>7,
     <1>8, <1>9, <1>10, <1>11, <1>12, <1>13, <1>14 DEF Next, Save

(* The state path.                                                         *)
LEMMA PersistedStep ==
  ASSUME TypeOK, Prepared, Persisted, [Next]_vars
  PROVE  Persisted'
<1> USE CallersAssumption, NobodyAssumption, MaxUpdatesAssumption
    DEF TypeOK, Goroutines, Steps, disks,
    Prepared, Persisted, Settled
<1>1. CASE LoadMissing
  BY <1>1 DEF LoadMissing, BeginSave
<1>2. CASE LoadCorrupt
  BY <1>2 DEF LoadCorrupt
<1>3. CASE LoadWhole
  BY <1>3 DEF LoadWhole
<1>4. ASSUME NEW c \in Callers, Call(c) PROVE Persisted'
  BY <1>4 DEF Call
<1>5. ASSUME NEW c \in Callers, Mutate(c) PROVE Persisted'
  BY <1>5 DEF Mutate, BeginSave
<1>6. ASSUME NEW g \in Goroutines, CreateTmp(g) PROVE Persisted'
  BY <1>6 DEF CreateTmp, Goes
<1>7. ASSUME NEW g \in Goroutines, WriteTmp(g) PROVE Persisted'
  BY <1>7 DEF WriteTmp, Goes
<1>8. ASSUME NEW g \in Goroutines, SyncTmp(g) PROVE Persisted'
  BY <1>8 DEF SyncTmp, Goes
<1>9. ASSUME NEW g \in Goroutines, RenameTmp(g) PROVE Persisted'
  BY <1>9 DEF RenameTmp, Goes
<1>10. ASSUME NEW g \in Goroutines, Fail(g) PROVE Persisted'
  BY <1>10 DEF Fail
<1>11. CASE Crash
  BY <1>11 DEF Crash, Dies
<1>12. CASE PowerLoss
  BY <1>12 DEF PowerLoss, Dies, AfterPowerLoss
<1>13. CASE WriteBack
  BY <1>13 DEF WriteBack
<1>14. CASE UNCHANGED vars
  BY <1>14 DEF vars, disks
<1> QED
  BY <1>1, <1>2, <1>3, <1>4, <1>5, <1>6, <1>7,
     <1>8, <1>9, <1>10, <1>11, <1>12, <1>13, <1>14 DEF Next, Save

(* The memory ahead of the file.                                           *)
LEMMA CoveredStep ==
  ASSUME TypeOK, Locked, Loaded, Prepared, Persisted, Covered, [Next]_vars
  PROVE  Covered'
<1> USE CallersAssumption, NobodyAssumption, MaxUpdatesAssumption
    DEF TypeOK, Goroutines, Steps, disks,
    Locked, Loaded, Saving, Prepared, Persisted, Settled, Covered
<1>1. CASE LoadMissing
  BY <1>1 DEF LoadMissing, BeginSave
<1>2. CASE LoadCorrupt
  BY <1>2 DEF LoadCorrupt
<1>3. CASE LoadWhole
  BY <1>3 DEF LoadWhole
<1>4. ASSUME NEW c \in Callers, Call(c) PROVE Covered'
  BY <1>4 DEF Call
<1>5. ASSUME NEW c \in Callers, Mutate(c) PROVE Covered'
  BY <1>5 DEF Mutate, BeginSave
<1>6. ASSUME NEW g \in Goroutines, CreateTmp(g) PROVE Covered'
  BY <1>6 DEF CreateTmp, Goes
<1>7. ASSUME NEW g \in Goroutines, WriteTmp(g) PROVE Covered'
  BY <1>7 DEF WriteTmp, Goes
<1>8. ASSUME NEW g \in Goroutines, SyncTmp(g) PROVE Covered'
  BY <1>8 DEF SyncTmp, Goes
<1>9. ASSUME NEW g \in Goroutines, RenameTmp(g) PROVE Covered'
  BY <1>9 DEF RenameTmp, Goes
<1>10. ASSUME NEW g \in Goroutines, Fail(g) PROVE Covered'
  BY <1>10 DEF Fail
<1>11. CASE Crash
  BY <1>11 DEF Crash, Dies
<1>12. CASE PowerLoss
  BY <1>12 DEF PowerLoss, Dies, AfterPowerLoss
<1>13. CASE WriteBack
  BY <1>13 DEF WriteBack
<1>14. CASE UNCHANGED vars
  BY <1>14 DEF vars, disks
<1> QED
  BY <1>1, <1>2, <1>3, <1>4, <1>5, <1>6, <1>7,
     <1>8, <1>9, <1>10, <1>11, <1>12, <1>13, <1>14 DEF Next, Save

(* The next number.                                                        *)
LEMMA UnusedStep ==
  ASSUME TypeOK, Locked, Prepared, Persisted, Unused, [Next]_vars
  PROVE  Unused'
<1> USE CallersAssumption, NobodyAssumption, MaxUpdatesAssumption
    DEF TypeOK, Goroutines, Steps, disks,
    Locked, Saving, Prepared, Persisted, Settled, Unused
<1>1. CASE LoadMissing
  BY <1>1 DEF LoadMissing, BeginSave
<1>2. CASE LoadCorrupt
  BY <1>2 DEF LoadCorrupt
<1>3. CASE LoadWhole
  BY <1>3 DEF LoadWhole
<1>4. ASSUME NEW c \in Callers, Call(c) PROVE Unused'
  BY <1>4 DEF Call
<1>5. ASSUME NEW c \in Callers, Mutate(c) PROVE Unused'
  <2>1. \A u \in Updates : u < fresh => u < fresh + 1
    BY DEF Updates
  <2>2. mem \subseteq Updates /\ \A c2 \in older \cup {file} : c2.saved \subseteq Updates
    BY DEF Contents
  <2>3. fresh < fresh + 1
    OBVIOUS
  <2> QED
    BY <1>5, <2>1, <2>2, <2>3 DEF Mutate
<1>6. ASSUME NEW g \in Goroutines, CreateTmp(g) PROVE Unused'
  BY <1>6 DEF CreateTmp, Goes
<1>7. ASSUME NEW g \in Goroutines, WriteTmp(g) PROVE Unused'
  BY <1>7 DEF WriteTmp, Goes
<1>8. ASSUME NEW g \in Goroutines, SyncTmp(g) PROVE Unused'
  BY <1>8 DEF SyncTmp, Goes
<1>9. ASSUME NEW g \in Goroutines, RenameTmp(g) PROVE Unused'
  BY <1>9 DEF RenameTmp, Goes
<1>10. ASSUME NEW g \in Goroutines, Fail(g) PROVE Unused'
  BY <1>10 DEF Fail
<1>11. CASE Crash
  BY <1>11 DEF Crash, Dies
<1>12. CASE PowerLoss
  BY <1>12 DEF PowerLoss, Dies, AfterPowerLoss
<1>13. CASE WriteBack
  BY <1>13 DEF WriteBack
<1>14. CASE UNCHANGED vars
  BY <1>14 DEF vars, disks
<1> QED
  BY <1>1, <1>2, <1>3, <1>4, <1>5, <1>6, <1>7,
     <1>8, <1>9, <1>10, <1>11, <1>12, <1>13, <1>14 DEF Next, Save

(* The numbers left.                                                       *)
LEMMA CountedStep ==
  ASSUME TypeOK, Loaded, Counted, [Next]_vars
  PROVE  Counted'
<1> USE CallersAssumption, NobodyAssumption, MaxUpdatesAssumption
    DEF TypeOK, Goroutines, Steps, disks, Counted
<1>1. CASE LoadMissing
  <2>1. Waiting' = Waiting /\ fresh' = fresh
    BY <1>1 DEF LoadMissing, BeginSave, Waiting
  <2> QED
    BY <2>1
<1>2. CASE LoadCorrupt
  <2>1. Waiting' = Waiting /\ fresh' = fresh
    BY <1>2 DEF LoadCorrupt, Waiting
  <2> QED
    BY <2>1
<1>3. CASE LoadWhole
  <2>1. Waiting' = Waiting /\ fresh' = fresh
    BY <1>3 DEF LoadWhole, Waiting
  <2> QED
    BY <2>1
<1>4. ASSUME NEW c \in Callers, Call(c) PROVE Counted'
  <2>1. Waiting' = Waiting \cup {c} /\ c \notin Waiting
    BY <1>4 DEF Call, Waiting
  <2>2. IsFiniteSet(Waiting') /\ Cardinality(Waiting') = Cardinality(Waiting) + 1
    BY <2>1, FS_AddElement
  <2>3. fresh + Cardinality(Waiting) <= MaxUpdates /\ fresh' = fresh
    BY <1>4 DEF Call
  <2> QED
    BY <2>2, <2>3, FS_CardinalityType
<1>5. ASSUME NEW c \in Callers, Mutate(c) PROVE Counted'
  <2>1. Waiting' = Waiting \ {c} /\ c \in Waiting
    BY <1>5 DEF Mutate, BeginSave, Waiting
  <2>2. IsFiniteSet(Waiting') /\ Cardinality(Waiting') = Cardinality(Waiting) - 1
    BY <2>1, FS_RemoveElement
  <2>3. fresh' = fresh + 1
    BY <1>5 DEF Mutate
  <2> QED
    BY <2>2, <2>3, FS_CardinalityType
<1>6. ASSUME NEW g \in Goroutines, CreateTmp(g) PROVE Counted'
  <2>1. Waiting' = Waiting /\ fresh' = fresh
    BY <1>6 DEF CreateTmp, Goes, Waiting
  <2> QED
    BY <2>1
<1>7. ASSUME NEW g \in Goroutines, WriteTmp(g) PROVE Counted'
  <2>1. Waiting' = Waiting /\ fresh' = fresh
    BY <1>7 DEF WriteTmp, Goes, Waiting
  <2> QED
    BY <2>1
<1>8. ASSUME NEW g \in Goroutines, SyncTmp(g) PROVE Counted'
  <2>1. Waiting' = Waiting /\ fresh' = fresh
    BY <1>8 DEF SyncTmp, Goes, Waiting
  <2> QED
    BY <2>1
<1>9. ASSUME NEW g \in Goroutines, RenameTmp(g) PROVE Counted'
  <2>1. Waiting' = Waiting /\ fresh' = fresh
    BY <1>9 DEF RenameTmp, Goes, Waiting
  <2> QED
    BY <2>1
<1>10. ASSUME NEW g \in Goroutines, Fail(g) PROVE Counted'
  <2>1. Waiting' = Waiting /\ fresh' = fresh
    BY <1>10 DEF Fail, Waiting
  <2> QED
    BY <2>1
<1>11. CASE Crash
  <2>1. Waiting' = {} /\ fresh' = fresh
    BY <1>11 DEF Crash, Dies, Waiting
  <2>2. fresh <= MaxUpdates + 1
    OBVIOUS
  <2> QED
    BY <2>1, <2>2, FS_EmptySet
<1>12. CASE PowerLoss
  <2>1. Waiting' = {} /\ fresh' = fresh
    BY <1>12 DEF PowerLoss, Dies, Waiting
  <2>2. fresh <= MaxUpdates + 1
    OBVIOUS
  <2> QED
    BY <2>1, <2>2, FS_EmptySet
<1>13. CASE WriteBack
  <2>1. Waiting' = Waiting /\ fresh' = fresh
    BY <1>13 DEF WriteBack, Waiting
  <2> QED
    BY <2>1
<1>14. CASE UNCHANGED vars
  BY <1>14 DEF vars, disks, Waiting
<1> QED
  BY <1>1, <1>2, <1>3, <1>4, <1>5, <1>6, <1>7,
     <1>8, <1>9, <1>10, <1>11, <1>12, <1>13, <1>14 DEF Next, Save

-----------------------------------------------------------------------------
(* IInv holds in every reachable state.                                    *)
LEMMA Invariance == Spec => []IInv
<1>1. Init => IInv
  <2> SUFFICES ASSUME Init PROVE IInv
    OBVIOUS
  <2> USE CallersAssumption, NobodyAssumption, MaxUpdatesAssumption DEF Init
  <2>1. \A g \in Goroutines : step[g] = "idle"
    OBVIOUS
  <2>2. Waiting = {}
    BY <2>1 DEF Waiting, Goroutines
  <2>3. file \in Contents /\ Settled(file) /\ file.saved = {}
    <3>1. file \in {Absent, Damaged, Whole({}, TRUE)}
      BY InitFilesAssumption
    <3>2. file \in Contents
      BY <3>1, ContentsHold
    <3> QED
      BY <3>1, <3>2 DEF Settled, Absent, Damaged, Whole
  <2>4. TypeOK
    BY <2>1, <2>3, ContentsHold DEF TypeOK, Steps
  <2>5. Locked /\ Loaded /\ Prepared
    BY <2>1, <2>2 DEF Locked, Loaded, Prepared, Saving, Goroutines
  <2>6. Persisted /\ Covered /\ Unused
    BY <2>3 DEF Persisted, Covered, Unused
  <2>7. Counted
    BY <2>2, FS_EmptySet DEF Counted
  <2> QED
    BY <2>4, <2>5, <2>6, <2>7 DEF IInv
<1>2. IInv /\ [Next]_vars => IInv'
  BY TypeStep, LockedStep, LoadedStep, PreparedStep, PersistedStep, CoveredStep,
     UnusedStep, CountedStep DEF IInv
<1> QED
  BY <1>1, <1>2, PTL DEF Spec

(* The state store keeps its types, and only the holder of the mutex is    *)
(* inside Load or UpdateTask.                                              *)
THEOREM TypeCorrect == Spec => []TypeOK
<1>1. IInv => TypeOK
  BY DEF IInv
<1> QED
  BY <1>1, Invariance, PTL

(* Whenever the process or the machine dies, the state path names a whole  *)
(* state, or what someone else left there: never a partial save of the     *)
(* daemon's.                                                               *)
THEOREM StateFileNeverTorn == Spec => []NeverTorn
<1>1. IInv => NeverTorn
  BY DEF IInv, Persisted, Settled, NeverTorn
<1> QED
  BY <1>1, Invariance, PTL

(* An update whose save was reported as done stays in the file, and in the *)
(* memory of every later incarnation, whatever fails or crashes.           *)
THEOREM AcknowledgedSurvive == Spec => []AckedSurvive
<1>1. IInv => AckedSurvive
  BY DEF IInv, TypeOK, Covered, AckedSurvive
<1> QED
  BY <1>1, Invariance, PTL

-----------------------------------------------------------------------------
(* Every step of the files is a step of the atomic store, or none.         *)
LEMMA RefinementStep ==
  ASSUME IInv, [Next]_vars
  PROVE  [Store!ANext]_(Store!avars)
<1> USE CallersAssumption, NobodyAssumption
    DEF IInv, TypeOK, Goroutines, Loaded, Persisted, Settled, disks
<1>1. CASE LoadMissing
  <2>1. phase = "down" /\ phase' # "down" /\ mem' = file.saved /\ UNCHANGED <<file, older>>
    BY <1>1 DEF LoadMissing, BeginSave
  <2> QED
    BY <2>1 DEF Store!Recover, Store!ANext
<1>2. CASE LoadCorrupt
  <2>1. phase = "down" /\ phase' # "down" /\ mem' = file.saved /\ UNCHANGED <<file, older>>
    BY <1>2 DEF LoadCorrupt
  <2> QED
    BY <2>1 DEF Store!Recover, Store!ANext
<1>3. CASE LoadWhole
  <2>1. phase = "down" /\ phase' # "down" /\ mem' = file.saved /\ UNCHANGED <<file, older>>
    BY <1>3 DEF LoadWhole
  <2> QED
    BY <2>1 DEF Store!Recover, Store!ANext
<1>4. ASSUME NEW c \in Callers, Call(c) PROVE [Store!ANext]_(Store!avars)
  <2>1. UNCHANGED <<phase, mem, file, older>>
    BY <1>4 DEF Call
  <2> QED
    BY <2>1 DEF Store!avars
<1>5. ASSUME NEW c \in Callers, Mutate(c) PROVE [Store!ANext]_(Store!avars)
  <2>1. phase # "down" /\ UNCHANGED <<phase, file, older>>
    BY <1>5 DEF Mutate, Waiting
  <2>2. fresh \in Updates /\ fresh \notin mem /\ mem' = mem \cup {fresh}
    BY <1>5, NumberLeft DEF Mutate, Unused, Updates
  <2>3. Store!Apply(fresh)
    BY <2>1, <2>2 DEF Store!Apply
  <2> QED
    BY <2>2, <2>3 DEF Store!ANext
<1>6. ASSUME NEW g \in Goroutines, CreateTmp(g) PROVE [Store!ANext]_(Store!avars)
  <2>1. UNCHANGED <<phase, mem, file, older>>
    BY <1>6 DEF CreateTmp, Goes
  <2> QED
    BY <2>1 DEF Store!avars
<1>7. ASSUME NEW g \in Goroutines, WriteTmp(g) PROVE [Store!ANext]_(Store!avars)
  <2>1. UNCHANGED <<phase, mem, file, older>>
    BY <1>7 DEF WriteTmp, Goes
  <2> QED
    BY <2>1 DEF Store!avars
<1>8. ASSUME NEW g \in Goroutines, SyncTmp(g) PROVE [Store!ANext]_(Store!avars)
  <2>1. UNCHANGED <<phase, mem, file, older>>
    BY <1>8 DEF SyncTmp, Goes
  <2> QED
    BY <2>1 DEF Store!avars
<1>9. ASSUME NEW g \in Goroutines, RenameTmp(g) PROVE [Store!ANext]_(Store!avars)
  <2>1. phase # "down" /\ phase' # "down" /\ file'.saved = mem /\ mem' = mem
    BY <1>9 DEF RenameTmp, Goes, Prepared, Locked, Saving
  <2>2. {c.saved : c \in older'} = {c.saved : c \in older} \cup {file.saved}
    BY <1>9 DEF RenameTmp
  <2>3. Store!Persist
    BY <2>1, <2>2 DEF Store!Persist
  <2> QED
    BY <2>3 DEF Store!ANext
<1>10. ASSUME NEW g \in Goroutines, Fail(g) PROVE [Store!ANext]_(Store!avars)
  <2>1. UNCHANGED <<mem, file, older>>
    BY <1>10 DEF Fail
  <2>2. CASE g = Boot
    <3>1. phase' = "down" /\ mem = {}
      BY <1>10, <2>2 DEF Fail, Loaded
    <3> QED
      BY <2>1, <3>1 DEF Store!Stop, Store!ANext
  <2>3. CASE g # Boot
    BY <1>10, <2>1, <2>3 DEF Fail, Store!avars
  <2> QED
    BY <2>2, <2>3
<1>11. CASE Crash
  <2>1. phase' = "down" /\ mem' = {} /\ UNCHANGED <<file, older>>
    BY <1>11 DEF Crash, Dies
  <2> QED
    BY <2>1 DEF Store!Stop, Store!ANext
<1>12. CASE PowerLoss
  <2>1. phase' = "down" /\ mem' = {} /\ older' = {}
    BY <1>12 DEF PowerLoss, Dies
  <2>2. PICK c \in older \cup {file} : file' \in AfterPowerLoss(c)
    BY <1>12 DEF PowerLoss
  <2>3. file' = c
    BY <2>2 DEF AfterPowerLoss, Persisted, Settled
  <2>4. file'.saved \in {b.saved : b \in older} \cup {file.saved}
    BY <2>2, <2>3
  <2>5. {b.saved : b \in older'} = {}
    BY <2>1
  <2>6. Store!PowerCut
    BY <2>1, <2>4, <2>5 DEF Store!PowerCut
  <2> QED
    BY <2>6 DEF Store!ANext
<1>13. CASE WriteBack
  <2>1. UNCHANGED <<phase, mem, file>> /\ older' = {}
    BY <1>13 DEF WriteBack
  <2>2. {b.saved : b \in older'} = {}
    BY <2>1
  <2>3. Store!Settle
    BY <2>1, <2>2 DEF Store!Settle
  <2> QED
    BY <2>3 DEF Store!ANext
<1>14. CASE UNCHANGED vars
  BY <1>14 DEF vars, disks, Store!avars
<1> QED
  BY <1>1, <1>2, <1>3, <1>4, <1>5, <1>6, <1>7,
     <1>8, <1>9, <1>10, <1>11, <1>12, <1>13, <1>14 DEF Next, Save

(* The files implement a store that persists whole states one at a time:   *)
(* a rename is the moment an update becomes persistent, and recovery and   *)
(* loss of power bring back only states that were persisted as a whole.    *)
THEOREM FilesImplementAtomicStore == Spec => ImplementsAtomicStore
<1>1. Init => Store!AInit
  <2> SUFFICES ASSUME Init PROVE Store!AInit
    OBVIOUS
  <2>1. file \in {Absent, Damaged, Whole({}, TRUE)}
    BY InitFilesAssumption DEF Init
  <2>2. file.saved = {}
    BY <2>1 DEF Absent, Damaged, Whole
  <2>3. {c.saved : c \in older} = {}
    BY DEF Init
  <2> QED
    BY <2>2, <2>3 DEF Init, Store!AInit
<1>2. IInv /\ [Next]_vars => [Store!ANext]_(Store!avars)
  BY RefinementStep
<1> QED
  BY <1>1, <1>2, Invariance, PTL DEF Spec, ImplementsAtomicStore, Store!ASpec
=================================================================================

------------------------------ MODULE DaemonProofs ------------------------------
(***************************************************************************)
(* Theorems about the daemons of one machine, however many processes there *)
(* are, however often they start and whatever the configuration file       *)
(* holds; and about what the checks of a configuration let by.             *)
(***************************************************************************)
EXTENDS Daemon, FiniteSetTheorems, TLAPS

-----------------------------------------------------------------------------
(* The inductive invariant.                                                *)

(* What TypeOK leaves open: a reload and a configuration in force are      *)
(* files, and only a daemon that runs has a watcher to be told of edits.   *)
Tables == /\ {inForce, loading} \subseteq [Daemons -> Files \cup {NoDoc}]
          /\ \A d \in Daemons : watch[d] # "off" => stage[d] \in {"running", "closing"}

Listens(d) == stage[d] \in Listening
Holds(d) == Listens(d) \/ stage[d] = "bound"
Clear(d) == stage[d] \in {"stale", "free", "unlinked"}

(* While one daemon at a time is at the path: whoever has a socket has it  *)
(* there, and when a daemon is about to remove what is at the path, or to  *)
(* bind there, nobody listens.                                             *)
Exclusive ==
  ~overlapped =>
    /\ \A d \in Daemons : Holds(d) => path = d
    /\ \A d, e \in Daemons : Clear(d) => ~Listens(e)
    /\ \A d, e \in Daemons : stage[d] \in AtThePath /\ stage[e] \in AtThePath => d = e

IInv == TypeOK /\ Tables /\ Exclusive

-----------------------------------------------------------------------------
(* The types.                                                              *)
LEMMA TypeStep ==
  ASSUME TypeOK, Tables, [Next]_vars
  PROVE  TypeOK' /\ Tables'
<1> USE DaemonAssumption DEF TypeOK, Tables, Files, Stages, Starting, Stopping,
    Listening, process, document, reload
<1>1. ASSUME NEW d \in Daemons, Load(d) PROVE TypeOK' /\ Tables'
  BY <1>1 DEF Load, Accepted, Moves
<1>2. ASSUME NEW d \in Daemons, Find(d) /\ Kept PROVE TypeOK' /\ Tables'
  BY <1>2 DEF Find, Moves, Kept
<1>3. ASSUME NEW d \in Daemons, Dial(d) /\ Kept PROVE TypeOK' /\ Tables'
  BY <1>3 DEF Dial, Answers, Moves, Kept
<1>4. ASSUME NEW d \in Daemons, AlreadyRunning(d) PROVE TypeOK' /\ Tables'
  BY <1>4 DEF AlreadyRunning, Answers, Gone
<1>5. ASSUME NEW d \in Daemons, RemoveStale(d) /\ Kept PROVE TypeOK' /\ Tables'
  BY <1>5 DEF RemoveStale, Moves, Kept
<1>6. ASSUME NEW d \in Daemons, Bind(d) /\ Kept PROVE TypeOK' /\ Tables'
  BY <1>6 DEF Bind, Moves, Kept
<1>7. ASSUME NEW d \in Daemons, BindFails(d) PROVE TypeOK' /\ Tables'
  BY <1>7 DEF BindFails, Gone
<1>8. ASSUME NEW d \in Daemons, Listen(d) /\ Kept PROVE TypeOK' /\ Tables'
  BY <1>8 DEF Listen, Moves, Kept
<1>9. ASSUME NEW d \in Daemons, Chmod(d) /\ Kept PROVE TypeOK' /\ Tables'
  BY <1>9 DEF Chmod, Moves, Kept
<1>10. ASSUME NEW d \in Daemons, ChmodFails(d) PROVE TypeOK' /\ Tables'
  BY <1>10 DEF ChmodFails, Gone
<1>11. ASSUME NEW d \in Daemons, Watch(d) PROVE TypeOK' /\ Tables'
  BY <1>11 DEF Watch, Moves
<1>12. ASSUME NEW d \in Daemons, Signal(d) /\ Kept PROVE TypeOK' /\ Tables'
  BY <1>12 DEF Signal, Moves, Kept
<1>13. ASSUME NEW d \in Daemons, CloseWatcher(d) PROVE TypeOK' /\ Tables'
  BY <1>13 DEF CloseWatcher, Moves
<1>14. ASSUME NEW d \in Daemons, CloseListener(d) /\ Kept PROVE TypeOK' /\ Tables'
  BY <1>14 DEF CloseListener, Moves, Kept
<1>15. ASSUME NEW d \in Daemons, RemovePath(d) /\ Kept PROVE TypeOK' /\ Tables'
  BY <1>15 DEF RemovePath, Moves, Kept
<1>16. ASSUME NEW d \in Daemons, Drained(d) PROVE TypeOK' /\ Tables'
  BY <1>16 DEF Drained, Gone
<1>17. ASSUME NEW d \in Daemons, Crash(d) PROVE TypeOK' /\ Tables'
  BY <1>17 DEF Crash, Gone
<1>18. ASSUME NEW d \in Daemons, HandleEvent(d) PROVE TypeOK' /\ Tables'
  BY <1>18 DEF HandleEvent, Looping
<1>19. ASSUME NEW d \in Daemons, Debounced(d) PROVE TypeOK' /\ Tables'
  BY <1>19 DEF Debounced, Looping
<1>20. ASSUME NEW d \in Daemons, Apply(d) PROVE TypeOK' /\ Tables'
  BY <1>20 DEF Apply, Accepted
<1>21. CASE BeginWrite
  <2>1. event' \in [Daemons -> BOOLEAN]
    BY <1>21 DEF BeginWrite, Notify
  <2>2. \A d \in Daemons : event'[d] => event[d] \/ watch[d] = "on"
    BY <1>21 DEF BeginWrite, Notify
  <2> QED
    BY <1>21, <2>1, <2>2 DEF BeginWrite
<1>22. CASE FinishWrite
  <2>1. event' \in [Daemons -> BOOLEAN]
    BY <1>22 DEF FinishWrite, Notify
  <2>2. \A d \in Daemons : event'[d] => event[d] \/ watch[d] = "on"
    BY <1>22 DEF FinishWrite, Notify
  <2> QED
    BY <1>22, <2>1, <2>2 DEF FinishWrite
<1>23. CASE Replace
  BY <1>23 DEF Replace
<1>24. CASE UNCHANGED vars
  BY <1>24 DEF vars
<1> QED
  BY <1>1, <1>2, <1>3, <1>4, <1>5, <1>6, <1>7, <1>8, <1>9, <1>10, <1>11, <1>12,
     <1>13, <1>14, <1>15, <1>16, <1>17, <1>18, <1>19, <1>20, <1>21, <1>22, <1>23, <1>24
  DEF Next, Process, Loop

-----------------------------------------------------------------------------
(* Who is at the path.                                                     *)
LEMMA ExclusiveStep ==
  ASSUME TypeOK, Exclusive, [Next]_vars
  PROVE  Exclusive'
<1> USE DaemonAssumption DEF TypeOK, Exclusive, Holds, Clear, Listens, Listening,
    AtThePath, process
<1>1. ASSUME NEW d \in Daemons, Load(d) PROVE Exclusive'
  BY <1>1 DEF Load, Moves
<1>2. ASSUME NEW d \in Daemons, Find(d) /\ Kept PROVE Exclusive'
  BY <1>2 DEF Find, Moves
<1>3. ASSUME NEW d \in Daemons, Dial(d) /\ Kept PROVE Exclusive'
  BY <1>3 DEF Dial, Answers, Moves
<1>4. ASSUME NEW d \in Daemons, AlreadyRunning(d) PROVE Exclusive'
  BY <1>4 DEF AlreadyRunning, Gone
<1>5. ASSUME NEW d \in Daemons, RemoveStale(d) /\ Kept PROVE Exclusive'
  BY <1>5 DEF RemoveStale, Moves
<1>6. ASSUME NEW d \in Daemons, Bind(d) /\ Kept PROVE Exclusive'
  BY <1>6 DEF Bind, Moves
<1>7. ASSUME NEW d \in Daemons, BindFails(d) PROVE Exclusive'
  BY <1>7 DEF BindFails, Gone
<1>8. ASSUME NEW d \in Daemons, Listen(d) /\ Kept PROVE Exclusive'
  BY <1>8 DEF Listen, Moves
<1>9. ASSUME NEW d \in Daemons, Chmod(d) /\ Kept PROVE Exclusive'
  BY <1>9 DEF Chmod, Moves
<1>10. ASSUME NEW d \in Daemons, ChmodFails(d) PROVE Exclusive'
  BY <1>10 DEF ChmodFails, Gone
<1>11. ASSUME NEW d \in Daemons, Watch(d) PROVE Exclusive'
  BY <1>11 DEF Watch, Moves
<1>12. ASSUME NEW d \in Daemons, Signal(d) /\ Kept PROVE Exclusive'
  BY <1>12 DEF Signal, Moves
<1>13. ASSUME NEW d \in Daemons, CloseWatcher(d) PROVE Exclusive'
  BY <1>13 DEF CloseWatcher, Moves
<1>14. ASSUME NEW d \in Daemons, CloseListener(d) /\ Kept PROVE Exclusive'
  BY <1>14 DEF CloseListener, Moves
<1>15. ASSUME NEW d \in Daemons, RemovePath(d) /\ Kept PROVE Exclusive'
  BY <1>15 DEF RemovePath, Moves
<1>16. ASSUME NEW d \in Daemons, Drained(d) PROVE Exclusive'
  BY <1>16 DEF Drained, Gone
<1>17. ASSUME NEW d \in Daemons, Crash(d) PROVE Exclusive'
  BY <1>17 DEF Crash, Gone
<1>18. ASSUME NEW d \in Daemons, HandleEvent(d) PROVE Exclusive'
  BY <1>18 DEF HandleEvent
<1>19. ASSUME NEW d \in Daemons, Debounced(d) PROVE Exclusive'
  BY <1>19 DEF Debounced
<1>20. ASSUME NEW d \in Daemons, Apply(d) PROVE Exclusive'
  BY <1>20 DEF Apply
<1>21. CASE BeginWrite
  BY <1>21 DEF BeginWrite
<1>22. CASE FinishWrite
  BY <1>22 DEF FinishWrite
<1>23. CASE Replace
  BY <1>23 DEF Replace
<1>24. CASE UNCHANGED vars
  BY <1>24 DEF vars
<1> QED
  BY <1>1, <1>2, <1>3, <1>4, <1>5, <1>6, <1>7, <1>8, <1>9, <1>10, <1>11, <1>12,
     <1>13, <1>14, <1>15, <1>16, <1>17, <1>18, <1>19, <1>20, <1>21, <1>22, <1>23, <1>24
  DEF Next, Process, Loop

-----------------------------------------------------------------------------
(* The daemons start in the invariant and stay in it.                      *)
LEMMA Invariance == Spec => []IInv
<1>1. ASSUME Init PROVE IInv
  <2>1. \A d \in Daemons : stage[d] = "down" /\ ~event[d] /\ ~armed[d]
    BY <1>1 DEF Init
  <2>2. {event, armed} \subseteq [Daemons -> BOOLEAN]
    BY <1>1 DEF Init
  <2>3. Tables
    BY <1>1, DaemonAssumption DEF Init, Tables, Files
  <2>4. stage \in [Daemons -> Stages] /\ watch \in [Daemons -> {"off", "on", "lost"}]
    BY <1>1 DEF Init, Stages
  <2>5. \A d \in Daemons : inForce[d] = NoDoc /\ loading[d] = NoDoc
    BY <1>1 DEF Init
  <2>6. /\ path \in {StaleFile, NoFile} /\ path \notin Daemons
        /\ file \in Files /\ writing \in Files \cup {NoDoc}
        /\ starts \in 0..MaxStarts /\ writes \in 0..MaxWrites
    <3>1. \A p \in {NoFile, StaleFile} : p \notin Daemons
      BY DaemonAssumption
    <3>2. starts = 0 /\ writes = 0 /\ MaxStarts \in Nat /\ MaxWrites \in Nat
      BY <1>1, DaemonAssumption DEF Init
    <3>3. path \in {NoFile, StaleFile} /\ file \in Files /\ writing = NoDoc
      BY <1>1 DEF Init, Files
    <3> QED BY <3>1, <3>2, <3>3
  <2> overlapped \in BOOLEAN
    BY <1>1 DEF Init
  <2>7. TypeOK
    <3>1. \A d \in Daemons : inForce[d] \in IF stage[d] = "down" THEN {NoDoc} ELSE Files
      BY <2>1, <2>5
    <3>2. \A d \in Daemons : ~(event[d] \/ armed[d] \/ loading[d] # NoDoc)
      BY <2>1, <2>5
    <3> QED
      BY <2>2, <2>4, <2>6, <3>1, <3>2, Zenon DEF TypeOK
  <2>8. Exclusive
    BY <2>1 DEF Exclusive, Holds, Clear, Listens, Listening, AtThePath
  <2> QED BY <2>3, <2>7, <2>8 DEF IInv
<1>2. IInv /\ [Next]_vars => IInv'
  BY TypeStep, ExclusiveStep DEF IInv
<1> QED
  BY <1>1, <1>2, PTL DEF Spec

(* The state of the daemons is well-typed: only a daemon that runs has a   *)
(* configuration or a reload on its way, and a socket at the path belongs  *)
(* to a process that holds it.                                             *)
THEOREM TypeCorrect == Spec => []TypeOK
<1>1. IInv => TypeOK
  BY DEF IInv
<1> QED
  BY <1>1, Invariance, PTL

(* As long as no two daemons are between looking at the path and having a  *)
(* socket there, or between the two removals of Stop, whoever listens is   *)
(* the one that answers at the path: so there is at most one.              *)
THEOREM OneServer == Spec => []OneDaemonServes
<1>1. IInv => OneDaemonServes
  BY DEF IInv, Exclusive, Holds, Listens, OneDaemonServes
<1> QED
  BY <1>1, Invariance, PTL

-----------------------------------------------------------------------------
(* Kahn's algorithm.                                                       *)

(* Any set of numbers that is not empty has a least one.                   *)
LEMMA LeastExists ==
  ASSUME NEW S \in SUBSET Nat, S # {}
  PROVE  \E x \in S : \A y \in S : x <= y
<1> DEFINE R == OpToRel(<, Nat)
<1>1. \A x, y \in Nat : y < x => <<y, x>> \in R
  BY DEF OpToRel
<1> HIDE DEF R
<1>2. IsWellFoundedOn(R, Nat)
  BY NatLessThanWellFounded DEF R
<1>3. PICK x \in S : \A y \in S : ~ (<<y, x>> \in R)
  BY <1>2, WFMin
<1>4. \A y \in S : ~ (y < x)
  BY <1>1, <1>3
<1> QED BY <1>4

(* A number of rounds of the loop, as a table of the states after each.    *)
Upto(tasks, h, n) ==
  /\ DOMAIN h = 0..n
  /\ \A i \in 0..n : h[i] = IF i = 0 THEN KahnInit(tasks) ELSE KahnRound(tasks, h[i - 1])

LEMMA UptoExists ==
  ASSUME NEW tasks, NEW n \in Nat
  PROVE  \E h : Upto(tasks, h, n)
<1> DEFINE Without == {m \in Nat : ~ \E h : Upto(tasks, h, m)}
<1> SUFFICES ASSUME Without # {} PROVE FALSE
  OBVIOUS
<1>1. PICK m \in Without : \A k \in Without : m <= k
  BY LeastExists
<1>2. CASE m = 0
  <2> DEFINE g == [i \in 0..0 |-> KahnInit(tasks)]
  <2>1. Upto(tasks, g, 0)
    BY DEF Upto
  <2> QED BY <1>1, <1>2, <2>1
<1>3. CASE m # 0
  <2>1. m - 1 \in Nat /\ m - 1 \notin Without
    BY <1>1, <1>3
  <2>2. PICK h : Upto(tasks, h, m - 1)
    BY <2>1
  <2> DEFINE g == [i \in 0..m |-> IF i = m THEN KahnRound(tasks, h[m - 1]) ELSE h[i]]
  <2>3. \A i \in 0..(m - 1) : g[i] = h[i]
    BY <2>1
  <2>4. g[m] = KahnRound(tasks, h[m - 1])
    BY <2>1
  <2>5. DOMAIN g = 0..m
    OBVIOUS
  <2> HIDE DEF g
  <2>6. ASSUME NEW i \in 0..m
        PROVE  g[i] = IF i = 0 THEN KahnInit(tasks) ELSE KahnRound(tasks, g[i - 1])
    <3>1. CASE i = m
      <4>1. m - 1 \in 0..(m - 1)
        BY <2>1
      <4> QED BY <1>3, <2>3, <2>4, <3>1, <4>1
    <3>2. CASE i # m
      <4>1. i \in 0..(m - 1)
        BY <2>1, <3>2
      <4>2. i # 0 => i - 1 \in 0..(m - 1)
        BY <4>1
      <4> QED BY <2>2, <2>3, <4>1, <4>2 DEF Upto
    <3> QED BY <3>1, <3>2
  <2>7. Upto(tasks, g, m)
    BY <2>5, <2>6 DEF Upto
  <2> QED BY <1>1, <2>7
<1> QED BY <1>2, <1>3

LEMMA UptoAgree ==
  ASSUME NEW tasks, NEW h, NEW g, NEW n \in Nat, NEW m \in Nat, n <= m,
         Upto(tasks, h, n), Upto(tasks, g, m), NEW k \in 0..n
  PROVE  h[k] = g[k]
<1> DEFINE Differ == {i \in 0..n : h[i] # g[i]}
<1> SUFFICES ASSUME Differ # {} PROVE FALSE
  OBVIOUS
<1>0. Differ \in SUBSET Nat
  OBVIOUS
<1>1. PICK i \in Differ : \A j \in Differ : i <= j
  BY <1>0, LeastExists
<1>2. i # 0
  BY <1>1 DEF Upto
<1>3. i - 1 \in 0..n /\ i - 1 \notin Differ
  BY <1>1, <1>2
<1>4. h[i] = KahnRound(tasks, h[i - 1]) /\ g[i] = KahnRound(tasks, g[i - 1])
  BY <1>1, <1>2 DEF Upto
<1> QED BY <1>1, <1>3, <1>4

(* The loop does have a state after every number of rounds.                *)
LEMMA KahnRounds ==
  ASSUME NEW tasks
  PROVE  \E after : /\ \A n \in Nat : after[n] = IF n = 0 THEN KahnInit(tasks)
                                                 ELSE KahnRound(tasks, after[n - 1])
                    /\ Kahn(tasks) = after[Len(tasks)]
<1> DEFINE Body(f) == [n \in Nat |-> IF n = 0 THEN KahnInit(tasks)
                                     ELSE KahnRound(tasks, f[n - 1])]
           Table(n) == CHOOSE h : Upto(tasks, h, n)
           whole == [n \in Nat |-> Table(n)[n]]
           after == CHOOSE f : f = Body(f)
<1>1. \A n \in Nat : Upto(tasks, Table(n), n)
  BY UptoExists
<1>2. ASSUME NEW n \in Nat PROVE whole[n] = Body(whole)[n]
  <2> HIDE DEF Table
  <2>1. whole[n] = Table(n)[n]
    OBVIOUS
  <2>2. CASE n = 0
    BY <1>1, <2>1, <2>2 DEF Upto
  <2>3. CASE n # 0
    <3>1. n - 1 \in Nat /\ n - 1 \in 0..(n - 1)
      BY <2>3
    <3>2. Table(n)[n] = KahnRound(tasks, Table(n)[n - 1])
      BY <1>1, <2>3 DEF Upto
    <3>3. Table(n - 1)[n - 1] = Table(n)[n - 1]
      BY <1>1, <3>1, UptoAgree
    <3>4. whole[n - 1] = Table(n - 1)[n - 1]
      BY <3>1
    <3> QED BY <2>1, <2>3, <3>2, <3>3, <3>4
  <2> QED BY <2>2, <2>3
<1>3. whole = Body(whole)
  <2> HIDE DEF Table
  <2> QED BY <1>2
<1>4. after = Body(after)
  <2>1. \E f : f = Body(f)
    BY <1>3
  <2> QED BY <2>1
<1>5. Kahn(tasks) = after[Len(tasks)]
  BY DEF Kahn
<1> HIDE DEF after
<1> QED BY <1>4, <1>5

-----------------------------------------------------------------------------
(* The tasks of a workflow that has passed the checks before               *)
(* checkDAGCycles.                                                         *)
Listed(tasks) ==
  /\ IsList(tasks)
  /\ \A t, u \in ToSet(tasks) : t.id = u.id => t = u
  /\ \A t \in ToSet(tasks) : t.dependsOn # Unset => t.dependsOn \in ToSet(Ids(tasks))

Waits(t, S) == t.dependsOn # Unset /\ t.dependsOn \in S

(* What the loop knows when the tasks of V were visited.  S is a set of    *)
(* tasks that wait for each other: none of them is ever visited.           *)
Progress(tasks, s, S, V) ==
  LET ids == ToSet(Ids(tasks)) IN
  /\ V \subseteq ids \ S
  /\ Cardinality(V) = s.visited
  /\ s.queue \subseteq ids \ (S \cup V)
  /\ s.inDegree \in [ids -> {0, 1}]
  /\ \A t \in ToSet(tasks) : s.inDegree[t.id] = 1 <=> Waits(t, ids \ V)
  /\ \A id \in ids : s.inDegree[id] = 0 <=> id \in s.queue \cup V

LEMMA IdsOfTasks ==
  ASSUME NEW tasks, IsList(tasks)
  PROVE  /\ ToSet(Ids(tasks)) = {t.id : t \in ToSet(tasks)}
         /\ IsFiniteSet(ToSet(Ids(tasks)))
         /\ Len(tasks) \in Nat /\ Cardinality(ToSet(Ids(tasks))) <= Len(tasks)
<1>1. Len(tasks) \in Nat /\ DOMAIN tasks = 1..Len(tasks)
  BY DEF IsList
<1>2. DOMAIN Ids(tasks) = DOMAIN tasks
  BY DEF Ids
<1>3. ToSet(Ids(tasks)) = {t.id : t \in ToSet(tasks)}
  BY <1>2 DEF ToSet, Ids
<1>4. IsFiniteSet(DOMAIN tasks) /\ Cardinality(DOMAIN tasks) = Len(tasks)
  <2>1. /\ IsFiniteSet(1..Len(tasks))
        /\ Cardinality(1..Len(tasks)) = IF 1 > Len(tasks) THEN 0 ELSE Len(tasks) - 1 + 1
    BY <1>1, FS_Interval
  <2> QED BY <1>1, <2>1
<1>5. Ids(tasks) \in Surjection(DOMAIN tasks, ToSet(Ids(tasks)))
  BY <1>2 DEF Surjection, ToSet, Ids
<1> QED BY <1>1, <1>3, <1>4, <1>5, FS_Surjection

LEMMA ProgressInit ==
  ASSUME NEW tasks, Listed(tasks), NEW S \in SUBSET ToSet(Ids(tasks)),
         \A t \in ToSet(tasks) : t.id \in S => Waits(t, S)
  PROVE  Progress(tasks, KahnInit(tasks), S, {})
<1> DEFINE ids == ToSet(Ids(tasks))
           s == KahnInit(tasks)
<1>1. ids = {t.id : t \in ToSet(tasks)}
  BY IdsOfTasks DEF Listed
<1>2. ASSUME NEW t \in ToSet(tasks)
      PROVE  s.inDegree[t.id] = IF t.dependsOn # Unset THEN 1 ELSE 0
  <2> DEFINE waiting == {u \in ToSet(tasks) : u.id = t.id /\ u.dependsOn # Unset}
  <2>1. s.inDegree[t.id] = Cardinality(waiting)
    BY <1>1 DEF KahnInit
  <2>2. waiting = IF t.dependsOn # Unset THEN {t} ELSE {}
    BY DEF Listed
  <2> QED BY <2>1, <2>2, FS_EmptySet, FS_Singleton
<1>3. s.visited = 0 /\ DOMAIN s.inDegree = ids /\ s.queue = {id \in ids : s.inDegree[id] = 0}
  BY DEF KahnInit
<1>4. s.inDegree \in [ids -> {0, 1}]
  <2>1. s.inDegree = [id \in ids |-> s.inDegree[id]]
    BY DEF KahnInit
  <2>2. \A id \in ids : s.inDegree[id] \in {0, 1}
    BY <1>1, <1>2
  <2> QED BY <2>1, <2>2
<1>5. \A t \in ToSet(tasks) : t.id \in S => s.inDegree[t.id] = 1
  BY <1>2 DEF Waits
<1>6. s.queue \cap S = {}
  BY <1>1, <1>3, <1>5
<1>7. \A t \in ToSet(tasks) : Waits(t, ids) <=> t.dependsOn # Unset
  BY DEF Listed, Waits
<1> HIDE DEF s
<1>8. Cardinality({}) = s.visited
  BY <1>3, FS_EmptySet
<1>9. \A t \in ToSet(tasks) : s.inDegree[t.id] = 1 <=> Waits(t, ids)
  BY <1>2, <1>7
<1>10. s.queue \subseteq ids \ S /\ \A id \in ids : s.inDegree[id] = 0 <=> id \in s.queue
  BY <1>3, <1>6
<1>11. Progress(tasks, s, S, {})
  BY <1>4, <1>8, <1>9, <1>10 DEF Progress
<1> QED BY <1>11 DEF s

LEMMA ProgressRound ==
  ASSUME NEW tasks, Listed(tasks), NEW S \in SUBSET ToSet(Ids(tasks)),
         \A t \in ToSet(tasks) : t.id \in S => Waits(t, S),
         NEW s, NEW V, Progress(tasks, s, S, V)
  PROVE  \E W : Progress(tasks, KahnRound(tasks, s), S, W)
<1>1. CASE s.queue = {}
  BY <1>1 DEF KahnRound
<1>2. CASE s.queue # {}
  <2> DEFINE ids == ToSet(Ids(tasks))
             node == CHOOSE id \in s.queue : TRUE
             after == Visit(tasks, s, node)
             children == Dependents(tasks, node)
             W == V \cup {node}
  <2>1. KahnRound(tasks, s) = after
    BY <1>2 DEF KahnRound
  <2>2. node \in s.queue
    BY <1>2
  <2> HIDE DEF node
  <2>3. /\ after.visited = s.visited + 1
        /\ after.inDegree = [id \in DOMAIN s.inDegree |->
                                s.inDegree[id] - IF id \in children THEN 1 ELSE 0]
        /\ after.queue = (s.queue \ {node}) \cup {id \in children : after.inDegree[id] = 0}
    BY DEF Visit
  <2> HIDE DEF after
  <2>4. ids = {t.id : t \in ToSet(tasks)} /\ IsFiniteSet(ids)
    BY IdsOfTasks DEF Listed
  <2>5. node \in ids /\ node \notin S /\ node \notin V /\ s.inDegree[node] = 0
    BY <2>2 DEF Progress
  <2>6. \A t \in ToSet(tasks) : t.id \in children <=> Waits(t, {node})
    BY DEF Dependents, Waits, Listed
  <2>7. children \subseteq ids
    BY <2>4 DEF Dependents
  <2>8. ASSUME NEW t \in ToSet(tasks)
        PROVE  /\ after.inDegree[t.id] \in {0, 1}
               /\ after.inDegree[t.id] = 1 <=> Waits(t, ids \ W)
    <3>1. t.id \in ids /\ s.inDegree[t.id] \in {0, 1}
          /\ (s.inDegree[t.id] = 1 <=> Waits(t, ids \ V))
      BY <2>4 DEF Progress
    <3>2. after.inDegree[t.id] = s.inDegree[t.id] - IF t.id \in children THEN 1 ELSE 0
      BY <2>3, <3>1 DEF Progress
    <3>3. CASE t.id \in children
      <4>1. Waits(t, {node})
        BY <2>6, <3>3
      <4>2. Waits(t, ids \ V) /\ ~ Waits(t, ids \ W)
        BY <4>1, <2>5 DEF Waits
      <4> QED BY <3>1, <3>2, <3>3, <4>2
    <3>4. CASE t.id \notin children
      <4>1. ~ Waits(t, {node})
        BY <2>6, <3>4
      <4>2. Waits(t, ids \ V) <=> Waits(t, ids \ W)
        BY <4>1 DEF Waits
      <4> QED BY <3>1, <3>2, <3>4, <4>2
    <3> QED BY <3>3, <3>4
  <2>9. after.inDegree \in [ids -> {0, 1}]
    <3>1. after.inDegree = [id \in ids |-> after.inDegree[id]]
      BY <2>3 DEF Progress
    <3>2. \A id \in ids : after.inDegree[id] \in {0, 1}
      BY <2>4, <2>8
    <3> QED BY <3>1, <3>2
  <2>10. Cardinality(W) = after.visited
    <3>1. IsFiniteSet(V)
      BY <2>4, FS_Subset DEF Progress
    <3>2. Cardinality(V) = s.visited
      BY DEF Progress
    <3>3. Cardinality(W) = Cardinality(V) + 1
      BY <2>5, <3>1, FS_AddElement
    <3> QED BY <2>3, <3>2, <3>3
  <2>11. \A id \in s.queue \cup V : s.inDegree[id] = 0 /\ id \in ids
    BY DEF Progress
  <2>12. \A id \in s.queue \cup W : id \notin children
    <3> SUFFICES ASSUME NEW id \in s.queue \cup V, id \in children PROVE FALSE
      BY <2>2
    <3>1. PICK t \in ToSet(tasks) : t.id = id
      BY <2>4, <2>11
    <3>2. Waits(t, {node}) /\ s.inDegree[t.id] = 0
      BY <2>6, <2>11, <3>1
    <3>3. Waits(t, ids \ V)
      BY <2>5, <3>2 DEF Waits
    <3> QED BY <3>2, <3>3 DEF Progress
  <2>13. \A id \in s.queue \cup W : after.inDegree[id] = 0
    BY <2>2, <2>3, <2>11, <2>12 DEF Progress
  <2>14. \A id \in children : id \notin S
    <3> SUFFICES ASSUME NEW id \in children, id \in S PROVE FALSE
      OBVIOUS
    <3>1. PICK t \in ToSet(tasks) : t.id = id
      BY <2>4
    <3>2. Waits(t, {node}) /\ Waits(t, S)
      BY <2>6, <3>1
    <3> QED BY <2>5, <3>2 DEF Waits
  <2>15. after.queue \subseteq ids \ (S \cup W)
    BY <2>3, <2>7, <2>12, <2>14 DEF Progress
  <2>16. \A id \in ids : after.inDegree[id] = 0 <=> id \in after.queue \cup W
    <3>1. \A id \in after.queue \cup W : after.inDegree[id] = 0
      BY <2>3, <2>13
    <3>2. ASSUME NEW id \in ids, after.inDegree[id] = 0, id \notin children
          PROVE  id \in s.queue \cup V
      <4>1. s.inDegree[id] = 0
        BY <2>3, <3>2 DEF Progress
      <4> QED BY <4>1 DEF Progress
    <3> QED BY <2>3, <3>1, <3>2
  <2>17. W \subseteq ids \ S
    BY <2>5 DEF Progress
  <2>18. Progress(tasks, after, S, W)
    BY <2>8, <2>9, <2>10, <2>15, <2>16, <2>17 DEF Progress
  <2> QED BY <2>1, <2>18
<1> QED BY <1>1, <1>2

(* After any number of rounds the loop is where Progress says.             *)
LEMMA ProgressHolds ==
  ASSUME NEW tasks, Listed(tasks), NEW S \in SUBSET ToSet(Ids(tasks)),
         \A t \in ToSet(tasks) : t.id \in S => Waits(t, S),
         NEW after, \A n \in Nat : after[n] = IF n = 0 THEN KahnInit(tasks)
                                             ELSE KahnRound(tasks, after[n - 1]),
         NEW n \in Nat
  PROVE  \E V : Progress(tasks, after[n], S, V)
<1> DEFINE Bad == {m \in Nat : ~ \E V : Progress(tasks, after[m], S, V)}
<1> SUFFICES ASSUME Bad # {} PROVE FALSE
  OBVIOUS
<1>1. PICK m \in Bad : \A k \in Bad : m <= k
  BY LeastExists
<1>2. m # 0
  BY <1>1, ProgressInit
<1>3. m - 1 \in Nat /\ m - 1 \notin Bad
  BY <1>1, <1>2
<1>4. PICK V : Progress(tasks, after[m - 1], S, V)
  BY <1>3
<1>5. \E W : Progress(tasks, KahnRound(tasks, after[m - 1]), S, W)
  BY <1>4, ProgressRound
<1> QED BY <1>1, <1>2, <1>5

(* If all were visited, of any tasks one waits for none of the others.     *)
LEMMA NoCycleLeft ==
  ASSUME NEW tasks, Listed(tasks), HasNoCycle(tasks)
  PROVE  CanBeCarriedOut(tasks)
<1> DEFINE ids == ToSet(Ids(tasks))
<1>1. ids = {t.id : t \in ToSet(tasks)} /\ IsFiniteSet(ids) /\ Len(tasks) \in Nat
  BY IdsOfTasks DEF Listed
<1>2. ASSUME NEW S \in SUBSET ids, S # {},
             \A t \in ToSet(tasks) : t.id \in S => Waits(t, S)
      PROVE  FALSE
  <2>1. PICK after : /\ \A n \in Nat : after[n] = IF n = 0 THEN KahnInit(tasks)
                                                  ELSE KahnRound(tasks, after[n - 1])
                     /\ Kahn(tasks) = after[Len(tasks)]
    BY KahnRounds
  <2>2. PICK V : Progress(tasks, Kahn(tasks), S, V)
    <3>1. \E V : Progress(tasks, after[Len(tasks)], S, V)
      BY <1>1, <1>2, <2>1, ProgressHolds
    <3> QED BY <2>1, <3>1
  <2>3. PICK x : x \in S
    BY <1>2
  <2>4. V \in SUBSET (ids \ {x}) /\ Cardinality(V) = Cardinality(ids)
    BY <2>2, <2>3 DEF Progress, HasNoCycle
  <2>5. IsFiniteSet(ids \ {x}) /\ Cardinality(ids \ {x}) = Cardinality(ids) - 1
    BY <1>1, <2>3, FS_RemoveElement
  <2>6. Cardinality(V) <= Cardinality(ids) - 1 /\ Cardinality(ids) \in Nat
    BY <1>1, <2>4, <2>5, FS_Subset, FS_CardinalityType
  <2> QED BY <2>4, <2>6
<1>3. \A t \in ToSet(tasks) : t.dependsOn \in ids \cup {Unset}
  BY DEF Listed
<1>4. ASSUME NEW S \in (SUBSET ids) \ {{}}
      PROVE  \E t \in ToSet(tasks) : t.id \in S /\ t.dependsOn \in (ids \ S) \cup {Unset}
  <2>1. PICK t \in ToSet(tasks) : t.id \in S /\ ~ Waits(t, S)
    <3>1. S \in SUBSET ids /\ S # {}
      OBVIOUS
    <3> QED BY <1>2, <3>1
  <2> QED BY <1>3, <2>1 DEF Waits
<1> QED BY <1>3, <1>4 DEF CanBeCarriedOut

(* Every round visits a task, until the queue is empty.                    *)
LEMMA RoundsVisit ==
  ASSUME NEW tasks,
         NEW after, \A n \in Nat : after[n] = IF n = 0 THEN KahnInit(tasks)
                                             ELSE KahnRound(tasks, after[n - 1]),
         NEW n \in Nat
  PROVE  after[n].queue = {} \/ after[n].visited = n
<1> DEFINE Bad == {m \in Nat : ~ (after[m].queue = {} \/ after[m].visited = m)}
<1> SUFFICES ASSUME Bad # {} PROVE FALSE
  OBVIOUS
<1>1. PICK m \in Bad : \A k \in Bad : m <= k
  BY LeastExists
<1>2. m # 0
  <2>1. after[0] = KahnInit(tasks)
    OBVIOUS
  <2>2. after[0].visited = 0
    BY <2>1 DEF KahnInit
  <2> QED BY <1>1, <2>2
<1>3. m - 1 \in Nat /\ m - 1 \notin Bad
  BY <1>1, <1>2
<1>4. after[m] = KahnRound(tasks, after[m - 1])
  BY <1>1, <1>2
<1>5. CASE after[m - 1].queue = {}
  BY <1>1, <1>4, <1>5 DEF KahnRound
<1>6. CASE after[m - 1].queue # {} /\ after[m - 1].visited = m - 1
  BY <1>1, <1>4, <1>6 DEF KahnRound, Visit
<1> QED BY <1>3, <1>5, <1>6

(* When the queue is empty, nothing waits but what waits for each other.   *)
LEMMA AllVisited ==
  ASSUME NEW tasks, Listed(tasks), CanBeCarriedOut(tasks),
         NEW s, NEW V, Progress(tasks, s, {}, V), s.queue = {}
  PROVE  V = ToSet(Ids(tasks))
<1> DEFINE ids == ToSet(Ids(tasks))
<1> SUFFICES ASSUME ids \ V # {} PROVE FALSE
  BY DEF Progress
<1>1. ids \ V \in (SUBSET ids) \ {{}}
  OBVIOUS
<1>2. PICK t \in ToSet(tasks) : /\ t.id \in ids \ V
                               /\ t.dependsOn \in (ids \ (ids \ V)) \cup {Unset}
  BY <1>1 DEF CanBeCarriedOut
<1>3. s.inDegree[t.id] # 1
  BY <1>2 DEF Progress, Waits
<1>4. s.inDegree[t.id] = 0
  BY <1>2, <1>3 DEF Progress
<1> QED BY <1>2, <1>4 DEF Progress

(* checkDAGCycles decides: of the tasks of a workflow, whose ids differ    *)
(* and which depend on each other only, all are visited just in case they  *)
(* can be carried out.  So it lets no cycle by and refuses nothing else.   *)
THEOREM CyclesDecided ==
  ASSUME NEW tasks, Listed(tasks)
  PROVE  HasNoCycle(tasks) <=> CanBeCarriedOut(tasks)
<1> DEFINE ids == ToSet(Ids(tasks))
<1>1. IsFiniteSet(ids) /\ Cardinality(ids) \in Nat /\ Len(tasks) \in Nat
      /\ Cardinality(ids) <= Len(tasks)
  BY IdsOfTasks, FS_CardinalityType DEF Listed
<1>2. ASSUME CanBeCarriedOut(tasks) PROVE HasNoCycle(tasks)
  <2>1. PICK after : /\ \A n \in Nat : after[n] = IF n = 0 THEN KahnInit(tasks)
                                                  ELSE KahnRound(tasks, after[n - 1])
                     /\ Kahn(tasks) = after[Len(tasks)]
    BY KahnRounds
  <2> DEFINE s == Kahn(tasks)
  <2>2. PICK V : Progress(tasks, s, {}, V)
    <3>1. \A S : S = {} => S \in SUBSET ids /\ \A t \in ToSet(tasks) : t.id \in S => Waits(t, S)
      OBVIOUS
    <3>2. \E V : Progress(tasks, after[Len(tasks)], {}, V)
      BY <1>1, <2>1, <3>1, ProgressHolds
    <3> QED BY <2>1, <3>2
  <2>3. V \in SUBSET ids /\ Cardinality(V) = s.visited
    BY <2>2 DEF Progress
  <2>4. CASE s.queue = {}
    BY <1>2, <2>2, <2>3, <2>4, AllVisited DEF HasNoCycle
  <2>5. CASE s.visited = Len(tasks)
    <3>1. Cardinality(V) <= Cardinality(ids)
      BY <1>1, <2>3, FS_Subset
    <3> QED BY <1>1, <2>3, <2>5, <3>1 DEF HasNoCycle
  <2> QED BY <1>1, <2>1, <2>4, <2>5, RoundsVisit
<1> QED BY <1>2, NoCycleLeft

-----------------------------------------------------------------------------
LEMMA WithDefaultsFields ==
  ASSUME NEW doc, IsDocument(doc)
  PROVE  LET config == WithDefaults(doc)
         IN  /\ config.workflows = doc.workflows /\ config.standalone = doc.standalone
             /\ config.workerSlots # 0 /\ config.timeout # 0
BY DEF IsDocument, WithDefaults, OrDefault

(* No id has two places, so no two tasks of a workflow share one.          *)
LEMMA AcceptedIsListed ==
  ASSUME NEW doc, IsDocument(doc), validateConfig(doc), NEW w \in DOMAIN doc.workflows
  PROVE  Listed(doc.workflows[w].tasks)
<1> DEFINE tasks == doc.workflows[w].tasks
<1>1. doc.workflows[w] \in ToSet(doc.workflows)
  BY DEF ToSet
<1>2. IsList(tasks) /\ WorkflowIsValid(doc.workflows[w])
  BY <1>1 DEF IsDocument, validateConfig
<1>3. ASSUME NEW i \in DOMAIN tasks, NEW j \in DOMAIN tasks, tasks[i].id = tasks[j].id
      PROVE  i = j
  <2>1. <<w, i>> \in FlowPlaces(doc) /\ <<w, j>> \in FlowPlaces(doc)
    BY DEF FlowPlaces
  <2>2. FlowTask(doc, <<w, i>>).id = FlowTask(doc, <<w, j>>).id
    BY <1>3 DEF FlowTask
  <2>3. <<w, i>> = <<w, j>>
    BY <2>1, <2>2 DEF validateConfig, IdsDiffer
  <2> QED BY <2>3
<1>4. \A t, u \in ToSet(tasks) : t.id = u.id => t = u
  BY <1>3 DEF ToSet
<1> QED BY <1>2, <1>4 DEF Listed, WorkflowIsValid

LEMMA PlacesDiffer ==
  ASSUME NEW doc, IsDocument(doc), IdsDiffer(doc),
         NEW p \in Places(doc), NEW q \in Places(doc), TaskAt(doc, p).id = TaskAt(doc, q).id
  PROVE  p = q
<1> DEFINE alone == Ids(doc.standalone)
<1>1. \A x \in FlowPlaces(doc) : x[1] # 0 /\ TaskAt(doc, x) = FlowTask(doc, x)
  <2>1. 0 \notin DOMAIN doc.workflows
    BY DEF IsDocument, IsList
  <2> QED BY <2>1 DEF FlowPlaces, TaskAt
<1>2. \A x \in {0} \X DOMAIN doc.standalone :
         /\ x[2] \in DOMAIN alone /\ TaskAt(doc, x).id = alone[x[2]]
         /\ TaskAt(doc, x).id \in ToSet(alone)
  BY DEF TaskAt, Ids, ToSet
<1>3. CASE p \in FlowPlaces(doc) /\ q \in FlowPlaces(doc)
  BY <1>1, <1>3 DEF IdsDiffer
<1>4. CASE p \in {0} \X DOMAIN doc.standalone /\ q \in {0} \X DOMAIN doc.standalone
  <2>1. p[2] = q[2]
    BY <1>2, <1>4 DEF IdsDiffer, IsInjective
  <2> QED BY <1>4, <2>1
<1>5. CASE \/ p \in FlowPlaces(doc) /\ q \in {0} \X DOMAIN doc.standalone
           \/ q \in FlowPlaces(doc) /\ p \in {0} \X DOMAIN doc.standalone
  BY <1>1, <1>2, <1>5 DEF IdsDiffer
<1> QED BY <1>3, <1>4, <1>5 DEF Places

(* Whatever LoadConfig accepts is sound: its workflows can be carried out, *)
(* each id names one task, no timeout is zero and every task gives up.     *)
THEOREM AcceptedIsSound ==
  ASSUME NEW doc, IsDocument(doc), Accepts(doc)
  PROVE  IsSound(WithDefaults(doc))
<1> DEFINE config == WithDefaults(doc)
<1>1. /\ config.workflows = doc.workflows /\ config.standalone = doc.standalone
      /\ config.workerSlots # 0 /\ config.timeout # 0
      /\ validateConfig(doc) /\ config.maxRetries <= maxRetriesLimit
  BY WithDefaultsFields DEF Accepts
<1> HIDE DEF config
<1>2. \A wf \in ToSet(doc.workflows) : CanBeCarriedOut(wf.tasks)
  <2> SUFFICES ASSUME NEW w \in DOMAIN doc.workflows
               PROVE  CanBeCarriedOut(doc.workflows[w].tasks)
    BY DEF ToSet
  <2>1. WorkflowIsValid(doc.workflows[w])
    BY <1>1 DEF validateConfig, ToSet
  <2> QED BY <1>1, <2>1, AcceptedIsListed, NoCycleLeft DEF WorkflowIsValid
<1>3. Places(config) = Places(doc) /\ \A p : TaskAt(config, p) = TaskAt(doc, p)
  BY <1>1 DEF Places, FlowPlaces, TaskAt, FlowTask
<1>4. \A p, q \in Places(doc) : TaskAt(doc, p).id = TaskAt(doc, q).id => p = q
  BY <1>1, PlacesDiffer DEF validateConfig
<1>5. ASSUME NEW p \in Places(doc) PROVE LimitsHold(TaskAt(doc, p))
  <2>1. CASE p \in FlowPlaces(doc)
    <3>0. PICK w \in DOMAIN doc.workflows : p \in {w} \X DOMAIN doc.workflows[w].tasks
      BY <2>1 DEF FlowPlaces
    <3>1. PICK i \in DOMAIN doc.workflows[w].tasks : p = <<w, i>>
      BY <3>0
    <3>2. w # 0
      BY DEF IsDocument, IsList
    <3>3. TaskAt(doc, p) = doc.workflows[w].tasks[i]
      BY <3>1, <3>2 DEF TaskAt, FlowTask
    <3>4. WorkflowIsValid(doc.workflows[w])
      BY <1>1 DEF validateConfig, ToSet
    <3> QED BY <3>3, <3>4 DEF WorkflowIsValid, ToSet
  <2>2. CASE p \in {0} \X DOMAIN doc.standalone
    <3>1. TaskAt(doc, p) \in ToSet(doc.standalone)
      BY <2>2 DEF TaskAt, ToSet
    <3> QED BY <1>1, <3>1 DEF validateConfig
  <2> QED BY <2>1, <2>2 DEF Places
<1>6. \A p \in Places(doc) :
        /\ Override(TaskAt(doc, p).timeout, config.timeout) # 0
        /\ Override(TaskAt(doc, p).maxRetries, config.maxRetries) <= maxRetriesLimit
  BY <1>1, <1>5 DEF LimitsHold, Override
<1>7. IsSound(config)
  BY <1>1, <1>2, <1>3, <1>4, <1>6 DEF IsSound
<1> QED BY <1>7 DEF config

-----------------------------------------------------------------------------
(* A daemon that is not down runs with a file that was accepted.           *)
RunsAccepted == \A d \in Daemons : stage[d] # "down" => inForce[d] \in Accepted

LEMMA AcceptedStep ==
  ASSUME IInv, RunsAccepted, [Next]_vars
  PROVE  RunsAccepted'
<1>1. stage \in [Daemons -> Stages] /\ inForce \in [Daemons -> Files \cup {NoDoc}]
  BY DEF IInv, TypeOK, Tables
<1>2. ASSUME NEW d \in Daemons, Load(d) PROVE RunsAccepted'
  BY <1>1, <1>2 DEF Load, Moves, RunsAccepted
<1>3. ASSUME NEW d \in Daemons, Gone(d) PROVE RunsAccepted'
  BY <1>1, <1>3 DEF Gone, RunsAccepted
<1>4. ASSUME NEW d \in Daemons, stage[d] # "down", UNCHANGED inForce,
             \A e \in Daemons \ {d} : stage'[e] = stage[e]
      PROVE  RunsAccepted'
  BY <1>4 DEF RunsAccepted
<1>5. ASSUME NEW d \in Daemons, Process(d) PROVE RunsAccepted'
  <2>1. CASE AlreadyRunning(d) \/ BindFails(d) \/ ChmodFails(d) \/ Drained(d)
    BY <1>3, <2>1 DEF AlreadyRunning, BindFails, ChmodFails, Drained
  <2>2. CASE Watch(d) \/ CloseWatcher(d)
    BY <1>1, <1>4, <2>2 DEF Moves, Watch, CloseWatcher
  <2>3. CASE /\ \/ Find(d) \/ Dial(d) \/ RemoveStale(d) \/ Bind(d) \/ Listen(d) \/ Chmod(d)
                \/ CloseListener(d) \/ RemovePath(d)
             /\ Kept
    <3>1. stage[d] # "down"
      BY <2>3 DEF Moves, Find, Dial, RemoveStale, Bind, Listen, Chmod, CloseListener, RemovePath
    <3>2. UNCHANGED inForce
      BY <2>3 DEF Kept, reload
    <3>3. \E to : stage' = [stage EXCEPT ![d] = to]
      BY <2>3 DEF Moves, Find, Dial, RemoveStale, Bind, Listen, Chmod, CloseListener, RemovePath
    <3> QED BY <1>1, <1>4, <3>1, <3>2, <3>3
  <2> QED BY <1>5, <2>1, <2>2, <2>3 DEF Process
<1>6. ASSUME NEW d \in Daemons, Crash(d) PROVE RunsAccepted'
  BY <1>3, <1>6 DEF Crash
<1>7. ASSUME NEW d \in Daemons, Signal(d) /\ Kept PROVE RunsAccepted'
  BY <1>1, <1>4, <1>7 DEF Moves, Signal, Kept, reload
<1>8. ASSUME NEW d \in Daemons, Apply(d) PROVE RunsAccepted'
  BY <1>1, <1>8 DEF Apply, process, RunsAccepted
<1>9. CASE \/ \E d \in Daemons : HandleEvent(d) \/ Debounced(d)
           \/ BeginWrite \/ FinishWrite \/ Replace \/ UNCHANGED vars
  BY <1>9 DEF HandleEvent, Debounced, BeginWrite, FinishWrite, Replace, vars, process, reload,
     RunsAccepted, Accepted, Files
<1> QED BY <1>2, <1>5, <1>6, <1>7, <1>8, <1>9 DEF Next, Loop

(* Whatever is written to the file and however much of it is there when it *)
(* is read, every daemon runs, from its start on and after every reload,   *)
(* with a configuration whose workflows can be carried out.                *)
THEOREM ConfigurationsSound == Spec => []InForceIsSound
<1>1. Init => RunsAccepted
  BY DEF Init, RunsAccepted
<1>2. IInv /\ RunsAccepted /\ [Next]_vars => RunsAccepted'
  BY AcceptedStep
<1>3. RunsAccepted => InForceIsSound
  <2> SUFFICES ASSUME RunsAccepted, NEW d \in Daemons, stage[d] # "down"
               PROVE  IsSound(Loaded(inForce[d]))
    BY DEF InForceIsSound
  <2>1. inForce[d] \in Files /\ Accepts(Content[inForce[d]])
    BY DEF RunsAccepted, Accepted
  <2>2. IsDocument(Content[inForce[d]])
    BY <2>1, DaemonAssumption DEF Accepts, Files
  <2> QED BY <2>1, <2>2, AcceptedIsSound DEF Loaded
<1> QED BY <1>1, <1>2, <1>3, Invariance, PTL DEF Spec
=================================================================================

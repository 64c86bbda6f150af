---------------------------- MODULE WorkerPoolProofs ----------------------------
(***************************************************************************)
(* Theorems about the worker pool, for every finite set of jobs, every     *)
(* assignment of jobs to tasks, every number of slots and every capacity   *)
(* of the results channel.                                                 *)
(***************************************************************************)
EXTENDS WorkerPool, FiniteSetTheorems, TLAPS

-----------------------------------------------------------------------------
(* Counting the goroutines that are at one of some places.                 *)
At(S) == {j \in Jobs : pc[j] \in S}

LEMMA AtFinite ==
  ASSUME NEW S
  PROVE  IsFiniteSet(At(S)) /\ Cardinality(At(S)) \in Nat
  BY JobsAssumption, FS_Subset, FS_CardinalityType DEF At

(* A goroutine that moves into the places adds one, one that leaves them   *)
(* takes one away, and any other move changes nothing.                     *)
LEMMA AtMove ==
  ASSUME pc \in [Jobs -> Places], NEW S, NEW j \in Jobs,
         NEW from, NEW to, Moves(j, from, to)
  PROVE  /\ from \notin S /\ to \in S
              => Cardinality(At(S)') = Cardinality(At(S)) + 1
         /\ from \in S /\ to \notin S
              => /\ Cardinality(At(S)') = Cardinality(At(S)) - 1
                 /\ Cardinality(At(S)) > 0
         /\ (from \in S <=> to \in S)
              => Cardinality(At(S)') = Cardinality(At(S))
<1>0. pc[j] = from /\ \A k \in Jobs : pc'[k] = IF k = j THEN to ELSE pc[k]
  BY DEF Moves
<1>1. IsFiniteSet(At(S)) /\ Cardinality(At(S)) \in Nat
  BY AtFinite
<1>2. ASSUME from \notin S, to \in S
      PROVE  Cardinality(At(S)') = Cardinality(At(S)) + 1
  <2>1. At(S)' = At(S) \cup {j} /\ j \notin At(S)
    BY <1>0, <1>2 DEF At
  <2> QED BY <2>1, <1>1, FS_AddElement
<1>3. ASSUME from \in S, to \notin S
      PROVE  /\ Cardinality(At(S)') = Cardinality(At(S)) - 1
             /\ Cardinality(At(S)) > 0
  <2>1. At(S)' = At(S) \ {j} /\ j \in At(S)
    BY <1>0, <1>3 DEF At
  <2>2. Cardinality(At(S)) # 0
    BY <1>1, <2>1, FS_EmptySet
  <2>3. Cardinality(At(S) \ {j}) = Cardinality(At(S)) - 1
    BY <1>1, <2>1, FS_RemoveElement
  <2>4. \A n \in Nat : n # 0 => n > 0
    OBVIOUS
  <2> QED BY <1>1, <2>1, <2>2, <2>3, <2>4
<1>4. ASSUME from \in S <=> to \in S
      PROVE  Cardinality(At(S)') = Cardinality(At(S))
  <2>1. At(S)' = At(S)
    BY <1>0, <1>4 DEF At
  <2> QED BY <2>1
<1> QED BY <1>2, <1>3, <1>4

-----------------------------------------------------------------------------
(* Types and counters are inductive together: the semaphore stays within   *)
(* its capacity because its tokens are exactly the holders.                *)
Counters == TypeOK /\ SlotAccounting /\ WaitGroupCounts

LEMMA CountsAt == /\ Holders = At(Holding) /\ Holders' = At(Holding)'
                  /\ Live = At(Places \ Dormant) /\ Live' = At(Places \ Dormant)'
  BY DEF Holders, Live, At

LEMMA CountersInit == Init => Counters
<1> SUFFICES ASSUME Init PROVE Counters
  OBVIOUS
<1>1. Holders = {} /\ Live = {}
  BY DEF Init, Holders, Live, Holding, Dormant
<1>2. TypeOK
  BY SlotsAssumption, ResultsCapAssumption
     DEF Init, TypeOK, Places, Dormant, Results
<1> QED BY <1>1, <1>2, FS_EmptySet DEF Counters, SlotAccounting, WaitGroupCounts, Init

(* How each goroutine step changes the two counts.                         *)
LEMMA MoveCounts ==
  ASSUME TypeOK, NEW j \in Jobs, NEW from \in Places, NEW to \in Places,
         Moves(j, from, to)
  PROVE  /\ pc' \in [Jobs -> Places]
         /\ from \notin Holding /\ to \in Holding
              => Cardinality(Holders') = Cardinality(Holders) + 1
         /\ from \in Holding /\ to \notin Holding
              => Cardinality(Holders') = Cardinality(Holders) - 1
                 /\ Cardinality(Holders) > 0
         /\ (from \in Holding <=> to \in Holding)
              => Cardinality(Holders') = Cardinality(Holders)
         /\ from \in Dormant /\ to \notin Dormant
              => Cardinality(Live') = Cardinality(Live) + 1
         /\ from \notin Dormant /\ to \in Dormant
              => Cardinality(Live') = Cardinality(Live) - 1
                 /\ Cardinality(Live) > 0
         /\ (from \in Dormant <=> to \in Dormant)
              => Cardinality(Live') = Cardinality(Live)
<1>1. pc \in [Jobs -> Places] /\ pc' \in [Jobs -> Places]
  BY DEF TypeOK, Moves
<1>2. /\ from \notin Holding /\ to \in Holding
           => Cardinality(At(Holding)') = Cardinality(At(Holding)) + 1
      /\ from \in Holding /\ to \notin Holding
           => /\ Cardinality(At(Holding)') = Cardinality(At(Holding)) - 1
              /\ Cardinality(At(Holding)) > 0
      /\ (from \in Holding <=> to \in Holding)
           => Cardinality(At(Holding)') = Cardinality(At(Holding))
  BY <1>1, AtMove
<1> DEFINE Busy == Places \ Dormant
<1>3. /\ from \notin Busy /\ to \in Busy
           => Cardinality(At(Busy)') = Cardinality(At(Busy)) + 1
      /\ from \in Busy /\ to \notin Busy
           => /\ Cardinality(At(Busy)') = Cardinality(At(Busy)) - 1
              /\ Cardinality(At(Busy)) > 0
      /\ (from \in Busy <=> to \in Busy)
           => Cardinality(At(Busy)') = Cardinality(At(Busy))
  BY <1>1, AtMove
<1> QED BY <1>1, <1>2, <1>3, CountsAt

LEMMA CountersStep == Counters /\ [Next]_vars => Counters'
<1> SUFFICES ASSUME Counters, [Next]_vars PROVE Counters'
  OBVIOUS
<1> USE DEF Counters
<1>0. sem \in Nat /\ wg \in Nat
  BY DEF TypeOK
<1>1. ASSUME NEW j \in Jobs, Submit(j) PROVE Counters'
  <2>1. Moves(j, "unborn", "waiting")
    BY <1>1 DEF Submit
  <2>2. /\ pc' \in [Jobs -> Places]
        /\ Cardinality(Holders') = Cardinality(Holders)
        /\ Cardinality(Live') = Cardinality(Live) + 1
    BY <2>1, MoveCounts DEF Places, Holding, Dormant, Answered
  <2> QED BY <1>1, <2>2 DEF Submit, TypeOK, SlotAccounting, WaitGroupCounts
<1>2. ASSUME NEW j \in Jobs, Acquire(j) PROVE Counters'
  <2>1. Moves(j, "waiting", "admitted")
    BY <1>2 DEF Acquire
  <2>2. /\ pc' \in [Jobs -> Places]
        /\ Cardinality(Holders') = Cardinality(Holders) + 1
        /\ Cardinality(Live') = Cardinality(Live)
    BY <2>1, MoveCounts DEF Places, Holding, Dormant, Answered
  <2>3. sem' \in 0..Slots
    BY <1>2, <1>0, SlotsAssumption DEF Acquire
  <2> QED BY <1>2, <2>2, <2>3 DEF Acquire, TypeOK, SlotAccounting, WaitGroupCounts
<1>3. ASSUME NEW j \in Jobs, Refuse(j) PROVE Counters'
  <2>1. Moves(j, "waiting", "refusing")
    BY <1>3 DEF Refuse
  <2>2. /\ pc' \in [Jobs -> Places]
        /\ Cardinality(Holders') = Cardinality(Holders)
        /\ Cardinality(Live') = Cardinality(Live)
    BY <2>1, MoveCounts DEF Places, Holding, Dormant, Answered
  <2> QED BY <1>3, <2>2 DEF Refuse, TypeOK, SlotAccounting, WaitGroupCounts
<1>4. ASSUME NEW j \in Jobs, SendRefusal(j) \/ SendResult(j) PROVE Counters'
  <2>1. \/ Moves(j, "refusing", "exiting") /\ Send(j, "refused")
        \/ Moves(j, "sending", "releasing") /\ Send(j, "ran")
    BY <1>4 DEF SendRefusal, SendResult
  <2>2. /\ pc' \in [Jobs -> Places]
        /\ Cardinality(Holders') = Cardinality(Holders)
        /\ Cardinality(Live') = Cardinality(Live)
    BY <2>1, MoveCounts DEF Places, Holding, Dormant, Answered
  <2>3. results' \in Seq(Results) /\ Len(results') <= ResultsCap
    <3>1. PICK status \in {"ran", "refused"} : Send(j, status)
      BY <2>1
    <3>2. [job |-> j, status |-> status] \in Results
      BY DEF Results
    <3> QED BY <3>1, <3>2, ResultsCapAssumption DEF Send, TypeOK
  <2> QED BY <1>4, <2>2, <2>3
       DEF SendRefusal, SendResult, TypeOK, SlotAccounting, WaitGroupCounts
<1>5. ASSUME NEW j \in Jobs, Track(j) \/ RunReturns(j) \/ Untrack(j) PROVE Counters'
  <2>1. \/ Moves(j, "admitted", "running")
        \/ Moves(j, "running", "ran")
        \/ Moves(j, "ran", "sending")
    BY <1>5 DEF Track, RunReturns, Untrack
  <2>2. /\ pc' \in [Jobs -> Places]
        /\ Cardinality(Holders') = Cardinality(Holders)
        /\ Cardinality(Live') = Cardinality(Live)
    BY <2>1, MoveCounts DEF Places, Holding, Dormant, Answered
  <2>3. /\ active' \in [Tasks -> Jobs \cup {NoJob}]
        /\ overlapped' \subseteq Jobs
    BY <1>5 DEF Track, RunReturns, Untrack, TypeOK, Beside, Rivals
  <2> QED BY <1>5, <2>2, <2>3
       DEF Track, RunReturns, Untrack, TypeOK, SlotAccounting, WaitGroupCounts
<1>6. ASSUME NEW j \in Jobs, Release(j) PROVE Counters'
  <2>1. Moves(j, "releasing", "exiting")
    BY <1>6 DEF Release
  <2>2. /\ pc' \in [Jobs -> Places]
        /\ Cardinality(Holders') = Cardinality(Holders) - 1
        /\ Cardinality(Holders) > 0
        /\ Cardinality(Live') = Cardinality(Live)
    BY <2>1, MoveCounts DEF Places, Holding, Dormant, Answered
  <2>3. sem' \in 0..Slots
    BY <1>6, <1>0, <2>2, SlotsAssumption DEF Release, SlotAccounting, TypeOK
  <2> QED BY <1>6, <2>2, <2>3 DEF Release, TypeOK, SlotAccounting, WaitGroupCounts
<1>7. ASSUME NEW j \in Jobs, Exit(j) PROVE Counters'
  <2>1. Moves(j, "exiting", "gone")
    BY <1>7 DEF Exit
  <2>2. /\ pc' \in [Jobs -> Places]
        /\ Cardinality(Holders') = Cardinality(Holders)
        /\ Cardinality(Live') = Cardinality(Live) - 1
        /\ Cardinality(Live) > 0
    BY <2>1, MoveCounts DEF Places, Holding, Dormant, Answered
  <2> QED BY <1>7, <1>0, <2>2 DEF Exit, TypeOK, SlotAccounting, WaitGroupCounts
<1>8. CASE Receive
  <2>1. results' \in Seq(Results) /\ Len(results') <= ResultsCap
    BY <1>8, ResultsCapAssumption DEF Receive, TypeOK
  <2>2. handled' \in [Jobs -> Nat]
    <3>1. Head(results) \in Results
      BY <1>8 DEF Receive, TypeOK
    <3>2. Head(results).job \in Jobs
      BY <3>1 DEF Results
    <3> QED BY <1>8, <3>2 DEF Receive, TypeOK
  <2> QED BY <1>8, <2>1, <2>2
       DEF Receive, TypeOK, SlotAccounting, WaitGroupCounts, Holders, Live
<1>9. CASE StopLoop \/ Signal \/ CancelPool \/ WaitReturns
  BY <1>9 DEF StopLoop, Signal, CancelPool, WaitReturns, TypeOK,
              SlotAccounting, WaitGroupCounts, Holders, Live
<1>10. CASE UNCHANGED vars
  BY <1>10 DEF vars, TypeOK, SlotAccounting, WaitGroupCounts, Holders, Live
<1> QED BY <1>1, <1>2, <1>3, <1>4, <1>5, <1>6, <1>7, <1>8, <1>9, <1>10
     DEF Next, Goroutine

(* The pool's state is always well formed, its semaphore counts exactly    *)
(* the goroutines that hold a slot and its WaitGroup the unfinished ones.  *)
THEOREM CountersHold == Spec => []Counters
  BY CountersInit, CountersStep, PTL DEF Spec

(* The state of the pool is well formed.                                   *)
THEOREM TypeCorrect == Spec => []TypeOK
<1>1. Counters => TypeOK
  BY DEF Counters
<1> QED BY CountersHold, <1>1, PTL

(* The semaphore holds one token for each job between its acquisition and  *)
(* its deferred release: no slot leaks and none is given back twice.       *)
THEOREM SlotsAccounted == Spec => []SlotAccounting
<1>1. Counters => SlotAccounting
  BY DEF Counters
<1> QED BY CountersHold, <1>1, PTL

(* The WaitGroup counts the goroutines that have not finished: Add comes   *)
(* before each of them starts, and Done once, at its end.                  *)
THEOREM WaitGroupExact == Spec => []WaitGroupCounts
<1>1. Counters => WaitGroupCounts
  BY DEF Counters
<1> QED BY CountersHold, <1>1, PTL

(* Never more than Slots jobs execute at once (worker_slots).              *)
THEOREM SlotsRespected == Spec => []SlotBound
<1>1. Counters => SlotBound
  <2> SUFFICES ASSUME Counters PROVE SlotBound
    OBVIOUS
  <2> DEFINE R == {j \in Jobs : pc[j] = "running"}
  <2>1. R \subseteq Holders /\ IsFiniteSet(Holders)
    BY AtFinite, CountsAt DEF Holders, Holding
  <2>2. IsFiniteSet(R) /\ Cardinality(R) <= Cardinality(Holders)
    BY <2>1, FS_Subset
  <2>3. Cardinality(R) \in Nat /\ Cardinality(Holders) \in Nat
    BY <2>1, <2>2, FS_CardinalityType
  <2> HIDE DEF R
  <2>4. Cardinality(R) <= Slots
    BY <2>2, <2>3, SlotsAssumption DEF Counters, TypeOK, SlotAccounting
  <2> QED BY <2>4 DEF SlotBound, R
<1> QED BY CountersHold, <1>1, PTL

-----------------------------------------------------------------------------
(* The active map.  A finished job deletes its task's entry whichever job  *)
(* it names, so that a job alone on its task keeps its entry only because  *)
(* whoever was tracked beside it is known to have overlapped it.           *)
OverlapsKnown ==
  \A j, k \in Jobs :
    j # k /\ TaskOf[j] = TaskOf[k] /\ pc[j] \in Tracked /\ pc[k] \in Tracked
      => j \in overlapped

ActiveMap == NoStaleActive /\ SoloJobIsActive /\ OverlapsKnown

LEMMA ActiveStep ==
  ASSUME TypeOK, ActiveMap, [Next]_vars
  PROVE  ActiveMap'
<1> USE DEF Tracked
<1>0. /\ pc \in [Jobs -> Places]
      /\ active \in [Tasks -> Jobs \cup {NoJob}]
      /\ TaskOf \in [Jobs -> Tasks]
      /\ NoJob \notin Jobs
      /\ overlapped \subseteq Jobs
  BY TaskOfAssumption, JobsAssumption DEF TypeOK
<1>1. ASSUME NEW j \in Jobs, NEW from, NEW to, Moves(j, from, to),
             from \in Tracked <=> to \in Tracked,
             UNCHANGED <<active, overlapped>>
      PROVE  ActiveMap'
  <2>1. \A k \in Jobs : pc'[k] \in Tracked <=> pc[k] \in Tracked
    BY <1>0, <1>1 DEF Moves
  <2> QED BY <1>0, <1>1, <2>1
       DEF ActiveMap, NoStaleActive, SoloJobIsActive, OverlapsKnown
<1>2. ASSUME NEW j \in Jobs, Track(j)
      PROVE  ActiveMap'
  <2>1. /\ pc[j] = "admitted"
        /\ \A k \in Jobs : pc'[k] = IF k = j THEN "running" ELSE pc[k]
        /\ \A t \in Tasks : active'[t] = IF t = TaskOf[j] THEN j ELSE active[t]
    BY <1>0, <1>2 DEF Track, Moves
  <2>2. /\ overlapped \subseteq overlapped'
        /\ \A k \in Jobs \ {j} : TaskOf[k] = TaskOf[j] /\ pc[k] \in Tracked
                                   => k \in overlapped' /\ j \in overlapped'
    BY <1>2 DEF Track, Beside, Rivals
  <2>3. NoStaleActive'
    BY <1>0, <2>1 DEF ActiveMap, NoStaleActive
  <2>4. SoloJobIsActive'
    BY <1>0, <2>1, <2>2 DEF ActiveMap, SoloJobIsActive
  <2>5. OverlapsKnown'
    BY <1>0, <2>1, <2>2 DEF ActiveMap, OverlapsKnown
  <2> QED BY <2>3, <2>4, <2>5 DEF ActiveMap
<1>3. ASSUME NEW j \in Jobs, Untrack(j)
      PROVE  ActiveMap'
  <2>1. /\ pc[j] = "ran" /\ overlapped' = overlapped
        /\ \A k \in Jobs : pc'[k] = IF k = j THEN "sending" ELSE pc[k]
        /\ \A t \in Tasks : active'[t] = IF t = TaskOf[j] THEN NoJob ELSE active[t]
    BY <1>0, <1>3 DEF Untrack, Moves
  <2>2. NoStaleActive'
    BY <1>0, <2>1 DEF ActiveMap, NoStaleActive
  <2>3. SoloJobIsActive'
    BY <1>0, <2>1 DEF ActiveMap, SoloJobIsActive, OverlapsKnown
  <2>4. OverlapsKnown'
    BY <1>0, <2>1 DEF ActiveMap, OverlapsKnown
  <2> QED BY <2>2, <2>3, <2>4 DEF ActiveMap
<1>4. CASE UNCHANGED <<pc, active, overlapped>>
  BY <1>4 DEF ActiveMap, NoStaleActive, SoloJobIsActive, OverlapsKnown
<1>5. ASSUME NEW j \in Jobs, Submit(j) \/ Goroutine(j)
      PROVE  ActiveMap'
  <2>1. CASE Submit(j) \/ Acquire(j) \/ Refuse(j) \/ RunReturns(j)
    BY <1>1, <2>1 DEF Submit, Acquire, Refuse, RunReturns
  <2>2. CASE SendRefusal(j) \/ SendResult(j) \/ Release(j) \/ Exit(j)
    BY <1>1, <2>2 DEF SendRefusal, SendResult, Release, Exit
  <2> QED BY <1>2, <1>3, <1>5, <2>1, <2>2 DEF Goroutine
<1>6. CASE Receive \/ StopLoop \/ Signal \/ CancelPool \/ WaitReturns
  BY <1>4, <1>6 DEF Receive, StopLoop, Signal, CancelPool, WaitReturns
<1>7. CASE UNCHANGED vars
  BY <1>4, <1>7 DEF vars
<1> QED BY <1>5, <1>6, <1>7 DEF Next

(* The active map only ever names jobs that are running, and it names      *)
(* every running job that has not been tracked together with another of    *)
(* its task, whatever ran before it: two jobs of one task that run at the  *)
(* same time are always both known to have overlapped.                     *)
THEOREM ActiveMapSound ==
  Spec => [](NoStaleActive /\ SoloJobIsActive /\ OverlapsKnown)
<1>1. Init => ActiveMap
  BY DEF Init, ActiveMap, NoStaleActive, SoloJobIsActive, OverlapsKnown, Tracked
<1>2. TypeOK /\ ActiveMap /\ [Next]_vars => ActiveMap'
  BY ActiveStep
<1>3. ActiveMap => NoStaleActive /\ SoloJobIsActive /\ OverlapsKnown
  BY DEF ActiveMap
<1> QED BY <1>1, <1>2, <1>3, TypeCorrect, PTL DEF Spec

(* The active map never names a job that has ended, nor another task's.    *)
THEOREM NoStaleEntries == Spec => []NoStaleActive
<1> QED BY ActiveMapSound, PTL

(* A running job that no other job of its task has overlapped is the one   *)
(* the active map shows, also when other jobs of its task ran and ended    *)
(* before: the tick's "already running" test sees it.                      *)
THEOREM SoloJobSeen == Spec => []SoloJobIsActive
<1> QED BY ActiveMapSound, PTL

-----------------------------------------------------------------------------
(* Results.                                                                *)
LEMMA ResultSent ==
  ASSUME TypeOK, OneResultPerJob, NEW j \in Jobs, NEW from, NEW to, NEW status,
         Moves(j, from, to), from \notin Answered, to \in Answered,
         status \in {"ran", "refused"}, Send(j, status), UNCHANGED handled
  PROVE  OneResultPerJob'
<1> DEFINE n == Len(results)
<1>1. /\ n \in Nat
      /\ DOMAIN results = 1..n
      /\ DOMAIN results' = 1..(n+1)
      /\ \A i \in 1..n : results'[i] = results[i]
      /\ results'[n+1].job = j
  BY DEF TypeOK, Send
<1>2. handled[j] # 1 /\ j \notin InChannel
  BY DEF OneResultPerJob, Moves
<1>3. InChannel' = InChannel \cup {j}
  BY <1>1 DEF InChannel
<1>4. \A i \in 1..n : results[i].job # j
  BY <1>1, <1>2 DEF InChannel
<1>5. \A i, k \in DOMAIN results' : results'[i].job = results'[k].job => i = k
  BY <1>1, <1>4 DEF OneResultPerJob
<1>6. \A k \in Jobs : pc'[k] = IF k = j THEN to ELSE pc[k]
  BY DEF TypeOK, Moves
<1>7. \A k \in Jobs :
        /\ handled'[k] <= 1
        /\ handled'[k] = 1 => k \notin InChannel'
        /\ pc'[k] \in Answered <=> (handled'[k] = 1 \/ k \in InChannel')
  BY <1>2, <1>3, <1>6 DEF OneResultPerJob
<1> QED BY <1>5, <1>7 DEF OneResultPerJob

LEMMA ResultReceived ==
  ASSUME TypeOK, OneResultPerJob, Receive
  PROVE  OneResultPerJob'
<1> DEFINE n == Len(results)
           h == Head(results).job
<1>1. /\ n \in Nat \ {0}
      /\ DOMAIN results = 1..n
      /\ DOMAIN results' = 1..(n-1)
      /\ \A i \in 1..(n-1) : results'[i] = results[i+1]
      /\ h = results[1].job
  BY DEF TypeOK, Receive
<1>2. h \in Jobs /\ handled[h] \in Nat
  <2>1. results[1] \in Results
    BY <1>1 DEF TypeOK
  <2> QED BY <1>1, <2>1 DEF Results, TypeOK
<1>3. h \in InChannel /\ handled[h] = 0
  <2>1. h \in InChannel
    BY <1>1 DEF InChannel
  <2>2. handled[h] <= 1 /\ handled[h] # 1
    BY <1>2, <2>1 DEF OneResultPerJob
  <2> QED BY <1>2, <2>1, <2>2
<1>4. InChannel' = InChannel \ {h}
  <2>1. \A i \in 2..n : results[i].job # h
    BY <1>1 DEF OneResultPerJob
  <2>2. InChannel = {results[i].job : i \in 1..n}
    BY <1>1 DEF InChannel
  <2>3. InChannel' = {results[i+1].job : i \in 1..(n-1)}
    BY <1>1 DEF InChannel
  <2>4. \A x : x \in InChannel' <=> \E i \in 2..n : x = results[i].job
    <3>1. ASSUME NEW x, x \in InChannel'
          PROVE  \E i \in 2..n : x = results[i].job
      <4>1. PICK i \in 1..(n-1) : x = results[i+1].job
        BY <2>3, <3>1
      <4>2. i + 1 \in 2..n
        BY <1>1
      <4> QED BY <4>1, <4>2
    <3>2. ASSUME NEW x, NEW i \in 2..n, x = results[i].job
          PROVE  x \in InChannel'
      <4>1. i - 1 \in 1..(n-1) /\ (i - 1) + 1 = i
        BY <1>1
      <4> QED BY <2>3, <3>2, <4>1
    <3> QED BY <3>1, <3>2
  <2> QED BY <1>1, <2>1, <2>2, <2>4
<1>5. \A i, k \in DOMAIN results' : results'[i].job = results'[k].job => i = k
  BY <1>1 DEF OneResultPerJob
<1>6. /\ \A k \in Jobs : handled'[k] = IF k = h THEN 1 ELSE handled[k]
      /\ pc' = pc
  BY <1>2, <1>3 DEF Receive, TypeOK
<1>7. \A k \in Jobs :
        /\ handled'[k] <= 1
        /\ handled'[k] = 1 => k \notin InChannel'
        /\ pc'[k] \in Answered <=> (handled'[k] = 1 \/ k \in InChannel')
  BY <1>3, <1>4, <1>6 DEF OneResultPerJob
<1> QED BY <1>5, <1>7 DEF OneResultPerJob

LEMMA ResultsStep ==
  ASSUME TypeOK, OneResultPerJob, [Next]_vars
  PROVE  OneResultPerJob'
<1>1. ASSUME UNCHANGED <<results, handled>>,
             pc' \in [Jobs -> Places],
             \A j \in Jobs : pc'[j] \in Answered <=> pc[j] \in Answered
      PROVE  OneResultPerJob'
  BY <1>1 DEF OneResultPerJob, InChannel
<1>2. ASSUME NEW j \in Jobs, NEW from, NEW to \in Places, Moves(j, from, to),
             from \in Answered <=> to \in Answered, UNCHANGED <<results, handled>>
      PROVE  OneResultPerJob'
  <2>1. pc' \in [Jobs -> Places]
    BY <1>2 DEF Moves, TypeOK
  <2>2. \A k \in Jobs : pc'[k] \in Answered <=> pc[k] \in Answered
    BY <1>2 DEF Moves, TypeOK
  <2> QED BY <1>1, <1>2, <2>1, <2>2
<1>3. ASSUME NEW j \in Jobs, Submit(j) \/ Goroutine(j)
      PROVE  OneResultPerJob'
  <2> USE DEF Answered, Places, Holding, Dormant
  <2>1. CASE SendRefusal(j)
    BY <2>1, ResultSent DEF SendRefusal
  <2>2. CASE SendResult(j)
    BY <2>2, ResultSent DEF SendResult
  <2>3. CASE Submit(j) \/ Acquire(j) \/ Refuse(j)
    BY <1>2, <2>3 DEF Submit, Acquire, Refuse
  <2>4. CASE Track(j) \/ RunReturns(j) \/ Untrack(j)
    BY <1>2, <2>4 DEF Track, RunReturns, Untrack
  <2>5. CASE Release(j) \/ Exit(j)
    BY <1>2, <2>5 DEF Release, Exit
  <2> QED BY <1>3, <2>1, <2>2, <2>3, <2>4, <2>5 DEF Goroutine
<1>4. CASE StopLoop \/ Signal \/ CancelPool \/ WaitReturns \/ UNCHANGED vars
  BY <1>1, <1>4 DEF StopLoop, Signal, CancelPool, WaitReturns, vars, TypeOK
<1> QED BY <1>3, <1>4, ResultReceived DEF Next

(* Each job that finished has exactly one result, either in the channel or *)
(* handled by the scheduler: never none, never two.                        *)
THEOREM ResultsDelivered == Spec => []OneResultPerJob
<1>1. Init => OneResultPerJob
  BY DEF Init, OneResultPerJob, InChannel, Answered
<1>2. TypeOK /\ OneResultPerJob /\ [Next]_vars => OneResultPerJob'
  BY ResultsStep
<1> QED BY <1>1, <1>2, TypeCorrect, PTL DEF Spec

-----------------------------------------------------------------------------
(* Shutdown.                                                               *)
LEMMA NoneLeft ==
  ASSUME TypeOK, WaitGroupCounts, wg = 0
  PROVE  \A j \in Jobs : pc[j] \in Dormant
<1>1. Cardinality(At(Places \ Dormant)) = 0
  BY CountsAt DEF WaitGroupCounts
<1>2. IsFiniteSet(At(Places \ Dormant))
  BY AtFinite
<1>3. At(Places \ Dormant) = {}
  BY <1>1, <1>2, FS_EmptySet
<1> QED BY <1>3 DEF At, TypeOK

(* Shutdown returns only when every goroutine of the pool has ended.       *)
THEOREM ShutdownIsClean == Spec => ShutdownWaits
<1>1. Counters /\ [Next]_vars
        => [phase # "returned" /\ phase' = "returned"
              => \A j \in Jobs : pc[j] \in Dormant]_vars
  <2> SUFFICES ASSUME Counters, Next, phase # "returned", phase' = "returned"
               PROVE  \A j \in Jobs : pc[j] \in Dormant
    BY DEF vars
  <2>1. WaitReturns
    BY DEF Next, Goroutine, Submit, Acquire, Refuse, SendRefusal, Track,
           RunReturns, Untrack, SendResult, Release, Exit, Receive, StopLoop,
           Signal, CancelPool
  <2> QED BY <2>1, NoneLeft DEF Counters, WaitReturns
<1> QED BY <1>1, CountersHold, PTL DEF Spec, ShutdownWaits

-----------------------------------------------------------------------------
(* The pool implements the abstract job service.                           *)
(* A job is on its way to being refused only after the pool was cancelled. *)
RefusedLate ==
  \A j \in Jobs : pc[j] = "refusing" => phase \in {"cancelled", "returned"}

LEMMA RefusedLateHolds == Spec => []RefusedLate
<1>1. Init => RefusedLate
  BY DEF Init, RefusedLate
<1>2. TypeOK /\ RefusedLate /\ [Next]_vars => RefusedLate'
  <2> SUFFICES ASSUME TypeOK, RefusedLate, [Next]_vars PROVE RefusedLate'
    OBVIOUS
  <2>1. ASSUME NEW j \in Jobs, NEW from, NEW to, Moves(j, from, to),
               UNCHANGED phase,
               to = "refusing" => phase \in {"cancelled", "returned"}
        PROVE  RefusedLate'
    BY <2>1 DEF Moves, TypeOK, RefusedLate
  <2>2. ASSUME NEW j \in Jobs, Submit(j) \/ Goroutine(j)
        PROVE  RefusedLate'
    <3>1. CASE Submit(j) \/ Acquire(j) \/ Refuse(j) \/ SendRefusal(j)
      BY <2>1, <3>1 DEF Submit, Acquire, Refuse, SendRefusal
    <3>2. CASE Track(j) \/ RunReturns(j) \/ Untrack(j)
      BY <2>1, <3>2 DEF Track, RunReturns, Untrack
    <3>3. CASE SendResult(j) \/ Release(j) \/ Exit(j)
      BY <2>1, <3>3 DEF SendResult, Release, Exit
    <3> QED BY <2>2, <3>1, <3>2, <3>3 DEF Goroutine
  <2>3. CASE Receive \/ StopLoop \/ Signal \/ CancelPool \/ WaitReturns
    BY <2>3 DEF Receive, StopLoop, Signal, CancelPool, WaitReturns, RefusedLate
  <2>4. CASE UNCHANGED vars
    BY <2>4 DEF vars, RefusedLate
  <2> QED BY <2>2, <2>3, <2>4 DEF Next
<1> QED BY <1>1, <1>2, TypeCorrect, PTL DEF Spec

LEMMA ServiceStep ==
  ASSUME Counters, RefusedLate, [Next]_vars
  PROVE  [Service!SNext]_(Service!svars)
<1> DEFINE stage == [j \in Jobs |-> StageOf(pc[j])]
           closing == phase \in {"cancelled", "returned"}
           closed == phase = "returned"
<1> USE DEF Counters
<1>0. pc \in [Jobs -> Places]
  BY DEF TypeOK
<1>1. ASSUME NEW j \in Jobs, NEW from, NEW to, Moves(j, from, to)
      PROVE  /\ stage[j] = StageOf(from)
             /\ stage' = [stage EXCEPT ![j] = StageOf(to)]
  BY <1>0, <1>1 DEF Moves
<1>2. ASSUME NEW j \in Jobs, NEW from, NEW to, Moves(j, from, to),
             StageOf(from) = StageOf(to), UNCHANGED phase
      PROVE  UNCHANGED Service!svars
  <2>1. stage' = stage
    BY <1>1, <1>2
  <2> QED BY <1>2, <2>1 DEF Service!svars
<1>3. ASSUME NEW j \in Jobs, Submit(j) \/ Goroutine(j)
      PROVE  [Service!SNext]_(Service!svars)
  <2> USE DEF StageOf, Answered
  <2>1. CASE Submit(j)
    <3>1. Service!Accept(j)
      BY <1>1, <2>1 DEF Submit, Service!Accept
    <3> QED BY <3>1 DEF Service!SNext
  <2>2. CASE Acquire(j)
    <3>1. Service!Executing \subseteq Holders
      BY <1>0 DEF Service!Executing, Holders, Holding, Places, Dormant
    <3>2. Cardinality(Service!Executing) < Slots
      <4>1. IsFiniteSet(Holders)
        BY AtFinite, CountsAt
      <4>2. /\ Cardinality(Service!Executing) \in Nat
            /\ Cardinality(Holders) \in Nat
            /\ Cardinality(Service!Executing) <= Cardinality(Holders)
        BY <3>1, <4>1, FS_Subset, FS_CardinalityType
      <4> QED BY <4>2, <2>2, SlotsAssumption DEF Acquire, SlotAccounting
    <3>3. Service!Cardinality(Service!Executing) = Cardinality(Service!Executing)
      BY DEF Service!Cardinality, Cardinality
    <3>4. Service!Begin(j)
      BY <1>1, <2>2, <3>2, <3>3 DEF Acquire, Service!Begin
    <3> QED BY <3>4 DEF Service!SNext
  <2>3. CASE SendRefusal(j)
    <3>1. phase \in {"cancelled", "returned"}
      BY <2>3 DEF SendRefusal, Moves, RefusedLate
    <3>2. Service!TurnAway(j)
      BY <1>1, <2>3, <3>1 DEF SendRefusal, Service!TurnAway
    <3> QED BY <3>2 DEF Service!SNext
  <2>4. CASE SendResult(j)
    <3>1. Service!Answer(j)
      BY <1>1, <2>4 DEF SendResult, Service!Answer
    <3> QED BY <3>1 DEF Service!SNext
  <2>5. CASE Refuse(j) \/ Track(j) \/ RunReturns(j) \/ Untrack(j)
    BY <1>2, <2>5 DEF Refuse, Track, RunReturns, Untrack
  <2>6. CASE Release(j) \/ Exit(j)
    BY <1>2, <2>6 DEF Release, Exit
  <2> QED BY <1>3, <2>1, <2>2, <2>3, <2>4, <2>5, <2>6 DEF Goroutine
<1>4. CASE Receive \/ StopLoop \/ Signal \/ UNCHANGED vars
  BY <1>4 DEF Receive, StopLoop, Signal, vars, Service!svars
<1>5. CASE CancelPool
  BY <1>5 DEF CancelPool, Service!SNext, Service!Close
<1>6. CASE WaitReturns
  <2>1. \A j \in Jobs : stage[j] \in {"new", "answered"}
    BY <1>6, NoneLeft DEF WaitReturns, StageOf, Answered, Dormant
  <2>2. Service!Closed
    BY <1>6, <2>1 DEF WaitReturns, Service!Closed
  <2> QED BY <2>2 DEF Service!SNext
<1> QED BY <1>3, <1>4, <1>5, <1>6 DEF Next

(* The pool, goroutines and channels and all, is a job service: one answer *)
(* per accepted job, at most Slots executing, jobs turned away only while  *)
(* closing, and closed only when nothing is left unanswered.               *)
THEOREM PoolImplementsService == Spec => ImplementsService
<1>1. ASSUME Init PROVE Service!SInit
  <2>1. [j \in Jobs |-> StageOf(pc[j])] = [j \in Jobs |-> "new"]
    <3>1. StageOf("unborn") = "new"
      BY DEF StageOf, Answered
    <3>2. \A j \in Jobs : pc[j] = "unborn"
      BY <1>1 DEF Init
    <3> QED BY <3>1, <3>2
  <2>2. phase # "returned" /\ phase # "cancelled"
    BY <1>1 DEF Init
  <2>3. (phase = "returned") = FALSE
    BY <2>2
  <2>4. (phase \in {"cancelled", "returned"}) = FALSE
    BY <2>2
  <2> QED BY <2>1, <2>3, <2>4 DEF Service!SInit
<1>2. Counters /\ RefusedLate /\ [Next]_vars => [Service!SNext]_(Service!svars)
  BY ServiceStep
<1> QED BY <1>1, <1>2, CountersHold, RefusedLateHolds, PTL
     DEF Spec, ImplementsService, Service!SSpec
=================================================================================

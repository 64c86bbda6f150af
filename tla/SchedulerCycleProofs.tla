-------------------------- MODULE SchedulerCycleProofs --------------------------
(***************************************************************************)
(* Theorems about the runs of a cycle: a dependent follows its parent, a   *)
(* retry follows a failure, and no attempt is made twice.                  *)
(***************************************************************************)
EXTENDS SchedulerFiringProofs

-----------------------------------------------------------------------------
(* The cycle of a firing, as opposed to a forced one or none.              *)
Scheduled(c) == c # NoCycle /\ c[2] = "at"

Pending(s, i) == s[i].retryAt # NoTime

(* The daemon starts with no retry on record.                              *)
NoneRetrying == \A i \in Ids : ~Pending(st, i)

(* What a handled result does to the retries: a success clears its task's, *)
(* a failure may leave one for the attempt that failed.                    *)
LEMMA CompletionRetries ==
  ASSUME IInv, NEW r \in results, Complete(r)
  PROVE  /\ \A i \in Ids \ {r.job.task} :
              /\ st'[i].retryAt = st[i].retryAt
              /\ st'[i].lastCycle = st[i].lastCycle
              /\ st'[i].retryAttempt = st[i].retryAttempt
              /\ st'[i].status # st[i].status => i \in Workflows(cfg)
         /\ r.status = "success" => ~Pending(st', r.job.task)
         /\ r.status # "success" /\ Pending(st', r.job.task) =>
              /\ st'[r.job.task].lastCycle = r.job.cycle
              /\ st'[r.job.task].retryAttempt = r.job.attempt
              /\ st'[r.job.task].status = r.status
              /\ r.status # "fatal"
<1>0. st \in [Ids -> TaskStates] /\ r.job.task \in Ids
  BY DEF IInv, TypeOK, Jobs
<1>1. CASE r.status = "success"
  <2> DEFINE s == SuccessState(r.job)
  <2>1. st' = MarkFlows(s, LeafOf(r.job.task))
    BY <1>1 DEF Complete, CompleteSuccess
  <2>2. \A i \in Ids : s[i] \in TaskStates
    BY SuccessStateFits DEF StatesFit
  <2>3. s[r.job.task].retryAt = NoTime
    <3>1. st[r.job.task] \in TaskStates
      BY <1>0
    <3> QED BY <1>0, <3>1 DEF SuccessState, TaskStates
  <2>4. \A i \in Ids \ {r.job.task} : s[i] = st[i]
    BY <1>0 DEF SuccessState
  <2> HIDE DEF s
  <2>5. ASSUME NEW i \in Ids
        PROVE  /\ st'[i].retryAt = s[i].retryAt
               /\ st'[i].lastCycle = s[i].lastCycle
               /\ st'[i].retryAttempt = s[i].retryAttempt
               /\ st'[i].status # s[i].status => i \in Workflows(cfg)
    <3>1. CASE i \in LeafOf(r.job.task)
      BY <2>1, <2>2, <3>1 DEF MarkFlows, TaskStates, LeafOf
    <3>2. CASE i \notin LeafOf(r.job.task)
      BY <2>1, <3>2 DEF MarkFlows
    <3> QED BY <3>1, <3>2
  <2> QED BY <1>0, <1>1, <2>3, <2>4, <2>5 DEF Pending
<1>2. CASE r.status # "success"
  <2>1. CompleteFailure(r.job, r.status)
    BY <1>2 DEF Complete
  <2>2. \A i \in Ids \ {r.job.task} : st'[i] = st[i]
    BY <1>0, <2>1 DEF CompleteFailure, FailureState
  <2> DEFINE t == r.job.task
             f == FailureState(r.job, r.status)
             at == IF WillRetry(r.job, r.status) THEN now + RetryDelay(r.job) ELSE NoTime
             k == IF WillRetry(r.job, r.status) THEN r.job.attempt ELSE 0
  <2>3. st' = [f EXCEPT ![t] = [@ EXCEPT !.retryAt = at, !.retryAttempt = k]]
    BY <2>1 DEF CompleteFailure
  <2>4. f \in [Ids -> TaskStates] /\ f[t].lastCycle = r.job.cycle /\ f[t].status = r.status
    BY <1>0, FailureStateFits DEF StatesFit, FailureState, TaskStates
  <2> HIDE DEF f, at, k
  <2>5. /\ st'[t].retryAt = at /\ st'[t].retryAttempt = k
        /\ st'[t].lastCycle = r.job.cycle /\ st'[t].status = r.status
    BY <1>0, <2>3, <2>4 DEF TaskStates
  <2>6. at # NoTime => WillRetry(r.job, r.status)
    BY DEF at
  <2>7. WillRetry(r.job, r.status) => k = r.job.attempt /\ r.status # "fatal"
    BY DEF k, WillRetry
  <2> QED BY <1>2, <2>2, <2>5, <2>6, <2>7 DEF Pending
<1> QED BY <1>1, <1>2

-----------------------------------------------------------------------------
(* Dependents follow their parents.                                        *)

(* The configs that may come into force, and the condition under which a   *)
(* reload does not change who waits for whom.                              *)
Known == IF MayReload THEN Configs ELSE {cfg}

ParentsStable ==
  MayReload => \A c, d \in Configs : \A t \in TasksOf(c) \cap TasksOf(d) :
                 c.parent[t] = d.parent[t]

InOrder(t, c) ==
  Scheduled(c) =>
    \A k \in Known : t \in TasksOf(k) /\ k.parent[t] # NoTask =>
      <<k.parent[t], c>> \in succeeded

Made == {e.job : e \in issued}

(* Whatever was handed to the pool, and whatever will be as a retry, is in *)
(* order.                                                                  *)
OrderInv == /\ \A j \in Made : InOrder(j.task, j.cycle)
            /\ \A j \in Live : InOrder(j.task, j.cycle)
            /\ \A i \in Ids : Pending(st, i) => InOrder(i, st[i].lastCycle)

LEMMA KnownSame ==
  ASSUME IInv, [Next]_vars
  PROVE  Known' = Known /\ cfg \in Known /\ Known \subseteq Configs
<1>1. cfg \in Configs
  BY DEF IInv, TypeOK
<1>2. ~MayReload => cfg' = cfg
  BY DEF Next, Tick, StartJob, FinishJob, Complete, ForceRun, Reload, SetPaused, Crash,
         CrashInTick, CrashInCompletion, Restart, Advance, NetworkChanges, vars, world
<1> QED BY <1>1, <1>2 DEF Known

LEMMA SucceededGrows ==
  ASSUME IInv, [Next]_vars
  PROVE  succeeded \subseteq succeeded'
BY DEF Next, Tick, StartJob, FinishJob, Complete, CompleteSuccess, CompleteFailure, ForceRun,
       Reload, SetPaused, Crash, CrashInTick, CrashInCompletion, Restart, Advance,
       NetworkChanges, vars, history

LEMMA OrderKept ==
  ASSUME IInv, [Next]_vars, NEW t, NEW c, InOrder(t, c)
  PROVE  InOrder(t, c)'
BY KnownSame, SucceededGrows DEF InOrder

(* The jobs of a tick: retries in order, roots that wait for nobody and    *)
(* standalone tasks without a cycle.                                       *)
LEMMA TickInOrder ==
  ASSUME IInv, ParentsStable, OrderInv, NEW retried \in SUBSET Retried, NEW fired, NEW early,
         NEW j \in TickJobs(retried, fired, early)
  PROVE  InOrder(j.task, j.cycle)
<1>0. TypeOK /\ cfg \in Configs /\ cfg \in Known
  BY DEF IInv, TypeOK, Known
<1>1. CASE j \in RetryJobs(retried)
  <2>1. PICK t \in retried : j = Job(t, st[t].lastCycle, st[t].retryAttempt + 1)
    BY <1>1 DEF RetryJobs
  <2>2. t \in Ids /\ Pending(st, t)
    BY <1>0, ConfigFacts DEF Retried, Pending
  <2> QED BY <2>1, <2>2 DEF OrderInv, Job
<1>2. CASE j \in RootJobs(fired \cap DueFlows, early)
  <2>1. PICK w \in fired \cap DueFlows : \E t \in Roots(w) : j = Job(t, CycleAt(w), 1)
    BY <1>2 DEF RootJobs
  <2>2. PICK t \in Roots(w) : j = Job(t, CycleAt(w), 1)
    BY <2>1
  <2>3. t \in TasksOf(cfg) /\ cfg.parent[t] = NoTask
    BY <1>0, ConfigFacts DEF Roots, DueFlows
  <2>4. \A k \in Known : t \in TasksOf(k) => k.parent[t] = NoTask
    BY <1>0, <2>3 DEF Known, ParentsStable
  <2> QED BY <2>2, <2>4 DEF InOrder, Job
<1>3. CASE j \in AloneJobs(fired \cap DueAlone(early))
  BY <1>3 DEF AloneJobs, Job, InOrder, Scheduled
<1> QED BY <1>1, <1>2, <1>3 DEF TickJobs

(* The jobs of a success wait for the task that succeeded.                 *)
LEMMA DependentsInOrder ==
  ASSUME IInv, ParentsStable, NEW r \in results, r.status = "success", Complete(r), NEW s,
         NEW j \in DependentJobs(r.job, s)
  PROVE  InOrder(j.task, j.cycle)'
<1>0. TypeOK /\ cfg \in Configs /\ cfg \in Known
  BY DEF IInv, TypeOK, Known
<1>1. PICK u \in ReadyDependents(r.job, s) : j = Job(u, r.job.cycle, 1)
  BY DEF DependentJobs
<1>2. u \in TasksOf(cfg) /\ cfg.parent[u] = r.job.task
  BY DEF ReadyDependents
<1>3. \A k \in Known : u \in TasksOf(k) => k.parent[u] = r.job.task
  BY <1>0, <1>2 DEF Known, ParentsStable
<1>4. <<r.job.task, r.job.cycle>> \in succeeded'
  BY DEF Complete, CompleteSuccess
<1>5. Known' = Known
  BY DEF Known, Complete, world
<1> QED BY <1>1, <1>3, <1>4, <1>5 DEF InOrder, Job

LEMMA SubmitMakes ==
  ASSUME NEW jobs, Submit(jobs)
  PROVE  Made' = Made \cup jobs
<1>1. issued' = issued \cup {[job |-> j, window |-> WindowOf(j)] : j \in jobs}
  BY DEF Submit
<1>2. ASSUME NEW j \in jobs PROVE j \in Made'
  <2>1. [job |-> j, window |-> WindowOf(j)] \in issued'
    BY <1>1
  <2>2. [job |-> j, window |-> WindowOf(j)].job = j
    OBVIOUS
  <2> QED BY <2>1, <2>2 DEF Made
<1>3. Made \subseteq Made'
  BY <1>1 DEF Made
<1>4. ASSUME NEW e \in issued' PROVE e.job \in Made \cup jobs
  BY <1>1 DEF Made
<1> QED BY <1>2, <1>3, <1>4 DEF Made

(* Where the jobs are after a step.                                        *)
LEMMA TickMoves ==
  ASSUME NEW jobs, queued' = queued \cup jobs, UNCHANGED <<running, results>>
  PROVE  Live' = Live \cup jobs
BY DEF Live

LEMMA RunMoves ==
  ASSUME \/ \E j \in queued : StartJob(j)
         \/ \E j \in running, outcome \in Outcomes : FinishJob(j, outcome)
  PROVE  Live' = Live /\ UNCHANGED <<st, issued, batch, succeeded, cfg>>
<1>1. ASSUME NEW j \in queued, StartJob(j) PROVE Live' = Live
  BY <1>1 DEF StartJob, Live
<1>2. ASSUME NEW j \in running, NEW outcome \in Outcomes, FinishJob(j, outcome)
      PROVE  Live' = Live
  <2> DEFINE q == [job |-> j, status |-> outcome]
  <2>1. results' = results \cup {q} /\ q.job = j
    BY <1>2 DEF FinishJob
  <2> HIDE DEF q
  <2>2. {r.job : r \in results'} = {r.job : r \in results} \cup {j}
    BY <2>1
  <2> QED BY <1>2, <2>2 DEF FinishJob, Live
<1>3. UNCHANGED <<st, issued, batch, succeeded, cfg>>
  BY DEF StartJob, FinishJob, world, history
<1> QED BY <1>1, <1>2, <1>3

LEMMA CompleteMoves ==
  ASSUME NEW r \in results, Complete(r)
  PROVE  \E jobs : /\ r.status # "success" => jobs = {} /\ UNCHANGED <<issued, batch, succeeded>>
                   /\ r.status = "success" =>
                        /\ jobs = DependentJobs(r.job, st')
                        /\ Submit(jobs)
                        /\ succeeded' = succeeded \cup {<<r.job.task, r.job.cycle>>}
                   /\ queued' = queued \cup jobs
                   /\ results' = results \ {r}
                   /\ UNCHANGED <<running, cfg>>
                   /\ Made' = Made \cup jobs
                   /\ Live' \subseteq Live \cup jobs
<1>1. results' = results \ {r} /\ UNCHANGED <<running, cfg>>
  BY DEF Complete, world
<1>2. CASE r.status = "success"
  <2>1. /\ Submit(DependentJobs(r.job, st'))
        /\ succeeded' = succeeded \cup {<<r.job.task, r.job.cycle>>}
        /\ queued' = queued \cup DependentJobs(r.job, st')
    BY <1>2 DEF Complete, CompleteSuccess
  <2>2. Made' = Made \cup DependentJobs(r.job, st')
    BY <2>1, SubmitMakes
  <2>3. Live' \subseteq Live \cup DependentJobs(r.job, st')
    BY <1>1, <2>1 DEF Live
  <2> QED BY <1>1, <1>2, <2>1, <2>2, <2>3
<1>3. CASE r.status # "success"
  <2>1. UNCHANGED <<queued, issued, batch, succeeded>>
    BY <1>3 DEF Complete, CompleteFailure
  <2>2. Made' = Made \cup {} /\ queued' = queued \cup {}
    BY <2>1 DEF Made
  <2>3. Live' \subseteq Live \cup {}
    BY <1>1, <2>1 DEF Live
  <2> QED BY <1>1, <1>3, <2>1, <2>2, <2>3
<1> QED BY <1>2, <1>3

LEMMA OrderStep ==
  ASSUME IInv, ParentsStable, OrderInv, [Next]_vars
  PROVE  OrderInv'
<1>0. TypeOK /\ st \in [Ids -> TaskStates]
  BY DEF IInv, TypeOK
<1>1. ASSUME NEW jobs, Made' \subseteq Made \cup jobs, Live' \subseteq Live \cup jobs,
             \A j \in jobs : InOrder(j.task, j.cycle)',
             \A i \in Ids : Pending(st', i) => \/ Pending(st, i) /\ st'[i].lastCycle = st[i].lastCycle
                                               \/ \E j \in Live : j.task = i /\ st'[i].lastCycle = j.cycle
      PROVE  OrderInv'
  <2>1. ASSUME NEW j \in Made \cup Live PROVE InOrder(j.task, j.cycle)'
    BY OrderKept DEF OrderInv
  <2>2. \A j \in Made' \cup Live' : InOrder(j.task, j.cycle)'
    BY <1>1, <2>1
  <2>3. ASSUME NEW i \in Ids, Pending(st', i) PROVE InOrder(i, st[i].lastCycle)'
    <3>1. PICK c : c = st'[i].lastCycle
      OBVIOUS
    <3>2. CASE Pending(st, i) /\ c = st[i].lastCycle
      <4>1. InOrder(i, c)
        BY <3>2 DEF OrderInv
      <4>2. InOrder(i, c)'
        BY <4>1, OrderKept
      <4> QED BY <3>1, <4>2 DEF InOrder
    <3>3. CASE \E j \in Live : j.task = i /\ c = j.cycle
      <4>1. InOrder(i, c)'
        BY <2>1, <3>3
      <4> QED BY <3>1, <4>1 DEF InOrder
    <3> QED BY <1>1, <2>3, <3>1, <3>2, <3>3
  <2>4. (\A j \in Made : InOrder(j.task, j.cycle))' /\ (\A j \in Live : InOrder(j.task, j.cycle))'
    BY <2>2
  <2>5. (\A i \in Ids : Pending(st, i) => InOrder(i, st[i].lastCycle))'
    BY <2>3 DEF Pending
  <2> QED BY <2>4, <2>5 DEF OrderInv
<1>2. ASSUME Made' = Made, Live' \subseteq Live,
             \A i \in Ids : Pending(st', i) => \/ Pending(st, i) /\ st'[i].lastCycle = st[i].lastCycle
                                               \/ \E j \in Live : j.task = i /\ st'[i].lastCycle = j.cycle
      PROVE  OrderInv'
  <2>1. PICK none : none = {}
    OBVIOUS
  <2>2. Made' \subseteq Made \cup none
    BY <1>2
  <2>3. Live' \subseteq Live \cup none
    BY <1>2
  <2>4. \A j \in none : InOrder(j.task, j.cycle)'
    BY <2>1
  <2> QED BY <1>1, <1>2, <2>2, <2>3, <2>4
<1>3. ASSUME NEW retried, NEW fired, NEW early, Fires(retried, fired, early),
             Live' \subseteq Live \cup TickJobs(retried, fired, early)
      PROVE  OrderInv'
  <2> DEFINE jobs == TickJobs(retried, fired, early)
  <2>1. Made' = Made \cup jobs
    BY <1>3, SubmitMakes DEF Fires
  <2>2. ASSUME NEW j \in jobs PROVE InOrder(j.task, j.cycle)'
    <3>1. retried \in SUBSET Retried
      BY <1>3 DEF Fires
    <3> HIDE DEF jobs
    <3>2. InOrder(j.task, j.cycle)
      BY <3>1, TickInOrder DEF jobs
    <3> QED BY <3>2, OrderKept
  <2>3. \A i \in Ids : Pending(st', i) => Pending(st, i) /\ st'[i].lastCycle = st[i].lastCycle
    BY <1>0, <1>3, TickWrites DEF Fires, Pending
  <2> HIDE DEF jobs
  <2> QED BY <1>1, <1>3, <2>1, <2>2, <2>3 DEF jobs
<1>4. CASE Tick
  <2>1. PICK early \in SUBSET Retried :
          LET fired == DueFlows \cup DueAlone(early)
          IN  /\ Submit(TickJobs(Retried, fired, early))
              /\ queued' = queued \cup TickJobs(Retried, fired, early)
              /\ st' = TickState(Retried, fired)
    BY <1>4 DEF Tick
  <2> DEFINE fired == DueFlows \cup DueAlone(early)
  <2>2. Fires(Retried, fired, early)
    BY <2>1 DEF Fires
  <2>3. Live' = Live \cup TickJobs(Retried, fired, early)
    BY <1>4, <2>1, TickMoves DEF Tick
  <2> HIDE DEF fired
  <2> QED BY <1>3, <2>2, <2>3
<1>5. ASSUME Restart PROVE Live' = {}
  BY <1>5 DEF Restart, Live
<1>6. CASE CrashInTick
  <2>1. PICK early \in SUBSET Retried, retried \in SUBSET Retried :
          \E fired \in SUBSET (DueFlows \cup DueAlone(early)) :
            /\ st' = TickState(retried, fired)
            /\ Submit(TickJobs(retried, fired, early))
    BY <1>6 DEF CrashInTick
  <2>2. PICK fired \in SUBSET (DueFlows \cup DueAlone(early)) :
          /\ st' = TickState(retried, fired)
          /\ Submit(TickJobs(retried, fired, early))
    BY <2>1
  <2>3. Fires(retried, fired, early)
    BY <2>2 DEF Fires
  <2> QED BY <1>3, <1>5, <1>6, <2>3 DEF CrashInTick
<1>7. ASSUME NEW r \in results, Complete(r) PROVE OrderInv'
  <2>1. PICK jobs : /\ r.status # "success" => jobs = {}
                    /\ r.status = "success" => jobs = DependentJobs(r.job, st')
                    /\ Made' = Made \cup jobs
                    /\ Live' \subseteq Live \cup jobs
    BY <1>7, CompleteMoves
  <2>2. ASSUME NEW j \in jobs PROVE InOrder(j.task, j.cycle)'
    BY <1>7, <2>1, DependentsInOrder
  <2>3. r.job \in Live
    BY DEF Live
  <2>4. ASSUME NEW i \in Ids, Pending(st', i)
        PROVE  \/ Pending(st, i) /\ st'[i].lastCycle = st[i].lastCycle
               \/ \E j \in Live : j.task = i /\ st'[i].lastCycle = j.cycle
    BY <1>7, <2>3, <2>4, CompletionRetries DEF Pending
  <2> QED BY <1>1, <2>1, <2>2, <2>4
<1>8. CASE CrashInCompletion
  <2>1. PICK r \in results : st' = IF r.status = "success" THEN SuccessState(r.job)
                                                           ELSE FailureState(r.job, r.status)
    BY <1>8 DEF CrashInCompletion
  <2>2. r.job \in Live /\ r.job.task \in Ids
    BY <1>0 DEF Live, TypeOK, Jobs
  <2>3. Live' \subseteq Live /\ Made' = Made
    BY <1>5, <1>8 DEF CrashInCompletion, Made
  <2>4. ASSUME NEW i \in Ids, Pending(st', i)
        PROVE  \/ Pending(st, i) /\ st'[i].lastCycle = st[i].lastCycle
               \/ \E j \in Live : j.task = i /\ st'[i].lastCycle = j.cycle
    <3>1. CASE i # r.job.task
      <4>1. st'[i] = st[i]
        BY <1>0, <2>1, <3>1 DEF SuccessState, FailureState
      <4> QED BY <2>4, <4>1 DEF Pending
    <3>2. CASE i = r.job.task
      <4>0. st[i] \in TaskStates
        BY <1>0
      <4>1. CASE r.status = "success"
        BY <1>0, <2>1, <2>2, <2>4, <3>2, <4>0, <4>1 DEF SuccessState, Pending, TaskStates
      <4>2. CASE r.status # "success"
        <5>1. st'[i].lastCycle = r.job.cycle
          BY <1>0, <2>1, <3>2, <4>0, <4>2 DEF FailureState, TaskStates
        <5> QED BY <2>2, <3>2, <5>1
      <4> QED BY <4>1, <4>2
    <3> QED BY <3>1, <3>2
  <2> QED BY <1>2, <2>3, <2>4
<1>9. ASSUME NEW t, ForceRun(t) PROVE OrderInv'
  <2>0. PICK job : job = Job(t, <<ForceOwner(t), "force", now>>, 1)
    OBVIOUS
  <2>1. Submit({job}) /\ queued' = queued \cup {job} /\ UNCHANGED <<st, running, results>>
    BY <1>9, <2>0 DEF ForceRun
  <2>2. \A j \in {job} : InOrder(j.task, j.cycle)'
    BY <2>0 DEF InOrder, Scheduled, Job
  <2>3. Made' = Made \cup {job} /\ Live' = Live \cup {job}
    BY <2>1, SubmitMakes, TickMoves
  <2> QED BY <1>1, <2>1, <2>2, <2>3
<1>10. ASSUME NEW c \in Configs, Reload(c) PROVE OrderInv'
  <2>1. Made' = Made /\ Live' = Live
    BY <1>10 DEF Reload, daemon, history, Made, Live
  <2>2. \A i \in Ids : st'[i].retryAt = st[i].retryAt /\ st'[i].lastCycle = st[i].lastCycle
    BY <1>0, <1>10 DEF Reload, Seeded, TaskStates
  <2> QED BY <1>2, <2>1, <2>2 DEF Pending
<1>11. CASE \/ \E j \in queued : StartJob(j)
            \/ \E j \in running, outcome \in Outcomes : FinishJob(j, outcome)
  <2>1. Live' = Live /\ UNCHANGED <<st, issued>>
    BY <1>11, RunMoves
  <2> QED BY <1>2, <2>1 DEF Made
<1>12. CASE Crash
  <2>1. Live' \subseteq Live /\ UNCHANGED <<st, issued>>
    BY <1>5, <1>12 DEF Crash
  <2> QED BY <1>2, <2>1 DEF Made
<1>13. CASE Advance \/ NetworkChanges \/ (\E p \in BOOLEAN : SetPaused(p)) \/ UNCHANGED vars
  <2>1. UNCHANGED <<st, queued, running, results, issued>>
    BY <1>13 DEF Advance, NetworkChanges, SetPaused, vars, daemon, history
  <2>2. Made' = Made /\ Live' = Live
    BY <2>1 DEF Made, Live
  <2> QED BY <1>2, <2>1, <2>2
<1> QED BY <1>4, <1>6, <1>7, <1>8, <1>9, <1>10, <1>11, <1>12, <1>13 DEF Next

LEMMA OrderHolds ==
  ASSUME ParentsStable
  PROVE  Spec /\ NoneRetrying => []OrderInv
<1>1. Init /\ NoneRetrying => OrderInv
  BY DEF Init, NoneRetrying, OrderInv, Made, Live
<1>2. IInv /\ OrderInv /\ [Next]_vars => OrderInv'
  BY OrderStep
<1> QED BY <1>1, <1>2, Invariance, PTL DEF Spec

(* A dependent runs in a scheduled cycle only after its parent succeeded   *)
(* in that very cycle, whatever is retried, forced or crashes, and across  *)
(* reloads too unless they change who depends on whom.                     *)
THEOREM DependentsWait ==
  ASSUME ParentsStable
  PROVE  Spec /\ NoneRetrying => []DependentsFollowParents
<1>1. Init /\ NoneRetrying => OrderInv
  BY DEF Init, NoneRetrying, OrderInv, Made, Live
<1>2. IInv /\ OrderInv /\ [Next]_vars => OrderInv'
  BY OrderStep
<1>3. IInv /\ OrderInv => DependentsFollowParents
  <2>1. IInv => cfg \in Known
    BY DEF IInv, TypeOK, Known
  <2> QED BY <2>1 DEF OrderInv, Made, InOrder, Scheduled, DependentsFollowParents
<1> QED BY <1>1, <1>2, <1>3, Invariance, PTL DEF Spec

-----------------------------------------------------------------------------
(* Retries follow failures.                                                *)

(* A retry on record is for a task, whose last run failed.                 *)
RetriesSound == \A i \in Ids : Pending(st, i) =>
                  /\ st[i].status \in {"failed", "timeout"}
                  /\ st[i].retryAttempt > 0
                  /\ i \notin Workflows(cfg)

LiveConfigured == \A j \in Live : j.task \in TasksOf(cfg)

(* A crash between the two writes that handle a result may leave an older  *)
(* retry under the status of the result; "fatal" would not be one.         *)
NoFatalCrash == MayCrash => "fatal" \notin Outcomes

LEMMA TasksAreNoFlows ==
  ASSUME IInv
  PROVE  Workflows(cfg) \cap TasksOf(cfg) = {}
<1>1. Config(cfg)
  BY ConfigFacts DEF IInv, TypeOK
<1> QED BY <1>1 DEF Config

LEMMA RetryStep ==
  ASSUME IInv, RetriesSound, LiveConfigured, ~MayReload, NoFatalCrash, [Next]_vars
  PROVE  RetriesSound' /\ LiveConfigured'
<1>0. /\ TypeOK /\ st \in [Ids -> TaskStates]
      /\ \A r \in results : r.job \in Jobs /\ r.status \in Outcomes /\ r.job \in Live
  BY DEF IInv, TypeOK, Live
<1>1. ASSUME NEW r \in results
      PROVE  /\ r.job.task \in TasksOf(cfg) /\ r.job.task \in Ids
             /\ r.job.task \notin Workflows(cfg)
             /\ r.job.attempt > 0
             /\ r.status # "success" /\ r.status # "fatal" => r.status \in {"failed", "timeout"}
  <2>1. r.job \in Jobs /\ r.job \in Live /\ r.status \in Outcomes
    BY <1>0
  <2>2. r.job.task \in Ids /\ r.job.attempt > 0
    BY <2>1 DEF Jobs
  <2>3. r.job.task \in TasksOf(cfg)
    BY <2>1 DEF LiveConfigured
  <2> QED BY <2>1, <2>2, <2>3, TasksAreNoFlows, OutcomesAssumption
<1>2. cfg' = cfg
  BY DEF Next, Tick, StartJob, FinishJob, Complete, ForceRun, Reload, SetPaused, Crash,
         CrashInTick, CrashInCompletion, Restart, Advance, NetworkChanges, vars, world
<1>3. ASSUME NEW jobs, \A j \in jobs : Fit(j), Live' \subseteq Live \cup jobs
      PROVE  LiveConfigured'
  BY <1>2, <1>3 DEF LiveConfigured, Fit
<1>4. ASSUME Live' \subseteq Live PROVE LiveConfigured'
  BY <1>2, <1>4 DEF LiveConfigured
<1>5. ASSUME \A i \in Ids : Pending(st', i) =>
               \/ /\ Pending(st, i) /\ st'[i].status = st[i].status
                  /\ st'[i].retryAttempt = st[i].retryAttempt
               \/ /\ st'[i].status \in {"failed", "timeout"} /\ st'[i].retryAttempt > 0
                  /\ i \notin Workflows(cfg)
      PROVE  RetriesSound'
  BY <1>2, <1>5 DEF RetriesSound, Pending
<1>6. ASSUME NEW retried, NEW fired, st' = TickState(retried, fired) PROVE RetriesSound'
  BY <1>0, <1>5, <1>6, TickWrites DEF Pending
<1>7. CASE Tick
  <2>1. PICK early \in SUBSET Retried :
          LET fired == DueFlows \cup DueAlone(early)
          IN  /\ queued' = queued \cup TickJobs(Retried, fired, early)
              /\ st' = TickState(Retried, fired)
    BY <1>7 DEF Tick
  <2> DEFINE fired == DueFlows \cup DueAlone(early)
  <2>2. \A j \in TickJobs(Retried, fired, early) : Fit(j)
    BY TickJobsFit
  <2>3. Live' = Live \cup TickJobs(Retried, fired, early)
    BY <1>7, <2>1, TickMoves DEF Tick
  <2> HIDE DEF fired
  <2> QED BY <1>3, <1>6, <2>1, <2>2, <2>3 DEF fired
<1>8. ASSUME NEW r \in results, Complete(r) PROVE RetriesSound' /\ LiveConfigured'
  <2>1. PICK jobs : /\ r.status # "success" => jobs = {}
                    /\ r.status = "success" => jobs = DependentJobs(r.job, st')
                    /\ Live' \subseteq Live \cup jobs
    BY <1>8, CompleteMoves
  <2>2. \A j \in jobs : Fit(j)
    BY <2>1, DependentsFit
  <2>3. ASSUME NEW i \in Ids, Pending(st', i)
        PROVE  \/ /\ Pending(st, i) /\ st'[i].status = st[i].status
                  /\ st'[i].retryAttempt = st[i].retryAttempt
               \/ /\ st'[i].status \in {"failed", "timeout"} /\ st'[i].retryAttempt > 0
                  /\ i \notin Workflows(cfg)
    <3>1. CASE i = r.job.task
      BY <1>1, <1>8, <2>3, <3>1, CompletionRetries
    <3>2. CASE i # r.job.task
      <4>1. Pending(st, i) /\ st'[i].retryAttempt = st[i].retryAttempt
        BY <1>8, <2>3, <3>2, CompletionRetries DEF Pending
      <4>2. i \notin Workflows(cfg)
        BY <4>1 DEF RetriesSound
      <4> QED BY <1>8, <3>2, <4>1, <4>2, CompletionRetries
    <3> QED BY <3>1, <3>2
  <2> QED BY <1>3, <1>5, <2>1, <2>2, <2>3
<1>9. ASSUME Restart PROVE LiveConfigured' /\ MayCrash
  BY <1>4, <1>9 DEF Restart, Live
<1>10. CASE CrashInTick
  <2>1. \E retried, fired : st' = TickState(retried, fired)
    BY <1>10 DEF CrashInTick
  <2> QED BY <1>6, <1>9, <1>10, <2>1 DEF CrashInTick
<1>11. CASE CrashInCompletion
  <2>1. PICK r \in results : st' = IF r.status = "success" THEN SuccessState(r.job)
                                                           ELSE FailureState(r.job, r.status)
    BY <1>11 DEF CrashInCompletion
  <2>2. r.status # "fatal"
    BY <1>0, <1>9, <1>11 DEF CrashInCompletion, NoFatalCrash
  <2>3. ASSUME NEW i \in Ids, Pending(st', i)
        PROVE  \/ /\ Pending(st, i) /\ st'[i].status = st[i].status
                  /\ st'[i].retryAttempt = st[i].retryAttempt
               \/ /\ st'[i].status \in {"failed", "timeout"} /\ st'[i].retryAttempt > 0
                  /\ i \notin Workflows(cfg)
    <3>1. CASE i # r.job.task
      <4>1. st'[i] = st[i]
        BY <1>0, <2>1, <3>1 DEF SuccessState, FailureState
      <4> QED BY <2>3, <4>1 DEF Pending
    <3>2. CASE i = r.job.task
      <4>0. st[i] \in TaskStates
        BY <1>0
      <4>1. CASE r.status = "success"
        BY <1>0, <1>1, <2>1, <2>3, <3>2, <4>0, <4>1 DEF SuccessState, Pending, TaskStates
      <4>2. CASE r.status # "success"
        <5>1. /\ st'[i].status = r.status /\ st'[i].retryAt = st[i].retryAt
              /\ st'[i].retryAttempt = st[i].retryAttempt
          BY <1>0, <2>1, <3>2, <4>0, <4>2 DEF FailureState, TaskStates
        <5> QED BY <1>1, <2>2, <2>3, <3>2, <4>2, <5>1 DEF Pending, RetriesSound
      <4> QED BY <4>1, <4>2
    <3> QED BY <3>1, <3>2
  <2> QED BY <1>5, <1>9, <1>11, <2>3 DEF CrashInCompletion
<1>12. ASSUME NEW t \in TasksOf(cfg), ForceRun(t) PROVE RetriesSound' /\ LiveConfigured'
  <2>0. PICK job : job = Job(t, <<ForceOwner(t), "force", now>>, 1)
    OBVIOUS
  <2>1. queued' = queued \cup {job} /\ UNCHANGED <<st, running, results>>
    BY <1>12, <2>0 DEF ForceRun
  <2>2. \A j \in {job} : Fit(j)
    BY <2>0, ForcedJobFits
  <2>3. Live' = Live \cup {job}
    BY <2>1, TickMoves
  <2>4. PICK jobs : jobs = {job}
    OBVIOUS
  <2>5. (\A j \in jobs : Fit(j)) /\ Live' \subseteq Live \cup jobs
    BY <2>2, <2>3, <2>4
  <2>6. LiveConfigured'
    BY <1>3, <2>5
  <2> QED BY <1>5, <2>1, <2>6 DEF Pending
<1>13. ASSUME st' = st, Live' \subseteq Live PROVE RetriesSound' /\ LiveConfigured'
  BY <1>4, <1>5, <1>13 DEF Pending
<1>14. CASE \/ \E j \in queued : StartJob(j)
            \/ \E j \in running, outcome \in Outcomes : FinishJob(j, outcome)
  BY <1>13, <1>14, RunMoves
<1>15. CASE Crash \/ Advance \/ NetworkChanges \/ (\E p \in BOOLEAN : SetPaused(p)) \/ UNCHANGED vars
  BY <1>13, <1>15 DEF Crash, Restart, Advance, NetworkChanges, SetPaused, vars, daemon, Live
<1>16. ASSUME NEW c, Reload(c) PROVE FALSE
  BY <1>16 DEF Reload
<1> QED BY <1>7, <1>8, <1>10, <1>11, <1>12, <1>14, <1>15, <1>16 DEF Next

(* A pending retry belongs to the task's last run, which failed, and knows *)
(* the number of the attempt, so checkRetries takes it up.  Without        *)
(* reloads: seeding a task that had one gives it another status.           *)
THEOREM RetriesFollowFailures ==
  ASSUME ~MayReload, NoFatalCrash
  PROVE  Spec /\ RetriesSound => []RetryFollowsFailure
<1>1. Init /\ RetriesSound => RetriesSound /\ LiveConfigured
  BY DEF Init, LiveConfigured, Live
<1>2. IInv /\ (RetriesSound /\ LiveConfigured) /\ [Next]_vars => (RetriesSound /\ LiveConfigured)'
  BY RetryStep
<1>3. RetriesSound => RetryFollowsFailure
  BY DEF RetriesSound, RetryFollowsFailure, Pending
<1> QED BY <1>1, <1>2, <1>3, Invariance, PTL DEF Spec
(* Where a retry goes.  A step that hands out attempts after the first is  *)
(* a tick, whole or cut short by a crash.                                  *)
LEMMA OthersAreFirst ==
  ASSUME IInv, [Next]_vars, ~Tick, ~CrashInTick
  PROVE  \A e \in issued' \ issued : e.job.attempt = 1
<1>1. ASSUME NEW r \in results, Complete(r)
      PROVE  \A e \in issued' \ issued : e.job.attempt = 1
  <2>1. CASE r.status = "success"
    <3>1. PICK s : Submit(DependentJobs(r.job, s))
      BY <1>1, <2>1 DEF Complete, CompleteSuccess
    <3>2. \A j \in DependentJobs(r.job, s) : j.attempt = 1
      BY DEF DependentJobs, Job
    <3> QED BY <3>1, <3>2 DEF Submit
  <2>2. CASE r.status # "success"
    BY <1>1, <2>2 DEF Complete, CompleteFailure
  <2> QED BY <2>1, <2>2
<1>2. ASSUME NEW t, ForceRun(t)
      PROVE  \A e \in issued' \ issued : e.job.attempt = 1
  <2> DEFINE job == Job(t, <<ForceOwner(t), "force", now>>, 1)
  <2>1. Submit({job}) /\ job.attempt = 1
    BY <1>2 DEF ForceRun, Job
  <2> HIDE DEF job
  <2> QED BY <2>1 DEF Submit
<1>3. CASE \/ \E j \in queued : StartJob(j)
           \/ \E j \in running, outcome \in Outcomes : FinishJob(j, outcome)
           \/ \E c \in Configs : Reload(c)
           \/ \E p \in BOOLEAN : SetPaused(p)
           \/ Crash \/ CrashInCompletion \/ Advance \/ NetworkChanges
           \/ UNCHANGED vars
  BY <1>3 DEF StartJob, FinishJob, Reload, SetPaused, Crash, CrashInCompletion,
              Advance, NetworkChanges, vars, history
<1> QED BY <1>1, <1>2, <1>3 DEF Next

LEMMA SpendsStep ==
  ASSUME IInv, [Next]_vars
  PROVE  \A e \in issued' \ issued : e.job.attempt > 1 =>
           /\ st[e.job.task].retryAt # NoTime /\ Makes(e.job, e.job.task)
           /\ st'[e.job.task].retryAt = NoTime
<1>1. ASSUME NEW retried, NEW fired, NEW early, Fires(retried, fired, early),
             NEW e \in issued' \ issued, e.job.attempt > 1
      PROVE  /\ st[e.job.task].retryAt # NoTime /\ Makes(e.job, e.job.task)
             /\ st'[e.job.task].retryAt = NoTime
  <2>1. e.job \in TickJobs(retried, fired, early)
    BY <1>1 DEF Fires, Submit
  <2>2. \A j \in RootJobs(fired \cap DueFlows, early) : j.attempt = 1
    BY DEF RootJobs, Job
  <2>3. \A j \in AloneJobs(fired \cap DueAlone(early)) : j.attempt = 1
    BY DEF AloneJobs, Job
  <2>4. e.job \in RetryJobs(retried)
    <3>1. e.job.attempt # 1
      BY <1>1
    <3>2. \/ e.job \in RetryJobs(retried)
          \/ e.job \in RootJobs(fired \cap DueFlows, early)
          \/ e.job \in AloneJobs(fired \cap DueAlone(early))
      BY <2>1 DEF TickJobs
    <3> QED BY <2>2, <2>3, <3>1, <3>2
  <2>5. PICK t \in retried : e.job = Job(t, st[t].lastCycle, st[t].retryAttempt + 1)
    BY <2>4 DEF RetryJobs
  <2>6. t \in Retried /\ t \in Ids
    BY <1>1, ConfigFacts DEF Fires, Retried, IInv, TypeOK
  <2>7. e.job.task = t /\ Makes(e.job, t)
    BY <2>5 DEF Job, Makes
  <2>8. st'[t].retryAt = NoTime
    BY <1>1, <2>6, TickWrites DEF Fires, IInv
  <2> QED BY <2>6, <2>7, <2>8 DEF Retried
<1>2. CASE Tick \/ CrashInTick
  <2>1. \E retried, fired, early : Fires(retried, fired, early)
    BY <1>2 DEF Tick, CrashInTick, Fires
  <2> QED BY <1>1, <2>1
<1>3. CASE ~Tick /\ ~CrashInTick
  BY <1>3, OthersAreFirst
<1> QED BY <1>2, <1>3

(* Each retry is made from the state file, which no longer holds it then:  *)
(* whatever crashes, restarts and reloads come between, a pending retry is *)
(* made at most once, under its own cycle and with its own number.         *)
THEOREM RetriesSpent == Spec => RetrySpent
<1> QED BY Invariance, SpendsStep, PTL DEF Spec, RetrySpent

LEMMA DropsNone ==
  ASSUME IInv, [Next]_vars, ~MayCrash, NEW i \in Ids,
         Pending(st, i), OwedRetry(i)' # OwedRetry(i)
  PROVE  \/ \E j \in queued' : j.n = batch /\ Makes(j, i)
         \/ \E r \in results \ results' : r.job.task = i
<1>1. CASE Tick
  <2>1. PICK early \in SUBSET Retried :
          LET fired == DueFlows \cup DueAlone(early)
          IN  /\ queued' = queued \cup TickJobs(Retried, fired, early)
              /\ st' = TickState(Retried, fired)
    BY <1>1 DEF Tick
  <2>2. i \in Retried
    BY <2>1, TickWrites DEF IInv, OwedRetry
  <2> DEFINE job == Job(i, st[i].lastCycle, st[i].retryAttempt + 1)
  <2>3. job \in queued'
    BY <2>1, <2>2 DEF TickJobs, RetryJobs
  <2>4. job.n = batch /\ Makes(job, i)
    BY DEF Job, Makes
  <2> QED BY <2>3, <2>4
<1>2. ASSUME NEW r \in results, Complete(r)
      PROVE  \E s \in results \ results' : s.job.task = i
  <2>1. r \in results \ results'
    BY <1>2 DEF Complete
  <2>2. r.job.task = i
    BY <1>2, CompletionRetries DEF OwedRetry
  <2> QED BY <2>1, <2>2
<1>3. ASSUME NEW c \in Configs, Reload(c) PROVE FALSE
  <2>1. st[i] \in TaskStates
    BY DEF IInv, TypeOK
  <2> QED BY <1>3, <2>1 DEF Reload, Seeded, OwedRetry, TaskStates
<1>4. CASE Crash \/ CrashInTick \/ CrashInCompletion
  BY <1>4 DEF Crash, CrashInTick, CrashInCompletion, Restart
<1>5. CASE \/ \E j \in queued : StartJob(j)
           \/ \E j \in running, outcome \in Outcomes : FinishJob(j, outcome)
           \/ \E t \in Forcible \cap TasksOf(cfg) : ForceRun(t)
           \/ \E p \in BOOLEAN : SetPaused(p)
           \/ Advance \/ NetworkChanges \/ UNCHANGED vars
  <2>1. st' = st
    BY <1>5 DEF StartJob, FinishJob, ForceRun, SetPaused, Advance, NetworkChanges, vars
  <2> QED BY <2>1 DEF OwedRetry
<1> QED BY <1>1, <1>2, <1>3, <1>4, <1>5 DEF Next

(* No pending retry is dropped by a daemon that does not crash: what takes *)
(* it out of the file hands its next attempt to the pool, or is another    *)
(* completion of its task.  Force-runs, reloads and pauses included.       *)
THEOREM RetriesNotDropped ==
  ASSUME ~MayCrash
  PROVE  Spec => RetryNotDropped
<1>1. IInv /\ [Next]_vars =>
        [\A i \in Ids : st[i].retryAt # NoTime /\ OwedRetry(i)' # OwedRetry(i) =>
           \/ \E j \in queued' : j.n = batch /\ Makes(j, i)
           \/ \E r \in results \ results' : r.job.task = i]_vars
  BY DropsNone DEF Pending
<1> QED BY <1>1, Invariance, PTL DEF Spec, RetryNotDropped

-----------------------------------------------------------------------------
(* No attempt is made twice: the attempts of a task in a scheduled cycle   *)
(* follow one another, each the only one that is not yet over.             *)

SameRun(i, j) == Scheduled(i.cycle) /\ i.task = j.task /\ i.cycle = j.cycle

(* The attempts of t in cycle c that were made are over.                   *)
Over(t, c, made, live) == /\ \E i \in made : i.task = t /\ i.cycle = c
                          /\ \A i \in live : ~(i.task = t /\ i.cycle = c)

(* Over the jobs made, those not yet over, the tasks that succeeded and    *)
(* the attempts that a retry is owed for.                                  *)
Chain(made, live, succ, owed) ==
  /\ live \subseteq made
  /\ \A i, j \in made : SameRun(i, j) /\ i.attempt = j.attempt => i = j
  /\ \A j \in live, i \in made : SameRun(i, j) => i.attempt <= j.attempt
  /\ \A t, c : <<t, c>> \in succ /\ Scheduled(c) => Over(t, c, made, live)
  /\ \A o \in owed : Scheduled(o.cycle) =>
       /\ Over(o.task, o.cycle, made, live)
       /\ <<o.task, o.cycle>> \notin succ
       /\ \A i \in made : SameRun(i, o) => i.attempt <= o.attempt

Counting(jobs) == \A j \in jobs : j.attempt \in Nat

(* New jobs are added: the first attempt in a cycle, or the next after one *)
(* that a retry was owed for.                                              *)
LEMMA ChainAdds ==
  ASSUME NEW made, NEW live, NEW succ, NEW owed, NEW jobs, NEW left \in SUBSET owed,
         Chain(made, live, succ, owed), Counting(made), Counting(jobs), Counting(owed),
         \A i, j \in jobs : SameRun(i, j) => i = j,
         \A j \in jobs : \/ \A i \in made : ~SameRun(i, j)
                         \/ \E o \in owed : /\ SameRun(o, j) /\ j.attempt = o.attempt + 1
                                            /\ \A l \in left : ~SameRun(l, j)
  PROVE  Chain(made \cup jobs, live \cup jobs, succ, left)
<1>1. ASSUME NEW j \in jobs, Scheduled(j.cycle)
      PROVE  /\ \A i \in made : SameRun(i, j) => i.attempt < j.attempt
             /\ \A i \in live : ~SameRun(i, j)
             /\ <<j.task, j.cycle>> \notin succ
             /\ \A l \in left : ~SameRun(l, j)
  <2>1. CASE \A i \in made : ~SameRun(i, j)
    BY <1>1, <2>1 DEF Chain, Over, SameRun
  <2>2. CASE \E o \in owed : /\ SameRun(o, j) /\ j.attempt = o.attempt + 1
                             /\ \A l \in left : ~SameRun(l, j)
    <3>1. PICK o \in owed : /\ SameRun(o, j) /\ j.attempt = o.attempt + 1
                            /\ \A l \in left : ~SameRun(l, j)
      BY <2>2
    <3>2. o.attempt \in Nat /\ Over(o.task, o.cycle, made, live)
          /\ <<o.task, o.cycle>> \notin succ
          /\ \A i \in made : SameRun(i, o) => i.attempt <= o.attempt
      BY <3>1 DEF Chain, Counting, SameRun
    <3>3. \A i \in made : SameRun(i, j) => i.attempt < j.attempt
      BY <3>1, <3>2 DEF Counting, SameRun
    <3> QED BY <3>1, <3>2, <3>3 DEF Over, SameRun
  <2> QED BY <2>1, <2>2
<1>2. \A i, j \in made \cup jobs : SameRun(i, j) /\ i.attempt = j.attempt => i = j
  <2>1. ASSUME NEW i \in made, NEW j \in jobs, i.attempt = j.attempt PROVE ~SameRun(i, j) /\ ~SameRun(j, i)
    <3>1. ~(i.attempt < j.attempt)
      BY <2>1 DEF Counting
    <3> QED BY <1>1, <3>1 DEF SameRun
  <2> QED BY <2>1 DEF Chain
<1>3. \A j \in live \cup jobs, i \in made \cup jobs : SameRun(i, j) => i.attempt <= j.attempt
  <2>1. \A j \in live, i \in made : SameRun(i, j) => i.attempt <= j.attempt
    BY DEF Chain
  <2>2. \A j \in live, i \in jobs : ~SameRun(i, j)
    BY <1>1 DEF SameRun
  <2>3. \A j \in jobs, i \in made : SameRun(i, j) => i.attempt <= j.attempt
    <3> SUFFICES ASSUME NEW j \in jobs, NEW i \in made, SameRun(i, j) PROVE i.attempt <= j.attempt
      OBVIOUS
    <3>1. i.attempt \in Nat /\ j.attempt \in Nat /\ i.attempt < j.attempt
      BY <1>1 DEF Counting, SameRun
    <3> QED BY <3>1
  <2>4. \A j \in jobs, i \in jobs : SameRun(i, j) => i.attempt <= j.attempt
    BY DEF Counting
  <2> QED BY <2>1, <2>2, <2>3, <2>4
<1>4. ASSUME NEW t, NEW c, <<t, c>> \in succ, Scheduled(c)
      PROVE  Over(t, c, made \cup jobs, live \cup jobs)
  <2>1. Over(t, c, made, live)
    BY <1>4 DEF Chain
  <2>2. \A j \in jobs : ~(j.task = t /\ j.cycle = c)
    BY <1>1, <1>4
  <2> QED BY <2>1, <2>2 DEF Over
<1>5. ASSUME NEW o \in left, Scheduled(o.cycle)
      PROVE  /\ Over(o.task, o.cycle, made \cup jobs, live \cup jobs)
             /\ <<o.task, o.cycle>> \notin succ
             /\ \A i \in made \cup jobs : SameRun(i, o) => i.attempt <= o.attempt
  <2>1. /\ Over(o.task, o.cycle, made, live) /\ <<o.task, o.cycle>> \notin succ
        /\ \A i \in made : SameRun(i, o) => i.attempt <= o.attempt
    BY <1>5 DEF Chain
  <2>2. \A j \in jobs : ~SameRun(o, j)
    BY <1>1, <1>5 DEF SameRun
  <2> QED BY <1>5, <2>1, <2>2 DEF Over, SameRun
<1>6. live \cup jobs \subseteq made \cup jobs
  BY DEF Chain
<1> QED BY <1>2, <1>3, <1>4, <1>5, <1>6 DEF Chain

(* Of a run, no two attempts are under way at once.                        *)
LEMMA OnlyLive ==
  ASSUME NEW made, NEW live, NEW succ, NEW owed, Chain(made, live, succ, owed), Counting(made),
         NEW i \in live, NEW j \in live, SameRun(i, j)
  PROVE  i = j
<1>1. i \in made /\ j \in made /\ i.attempt \in Nat /\ j.attempt \in Nat
  BY DEF Chain, Counting
<1>2. i.attempt <= j.attempt /\ j.attempt <= i.attempt
  BY <1>1 DEF Chain, SameRun
<1>3. i.attempt = j.attempt
  BY <1>1, <1>2
<1> QED BY <1>1, <1>3 DEF Chain

(* An attempt ends: with a failure, that a retry may be owed for.          *)
LEMMA ChainFails ==
  ASSUME NEW made, NEW live, NEW succ, NEW owed, NEW left, NEW j \in live,
         Chain(made, live, succ, owed), Counting(made),
         \A o \in left : \/ o \in owed
                         \/ o.task = j.task /\ o.cycle = j.cycle /\ o.attempt = j.attempt
  PROVE  Chain(made, live \ {j}, succ, left)
<1>1. Scheduled(j.cycle) => /\ Over(j.task, j.cycle, made, live \ {j})
                            /\ <<j.task, j.cycle>> \notin succ
  <2> SUFFICES ASSUME Scheduled(j.cycle) PROVE Over(j.task, j.cycle, made, live \ {j})
                                               /\ <<j.task, j.cycle>> \notin succ
    OBVIOUS
  <2>1. ASSUME <<j.task, j.cycle>> \in succ PROVE FALSE
    <3>1. Over(j.task, j.cycle, made, live)
      BY <2>1 DEF Chain
    <3> QED BY <3>1 DEF Over
  <2>2. ASSUME NEW i \in live, SameRun(i, j) PROVE i = j
    BY <2>2, OnlyLive
  <2> QED BY <2>1, <2>2 DEF Chain, Over, SameRun
<1> QED BY <1>1 DEF Chain, Over, SameRun

(* An attempt succeeds.                                                    *)
LEMMA ChainSucceeds ==
  ASSUME NEW made, NEW live, NEW succ, NEW owed, NEW j \in live,
         Chain(made, live, succ, owed), Counting(made)
  PROVE  Chain(made, live \ {j}, succ \cup {<<j.task, j.cycle>>}, owed)
<1> DEFINE rest == live \ {j}
           more == succ \cup {<<j.task, j.cycle>>}
<1>1. Chain(made, rest, succ, owed)
  BY ChainFails
<1>2. Scheduled(j.cycle) => Over(j.task, j.cycle, made, rest)
  <2>1. \A i \in live : SameRun(i, j) => i = j
    BY OnlyLive
  <2> QED BY <2>1 DEF Chain, Over, SameRun
<1>3. ASSUME NEW t, NEW c, <<t, c>> \in more, Scheduled(c)
      PROVE  Over(t, c, made, rest)
  <2>1. CASE <<t, c>> \in succ
    BY <1>1, <1>3, <2>1 DEF Chain
  <2>2. CASE <<t, c>> = <<j.task, j.cycle>>
    BY <1>2, <1>3, <2>2
  <2> QED BY <1>3, <2>1, <2>2
<1>4. \A o \in owed : Scheduled(o.cycle) => <<o.task, o.cycle>> # <<j.task, j.cycle>>
  BY DEF Chain, Over
<1> HIDE DEF rest, more
<1>5. \A o \in owed : Scheduled(o.cycle) => <<o.task, o.cycle>> \notin more
  BY <1>1, <1>4 DEF more, Chain
<1> QED BY <1>1, <1>3, <1>5 DEF Chain, more, rest
-----------------------------------------------------------------------------
(* The attempts that a retry is owed for.                                  *)
Owed(s) == {[task |-> i, cycle |-> s[i].lastCycle, attempt |-> s[i].retryAttempt] :
              i \in {k \in Ids : Pending(s, k)}}

RunsChained == Chain(Made, Live, succeeded, Owed(st))

(* A job bears the number of the handler that made it, so it is made once, *)
(* and it is in one place at a time.                                       *)
Numbered == /\ \A j \in Made : j.n < batch
            /\ \A d, e \in issued : d.job = e.job => d = e

OnePlace == /\ queued \cap running = {}
            /\ \A r \in results : r.job \notin queued \cup running
            /\ \A r, q \in results : r.job = q.job => r = q

(* No cycle is later than the last firing its workflow attempted.          *)
CyclesNoted == \A j \in Made : Scheduled(j.cycle) =>
                 j.cycle[3] <= st[j.cycle[1]].lastAttempted

OnceInv == RunsChained /\ Numbered /\ OnePlace /\ CyclesNoted

LEMMA ChainNext ==
  ASSUME NEW made, NEW live, NEW succ, NEW owed, Chain(made, live, succ, owed),
         Made' = made, Live' = live, succeeded' = succ, Owed(st') = owed
  PROVE  RunsChained'
BY DEF RunsChained, Chain, Over, SameRun, Owed, Pending

LEMMA OnceCounting ==
  ASSUME IInv
  PROVE  /\ Made \subseteq Jobs /\ Counting(Made)
         /\ Counting(Owed(st))
<1>1. Made \subseteq Jobs /\ \A i \in Ids : st[i] \in TaskStates
  BY DEF IInv, TypeOK, Made
<1>2. \A j \in Jobs : j.attempt \in Nat
  BY DEF Jobs
<1>3. \A i \in Ids : st[i].retryAttempt \in Nat
  BY <1>1 DEF TaskStates
<1> QED BY <1>1, <1>2, <1>3 DEF Counting, Owed

LEMMA NewNumbers ==
  ASSUME IInv, Numbered, NEW jobs, Submit(jobs), \A j \in jobs : j.n = batch
  PROVE  Numbered' /\ \A j \in jobs : j \notin Made
<1>1. batch \in Nat /\ Made \subseteq Jobs
  BY OnceCounting DEF IInv, TypeOK
<1>2. ASSUME NEW j \in jobs, j \in Made PROVE FALSE
  BY <1>1, <1>2 DEF Numbered
<1>3. Made' = Made \cup jobs
  BY SubmitMakes
<1>4. (\A j \in Made : j.n < batch)'
  <2>1. ASSUME NEW j \in Made' PROVE j.n < batch'
    <3>1. CASE j \in Made
      <4>1. j.n \in Nat /\ j.n < batch
        BY <1>1, <3>1 DEF Numbered, Jobs
      <4> QED BY <1>1, <4>1 DEF Submit
    <3>2. CASE j \in jobs
      BY <1>1, <3>2 DEF Submit
    <3> QED BY <1>3, <3>1, <3>2
  <2> QED BY <2>1
<1>5. (\A d, e \in issued : d.job = e.job => d = e)'
  <2>1. issued' = issued \cup {[job |-> j, window |-> WindowOf(j)] : j \in jobs}
    BY DEF Submit
  <2>2. ASSUME NEW d \in issued', NEW e \in issued', d.job = e.job PROVE d = e
    <3>1. \A x \in issued : x.job \in Made
      BY DEF Made
    <3>2. \A x \in issued' \ issued : x.job \in jobs /\ x = [job |-> x.job, window |-> WindowOf(x.job)]
      BY <2>1
    <3>3. CASE d \in issued /\ e \in issued
      BY <2>2, <3>3 DEF Numbered
    <3>4. CASE d \notin issued /\ e \notin issued
      BY <2>2, <3>2, <3>4
    <3> QED BY <1>2, <2>2, <3>1, <3>2, <3>3, <3>4
  <2> QED BY <2>2
<1> QED BY <1>2, <1>4, <1>5 DEF Numbered

LEMMA NewPlaces ==
  ASSUME OnePlace, RunsChained, NEW jobs, \A j \in jobs : j \notin Made,
         queued' = queued \cup jobs, running' = running, results' \subseteq results
  PROVE  OnePlace'
<1>1. \A j \in jobs : j \notin Live
  BY DEF RunsChained, Chain
<1> QED BY <1>1 DEF OnePlace, Live

(* A tick.                                                                 *)
LEMMA TickChains ==
  ASSUME IInv, FiringInv(Ids), OnceInv, Tick
  PROVE  OnceInv'
<1>0. /\ TypeOK /\ st \in [Ids -> TaskStates] /\ cfg \in Configs
      /\ RunsChained /\ Numbered /\ OnePlace /\ CyclesNoted
  BY DEF IInv, TypeOK, OnceInv
<1>1. PICK early \in SUBSET Retried :
        LET fired == DueFlows \cup DueAlone(early)
        IN  /\ Submit(TickJobs(Retried, fired, early))
            /\ queued' = queued \cup TickJobs(Retried, fired, early)
            /\ st' = TickState(Retried, fired)
  BY DEF Tick
<1> DEFINE fired == DueFlows \cup DueAlone(early)
           jobs == TickJobs(Retried, fired, early)
           IsRetry(j) == /\ j.task \in Retried
                         /\ j = Job(j.task, st[j.task].lastCycle, st[j.task].retryAttempt + 1)
           IsRoot(j) == \E w \in DueFlows : j = Job(j.task, CycleAt(w), 1)
           IsAlone(j) == j = Job(j.task, NoCycle, 1)
<1>2. /\ Submit(jobs) /\ queued' = queued \cup jobs
      /\ UNCHANGED <<running, results, succeeded>>
      /\ Fires(Retried, fired, early)
  BY <1>1 DEF Tick, Fires
<1>3. Made' = Made \cup jobs /\ Live' = Live \cup jobs
  BY <1>2, SubmitMakes, TickMoves
<1>4. \A j \in jobs : IsRetry(j) \/ IsRoot(j) \/ IsAlone(j)
  BY DEF TickJobs, RetryJobs, RootJobs, AloneJobs, Job
<1>5. \A j \in jobs : j.n = batch /\ j.attempt \in Nat
  <2>1. \A j \in jobs : j.n = batch
    BY <1>4 DEF Job
  <2>2. \A j \in jobs : Fit(j)
    BY TickJobsFit
  <2> QED BY <2>1, <2>2 DEF Fit, Jobs
<1> HIDE DEF jobs
<1>6. Numbered' /\ (\A j \in jobs : j \notin Made)
  BY <1>0, <1>2, <1>5, NewNumbers
<1>7. OnePlace'
  BY <1>0, <1>2, <1>6, NewPlaces
<1>8. ASSUME NEW t \in Retried
      PROVE  /\ t \in Ids /\ Pending(st, t) /\ ~Pending(st', t)
             /\ [task |-> t, cycle |-> st[t].lastCycle, attempt |-> st[t].retryAttempt] \in Owed(st)
             /\ Scheduled(st[t].lastCycle) =>
                  \E i \in Made : i.task = t /\ i.cycle = st[t].lastCycle
  <2>1. t \in Ids /\ Pending(st, t)
    BY <1>0, ConfigFacts DEF Retried, Pending
  <2>2. ~Pending(st', t)
    BY <1>0, <1>2, <2>1, TickWrites DEF Fires, Pending
  <2> DEFINE o == [task |-> t, cycle |-> st[t].lastCycle, attempt |-> st[t].retryAttempt]
  <2>3. o \in Owed(st) /\ o.task = t /\ o.cycle = st[t].lastCycle
    BY <2>1 DEF Owed
  <2> HIDE DEF o
  <2>4. Scheduled(o.cycle) => Over(o.task, o.cycle, Made, Live)
    BY <1>0, <2>3 DEF RunsChained, Chain
  <2> QED BY <2>1, <2>2, <2>3, <2>4 DEF Over, o
<1>9. ASSUME NEW j \in jobs, IsRoot(j)
      PROVE  /\ \A i \in Made : ~SameRun(i, j)
             /\ j.cycle[3] <= st'[j.cycle[1]].lastAttempted
  <2>1. PICK w \in DueFlows : j = Job(j.task, CycleAt(w), 1)
    BY <1>9
  <2>2. w \in Ids /\ w \in Items(cfg) /\ Due(w) /\ st[w].lastSuccess # NoTime
    BY <1>0, ConfigFacts DEF DueFlows, FiringInv, OnRecord
  <2>3. j.cycle = <<w, "at", LastFiringOf(w)>>
    BY <2>1 DEF Job, CycleAt
  <2>4. st[w].lastAttempted < LastFiringOf(w) /\ LastFiringOf(w) \in Nat
    BY <1>0, <2>2, DueIsLater, LastFiringOfType
  <2>5. st[w].lastAttempted \in Int
    BY <1>0, <2>2 DEF TaskStates, Times, Instants, NoTime
  <2>6. st'[w].lastAttempted = LastFiringOf(w)
    BY <1>2, <2>2, TickGrows
  <2>7. ASSUME NEW i \in Made, SameRun(i, j) PROVE FALSE
    <3>1. i.cycle = <<w, "at", LastFiringOf(w)>> /\ Scheduled(i.cycle)
      BY <2>3, <2>7 DEF SameRun
    <3>2. i.cycle[3] <= st[i.cycle[1]].lastAttempted
      BY <1>0, <3>1 DEF CyclesNoted
    <3>3. LastFiringOf(w) <= st[w].lastAttempted
      BY <3>1, <3>2
    <3> QED BY <2>4, <2>5, <3>3
  <2> QED BY <2>3, <2>4, <2>6, <2>7
<1>10. \A i, j \in jobs : SameRun(i, j) => i = j
  <2> SUFFICES ASSUME NEW i \in jobs, NEW j \in jobs, SameRun(i, j) PROVE i = j
    OBVIOUS
  <2>0. i.task = j.task /\ i.cycle = j.cycle /\ Scheduled(i.cycle) /\ SameRun(j, i)
    BY DEF SameRun
  <2>1. ~IsAlone(i) /\ ~IsAlone(j)
    BY <2>0 DEF Job, Scheduled
  <2>2. ASSUME NEW k \in jobs, IsRetry(k), Scheduled(k.cycle)
        PROVE  \E m \in Made : SameRun(m, k)
    <3>1. k.task \in Retried /\ k.cycle = st[k.task].lastCycle
      BY <2>2 DEF Job
    <3>2. PICK m \in Made : m.task = k.task /\ m.cycle = k.cycle
      BY <1>8, <2>2, <3>1
    <3> QED BY <2>2, <3>2 DEF SameRun
  <2>3. ~(IsRetry(i) /\ IsRoot(j)) /\ ~(IsRetry(j) /\ IsRoot(i))
    BY <1>9, <2>0, <2>2 DEF SameRun
  <2>4. CASE IsRetry(i) /\ IsRetry(j)
    BY <2>0, <2>4
  <2>5. CASE IsRoot(i) /\ IsRoot(j)
    <3>1. i = Job(i.task, i.cycle, 1) /\ j = Job(j.task, j.cycle, 1)
      BY <2>5 DEF Job
    <3> QED BY <2>0, <3>1
  <2> QED BY <1>4, <2>1, <2>3, <2>4, <2>5
<1>11. Owed(st') \subseteq Owed(st)
  BY <1>0, <1>2, TickWrites DEF Fires, Owed, Pending
<1>12. ASSUME NEW j \in jobs
       PROVE  \/ \A i \in Made : ~SameRun(i, j)
              \/ \E o \in Owed(st) : /\ SameRun(o, j) /\ j.attempt = o.attempt + 1
                                     /\ \A l \in Owed(st') : ~SameRun(l, j)
  <2>1. CASE IsAlone(j)
    <3>1. ~Scheduled(j.cycle)
      BY <2>1 DEF Job, Scheduled
    <3> QED BY <3>1 DEF SameRun
  <2>2. CASE IsRetry(j) /\ Scheduled(j.cycle)
    <3> DEFINE t == j.task
               o == [task |-> t, cycle |-> st[t].lastCycle, attempt |-> st[t].retryAttempt]
    <3>1. j.cycle = st[t].lastCycle /\ j.attempt = st[t].retryAttempt + 1
      BY <2>2 DEF Job
    <3>2. o \in Owed(st) /\ SameRun(o, j) /\ j.attempt = o.attempt + 1
      BY <1>8, <2>2, <3>1 DEF SameRun
    <3>3. ASSUME NEW l \in Owed(st') PROVE l.task # t
      <4>1. PICK k \in Ids : Pending(st', k) /\ l.task = k
        BY DEF Owed
      <4> QED BY <1>8, <2>2, <4>1
    <3> QED BY <3>2, <3>3 DEF SameRun
  <2>3. CASE ~Scheduled(j.cycle)
    BY <2>3 DEF SameRun
  <2> QED BY <1>4, <1>9, <2>1, <2>2, <2>3
<1>13. RunsChained'
  <2>1. PICK left : left = Owed(st')
    OBVIOUS
  <2>2. Chain(Made \cup jobs, Live \cup jobs, succeeded, left)
    <3>1. Chain(Made, Live, succeeded, Owed(st)) /\ Counting(Made) /\ Counting(Owed(st))
      BY <1>0, OnceCounting DEF RunsChained
    <3>2. Counting(jobs) /\ left \in SUBSET Owed(st)
      BY <1>5, <1>11, <2>1 DEF Counting
    <3> QED BY <1>10, <1>12, <2>1, <3>1, <3>2, ChainAdds
  <2> QED BY <1>2, <1>3, <2>1, <2>2, ChainNext
<1>14. CyclesNoted'
  <2>1. ASSUME NEW j \in Made, Scheduled(j.cycle)
        PROVE  j.cycle[3] <= st'[j.cycle[1]].lastAttempted
    <3>1. PICK w : w = j.cycle[1]
      OBVIOUS
    <3>2. j.cycle[3] <= st[w].lastAttempted /\ w \in Ids /\ j.cycle[3] \in Nat
      BY <1>0, <2>1, <3>1, OnceCounting DEF CyclesNoted, Jobs, Cycles, Scheduled, Instants
    <3>3. st[w].lastSuccess # NoTime
      BY <3>2 DEF FiringInv, OnRecord
    <3>4. st[w].lastAttempted <= st'[w].lastAttempted
      BY <1>2, <3>2, <3>3, TickGrows
    <3>5. st[w].lastAttempted \in Int /\ st'[w].lastAttempted \in Int
      <4>1. StatesFit(st)'
        BY <1>0, TickStateFits, <1>2 DEF Fires, StatesFit, DueFlows, DueAlone, Items
      <4> QED BY <1>0, <3>2, <4>1 DEF StatesFit, TaskStates, Times, Instants, NoTime
    <3> QED BY <3>1, <3>2, <3>4, <3>5
  <2>2. ASSUME NEW j \in jobs, Scheduled(j.cycle)
        PROVE  j.cycle[3] <= st'[j.cycle[1]].lastAttempted
    <3>1. CASE IsRetry(j)
      <4>0. j.task \in Retried /\ j.cycle = st[j.task].lastCycle
        BY <3>1 DEF Job
      <4>1. PICK i \in Made : i.cycle = j.cycle
        BY <1>8, <2>2, <4>0
      <4> QED BY <2>1, <2>2, <4>1
    <3>2. ~IsAlone(j)
      BY <2>2 DEF Job, Scheduled
    <3> QED BY <1>4, <1>9, <3>1, <3>2
  <2> QED BY <1>3, <2>1, <2>2 DEF CyclesNoted, Scheduled
<1> QED BY <1>6, <1>7, <1>13, <1>14 DEF OnceInv

(* A result is handled.  Its job is under way, so no dependent of its task *)
(* was made in that cycle: one that was would follow a success (OrderInv), *)
(* and after a success nothing of the task is under way.                   *)
LEMMA CompletionChains ==
  ASSUME IInv, ParentsStable, OrderInv, OnceInv, NEW r \in results, Complete(r)
  PROVE  RunsChained' /\ Numbered' /\ OnePlace'
<1>0. /\ TypeOK /\ st \in [Ids -> TaskStates] /\ cfg \in Known
      /\ RunsChained /\ Numbered /\ OnePlace
      /\ r.job \in Jobs /\ r.job \in Live /\ r.job \in Made
  BY DEF IInv, TypeOK, Known, OnceInv, RunsChained, Chain, Live
<1>1. PICK jobs : /\ r.status # "success" => jobs = {} /\ UNCHANGED <<issued, batch, succeeded>>
                  /\ r.status = "success" =>
                       /\ jobs = DependentJobs(r.job, st')
                       /\ Submit(jobs)
                       /\ succeeded' = succeeded \cup {<<r.job.task, r.job.cycle>>}
                  /\ queued' = queued \cup jobs
                  /\ results' = results \ {r}
                  /\ UNCHANGED <<running, cfg>>
                  /\ Made' = Made \cup jobs
                  /\ Live' \subseteq Live \cup jobs
  BY CompleteMoves
<1>2. ASSUME NEW j \in jobs
      PROVE  /\ r.status = "success" /\ j.n = batch /\ j.cycle = r.job.cycle
             /\ j = Job(j.task, r.job.cycle, 1)
             /\ j.task \in TasksOf(cfg) /\ cfg.parent[j.task] = r.job.task
  <2>1. r.status = "success" /\ jobs = DependentJobs(r.job, st')
    BY <1>1
  <2>2. PICK u \in ReadyDependents(r.job, st') : j = Job(u, r.job.cycle, 1)
    BY <2>1 DEF DependentJobs
  <2> QED BY <2>1, <2>2 DEF ReadyDependents, Job
<1>3. Numbered' /\ \A j \in jobs : j \notin Made
  <2>1. CASE r.status = "success"
    BY <1>0, <1>1, <1>2, <2>1, NewNumbers
  <2>2. CASE r.status # "success"
    BY <1>0, <1>1, <2>2 DEF Numbered, Made
  <2> QED BY <2>1, <2>2
<1>4. OnePlace'
  BY <1>0, <1>1, <1>3, NewPlaces
<1>5. Live' = (Live \ {r.job}) \cup jobs
  <2>1. r.job \notin queued /\ r.job \notin running /\ r.job \notin jobs
    BY <1>0, <1>3 DEF OnePlace
  <2>2. {q.job : q \in results \ {r}} = {q.job : q \in results} \ {r.job}
    BY <1>0 DEF OnePlace
  <2> QED BY <1>1, <2>1, <2>2 DEF Live
<1>6. ASSUME NEW j \in jobs, NEW i \in Made, SameRun(i, j) PROVE FALSE
  <2>1. j.task \in TasksOf(cfg) /\ cfg.parent[j.task] = r.job.task /\ cfg.parent[j.task] # NoTask
    BY <1>0, <1>2, NoTaskAssumption DEF Jobs
  <2>2. i.task = j.task /\ i.cycle = r.job.cycle /\ Scheduled(i.cycle)
    BY <1>2, <1>6 DEF SameRun
  <2>3. <<r.job.task, r.job.cycle>> \in succeeded
    BY <1>0, <2>1, <2>2 DEF OrderInv, InOrder
  <2> QED BY <1>0, <2>2, <2>3 DEF RunsChained, Chain, Over
<1>7. Counting(Made) /\ Counting(Owed(st)) /\ Counting(jobs)
  <2>1. \A j \in jobs : j.attempt = 1
    BY <1>2 DEF Job
  <2> QED BY <2>1, OnceCounting DEF Counting
<1>8. \A i \in Ids \ {r.job.task} : /\ st'[i].retryAt = st[i].retryAt
                                    /\ st'[i].lastCycle = st[i].lastCycle
                                    /\ st'[i].retryAttempt = st[i].retryAttempt
  BY CompletionRetries
<1>9. ASSUME NEW o \in Owed(st'), o.task # r.job.task PROVE o \in Owed(st)
  <2>1. PICK i \in Ids : /\ Pending(st', i)
                         /\ o = [task |-> i, cycle |-> st'[i].lastCycle, attempt |-> st'[i].retryAttempt]
    BY DEF Owed
  <2>2. i \in Ids \ {r.job.task}
    BY <1>9, <2>1
  <2> QED BY <1>8, <2>1, <2>2 DEF Owed, Pending
<1>10. RunsChained'
  <2>0. PICK left : left = Owed(st')
    OBVIOUS
  <2>1. CASE r.status = "success"
    <3> DEFINE more == succeeded \cup {<<r.job.task, r.job.cycle>>}
    <3>1. Chain(Made, Live \ {r.job}, more, Owed(st))
      BY <1>0, <1>7, ChainSucceeds DEF RunsChained
    <3>2. left \subseteq Owed(st)
      <4>1. ~Pending(st', r.job.task)
        BY <2>1, CompletionRetries
      <4>2. \A o \in left : o.task # r.job.task
        BY <2>0, <4>1 DEF Owed
      <4> QED BY <1>9, <2>0, <4>2
    <3>3. \A i, j \in jobs : SameRun(i, j) => i = j
      <4> SUFFICES ASSUME NEW i \in jobs, NEW j \in jobs, i.task = j.task PROVE i = j
        BY DEF SameRun
      <4> QED BY <1>2
    <3>4. Chain(Made \cup jobs, (Live \ {r.job}) \cup jobs, more, left)
      BY <1>6, <1>7, <3>1, <3>2, <3>3, ChainAdds
    <3> HIDE DEF more
    <3>5. succeeded' = more
      BY <1>1, <2>1 DEF more
    <3> QED BY <1>1, <1>5, <2>0, <3>4, <3>5, ChainNext
  <2>2. CASE r.status # "success"
    <3>1. ASSUME NEW o \in left, o.task = r.job.task
          PROVE  o.cycle = r.job.cycle /\ o.attempt = r.job.attempt
      <4>1. PICK i \in Ids : /\ Pending(st', i) /\ o.task = i
                             /\ o.cycle = st'[i].lastCycle /\ o.attempt = st'[i].retryAttempt
        BY <2>0 DEF Owed
      <4> QED BY <2>2, <3>1, <4>1, CompletionRetries
    <3>2. Chain(Made, Live \ {r.job}, succeeded, left)
      BY <1>0, <1>7, <1>9, <2>0, <3>1, ChainFails DEF RunsChained
    <3>3. Made' = Made /\ Live' = Live \ {r.job} /\ succeeded' = succeeded
      BY <1>1, <1>5, <2>2
    <3> QED BY <2>0, <3>2, <3>3, ChainNext
  <2> QED BY <2>1, <2>2
<1> QED BY <1>3, <1>4, <1>10

LEMMA CompletionNotes ==
  ASSUME IInv, OnceInv, NEW r \in results, Complete(r)
  PROVE  CyclesNoted'
<1>1. AttemptsKept
  <2>1. CASE r.status = "success"
    BY <2>1, CompletionsKeep DEF Complete, CompleteSuccess
  <2>2. CASE r.status # "success"
    BY <2>2, CompletionsKeep DEF Complete
  <2> QED BY <2>1, <2>2
<1>2. \A j \in Made' : j \in Made \/ j.cycle = r.job.cycle
  <2>1. PICK jobs : /\ r.status # "success" => jobs = {}
                    /\ r.status = "success" => jobs = DependentJobs(r.job, st')
                    /\ Made' = Made \cup jobs
    BY CompleteMoves
  <2>2. \A j \in jobs : j.cycle = r.job.cycle
    BY <2>1 DEF DependentJobs, Job
  <2> QED BY <2>1, <2>2
<1>3. r.job \in Made
  BY DEF OnceInv, RunsChained, Chain, Live
<1>4. \A j \in Made : Scheduled(j.cycle) => /\ j.cycle[1] \in Ids
                                            /\ j.cycle[3] <= st[j.cycle[1]].lastAttempted
  BY OnceCounting DEF OnceInv, CyclesNoted, Jobs, Cycles, Scheduled
<1>5. \A j \in Made' : Scheduled(j.cycle) => j.cycle[3] <= st'[j.cycle[1]].lastAttempted
  BY <1>1, <1>2, <1>3, <1>4 DEF AttemptsKept
<1> QED BY <1>5 DEF CyclesNoted, Scheduled

(* Everything else makes forced jobs, or none, and leaves the retries.     *)
LEMMA OthersChain ==
  ASSUME IInv, OnceInv, NEW jobs, Submit(jobs), \A j \in jobs : j.n = batch /\ j.attempt \in Nat,
         \A j \in jobs : ~Scheduled(j.cycle),
         queued' = queued \cup jobs, UNCHANGED <<st, running, results, succeeded>>
  PROVE  OnceInv'
<1>0. RunsChained /\ Numbered /\ OnePlace /\ CyclesNoted
  BY DEF OnceInv
<1>1. Made' = Made \cup jobs /\ Live' = Live \cup jobs
  BY SubmitMakes, TickMoves
<1>2. Numbered' /\ \A j \in jobs : j \notin Made
  BY <1>0, NewNumbers
<1>3. OnePlace'
  BY <1>0, <1>2, NewPlaces
<1>4. RunsChained'
  <2>1. PICK left : left = Owed(st)
    OBVIOUS
  <2>2. Chain(Made, Live, succeeded, left) /\ Counting(Made) /\ Counting(left) /\ Counting(jobs)
    BY <1>0, <2>1, OnceCounting DEF RunsChained, Counting
  <2>3. \A i, j \in jobs : SameRun(i, j) => i = j
    BY DEF SameRun
  <2>4. \A j \in jobs : \A i \in Made : ~SameRun(i, j)
    BY DEF SameRun
  <2>5. Chain(Made \cup jobs, Live \cup jobs, succeeded, left)
    BY <2>2, <2>3, <2>4, ChainAdds
  <2>6. Owed(st') = left
    BY <2>1 DEF Owed, Pending
  <2> QED BY <1>1, <2>5, <2>6, ChainNext
<1>5. CyclesNoted'
  BY <1>0, <1>1 DEF CyclesNoted, Scheduled
<1> QED BY <1>2, <1>3, <1>4, <1>5 DEF OnceInv

LEMMA OnceKept ==
  ASSUME IInv, OnceInv, OnePlace', Live' = Live, AttemptsKept,
         UNCHANGED <<issued, batch, succeeded>>,
         \A i \in Ids : /\ st'[i].retryAt = st[i].retryAt
                        /\ st'[i].lastCycle = st[i].lastCycle
                        /\ st'[i].retryAttempt = st[i].retryAttempt
  PROVE  OnceInv'
<1>0. RunsChained /\ Numbered /\ OnePlace /\ CyclesNoted
  BY DEF OnceInv
<1>1. Made' = Made
  BY DEF Made
<1>2. Owed(st') = Owed(st)
  BY DEF Owed, Pending
<1>3. RunsChained'
  <2>1. Chain(Made, Live, succeeded, Owed(st))
    BY <1>0 DEF RunsChained
  <2> QED BY <1>1, <1>2, <2>1, ChainNext
<1>4. Numbered'
  BY <1>0, <1>1 DEF Numbered
<1>5. CyclesNoted'
  <2>1. \A j \in Made : Scheduled(j.cycle) => j.cycle[1] \in Ids
    BY OnceCounting DEF Jobs, Cycles, Scheduled
  <2> QED BY <1>0, <1>1, <2>1 DEF CyclesNoted, Scheduled, AttemptsKept
<1> QED BY <1>3, <1>4, <1>5 DEF OnceInv

LEMMA OnceStep ==
  ASSUME IInv, ParentsStable, ~MayCrash, FiringInv(Ids), OrderInv, OnceInv, [Next]_vars
  PROVE  OnceInv'
<1>0. /\ TypeOK /\ st \in [Ids -> TaskStates]
      /\ RunsChained /\ Numbered /\ OnePlace /\ CyclesNoted
  BY DEF IInv, TypeOK, OnceInv
<1>1. CASE Tick
  BY <1>1, TickChains
<1>2. ASSUME NEW r \in results, Complete(r) PROVE OnceInv'
  BY <1>2, CompletionChains, CompletionNotes DEF OnceInv
<1>3. ASSUME NEW t, ForceRun(t) PROVE OnceInv'
  <2>0. PICK job : job = Job(t, <<ForceOwner(t), "force", now>>, 1)
    OBVIOUS
  <2>1. PICK jobs : jobs = {job}
    OBVIOUS
  <2>2. /\ Submit(jobs) /\ queued' = queued \cup jobs
        /\ UNCHANGED <<st, running, results, succeeded>>
    BY <1>3, <2>0, <2>1 DEF ForceRun
  <2>3. \A j \in jobs : j.n = batch /\ j.attempt \in Nat /\ ~Scheduled(j.cycle)
    BY <2>0, <2>1 DEF Job, Scheduled
  <2> QED BY <2>2, <2>3, OthersChain
<1>4. CASE \/ \E j \in queued : StartJob(j)
           \/ \E j \in running, outcome \in Outcomes : FinishJob(j, outcome)
  <2>1. Live' = Live /\ UNCHANGED <<st, issued, batch, succeeded, cfg>>
    BY <1>4, RunMoves
  <2>2. OnePlace'
    <3>1. ASSUME NEW j \in queued, StartJob(j) PROVE OnePlace'
      BY <1>0, <3>1 DEF StartJob, OnePlace
    <3>2. ASSUME NEW j \in running, NEW outcome \in Outcomes, FinishJob(j, outcome) PROVE OnePlace'
      <4> DEFINE q == [job |-> j, status |-> outcome]
      <4>1. results' = results \cup {q} /\ q.job = j
        BY <3>2 DEF FinishJob
      <4> HIDE DEF q
      <4>2. running' = running \ {j} /\ queued' = queued
        BY <3>2 DEF FinishJob
      <4> QED BY <1>0, <3>2, <4>1, <4>2 DEF OnePlace
    <3> QED BY <1>4, <3>1, <3>2
  <2> QED BY <2>1, <2>2, OnceKept DEF AttemptsKept
<1>5. ASSUME NEW c \in Configs, Reload(c) PROVE OnceInv'
  <2>1. UNCHANGED <<queued, running, results, issued, batch, succeeded>> /\ st' = Seeded(c)
    BY <1>5 DEF Reload, daemon, history
  <2>2. Live' = Live /\ OnePlace'
    BY <1>0, <2>1 DEF Live, OnePlace
  <2>3. \A i \in Ids : /\ st'[i].retryAt = st[i].retryAt
                       /\ st'[i].lastCycle = st[i].lastCycle
                       /\ st'[i].retryAttempt = st[i].retryAttempt
                       /\ st'[i].lastAttempted = st[i].lastAttempted
                       /\ st'[i].lastSuccess \in {st[i].lastSuccess, now}
    BY <1>0, <2>1 DEF Seeded, TaskStates
  <2> QED BY <2>1, <2>2, <2>3, OnceKept DEF AttemptsKept
<1>6. CASE Advance \/ NetworkChanges \/ (\E p \in BOOLEAN : SetPaused(p)) \/ UNCHANGED vars
  <2>1. UNCHANGED <<st, queued, running, results, issued, batch, succeeded>>
    BY <1>6 DEF Advance, NetworkChanges, SetPaused, vars, daemon, history
  <2>2. Live' = Live /\ OnePlace'
    BY <1>0, <2>1 DEF Live, OnePlace
  <2> QED BY <2>1, <2>2, OnceKept DEF AttemptsKept
<1>7. ~(Crash \/ CrashInTick \/ CrashInCompletion)
  BY DEF Crash, CrashInTick, CrashInCompletion, Restart
<1> QED BY <1>1, <1>2, <1>3, <1>4, <1>5, <1>6, <1>7 DEF Next

(* In a scheduled cycle every attempt of a task is made once, whatever     *)
(* fails, is forced, is paused or is reloaded.  Without crashes: one       *)
(* between the two writes of a failure leaves an older cycle's retry under *)
(* the cycle of the result.  Everything has a success on record, without   *)
(* which the same firing may come twice, and reloads do not change who     *)
(* depends on whom.                                                        *)
THEOREM AttemptsMadeOnce ==
  ASSUME ~MayCrash, ParentsStable
  PROVE  Spec /\ OnRecord(Ids) /\ NoneRetrying => []AttemptMadeOnce
<1>0. Ids \in SUBSET Ids
  OBVIOUS
<1>1. Init /\ OnRecord(Ids) => FiringInv(Ids)
  BY <1>0, FiringInit
<1>2. IInv /\ FiringInv(Ids) /\ [Next]_vars => FiringInv(Ids)'
  BY <1>0, FiringStep
<1>3. Init /\ NoneRetrying => OrderInv
  BY DEF Init, NoneRetrying, OrderInv, Made, Live
<1>4. IInv /\ OrderInv /\ [Next]_vars => OrderInv'
  BY OrderStep
<1>5. Init /\ NoneRetrying => OnceInv
  BY DEF Init, NoneRetrying, OnceInv, RunsChained, Chain, Owed, Numbered, OnePlace, CyclesNoted,
         Made, Live
<1>6. IInv /\ FiringInv(Ids) /\ OrderInv /\ OnceInv /\ [Next]_vars => OnceInv'
  BY OnceStep
<1>7. OnceInv => AttemptMadeOnce
  BY DEF OnceInv, RunsChained, Chain, SameRun, Scheduled, Numbered, Made, AttemptMadeOnce
<1> QED BY <1>1, <1>2, <1>3, <1>4, <1>5, <1>6, <1>7, Invariance, PTL DEF Spec
================================================================================

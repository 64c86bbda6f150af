------------------------- MODULE SchedulerFiringProofs -------------------------
(***************************************************************************)
(* Theorems about the firings of the schedules: none is taken up twice,    *)
(* and none that a standalone task should catch up is lost, however many   *)
(* workflows, tasks and configs there are.                                 *)
(***************************************************************************)
EXTENDS SchedulerProofs

-----------------------------------------------------------------------------
(* What a step does to firings: either a tick, complete or cut short by a  *)
(* crash, takes some up, or nothing is attempted that was not before.      *)

(* The workflow or standalone task whose schedule a job belongs to.        *)
ItemOf(j) == IF j.cycle = NoCycle THEN j.task ELSE j.cycle[1]

Fires(retried, fired, early) == /\ retried \subseteq Retried
                                /\ fired \subseteq DueFlows \cup DueAlone(early)
                                /\ st' = TickState(retried, fired)
                                /\ Submit(TickJobs(retried, fired, early))

AttemptsKept == \A i \in Ids : /\ st'[i].lastAttempted = st[i].lastAttempted
                               /\ st'[i].lastSuccess \in {st[i].lastSuccess, now}

NoWindowTaken == /\ issued \subseteq issued'
                 /\ \A e \in issued' \ issued : e.window = NoTime

(* What a tick writes into an entry.                                       *)
LEMMA TickWrites ==
  ASSUME TypeOK, NEW retried, NEW fired, NEW i \in Ids
  PROVE  LET s == TickState(retried, fired)
         IN  /\ s[i].retryAt = IF i \in retried THEN NoTime ELSE st[i].retryAt
             /\ s[i].lastAttempted = IF i \in fired THEN LastFiringOf(i) ELSE st[i].lastAttempted
             /\ s[i].lastSuccess = st[i].lastSuccess /\ s[i].lastRun = st[i].lastRun
             /\ s[i].lastCycle = st[i].lastCycle /\ s[i].retryAttempt = st[i].retryAttempt
             /\ s[i].status = st[i].status
<1>1. st[i] \in TaskStates
  BY DEF TypeOK
<1> QED BY <1>1 DEF TickState, TaskStates

(* The jobs that are handed out besides firings count for no window: they  *)
(* are dependents or forced.                                               *)
LEMMA DependentsTakeNoWindow ==
  ASSUME IInv, NEW r \in results, NEW s, Submit(DependentJobs(r.job, s))
  PROVE  NoWindowTaken
<1>1. r.job.task \in Ids
  BY DEF IInv, TypeOK, Jobs
<1>2. ASSUME NEW j \in DependentJobs(r.job, s) PROVE WindowOf(j) = NoTime
  <2>1. PICK u \in ReadyDependents(r.job, s) : j = Job(u, r.job.cycle, 1) /\ r.job.cycle # NoCycle
    BY DEF DependentJobs
  <2>2. cfg.parent[j.task] # NoTask /\ j.attempt = 1 /\ j.cycle # NoCycle
    BY <1>1, <2>1, NoTaskAssumption DEF ReadyDependents, Job
  <2> QED BY <2>2 DEF WindowOf
<1> QED BY <1>2 DEF Submit, NoWindowTaken

LEMMA ForcedTakesNoWindow ==
  ASSUME NEW t, ForceRun(t)
  PROVE  NoWindowTaken
<1> DEFINE job == Job(t, <<ForceOwner(t), "force", now>>, 1)
<1>1. Submit({job})
  BY DEF ForceRun
<1>2. job.cycle # NoCycle /\ job.cycle[2] = "force" /\ job.attempt = 1
  BY DEF Job, NoCycle
<1>3. WindowOf(job) = NoTime
  BY <1>2 DEF WindowOf
<1> QED BY <1>1, <1>3 DEF Submit, NoWindowTaken

(* Handling a result leaves every lastAttempted as it was.                 *)
LEMMA CompletionsKeep ==
  ASSUME IInv, NEW r \in results,
         \/ st' = SuccessState(r.job)
         \/ st' = MarkFlows(SuccessState(r.job), LeafOf(r.job.task))
         \/ st' = FailureState(r.job, r.status)
         \/ CompleteFailure(r.job, r.status)
  PROVE  AttemptsKept
<1>1. st \in [Ids -> TaskStates] /\ r.job.task \in Ids
  BY DEF IInv, TypeOK, Jobs
<1>2. \A i \in Ids : /\ SuccessState(r.job)[i].lastAttempted = st[i].lastAttempted
                     /\ SuccessState(r.job)[i].lastSuccess \in {st[i].lastSuccess, now}
                     /\ SuccessState(r.job)[i] \in TaskStates
  <2>1. \A i \in Ids : SuccessState(r.job)[i] \in TaskStates
    BY SuccessStateFits DEF StatesFit
  <2>2. ASSUME NEW i \in Ids
        PROVE  /\ SuccessState(r.job)[i].lastAttempted = st[i].lastAttempted
               /\ SuccessState(r.job)[i].lastSuccess \in {st[i].lastSuccess, now}
    <3>1. st[i] \in TaskStates
      BY <1>1
    <3>2. CASE i = r.job.task
      BY <1>1, <3>1, <3>2 DEF SuccessState, TaskStates
    <3>3. CASE i # r.job.task
      BY <1>1, <3>3 DEF SuccessState
    <3> QED BY <3>2, <3>3
  <2> QED BY <2>1, <2>2
<1>3. CASE st' = SuccessState(r.job)
  BY <1>2, <1>3 DEF AttemptsKept
<1>4. CASE st' = MarkFlows(SuccessState(r.job), LeafOf(r.job.task))
  BY <1>2, <1>4 DEF AttemptsKept, MarkFlows, TaskStates
<1>5. CASE st' = FailureState(r.job, r.status)
  BY <1>1, <1>5 DEF AttemptsKept, FailureState, TaskStates
<1>6. CASE CompleteFailure(r.job, r.status)
  BY <1>1, <1>6 DEF AttemptsKept, CompleteFailure, FailureState, TaskStates
<1> QED BY <1>3, <1>4, <1>5, <1>6

LEMMA FiresOrKeeps ==
  ASSUME IInv, [Next]_vars
  PROVE  \/ AttemptsKept /\ NoWindowTaken
         \/ \E retried, fired, early : Fires(retried, fired, early)
<1>0. st \in [Ids -> TaskStates]
  BY DEF IInv, TypeOK
<1>1. CASE Tick
  <2>1. PICK early \in SUBSET Retried :
          LET fired == DueFlows \cup DueAlone(early)
          IN  /\ Submit(TickJobs(Retried, fired, early))
              /\ st' = TickState(Retried, fired)
    BY <1>1 DEF Tick
  <2>2. Fires(Retried, DueFlows \cup DueAlone(early), early)
    BY <2>1 DEF Fires
  <2> QED BY <2>2
<1>2. CASE CrashInTick
  <2>1. PICK early \in SUBSET Retried, retried \in SUBSET Retried :
          \E fired \in SUBSET (DueFlows \cup DueAlone(early)) :
            /\ st' = TickState(retried, fired)
            /\ Submit(TickJobs(retried, fired, early))
    BY <1>2 DEF CrashInTick
  <2>2. PICK fired \in SUBSET (DueFlows \cup DueAlone(early)) :
          /\ st' = TickState(retried, fired)
          /\ Submit(TickJobs(retried, fired, early))
    BY <2>1
  <2>3. Fires(retried, fired, early)
    BY <2>2 DEF Fires
  <2> QED BY <2>3
<1>3. ASSUME NEW r \in results, Complete(r) PROVE AttemptsKept /\ NoWindowTaken
  <2>1. CASE r.status = "success"
    <3> DEFINE s == MarkFlows(SuccessState(r.job), LeafOf(r.job.task))
    <3>1. st' = s /\ Submit(DependentJobs(r.job, s))
      BY <1>3, <2>1 DEF Complete, CompleteSuccess
    <3>2. NoWindowTaken
      BY <3>1, DependentsTakeNoWindow
    <3> QED BY <3>1, <3>2, CompletionsKeep
  <2>2. CASE r.status # "success"
    <3>1. CompleteFailure(r.job, r.status)
      BY <1>3, <2>2 DEF Complete
    <3>2. NoWindowTaken
      BY <3>1 DEF CompleteFailure, NoWindowTaken
    <3> QED BY <3>1, <3>2, CompletionsKeep
  <2> QED BY <2>1, <2>2
<1>4. CASE CrashInCompletion
  <2>1. PICK r \in results : st' = IF r.status = "success" THEN SuccessState(r.job)
                                                           ELSE FailureState(r.job, r.status)
    BY <1>4 DEF CrashInCompletion
  <2>2. AttemptsKept
    BY <2>1, CompletionsKeep
  <2> QED BY <1>4, <2>2 DEF CrashInCompletion, NoWindowTaken
<1>5. ASSUME NEW c \in Configs, Reload(c) PROVE AttemptsKept /\ NoWindowTaken
  <2>1. AttemptsKept
    BY <1>0, <1>5 DEF Reload, Seeded, AttemptsKept, TaskStates
  <2> QED BY <1>5, <2>1 DEF Reload, history, NoWindowTaken
<1>6. ASSUME NEW t, ForceRun(t) PROVE AttemptsKept /\ NoWindowTaken
  BY <1>6, ForcedTakesNoWindow DEF ForceRun, AttemptsKept
<1>7. CASE UNCHANGED <<st, issued>>
  BY <1>7 DEF AttemptsKept, NoWindowTaken
<1>8. CASE \/ \E j \in queued : StartJob(j)
           \/ \E j \in running, outcome \in Outcomes : FinishJob(j, outcome)
           \/ \E p \in BOOLEAN : SetPaused(p)
           \/ Crash \/ Advance \/ NetworkChanges \/ UNCHANGED vars
  <2>1. UNCHANGED <<st, issued>>
    BY <1>8 DEF StartJob, FinishJob, SetPaused, Crash, Advance, NetworkChanges, vars, history
  <2> QED BY <1>7, <2>1
<1> QED BY <1>1, <1>2, <1>3, <1>4, <1>5, <1>6, <1>8 DEF Next

-----------------------------------------------------------------------------
(* A firing is taken up once.  An item with a success on record is due only *)
(* for a firing after the last one it attempted, so what is on record as    *)
(* attempted grows, and covers every window a job was ever handed out for.  *)

OnRecord(K) == \A i \in K : st[i].lastSuccess # NoTime

Noted(K) == \A e \in issued :
              e.window # NoTime /\ ItemOf(e.job) \in K =>
                e.window <= st[ItemOf(e.job)].lastAttempted

FiresOnce(K) ==
  \A d, e \in issued :
    (/\ d.window # NoTime /\ d.window = e.window
     /\ d.job.task = e.job.task /\ d.job.cycle = e.job.cycle
     /\ ItemOf(d.job) \in K) => d = e

FiringInv(K) == OnRecord(K) /\ Noted(K) /\ FiresOnce(K)

(* The jobs of a tick that are for a window are for the latest firing of   *)
(* an item that is due, and what they are follows from the task, the cycle *)
(* and the window.                                                         *)
LEMMA TickWindows ==
  ASSUME IInv, NEW retried \in SUBSET Retried, NEW fired, NEW early,
         NEW j \in TickJobs(retried, fired, early), WindowOf(j) # NoTime
  PROVE  /\ ItemOf(j) \in fired \cap Ids
         /\ Due(ItemOf(j))
         /\ WindowOf(j) = LastFiringOf(ItemOf(j))
         /\ j = Job(j.task, j.cycle, 1)
<1>0. TypeOK /\ cfg \in Configs
  BY DEF IInv, TypeOK
<1>1. ASSUME NEW t \in retried, j = Job(t, st[t].lastCycle, st[t].retryAttempt + 1)
      PROVE  FALSE
  <2>1. t \in Ids /\ st[t].retryAttempt > 0
    BY <1>0, ConfigFacts DEF Retried
  <2>2. st[t].retryAttempt \in Nat
    BY <1>0, <2>1 DEF TypeOK, TaskStates
  <2>3. j.attempt > 1
    BY <1>1, <2>1, <2>2 DEF Job
  <2> QED BY <2>3 DEF WindowOf
<1>2. CASE j \in RootJobs(fired \cap DueFlows, early)
  <2>1. PICK w \in fired \cap DueFlows : \E t \in Roots(w) : j = Job(t, CycleAt(w), 1)
    BY <1>2 DEF RootJobs
  <2>2. PICK t \in Roots(w) : j = Job(t, CycleAt(w), 1)
    BY <2>1
  <2>3. w \in Workflows(cfg) /\ Due(w) /\ w \in Ids
    BY <1>0, ConfigFacts DEF DueFlows
  <2>4. j.cycle = <<w, "at", LastFiringOf(w)>> /\ j.attempt = 1 /\ j.task = t
    BY <2>2 DEF Job, CycleAt
  <2>5. ItemOf(j) = w /\ WindowOf(j) = LastFiringOf(w)
    BY <2>4 DEF ItemOf, WindowOf, NoCycle
  <2> QED BY <2>1, <2>2, <2>3, <2>4, <2>5 DEF CycleAt
<1>3. CASE j \in AloneJobs(fired \cap DueAlone(early))
  <2>1. PICK t \in fired \cap DueAlone(early) : j = Job(t, NoCycle, 1)
    BY <1>3 DEF AloneJobs
  <2>2. t \in Ids /\ Due(t)
    BY <1>0, ConfigFacts DEF DueAlone
  <2>3. j.cycle = NoCycle /\ j.attempt = 1 /\ j.task = t
    BY <2>1 DEF Job
  <2>4. ItemOf(j) = t /\ WindowOf(j) = LastFiringOf(t)
    BY <2>3 DEF ItemOf, WindowOf
  <2> QED BY <2>1, <2>2, <2>3, <2>4
<1> QED BY <1>1, <1>2, <1>3 DEF TickJobs, RetryJobs

(* An item that is due and has a success on record has not attempted its   *)
(* latest firing.                                                          *)
LEMMA DueIsLater ==
  ASSUME NEW i, Due(i), st[i].lastSuccess # NoTime
  PROVE  st[i].lastAttempted < LastFiringOf(i)
BY DEF Due, IsDue, LastFiringOf

(* What is on record as attempted only grows.                              *)
LEMMA TickGrows ==
  ASSUME IInv, NEW i \in Ids, st[i].lastSuccess # NoTime, NEW retried, NEW fired, NEW early,
         Fires(retried, fired, early)
  PROVE  /\ st'[i].lastSuccess = st[i].lastSuccess
         /\ i \in fired => st'[i].lastAttempted = LastFiringOf(i)
         /\ st[i].lastAttempted <= st'[i].lastAttempted
<1>0. TypeOK /\ st \in [Ids -> TaskStates] /\ cfg \in Configs
  BY DEF IInv, TypeOK
<1>1. st[i] \in TaskStates /\ st' = TickState(retried, fired)
  BY <1>0 DEF Fires
<1>2. st[i].lastAttempted \in Int
  BY <1>1 DEF TaskStates, Times, Instants, NoTime
<1>3. CASE i \in fired
  <2>1. Due(i) /\ i \in Items(cfg)
    BY <1>0, <1>3, ConfigFacts DEF Fires, DueFlows, DueAlone
  <2>2. st[i].lastAttempted < LastFiringOf(i) /\ LastFiringOf(i) \in Nat
    BY <1>0, <2>1, DueIsLater, LastFiringOfType
  <2> QED BY <1>0, <1>1, <1>2, <1>3, <2>2, TickWrites
<1>4. CASE i \notin fired
  BY <1>0, <1>1, <1>2, <1>4, TickWrites
<1> QED BY <1>3, <1>4

LEMMA TickOnce ==
  ASSUME IInv, NEW K \in SUBSET Ids, FiringInv(K), NEW retried, NEW fired, NEW early,
         Fires(retried, fired, early)
  PROVE  FiringInv(K)'
<1> DEFINE jobs == TickJobs(retried, fired, early)
<1>0. TypeOK /\ st \in [Ids -> TaskStates] /\ retried \in SUBSET Retried /\ cfg \in Configs
  BY DEF IInv, TypeOK, Fires
<1>1. ASSUME NEW i \in K
      PROVE  /\ st'[i].lastSuccess = st[i].lastSuccess
             /\ i \in fired => st'[i].lastAttempted = LastFiringOf(i)
             /\ st[i].lastAttempted <= st'[i].lastAttempted
  BY TickGrows DEF FiringInv, OnRecord
<1>2. issued' = issued \cup {[job |-> j, window |-> WindowOf(j)] : j \in jobs}
  BY DEF Fires, Submit
<1>3. ASSUME NEW e \in issued' \ issued, e.window # NoTime
      PROVE  /\ ItemOf(e.job) \in fired \cap Ids
             /\ Due(ItemOf(e.job))
             /\ e.window = LastFiringOf(ItemOf(e.job))
             /\ e = [job |-> Job(e.job.task, e.job.cycle, 1), window |-> e.window]
  <2>1. PICK j \in jobs : e = [job |-> j, window |-> WindowOf(j)]
    BY <1>2, <1>3
  <2>2. e.job = j /\ e.window = WindowOf(j)
    BY <2>1
  <2> QED BY <1>0, <1>3, <2>1, <2>2, TickWindows
<1>4. OnRecord(K)'
  BY <1>1 DEF OnRecord, FiringInv
<1>5. Noted(K)'
  <2> SUFFICES ASSUME NEW e \in issued', e.window # NoTime, ItemOf(e.job) \in K
               PROVE  e.window <= st'[ItemOf(e.job)].lastAttempted
    BY DEF Noted, ItemOf
  <2>1. CASE e \in issued
    <3>1. e.window <= st[ItemOf(e.job)].lastAttempted
      BY <2>1 DEF FiringInv, Noted
    <3>2. e.window \in Int
      BY <1>0, <2>1 DEF TypeOK, Times, Instants, NoTime
    <3>3. st[ItemOf(e.job)].lastAttempted \in Int /\ st'[ItemOf(e.job)].lastAttempted \in Int
      <4>1. StatesFit(st)'
        BY <1>0, TickStateFits DEF Fires, StatesFit, DueFlows, DueAlone, Items
      <4> QED BY <1>0, <4>1 DEF StatesFit, TypeOK, TaskStates, Times, Instants, NoTime
    <3> QED BY <1>1, <3>1, <3>2, <3>3
  <2>2. CASE e \notin issued
    <3>1. ItemOf(e.job) \in fired /\ e.window = LastFiringOf(ItemOf(e.job)) /\ Due(ItemOf(e.job))
      BY <1>3, <2>2
    <3>2. LastFiringOf(ItemOf(e.job)) \in Nat
      BY <1>0, <3>1, ConfigFacts, LastFiringOfType DEF Fires, DueFlows, DueAlone
    <3> QED BY <1>1, <3>1, <3>2
  <2> QED BY <2>1, <2>2
<1>6. FiresOnce(K)'
  <2> SUFFICES ASSUME NEW d \in issued', NEW e \in issued', d.window # NoTime, d.window = e.window,
                      d.job.task = e.job.task, d.job.cycle = e.job.cycle, ItemOf(d.job) \in K
               PROVE  d = e
    BY DEF FiresOnce, ItemOf
  <2>0. ItemOf(e.job) = ItemOf(d.job)
    BY DEF ItemOf
  <2>1. ASSUME NEW x \in issued, NEW y \in issued' \ issued, x.window = y.window,
               y.window # NoTime, ItemOf(x.job) = ItemOf(y.job), ItemOf(x.job) \in K
        PROVE  FALSE
    <3> DEFINE i == ItemOf(x.job)
    <3>1. x.window <= st[i].lastAttempted
      BY <2>1 DEF FiringInv, Noted
    <3>2. Due(i) /\ x.window = LastFiringOf(i)
      BY <1>3, <2>1
    <3>3. st[i].lastAttempted < LastFiringOf(i)
      BY <2>1, <3>2, DueIsLater DEF FiringInv, OnRecord
    <3>4. st[i].lastAttempted \in Int /\ x.window \in Int
      BY <1>0, <2>1 DEF TypeOK, TaskStates, Times, Instants, NoTime
    <3> HIDE DEF i
    <3> QED BY <3>1, <3>2, <3>3, <3>4
  <2>2. CASE d \in issued /\ e \in issued
    BY <2>2 DEF FiringInv, FiresOnce
  <2>3. CASE d \notin issued /\ e \notin issued
    BY <1>3, <2>3
  <2> QED BY <2>0, <2>1, <2>2, <2>3
<1> QED BY <1>4, <1>5, <1>6 DEF FiringInv

LEMMA KeepOnce ==
  ASSUME IInv, NEW K \in SUBSET Ids, FiringInv(K), AttemptsKept, NoWindowTaken
  PROVE  FiringInv(K)'
<1>1. now # NoTime
  BY DEF IInv, TypeOK, Instants, NoTime
<1>2. OnRecord(K)'
  BY <1>1 DEF AttemptsKept, FiringInv, OnRecord
<1>3. Noted(K)'
  BY DEF AttemptsKept, NoWindowTaken, FiringInv, Noted, ItemOf
<1>4. FiresOnce(K)'
  BY DEF NoWindowTaken, FiringInv, FiresOnce, ItemOf
<1> QED BY <1>2, <1>3, <1>4 DEF FiringInv

LEMMA FiringInit ==
  ASSUME NEW K \in SUBSET Ids
  PROVE  Init /\ OnRecord(K) => FiringInv(K)
BY DEF Init, FiringInv, Noted, FiresOnce

LEMMA FiringStep ==
  ASSUME NEW K \in SUBSET Ids
  PROVE  IInv /\ FiringInv(K) /\ [Next]_vars => FiringInv(K)'
BY FiresOrKeeps, TickOnce, KeepOnce

(* Every firing of an item with a success on record is taken up at most    *)
(* once, whatever fails, crashes, is forced or is reloaded.  K is any set  *)
(* of items: the others may be new to the state file.                      *)
THEOREM FiringsTakenOnce ==
  ASSUME NEW K \in SUBSET Ids
  PROVE  Spec /\ OnRecord(K) => []FiresOnce(K)
<1>1. Init /\ OnRecord(K) => FiringInv(K)
  BY FiringInit
<1>2. IInv /\ FiringInv(K) /\ [Next]_vars => FiringInv(K)'
  BY FiringStep
<1>3. FiringInv(K) => FiresOnce(K)
  BY DEF FiringInv
<1> QED BY <1>1, <1>2, <1>3, Invariance, PTL DEF Spec

(* The same for a daemon that starts with a success on record for all.     *)
THEOREM WindowsFireOnce == Spec /\ OnRecord(Ids) => []WindowFiresOnce
<1>0. Ids \in SUBSET Ids
  OBVIOUS
<1>1. Init /\ OnRecord(Ids) => FiringInv(Ids)
  BY <1>0, FiringInit
<1>2. IInv /\ FiringInv(Ids) /\ [Next]_vars => FiringInv(Ids)'
  BY <1>0, FiringStep
<1>3. IInv /\ FiringInv(Ids) => WindowFiresOnce
  <2> SUFFICES ASSUME IInv, FiringInv(Ids) PROVE WindowFiresOnce
    OBVIOUS
  <2>1. ASSUME NEW e \in issued PROVE ItemOf(e.job) \in Ids
    <3>1. e.job.task \in Ids /\ e.job.cycle \in Cycles
      BY DEF IInv, TypeOK, Jobs
    <3> QED BY <3>1 DEF ItemOf, Cycles
  <2> QED BY <2>1 DEF FiringInv, FiresOnce, WindowFiresOnce
<1> QED BY <1>1, <1>2, <1>3, Invariance, PTL DEF Spec

-----------------------------------------------------------------------------
(* A firing is not lost.  What was attempted has run to its end or is      *)
(* still with the pool, as long as the daemon lives.                       *)

AloneIds == UNION {c.alone : c \in Configs}
FlowIds == UNION {Workflows(c) : c \in Configs}

(* No id changes from a workflow into a standalone task or back.           *)
KindsApart == AloneIds \cap FlowIds = {}

(* What the state file must be like: nothing attempted that was not run.   *)
AttemptsRan == \A i \in Ids : /\ st[i].lastAttempted <= st[i].lastRun
                              /\ st[i].lastAttempted <= now

InHand == /\ \A i \in Ids : st[i].lastAttempted <= now
          /\ \A t \in AloneIds : \/ st[t].lastAttempted <= st[t].lastRun
                                 \/ \E j \in Live : j.task = t

LEMMA IdsOfKinds == AloneIds \subseteq Ids /\ FlowIds \subseteq Ids
BY ConfigFacts DEF AloneIds, FlowIds, Items

LEMMA LastFiringPast ==
  ASSUME NEW sched \in Schedules, NEW n \in Nat
  PROVE  LastFiring(sched, n) <= n
<1> DEFINE F == Fired(sched, n)
<1>1. F \in SUBSET Nat /\ \A t \in F : t <= n
  BY DEF Fired, Schedules, Instants
<1>2. CASE F = {}
  BY <1>2 DEF LastFiring, NoTime
<1>3. CASE F # {}
  <2>1. \E t \in F : \A u \in F : u <= t
    BY <1>1, <1>3, LatestExists
  <2>2. LastFiring(sched, n) \in F
    BY <1>3, <2>1 DEF LastFiring
  <2> QED BY <1>1, <2>2
<1> QED BY <1>2, <1>3

(* A result that is handled dates its task's last run, and nothing else    *)
(* of what InHand speaks of.                                               *)
LEMMA CompletionDates ==
  ASSUME IInv, NEW r \in results, Complete(r)
  PROVE  /\ \A i \in Ids : /\ st'[i].lastAttempted = st[i].lastAttempted
                           /\ st'[i].lastRun \in {st[i].lastRun, now}
         /\ st'[r.job.task].lastRun = now
<1>0. st \in [Ids -> TaskStates] /\ r.job.task \in Ids
  BY DEF IInv, TypeOK, Jobs
<1>1. CASE r.status = "success"
  <2> DEFINE s == SuccessState(r.job)
  <2>1. st' = MarkFlows(s, LeafOf(r.job.task))
    BY <1>1 DEF Complete, CompleteSuccess
  <2>2. \A i \in Ids : s[i] \in TaskStates
    BY SuccessStateFits DEF StatesFit
  <2>3. ASSUME NEW i \in Ids
        PROVE  /\ s[i].lastAttempted = st[i].lastAttempted
               /\ i = r.job.task => s[i].lastRun = now
               /\ i # r.job.task => s[i].lastRun = st[i].lastRun
    <3>1. st[i] \in TaskStates
      BY <1>0
    <3>2. CASE i = r.job.task
      BY <1>0, <3>1, <3>2 DEF SuccessState, TaskStates
    <3>3. CASE i # r.job.task
      BY <1>0, <3>3 DEF SuccessState
    <3> QED BY <3>2, <3>3
  <2> HIDE DEF s
  <2>4. ASSUME NEW i \in Ids
        PROVE  /\ st'[i].lastAttempted = s[i].lastAttempted
               /\ st'[i].lastRun \in {s[i].lastRun, now}
    BY <2>1, <2>2 DEF MarkFlows, TaskStates
  <2> QED BY <1>0, <2>3, <2>4
<1>2. CASE r.status # "success"
  <2>1. CompleteFailure(r.job, r.status)
    BY <1>2 DEF Complete
  <2> QED BY <1>0, <2>1 DEF CompleteFailure, FailureState, TaskStates
<1> QED BY <1>1, <1>2

LEMMA InHandStep ==
  ASSUME IInv, InHand, ~MayCrash, KindsApart, [Next]_vars
  PROVE  InHand'
<1>0. /\ TypeOK /\ st \in [Ids -> TaskStates] /\ cfg \in Configs /\ now \in Nat
      /\ AloneIds \subseteq Ids
  BY IdsOfKinds DEF IInv, TypeOK, Instants
<1>1. \A i \in Ids : st[i].lastAttempted \in Int /\ st[i].lastRun \in Int
  BY <1>0 DEF TaskStates, Times, Instants, NoTime
<1>2. CASE Tick
  <2>1. PICK early \in SUBSET Retried :
          LET fired == DueFlows \cup DueAlone(early)
          IN  /\ queued' = queued \cup TickJobs(Retried, fired, early)
              /\ st' = TickState(Retried, fired)
    BY <1>2 DEF Tick
  <2> DEFINE fired == DueFlows \cup DueAlone(early)
  <2>2. Live \subseteq Live' /\ now' = now
    BY <1>2, <2>1 DEF Tick, world, Live
  <2>3. ASSUME NEW i \in Ids
        PROVE  /\ st'[i].lastRun = st[i].lastRun
               /\ i \notin fired => st'[i].lastAttempted = st[i].lastAttempted
               /\ i \in fired => st'[i].lastAttempted = LastFiringOf(i)
    BY <1>0, <2>1, TickWrites
  <2>4. ASSUME NEW i \in fired PROVE LastFiringOf(i) <= now
    <3>1. i \in Items(cfg)
      BY DEF DueFlows, DueAlone, Items
    <3>2. cfg.sched[i] \in Schedules
      BY <1>0, <3>1, ConfigFacts DEF Config
    <3> QED BY <1>0, <3>2, LastFiringPast DEF LastFiringOf
  <2>5. ASSUME NEW t \in AloneIds, t \in fired PROVE \E j \in Live' : j.task = t
    <3>1. t \in DueAlone(early)
      BY <1>0, <2>5 DEF KindsApart, FlowIds, DueFlows
    <3>2. Job(t, NoCycle, 1) \in TickJobs(Retried, fired, early)
      BY <3>1 DEF TickJobs, AloneJobs
    <3>3. Job(t, NoCycle, 1) \in Live' /\ Job(t, NoCycle, 1).task = t
      BY <2>1, <3>2 DEF Live, Job
    <3> QED BY <3>3
  <2>6. \A i \in Ids : st'[i].lastAttempted <= now'
    BY <2>2, <2>3, <2>4 DEF InHand
  <2>7. ASSUME NEW t \in AloneIds, t \notin fired
        PROVE  st'[t].lastAttempted <= st'[t].lastRun \/ \E j \in Live' : j.task = t
    BY <1>0, <2>2, <2>3, <2>7 DEF InHand
  <2> HIDE DEF fired
  <2> QED BY <2>5, <2>6, <2>7 DEF InHand
<1>3. ASSUME NEW r \in results, Complete(r) PROVE InHand'
  <2>1. now' = now /\ Live \subseteq Live' \cup {r.job}
    <3>1. queued \subseteq queued' /\ running' = running /\ results' = results \ {r} /\ now' = now
      BY <1>3 DEF Complete, CompleteSuccess, CompleteFailure, world
    <3> QED BY <3>1 DEF Live
  <2>2. /\ \A i \in Ids : /\ st'[i].lastAttempted = st[i].lastAttempted
                          /\ st'[i].lastRun \in {st[i].lastRun, now}
        /\ st'[r.job.task].lastRun = now
    BY <1>3, CompletionDates
  <2>3. \A i \in Ids : st'[i].lastAttempted <= now'
    BY <2>1, <2>2 DEF InHand
  <2>4. ASSUME NEW t \in AloneIds
        PROVE  st'[t].lastAttempted <= st'[t].lastRun \/ \E j \in Live' : j.task = t
    <3>1. t \in Ids /\ st[t].lastAttempted <= now
      BY <1>0 DEF InHand
    <3>2. CASE st[t].lastAttempted <= st[t].lastRun
      BY <2>2, <3>1, <3>2
    <3>3. CASE t = r.job.task
      BY <2>2, <3>1, <3>3
    <3>4. CASE t # r.job.task /\ \E j \in Live : j.task = t
      BY <2>1, <3>4
    <3> QED BY <3>2, <3>3, <3>4 DEF InHand
  <2> QED BY <2>3, <2>4 DEF InHand
<1>4. ASSUME Live \subseteq Live', now <= now',
             \A i \in Ids : /\ st'[i].lastAttempted = st[i].lastAttempted
                            /\ st'[i].lastRun = st[i].lastRun
             , now' \in Int
      PROVE  InHand'
  <2>1. \A i \in Ids : st'[i].lastAttempted <= now'
    BY <1>0, <1>1, <1>4 DEF InHand
  <2>2. \A t \in AloneIds : \/ st'[t].lastAttempted <= st'[t].lastRun
                            \/ \E j \in Live' : j.task = t
    BY <1>0, <1>4 DEF InHand
  <2> QED BY <2>1, <2>2 DEF InHand
<1>5. ASSUME NEW c \in Configs, Reload(c) PROVE InHand'
  <2>1. UNCHANGED <<now, queued, running, results>>
    BY <1>5 DEF Reload, daemon
  <2>2. Live \subseteq Live' /\ now <= now' /\ now' \in Int
    BY <1>0, <2>1 DEF Live
  <2>3. \A i \in Ids : /\ st'[i].lastAttempted = st[i].lastAttempted
                       /\ st'[i].lastRun = st[i].lastRun
    BY <1>0, <1>5 DEF Reload, Seeded, TaskStates
  <2> QED BY <1>4, <2>2, <2>3
<1>6. ASSUME NEW j \in queued, StartJob(j) PROVE InHand'
  BY <1>0, <1>4, <1>6 DEF StartJob, world, Live
<1>7. ASSUME NEW j \in running, NEW outcome \in Outcomes, FinishJob(j, outcome) PROVE InHand'
  <2>1. Live \subseteq Live'
    <3>1. [job |-> j, status |-> outcome] \in results' /\ results \subseteq results'
      BY <1>7 DEF FinishJob
    <3>2. j \in {r.job : r \in results'}
      BY <3>1
    <3> QED BY <1>7, <3>1, <3>2 DEF FinishJob, Live
  <2> QED BY <1>0, <1>4, <1>7, <2>1 DEF FinishJob, world
<1>8. ASSUME NEW t, ForceRun(t) PROVE InHand'
  BY <1>0, <1>4, <1>8 DEF ForceRun, world, Live
<1>9. CASE Advance \/ NetworkChanges \/ (\E p \in BOOLEAN : SetPaused(p)) \/ UNCHANGED vars
  <2>1. UNCHANGED <<st, queued, running, results>> /\ now <= now' /\ now' \in Int
    BY <1>0, <1>9 DEF Advance, NetworkChanges, SetPaused, vars, world, daemon
  <2> QED BY <1>4, <2>1 DEF Live
<1>10. ~Crash /\ ~CrashInTick /\ ~CrashInCompletion
  BY DEF Crash, CrashInTick, CrashInCompletion, Restart
<1> QED BY <1>2, <1>3, <1>5, <1>6, <1>7, <1>8, <1>9, <1>10 DEF Next

(* Catchup: a firing that a standalone task missed is due, or its job is   *)
(* on its way, in every state of a daemon that does not crash, reloads     *)
(* included.                                                               *)
THEOREM MissedFiringsCaughtUp ==
  ASSUME ~MayCrash, KindsApart
  PROVE  Spec /\ AttemptsRan => []CaughtUp
<1>1. Init /\ AttemptsRan => InHand
  BY IdsOfKinds DEF AttemptsRan, InHand
<1>2. IInv /\ InHand /\ [Next]_vars => InHand'
  BY InHandStep
<1>3. IInv /\ InHand => CaughtUp
  <2> SUFFICES ASSUME IInv, InHand, NEW t \in cfg.alone \cap cfg.catchup,
                      st[t].lastSuccess # NoTime, st[t].lastRun < LastFiringOf(t),
                      st[t].lastSuccess < LastFiringOf(t), ~Due(t)
               PROVE  \E j \in Live : j.task = t
    BY DEF CaughtUp
  <2>1. /\ TypeOK /\ cfg \in Configs /\ t \in Items(cfg) /\ t \in Ids /\ t \in AloneIds
        /\ st[t] \in TaskStates
    BY ConfigFacts DEF IInv, TypeOK, AloneIds
  <2>2. /\ st[t].lastRun \in Int /\ st[t].lastRun >= -1 /\ st[t].lastAttempted \in Int
    BY <2>1 DEF TaskStates, Times, Instants, NoTime
  <2>3. LastFiringOf(t) \in Int
    BY <2>1, LastFiringOfType DEF Times, Instants, NoTime
  <2>4. LastFiringOf(t) # NoTime
    BY <2>2, <2>3 DEF NoTime
  <2>5. ~ (st[t].lastAttempted < LastFiringOf(t))
    BY <2>4 DEF Due, IsDue, LastFiringOf
  <2> QED BY <2>1, <2>2, <2>3, <2>5 DEF InHand
<1> QED BY <1>1, <1>2, <1>3, Invariance, PTL DEF Spec
================================================================================

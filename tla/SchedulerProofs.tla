---------------------------- MODULE SchedulerProofs ----------------------------
(***************************************************************************)
(* Theorems about the scheduler, for any ids, configs and bounds.          *)
(***************************************************************************)
EXTENDS Scheduler, WellFoundedInduction, TLAPS

-----------------------------------------------------------------------------
(* Times.  A schedule has a latest firing whenever it has one at all.      *)

LEMMA LatestExists ==
  ASSUME NEW S \in SUBSET Nat, NEW n \in Nat, S # {}, \A t \in S : t <= n
  PROVE  \E t \in S : \A u \in S : u <= t
<1> DEFINE Gaps == {n - t : t \in S}
           R == OpToRel(<, Nat)
<1>1. \A t \in S : n - t \in Nat
  OBVIOUS
<1>2. Gaps \subseteq Nat /\ Gaps # {}
  BY <1>1
<1>3. \A x, y \in Nat : y < x => <<y, x>> \in R
  BY DEF OpToRel
<1> HIDE DEF R
<1>4. IsWellFoundedOn(R, Nat)
  BY NatLessThanWellFounded DEF R
<1>5. PICK x \in Gaps : \A y \in Gaps : ~ (<<y, x>> \in R)
  BY <1>2, <1>4, WFMin
<1>6. PICK t \in S : x = n - t
  OBVIOUS
<1>7. \A u \in S : n - u \in Gaps
  OBVIOUS
<1>8. \A u \in S : ~ (n - u < n - t)
  BY <1>1, <1>3, <1>5, <1>6, <1>7
<1>9. \A u \in S : u <= t
  BY <1>8
<1> QED BY <1>9

LEMMA LastFiringType ==
  ASSUME NEW sched \in Schedules, NEW n \in Nat
  PROVE  /\ LastFiring(sched, n) \in Times
         /\ LastFiring(sched, n) # NoTime => LastFiring(sched, n) \in Nat
<1> DEFINE F == Fired(sched, n)
<1>1. F \in SUBSET Nat /\ \A t \in F : t <= n
  BY DEF Fired, Schedules, Instants
<1>2. CASE F = {}
  BY <1>2 DEF LastFiring, Times, NoTime
<1>3. CASE F # {}
  <2>1. \E t \in F : \A u \in F : u <= t
    BY <1>1, <1>3, LatestExists
  <2>2. LastFiring(sched, n) \in F
    BY <1>3, <2>1 DEF LastFiring
  <2> QED BY <1>1, <2>2 DEF Times, Instants
<1> QED BY <1>2, <1>3

-----------------------------------------------------------------------------
(* The inductive invariant: the types, and a bound on every attempt number *)
(* and on every limit a job carries, wherever the job is.                  *)

WithinLimit(j) == j.attempt <= RetryLimit + 1 /\ j.max <= RetryLimit + 1

Capped == /\ \A i \in Ids : st[i].retryAttempt <= RetryLimit
          /\ \A j \in queued \cup running : WithinLimit(j)
          /\ \A r \in results : WithinLimit(r.job)
          /\ AttemptsCapped

IInv == TypeOK /\ Capped

(* What the handlers submit: jobs of configured tasks, within the limit,   *)
(* without a cycle in a first attempt only if the task is standalone.      *)
Fit(j) == /\ j \in Jobs
          /\ j.task \in TasksOf(cfg)
          /\ j.attempt = 1 /\ j.cycle = NoCycle => j.task \in cfg.alone
          /\ WithinLimit(j)

LEMMA ConfigFacts ==
  ASSUME NEW c \in Configs
  PROVE  /\ Config(c)
         /\ TasksOf(c) \subseteq Ids
         /\ Workflows(c) \subseteq Ids
         /\ c.alone \subseteq TasksOf(c)
         /\ c.alone \subseteq Items(c)
         /\ Workflows(c) \subseteq Items(c)
         /\ Items(c) \subseteq Ids
         /\ \A w \in Workflows(c) : c.flow[w] \subseteq TasksOf(c)
<1>1. Config(c)
  BY ConfigsAssumption
<1>2. Workflows(c) \subseteq Ids /\ c.alone \subseteq Ids
      /\ \A w \in Workflows(c) : c.flow[w] \subseteq Ids
  BY <1>1 DEF Config
<1>3. \A w \in Workflows(c) : c.flow[w] \subseteq TasksOf(c)
  BY DEF TasksOf
<1>4. c.alone \subseteq TasksOf(c) /\ c.alone \subseteq Items(c)
      /\ Workflows(c) \subseteq Items(c)
  BY DEF TasksOf, Items
<1>5. TasksOf(c) \subseteq Ids
  BY <1>2 DEF TasksOf
<1>6. Items(c) \subseteq Ids
  BY <1>2 DEF Items
<1> QED BY <1>1, <1>2, <1>3, <1>4, <1>5, <1>6

LEMMA JobFits ==
  ASSUME TypeOK, NEW t \in TasksOf(cfg), NEW c \in Cycles, NEW k \in Nat \ {0},
         k <= RetryLimit + 1, k = 1 /\ c = NoCycle => t \in cfg.alone
  PROVE  Fit(Job(t, c, k))
<1>1. cfg \in Configs /\ batch \in Nat
  BY DEF TypeOK
<1>2. t \in Ids /\ cfg.retries[t] \in Int /\ cfg.delay[t] \in Nat \cup {Inherit}
  BY <1>1, ConfigFacts DEF Config
<1>3. MaxAttempts(t) \in Int /\ MaxAttempts(t) <= RetryLimit + 1
  BY <1>2, RetryLimitAssumption DEF MaxAttempts
<1>4. Job(t, c, k) \in Jobs
  BY <1>1, <1>2, <1>3 DEF Job, Jobs
<1> QED BY <1>3, <1>4 DEF Job, Fit, WithinLimit

LEMMA WindowType ==
  ASSUME TypeOK, NEW j, Fit(j)
  PROVE  WindowOf(j) \in Times
<1>1. cfg \in Configs /\ now \in Nat
  BY DEF TypeOK, Instants
<1>2. CASE j.attempt > 1
  BY <1>2 DEF WindowOf, Times
<1>3. CASE ~(j.attempt > 1) /\ j.cycle = NoCycle
  <2>1. j.attempt \in Nat \ {0}
    BY DEF Fit, Jobs
  <2>2. j.attempt = 1
    BY <1>3, <2>1
  <2>3. cfg.sched[j.task] \in Schedules
    BY <1>1, <1>3, <2>2, ConfigFacts DEF Fit, Config
  <2>4. LastFiringOf(j.task) \in Times
    BY <1>1, <2>3, LastFiringType DEF LastFiringOf
  <2> QED BY <1>3, <2>4 DEF WindowOf
<1>4. CASE ~(j.attempt > 1) /\ j.cycle # NoCycle
  <2>1. j.cycle \in Ids \X {"at", "force"} \X Instants
    BY <1>4 DEF Fit, Jobs, Cycles
  <2>2. j.cycle[3] \in Times
    BY <2>1 DEF Times
  <2> QED BY <1>4, <2>2 DEF WindowOf, Times
<1> QED BY <1>2, <1>3, <1>4

LEMMA SubmitType ==
  ASSUME IInv, NEW jobs, \A j \in jobs : Fit(j), Submit(jobs)
  PROVE  /\ batch' \in Nat
         /\ issued' \subseteq [job : Jobs, window : Times]
         /\ AttemptsCapped'
<1>1. batch' \in Nat
  BY DEF IInv, TypeOK, Submit
<1>2. \A j \in jobs : j \in Jobs /\ WithinLimit(j) /\ WindowOf(j) \in Times
  BY WindowType DEF IInv, Fit
<1>3. issued \subseteq [job : Jobs, window : Times] /\ AttemptsCapped
  BY DEF IInv, TypeOK, Capped
<1>4. issued' = issued \cup {[job |-> j, window |-> WindowOf(j)] : j \in jobs}
  BY DEF Submit
<1>5. issued' \subseteq [job : Jobs, window : Times]
  BY <1>2, <1>3, <1>4
<1>6. \A e \in issued' : e.job.attempt <= RetryLimit + 1
  BY <1>2, <1>3, <1>4 DEF AttemptsCapped, WithinLimit
<1> QED BY <1>1, <1>5, <1>6 DEF AttemptsCapped

-----------------------------------------------------------------------------
(* What each handler writes has the right type and stays within the limit. *)

StatesFit(s) == /\ s \in [Ids -> TaskStates]
                /\ \A i \in Ids : s[i].retryAttempt <= RetryLimit

LEMMA LastFiringOfType ==
  ASSUME TypeOK, NEW i \in Items(cfg)
  PROVE  /\ LastFiringOf(i) \in Times
         /\ Due(i) => LastFiringOf(i) \in Nat
<1>1. cfg.sched[i] \in Schedules /\ now \in Nat
  BY ConfigFacts DEF TypeOK, Instants, Config
<1>2. LastFiringOf(i) \in Times /\ (LastFiringOf(i) # NoTime => LastFiringOf(i) \in Nat)
  BY <1>1, LastFiringType DEF LastFiringOf
<1>3. Due(i) => LastFiringOf(i) # NoTime
  BY DEF Due, IsDue, LastFiringOf
<1> QED BY <1>2, <1>3

LEMMA TickJobsFit ==
  ASSUME IInv, NEW retried \in SUBSET Retried, NEW fired, NEW early
  PROVE  \A j \in TickJobs(retried, fired, early) : Fit(j)
<1>0. TypeOK /\ cfg \in Configs
  BY DEF IInv, TypeOK
<1>1. ASSUME NEW t \in retried
      PROVE  Fit(Job(t, st[t].lastCycle, st[t].retryAttempt + 1))
  <2>1. t \in TasksOf(cfg) /\ st[t].retryAttempt > 0
    BY DEF Retried
  <2>2. t \in Ids
    BY <1>0, <2>1, ConfigFacts
  <2>3. /\ st[t].lastCycle \in Cycles /\ st[t].retryAttempt \in Nat
        /\ st[t].retryAttempt <= RetryLimit
    BY <1>0, <2>2 DEF IInv, Capped, TypeOK, TaskStates
  <2>4. /\ st[t].retryAttempt + 1 \in Nat \ {0} /\ st[t].retryAttempt + 1 # 1
        /\ st[t].retryAttempt + 1 <= RetryLimit + 1
    BY <2>1, <2>3, RetryLimitAssumption
  <2> QED BY <1>0, <2>1, <2>3, <2>4, JobFits
<1>2. ASSUME NEW w \in DueFlows, NEW t \in Roots(w)
      PROVE  Fit(Job(t, CycleAt(w), 1))
  <2>1. w \in Workflows(cfg) /\ Due(w) /\ t \in cfg.flow[w]
    BY DEF DueFlows, Roots
  <2>2. w \in Items(cfg) /\ w \in Ids /\ t \in TasksOf(cfg)
    BY <1>0, <2>1, ConfigFacts
  <2>3. LastFiringOf(w) \in Nat
    BY <1>0, <2>1, <2>2, LastFiringOfType
  <2>4. CycleAt(w) \in Cycles /\ CycleAt(w) # NoCycle
    BY <2>2, <2>3 DEF CycleAt, Cycles, NoCycle, Instants
  <2> QED BY <1>0, <2>2, <2>4, JobFits, RetryLimitAssumption
<1>3. ASSUME NEW t \in DueAlone(early)
      PROVE  Fit(Job(t, NoCycle, 1))
  <2>1. t \in cfg.alone /\ t \in TasksOf(cfg)
    BY <1>0, ConfigFacts DEF DueAlone
  <2>2. NoCycle \in Cycles
    BY DEF Cycles
  <2> QED BY <1>0, <2>1, <2>2, JobFits, RetryLimitAssumption
<1>4. \A j \in RetryJobs(retried) : Fit(j)
  BY <1>1 DEF RetryJobs
<1>5. \A j \in RootJobs(fired \cap DueFlows, early) : Fit(j)
  BY <1>2 DEF RootJobs
<1>6. \A j \in AloneJobs(fired \cap DueAlone(early)) : Fit(j)
  BY <1>3 DEF AloneJobs
<1> QED BY <1>4, <1>5, <1>6 DEF TickJobs

LEMMA TickStateFits ==
  ASSUME IInv, NEW retried, NEW fired, fired \subseteq Items(cfg)
  PROVE  StatesFit(TickState(retried, fired))
<1>1. TypeOK /\ st \in [Ids -> TaskStates] /\ \A i \in Ids : st[i].retryAttempt <= RetryLimit
  BY DEF IInv, TypeOK, Capped
<1>2. \A i \in fired : LastFiringOf(i) \in Times
  BY <1>1, LastFiringOfType
<1>3. NoTime \in Times
  BY DEF Times
<1>4. ASSUME NEW i \in Ids
      PROVE  /\ TickState(retried, fired)[i] \in TaskStates
             /\ TickState(retried, fired)[i].retryAttempt = st[i].retryAttempt
  BY <1>1, <1>2, <1>3, <1>4 DEF TickState, TaskStates
<1>5. TickState(retried, fired) \in [Ids -> TaskStates]
  BY <1>4 DEF TickState
<1> QED BY <1>1, <1>4, <1>5 DEF StatesFit
LEMMA SuccessStateFits ==
  ASSUME IInv, NEW r \in results
  PROVE  StatesFit(SuccessState(r.job)) /\ StatesFit(MarkFlows(SuccessState(r.job), LeafOf(r.job.task)))
<1> DEFINE j == r.job
           s == SuccessState(j)
           m == MarkFlows(s, LeafOf(j.task))
<1>1. /\ st \in [Ids -> TaskStates] /\ now \in Times
      /\ \A i \in Ids : st[i].retryAttempt <= RetryLimit
      /\ j.task \in Ids /\ j.cycle \in Cycles
  BY DEF IInv, TypeOK, Capped, Times, Jobs
<1>2. "success" \in Statuses /\ NoTime \in Times
  BY DEF Statuses, Times
<1>3. StatesFit(s)
  <2> HIDE DEF j
  <2> DEFINE e == [st[j.task] EXCEPT !.lastRun = now, !.status = "success",
                                     !.lastSuccess = now, !.lastCycle = j.cycle,
                                     !.retryAt = NoTime, !.retryAttempt = 0]
  <2>1. st[j.task] \in TaskStates
    BY <1>1
  <2>2. e \in TaskStates /\ e.retryAttempt = 0
    BY <1>1, <1>2, <2>1 DEF TaskStates
  <2>3. s = [st EXCEPT ![j.task] = e]
    BY DEF SuccessState
  <2> HIDE DEF e
  <2>4. ASSUME NEW i \in Ids
        PROVE  s[i] \in TaskStates /\ s[i].retryAttempt <= RetryLimit
    BY <1>1, <2>2, <2>3, RetryLimitAssumption
  <2>5. s \in [Ids -> TaskStates]
    BY <1>1, <2>4 DEF SuccessState
  <2> QED BY <2>4, <2>5 DEF StatesFit
<1>4. ASSUME NEW i \in Ids
      PROVE  m[i] \in TaskStates /\ m[i].retryAttempt = s[i].retryAttempt
  <2> HIDE DEF s
  <2> QED BY <1>1, <1>2, <1>3 DEF StatesFit, MarkFlows, TaskStates
<1>5. m \in [Ids -> TaskStates]
  BY <1>4 DEF MarkFlows
<1> QED BY <1>3, <1>4, <1>5 DEF StatesFit

LEMMA FailureStateFits ==
  ASSUME IInv, NEW r \in results
  PROVE  StatesFit(FailureState(r.job, r.status))
<1>1. /\ st \in [Ids -> TaskStates] /\ now \in Times
      /\ \A i \in Ids : st[i].retryAttempt <= RetryLimit
      /\ r.job.task \in Ids /\ r.job.cycle \in Cycles
  BY DEF IInv, TypeOK, Capped, Times, Jobs
<1>2. r.status \in Statuses
  BY OutcomesAssumption DEF IInv, TypeOK, Statuses
<1> QED BY <1>1, <1>2 DEF StatesFit, FailureState, TaskStates

LEMMA CompleteFailureFits ==
  ASSUME IInv, NEW r \in results, CompleteFailure(r.job, r.status)
  PROVE  StatesFit(st')
<1> DEFINE j == r.job
           f == FailureState(j, r.status)
<1>1. StatesFit(f)
  BY FailureStateFits
<1>2. /\ j.attempt \in Nat \ {0} /\ j.max \in Int /\ j.max <= RetryLimit + 1
      /\ j.delay \in Nat \cup {Inherit} /\ cfg.globalDelay \in Nat /\ now \in Nat
  BY ConfigFacts DEF IInv, TypeOK, Capped, WithinLimit, Jobs, Config, Instants
<1>3. RetryDelay(j) \in Nat
  BY <1>2 DEF RetryDelay
<1>4. NoTime \in Times /\ now + RetryDelay(j) \in Times
  BY <1>2, <1>3 DEF Times, Instants
<1>5. WillRetry(j, r.status) => j.attempt <= RetryLimit
  BY <1>2, RetryLimitAssumption DEF WillRetry
<1> DEFINE at == IF WillRetry(j, r.status) THEN now + RetryDelay(j) ELSE NoTime
           k == IF WillRetry(j, r.status) THEN j.attempt ELSE 0
<1>6. at \in Times /\ k \in Nat /\ k <= RetryLimit
  BY <1>2, <1>4, <1>5, RetryLimitAssumption
<1>7. st' = [f EXCEPT ![j.task] = [@ EXCEPT !.retryAt = at, !.retryAttempt = k]]
  BY DEF CompleteFailure
<1> HIDE DEF f, at, k
<1> QED BY <1>1, <1>6, <1>7 DEF StatesFit, TaskStates

LEMMA DependentsFit ==
  ASSUME IInv, NEW r \in results, NEW s
  PROVE  \A j \in DependentJobs(r.job, s) : Fit(j)
<1>1. TypeOK /\ r.job.cycle \in Cycles
  BY DEF IInv, TypeOK, Jobs
<1>2. ASSUME NEW u \in ReadyDependents(r.job, s), r.job.cycle # NoCycle
      PROVE  Fit(Job(u, r.job.cycle, 1))
  <2>1. u \in TasksOf(cfg)
    BY DEF ReadyDependents
  <2> QED BY <1>1, <1>2, <2>1, JobFits, RetryLimitAssumption
<1> QED BY <1>2 DEF DependentJobs

LEMMA SeededFits ==
  ASSUME IInv, NEW c
  PROVE  StatesFit(Seeded(c))
<1>1. /\ st \in [Ids -> TaskStates] /\ now \in Times
      /\ \A i \in Ids : st[i].retryAttempt <= RetryLimit
  BY DEF IInv, TypeOK, Capped, Times
<1>2. ASSUME NEW i \in Ids
      PROVE  Seeded(c)[i] \in TaskStates /\ Seeded(c)[i].retryAttempt = st[i].retryAttempt
  BY <1>1, <1>2 DEF Seeded, TaskStates, Statuses
<1>3. Seeded(c) \in [Ids -> TaskStates]
  BY <1>2 DEF Seeded
<1> QED BY <1>1, <1>2, <1>3 DEF StatesFit

LEMMA ForcedJobFits ==
  ASSUME IInv, NEW t \in TasksOf(cfg)
  PROVE  Fit(Job(t, <<ForceOwner(t), "force", now>>, 1))
<1>1. TypeOK /\ cfg \in Configs /\ now \in Instants /\ t \in Ids
  BY ConfigFacts DEF IInv, TypeOK
<1>2. ForceOwner(t) \in Ids
  BY <1>1, ConfigFacts DEF ForceOwner
<1>3. <<ForceOwner(t), "force", now>> \in Cycles /\ <<ForceOwner(t), "force", now>> # NoCycle
  BY <1>1, <1>2 DEF Cycles, NoCycle
<1> QED BY <1>1, <1>3, JobFits, RetryLimitAssumption
-----------------------------------------------------------------------------
(* The inductive step.  Where a job is, what a job is, and the rest.       *)

JobsFit == /\ queued \subseteq Jobs /\ running \subseteq Jobs
           /\ results \subseteq [job : Jobs, status : Outcomes]
           /\ \A j \in queued \cup running : WithinLimit(j)
           /\ \A r \in results : WithinLimit(r.job)

HistoryFits == /\ batch \in Nat
               /\ issued \subseteq [job : Jobs, window : Times]
               /\ AttemptsCapped

WorldFits == /\ now \in Instants
             /\ online \in BOOLEAN /\ paused \in BOOLEAN
             /\ cfg \in Configs
             /\ active \subseteq Ids
             /\ succeeded \subseteq Ids \X Cycles

LEMMA Parts == IInv <=> StatesFit(st) /\ JobsFit /\ HistoryFits /\ WorldFits
BY DEF IInv, TypeOK, Capped, StatesFit, JobsFit, HistoryFits, WorldFits

LEMMA PartsNext == StatesFit(st)' /\ JobsFit' /\ HistoryFits' /\ WorldFits' => IInv'
BY DEF IInv, TypeOK, Capped, StatesFit, JobsFit, HistoryFits, WorldFits

LEMMA InitFits == Init => IInv
<1> SUFFICES ASSUME Init PROVE IInv
  OBVIOUS
<1>1. StatesFit(st)
  BY InitStatesAssumption, InitAttemptsAssumption DEF Init, StatesFit
<1>2. JobsFit /\ HistoryFits /\ WorldFits
  BY DEF Init, JobsFit, HistoryFits, WorldFits, AttemptsCapped, Instants
<1> QED BY <1>1, <1>2, Parts

LEMMA TickFits == IInv /\ Tick => IInv'
<1> SUFFICES ASSUME IInv, Tick PROVE IInv'
  OBVIOUS
<1>1. PICK early \in SUBSET Retried :
        LET fired == DueFlows \cup DueAlone(early)
        IN  /\ Submit(TickJobs(Retried, fired, early))
            /\ queued' = queued \cup TickJobs(Retried, fired, early)
            /\ st' = TickState(Retried, fired)
  BY DEF Tick
<1> DEFINE fired == DueFlows \cup DueAlone(early)
           jobs == TickJobs(Retried, fired, early)
<1>2. fired \subseteq Items(cfg)
  BY DEF DueFlows, DueAlone, Items
<1>3. \A j \in jobs : Fit(j)
  BY TickJobsFit
<1>4. StatesFit(st)'
  BY <1>1, <1>2, TickStateFits DEF StatesFit
<1>5. HistoryFits'
  BY <1>1, <1>3, SubmitType DEF HistoryFits
<1>6. queued' = queued \cup jobs /\ UNCHANGED <<running, results>>
  BY <1>1 DEF Tick
<1>7. JobsFit'
  BY <1>3, <1>6, Parts DEF JobsFit, Fit
<1>8. WorldFits'
  BY Parts DEF Tick, world, WorldFits
<1> QED BY <1>4, <1>5, <1>7, <1>8, PartsNext

LEMMA RunsFit ==
  ASSUME IInv,
         \/ \E j \in queued : StartJob(j)
         \/ \E j \in running, outcome \in Outcomes : FinishJob(j, outcome)
  PROVE  IInv'
<1>1. CASE \E j \in queued : StartJob(j)
  <2>1. PICK j \in queued : StartJob(j)
    BY <1>1
  <2>2. j.task \in Ids
    BY Parts DEF JobsFit, Jobs
  <2>3. JobsFit'
    BY <2>1, Parts DEF JobsFit, StartJob
  <2>4. WorldFits'
    BY <2>1, <2>2, Parts DEF WorldFits, StartJob, world, history
  <2>5. StatesFit(st)' /\ HistoryFits'
    BY <2>1, Parts DEF StatesFit, HistoryFits, AttemptsCapped, StartJob, history
  <2> QED BY <2>3, <2>4, <2>5, PartsNext
<1>2. CASE \E j \in running, outcome \in Outcomes : FinishJob(j, outcome)
  <2>1. PICK j \in running, outcome \in Outcomes : FinishJob(j, outcome)
    BY <1>2
  <2>2. JobsFit'
    BY <2>1, Parts DEF JobsFit, FinishJob
  <2>3. WorldFits'
    BY <2>1, Parts DEF WorldFits, FinishJob, world, history
  <2>4. StatesFit(st)' /\ HistoryFits'
    BY <2>1, Parts DEF StatesFit, HistoryFits, AttemptsCapped, FinishJob, history
  <2> QED BY <2>2, <2>3, <2>4, PartsNext
<1> QED BY <1>1, <1>2

LEMMA CompleteFits ==
  ASSUME IInv, NEW r \in results, Complete(r)
  PROVE  IInv'
<1>1. r.job.task \in Ids /\ r.job.cycle \in Cycles
  BY Parts DEF JobsFit, Jobs
<1>2. results' = results \ {r} /\ UNCHANGED <<now, online, paused, cfg, running, active>>
  BY DEF Complete, world
<1>3. CASE r.status = "success"
  <2> DEFINE s == MarkFlows(SuccessState(r.job), LeafOf(r.job.task))
             jobs == DependentJobs(r.job, s)
  <2>1. /\ st' = s
        /\ succeeded' = succeeded \cup {<<r.job.task, r.job.cycle>>}
        /\ Submit(jobs)
        /\ queued' = queued \cup jobs
    BY <1>3 DEF Complete, CompleteSuccess
  <2>2. \A j \in jobs : Fit(j)
    BY DependentsFit
  <2>3. StatesFit(st)'
    BY <2>1, SuccessStateFits DEF StatesFit
  <2>4. HistoryFits'
    BY <2>1, <2>2, SubmitType DEF HistoryFits
  <2>5. JobsFit'
    BY <1>2, <2>1, <2>2, Parts DEF JobsFit, Fit
  <2>6. WorldFits'
    BY <1>1, <1>2, <2>1, Parts DEF WorldFits
  <2> QED BY <2>3, <2>4, <2>5, <2>6, PartsNext
<1>4. CASE r.status # "success"
  <2>1. CompleteFailure(r.job, r.status)
    BY <1>4 DEF Complete
  <2>2. UNCHANGED <<queued, batch, issued, succeeded>>
    BY <2>1 DEF CompleteFailure
  <2>3. StatesFit(st)'
    BY <2>1, CompleteFailureFits DEF StatesFit
  <2>4. HistoryFits' /\ JobsFit' /\ WorldFits'
    BY <1>2, <2>2, Parts DEF HistoryFits, AttemptsCapped, JobsFit, WorldFits
  <2> QED BY <2>3, <2>4, PartsNext
<1> QED BY <1>3, <1>4

LEMMA ForceRunFits ==
  ASSUME IInv, NEW t \in TasksOf(cfg), ForceRun(t)
  PROVE  IInv'
<1> DEFINE job == Job(t, <<ForceOwner(t), "force", now>>, 1)
<1>1. Submit({job}) /\ queued' = queued \cup {job} /\ UNCHANGED <<st, running, results>>
  BY DEF ForceRun
<1>2. Fit(job)
  BY ForcedJobFits
<1>3. HistoryFits'
  <2>1. \A j \in {job} : Fit(j)
    BY <1>2
  <2> QED BY <1>1, <2>1, SubmitType DEF HistoryFits
<1>4. JobsFit'
  BY <1>1, <1>2, Parts DEF JobsFit, Fit
<1>5. StatesFit(st)' /\ WorldFits'
  BY <1>1, Parts DEF ForceRun, world, StatesFit, WorldFits
<1> QED BY <1>3, <1>4, <1>5, PartsNext
LEMMA CrashesFit == IInv /\ (Crash \/ CrashInTick \/ CrashInCompletion) => IInv'
<1> SUFFICES ASSUME IInv, Crash \/ CrashInTick \/ CrashInCompletion PROVE IInv'
  OBVIOUS
<1>1. Restart
  BY DEF Crash, CrashInTick, CrashInCompletion
<1>2. JobsFit' /\ WorldFits'
  BY <1>1, Parts DEF Restart, JobsFit, WorldFits
<1>3. CASE Crash
  <2>1. StatesFit(st)' /\ HistoryFits'
    BY <1>3, Parts DEF Crash, StatesFit, HistoryFits, AttemptsCapped
  <2> QED BY <1>2, <2>1, PartsNext
<1>4. CASE CrashInTick
  <2>1. PICK early \in SUBSET Retried, retried \in SUBSET Retried :
          \E fired \in SUBSET (DueFlows \cup DueAlone(early)) :
            /\ st' = TickState(retried, fired)
            /\ Submit(TickJobs(retried, fired, early))
    BY <1>4 DEF CrashInTick
  <2>2. PICK fired \in SUBSET (DueFlows \cup DueAlone(early)) :
          /\ st' = TickState(retried, fired)
          /\ Submit(TickJobs(retried, fired, early))
    BY <2>1
  <2>3. fired \subseteq Items(cfg)
    BY DEF DueFlows, DueAlone, Items
  <2>4. StatesFit(st)'
    BY <2>2, <2>3, TickStateFits DEF StatesFit
  <2>5. \A j \in TickJobs(retried, fired, early) : Fit(j)
    BY TickJobsFit
  <2>6. HistoryFits'
    BY <2>2, <2>5, SubmitType DEF HistoryFits
  <2> QED BY <1>2, <2>4, <2>6, PartsNext
<1>5. CASE CrashInCompletion
  <2>1. PICK r \in results : st' = IF r.status = "success" THEN SuccessState(r.job)
                                                           ELSE FailureState(r.job, r.status)
    BY <1>5 DEF CrashInCompletion
  <2>2. StatesFit(st)'
    BY <2>1, SuccessStateFits, FailureStateFits DEF StatesFit
  <2>3. HistoryFits'
    BY <1>5, Parts DEF CrashInCompletion, HistoryFits, AttemptsCapped
  <2> QED BY <1>2, <2>2, <2>3, PartsNext
<1> QED BY <1>3, <1>4, <1>5

LEMMA RestFits ==
  ASSUME IInv,
         \/ \E c \in Configs : Reload(c)
         \/ \E p \in BOOLEAN : SetPaused(p)
         \/ Advance \/ NetworkChanges \/ UNCHANGED vars
  PROVE  IInv'
<1>1. CASE \E c \in Configs : Reload(c)
  <2>1. PICK c \in Configs : Reload(c)
    BY <1>1
  <2>2. StatesFit(st)'
    BY <2>1, SeededFits DEF Reload, StatesFit
  <2>3. JobsFit' /\ HistoryFits' /\ WorldFits'
    BY <2>1, Parts DEF Reload, daemon, history, JobsFit, HistoryFits, AttemptsCapped, WorldFits
  <2> QED BY <2>2, <2>3, PartsNext
<1>2. CASE \E p \in BOOLEAN : SetPaused(p)
  <2>1. StatesFit(st)' /\ JobsFit' /\ HistoryFits' /\ WorldFits'
    BY <1>2, Parts DEF SetPaused, daemon, history, StatesFit, JobsFit, HistoryFits,
                       AttemptsCapped, WorldFits
  <2> QED BY <2>1, PartsNext
<1>3. CASE Advance \/ NetworkChanges \/ UNCHANGED vars
  <2>1. StatesFit(st)' /\ JobsFit' /\ HistoryFits'
    BY <1>3, Parts DEF Advance, NetworkChanges, vars, daemon, history, StatesFit, JobsFit,
                       HistoryFits, AttemptsCapped
  <2>2. WorldFits'
    <3>1. CASE Advance
      BY <3>1, Parts DEF Advance, daemon, history, WorldFits, Instants
    <3>2. CASE NetworkChanges
      BY <3>2, Parts DEF NetworkChanges, daemon, history, WorldFits
    <3>3. CASE UNCHANGED vars
      BY <3>3, Parts DEF vars, world, daemon, history, WorldFits
    <3> QED BY <1>3, <3>1, <3>2, <3>3
  <2> QED BY <2>1, <2>2, PartsNext
<1> QED BY <1>1, <1>2, <1>3

LEMMA StepFits == IInv /\ [Next]_vars => IInv'
<1> SUFFICES ASSUME IInv, [Next]_vars PROVE IInv'
  OBVIOUS
<1>1. CASE Tick
  BY <1>1, TickFits
<1>2. CASE \/ \E j \in queued : StartJob(j)
           \/ \E j \in running, outcome \in Outcomes : FinishJob(j, outcome)
  BY <1>2, RunsFit
<1>3. CASE \E r \in results : Complete(r)
  BY <1>3, CompleteFits
<1>4. CASE \E t \in Forcible \cap TasksOf(cfg) : ForceRun(t)
  BY <1>4, ForceRunFits
<1>5. CASE Crash \/ CrashInTick \/ CrashInCompletion
  BY <1>5, CrashesFit
<1>6. CASE \/ \E c \in Configs : Reload(c)
           \/ \E p \in BOOLEAN : SetPaused(p)
           \/ Advance \/ NetworkChanges \/ UNCHANGED vars
  BY <1>6, RestFits
<1> QED BY <1>1, <1>2, <1>3, <1>4, <1>5, <1>6 DEF Next

THEOREM Invariance == Spec => []IInv
BY InitFits, StepFits, PTL DEF Spec

(* Every variable keeps its type: no handler writes a state file entry or  *)
(* submits a job that another could not read, under any config reloaded.   *)
THEOREM TypeCorrect == Spec => []TypeOK
<1>1. IInv => TypeOK
  BY DEF IInv
<1> QED BY <1>1, Invariance, PTL

(* No task is attempted more than maxRetriesLimit + 1 times in a row: the  *)
(* limit of the config in force when a job was built goes with the job,    *)
(* and the count goes through the state file, crashes and reloads.         *)
THEOREM AttemptsStayCapped == Spec => []AttemptsCapped
<1>1. IInv => AttemptsCapped
  BY DEF IInv, Capped
<1> QED BY <1>1, Invariance, PTL
=================================================================================

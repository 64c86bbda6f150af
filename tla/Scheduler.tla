-------------------------------- MODULE Scheduler --------------------------------
(***************************************************************************)
(* The scheduler (src/scheduler.go) with the persisted task state it       *)
(* works on (src/state.go), the worker pool as far as the scheduler sees   *)
(* it (WorkerPool models its inside), config reload with its seeding of    *)
(* new tasks (src/main.go), and crashes of the daemon.                     *)
(*                                                                         *)
(* One goroutine runs tick and handleCompletion, so each is one action.    *)
(* Force-runs come from socket handlers, reloads from the config watcher,  *)
(* pauses from anywhere, and jobs start and finish at any time.            *)
(***************************************************************************)
EXTENDS Schedule, FiniteSets

CONSTANTS
  Ids,         \* every workflow id and task id
  Configs,     \* the configs the daemon may be given
  InitStates,  \* the state files it may start from
  RetryLimit,  \* maxRetriesLimit (10 in the code)
  Slots,       \* worker_slots
  Outcomes,    \* how a run may end
  Forcible,    \* the tasks an operator may force-run
  MayReload,   \* whether the config file may be edited meanwhile
  MayCrash,    \* whether the daemon may crash
  MayPause,    \* whether an operator may pause and resume it
  MaxNow,      \* bound: the last instant
  MaxBatches,  \* bound: how many handlers may submit jobs
  MaxForced    \* bound: how many first attempts of forced cycles

(* A config holds, for each workflow, its tasks; the standalone tasks; for *)
(* each task the one it depends on, whether it needs the network, its      *)
(* retries (its own or the global ones) and its own retry delay, if any;   *)
(* and for each workflow and standalone task its schedule and catchup.     *)
NoTask == "none"
Inherit == -1
NoCycle == <<>>

Workflows(c) == DOMAIN c.flow
TasksOf(c) == c.alone \cup UNION {c.flow[w] : w \in Workflows(c)}
Items(c) == Workflows(c) \cup c.alone

Config(c) ==
  /\ Workflows(c) \subseteq Ids
  /\ \A w \in Workflows(c) : c.flow[w] \subseteq Ids
  /\ c.alone \subseteq Ids
  /\ Workflows(c) \cap TasksOf(c) = {}
  /\ \A w \in Workflows(c) : c.flow[w] \cap c.alone = {}
  /\ \A v, w \in Workflows(c) : v # w => c.flow[v] \cap c.flow[w] = {}
  /\ c.parent \in [TasksOf(c) -> TasksOf(c) \cup {NoTask}]
  /\ \A w \in Workflows(c) : \A t \in c.flow[w] : c.parent[t] \in c.flow[w] \cup {NoTask}
  /\ c.needsNet \subseteq TasksOf(c)
  /\ c.retries \in [TasksOf(c) -> Int]
  /\ c.delay \in [TasksOf(c) -> Nat \cup {Inherit}]
  /\ c.globalDelay \in Nat
  /\ c.sched \in [Items(c) -> Schedules]
  /\ c.catchup \subseteq Items(c)

Cycles == (Ids \X {"at", "force"} \X Instants) \cup {NoCycle}
Statuses == {"", "success", "failed", "timeout", "fatal", "seeded"}
TaskStates == [lastSuccess : Times, lastRun : Times, status : Statuses,
               lastCycle : Cycles, retryAt : Times, retryAttempt : Nat,
               lastAttempted : Times]

ASSUME ConfigsAssumption == \A c \in Configs : Config(c)
ASSUME InitStatesAssumption == InitStates \subseteq [Ids -> TaskStates]
ASSUME InitAttemptsAssumption ==
         \A s \in InitStates : \A i \in Ids : s[i].retryAttempt <= RetryLimit
ASSUME RetryLimitAssumption == RetryLimit \in Nat
ASSUME SlotsAssumption == Slots \in Nat \ {0}
ASSUME OutcomesAssumption == Outcomes \subseteq {"success", "failed", "timeout", "fatal"}
ASSUME NoTaskAssumption == NoTask \notin Ids
ASSUME BoundsAssumption == {MaxNow, MaxBatches, MaxForced} \subseteq Nat

VARIABLES
  now,        \* the clock
  online,     \* whether the network check would succeed
  paused,     \* the paused flag
  cfg,        \* the config in force
  st,         \* the task state: in memory and on disk
  queued,     \* jobs submitted, waiting for a slot
  running,    \* jobs being executed
  results,    \* results on their way to the scheduler
  active,     \* the tasks IsActive answers true for
  batch,      \* how many handlers have submitted jobs
  issued,     \* history: every job ever submitted, with the window it is for
  succeeded   \* history: the tasks that succeeded, with the cycle

daemon == <<queued, running, results, active>>
world == <<now, online, paused, cfg>>
history == <<batch, issued, succeeded>>
vars == <<world, st, daemon, history>>

-----------------------------------------------------------------------------
(* A state file entry that does not exist reads like this one.             *)
EmptyState == [lastSuccess |-> NoTime, lastRun |-> NoTime, status |-> "",
               lastCycle |-> NoCycle, retryAt |-> NoTime, retryAttempt |-> 0,
               lastAttempted |-> NoTime]

NetworkOK(t) == t \in cfg.needsNet => online

LastFiringOf(i) == LastFiring(cfg.sched[i], now)

Due(i) == IsDue(cfg.sched[i], i \in cfg.catchup, st[i], now)

(* Slip: every task of a due workflow is dispatched.                       *)
EveryTask(w) == cfg.flow[w]

Roots(w) == {t \in cfg.flow[w] : cfg.parent[t] = NoTask}

(* A job as dispatchTask and checkRetries build it, numbered by the        *)
(* handler that submits it; the number stands for the goroutine.           *)
MaxAttempts(t) == (IF cfg.retries[t] < RetryLimit THEN cfg.retries[t] ELSE RetryLimit) + 1

Job(t, cycle, attempt) ==
  [task |-> t, cycle |-> cycle, attempt |-> attempt, max |-> MaxAttempts(t),
   delay |-> cfg.delay[t], n |-> batch]

(* The firing a job is for, if it is not a retry, a dependent or forced:   *)
(* its workflow's, or its own.                                             *)
WindowOf(j) ==
  IF j.attempt > 1 THEN NoTime
  ELSE IF j.cycle = NoCycle THEN LastFiringOf(j.task)
  ELSE IF j.cycle[2] = "at" /\ cfg.parent[j.task] = NoTask THEN j.cycle[3]
  ELSE NoTime

(* What a handler hands to the pool is noted, with the firing it is for.   *)
Submit(jobs) ==
  /\ jobs # {} => batch < MaxBatches
  /\ batch' = IF jobs = {} THEN batch ELSE batch + 1
  /\ issued' = issued \cup {[job |-> j, window |-> WindowOf(j)] : j \in jobs}

-----------------------------------------------------------------------------
(* runDaemon starts from the state file with nothing running.              *)
Init == /\ now = 0
        /\ online \in BOOLEAN
        /\ paused = FALSE
        /\ cfg \in Configs
        /\ st \in InitStates
        /\ queued = {} /\ running = {} /\ results = {} /\ active = {}
        /\ batch = 0 /\ issued = {} /\ succeeded = {}

-----------------------------------------------------------------------------
(* checkRetries: the tasks whose pending retry is due and may run now.     *)
Retried == {t \in TasksOf(cfg) : /\ st[t].retryAt # NoTime
                                 /\ st[t].retryAt <= now
                                 /\ st[t].retryAttempt > 0
                                 /\ NetworkOK(t)}

RetryJobs(tasks) == {Job(t, st[t].lastCycle, st[t].retryAttempt + 1) : t \in tasks}

(* The schedule part of tick.  A retry submitted moments ago may or may    *)
(* not have made its task active already: "early" are those that have.     *)
Idle(t, early) == t \notin active \cup early

DueFlows == {w \in Workflows(cfg) : Due(w)}
DueAlone(early) == {t \in cfg.alone : Due(t) /\ Idle(t, early) /\ NetworkOK(t)}

CycleAt(w) == <<w, "at", LastFiringOf(w)>>

RootJobs(flows, early) ==
  UNION {{Job(t, CycleAt(w), 1) : t \in {u \in Roots(w) : Idle(u, early) /\ NetworkOK(u)}}
           : w \in flows}

(* Slip: attempts counted from zero.                                       *)
AloneJobsFromZero(tasks) == {Job(t, NoCycle, 0) : t \in tasks}

AloneJobs(tasks) == {Job(t, NoCycle, 1) : t \in tasks}

(* Slip: a retry is not submitted beside a run of its task, as a first     *)
(* attempt is not.                                                         *)
TickJobsIdle(retried, fired, early) ==
  RetryJobs(retried \ active) \cup RootJobs(fired \cap DueFlows, early)
                              \cup AloneJobs(fired \cap DueAlone(early))

TickJobs(retried, fired, early) ==
  RetryJobs(retried) \cup RootJobs(fired \cap DueFlows, early)
                     \cup AloneJobs(fired \cap DueAlone(early))

(* Slips: the firing is not recorded; the retry is not cleared.            *)
TickRecordsNoFiring(retried, fired) ==
  [i \in Ids |-> [st[i] EXCEPT !.retryAt = IF i \in retried THEN NoTime ELSE @]]

TickKeepsRetries(retried, fired) ==
  [i \in Ids |-> [st[i] EXCEPT !.lastAttempted = IF i \in fired THEN LastFiringOf(i) ELSE @]]

(* What the tick writes: a retry taken up is cleared, and a firing is      *)
(* recorded as attempted, for a workflow whether or not a root was run.    *)
TickState(retried, fired) ==
  [i \in Ids |-> [st[i] EXCEPT !.retryAt = IF i \in retried THEN NoTime ELSE @,
                               !.lastAttempted = IF i \in fired THEN LastFiringOf(i) ELSE @]]

Tick == /\ ~paused
        /\ \E early \in SUBSET Retried :
             LET fired == DueFlows \cup DueAlone(early)
             IN  /\ Submit(TickJobs(Retried, fired, early))
                 /\ queued' = queued \cup TickJobs(Retried, fired, early)
                 /\ st' = TickState(Retried, fired)
        /\ UNCHANGED <<world, running, results, active, succeeded>>

-----------------------------------------------------------------------------
(* The pool: a job takes a slot and marks its task active; when it ends,   *)
(* the task's mark is removed, and the result is sent.                     *)
StartJob(j) == /\ Cardinality(running) < Slots
               /\ queued' = queued \ {j}
               /\ running' = running \cup {j}
               /\ active' = active \cup {j.task}
               /\ UNCHANGED <<world, st, results, history>>

FinishJob(j, outcome) == /\ running' = running \ {j}
                         /\ active' = active \ {j.task}
                         /\ results' = results \cup {[job |-> j, status |-> outcome]}
                         /\ UNCHANGED <<world, st, queued, history>>

-----------------------------------------------------------------------------
(* handleCompletion.  Slip: a success leaves a pending retry in place.     *)
SuccessKeepsRetry(j) ==
  [st EXCEPT ![j.task] = [@ EXCEPT !.lastRun = now,
                                   !.status = "success",
                                   !.lastSuccess = now,
                                   !.lastCycle = j.cycle]]

SuccessState(j) ==
  [st EXCEPT ![j.task] = [@ EXCEPT !.lastRun = now,
                                   !.status = "success",
                                   !.lastSuccess = now,
                                   !.lastCycle = j.cycle,
                                   !.retryAt = NoTime,
                                   !.retryAttempt = 0]]

(* updateWorkflowStateOnLeafSuccess: the workflows the task is a leaf of.  *)
LeafOf(t) == {w \in Workflows(cfg) : /\ t \in cfg.flow[w]
                                     /\ \A u \in cfg.flow[w] : cfg.parent[u] # t}

MarkFlows(s, flows) ==
  [i \in Ids |-> IF i \in flows
                   THEN [s[i] EXCEPT !.lastSuccess = now, !.lastRun = now, !.status = "success"]
                   ELSE s[i]]

(* dispatchReadyDependents: not while offline, and never again later.      *)
ReadyDependents(j, s) ==
  {u \in TasksOf(cfg) \ cfg.alone : /\ cfg.parent[u] = j.task
                                    /\ s[j.task].lastCycle = j.cycle
                                    /\ s[j.task].status = "success"
                                    /\ NetworkOK(u)}

DependentJobs(j, s) ==
  {Job(u, j.cycle, 1) : u \in {v \in ReadyDependents(j, s) : j.cycle # NoCycle}}

CompleteSuccess(j) ==
  LET s == MarkFlows(SuccessState(j), LeafOf(j.task))
  IN  /\ st' = s
      /\ succeeded' = succeeded \cup {<<j.task, j.cycle>>}
      /\ Submit(DependentJobs(j, s))
      /\ queued' = queued \cup DependentJobs(j, s)

FailureState(j, status) ==
  [st EXCEPT ![j.task] = [@ EXCEPT !.lastRun = now,
                                   !.status = status,
                                   !.lastCycle = j.cycle]]

RetryDelay(j) == IF j.delay = Inherit THEN cfg.globalDelay ELSE j.delay

(* Slips: one retry too many; no limit.                                    *)
RetryOnceMore(j, status) == status # "fatal" /\ j.attempt <= j.max
RetryForEver(j, status) == status # "fatal"

WillRetry(j, status) == status # "fatal" /\ j.attempt < j.max

CompleteFailure(j, status) ==
  /\ st' = [FailureState(j, status) EXCEPT
              ![j.task] = [@ EXCEPT
                !.retryAt = IF WillRetry(j, status) THEN now + RetryDelay(j) ELSE NoTime,
                !.retryAttempt = IF WillRetry(j, status) THEN j.attempt ELSE 0]]
  /\ UNCHANGED <<queued, batch, issued, succeeded>>

(* Slip: the dependents are dispatched whatever the outcome.               *)
CompleteRegardless(r) ==
  LET jobs == {Job(u, r.job.cycle, 1) : u \in {v \in TasksOf(cfg) : cfg.parent[v] = r.job.task}}
  IN  /\ st' = FailureState(r.job, r.status)
      /\ Submit(jobs)
      /\ queued' = queued \cup jobs
      /\ results' = results \ {r}
      /\ UNCHANGED <<world, running, active, succeeded>>

Complete(r) == /\ IF r.status = "success" THEN CompleteSuccess(r.job)
                                          ELSE CompleteFailure(r.job, r.status)
               /\ results' = results \ {r}
               /\ UNCHANGED <<world, running, active>>

-----------------------------------------------------------------------------
(* ForceRunTask: no schedule, no pause, no network, no IsActive.           *)
ForceOwner(t) == IF \E w \in Workflows(cfg) : t \in cfg.flow[w]
                   THEN CHOOSE w \in Workflows(cfg) : t \in cfg.flow[w]
                   ELSE t

Forced == {e \in issued : /\ e.job.cycle # NoCycle
                          /\ e.job.cycle[2] = "force"
                          /\ e.job.attempt = 1}

ForceRun(t) ==
  LET job == Job(t, <<ForceOwner(t), "force", now>>, 1)
  IN  /\ Cardinality(Forced) < MaxForced
      /\ Submit({job})
      /\ queued' = queued \cup {job}
      /\ UNCHANGED <<world, st, running, results, active, succeeded>>

(* The watcher's callback: seed the tasks that are new, then swap.         *)
Seeded(new) == [i \in Ids |-> IF i \in TasksOf(new) \ TasksOf(cfg)
                                THEN [st[i] EXCEPT !.lastSuccess = now, !.status = "seeded"]
                                ELSE st[i]]

Reload(new) == /\ MayReload
               /\ new # cfg
               /\ st' = Seeded(new)
               /\ cfg' = new
               /\ UNCHANGED <<now, online, paused, daemon, history>>

SetPaused(p) == /\ MayPause
                /\ paused' = p
                /\ UNCHANGED <<now, online, cfg, st, daemon, history>>

-----------------------------------------------------------------------------
(* The daemon dies and is started again, perhaps with another config: of   *)
(* what it knew only the state file is left.                               *)
Restart == /\ MayCrash
           /\ queued' = {} /\ running' = {} /\ results' = {} /\ active' = {}
           /\ paused' = FALSE
           /\ cfg' \in IF MayReload THEN Configs ELSE {cfg}
           /\ UNCHANGED <<now, online, succeeded>>

Crash == Restart /\ UNCHANGED <<st, batch, issued>>

(* Slip: jobs are submitted before the firing, or the retry, is written.   *)
CrashBeforeRecord ==
  /\ Restart
  /\ ~paused
  /\ UNCHANGED st
  /\ Submit(TickJobs(Retried, DueFlows \cup DueAlone({}), {}))

(* It dies in the middle of a tick: each retry and each firing is written  *)
(* before its jobs are submitted, the retries first.                       *)
CrashInTick == /\ Restart
               /\ ~paused
               /\ \E early, retried \in SUBSET Retried :
                    \E fired \in SUBSET (DueFlows \cup DueAlone(early)) :
                      /\ fired # {} => retried = Retried
                      /\ st' = TickState(retried, fired)
                      /\ Submit(TickJobs(retried, fired, early))

(* It dies between the first write of handleCompletion and the second.     *)
CrashInCompletion == /\ Restart
                     /\ \E r \in results :
                          st' = IF r.status = "success"
                                  THEN SuccessState(r.job)
                                  ELSE FailureState(r.job, r.status)
                     /\ UNCHANGED <<batch, issued>>

-----------------------------------------------------------------------------
(* The world: time passes, the network comes and goes.                     *)
Advance == /\ now < MaxNow
           /\ now' = now + 1
           /\ UNCHANGED <<online, paused, cfg, st, daemon, history>>

NetworkChanges == /\ online' = ~online
                  /\ UNCHANGED <<now, paused, cfg, st, daemon, history>>

Next == \/ Tick
        \/ \E j \in queued : StartJob(j)
        \/ \E j \in running, outcome \in Outcomes : FinishJob(j, outcome)
        \/ \E r \in results : Complete(r)
        \/ \E t \in Forcible \cap TasksOf(cfg) : ForceRun(t)
        \/ \E c \in Configs : Reload(c)
        \/ \E p \in BOOLEAN : SetPaused(p)
        \/ Crash \/ CrashInTick \/ CrashInCompletion
        \/ Advance
        \/ NetworkChanges

Spec == Init /\ [][Next]_vars

(* The ticker fires for ever, a free slot is taken, a run ends (its        *)
(* context has a deadline), a result is read, and time passes.             *)
Fairness == /\ WF_vars(Tick)
            /\ WF_vars(\E j \in queued : StartJob(j))
            /\ WF_vars(\E j \in running, outcome \in Outcomes : FinishJob(j, outcome))
            /\ WF_vars(\E r \in results : Complete(r))
            /\ WF_vars(Advance)

FairSpec == Spec /\ Fairness

-----------------------------------------------------------------------------
(* Types.                                                                  *)
Jobs == [task : Ids, cycle : Cycles, attempt : Nat \ {0}, max : Int,
         delay : Nat \cup {Inherit}, n : Nat]

TypeOK == /\ now \in Instants
          /\ online \in BOOLEAN /\ paused \in BOOLEAN
          /\ cfg \in Configs
          /\ st \in [Ids -> TaskStates]
          /\ queued \subseteq Jobs /\ running \subseteq Jobs
          /\ results \subseteq [job : Jobs, status : Outcomes]
          /\ active \subseteq Ids
          /\ batch \in Nat
          /\ issued \subseteq [job : Jobs, window : Times]
          /\ succeeded \subseteq Ids \X Cycles

Live == queued \cup running \cup {r.job : r \in results}

(* No task is run more than maxRetriesLimit + 1 times in a row, whatever   *)
(* was configured, reloaded or interrupted between the attempts.           *)
AttemptsCapped == \A e \in issued : e.job.attempt <= RetryLimit + 1

(* A firing of a workflow's or a standalone task's schedule starts a task  *)
(* at most once: not again after a failure, a catch-up, a crash or a       *)
(* change of the schedule (the last by the theorem alone: no run reloads   *)
(* another schedule of an item).  It holds for what has a success on       *)
(* record, and not without one.                                            *)
WindowFiresOnce ==
  \A d, e \in issued :
    (/\ d.window # NoTime /\ d.window = e.window
     /\ d.job.task = e.job.task /\ d.job.cycle = e.job.cycle) => d = e

(* In a scheduled cycle every attempt of a task is made once: retries,     *)
(* dependents and later cycles never dispatch the same work again.         *)
AttemptMadeOnce ==
  \A d, e \in issued :
    (/\ d.job.cycle # NoCycle /\ d.job.cycle[2] = "at"
     /\ d.job.cycle = e.job.cycle
     /\ d.job.task = e.job.task
     /\ d.job.attempt = e.job.attempt) => d = e

(* A dependent runs in a scheduled cycle only after its parent succeeded   *)
(* in that very cycle, retries included.                                   *)
DependentsFollowParents ==
  \A e \in issued :
    LET j == e.job
    IN  (/\ j.task \in TasksOf(cfg)
         /\ cfg.parent[j.task] # NoTask
         /\ j.cycle # NoCycle /\ j.cycle[2] = "at")
        => <<cfg.parent[j.task], j.cycle>> \in succeeded

(* A pending retry belongs to the task's last run, which failed, and knows *)
(* which attempt it was, so checkRetries never passes it over for ever.    *)
RetryFollowsFailure ==
  \A i \in Ids : st[i].retryAt # NoTime =>
    st[i].status \in {"failed", "timeout"} /\ st[i].retryAttempt > 0

(* Catchup: a firing that a standalone task missed is being run, or was    *)
(* run to its end, or the next tick finds it due.                          *)
CaughtUp ==
  \A t \in cfg.alone \cap cfg.catchup :
    (/\ st[t].lastSuccess # NoTime
     /\ st[t].lastRun < LastFiringOf(t)
     /\ st[t].lastSuccess < LastFiringOf(t))
    => Due(t) \/ \E j \in Live : j.task = t

(* The same for the root tasks of a workflow: design, Network Handling,    *)
(* "hold network-dependent activities and retry on the next tick".         *)
FlowsCaughtUp ==
  \A w \in Workflows(cfg) \cap cfg.catchup : \A t \in Roots(w) :
    (/\ st[w].lastSuccess # NoTime
     /\ st[w].lastSuccess < LastFiringOf(w)
     /\ st[t].lastRun < LastFiringOf(w))
    => Due(w) \/ \E j \in Live : j.task = t

(* What scheduler.go:164-165 says of recording the attempt: "so isDue      *)
(* won't re-dispatch after retries exhaust".  A firing is exhausted for a  *)
(* task once it was taken up, no job of the task is left, and the last one *)
(* failed and left no retry.                                               *)
Exhausted(t, window) ==
  /\ \E d \in issued : d.job.task = t /\ d.window = window
  /\ \A j \in Live : j.task # t
  /\ st[t].status \in {"failed", "timeout", "fatal"}
  /\ st[t].retryAt = NoTime

ExhaustedStaysDown ==
  [][\A e \in issued' \ issued :
       e.window # NoTime => ~Exhausted(e.job.task, e.window)]_vars

(* What the state file says of a pending retry: its time, the attempt that *)
(* failed and its cycle; and the job that makes it, new in the pool.       *)
OwedRetry(i) == <<st[i].retryAt, st[i].retryAttempt, st[i].lastCycle>>

Makes(j, i) == /\ j.task = i
               /\ j.cycle = st[i].lastCycle
               /\ j.attempt = st[i].retryAttempt + 1

(* A pending retry does not stay pending, and it does not go without being *)
(* made: the next attempt, under the same cycle, is handed to the pool in  *)
(* the very step that takes it out of the file, or another completion of   *)
(* the task has superseded it, which the retry must not outlive.  This is  *)
(* so while the daemon is up, unpaused and online.                         *)
RetryNotDropped ==
  [][\A i \in Ids : st[i].retryAt # NoTime /\ OwedRetry(i)' # OwedRetry(i) =>
       \/ \E j \in queued' : j.n = batch /\ Makes(j, i)
       \/ \E r \in results \ results' : r.job.task = i]_vars

RetryHappens ==
  /\ RetryNotDropped
  /\ \A i \in Ids, at \in 0..MaxNow : st[i].retryAt = at ~> st[i].retryAt # at

(* A retry comes out of the state file and is gone from it once it is      *)
(* made: a daemon that dies in a tick, restarts or is given another config *)
(* may lose a pending retry, and never makes it twice.                     *)
RetrySpent ==
  [][\A e \in issued' \ issued : e.job.attempt > 1 =>
       /\ st[e.job.task].retryAt # NoTime /\ Makes(e.job, e.job.task)
       /\ st'[e.job.task].retryAt = NoTime]_vars

(* Failures do not feed on themselves: after the last firing of every      *)
(* schedule the daemon comes to rest, with no job and no retry left.       *)
ComesToRest == <>[](Live = {} /\ \A i \in Ids : st[i].retryAt \notin 0..MaxNow)
=================================================================================

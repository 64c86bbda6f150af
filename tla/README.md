# protomolecule in TLA+

protomolecule is a daemon that runs `claude -p` tasks on cron schedules: single
("standalone") tasks and workflows, whose tasks depend on each other. This
directory models its concurrent and crash-prone core, model-checks it with TLC
and proves the properties that matter most with TLAPS.

## 1. Inventory

| Component | Source | State | Operations | Hard behaviour |
|---|---|---|---|---|
| worker pool | `worker.go` | semaphore, active map by task id, results channel (100), WaitGroup, context | Submit and its goroutine, IsActive, ActiveJobs, Shutdown | goroutines of one task overlapping; slot and WaitGroup accounting on every path; shutdown with a full channel |
| scheduler | `scheduler.go` | config, paused flag; works on the state store | tick, checkRetries, handleCompletion, dependents, ForceRunTask, ReloadConfig | retries, dependents and schedule racing; decisions on stale or half-written state; offline; crashes |
| schedule evaluation | `scheduler.go` | none | isDue, computeLastFiring | boundaries of a minute, catch-up, zones, no history |
| state store | `state.go` | task states in memory, state file, temporary file | Load, UpdateTask, saveAtomic, GetTask, GetAll | a crash or an error inside a save |
| daemon lifecycle | `main.go` | the components above | runDaemon, reload callback, signal handling | what is lost on restart; order of the shutdown |
| config, validation | `config.go` | none | LoadConfig, validateConfig, checkDAGCycles | what the scheduler may assume |
| config watcher | `config.go` | debounce timer, watched inode | loop | a file replaced by a rename; an edit during a reload |
| executor, live outputs | `executor.go` | child process, output buffers by task id | Run, Register, Deregister | exit, deadline, SIGTERM and SIGKILL racing |
| status server, client | `status.go` | socket, last reload | run, pause, status, outputs | two daemons and a stale socket; a toggle in two steps |
| terminal UI | `tui.go` | mode, cursor, last answers | Update | answers that arrive late |
| log commands, run summary, visualization, plist, logger | other files | none | text in, text out | - |

How they interact. `runDaemon` loads the state file, starts the status server,
the watcher and the scheduler's goroutine. That goroutine alone runs `tick`
(at once, then every minute) and `handleCompletion` (one per result). It and
the force-run handlers call `pool.Submit`, which starts a goroutine per job;
that goroutine sends one result back on a channel. The watcher's callback seeds
the state of new tasks and swaps the scheduler's config. All of them share the
state store, behind its mutex. On a signal `runDaemon` cancels the scheduler,
stops watcher and server, and waits for the pool.

What makes each component correct:

- worker pool: at most `worker_slots` jobs execute; every job is answered
  exactly once; `IsActive` and the status page tell the truth; Shutdown returns,
  and only when nothing is left running.
- scheduler: a firing runs a task at most once, and with catchup it is not
  lost; a dependent runs only after its parent succeeded in the same cycle;
  attempts are capped; a pending retry happens; failures die out.
- state store: the file is always whole; what was acknowledged survives a crash.
- daemon and configuration: one daemon at a time answers on the socket; a daemon
  that is told to stop ends; no configuration is in force whose workflows cannot be
  carried out; an edit takes effect.
- executor: `Run` returns, its status tells what became of the process, and its
  texts are final.
- console: what the live view shows belongs to the task it names, and following a
  run ends.

The hazards of the code, line by line, are the `hazards` of `PROJECT.json`.

## 2. Modules

| Module | Models | Abstract specification |
|---|---|---|
| `JobService` | - | what the pool promises its caller |
| `WorkerPool` | `worker.go`, the scheduler's reads, the shutdown in `main.go` | implements `JobService` |
| `WorkerPoolProofs` | theorems about `WorkerPool` | |
| `Schedule` | `isDue`, `computeLastFiring` | |
| `Scheduler` | `scheduler.go` with the state it persists, the reload callback, crashes | |
| `SchedulerProofs` | theorems about `Scheduler`: types, the cap on attempts | |
| `SchedulerFiringProofs` | its firings: none twice, none lost; extends `SchedulerProofs` | |
| `SchedulerCycleProofs` | its cycles: order, retries, attempts; extends `SchedulerFiringProofs` | |
| `AtomicStore` | - | what the state store promises |
| `StateStore` | `state.go`, and the file system under crash and power loss | implements `AtomicStore` |
| `StateStoreProofs` | theorems about `StateStore`, with the refinement | |
| `Executor` | `ClaudeExecutor.Run`: the process, its pipe, four goroutines | |
| `ConfigCheck` | `LoadConfig`, `validateConfig`, `checkDAGCycles`, as operators | `IsSound`, the reference for what they accept |
| `Daemon` | `runDaemon`, the socket of the status server, `ConfigWatcher`; uses `ConfigCheck` | |
| `ExecutorProofs`, `DaemonProofs` | theorems about `Executor`, and about `Daemon` with `ConfigCheck` | |
| `Console` | the handlers of the status server, live outputs, the log reader, the terminal UI | |
| `ConsoleProofs` | theorems about `Console` | |
| `MCWorkerPool`, `MCScheduler`, `MCStateStore`, `MCDaemon`, `MCConsole` | small instances for TLC | |

How they compose. `Scheduler` sees the pool as `queued`, `running`, `results`
and what `IsActive` answers, and `WorkerPool` has the steps inside; `WorkerPool`
sees `executor.Run` as something that returns (`Executor!RunReturns` says when), and
`Scheduler` as a status (`Executor!StatusTellsWhy` says what the word means);
`Daemon` decides which configuration is in force, and `Scheduler` takes any two
accepted ones; the console sees the runs of the pool from their dispatch on.

A module that holds a definition named in a comment as a *slip* holds it for
one purpose: it is the definition after it with a plausible bug, and the
mutants of `PROJECT.json` name the property that notices.

### WorkerPool

`pc[j]` is where the goroutine of job `j` is: `waiting` in the select, `admitted`
(has a slot), `running` (in the active map, in `executor.Run`), `ran`, `sending`,
`releasing`, `exiting`, `gone`, or `refusing` after the pool was cancelled. Each
action is one step that another goroutine can see: a channel operation, a
critical section on the active map, a WaitGroup operation. `sem` is the number
of tokens in the semaphore, `results` the channel, `loop` the scheduler's
receive loop, `phase` how far `runDaemon`'s shutdown has come. `Submit` stays
possible during the shutdown, because neither handlers nor the scheduler's
goroutine are waited for. `handled` counts, for the properties only, how often
a result reached the scheduler, and `overlapped` collects the jobs that were
between `Track` and `Untrack` while another job of their task was: they are all that
`SoloJobIsActive` excepts.

### Schedule and Scheduler

Time is a natural number with `PerMinute` instants to a minute. A cron
expression is the set of instants it names, twice: as `computeLastFiring`
reads it (the zone of the daemon's clock) and as the test of the current minute
reads it (UTC). The configured zone appears in neither, as in the code.
Expressions that name no instant at all (30 February) are excluded: the code's
scan does not end on them (see the hazards).

`tick` and `handleCompletion` run on one goroutine and are one action each.
What other goroutines do meanwhile commutes with them, with one exception that
the model keeps: a retry submitted at the start of a tick may become active
before the schedule is evaluated (`early`). `tick` may happen at any time: the
ticker is periodic, but a restart ticks at once, and the loop is late after
slow network checks. Submitted jobs are records with the number of the handler
that submitted them; `queued`, `running`, `results` are the pool as the scheduler
sees it, `active` what `IsActive` answers, including the deletion of another
job's entry that `WorkerPool` shows. `st` is the state in memory and on disk at
once: a crash keeps it and drops the rest. `CrashInTick` and `CrashInCompletion`
are the crashes between two writes of a handler. What a failing save adds is
the business of `StateStore`. `issued` and `succeeded` are history, for the
properties only. Prompts, durations, failure counters and run history are
left out: no decision reads them.

### StateStore

A task state is abstracted to the set of updates it reflects. Each system call
of `saveAtomic` is an action and may fail; the temporary file has one name.
`file`, `tmp` are what the two paths name now, `older` what the state path
may name again after a power loss, because `saveAtomic` does not flush the
directory. Bytes that were not synced may be missing after a power loss. The
file may be damaged by someone else before the first start.

### Executor

One call of `Run`. `run` is where it is, `stream` the goroutine that reads the
standard output, `waiter` the one in `cmd.Wait`, `watch` the one that
`exec.CommandContext` starts. `leader` is the claude process, `child` one
descendant, which is in its process group or has left it, dies of SIGTERM or
not, and holds the descriptors it has not redirected. `pipe` are the lines not
read yet. What os/exec and the kernel do is modelled from how `Run` uses them and
marked external: CommandContext's kill goes to the process alone, `Run`'s
signals to the group; `cmd.Wait` waits for the process, then for the end of the
standard error, and closes the pipe of the standard output.

The select takes either of an end and a deadline that are both there, so a run
that succeeded may be called a timeout: `StatusTellsWhy` says the converse, that
no word is given without its cause.

`FailureSeen` has a condition, and without it TLC finds a run whose last
words were `TASK_FAILED:` and whose status is `success`, in ten steps: the process
prints and ends, `cmd.Wait` closes the pipe before the streaming goroutine has
read the line. The comment at `executor.go:215` takes the end of the stream for
its having been consumed.

### ConfigCheck and Daemon

A document is what the YAML parser finds, with the strings abstracted to what
the checks ask of them. `Accepts` are the checks in the code; `IsSound` says
what they are for, without Kahn's algorithm: of any tasks of a workflow, one waits
for none of the others. `Kahn` is the loop of `checkDAGCycles`, a round for each
task it takes from the queue. The queue is a set: Go ranges over a map to fill it, and
which task comes first does not change how many are visited.

`stage[d]` is how far daemon `d` has come between `LoadConfig` and the end of
`Shutdown`; each stage is a place where another process may act. `path` is whose
socket file is there. An editor writes the configuration file in place, so that
half of it can be read, or renames another over it: after that the watcher's
inode is gone and its state is `lost`, though the loop goes on. `event`, `armed`
and `loading` are the three stations of a reload: the channel, the debounce timer,
the file that was read and is being applied. The order of a signal, the closing
of the watcher and a reload in progress is free.

`Start` and `Stop` look at the path and change it in separate steps.
`overlapped` records whether two daemons were between such steps at once, and
`OneDaemonServes` excepts it: with it TLC finds two daemons that both listen, one
of them at no path, by two starts over a stale socket, and by a start during a
stop, whose second `os.Remove` takes the new socket.

The loop is one goroutine, and `Loop` one action of three cases: when an event and the
end of the debounce are both there, the select takes either. An edit between
`LoadConfig` and the `Add` of the watcher is not noticed, so `EditTakesEffect` speaks
of edits that were, and it excepts a daemon whose file was replaced: README.md:12 of the
repository and its design document (design-002:221) promise the reload, and after a
rename the watcher hears of no later edit, while a reload that read the old
text before it may still put that in force for good. A dial to a socket whose backlog is
full, which `Start` would take for a stale file, is not modelled.

### Console

Runs are numbered as they are dispatched and go through the stations an
operator can tell apart: submitted, in the active map, with a live buffer, buffer
gone, over. A run prints one line, named by the run. `calls` is the set of the UI's
requests under way: any of them may be answered next, may fail, or may have its
answer delivered, in any order. `status` is the last status shown, which may be
old: a key acts on its rows. `view` is the live output view.

`ShownLinesBelong` has three exceptions, each of which TLC turns into lines of
the wrong task or the wrong run when it is dropped: an answer for another task was
due when the view was opened (`jobOutputMsg` names a task, and `Update` does not
look at it); two runs of the task overlapped (buffers are keyed by task); the
task was retried (`checkRetries` logs no `task_start`, so the "last run" of a log
is all its attempts). A view opened after a run is active and before its buffer
is registered learns that nothing runs and stops asking; `FollowEnds` holds, and
the operator sees an empty view. An answer of more than 64 KB is an error of the
client's scanner and never shown.

## 3. Runs

| Run | Question | Bounds |
|---|---|---|
| `pool_safety` | Do slots, answers, active map and shutdown stay right, is the pool a `JobService`, does Shutdown return when the channel has room, is every job handled? | 4 jobs, 2 of one task, 2 slots, channel of 2: contention for slots and for room, and an overlapping task, at once |
| `pool_overlap` | Does `IsActive` keep its promise? **No.** | 2 jobs of one task |
| `sched_core` | Is anything dispatched twice, out of order or lost? | firings at 1 and 3, 4 instants, 4 handlers that submit, one forced cycle, 1 retry; a workflow of 2 tasks or a standalone task |
| `sched_faults` | The same with crashes, restarts, reloads, pauses; is a retry made twice? | 4 instants, 4 handlers that submit, two configs that add and remove each other's tasks |
| `sched_live` | Do retries happen, and does the daemon come to rest? | 4 instants, one forced run beside the scheduled one, no more handlers than ever needed (8) |
| `sched_offline` | Is a workflow's firing held while offline? **No.** | 1 firing |
| `sched_lost` | Does catchup survive a crash? **No.** | 1 firing |
| `sched_fresh` | Does a firing stay down once its retries are exhausted? **Not without a success on record.** | 1 firing, no retry, two ticks in its minute |
| `store` | Is the file whole, and nothing acknowledged lost? | 2 writers, 3 updates |
| `exec_run` | Does a run end, with the right status and final texts? | any output, 2 lines in the pipe, 1 descendant of any kind |
| `daemon` | Does one daemon serve, with a sound configuration that follows the file, and does it end? | 2 processes, 2 starts, 2 edits, 6 files |
| `console_ui` | Does the view show what it says, and does following end? | 2 tasks, 2 runs, 2 requests under way |

The scheduler's bounds: `MaxNow` is the last instant, `MaxBatches` how many
handlers submit jobs, `MaxForced` how many first attempts of forced cycles there
may be before no more is forced. Four handlers are a root, its retry, its
dependent and the next firing. `RetryLimit` is 1 instead of 10, so the cap is
reached. The store's bound is `MaxUpdates`: two updates contend and a third
follows a failure.

`PipeCap` is 2, so that the pipe can be full with a line behind the one that
matters; the lines themselves are not bounded. `MaxStarts` is 2: two daemons start
together, or one of them again after a crash or a stop. `MaxWrites` is 2, and an
edit in place is two events: the second edit meets a reload of the first in each of its
stations, and a file that was half written when it was read. Of the files, each that is
refused is refused by one check only: not YAML, a cycle with a root beside it, an
unknown dependency, a task with two places; the other checks are the business of the
theorem `AcceptedIsSound`. `MaxRuns` and `MaxCalls` are 2: a run and its
retry, or the runs of two tasks, and two answers that cross.
In `sched_live` the forced run is what may supersede a pending retry, or run while it
is due.

Deadlock is not an error in any run: the daemon may be idle
for ever, and the bounds stop it. No run uses symmetry,
since several check liveness.

What the four violations show is in the `findings` of `PROJECT.json`: the active
map forgets a running task after an overlap; a workflow that comes due offline
loses the firing although the design document says it is held; a crash
between recording a firing and running it loses the firing in spite of catchup;
a task that never succeeded, whose run failed and left no retry, is dispatched for the
same firing again, because `isDue` does not look at the attempt on record then.

Fairness. `WorkerPool!FairSpec` assumes that Go runs every goroutine that can
run and lets blocked senders in first come first served, that `executor.Run`
returns (its context has a deadline), and that the receive loop and the
shutdown go on; nobody has to submit a job or stop the daemon.
`Scheduler!FairSpec` assumes that the ticker fires for ever, free slots are
taken, runs end, results are read and time passes; nothing is assumed of the
network, the operator, reloads or crashes, so `sched_live` has only an operator who may
or may not force the task. `Executor!FairSpec` assumes that the four goroutines
run, that the deadline comes (the pool always sets one) and that a process which heeds
SIGTERM dies of it; claude itself may hang for ever. `Daemon!FairSpec` assumes
that `main` and the watcher's loop run (the loop as one goroutine: which case of its
select is taken is not fair), that jobs drain (the pool's business) and
that an edit is finished. `Console!FairSpec` assumes that runs go on, that the UI
ticks and that force-runs are answered. It needs strong fairness twice, for the answers to
requests for lines and for their delivery: any one of them may fail, but the
UI asks again every second, and over a local socket not all of them fail for ever.

## 4. Proofs

A theorem holds for every value of the constants under the `ASSUME`s of the modules:
finitely many jobs, positive slots and capacities, well-formed configs, documents
of finite lists, state files whose retry counters the daemon may have written. Where a
theorem needs more it says so in its statement: `ASSUME` what the constants must
be, or a conjunct beside `Spec`, what the state file must be like at the start.
The runs that check these properties satisfy all of it.

That a step keeps an invariant is one lemma per conjunct or group of conjuncts,
with a step for each action.

### Worker pool

`WorkerPoolProofs`, for all jobs, slots and channel capacities:

- `CountersHold`: the inductive invariant `Counters` (types, `sem` counts the
  goroutines that hold a slot, `wg` the unfinished ones). `SlotBound` is not
  inductive alone; it follows because the runners are among the holders and
  the semaphore never exceeds `Slots`. Hence `TypeCorrect`, `SlotsRespected`,
  `SlotsAccounted`, `WaitGroupExact`.
- `ActiveMapSound`: what IsActive does promise to a job that no other of its task has
  overlapped, whatever ran before it and ended. Inductive with `OverlapsKnown`: of two
  jobs of a task that are both tracked, both are in `overlapped`, so an entry that is
  deleted is the job's own or that of a job with a rival. Hence `NoStaleEntries` and
  `SoloJobSeen`.
- `ResultsDelivered`: one answer per job, by induction with the positions
  in the channel made explicit.
- `ShutdownIsClean`: `wg = 0` means that no goroutine is unfinished.
- `PoolImplementsService`: step by step, each step of the pool is a step of
  `JobService` or a stutter, under the invariants above.

### Scheduler

`SchedulerProofs`, for all ids, configs, state files, retry limits and bounds:

- `Invariance`: the inductive invariant `IInv`, which is `TypeOK` with `Capped`.
  `AttemptsCapped` alone is not inductive. A job carries the limit of the config it
  was built under and outlives a reload, a failure copies its attempt number to the
  state file, and a retry after a restart reads it back; so `Capped` bounds all of
  them: the attempt and the limit of each job, queued, running or answered, and the
  counter of each entry of the file.
- `TickJobsFit`, `DependentsFit`, `ForcedJobFits`: whatever a handler submits is a
  job of a configured task, within the limit. `TickStateFits`, `SuccessStateFits`,
  `CompleteFailureFits`, `SeededFits`: whatever a handler writes is a state.
- `LastFiringType`: a schedule that fired within the lookback has a latest firing
  (`LatestExists`, from the well-foundedness of the naturals), so the cycle a tick
  names is an instant.
- Hence `TypeCorrect` and `AttemptsStayCapped`.

`SchedulerFiringProofs`, about firings:

- `FiringsTakenOnce`, `WindowsFireOnce`: a firing is taken up at most once, through
  failures, force-runs, reloads and crashes. Inductive is `FiringInv`: each window
  that was issued is no later than `lastAttempted` of its item, and the item still has a
  success on record. The hypothesis `OnRecord` is that success: without it `isDue`
  ignores the attempt and the same firing may come twice, also after it failed for
  good, which is what `sched_fresh` shows. That a reload may change the schedule of an
  item is covered here only: the configs of `sched_faults` share no item.
  `FiringsTakenOnce` speaks of any set of items, so the rest may be new.
- `MissedFiringsCaughtUp`: a standalone task with catchup that missed a firing is due
  or has a job on its way. Inductive is `InHand`: whoever was attempted later than it
  ran has a job under way. It supposes that the daemon does not crash (`sched_lost`
  shows why), that no id is a workflow in one config and a standalone task
  in another (`KindsApart`), and that at the start nothing was attempted that
  did not run (`AttemptsRan`).

`SchedulerCycleProofs`, about the runs of one cycle:

- `DependentsWait`: a dependent runs in a scheduled cycle only after its parent
  succeeded in it, through retries, force-runs, crashes and reloads. Inductive is
  `OrderInv`: not only the jobs that were made are in order, but also those a retry would
  make, from the cycle in the state file. Hence `NoneRetrying`: the file says that a
  retry is due but not that the parent once succeeded, so the daemon starts with
  none; and `ParentsStable`: a reload that gives a task another parent may give
  its retry one that never ran.
- `RetriesFollowFailures`: a pending retry belongs to the task's last run, which
  failed. Not with reloads, because seeding a task that was removed and added
  writes another status over its retry; and not with both crashes and fatal
  failures, because a crash between the two writes of a completion may leave an older
  retry under the status "fatal" (`NoFatalCrash`).
- `AttemptsMadeOnce`: in a scheduled cycle each attempt is made once. It is inductive
  with `RunsChained`, which orders the attempts of a run: of the jobs made, at most one
  is under way, it is the last, a success ends the run, and what a retry is
  owed for is the last attempt, over and not succeeded. `Chain` says so over plain
  sets, and the lemmas `ChainAdds`, `ChainFails` and `ChainSucceeds` are about
  adding jobs and ending one. `FiringInv` is what
  makes a first attempt the first, `OrderInv` what makes a dependent's. It supposes that
  the daemon does not crash: TLC found that a crash between the two writes leaves the
  retry of an older cycle under the cycle of the result.
- `RetriesSpent`: whatever crashes or is reloaded, a job with an attempt above 1 comes out
  of a pending retry with its cycle and the attempt before, and the step that makes it
  removes it from the file (`OthersAreFirst`: all other jobs are first attempts).
- `RetriesNotDropped`: without crashes, a pending retry leaves the file only as a job, or
  by another completion of its task: the safety half of `RetryHappens`. The hypothesis
  is needed: a crash in a tick may come between the two.

### State store

`StateStoreProofs`, for any number of goroutines and updates:

- `Invariance`: `IInv` is `TypeOK` with what the goroutine in a save relies on: the mutex is
  held by the one that saves, and what it marshalled is still the memory (`Locked`);
  `Load` runs first, on an empty memory (`Loaded`); the temporary file is whole from the
  write on and on the disk from the sync on (`Prepared`); whatever the state path names, or
  may name after a loss of power, is on the disk (`Persisted`); promises, file and
  memory include each other in this order (`Covered`); numbers are new (`Unused`,
  `Counted`).
- Hence `TypeCorrect`, `StateFileNeverTorn`, `AcknowledgedSurvive`.
- `FilesImplementAtomicStore`: the refinement of `AtomicStore`, step by step. A rename is the
  abstract step that persists, the loss of power the one that goes back to what was
  persisted before, and everything else in a save is a stutter.

### Executor

`ExecutorProofs`, for every capacity of the pipe, whatever is printed:

- `Invariance`: `IInv` is `TypeOK` with `Accounts`, what the goroutines know of each
  other (a process that was waited for is dead and `waitErr` is nil only for an
  exit with 0; `Run` goes on behind `cmd.Wait` and returns behind the stream; nobody
  is killed while the context is live), and `Followed`, what the streaming goroutine
  knows of the output (the last verdict is the one seen, or it is the last in the
  pipe). None of the properties is inductive without them: the status is written at
  the end, from what three other goroutines left behind.
- Hence `TypeCorrect`, `StatusIsTrue`, `ResultStays`, `FailureIsSeen`.

### Daemon and configuration

`DaemonProofs`, for any number of processes, starts, edits and files:

- `Invariance`: `IInv` is `TypeOK` with `Exclusive`: while one process at a time is at
  the path, whoever has bound a socket has it there, and nobody listens when a process
  is about to remove what is there or to bind. The checks of `Start` are worth
  something only because nothing changes between them and what they decide, which
  is what `overlapped` rules out. Hence `TypeCorrect` and `OneServer`.
- `CyclesDecided`: `checkDAGCycles` accepts just the workflows that can be carried
  out. The loop invariant is `Progress`: the in-degree of a task is 1 exactly while it
  waits for one that was not visited, and the tasks with 0 are those in the queue and
  those visited. Tasks that wait for each other are never among them; and once the
  queue is empty, nothing else is left. The provers have no induction over the
  rounds, so `KahnRounds` first shows that the recursive function exists (from tables
  of finitely many rounds that agree), and `ProgressHolds` refutes a least number of
  rounds after which the invariant fails.
- `AcceptedIsSound`: whatever `LoadConfig` accepts is sound, of any size. Hence
  `ConfigurationsSound`, since a daemon runs only with files that were accepted
  (`RunsAccepted`).

### Console

`ConsoleProofs`, for any tasks and any number of runs and requests:

- `Invariance`: `IInv` is in two halves. `RunsInv` says what is true of the daemon's side: a
  run has its task from its dispatch on, buffers and log entries belong to runs of
  their task, and, unless two runs of a task overlapped or it was retried, each line in
  the log is of the run that started last before it, and a run that is not over is the
  last that started (`InTurn`). `ScreenInv` says what is
  true of the UI's: every answer under way has lines of the task it names, of one
  run (`CallsBelong`), and so has the view, but for the cases excepted (`ViewBelongs`).
- Hence `TypeCorrect` and `LinesBelong`.

### Only model-checked

Every invariant that a passing run checks is proved, and so are the two
refinements and the action property `RetrySpent`. The liveness properties are not: the prover has no rule for
fairness. `ShutdownReturns`, `EveryJobHandled`, `RetryHappens` (but for its
safety half), `ComesToRest`, `RunReturns`, `StopEnds`, `EditTakesEffect` and `FollowEnds` rest on
TLC and its bounds.

## 5. Not modelled, and the plan

Hazards without a property, and why:

- The code contradicts itself or says nothing, so there is nothing to hold: a task
  that is removed and added again by reloads is seeded as if new while its old
  retry is pending (`main.go:485` says new tasks fire "on their next natural cron
  window"); expressions that name no instant, on which the scan of
  `computeLastFiring` does not end; the two readings of an expression, which differ
  in their zone; any success of one leaf marks the workflow as succeeded.
- The last reload in the status response is never set, and the model of the
  console keeps of the response only what the UI acts on.
- A dependent that needs the network is dropped when its parent succeeds
  offline. `sched_offline` shows the loss for roots, of which the documents speak.
- Two pause requests may both read the flag before either writes it. `SetPaused`
  in `Scheduler` lets a request set the flag to either value, which covers both
  outcomes.
- A negative number of slots panics in the pool, a negative timeout becomes 60
  minutes: both pass the validation. A reload that changes `worker_slots` never
  reaches the pool. The models assume `Slots > 0` and distinct workflow ids.

Hazards whose outcome a property excepts, or does not tell from a good one: two
starts, or a start and a stop, at once; edits after the file was replaced; a run that
ended at its deadline and is called a timeout; the buffer of an overlapping run; output lost
when the pipe is closed; a pending retry under the cycle of another result, after a
crash. The hazard's note says which.

Also known, and not stated as runs: after the loss of the state file nothing is
caught up (the design says everything with catchup fires, `scheduler.go:249`
deliberately does not); after a crash between the two writes of a failed completion
an attempt may be made once too often; with fewer places in the results channel than
unfinished jobs Shutdown hangs.

Next: the loop of `computeLastFiring` step by step, with zones that disagree, and a proof
that it finds the latest firing.

Not planned: flags and paths of the command line, log filters by status, the
`run` subcommand, rendering and cursors, text formatting, Mermaid output, the
plist, logging. They keep no state that a property here speaks of.

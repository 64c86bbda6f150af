--------------------------------- MODULE Console ---------------------------------
(***************************************************************************)
(* The operator's console: the handlers of the status server               *)
(* (src/status.go), the live output buffers (src/executor.go), the log     *)
(* reader (src/logs_cmd.go) and the terminal UI that asks them             *)
(* (src/tui.go).                                                           *)
(*                                                                         *)
(* The UI never waits: every request is a command on a goroutine of its    *)
(* own, and its answer becomes a message to Update, in any order.  A row   *)
(* of a list is the task it names; the cursor and the scrolling, which     *)
(* only choose among rows and lines, are left out.  What a closed view     *)
(* still holds is cleared when the next is opened: here when it closes.    *)
(* Runs are numbered as they are dispatched; a run prints one line, which  *)
(* stands for all it prints, and lines are named by their run.             *)
(***************************************************************************)
EXTENDS Naturals, Sequences, FiniteSets

CONSTANTS Tasks,       \* the configured tasks
          MaxRuns,     \* bound: the runs there may be
          NoRun,       \* "no entry in the map"
          NoTask,      \* "no task"
          MaxCalls     \* bound: requests under way at once

Runs == 1..MaxRuns

ASSUME ConsoleAssumption == {MaxRuns, MaxCalls} \subseteq Nat /\ NoRun \notin Runs /\ NoTask \notin Tasks

VARIABLES
  stage,     \* stage[r]: "new", "sent", "active", "live", "closed", "over"
  taskOf,    \* taskOf[r]: the task r runs
  active,    \* the pool's map of active jobs, by task
  registry,  \* the live output buffers, by task
  printed,   \* the runs that have printed their line
  log,       \* the log file: a start or a line, each of a run
  calls,     \* the UI's requests under way
  mode,      \* "view", "run", "select active", "select recent", "live"
  status,    \* the tasks active and recently run in the last status shown, or <<>>
  view,      \* the live output view: task, lines, running
  fouled,    \* history: tasks whose runs overlapped or were retried
  crossed    \* history: the view opened before an answer for another was in

runs == <<stage, taskOf, active, registry, printed, log, fouled>>
ui == <<mode, status, view, crossed>>
vars == <<runs, calls, ui>>

-----------------------------------------------------------------------------
(* Requests, as the client goroutines carry them.                          *)
RunCall(t) == [kind |-> "run", at |-> "asked", task |-> t]
OutputCall(t) == [kind |-> "output", at |-> "asked", task |-> t]
LogsCall(t) == [kind |-> "logs", at |-> "asked", task |-> t]

ShowsLines == {"output", "logs"}
Asked(kind) == {c \in calls : c.kind = kind /\ c.at = "asked"}

Room(new) == Cardinality(calls \cup new) <= MaxCalls
Ends(c) == calls' = calls \ {c}
Replace(c, new) == calls' = (calls \ {c}) \cup {new}

NoView == [task |-> NoTask, lines |-> {}, running |-> FALSE]

-----------------------------------------------------------------------------
Init == /\ stage = [r \in Runs |-> "new"]
        /\ taskOf = [r \in Runs |-> NoTask]
        /\ active = [t \in Tasks |-> NoRun]
        /\ registry = [t \in Tasks |-> NoRun]
        /\ printed = {} /\ log = <<>> /\ fouled = {}
        /\ calls = {}
        /\ mode = "view" /\ status = <<>> /\ crossed = FALSE /\ view = NoView

-----------------------------------------------------------------------------
(* The life of a run, as far as the console can see it.                    *)
Moves(r, from, to) == stage[r] = from /\ stage' = [stage EXCEPT ![r] = to]

RunsOf(t) == {r \in Runs : taskOf[r] = t}

Submit(r, t) == /\ Moves(r, "new", "sent")
                /\ \A q \in 1..(r - 1) : stage[q] # "new"
                /\ taskOf' = [taskOf EXCEPT ![r] = t]
                /\ UNCHANGED <<active, registry, printed>>

(* dispatchTask: the start is in the log.                                  *)
Started(r, t) == /\ Submit(r, t)
                 /\ log' = Append(log, [type |-> "start", run |-> r])
                 /\ fouled' = IF \E q \in RunsOf(t) : stage[q] # "over"
                              THEN fouled \cup {t} ELSE fouled

(* checkRetries submits without it.                                        *)
Retried(r, t) == /\ Submit(r, t)
                 /\ \E q \in RunsOf(t) : stage[q] = "over"
                 /\ fouled' = fouled \cup {t}
                 /\ UNCHANGED log

Dispatch(r) == /\ \E t \in Tasks : Started(r, t) \/ Retried(r, t)
               /\ UNCHANGED <<calls, ui>>

Activate(r) == /\ Moves(r, "sent", "active")
               /\ active' = [active EXCEPT ![taskOf[r]] = r]
               /\ UNCHANGED <<taskOf, registry, printed, log, fouled, calls, ui>>

(* LiveOutputRegistry.Register, OutputBuffer.Append with the log's line,   *)
(* and Deregister: the task's buffer goes, whichever run's it is.          *)
Register(r) == /\ Moves(r, "active", "live")
               /\ registry' = [registry EXCEPT ![taskOf[r]] = r]
               /\ UNCHANGED <<taskOf, active, printed, log, fouled, calls, ui>>

PrintLine(r) == /\ stage[r] = "live" /\ r \notin printed
                /\ printed' = printed \cup {r}
                /\ log' = Append(log, [type |-> "line", run |-> r])
                /\ UNCHANGED <<stage, taskOf, active, registry, fouled, calls, ui>>

(* Slip: the buffer is left in the registry.                               *)
KeepBuffer(r) == /\ Moves(r, "live", "closed")
                 /\ UNCHANGED <<taskOf, active, registry, printed, log, fouled>>
                 /\ UNCHANGED <<calls, ui>>

Deregister(r) == /\ Moves(r, "live", "closed")
                 /\ registry' = [registry EXCEPT ![taskOf[r]] = NoRun]
                 /\ UNCHANGED <<taskOf, active, printed, log, fouled, calls, ui>>

Deactivate(r) == /\ Moves(r, "closed", "over")
                 /\ active' = [active EXCEPT ![taskOf[r]] = NoRun]
                 /\ UNCHANGED <<taskOf, registry, printed, log, fouled, calls, ui>>

RunStep(r) == Activate(r) \/ Register(r) \/ PrintLine(r) \/ Deregister(r) \/ Deactivate(r)

-----------------------------------------------------------------------------
(* handleConnection.  ForceRunTask; a reload may have removed the task.    *)
AnswerRun(c) == /\ c \in Asked("run")
                /\ \/ \E r \in Runs : Started(r, c.task)
                   \/ UNCHANGED runs
                /\ Ends(c)
                /\ UNCHANGED ui

Lines(kind, t, lines, running) ==
  [kind |-> kind, at |-> "answered", task |-> t, lines |-> lines, running |-> running]

(* Slip: the lookup's second result is not tested.                         *)
AnswerUnchecked(c) == /\ c \in Asked("output")
                      /\ Replace(c, Lines("output", c.task, {registry[c.task]}, TRUE))
                      /\ UNCHANGED <<runs, ui>>

(* The lines of the task's buffer, and whether it has one.                 *)
AnswerOutput(c) == /\ c \in Asked("output")
                   /\ Replace(c, Lines("output", c.task, {registry[c.task]} \cap printed,
                                       registry[c.task] # NoRun))
                   /\ UNCHANGED <<runs, ui>>

(* FetchJobOutput reads answers of 64 KB at most; a longer one is an error *)
(* and changes nothing on the screen.                                      *)
OutputTooLong(c) == /\ c \in Asked("output")
                    /\ registry[c.task] \in printed
                    /\ calls' = calls \ {c}
                    /\ UNCHANGED <<runs, ui>>

(* The entries of a task's runs, as positions in the file.                 *)
Entries(t) == {i \in DOMAIN log : taskOf[log[i].run] = t}

(* Slip: every run of the task, not the last.                              *)
WholeLog(entries) == entries

(* filterLastRun: from the last start on; all when there is none.          *)
FilterLastRun(entries) ==
  {i \in entries : \A k \in entries : log[k].type = "start" => k <= i}

ReadTaskOutput(t) ==
  {log[i].run : i \in {k \in FilterLastRun(Entries(t)) : log[k].type = "line"}}

AnswerLogs(c) == /\ c \in Asked("logs")
                 /\ Replace(c, Lines("logs", c.task, ReadTaskOutput(c.task),
                                     active[c.task] # NoRun))
                 /\ UNCHANGED <<runs, ui>>

AnswerLines(c) == AnswerOutput(c) \/ OutputTooLong(c) \/ AnswerLogs(c)

-----------------------------------------------------------------------------
(* Update, the messages.  A status comes every second and after every run  *)
(* and toggle: it lists the active tasks and the recent runs.              *)
Snapshot == [active |-> {t \in Tasks : active[t] # NoRun},
             recent |-> {taskOf[r] : r \in {q \in Runs : stage[q] = "over"}}]

TakeStatus == /\ status' = Snapshot
              /\ UNCHANGED <<runs, calls, mode, view, crossed>>

(* The answer is taken for the view that is open now.                      *)
TakeLines == /\ \E c \in calls : /\ c.at = "answered"
                                 /\ view' = IF mode # "live" THEN view
                                            ELSE [view EXCEPT !.lines = c.lines,
                                                              !.running = c.running]
                                 /\ Ends(c)
             /\ UNCHANGED <<runs, mode, status, crossed>>

(* A request that ends in an error changes nothing but what is flashed.    *)
TakeError(c) == Ends(c) /\ UNCHANGED <<runs, ui>>

Polls == mode = "live" /\ view.running

Tick == /\ Polls
        /\ Room({OutputCall(view.task)})
        /\ calls' = calls \cup {OutputCall(view.task)}
        /\ UNCHANGED <<runs, ui>>

-----------------------------------------------------------------------------
(* Update, the keys.                                                       *)
Awaited(t) == \E c \in calls : c.kind \in ShowsLines /\ c.task # t

OpenView(t, call, running) == /\ Room({call}) /\ calls' = calls \cup {call}
                              /\ view' = [task |-> t, lines |-> {}, running |-> running]
                              /\ crossed' = Awaited(t)
                              /\ mode' = "live"
                              /\ UNCHANGED status

OpenOutput(t) == OpenView(t, OutputCall(t), TRUE)
OpenLogs(t) == OpenView(t, LogsCall(t), FALSE)

Quiet == UNCHANGED <<calls, status, view, crossed>>

KeyInView ==
  /\ mode = "view"
  /\ \/ status # <<>> /\ mode' = "run" /\ Quiet
     \/ /\ status # <<>>
        /\ \/ Cardinality(status.active) = 1 /\ \E t \in status.active : OpenOutput(t)
           \/ Cardinality(status.active) > 1 /\ mode' = "select active" /\ Quiet
           \/ Cardinality(status.recent) = 1 /\ \E t \in status.recent : OpenLogs(t)
           \/ Cardinality(status.recent) > 1 /\ mode' = "select recent" /\ Quiet

(* Enter takes the row of the list as it is now.                           *)
KeyInSelect ==
  \/ mode = "select active" /\ \E t \in status.active : OpenOutput(t)
  \/ mode = "select recent" /\ \E t \in status.recent : OpenLogs(t)
  \/ mode = "run" /\ \E t \in Tasks : /\ Room({RunCall(t)}) /\ calls' = calls \cup {RunCall(t)}
                                      /\ mode' = "view"
                                      /\ UNCHANGED <<status, view, crossed>>

Escape == /\ mode # "view"
          /\ mode' = "view" /\ view' = NoView /\ crossed' = FALSE
          /\ UNCHANGED <<calls, status>>

(* q, and a new UI: the server still carries out what it was asked to do.  *)
Restart == /\ mode = "view" /\ status # <<>>
           /\ status' = <<>>
           /\ calls' = {c \in calls : c.kind \notin ShowsLines}
           /\ UNCHANGED <<mode, view, crossed>>

Key == (KeyInView \/ KeyInSelect \/ Escape \/ Restart) /\ UNCHANGED runs

-----------------------------------------------------------------------------
Next == \/ \E r \in Runs : Dispatch(r) \/ RunStep(r)
        \/ \E c \in calls : AnswerLines(c) \/ AnswerRun(c) \/ TakeError(c)
        \/ TakeStatus \/ TakeLines \/ Tick
        \/ Key

Spec == Init /\ [][Next]_vars

(* Runs end and the UI ticks; requests end; of the requests for lines that *)
(* are made again and again some are answered, and the answers delivered.  *)
(* Nobody has to press a key.                                              *)
Fairness == /\ \A r \in Runs : WF_vars(RunStep(r))
            /\ WF_vars(\E c \in calls : AnswerRun(c))
            /\ SF_vars(\E c \in calls : AnswerLines(c))
            /\ SF_vars(TakeLines)
            /\ WF_vars(Tick)

FairSpec == Spec /\ Fairness

-----------------------------------------------------------------------------
(* Types.  Only the view asks for lines, so that at most MaxCalls requests *)
(* are under way.                                                          *)
Entry == [type : {"start", "line"}, run : Runs]

TypeOK == /\ stage \in [Runs -> {"new", "sent", "active", "live", "closed", "over"}]
          /\ \A r \in Runs : taskOf[r] \in IF stage[r] = "new" THEN {NoTask} ELSE Tasks
          /\ {active, registry} \subseteq [Tasks -> Runs \cup {NoRun}]
          /\ printed \subseteq Runs
          /\ log \in Seq(Entry)
          /\ fouled \subseteq Tasks
          /\ crossed \in BOOLEAN
          /\ Cardinality(calls) <= MaxCalls
          /\ mode \in {"view", "run", "select active", "select recent", "live"}
          /\ view \in [task : Tasks \cup {NoTask}, lines : SUBSET Runs, running : BOOLEAN]
          /\ mode \in {"run", "select active", "select recent"} => status # <<>>
          /\ mode = "live" <=> view.task \in Tasks

(* What the live view shows was printed by the task it names, and by one   *)
(* run of it, whatever else is under way.  Three things the code does not  *)
(* guard against are excepted: an answer for another task was still due    *)
(* when the view was opened, runs of the task overlapped, and retries,     *)
(* whose start is not in the log.                                          *)
ShownLinesBelong ==
  mode = "live" /\ ~crossed =>
    /\ \A r \in view.lines : taskOf[r] = view.task
    /\ view.task \in fouled \/ Cardinality(view.lines) <= 1

(* A view that follows a run learns that the run is over and stops asking, *)
(* unless it is left.                                                      *)
FollowEnds ==
  mode = "live" /\ view.running ~> mode # "live" \/ ~view.running
=================================================================================

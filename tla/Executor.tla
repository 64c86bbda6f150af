-------------------------------- MODULE Executor --------------------------------
(***************************************************************************)
(* One call of ClaudeExecutor.Run (src/executor.go): the child process,    *)
(* the descendant it may leave behind, the pipe of its standard output,    *)
(* and the four goroutines that meet over them: Run itself, the one that   *)
(* streams the output, the one in cmd.Wait, and the watcher that           *)
(* exec.CommandContext starts.                                             *)
(*                                                                         *)
(* os/exec and the kernel are modelled from how Run uses them.  WaitDelay  *)
(* is not set, so cmd.Wait waits without limit until nobody holds the      *)
(* standard error, and it closes the pipe of the standard output whether   *)
(* or not the stream has been read to its end.                             *)
(***************************************************************************)
EXTENDS Naturals, Sequences

CONSTANT PipeCap      \* lines the pipe of the standard output holds

ASSUME PipeCapAssumption == PipeCap \in Nat \ {0}

VARIABLES
  run,      \* Run: "idle", "select", "drain", "grace", "reap", "stop", "returned"
  ctx,      \* the job's context: "live", "expired", "cancelled"
  leader,   \* the process: "unborn", "up", "zero", "nonzero", "killed"
  child,    \* its descendant
  termed,   \* the processes that were sent SIGTERM
  pipe,     \* the lines in the pipe, oldest first
  pipeOpen, \* the reading end is open
  stream,   \* the streaming goroutine: "off", "on", "eof", "huge", "closed"
  said,     \* the last result event the process printed
  seen,     \* the last result event among the lines streamed
  watch,    \* CommandContext's watcher: "off", "armed", "killed", "late", "done"
  waiter,   \* cmd.Wait: "off", "process", "watcher", "stderr", "done"
  waitErr,  \* what cmd.Wait returns: "nil", "exit", "ctx"
  status    \* result.Status, "none" before there is one

vars == <<run, ctx, leader, child, termed, pipe, pipeOpen, stream, said, seen,
          watch, waiter, waitErr, status>>

procs == <<leader, child, termed>>
output == <<pipe, pipeOpen, stream, said, seen>>
waits == <<watch, waiter, waitErr>>

-----------------------------------------------------------------------------
(* A line is a result event (its text starts with TASK_FAILED: or not),    *)
(* longer than the megabyte the scanner accepts, or anything else.         *)
Verdicts == {"fine", "TASK_FAILED"}
Lines == Verdicts \cup {"text", "huge"}

(* A descendant is in the process group or has left it (setsid), dies of   *)
(* SIGTERM or not, and holds the pipes it has not redirected.              *)
Descendants == [life : {"up"}, group : BOOLEAN, heeds : BOOLEAN,
                holds : SUBSET {"stdout", "stderr"}]
NoChild(life) == [life |-> life, group |-> FALSE, heeds |-> FALSE, holds |-> {}]
Gone == NoChild("gone")

ChildUp == child.life = "up"
ChildHolds(fd) == ChildUp /\ fd \in child.holds

LeaderDead == leader \in {"zero", "nonzero", "killed"}
KillLeader == IF leader = "up" THEN "killed" ELSE leader

(* kill(-pid, SIGKILL)                                                     *)
KillGroup == /\ leader' = KillLeader
             /\ child' = IF ChildUp /\ child.group THEN Gone ELSE child

-----------------------------------------------------------------------------
Init == /\ run = "idle" /\ ctx = "live" /\ status = "none"
        /\ leader = "unborn" /\ child = NoChild("none") /\ termed = {}
        /\ pipe = <<>> /\ pipeOpen = TRUE /\ stream = "off"
        /\ said = "none" /\ seen = "none"
        /\ watch = "off" /\ waiter = "off" /\ waitErr = "nil"

Start == /\ run = "idle" /\ ctx = "live"
         /\ run' = "select"
         /\ leader' = "up" /\ stream' = "on" /\ watch' = "armed" /\ waiter' = "process"
         /\ UNCHANGED <<ctx, child, termed, pipe, pipeOpen, said, seen, waitErr, status>>

(* The pipe or the process cannot be made, the context has ended already,  *)
(* or there is no such binary, which no retry will mend: that is found     *)
(* before the context is looked at, and told whether it has ended or not.  *)
StartFails == /\ run = "idle"
              /\ run' = "returned"
              /\ status' \in {"failed", "fatal"}
              /\ UNCHANGED <<ctx, procs, output, waits>>

(* The job's deadline, or the shutdown of the pool.                        *)
Expire == /\ ctx = "live" /\ ctx' = "expired"
          /\ UNCHANGED <<run, procs, output, waits, status>>

Cancel == /\ ctx = "live" /\ ctx' = "cancelled"
          /\ UNCHANGED <<run, procs, output, waits, status>>

-----------------------------------------------------------------------------
(* The process and its descendant.  Writing blocks while the pipe is full. *)
Write(line) == /\ leader = "up" \/ (ChildHolds("stdout") /\ line = "text")
               /\ pipeOpen
               /\ Len(pipe) < PipeCap
               /\ pipe' = Append(pipe, line)
               /\ said' = IF line \in Verdicts THEN line ELSE said
               /\ UNCHANGED <<run, ctx, procs, pipeOpen, stream, seen, waits, status>>

Spawn(c) == /\ leader = "up" /\ child.life = "none"
            /\ child' = c
            /\ UNCHANGED <<run, ctx, leader, termed, output, waits, status>>

(* It ends by itself, well or badly, or dies of the SIGTERM.               *)
LeaderEnds == /\ leader = "up"
              /\ \/ leader' \in {"zero", "nonzero"}
                 \/ leader' = "killed" /\ "leader" \in termed
              /\ UNCHANGED <<run, ctx, child, termed, output, waits, status>>

ChildEnds == /\ ChildUp
             /\ child' = Gone
             /\ UNCHANGED <<run, ctx, leader, termed, output, waits, status>>

ChildHeedsTerm == /\ ChildUp /\ child.heeds /\ "child" \in termed
                  /\ child' = Gone
                  /\ UNCHANGED <<run, ctx, leader, termed, output, waits, status>>

-----------------------------------------------------------------------------
(* Slip: the first result event counts.                                    *)
FirstVerdict(before, line) ==
  IF line \in Verdicts /\ before = "none" THEN line ELSE before

(* parseRunSummary: a result event's text replaces that of the one before. *)
Verdict(before, line) == IF line \in Verdicts THEN line ELSE before

(* Stream takes a line; one that is too long ends the scan, and nobody     *)
(* empties the pipe any more.                                              *)
Scan == /\ stream = "on" /\ pipeOpen
        /\ pipe # <<>>
        /\ pipe' = Tail(pipe)
        /\ stream' = IF Head(pipe) = "huge" THEN "huge" ELSE "on"
        /\ seen' = Verdict(seen, Head(pipe))
        /\ UNCHANGED <<run, ctx, procs, pipeOpen, said, waits, status>>

ScanEnds == /\ stream = "on"
            /\ \/ ~pipeOpen /\ stream' = "closed"
               \/ /\ pipeOpen /\ pipe = <<>> /\ LeaderDead /\ ~ChildHolds("stdout")
                  /\ stream' = "eof"
            /\ UNCHANGED <<run, ctx, procs, pipe, pipeOpen, said, seen, waits, status>>

-----------------------------------------------------------------------------
(* CommandContext: SIGKILL to the process, alone and at once, when the     *)
(* context ends.  A process that has been waited for is found done.        *)
WatchFires == /\ watch = "armed" /\ ctx # "live"
              /\ IF waiter = "process"
                 THEN watch' = "killed" /\ leader' = KillLeader
                 ELSE watch' = "late" /\ UNCHANGED leader
              /\ UNCHANGED <<run, ctx, child, termed, output, waiter, waitErr, status>>

(* Slip: the exit status is dropped.                                       *)
WaitProcessBlind == /\ waiter = "process" /\ LeaderDead
                    /\ waiter' = "watcher"
                    /\ UNCHANGED <<run, ctx, procs, output, watch, waitErr, status>>

(* cmd.Wait: the process, then the watcher, then the end of the standard   *)
(* error; it closes the pipe and its result is in doneCh.                  *)
WaitProcess == /\ waiter = "process" /\ LeaderDead
               /\ waiter' = "watcher"
               /\ waitErr' = IF leader = "zero" THEN "nil" ELSE "exit"
               /\ UNCHANGED <<run, ctx, procs, output, watch, status>>

WaitWatcher == /\ waiter = "watcher" /\ watch \in {"armed", "killed", "late"}
               /\ waiter' = "stderr"
               /\ watch' = "done"
               /\ waitErr' = IF watch = "killed" /\ waitErr = "nil" THEN "ctx" ELSE waitErr
               /\ UNCHANGED <<run, ctx, procs, output, status>>

WaitStderr == /\ waiter = "stderr" /\ ~ChildHolds("stderr")
              /\ waiter' = "done"
              /\ pipeOpen' = FALSE
              /\ UNCHANGED <<run, ctx, procs, pipe, stream, said, seen, watch, waitErr, status>>

-----------------------------------------------------------------------------
(* Run's select: the process is done, or the context is; either when both. *)
TakeDone == /\ run = "select" /\ waiter = "done"
            /\ run' = "drain"
            /\ UNCHANGED <<ctx, procs, output, waits, status>>

(* SIGTERM to the group, and ten seconds for it.                           *)
TakeCtx == /\ run = "select" /\ ctx # "live"
           /\ run' = "grace"
           /\ termed' = {p \in {"leader", "child"} :
                           IF p = "leader" THEN leader = "up" ELSE ChildUp /\ child.group}
           /\ UNCHANGED <<ctx, leader, child, output, waits, status>>

(* Slip: SIGKILL for the process alone.                                    *)
GraceKillsLeader == /\ run = "grace"
                    /\ run' = "reap"
                    /\ leader' = KillLeader
                    /\ UNCHANGED <<ctx, child, termed, output, waits, status>>

GraceOver == /\ run = "grace"
             /\ run' = "reap"
             /\ KillGroup
             /\ UNCHANGED <<ctx, termed, output, waits, status>>

Reaped == /\ run \in {"grace", "reap"} /\ waiter = "done"
          /\ run' = "stop"
          /\ UNCHANGED <<ctx, procs, output, waits, status>>

StreamDone == stream \in {"eof", "huge", "closed"}

(* <-streamDone, then the result.                                          *)
ReturnExited == /\ run = "drain" /\ StreamDone
                /\ run' = "returned"
                /\ status' = IF waitErr = "nil" /\ seen # "TASK_FAILED"
                             THEN "success" ELSE "failed"
                /\ UNCHANGED <<ctx, procs, output, waits>>

(* Slips: the buffer is read while it is being filled; a cancelled run is  *)
(* given no status.                                                        *)
ReturnEarly == /\ run = "stop"
               /\ run' = "returned"
               /\ status' = IF ctx = "expired" THEN "timeout" ELSE "failed"
               /\ UNCHANGED <<ctx, procs, output, waits>>

ReturnNoStatus == /\ run = "stop" /\ StreamDone
                  /\ run' = "returned"
                  /\ status' = IF ctx = "expired" THEN "timeout" ELSE "none"
                  /\ UNCHANGED <<ctx, procs, output, waits>>

ReturnStopped == /\ run = "stop" /\ StreamDone
                 /\ run' = "returned"
                 /\ status' = IF ctx = "expired" THEN "timeout" ELSE "failed"
                 /\ UNCHANGED <<ctx, procs, output, waits>>

-----------------------------------------------------------------------------
Processes == \/ \E line \in Lines : Write(line)
             \/ \E c \in Descendants : Spawn(c)
             \/ LeaderEnds \/ ChildEnds \/ ChildHeedsTerm

Goroutines == \/ Scan \/ ScanEnds
              \/ WatchFires \/ WaitProcess \/ WaitWatcher \/ WaitStderr
              \/ TakeDone \/ TakeCtx \/ GraceOver \/ Reaped
              \/ ReturnExited \/ ReturnStopped

Next == Start \/ StartFails \/ Expire \/ Cancel \/ Processes \/ Goroutines

Spec == Init /\ [][Next]_vars

(* Go runs every goroutine that can run, the deadline of the job comes     *)
(* (60 minutes when none is configured, worker.go), and a process that     *)
(* heeds SIGTERM dies of it.  Nothing else is assumed of the processes:    *)
(* claude may hang for ever, and so may what it started.                   *)
Fairness == /\ WF_vars(Expire)
            /\ WF_vars(ChildHeedsTerm)
            /\ WF_vars(Scan \/ ScanEnds)
            /\ WF_vars(WatchFires)
            /\ WF_vars(WaitProcess \/ WaitWatcher \/ WaitStderr)
            /\ WF_vars(TakeDone \/ TakeCtx)
            /\ WF_vars(GraceOver \/ Reaped)
            /\ WF_vars(ReturnExited \/ ReturnStopped)

FairSpec == Spec /\ Fairness

-----------------------------------------------------------------------------
(* Types.  A run has a status when it has returned, and not before.        *)
TypeOK == /\ run \in {"idle", "select", "drain", "grace", "reap", "stop", "returned"}
          /\ ctx \in {"live", "expired", "cancelled"}
          /\ leader \in {"unborn", "up", "zero", "nonzero", "killed"}
          /\ child \in Descendants \cup {NoChild("none"), Gone}
          /\ termed \in SUBSET {"leader", "child"}
          /\ pipe \in Seq(Lines) /\ Len(pipe) <= PipeCap
          /\ pipeOpen \in BOOLEAN
          /\ stream \in {"off", "on", "eof", "huge", "closed"}
          /\ {said, seen} \subseteq Verdicts \cup {"none"}
          /\ watch \in {"off", "armed", "killed", "late", "done"}
          /\ waiter \in {"off", "process", "watcher", "stderr", "done"}
          /\ waitErr \in {"nil", "exit", "ctx"}
          /\ status \in {"none", "success", "failed", "fatal", "timeout"}
          /\ status = "none" <=> run # "returned"

(* The status tells what became of the process, however its end, the       *)
(* context's and the two kills interleave: success is an exit with 0 that  *)
(* nobody forced, timeout only the deadline, fatal a process that never    *)
(* was; a process that failed or was killed is never a success.  The       *)
(* scheduler retries, cascades and gives up on this word.                  *)
StatusTellsWhy ==
  /\ status = "success" => leader = "zero" /\ waitErr = "nil"
  /\ status = "timeout" => ctx = "expired" /\ leader # "unborn"
  /\ status = "fatal" => leader = "unborn"
  /\ status # "none" /\ leader = "unborn" => status \in {"failed", "fatal"}
  /\ leader = "killed" => ctx # "live"

(* When Run returns its texts are final: the streaming goroutine appends   *)
(* no more to the output, and nobody is left who could write to the        *)
(* standard error, a descendant that survives the run included.            *)
ResultIsFinal == run = "returned" => stream # "on" /\ ~ChildHolds("stderr")

(* What executor.go:220 wants: a run whose last result event says          *)
(* TASK_FAILED is not a success, although the process ended with 0.  It    *)
(* holds when the stream was read to its end ("ensure all stdout is        *)
(* consumed", executor.go:215), and that is a race: cmd.Wait closes the    *)
(* pipe once the process is gone, and what is still in it is lost, as is   *)
(* everything after a line that is too long.                               *)
FailureSeen == status = "success" /\ said = "TASK_FAILED" => stream # "eof"

(* Every run returns, by the deadline and what follows it, even when the   *)
(* process hangs, its output has blocked it, or a descendant ignores       *)
(* SIGTERM: unless a descendant that left the process group holds the      *)
(* standard error, and with it the slot of the pool.                       *)
OutOfReach == ChildHolds("stderr") /\ ~child.group

RunReturns == run # "idle" ~> (run = "returned" \/ OutOfReach)
=================================================================================

------------------------------- MODULE WorkerPool -------------------------------
(***************************************************************************)
(* The worker pool (src/worker.go): one goroutine per submitted job, a     *)
(* semaphore of Slots tokens, the map of active jobs keyed by TASK id, the *)
(* bounded results channel, the WaitGroup, and Shutdown.  The pool's one   *)
(* reader, the scheduler loop (src/scheduler.go), and the order in which   *)
(* the daemon stops them (src/main.go) close the model.                    *)
(*                                                                         *)
(* A goroutine is a program counter; one action is one step another        *)
(* goroutine can observe: a channel operation, a critical section, a       *)
(* WaitGroup operation.  What executor.Run does is left to its own module: *)
(* here it returns, some time after the job became active.                 *)
(***************************************************************************)
EXTENDS Integers, Sequences, FiniteSets

CONSTANTS Jobs,        \* the jobs that may be submitted, each once
          Tasks,       \* task ids
          TaskOf,      \* the task a job executes
          Slots,       \* worker_slots: capacity of the semaphore
          ResultsCap,  \* capacity of the results channel (100 in the code)
          NoJob        \* "no entry in the active map"

ASSUME JobsAssumption == IsFiniteSet(Jobs) /\ NoJob \notin Jobs
ASSUME TaskOfAssumption == TaskOf \in [Jobs -> Tasks]
ASSUME SlotsAssumption == Slots \in Nat \ {0}
ASSUME ResultsCapAssumption == ResultsCap \in Nat \ {0}

VARIABLES
  pc,       \* pc[j]: where job j's goroutine is
  sem,      \* tokens taken from the semaphore
  active,   \* active[t]: the job the map holds for task t, or NoJob
  results,  \* the results channel, oldest first
  wg,       \* the WaitGroup's counter
  handled,  \* handled[j]: how many results of j the scheduler has handled
  loop,     \* the scheduler's loop: "reading" or "stopped"
  phase,    \* the daemon: "up", "signalled", "cancelled" or "returned"
  overlapped \* history, read by no action: the jobs that were between Track
             \* and Untrack while another job of their task was

vars == <<pc, sem, active, results, wg, handled, loop, phase, overlapped>>

-----------------------------------------------------------------------------
(* Where a goroutine can be.                                               *)

Holding == {"admitted", "running", "ran", "sending", "releasing"}
Tracked == {"running", "ran"}
Answered == {"releasing", "exiting", "gone"}
Dormant == {"unborn", "gone"}
Places == {"waiting", "refusing"} \cup Holding \cup Answered \cup Dormant

Holders == {j \in Jobs : pc[j] \in Holding}
Live == {j \in Jobs : pc[j] \in Places \ Dormant}
InChannel == {results[i].job : i \in DOMAIN results}

(* The jobs that overlap once j is tracked: j and those of its task that   *)
(* are tracked already, or none if it has the task to itself.              *)
Rivals(j) == {k \in Jobs \ {j} : TaskOf[k] = TaskOf[j] /\ pc[k] \in Tracked}
Beside(j) == IF Rivals(j) = {} THEN {} ELSE Rivals(j) \cup {j}

Moves(j, from, to) == /\ pc[j] = from
                      /\ pc' = [pc EXCEPT ![j] = to]

-----------------------------------------------------------------------------
(* NewWorkerPool.                                                          *)
Init == /\ pc = [j \in Jobs |-> "unborn"]
        /\ sem = 0
        /\ active = [t \in Tasks |-> NoJob]
        /\ results = <<>>
        /\ wg = 0
        /\ handled = [j \in Jobs |-> 0]
        /\ loop = "reading"
        /\ phase = "up"
        /\ overlapped = {}

(* Slip: the goroutine counts itself, once it runs.                        *)
SubmitUncounted(j) == /\ phase # "returned"
                      /\ Moves(j, "unborn", "waiting")
                      /\ UNCHANGED <<sem, active, results, wg, handled, loop, phase, overlapped>>

(* Submit: count the goroutine and start it.  Nothing refuses a job once   *)
(* the pool is being shut down: a tick or a socket handler still under way *)
(* submits until the process is gone.                                      *)
Submit(j) == /\ phase # "returned"
             /\ Moves(j, "unborn", "waiting")
             /\ wg' = wg + 1
             /\ UNCHANGED <<sem, active, results, handled, loop, phase, overlapped>>

(* Slip: a semaphore with one token too many.                              *)
AcquireOneMore(j) == /\ sem <= Slots
                     /\ Moves(j, "waiting", "admitted")
                     /\ sem' = sem + 1
                     /\ UNCHANGED <<active, results, wg, handled, loop, phase, overlapped>>

(* The select: a free slot, or the cancelled pool context.  When both are  *)
(* ready Go picks either.                                                  *)
Acquire(j) == /\ sem < Slots
              /\ Moves(j, "waiting", "admitted")
              /\ sem' = sem + 1
              /\ UNCHANGED <<active, results, wg, handled, loop, phase, overlapped>>

(* Slips: a job is refused when no slot is free, as a select with a        *)
(* default would; a refused job clears its task, as a defer set up before  *)
(* the select would.                                                       *)
RefuseWhenFull(j) == /\ sem = Slots
                     /\ Moves(j, "waiting", "refusing")
                     /\ UNCHANGED <<sem, active, results, wg, handled, loop, phase, overlapped>>

RefuseUntracks(j) == /\ phase \in {"cancelled", "returned"}
                     /\ Moves(j, "waiting", "refusing")
                     /\ active' = [active EXCEPT ![TaskOf[j]] = NoJob]
                     /\ UNCHANGED <<sem, results, wg, handled, loop, phase, overlapped>>

Refuse(j) == /\ phase \in {"cancelled", "returned"}
             /\ Moves(j, "waiting", "refusing")
             /\ UNCHANGED <<sem, active, results, wg, handled, loop, phase, overlapped>>

(* Sending blocks while the channel is full.                               *)
Send(j, status) == /\ Len(results) < ResultsCap
                   /\ results' = Append(results, [job |-> j, status |-> status])

(* Slips: a refused job gives back the slot it never had; it is dropped    *)
(* without an answer.                                                      *)
SendRefusalReleases(j) == /\ Moves(j, "refusing", "exiting")
                          /\ Send(j, "refused")
                          /\ sem' = sem - 1
                          /\ UNCHANGED <<active, wg, handled, loop, phase, overlapped>>

DropRefused(j) == /\ Moves(j, "refusing", "exiting")
                  /\ UNCHANGED <<sem, active, results, wg, handled, loop, phase, overlapped>>

SendRefusal(j) == /\ Moves(j, "refusing", "exiting")
                  /\ Send(j, "refused")
                  /\ UNCHANGED <<sem, active, wg, handled, loop, phase, overlapped>>

(* The job becomes the active one of its task, whatever was there before.  *)
(* If its task had others there, it and they have overlapped from now on.  *)
Track(j) == /\ Moves(j, "admitted", "running")
            /\ active' = [active EXCEPT ![TaskOf[j]] = j]
            /\ overlapped' = overlapped \cup Beside(j)
            /\ UNCHANGED <<sem, results, wg, handled, loop, phase>>

(* executor.Run returns: on its own, at the job's deadline, or cancelled.  *)
RunReturns(j) == /\ Moves(j, "running", "ran")
                 /\ UNCHANGED <<sem, active, results, wg, handled, loop, phase, overlapped>>

(* Slip: the entry of a finished job is left in the map.                   *)
UntrackNothing(j) == /\ Moves(j, "ran", "sending")
                     /\ UNCHANGED <<sem, active, results, wg, handled, loop, phase, overlapped>>

(* delete(active, task id): the entry goes, whichever job it is for.       *)
Untrack(j) == /\ Moves(j, "ran", "sending")
              /\ active' = [active EXCEPT ![TaskOf[j]] = NoJob]
              /\ UNCHANGED <<sem, results, wg, handled, loop, phase, overlapped>>

SendResult(j) == /\ Moves(j, "sending", "releasing")
                 /\ Send(j, "ran")
                 /\ UNCHANGED <<sem, active, wg, handled, loop, phase, overlapped>>

(* Slips: the slot is not given back; the WaitGroup is not told.           *)
KeepSlot(j) == /\ Moves(j, "releasing", "exiting")
               /\ UNCHANGED <<sem, active, results, wg, handled, loop, phase, overlapped>>

ExitUncounted(j) == /\ Moves(j, "exiting", "gone")
                    /\ UNCHANGED <<sem, active, results, wg, handled, loop, phase, overlapped>>

(* The deferred calls, last deferred first: the slot, then the WaitGroup.  *)
Release(j) == /\ Moves(j, "releasing", "exiting")
              /\ sem' = sem - 1
              /\ UNCHANGED <<active, results, wg, handled, loop, phase, overlapped>>

Exit(j) == /\ Moves(j, "exiting", "gone")
           /\ wg' = wg - 1
           /\ UNCHANGED <<sem, active, results, handled, loop, phase, overlapped>>

Goroutine(j) == \/ Acquire(j) \/ Refuse(j) \/ SendRefusal(j)
                \/ Track(j) \/ RunReturns(j) \/ Untrack(j)
                \/ SendResult(j) \/ Release(j) \/ Exit(j)

-----------------------------------------------------------------------------
(* The scheduler's loop takes one result at a time.  Once its context is   *)
(* cancelled its select may take another result or leave for good.         *)
Receive == /\ loop = "reading"
           /\ results # <<>>
           /\ results' = Tail(results)
           /\ handled' = [handled EXCEPT ![Head(results).job] = @ + 1]
           /\ UNCHANGED <<pc, sem, active, wg, loop, phase, overlapped>>

StopLoop == /\ loop = "reading"
            /\ phase # "up"
            /\ loop' = "stopped"
            /\ UNCHANGED <<pc, sem, active, results, wg, handled, phase, overlapped>>

(* runDaemon after the signal: cancel the scheduler's context, then        *)
(* pool.Shutdown(): cancel the pool's, and wait for every goroutine.       *)
Signal == /\ phase = "up"
          /\ phase' = "signalled"
          /\ UNCHANGED <<pc, sem, active, results, wg, handled, loop, overlapped>>

CancelPool == /\ phase = "signalled"
              /\ phase' = "cancelled"
              /\ UNCHANGED <<pc, sem, active, results, wg, handled, loop, overlapped>>

(* Slip: Shutdown cancels and does not wait.                               *)
ReturnAtOnce == /\ phase = "cancelled"
                /\ phase' = "returned"
                /\ UNCHANGED <<pc, sem, active, results, wg, handled, loop, overlapped>>

WaitReturns == /\ phase = "cancelled"
               /\ wg = 0
               /\ phase' = "returned"
               /\ UNCHANGED <<pc, sem, active, results, wg, handled, loop, overlapped>>

-----------------------------------------------------------------------------
Next == \/ \E j \in Jobs : Submit(j) \/ Goroutine(j)
        \/ Receive \/ StopLoop
        \/ Signal \/ CancelPool \/ WaitReturns

Spec == Init /\ [][Next]_vars

(* Go runs every goroutine that can run, and wakes the goroutines blocked  *)
(* on a channel first come first served.  A run ends: its context has a    *)
(* deadline, 60 minutes at most when none is configured.  Nothing obliges  *)
(* anyone to submit a job or to stop the daemon.                           *)
Fairness == /\ \A j \in Jobs : WF_vars(Goroutine(j))
            /\ WF_vars(Receive)
            /\ WF_vars(StopLoop)
            /\ WF_vars(CancelPool)
            /\ WF_vars(WaitReturns)

FairSpec == Spec /\ Fairness

-----------------------------------------------------------------------------
(* Types.                                                                  *)
Results == [job : Jobs, status : {"ran", "refused"}]

TypeOK == /\ pc \in [Jobs -> Places]
          /\ sem \in 0..Slots
          /\ active \in [Tasks -> Jobs \cup {NoJob}]
          /\ results \in Seq(Results)
          /\ Len(results) <= ResultsCap
          /\ wg \in Nat
          /\ handled \in [Jobs -> Nat]
          /\ loop \in {"reading", "stopped"}
          /\ phase \in {"up", "signalled", "cancelled", "returned"}
          /\ overlapped \subseteq Jobs

(* Every token of the semaphore belongs to exactly one goroutine, on every *)
(* path through the goroutine: the one that is refused takes none and      *)
(* returns none, so no slot is ever lost or handed out twice.              *)
SlotAccounting == sem = Cardinality(Holders)

(* No more jobs execute at a time than worker_slots.                       *)
SlotBound == Cardinality({j \in Jobs : pc[j] = "running"}) <= Slots

(* The WaitGroup counts exactly the goroutines that have not finished.     *)
WaitGroupCounts == wg = Cardinality(Live)

(* Every job that reached the end of its goroutine has put one result in   *)
(* the channel, and the scheduler has handled it or will find it there:    *)
(* none is lost while the loop reads, none is delivered twice.             *)
OneResultPerJob ==
  /\ \A i, k \in DOMAIN results : results[i].job = results[k].job => i = k
  /\ \A j \in Jobs :
       /\ handled[j] <= 1
       /\ handled[j] = 1 => j \notin InChannel
       /\ pc[j] \in Answered <=> (handled[j] = 1 \/ j \in InChannel)

(* The active map never names a job that is over or has not started: what  *)
(* IsActive, ActiveJobs and the status page show is really running.        *)
NoStaleActive ==
  \A t \in Tasks : active[t] # NoJob =>
    pc[active[t]] \in Tracked /\ TaskOf[active[t]] = t

(* A running job that no other job of its task has overlapped is the one   *)
(* the active map shows, however many ran before it and ended and however  *)
(* many wait or are refused meanwhile: the tick's "already running" check  *)
(* sees it.                                                                *)
SoloJobIsActive ==
  \A j \in Jobs :
    pc[j] \in Tracked /\ j \notin overlapped => active[TaskOf[j]] = j

(* What worker.go:137 says of IsActive: "returns true if a job with the    *)
(* given task ID is currently running".                                    *)
IsActive(t) == active[t] # NoJob
IsActiveWhenRunning ==
  \A j \in Jobs : pc[j] = "running" => IsActive(TaskOf[j])

(* Shutdown returns only when every goroutine submitted before has ended,  *)
(* none of them still executing, holding a slot or about to send.          *)
ShutdownWaits ==
  [][phase # "returned" /\ phase' = "returned"
       => \A j \in Jobs : pc[j] \in Dormant]_vars

(* Once asked to, Shutdown does return, when the results channel has room  *)
(* for every answer still to come: the scheduler's loop may be gone, and a *)
(* goroutine that finds the channel full then waits for ever, which is why *)
(* the channel is made for 100.                                            *)
RoomForTheRest ==
  Len(results) + Cardinality({j \in Jobs : pc[j] \notin Answered}) <= ResultsCap

ShutdownReturns ==
  phase = "cancelled" /\ RoomForTheRest ~> phase = "returned"

(* A submitted job's result reaches the scheduler, unless the daemon is    *)
(* told to stop first: no job starves waiting for a slot or for room.      *)
EveryJobHandled ==
  \A j \in Jobs : pc[j] = "waiting" ~> (handled[j] = 1 \/ phase # "up")

-----------------------------------------------------------------------------
(* The pool as its caller sees it.  A job executes from the moment it has  *)
(* a slot to the moment its result is in the channel.                      *)
StageOf(p) == CASE p = "unborn" -> "new"
                [] p \in {"waiting", "refusing"} -> "queued"
                [] p \in Answered -> "answered"
                [] OTHER -> "executing"

Service == INSTANCE JobService
             WITH stage   <- [j \in Jobs |-> StageOf(pc[j])],
                  closing <- phase \in {"cancelled", "returned"},
                  closed  <- phase = "returned"

(* Every behaviour of the pool is one the abstract job service allows.     *)
ImplementsService == Service!SSpec
=================================================================================

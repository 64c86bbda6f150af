------------------------------ MODULE MCScheduler ------------------------------
(***************************************************************************)
(* Small daemons for TLC: a workflow "w" whose task "b" depends on "a",    *)
(* and a standalone task "s", under a few configs.                         *)
(***************************************************************************)
EXTENDS Scheduler

CONSTANT Firings     \* when the schedules of "w" and "s" fire

MCIds == {"w", "a", "b", "s"}

(* The schedule fires at the same instants in the daemon's zone and in UTC. *)
At(times) == [local |-> times, utc |-> times]

(* The workflow alone, with the global retry delay of 0.                   *)
Flow == [flow |-> [w \in {"w"} |-> {"a", "b"}],
         alone |-> {},
         parent |-> [t \in {"a", "b"} |-> IF t = "b" THEN "a" ELSE NoTask],
         needsNet |-> {},
         retries |-> [t \in {"a", "b"} |-> 1],
         delay |-> [t \in {"a", "b"} |-> Inherit],
         globalDelay |-> 0,
         sched |-> [i \in {"w"} |-> At(Firings)],
         catchup |-> {"w"}]

(* A standalone task and nothing else: its schedule, retries and delay.    *)
Single(firings, retries, delay) ==
  [flow |-> [w \in {} |-> {}],
   alone |-> {"s"},
   parent |-> [t \in {"s"} |-> NoTask],
   needsNet |-> {},
   retries |-> [t \in {"s"} |-> retries],
   delay |-> [t \in {"s"} |-> delay],
   globalDelay |-> 0,
   sched |-> [i \in {"s"} |-> At(firings)],
   catchup |-> {"s"}]

Alone == Single(Firings, 1, 1)
Later == Single({t + 1 : t \in Firings}, 0, Inherit)

Offline(c) == [c EXCEPT !.needsNet = TasksOf(c)]

(* The configs of the runs, given to TLC as values of Configs.             *)
NetBoth == {Offline(Flow), Offline(Alone)}
Edited == {Flow, Later}
Either == {Flow, Alone}
JustAlone == {Alone}
NoRetry == {Single(Firings, 0, Inherit)}
NetFlow == {Offline(Flow)}

(* Every item succeeded at the first instant; or there is no state file.   *)
Known == [i \in MCIds |-> [EmptyState EXCEPT !.lastSuccess = 0, !.status = "success"]]
WithHistory == {Known}
NoHistory == {[i \in MCIds |-> EmptyState]}
=================================================================================

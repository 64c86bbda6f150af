------------------------------ MODULE MCWorkerPool ------------------------------
(***************************************************************************)
(* Small worker pools for TLC: four jobs, the first two of the same task,  *)
(* so that a task can overlap itself.                                      *)
(***************************************************************************)
EXTENDS WorkerPool

CONSTANTS j1, j2, j3, j4, tA, tB, tC

MCTasks == {tA, tB, tC}
MCTaskOf == [j \in Jobs |-> CASE j \in {j1, j2} -> tA
                              [] j = j3 -> tB
                              [] OTHER -> tC]
=================================================================================

------------------------------- MODULE JobService -------------------------------
(***************************************************************************)
(* What the worker pool promises its caller, without goroutines, channels  *)
(* or locks: every accepted job is answered once, at most Slots jobs       *)
(* execute at a time, a job is turned away unexecuted only after the pool  *)
(* began to close, and closing ends only when nothing accepted is still    *)
(* unanswered.  WorkerPool implements it (see WorkerPool!Service).         *)
(***************************************************************************)
EXTENDS Naturals, FiniteSets

CONSTANTS Jobs,    \* the jobs a caller may hand in, each at most once
          Slots    \* how many may execute at a time

VARIABLES stage,    \* stage[j]: how far job j has come
          closing,  \* the pool has been asked to close
          closed    \* the pool has told its caller that it is closed

svars == <<stage, closing, closed>>

Executing == {j \in Jobs : stage[j] = "executing"}

SInit == /\ stage = [j \in Jobs |-> "new"]
         /\ closing = FALSE
         /\ closed = FALSE

Accept(j) == /\ stage[j] = "new"
             /\ ~closed
             /\ stage' = [stage EXCEPT ![j] = "queued"]
             /\ UNCHANGED <<closing, closed>>

Begin(j) == /\ stage[j] = "queued"
            /\ Cardinality(Executing) < Slots
            /\ stage' = [stage EXCEPT ![j] = "executing"]
            /\ UNCHANGED <<closing, closed>>

Answer(j) == /\ stage[j] = "executing"
             /\ stage' = [stage EXCEPT ![j] = "answered"]
             /\ UNCHANGED <<closing, closed>>

TurnAway(j) == /\ stage[j] = "queued"
               /\ closing
               /\ stage' = [stage EXCEPT ![j] = "answered"]
               /\ UNCHANGED <<closing, closed>>

Close == /\ ~closing
         /\ closing' = TRUE
         /\ UNCHANGED <<stage, closed>>

Closed == /\ closing
          /\ ~closed
          /\ \A j \in Jobs : stage[j] \in {"new", "answered"}
          /\ closed' = TRUE
          /\ UNCHANGED <<stage, closing>>

SNext == \/ \E j \in Jobs : Accept(j) \/ Begin(j) \/ Answer(j) \/ TurnAway(j)
         \/ Close
         \/ Closed

SSpec == SInit /\ [][SNext]_svars
=================================================================================

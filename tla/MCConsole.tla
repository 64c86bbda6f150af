-------------------------------- MODULE MCConsole --------------------------------
(***************************************************************************)
(* The console for TLC: two runs, of one task or of two.                   *)
(***************************************************************************)
EXTENDS Console

MCTasks == {"a", "b"}
==================================================================================

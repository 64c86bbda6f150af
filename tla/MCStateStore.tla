------------------------------ MODULE MCStateStore ------------------------------
(***************************************************************************)
(* A small state store for TLC: two writers and any first state file.      *)
(***************************************************************************)
EXTENDS StateStore

MCInitFiles == {Absent, Damaged, Whole({}, TRUE)}
=================================================================================

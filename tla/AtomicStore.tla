------------------------------- MODULE AtomicStore -------------------------------
(***************************************************************************)
(* What the state store promises, without files: updates are applied to a  *)
(* memory and now and then the WHOLE memory is persisted in one step; a    *)
(* crash loses the memory and recovery resumes from what was persisted     *)
(* last; a power cut may take the disk back to an earlier persisted state, *)
(* never to a mixture.  StateStore implements it (see StateStore!Store).   *)
(***************************************************************************)
EXTENDS Naturals

CONSTANT Updates     \* the updates there may be, each with its own name

VARIABLES
  serving,  \* the store has been loaded and answers
  mem,      \* the updates the memory reflects
  disk,     \* the updates the persisted state reflects
  past      \* the earlier persisted states a power cut may bring back

avars == <<serving, mem, disk, past>>

AInit == /\ serving = FALSE
         /\ mem = {}
         /\ disk = {}
         /\ past = {}

Recover == /\ ~serving
           /\ serving' = TRUE
           /\ mem' = disk
           /\ UNCHANGED <<disk, past>>

Apply(u) == /\ serving
            /\ u \notin mem
            /\ mem' = mem \cup {u}
            /\ UNCHANGED <<serving, disk, past>>

Persist == /\ serving
           /\ disk' = mem
           /\ past' = past \cup {disk}
           /\ UNCHANGED <<serving, mem>>

Settle == /\ past' = {}
          /\ UNCHANGED <<serving, mem, disk>>

Stop == /\ serving' = FALSE
        /\ mem' = {}
        /\ UNCHANGED <<disk, past>>

PowerCut == /\ serving' = FALSE
            /\ mem' = {}
            /\ disk' \in past \cup {disk}
            /\ past' = {}

ANext == \/ Recover \/ Persist \/ Settle \/ Stop \/ PowerCut
         \/ \E u \in Updates : Apply(u)

ASpec == AInit /\ [][ANext]_avars
=================================================================================

---------------------------- MODULE DurableStore ----------------------------
(***************************************************************************)
(* What the configuration store promises, whatever is stored: operations   *)
(* run one at a time; each either puts exactly what it made of the memory  *)
(* on disk or leaves the disk alone; nothing else ever writes the disk;    *)
(* and a start finds the memory to be what the disk holds.                 *)
(***************************************************************************)
CONSTANTS
  Values,   \* what memory and disk may hold
  Empty,    \* the memory of a process that found nothing on disk
  Missing   \* nothing on disk

VARIABLES
  memory,
  disk,
  up,       \* a process is running
  pending   \* an operation has changed the memory and not finished

vars == <<memory, disk, up, pending>>

Init == memory = Empty /\ disk \in Values \cup {Missing} /\ ~up /\ ~pending

Load ==
  /\ ~up
  /\ up' = TRUE
  /\ memory' = IF disk = Missing THEN Empty ELSE disk
  /\ UNCHANGED <<disk, pending>>

\* What an operation makes of the memory is its own business.
Operate ==
  /\ up /\ ~pending
  /\ pending' = TRUE
  /\ UNCHANGED <<disk, up>>

Persist ==
  /\ pending
  /\ disk' = memory
  /\ pending' = FALSE
  /\ UNCHANGED <<memory, up>>

GiveUp ==
  /\ pending
  /\ pending' = FALSE
  /\ UNCHANGED <<memory, disk, up>>

Kill ==
  /\ up
  /\ up' = FALSE
  /\ memory' = Empty
  /\ pending' = FALSE
  /\ UNCHANGED disk

Next == Load \/ Operate \/ Persist \/ GiveUp \/ Kill

Spec == Init /\ [][Next]_vars
=============================================================================

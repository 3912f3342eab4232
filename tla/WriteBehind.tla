---------------------------- MODULE WriteBehind ----------------------------
(***************************************************************************)
(* What record.rs promises of the record: memory runs ahead of the flash,  *)
(* the flash follows it and never goes back, and a restart loses exactly   *)
(* what had not been written.  A record is the number of entries in it.    *)
(***************************************************************************)
EXTENDS Naturals

VARIABLES memory, disk

vars == <<memory, disk>>

Init == disk \in Nat /\ memory = disk

\* An entry is made.
Enter ==
  /\ memory' = memory + 1
  /\ UNCHANGED disk

\* The disk follows, possibly with several entries at once.
Sync ==
  /\ disk' \in (disk + 1) .. memory
  /\ UNCHANGED memory

\* A restart.
Lose ==
  /\ memory' = disk
  /\ UNCHANGED disk

Next == Enter \/ Sync \/ Lose

Spec == Init /\ [][Next]_vars
=============================================================================

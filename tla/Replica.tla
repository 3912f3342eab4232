------------------------------ MODULE Replica ------------------------------
(***************************************************************************)
(* What config.rs promises the converter: it follows the device's durable  *)
(* settings, never past them and never back, across restarts as well.      *)
(* Settings are counted: version v is the v-th change.                     *)
(***************************************************************************)
EXTENDS Naturals

VARIABLES
  current,    \* the version that survives a restart
  replica     \* the version the follower acts on

vars == <<current, replica>>

Init == current \in Nat /\ replica = current

\* The settings change.
Advance ==
  /\ current' = current + 1
  /\ UNCHANGED replica

\* The follower moves on, possibly past versions it never saw.
Follow ==
  /\ replica' \in (replica + 1) .. current
  /\ UNCHANGED current

Next == Advance \/ Follow

Spec == Init /\ [][Next]_vars
=============================================================================

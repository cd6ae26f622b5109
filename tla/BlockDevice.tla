---------------------------- MODULE BlockDevice ----------------------------
(***************************************************************************)
(* What a disk with a write-back cache promises to its host: a read        *)
(* returns what was last written; what was there when a synchronisation    *)
(* last succeeded, and was not written since, survives a loss of power.    *)
(* The promise is void once a command overlapped another.                  *)
(***************************************************************************)
EXTENDS Integers

CONSTANTS Capacity, Values

VARIABLES
  disk,    \* block -> value, as the host sees it
  stable,  \* block -> value at the last synchronisation
  touched, \* blocks written since
  answer,  \* what the last read returned: block -> value
  losses,  \* how often the power was lost
  void     \* two commands overlapped

Blocks == 0..(Capacity - 1)

Init ==
  /\ disk \in [Blocks -> Values]
  /\ stable = disk /\ touched = {}
  /\ answer = [b \in {} |-> 0]
  /\ losses = 0 /\ void = FALSE

Write(range, v) ==
  /\ disk' = [b \in Blocks |-> IF b \in range THEN v ELSE disk[b]]
  /\ touched' = touched \union range
  /\ UNCHANGED <<stable, answer, losses>>

Read(range) ==
  /\ answer' = [b \in range |-> disk[b]]
  /\ UNCHANGED <<disk, stable, touched, losses>>

Sync ==
  /\ stable' = disk /\ touched' = {}
  /\ UNCHANGED <<disk, answer, losses>>

(* The blocks that were not synchronised may hold anything that was ever     *)
(* written; the model does not say what.                                     *)
PowerLoss ==
  /\ losses' = losses + 1
  /\ disk' \in [Blocks -> Values]
  /\ \A b \in Blocks \ touched : disk'[b] = stable[b]
  /\ UNCHANGED <<stable, touched, answer>>

Next ==
  \/ /\ \/ \E a, b \in Blocks : \/ \E v \in Values : Write(a..b, v)
                                \/ Read(a..b)
        \/ Sync \/ PowerLoss
     /\ UNCHANGED void
  \/ void'

Spec == Init /\ [][Next]_<<disk, stable, touched, answer, losses, void>>
=============================================================================

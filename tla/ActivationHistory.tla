------------------------- MODULE ActivationHistory --------------------------
(***************************************************************************)
(* What dataset replacement promises its operators (docs/architecture.md): *)
(* the versions that were activated form a history whose last element is   *)
(* the one readers see.  Activation extends the history, rollback removes  *)
(* its last element, repeated rollbacks walk back through it, and a        *)
(* version that was rolled back can be activated again.                    *)
(***************************************************************************)
EXTENDS Sequences, SequencesExt

CONSTANTS
  Versions, \* the dataset versions there may be
  First     \* the one the history starts with

VARIABLE history

Init == history = <<First>>

Promote(d) ==
  /\ ~Contains(history, d)
  /\ history' = Append(history, d)

Undo ==
  /\ Len(history) > 1
  /\ history' = Front(history)

Next == Undo \/ \E d \in Versions : Promote(d)

Spec == Init /\ [][Next]_history
=============================================================================

--------------------------- MODULE DatasetHistory ---------------------------
(***************************************************************************)
(* The committed tables of DatasetReplacement implement ActivationHistory: *)
(* the history is the RETIRED rows in the order rollback would take them   *)
(* back, oldest first, and then the row the read pointer names.            *)
(***************************************************************************)
EXTENDS DatasetReplacement, SortedSets

RetiredBefore(t, d, e) == \/ t.stamp[d] < t.stamp[e]
                          \/ t.stamp[d] = t.stamp[e] /\ d < e

RetirementOrder(t) ==
  {x \in Undoable(t) \X Undoable(t) : RetiredBefore(t, x[1], x[2])}

HistoryOf(t) == Append(SortedBy(Undoable(t), RetirementOrder(t)), t.pointer)

Abstract == INSTANCE ActivationHistory WITH
              Versions <- Ids, First <- LegacyId, history <- HistoryOf(db)

(* Every commit of the command line or the loader leaves the history as it *)
(* is, extends it by one version or takes its last one away; everything    *)
(* else leaves it alone.  No crash, refusal or race shows in it.           *)
ImplementsHistory == Abstract!Spec
=============================================================================

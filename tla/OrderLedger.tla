----------------------------- MODULE OrderLedger -----------------------------
(***************************************************************************)
(* What promotion promises to whoever reads orders: for every source order *)
(* there is a ledger of the evidence it was projected from, oldest first;  *)
(* a transaction may append entries, each from a version newer than the    *)
(* one before, and nothing is ever taken out, reordered or put in between. *)
(***************************************************************************)
EXTENDS SequencesExt

CONSTANTS Keys, Evidence, Newer

VARIABLE ledger

Ascending(entries) ==
  \A j, k \in DOMAIN entries : j < k => <<entries[j].version, entries[k].version>> \in Newer

Init == ledger = [k \in Keys |-> <<>>]

Extend(k) ==
  /\ IsPrefix(ledger[k], ledger'[k])
  /\ Ascending(ledger'[k])
  /\ \A n \in DOMAIN ledger'[k] : ledger'[k][n] \in {e \in Evidence : e.key = k}

Next ==
  /\ DOMAIN ledger' = Keys
  /\ \A k \in Keys : Extend(k)

Spec == Init /\ [][Next]_ledger
=============================================================================

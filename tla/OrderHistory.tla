---------------------------- MODULE OrderHistory ----------------------------
(***************************************************************************)
(* OrderObservations implements OrderLedger: the entries of a key are the  *)
(* observations whose committed status is PROMOTED, in the comparator's    *)
(* order of their versions, and the last of them is the order's current    *)
(* observation.                                                            *)
(***************************************************************************)
EXTENDS OrderObservations, SequencesExt

Promoted(k, rows) == {e \in Evidence : e.key = k /\ rows[e].status = "PROMOTED"}

\* the comparator calls the version of f newer than that of e
Precedes(e, f) == <<e.version, f.version>> \in Newer

\* q has every element of S, older versions first
Lists(q, S) ==
  /\ \A e \in S : \E i \in DOMAIN q : q[i] = e
  /\ \A i, j \in DOMAIN q : i < j => Precedes(q[i], q[j])

Sorted(S) == CHOOSE q \in [1..Cardinality(S) -> S] : Lists(q, S)

LedgerOf == [k \in Keys |-> Sorted(Promoted(k, settled))]

Ledger == INSTANCE OrderLedger WITH ledger <- LedgerOf

(* The promoted evidence of every source order is a ledger that only grows *)
(* at its newer end, however stagings and promotions of its versions are   *)
(* interleaved, fail or are repeated (order_observations.py:662-938).      *)
ImplementsLedger == Ledger!Spec
=============================================================================

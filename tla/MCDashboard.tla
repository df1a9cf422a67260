----------------------------- MODULE MCDashboard -----------------------------
(***************************************************************************)
(* A small queue for Dashboard: cases of two datasets, one of them found   *)
(* after the instant that the API evaluates at, and one order.             *)
(***************************************************************************)
EXTENDS Dashboard

CONSTANTS d1, d2

Case(d, type, at, revenue) ==
  [dataset |-> d, type |-> type, detected_at |-> at, revenue |-> revenue]

MCCases ==
  <<Case(d1, "STOCKOUT_RISK", 1, 2), Case(d1, "SUPPLIER_DELAY", 1, 1),
    Case(d1, "SHIPMENT_DELAY", 1, 0), Case(d2, "STOCKOUT_RISK", 1, 1),
    Case(d1, "STOCKOUT_RISK", 3, 1)>>

MCExisting ==
  [id \in {1, 3, 4} |-> IF id = 3 THEN "CRITICAL" ELSE "LOW"]

MCOrders == <<[dataset |-> d1, ordered_at |-> 1]>>

ActiveQueue == [status |-> ACTIVE_STATUSES, type |-> {}, severity |-> {}]
MCFilters == {ActiveQueue}

MCFacets == <<<<"type", "STOCKOUT_RISK">>>>
=============================================================================

----------------------------- MODULE MCDetection -----------------------------
(***************************************************************************)
(* A small warehouse network for Detection: four orders of two products in  *)
(* two warehouses, one purchase order and three shipments, with what is on   *)
(* hand, promised and moved before as the choice of each behaviour.        *)
(***************************************************************************)
EXTENDS Detection

MCThresholds ==
  [m \in {"revenue", "orders", "overdue"} |->
     CASE m = "revenue" -> <<6, 4, 2>> [] m = "orders" -> <<9, 2, 2>> [] m = "overdue" -> <<4, 2, 1>>]

\* product 1 in warehouse 3 and product 2 in warehouse 4 have one issue key
MCPieces(id) ==
  CASE id = 1 -> <<"A">> [] id = 2 -> <<"A", "B">> [] id = 3 -> <<"B", "C">> [] id = 4 -> <<"C">>

Order(id, w, at, promised) ==
  [id |-> id, warehouse |-> w, status |-> "OPEN", ordered_at |-> at, promised_at |-> promised]
Item(id, o, p, n, price) ==
  [id |-> id, order |-> o, product |-> p, ordered |-> n, fulfilled |-> 0, price |-> price]
Snapshot(p, w, hand, reserved) ==
  [product |-> p, warehouse |-> w, on_hand |-> hand, reserved |-> reserved, observed_at |-> 1]
PastMove(p, w, kind, n, at) ==
  [product |-> p, warehouse |-> w, kind |-> kind, quantity |-> n, occurred_at |-> at, number |-> 0]
Line(id, p, n) == [id |-> id, purchase |-> 1, product |-> p, ordered |-> n, received |-> 0]

\* an earlier movement that explains all, or not all, of what is on hand, or
\* one that the first count does not know of
Earlier(hand) ==
  {{PastMove(1, 3, "RECEIPT", hand, 0)},
   {PastMove(1, 3, "RECEIPT", hand, 0), PastMove(1, 3, "ADJUSTMENT_OUT", 1, 1)},
   {PastMove(1, 3, "RECEIPT", hand, 0), PastMove(1, 3, "TRANSFER_OUT", 1, 2)},
   {PastMove(1, 3, "TRANSFER_IN", hand, 0), PastMove(1, 3, "RESERVATION", 1, 1)}}

World(promised, hand, reserved, moves) ==
  [orders    |-> {Order(1, 3, 0, promised), Order(2, 3, 2, 4), Order(3, 4, 0, 1),
                  [Order(4, 3, 0, 1) EXCEPT !.status = "CANCELLED"]},
   items     |-> {Item(1, 1, 1, 2, 2), Item(2, 1, 2, 1, 1), Item(3, 2, 1, 1, 3),
                  Item(4, 3, 2, 1, 5), Item(5, 4, 1, 1, 1)},
   stock     |-> {Snapshot(1, 3, hand, reserved), Snapshot(2, 3, 0, 0), Snapshot(2, 4, 1, 0)},
   moves     |-> moves \cup {PastMove(2, 4, "RECEIPT", 1, 0)},
   purchases |-> {[id |-> 1, warehouse |-> 3, status |-> "OPEN", ordered_at |-> 0,
                   expected_at |-> 1]},
   lines     |-> {Line(1, 1, 1), Line(2, 2, 1)},
   shipments |-> {[id |-> 1, order |-> 1, status |-> "IN_TRANSIT", eta |-> 1],
                  [id |-> 2, order |-> 3, status |-> "IN_TRANSIT", eta |-> 3],
                  [id |-> 3, order |-> 3, status |-> "DELIVERED", eta |-> 1]}]

MCWorlds ==
  UNION {{World(promised, hand, reserved, moves) : moves \in Earlier(hand)} :
           <<promised, hand, reserved>> \in {1, 4} \X {1, 3} \X {0, 1}}
=============================================================================

--------------------------- MODULE DetectionRules ---------------------------
(***************************************************************************)
(* The six rules of exceptions/rules.py and exceptions/severity.py as      *)
(* functions of the rows of one dataset version and an evaluation instant. *)
(*                                                                         *)
(* rows.orders, items, stock, moves, purchases, lines and shipments are    *)
(* the tables, as sets of records.  Source ids are numbers, so that they   *)
(* are ordered, times are whole hours, money and quantities whole units.   *)
(***************************************************************************)
EXTENDS Integers, Sequences, FiniteSets, FiniteSetsExt, SequencesExt, SortedSets

CONSTANTS
  Window,       \* sla_risk_window_hours
  SafetyStock,  \* safety_stock
  Tolerance,    \* inventory_mismatch_tolerance
  Thresholds,   \* of revenue, orders and overdue: <<critical, high, medium>>
  Pieces(_)     \* the text of a source id, as the pieces between its colons

\* what Settings validates (config.py:76-123)
ASSUME SettingsAssumption ==
  /\ Window \in Nat \ {0} /\ SafetyStock \in Nat /\ Tolerance \in Nat
  /\ Thresholds \in [{"revenue", "orders", "overdue"} -> [1..3 -> Nat]]
  /\ \A m \in DOMAIN Thresholds :
       Thresholds[m][3] <= Thresholds[m][2] /\ Thresholds[m][2] <= Thresholds[m][1]

InventoryMovementType ==
  {"RECEIPT", "SHIPMENT", "ADJUSTMENT_IN", "ADJUSTMENT_OUT", "RESERVATION", "RELEASE",
   "TRANSFER_IN", "TRANSFER_OUT"}

Row ==
  [orders    |-> [id : Nat, warehouse : Nat, status : STRING, ordered_at : Nat, promised_at : Nat],
   items     |-> [id : Nat, order : Nat, product : Nat, ordered : Nat, fulfilled : Nat, price : Nat],
   stock     |-> [product : Nat, warehouse : Nat, on_hand : Nat, reserved : Nat, observed_at : Nat],
   moves     |-> [product : Nat, warehouse : Nat, kind : InventoryMovementType, quantity : Nat,
                  occurred_at : Nat, number : Nat],
   purchases |-> [id : Nat, warehouse : Nat, status : STRING, ordered_at : Nat, expected_at : Nat],
   lines     |-> [id : Nat, purchase : Nat, product : Nat, ordered : Nat, received : Nat],
   shipments |-> [id : Nat, order : Nat, status : STRING, eta : Nat]]

\* movements told apart by their number alone
Alike(moves, m) ==
  {x \in moves : /\ x.product = m.product /\ x.warehouse = m.warehouse
                 /\ x.kind = m.kind /\ x.occurred_at = m.occurred_at}

(* What the constraints of the tables (models.py:195-260 and 529-660) and  *)
(* the validation of a bundle admit: ids are unique, a product has one     *)
(* snapshot in a warehouse, and no more is fulfilled than was ordered.     *)
IsVersion(rows) ==
  /\ rows = [t \in DOMAIN Row |-> rows[t]]
  /\ \A t \in DOMAIN Row : rows[t] \subseteq Row[t] /\ IsFiniteSet(rows[t])
  /\ \A t \in {"orders", "items", "purchases", "lines", "shipments"} :
       \A x, y \in rows[t] : x.id = y.id => x = y
  /\ \A x, y \in rows.stock : x.product = y.product /\ x.warehouse = y.warehouse => x = y
  /\ \A m \in rows.moves : m.number < Cardinality(Alike(rows.moves, m))
  /\ \A i \in rows.items : i.fulfilled <= i.ordered

\* the issue key: the source ids joined with a colon, which an id may hold too
IssueKey(about) == FlattenSeq([n \in DOMAIN about |-> Pieces(about[n])])

\* a finding about one entity, named by its source ids
Finding(rule, about, facts, revenue, orders, overdue) ==
  [rule |-> rule, about |-> about, key |-> IssueKey(about), facts |-> facts,
   revenue |-> revenue, orders |-> orders, overdue |-> overdue]

Overdue(as_of, due) == Max({0, as_of - due})

-----------------------------------------------------------------------------
(* Orders and the demand they leave open *)

Remaining(item) == item.ordered - item.fulfilled

\* mutant of Units: what was fulfilled still counts as wanted
UnitsOrdered(items) == SumFunction([i \in items |-> i.ordered])

Units(items) == SumFunction([i \in items |-> Remaining(i)])
Revenue(items) == SumFunction([i \in items |-> Remaining(i) * i.price])

\* items that have an open order and something left to fulfil
Wanted(rows, as_of) ==
  {i \in rows.items : /\ Remaining(i) > 0
                      /\ \E o \in rows.orders : /\ o.id = i.order /\ o.status = "OPEN"
                                                /\ o.ordered_at <= as_of}

ItemsOf(items, o) == {i \in items : i.order = o.id}

\* mutant of AtRisk: an order whose promise has passed is no risk any more
AtRiskAhead(rows, as_of) ==
  {o \in rows.orders : /\ ItemsOf(Wanted(rows, as_of), o) # {}
                       /\ o.promised_at \in as_of..as_of + Window}

\* orders due within the risk window, or overdue
AtRisk(rows, as_of) ==
  {o \in rows.orders : /\ ItemsOf(Wanted(rows, as_of), o) # {}
                       /\ o.promised_at <= as_of + Window}

SlaFinding(o, items, as_of) ==
  Finding("SLA_BREACH_RISK", <<o.id>>,
          <<o.id, o.status, o.ordered_at, o.promised_at, Units(items), Revenue(items)>>,
          Revenue(items), 1, Overdue(as_of, o.promised_at))

\* mutant of SlaBreachRisk: the rows of the join are not grouped by order
SlaBreachRiskByItem(rows, as_of) ==
  {SlaFinding(x[1], {x[2]}, as_of) :
     x \in {y \in AtRisk(rows, as_of) \X Wanted(rows, as_of) : y[2].order = y[1].id}}

SlaBreachRisk(rows, as_of) ==
  {SlaFinding(o, ItemsOf(Wanted(rows, as_of), o), as_of) : o \in AtRisk(rows, as_of)}

\* open demand for what snapshot s is about
Demand(rows, as_of, s) ==
  {i \in Wanted(rows, as_of) :
     /\ i.product = s.product
     /\ \E o \in rows.orders : o.id = i.order /\ o.warehouse = s.warehouse}

Observed(rows, as_of) == {s \in rows.stock : s.observed_at <= as_of}
Available(s) == s.on_hand - s.reserved

\* what is left of a product in a warehouse when the open demand is served
Buffer(rows, as_of, s) == Available(s) - Units(Demand(rows, as_of, s))

DemandFinding(rule, rows, as_of, s, limit) ==
  LET items == Demand(rows, as_of, s)
      orders == Cardinality({i.order : i \in items})
  IN  Finding(rule, <<s.product, s.warehouse>>,
              <<s.product, s.warehouse, Units(items), Available(s), orders, limit>>,
              Revenue(items), orders, 0)

\* snapshots with open demand and a buffer below a limit
Short(rule, rows, as_of, limit) ==
  {DemandFinding(rule, rows, as_of, s, limit) :
     s \in {x \in Observed(rows, as_of) :
              Demand(rows, as_of, x) # {} /\ Buffer(rows, as_of, x) < limit}}

-----------------------------------------------------------------------------
(* Stock against its movements *)

\* reservations and releases move nothing
Signed(move) ==
  CASE move.kind \in {"RECEIPT", "ADJUSTMENT_IN", "TRANSFER_IN"} -> move.quantity
    [] move.kind \in {"SHIPMENT", "ADJUSTMENT_OUT", "TRANSFER_OUT"} -> -move.quantity
    [] OTHER -> 0

NetChange(moves) == SumFunction([m \in moves |-> Signed(m)])

\* mutant of Reconstructed: a movement at the instant of the count is left out
ReconstructedBefore(rows, s) ==
  NetChange({m \in rows.moves : /\ m.product = s.product /\ m.warehouse = s.warehouse
                                /\ m.occurred_at < s.observed_at})

Reconstructed(rows, s) ==
  NetChange({m \in rows.moves : /\ m.product = s.product /\ m.warehouse = s.warehouse
                                /\ m.occurred_at <= s.observed_at})

Difference(rows, s) == s.on_hand - Reconstructed(rows, s)

Mismatch(rows, as_of) ==
  {Finding("INVENTORY_MISMATCH", <<s.product, s.warehouse>>,
           <<s.product, s.warehouse, s.observed_at, s.on_hand, Reconstructed(rows, s)>>, 0, 0, 0) :
     s \in {x \in Observed(rows, as_of) :
              Difference(rows, x) > Tolerance \/ -Difference(rows, x) > Tolerance}}

-----------------------------------------------------------------------------
(* Purchase orders and shipments *)

Outstanding(rows, po) ==
  {l \in rows.lines : l.purchase = po.id /\ l.received < l.ordered}

SupplierDelay(rows, as_of) ==
  {Finding("SUPPLIER_DELAY", <<po.id>>,
           <<po.id, po.status, po.expected_at,
             SumFunction([l \in Outstanding(rows, po) |-> l.ordered - l.received])>>,
           0, 0, Overdue(as_of, po.expected_at)) :
     po \in {p \in rows.purchases : /\ p.status \in {"OPEN", "PARTIALLY_RECEIVED"}
                                    /\ p.ordered_at <= as_of /\ p.expected_at < as_of
                                    /\ Outstanding(rows, p) # {}}}

\* mutant of ShipmentFacts: the facts say how late a shipment is
ShipmentFactsOverdue(sh, as_of, revenue) ==
  <<sh.id, sh.status, sh.eta, sh.order, revenue, Overdue(as_of, sh.eta)>>

\* the facts leave the instant of the evaluation out
ShipmentFacts(sh, as_of, revenue) == <<sh.id, sh.status, sh.eta, sh.order, revenue>>

ShipmentDelay(rows, as_of) ==
  LET Risk(sh) == Revenue({i \in rows.items : i.order = sh.order})
  IN  {Finding("SHIPMENT_DELAY", <<sh.id>>, ShipmentFacts(sh, as_of, Risk(sh)), Risk(sh), 1, 0) :
         sh \in {x \in rows.shipments : x.status # "DELIVERED" /\ x.eta < as_of}}

-----------------------------------------------------------------------------
(* One run *)

RULES == <<"SLA_BREACH_RISK", "INVENTORY_SHORTAGE", "STOCKOUT_RISK", "INVENTORY_MISMATCH",
           "SUPPLIER_DELAY", "SHIPMENT_DELAY">>

Found(rule, rows, as_of) ==
  CASE rule = "SLA_BREACH_RISK" -> SlaBreachRisk(rows, as_of)
    [] rule = "INVENTORY_SHORTAGE" -> Short(rule, rows, as_of, 0)
    [] rule = "STOCKOUT_RISK" -> Short(rule, rows, as_of, SafetyStock)
    [] rule = "INVENTORY_MISMATCH" -> Mismatch(rows, as_of)
    [] rule = "SUPPLIER_DELAY" -> SupplierDelay(rows, as_of)
    [] rule = "SHIPMENT_DELAY" -> ShipmentDelay(rows, as_of)

\* source ids compared from left to right
Precedes(f, g) ==
  \E n \in DOMAIN f.about :
    f.about[n] < g.about[n] /\ \A m \in 1..n - 1 : f.about[m] = g.about[m]

SourceOrder(findings) == {x \in findings \X findings : Precedes(x[1], x[2])}

Detect(rule, rows, as_of) ==
  LET findings == Found(rule, rows, as_of) IN SortedBy(findings, SourceOrder(findings))

DetectAll(rows, as_of) == FlattenSeq([n \in DOMAIN RULES |-> Detect(RULES[n], rows, as_of)])

-----------------------------------------------------------------------------
(* Severity, as a rank: 1 is CRITICAL, 2 HIGH, 3 MEDIUM and 4 LOW *)

Metrics(f) == [revenue |-> f.revenue, orders |-> f.orders, overdue |-> f.overdue]

Reaches(f, rank) == \E m \in DOMAIN Thresholds : Metrics(f)[m] >= Thresholds[m][rank]

\* mutant of Severity: a metric beyond its threshold does not count
SeverityAtThreshold(f) ==
  CHOOSE r \in 1..4 :
    /\ r < 4 => \E m \in DOMAIN Thresholds : Metrics(f)[m] = Thresholds[m][r]
    /\ \A q \in 1..r - 1 : ~\E m \in DOMAIN Thresholds : Metrics(f)[m] = Thresholds[m][q]

\* the highest rank that some metric reaches
Severity(f) ==
  CHOOSE r \in 1..4 : (r < 4 => Reaches(f, r)) /\ \A q \in 1..r - 1 : ~Reaches(f, q)
=============================================================================

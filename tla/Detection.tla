----------------------------- MODULE Detection -----------------------------
(***************************************************************************)
(* Detection runs over a dataset whose next versions follow the goods: the *)
(* instant of evaluation moves on (a later run over the same version), or  *)
(* a next version says that an item was shipped or a purchase received,    *)
(* with its movement and a new snapshot.  The flow of goods is what source *)
(* systems do; what it must not do to the findings is the rules' business. *)
(***************************************************************************)
EXTENDS DetectionRules

CONSTANTS
  Worlds,    \* the versions a dataset may start from
  Instants   \* the instants of evaluation

ASSUME DetectionAssumption ==
  /\ \A world \in Worlds : IsVersion(world)
  /\ Instants \subseteq Nat

VARIABLES
  rows,      \* the active version
  as_of,     \* the instant of the last run
  found      \* what it detected

vars == <<rows, as_of, found>>

RunOver(next, instant) ==
  /\ rows' = next
  /\ as_of' = instant
  /\ found' = DetectAll(next, instant)

Init ==
  /\ rows \in Worlds
  /\ as_of \in Instants
  /\ found = DetectAll(rows, as_of)

\* a run over the same version at a later instant
Later == \E t \in Instants : t > as_of /\ RunOver(rows, t)

\* a unit of what snapshot s counts moves at instant as_of
Movement(kind, s) ==
  LET m == [product |-> s.product, warehouse |-> s.warehouse, kind |-> kind, quantity |-> 1,
            occurred_at |-> as_of, number |-> 0]
  IN  [m EXCEPT !.number = Cardinality(Alike(rows.moves, m))]

\* it enters or leaves the warehouse, and the stock is counted
Moved(kind, s, change) ==
  [rows EXCEPT
     !.moves = @ \cup {Movement(kind, s)},
     !.stock = (@ \ {s}) \cup {[s EXCEPT !.on_hand = @ + change, !.observed_at = as_of]}]

\* every movement of a snapshot's product and warehouse is in its count
Counted(s) ==
  \A m \in rows.moves : /\ m.product = s.product
                        /\ m.warehouse = s.warehouse
                        => m.occurred_at <= s.observed_at

\* a unit of an order leaves the order's warehouse
Ship ==
  \E i \in Wanted(rows, as_of), s \in Observed(rows, as_of) :
    /\ i \in Demand(rows, as_of, s)
    /\ Counted(s)
    /\ s.reserved < s.on_hand
    /\ LET next == Moved("SHIPMENT", s, -1)
           item == [i EXCEPT !.fulfilled = @ + 1]
       IN  RunOver([next EXCEPT !.items = (@ \ {i}) \cup {item}], as_of)

\* a unit of a purchase order arrives
Receive ==
  \E l \in rows.lines, s \in Observed(rows, as_of) :
    /\ l.received < l.ordered
    /\ l.product = s.product
    /\ \E po \in rows.purchases : po.id = l.purchase /\ po.warehouse = s.warehouse
    /\ Counted(s)
    /\ LET next == Moved("RECEIPT", s, 1)
           line == [l EXCEPT !.received = @ + 1]
       IN  RunOver([next EXCEPT !.lines = (@ \ {l}) \cup {line}], as_of)

Next == Later \/ Ship \/ Receive

Spec == Init /\ [][Next]_vars

-----------------------------------------------------------------------------
(* Properties *)

Reported == Range(found)

\* "Run all six rules in stable rule/entity order." (rules.py:496): a run
\* reports an order, a product in a warehouse, a purchase order or a shipment
\* once per rule, in the order of the rules and of the source ids (rules.py:92,
\* 184, 289-292, 386, 444).  The engine takes its locks in that order, and
\* looks the active case up once per finding (service.py:166-175): a second
\* finding of an entity would refresh the case that the first had just opened.
\* Of two entities whose ids join to one issue key this says nothing.
ReportedInOrder ==
  \A m, n \in DOMAIN found : m < n =>
    \/ \E p, q \in DOMAIN RULES : p < q /\ RULES[p] = found[m].rule /\ RULES[q] = found[n].rule
    \/ found[m].rule = found[n].rule /\ Precedes(found[m], found[n])

\* the rules whose facts tell how much of an aggregate is at stake
Aggregates == {"INVENTORY_SHORTAGE", "STOCKOUT_RISK"}

\* A condition that lasts is found again at every later instant, never with a
\* lower severity; and unless more demand came into view, with the facts it
\* had, so that time alone reopens no issue that was settled with those facts
\* (service.py:104-112, contracts.py:48-52; rules.py:76-93, 371-387, 438-445;
\* severity.py:60-67).
TimeOnlyAdds ==
  [][rows' = rows =>
       \A f \in Reported : \E g \in Reported' :
         /\ g.rule = f.rule /\ g.about = f.about /\ g.key = f.key
         /\ Severity(g) <= Severity(f)
         /\ f.rule \notin Aggregates => g.facts = f.facts]_vars

\* what a run says of the stock, by product and warehouse
Alarms(rules) == {<<f.rule, f.about>> : f \in {g \in Reported : g.rule \in rules}}

\* Shipping what was ordered or receiving what was purchased raises no alarm
\* about the stock: demand and stock go down together (rules.py:131-151 and
\* 187-195), and the movement that the new snapshot counts is in the sum it
\* is reconciled with (rules.py:300-330), whatever was open before.
FlowRaisesNoAlarm ==
  [][rows' # rows =>
       /\ Alarms({"INVENTORY_MISMATCH"})' = Alarms({"INVENTORY_MISMATCH"})
       /\ Alarms(Aggregates)' \subseteq Alarms(Aggregates)]_vars
=============================================================================

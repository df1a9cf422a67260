--------------------------- MODULE OrderAssessment ---------------------------
(***************************************************************************)
(* How one source row of an order is read and judged before it is staged   *)
(* (ingestion/order_observations.py), next to the constraints that the     *)
(* tables order_observations and orders put on what is made of it.         *)
(*                                                                         *)
(* Values are abstracted to what the code tells apart: whether the columns *)
(* of a fact are empty, hold one well-formed value, hold one that is       *)
(* malformed, or contradict each other.                                    *)
(***************************************************************************)
EXTENDS Naturals

Timestamps == {"ordered", "promised", "fulfilled"}
Texts == {"number", "status", "region", "site", "currency"}

\* a fact that has several column names may be given twice and differently;
\* "early": a fulfilment before the order; "long": more than three letters
Given == {"given", "early"}

Raw == [order     : {"absent", "given", "conflicting"},
        number    : {"absent", "given"},
        status    : {"absent", "given", "malformed"},
        region    : {"absent", "given"},
        site      : {"absent", "given", "conflicting"},
        amount    : {"absent", "given", "malformed", "negative", "conflicting"},
        currency  : {"absent", "given", "malformed", "long", "conflicting"},
        ordered   : {"absent", "given", "malformed", "conflicting"},
        promised  : {"absent", "given", "malformed", "conflicting"},
        fulfilled : {"absent", "given", "early", "malformed", "conflicting"}]

FactNames == Timestamps \cup Texts \cup {"order", "amount"}

-----------------------------------------------------------------------------
(* Reading a row *)

\* _first_value, _text, _money, _timestamp: text survives whatever it says, and
\* contradicting text as the text of the list of values; the rest must parse
Kept(raw, f) ==
  IF f \in Texts \cup {"order"} THEN raw[f] # "absent" ELSE raw[f] \in Given

\* fulfilment before the order, when both are known
Backwards(raw) == raw.fulfilled = "early" /\ Kept(raw, "ordered")

\* what makes a row REJECTED_INVALID: pairs of a complaint and the fact it is about
Invalid(raw) ==
  {<<"CONFLICTING", f>> : f \in {g \in FactNames : raw[g] = "conflicting"}}
  \cup {<<"MALFORMED", f>> : f \in {g \in FactNames : raw[g] \in {"malformed", "negative", "long"}}}
  \cup {<<"MISSING", f>> : f \in {g \in {"order"} : ~Kept(raw, g)}}
  \cup {<<"CONFLICTING", f>> : f \in {g \in {"fulfilled"} : Backwards(raw)}}

\* what the operational context of an order needs besides a warehouse
Needed == {"amount", "currency", "number", "status", "region", "ordered", "promised"}

\* mutant of Gaps: the promise is not needed
GapsButPromised(raw) == {f \in Needed \ {"promised"} : ~Kept(raw, f)}

\* what makes a row CONTEXT_INCOMPLETE when it is staged; the warehouse is not
\* known to be missing before promotion, staging looks no warehouse up
Gaps(raw) == {f \in Needed : ~Kept(raw, f)}

\* mutant of Assessed: the source status is taken for the status
AssessedAsSource(raw) == IF Invalid(raw) # {} THEN "REJECTED_INVALID" ELSE "SOURCE_VALID"

Assessed(raw) ==
  IF Invalid(raw) # {} THEN "REJECTED_INVALID"
  ELSE IF Gaps(raw) # {} THEN "CONTEXT_INCOMPLETE"
  ELSE "NORMALIZED"

-----------------------------------------------------------------------------
(* What the tables accept *)

\* staging refuses a row without a source key before it reaches the database
HasKey(raw) == Kept(raw, "order")

\* order_observations: currency varchar(3), fulfilled_at not before ordered_at
Storable(raw) == raw.currency \notin {"long", "conflicting"} /\ ~Backwards(raw)

\* orders: no column but fulfilled_at is nullable, status is an order status
Projectable(raw) ==
  /\ \A f \in Needed : Kept(raw, f)
  /\ raw.status # "malformed"
  /\ Storable(raw)
=============================================================================

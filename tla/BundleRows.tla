----------------------------- MODULE BundleRows -----------------------------
(***************************************************************************)
(* The rows of an ingestion bundle and what ingestion/validation.py says   *)
(* of them, as a function of the files alone.                              *)
(*                                                                         *)
(* A row has its source id, the source ids it refers to, one name for the  *)
(* text of its other columns (unique columns included), a time, and in odd *)
(* the columns whose text is not a plain value:                            *)
(*   blank      nothing but white space                                    *)
(*   padded     a plain value written in another way                       *)
(*   malformed  does not parse, or is a timestamp without a zone           *)
(*   wrong      parses, but is negative, zero or not one of the values     *)
(*   beyond     past, or before, the column it is compared with            *)
(*   fine       a number with more decimals than the table's column        *)
(*   tiny       a number that rounds to zero there                         *)
(*   long       more than the table's column holds                         *)
(***************************************************************************)
EXTENDS Naturals, Sequences, FiniteSets, Functions

CONSTANTS
  SourceIds,  \* source ids
  Names,      \* texts
  Times,      \* instants
  NoSource    \* a blank source id

Artifacts == {"products", "warehouses", "suppliers", "orders", "order_items", "purchase_orders",
              "purchase_order_items", "inventory", "inventory_movements", "shipments"}

Relations == {"products", "warehouses", "suppliers", "orders", "purchase_orders"}

\* the columns of an artifact with their kinds; a relation is a kind, prose is
\* optional text of any length
Schema(a) ==
  CASE a = "products" ->
         [source_product_id |-> "text", sku |-> "text", name |-> "text",
          description |-> "prose", unit_price |-> "money", active |-> "bool"]
    [] a = "warehouses" ->
         [source_warehouse_id |-> "text", code |-> "text", name |-> "text", region |-> "text",
          timezone |-> "text"]
    [] a = "suppliers" ->
         [source_supplier_id |-> "text", code |-> "text", name |-> "text", region |-> "text",
          active |-> "bool"]
    [] a = "orders" ->
         [source_order_id |-> "text", order_number |-> "text", status |-> "enum",
          region |-> "text", source_warehouse_id |-> "warehouses", ordered_at |-> "time",
          promised_at |-> "time", fulfilled_at |-> "optional_time", total_amount |-> "money",
          currency |-> "text"]
    [] a = "order_items" ->
         [source_order_item_id |-> "text", source_order_id |-> "orders",
          source_product_id |-> "products", line_number |-> "int",
          ordered_quantity |-> "positive", fulfilled_quantity |-> "nonnegative",
          unit_price |-> "money"]
    [] a = "purchase_orders" ->
         [source_purchase_order_id |-> "text", po_number |-> "text",
          source_supplier_id |-> "suppliers", source_warehouse_id |-> "warehouses",
          status |-> "enum", ordered_at |-> "time", expected_delivery_at |-> "time",
          received_at |-> "optional_time"]
    [] a = "purchase_order_items" ->
         [source_purchase_order_item_id |-> "text",
          source_purchase_order_id |-> "purchase_orders", source_product_id |-> "products",
          ordered_quantity |-> "positive", received_quantity |-> "nonnegative",
          unit_cost |-> "money"]
    [] a = "inventory" ->
         [source_product_id |-> "products", source_warehouse_id |-> "warehouses",
          on_hand |-> "nonnegative", reserved |-> "nonnegative", observed_at |-> "time"]
    [] a = "inventory_movements" ->
         [source_movement_id |-> "text", source_product_id |-> "products",
          source_warehouse_id |-> "warehouses", movement_type |-> "enum",
          quantity |-> "positive", occurred_at |-> "time", reference_type |-> "optional",
          reference_id |-> "optional"]
    [] a = "shipments" ->
         [source_shipment_id |-> "text", source_order_id |-> "orders", carrier |-> "text",
          tracking_id |-> "text", status |-> "enum", shipped_at |-> "optional_time",
          eta |-> "time", delivered_at |-> "optional_time"]

Columns(a) == DOMAIN Schema(a)
Required(a) == {f \in Columns(a) : Schema(a)[f] \notin {"optional", "prose", "optional_time"}}
RelationsOf(a) == {Schema(a)[f] : f \in Columns(a)} \cap Relations

\* the column a column may not fall behind, or exceed
Compared == [fulfilled_quantity |-> "ordered_quantity", received_quantity |-> "ordered_quantity",
             reserved |-> "on_hand", fulfilled_at |-> "ordered_at", received_at |-> "ordered_at",
             delivered_at |-> "shipped_at"]

Numbers == {"money", "positive", "nonnegative"}

\* what the text of a column of some kind can be
Classes(kind) ==
  {"blank", "padded"}
  \cup (IF kind \in Numbers \cup {"int", "bool", "time", "optional_time"} THEN {"malformed"} ELSE {})
  \cup (IF kind \in Numbers \cup {"enum"} THEN {"wrong"} ELSE {})
  \cup (IF kind \in Numbers THEN {"fine", "tiny", "long"} ELSE {})
  \cup (IF kind \in {"nonnegative", "optional_time"} THEN {"beyond"} ELSE {})
  \cup (IF kind \in {"text", "optional", "int"} \cup Relations THEN {"long"} ELSE {})

\* rows of artifact a as csv.DictReader gives them
IsRow(a, row) ==
  /\ DOMAIN row = {"id", "refs", "name", "at", "odd"}
  /\ row.id \in SourceIds \cup {NoSource}
  /\ row.refs \in [RelationsOf(a) -> SourceIds]
  /\ row.name \in Names
  /\ row.at \in Times
  /\ DOMAIN row.odd \subseteq Columns(a)
  /\ \A f \in DOMAIN row.odd :
       /\ row.odd[f] \in Classes(Schema(a)[f])
       /\ row.odd[f] = "beyond" => f \in DOMAIN Compared

\* a file's rows
IsFile(a, rows) ==
  /\ Len(rows) \in Nat /\ DOMAIN rows = 1..Len(rows)
  /\ \A n \in 1..Len(rows) : IsRow(a, rows[n])

Class(row, f) == IF f \in DOMAIN row.odd THEN row.odd[f] ELSE "given"

\* mutant of Canonical: text is kept as it was written
CanonicalAsWritten(row) == row

\* canonical_row
Canonical(row) == [row EXCEPT !.odd = Restrict(@, {f \in DOMAIN @ : @[f] # "padded"})]

-----------------------------------------------------------------------------
(* validate_rows: a rejection is <<line, code, column>> *)

Unparsed(row) == {f \in DOMAIN row.odd : row.odd[f] = "malformed"}

Blank(a, row) == {f \in Required(a) : Class(row, f) = "blank"}

\* mutant of Orphans: a parent is only looked for among parents that were read
OrphansIfAny(a, row, known) ==
  {f \in Columns(a) : /\ Schema(a)[f] \in Relations
                      /\ Class(row, f) # "blank"
                      /\ known[Schema(a)[f]] # {}
                      /\ row.refs[Schema(a)[f]] \notin known[Schema(a)[f]]}

\* columns that refer to a row no earlier artifact had
Orphans(a, row, known) ==
  {f \in Columns(a) : /\ Schema(a)[f] \in Relations
                      /\ Class(row, f) # "blank"
                      /\ row.refs[Schema(a)[f]] \notin known[Schema(a)[f]]}

\* _check_rules compares two columns that both have a value
Exceeding(row) ==
  {f \in DOMAIN row.odd : row.odd[f] = "beyond" /\ Class(row, Compared[f]) # "blank"}

CodeOf(kind) ==
  CASE kind = "enum" -> "ENUM" [] kind = "positive" -> "POSITIVE_QUANTITY"
    [] kind = "nonnegative" -> "NONNEGATIVE_QUANTITY" [] kind = "money" -> "NONNEGATIVE_MONEY"

Errors(a, line, row, known) ==
  {<<line, "REQUIRED", f>> : f \in Blank(a, row)} \cup
  IF Unparsed(row) # {} THEN {<<line, "TYPE", "">>}
  ELSE {<<line, CodeOf(Schema(a)[f]), f>> : f \in {g \in DOMAIN row.odd : row.odd[g] = "wrong"}}
       \cup {<<line, "PARENT_SOURCE_ID", f>> : f \in Orphans(a, row, known)}
       \cup {<<line, IF f \in {"fulfilled_at", "received_at", "delivered_at"}
                     THEN "TIMESTAMP_ORDER" ELSE "QUANTITY_BOUNDS", f>> : f \in Exceeding(row)}

\* rows that stand for the same thing: inventory has no source id
SameKey(a, row, other) == IF a = "inventory" THEN row.refs = other.refs ELSE row.id = other.id

Nothing == [rows |-> <<>>, rejections |-> {}, same |-> 0]

\* mutant of Accept: a repeated source id is skipped, whatever it says
AcceptFirst(a, line, row, known, r) ==
  LET errors == Errors(a, line, row, known)
      new == Canonical(row)
      twins == {old \in Range(r.rows) : SameKey(a, old, new)}
  IN  CASE errors # {} -> [r EXCEPT !.rejections = @ \cup errors]
        [] errors = {} /\ twins = {} -> [r EXCEPT !.rows = Append(@, new)]
        [] OTHER -> [r EXCEPT !.same = @ + 1]

\* one turn of the loop
Accept(a, line, row, known, r) ==
  LET errors == Errors(a, line, row, known)
      new == Canonical(row)
      twins == {old \in Range(r.rows) : SameKey(a, old, new)}
  IN  CASE errors # {} -> [r EXCEPT !.rejections = @ \cup errors]
        [] errors = {} /\ twins = {} -> [r EXCEPT !.rows = Append(@, new)]
        [] errors = {} /\ twins # {} /\ a # "inventory" /\ new \in twins ->
             [r EXCEPT !.same = @ + 1]
        [] OTHER ->
             [r EXCEPT !.rejections = @ \cup
                {<<line, IF a = "inventory" THEN "INVENTORY_MULTIPLE_SNAPSHOTS"
                         ELSE "DUPLICATE_CONFLICT", "">>}]

ValidateRows(a, rows, known) ==
  LET after[n \in 0..Len(rows)] ==
        IF n = 0 THEN Nothing ELSE Accept(a, n + 1, rows[n], known, after[n - 1])
  IN  after[Len(rows)]

-----------------------------------------------------------------------------
(* validate_bundle_rows *)

\* a bundle: declared has the row counts of the manifest, files what was read
Unsupported == "unsupported"

\* the columns of a header, in the order of the contract or not; broken: none,
\* blank or repeated ones
HeaderRejections(a, header) ==
  LET unknown == header.columns \ Columns(a)
      missing == Columns(a) \ header.columns
  IN  CASE header.broken -> {<<1, "MALFORMED_HEADER", "">>}
        [] ~header.broken /\ unknown \cup missing # {} ->
             {<<1, "UNKNOWN_COLUMN", f>> : f \in unknown}
             \cup {<<1, "MISSING_COLUMN", f>> : f \in missing}
        [] OTHER -> IF header.ordered THEN {} ELSE {<<1, "MALFORMED_HEADER", "">>}

Order == <<"products", "warehouses", "suppliers", "orders", "order_items", "purchase_orders",
           "purchase_order_items", "inventory", "inventory_movements", "shipments">>

Missing == [Nothing EXCEPT !.rejections = {<<1, "MISSING_ARTIFACT", "">>}]
Unknown == [Nothing EXCEPT !.rejections = {<<1, "UNKNOWN_ARTIFACT", "">>}]

Sources(result) == {row.id : row \in Range(result.rows)}

\* the artifact's own result, with what the header adds
Validated(a, file, known) ==
  [ValidateRows(a, file.rows, known) EXCEPT !.rejections = @ \cup HeaderRejections(a, file.header)]

Before(a, b) ==
  \E m, n \in DOMAIN Order : m < n /\ Order[m] = a /\ Order[n] = b

\* the artifacts are validated in Order; the ids accepted for one are known to
\* those after it
ValidateBundle(declared, files) ==
  LET result[a \in Artifacts] ==
        IF a \notin DOMAIN files THEN Missing
        ELSE Validated(a, files[a], [rel \in Relations |->
               IF rel \in DOMAIN files /\ Before(rel, a) THEN Sources(result[rel]) ELSE {}])
  IN  [x \in declared |-> IF x = Unsupported THEN Unknown ELSE result[x]]

\* _manifest_rejections
Miscounted(declared, files) ==
  {x \in DOMAIN declared : declared[x] # IF x \in DOMAIN files THEN Len(files[x].rows) ELSE 0}

\* the rows accepted for artifact a
AcceptedRows(results, a) == IF a \in DOMAIN results THEN Range(results[a].rows) ELSE {}

\* what ingest rejects a bundle for before it opens a transaction
Rejections(results) == {x \in DOMAIN results : results[x].rejections # {}}

-----------------------------------------------------------------------------
(* A bundle that should be accepted, said without a loop *)

\* a row that stands on its own
Flawless(a, row) ==
  /\ \A f \in DOMAIN row.odd :
       /\ row.odd[f] \notin {"malformed", "wrong"}
       /\ row.odd[f] = "blank" => f \notin Required(a)
       /\ row.odd[f] = "beyond" => Class(row, Compared[f]) = "blank"

Exact(a, header) == ~header.broken /\ header.ordered /\ header.columns = Columns(a)

\* every row flawless, every reference to a row of the bundle, one meaning for a
\* source id, one snapshot for a product in a warehouse, files as declared
Consistent(declared, files) ==
  /\ Unsupported \notin DOMAIN declared
  /\ \A a \in DOMAIN declared : a \in DOMAIN files /\ Len(files[a].rows) = declared[a]
  /\ \A a \in DOMAIN files :
       LET rows == files[a].rows IN
       /\ Exact(a, files[a].header)
       /\ \A n \in DOMAIN rows :
            /\ Flawless(a, rows[n])
            /\ \A rel \in RelationsOf(a) :
                 /\ rel \in DOMAIN files
                 /\ \E p \in DOMAIN files[rel].rows : files[rel].rows[p].id = rows[n].refs[rel]
            /\ \A m \in DOMAIN rows \ {n} :
                 SameKey(a, rows[m], rows[n])
                   => a # "inventory" /\ Canonical(rows[m]) = Canonical(rows[n])
=============================================================================

----------------------------- MODULE MCIngestion -----------------------------
(***************************************************************************)
(* Instances of Ingestion for TLC: small bundles of warehouses, products,  *)
(* orders, their items and inventory, most of them wrong in one way.       *)
(***************************************************************************)
EXTENDS Ingestion, TLC

CONSTANTS l1, l2, i1, i2, x, y, none

Plain == <<>>
Odd(f, class) == [c \in {f} |-> class]

Row(id, refs, name, odd) == [id |-> id, refs |-> refs, name |-> name, at |-> 1, odd |-> odd]

At(w) == [rel \in {"warehouses"} |-> w]
Line(o, p) == [rel \in {"orders", "products"} |-> IF rel = "orders" THEN o ELSE p]
Stock(p, w) == [rel \in {"products", "warehouses"} |-> IF rel = "products" THEN p ELSE w]

Exactly(a) == [broken |-> FALSE, columns |-> Columns(a), ordered |-> TRUE]

\* a directory whose files are as the contract has them, and as the manifest says
Bundle(m, rowsOf) ==
  [manifest |-> m, named |-> TRUE, escapes |-> FALSE,
   declared |-> [a \in DOMAIN rowsOf |-> Len(rowsOf[a])],
   files |-> [a \in DOMAIN rowsOf |-> [header |-> Exactly(a), rows |-> rowsOf[a]]]]

House == Row(i1, <<>>, x, Plain)
Product == Row(i1, <<>>, x, Plain)
Sale == Row(i1, At(i1), x, Plain)
Item == Row(i1, Line(i1, i1), x, Plain)
Snapshot == Row(none, Stock(i1, i1), x, Plain)

\* a house, a product, an order, its item and a snapshot; some of them replaced
Shop == [warehouses |-> <<House>>, products |-> <<Product>>, orders |-> <<Sale>>,
         order_items |-> <<Item>>, inventory |-> <<Snapshot>>]

\* products that are the same, say other things of one id, or want one sku
Products == {Product, [Product EXCEPT !.odd = Odd("unit_price", "padded")],
             Row(i1, <<>>, y, Plain), Row(i2, <<>>, x, Plain), Row(i2, <<>>, y, Plain)}

Catalogues ==
  {Bundle("catalogue", [Shop EXCEPT !.products = <<p, q>>]) : p \in {Product}, q \in Products}

\* files that came later under the same manifest: a newer snapshot, another order
Forged == {Bundle("shop", [Shop EXCEPT !.inventory = <<[Snapshot EXCEPT !.at = 2]>>]),
           Bundle("shop", [Shop EXCEPT !.orders = <<[Sale EXCEPT !.id = i2]>>,
                                       !.order_items = <<Row(i1, Line(i2, i1), x, Plain)>>])}

\* two snapshots, items on one line, references to nothing
Doubtful ==
  {Bundle("pairs", [Shop EXCEPT !.inventory = <<Snapshot, Snapshot>>]),
   Bundle("lines", [Shop EXCEPT !.order_items = <<Item, Row(i2, Line(i1, i1), x, Plain)>>]),
   Bundle("nowhere", [Shop EXCEPT !.orders = <<Row(i1, At(i2), x, Plain)>>]),
   Bundle("alone", [orders |-> <<Sale>>])}

Odds(a, base) ==
  {[base EXCEPT !.odd = Odd(fc[1], fc[2])] :
     fc \in {fc \in Columns(a) \X UNION {Classes(Schema(a)[f]) : f \in Columns(a)} :
               /\ fc[2] \in Classes(Schema(a)[fc[1]])
               /\ fc[2] = "beyond" => fc[1] \in DOMAIN Compared}}

\* an order or an item with one odd column
Written ==
  {Bundle("written", [Shop EXCEPT !.orders = <<row>>]) : row \in Odds("orders", Sale)}
  \cup {Bundle("written", [Shop EXCEPT !.order_items = <<row>>]) : row \in Odds("order_items", Item)}

\* headers, counts and files that are not what the contract or the manifest says
Crooked ==
  LET shop == Bundle("shop", Shop)
      Headed(h) == [shop EXCEPT !.files["orders"].header = h]
      Without(a) == [shop EXCEPT !.files = Restrict(@, DOMAIN @ \ {a})]
  IN  {Headed([Exactly("orders") EXCEPT !.broken = TRUE]),
       Headed([Exactly("orders") EXCEPT !.ordered = FALSE]),
       Headed([Exactly("orders") EXCEPT !.columns = @ \cup {"colour"}]),
       [shop EXCEPT !.named = FALSE], [shop EXCEPT !.escapes = TRUE], Without("orders"),
       [shop EXCEPT !.declared["orders"] = 2, !.manifest = "counted"],
       [shop EXCEPT !.declared = [a \in DOMAIN @ \cup {Unsupported} |-> 0], !.manifest = "strange"]}

AllBundles == {Bundle("shop", Shop)} \cup Catalogues \cup Forged \cup Doubtful \cup Written \cup Crooked
AllManifests == {b.manifest : b \in AllBundles}

\* an order that says otherwise of the id of a loaded one
Promoted == {[Sale EXCEPT !.name = y]}

Symmetric == Permutations(Loaders)
=============================================================================

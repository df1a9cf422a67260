------------------------------ MODULE Ingestion ------------------------------
(***************************************************************************)
(* ingest (ingestion/loader.py): processes that load bundles into dataset  *)
(* versions, beside promoted orders that arrive in versions already there. *)
(*                                                                         *)
(* A manifest stands for its dataset version: ensure_dataset_version finds *)
(* one by the identity of the manifest.  tables[m] are the committed rows  *)
(* of version m; what a process has flushed and not committed is in mine.  *)
(* Which version is READY or ACTIVE is the subject of DatasetReplacement.  *)
(***************************************************************************)
EXTENDS BundleRows

CONSTANTS
  Loaders,      \* processes that run ingest
  Manifests,    \* manifests, by identity
  Bundles,      \* bundle directories somebody may ingest
  Projections,  \* orders that promotion may project into a version
  MaxLoads,     \* bound: ingests started in a behaviour
  NoManifest

NoLoader == "nobody"

\* escapes: a declared path leads out of the directory; a promoted order comes
\* from the columns of its observation, which are those of the table
ASSUME IngestionAssumption ==
  /\ NoManifest \notin Manifests
  /\ NoLoader \notin Loaders
  /\ MaxLoads \in Nat
  /\ \A b \in Bundles :
       /\ DOMAIN b = {"manifest", "named", "escapes", "declared", "files"}
       /\ b.manifest \in Manifests /\ b.named \in BOOLEAN /\ b.escapes \in BOOLEAN
       /\ DOMAIN b.declared \subseteq Artifacts \cup {Unsupported}
       /\ DOMAIN b.files \subseteq DOMAIN b.declared \cap Artifacts
       /\ \A a \in DOMAIN b.files : IsFile(a, b.files[a].rows)
       /\ b.files # NoManifest
  /\ \A b, c \in Bundles : b.manifest = c.manifest /\ b.named /\ c.named => b.declared = c.declared
  /\ \A row \in Projections :
       IsRow("orders", row) /\ \A f \in DOMAIN row.odd : row.odd[f] = "blank"

Contents == {b.files : b \in Bundles}

Columnless == [a \in Artifacts |-> {}]

\* a row of a scoped table; own: it came from a bundle, not from a promotion
TableRow(row, own) == [row |-> row, own |-> own]

VARIABLES
  content,   \* content hash of every version there is (its files)
  tables,    \* committed rows of every version
  lock,      \* who holds the advisory lock
  pc,        \* what each process does next
  bundle,    \* the bundle it ingests
  results,   \* what validation said of it
  mine,      \* rows it has inserted and not committed
  at,        \* index of the artifact it applies
  counts,    \* inserted and skipped rows of its summaries
  answer,    \* how its last ingest ended
  loads      \* ingests started so far (bound)

localVars == <<bundle, results, mine, at, counts, answer>>
vars == <<content, tables, lock, pc, localVars, loads>>

Idle == [manifest |-> NoManifest, named |-> TRUE, escapes |-> FALSE, declared |-> <<>>,
         files |-> <<>>]
NoCounts == [inserted |-> [a \in Artifacts |-> 0], skipped |-> [a \in Artifacts |-> 0]]

Steps == {"idle", "read", "validate", "ensure", "preflight", "apply", "commit"}
Answers == {"none", "raised", "rejected", "conflict", "committed", "died"}

Init ==
  /\ content = [m \in Manifests |-> NoManifest]
  /\ tables = [m \in Manifests |-> Columnless]
  /\ lock = NoLoader
  /\ pc = [p \in Loaders |-> "idle"]
  /\ bundle = [p \in Loaders |-> Idle]
  /\ results = [p \in Loaders |-> <<>>]
  /\ mine = [p \in Loaders |-> Columnless]
  /\ at = [p \in Loaders |-> 0]
  /\ counts = [p \in Loaders |-> NoCounts]
  /\ answer = [p \in Loaders |-> "none"]
  /\ loads = 0

TypeOK ==
  /\ \A m \in Manifests : content[m] = NoManifest \/ content[m] \in Contents
  /\ \A m \in Manifests, a \in Artifacts : \A x \in tables[m][a] :
       /\ x.own \in BOOLEAN
       /\ \A f \in DOMAIN x.row.odd : x.row.odd[f] \in {"blank", "beyond", "rounded"}
  /\ lock \in Loaders \cup {NoLoader}
  /\ pc \in [Loaders -> Steps]
  /\ \A p \in Loaders : bundle[p] = Idle \/ bundle[p] \in Bundles
  /\ at \in [Loaders -> 0..Len(Order) + 1]
  /\ answer \in [Loaders -> Answers]
  /\ loads \in 0..MaxLoads

-----------------------------------------------------------------------------
(* The tables *)

Version(p) == bundle[p].manifest

\* what a statement of p reads of its version
Seen(p, a) == tables[Version(p)][a] \cup mine[p][a]

\* a row as its columns keep it
Stored(row) ==
  [row EXCEPT !.odd = [f \in DOMAIN @ |-> IF @[f] \in {"fine", "tiny"} THEN "rounded" ELSE @[f]]]

\* the columns hold the row and its checks pass
Holds(a, row) ==
  \A f \in DOMAIN row.odd :
    /\ row.odd[f] # "long"
    /\ ~(row.odd[f] = "tiny" /\ Schema(a)[f] = "positive")

\* two rows that a unique constraint keeps apart; orders of a bundle have no
\* namespace, and rows without one are never equal
Excluded(a, row, other) ==
  CASE a = "orders" -> FALSE
    [] a \in {"products", "warehouses", "suppliers", "purchase_orders", "shipments"} ->
         row.id = other.id \/ row.name = other.name
    [] a = "order_items" ->
         row.id = other.id \/ (row.refs["orders"] = other.refs["orders"] /\ row.name = other.name)
    [] OTHER -> SameKey(a, row, other)

\* the rows that a dictionary of stored rows may find under the key of row: of
\* two with one key it keeps the one read last
Existing(p, a, row) == {x \in Seen(p, a) : SameKey(a, x.row, row)}

-----------------------------------------------------------------------------
(* One ingest *)

Accepted(p, a) == AcceptedRows(results[p], a)

\* the end of an ingest: its transaction, if it has one, publishes or drops
End(p, keep, how) ==
  /\ tables' = IF keep THEN [tables EXCEPT ![Version(p)] = [a \in Artifacts |-> Seen(p, a)]]
               ELSE tables
  /\ content' = IF keep THEN [content EXCEPT ![Version(p)] = bundle[p].files] ELSE content
  /\ lock' = IF lock = p THEN NoLoader ELSE lock
  /\ pc' = [pc EXCEPT ![p] = "idle"]
  /\ bundle' = [bundle EXCEPT ![p] = Idle]
  /\ results' = [results EXCEPT ![p] = <<>>]
  /\ mine' = [mine EXCEPT ![p] = Columnless]
  /\ at' = [at EXCEPT ![p] = 0]
  /\ counts' = [counts EXCEPT ![p] = NoCounts]
  /\ answer' = [answer EXCEPT ![p] = how]
  /\ loads' = loads

Crash(p) ==
  /\ pc[p] # "idle"
  /\ End(p, FALSE, "died")

Start(p, b) ==
  /\ pc[p] = "idle"
  /\ loads < MaxLoads
  /\ loads' = loads + 1
  /\ pc' = [pc EXCEPT ![p] = "read"]
  /\ bundle' = [bundle EXCEPT ![p] = b]
  /\ answer' = [answer EXCEPT ![p] = "none"]
  /\ UNCHANGED <<content, tables, lock, results, mine, at, counts>>

\* named: the identity in the manifest is the one of its contents
Readable(b) == b.named /\ ~b.escapes

Read(p) ==
  /\ pc[p] = "read"
  /\ Readable(bundle[p])
  /\ pc' = [pc EXCEPT ![p] = "validate"]
  /\ results' = [results EXCEPT ![p] = ValidateBundle(DOMAIN bundle[p].declared, bundle[p].files)]
  /\ UNCHANGED <<content, tables, lock, bundle, mine, at, counts, answer, loads>>

Unreadable(p) ==
  /\ pc[p] = "read"
  /\ ~Readable(bundle[p])
  /\ End(p, FALSE, "raised")

Refused(p) ==
  \/ Rejections(results[p]) # {}
  \/ Miscounted(bundle[p].declared, bundle[p].files) # {}

Reject(p) ==
  /\ pc[p] = "validate"
  /\ Refused(p)
  /\ End(p, FALSE, "rejected")

Open(p) ==
  /\ pc[p] = "validate"
  /\ ~Refused(p)
  /\ pc' = [pc EXCEPT ![p] = "ensure"]
  /\ UNCHANGED <<content, tables, lock, localVars, loads>>

\* mutant of Ensure: the version is found by its manifest, its content is not compared
EnsureAnyContent(p) ==
  /\ pc[p] = "ensure"
  /\ lock = NoLoader
  /\ lock' = p
  /\ pc' = [pc EXCEPT ![p] = "preflight"]
  /\ UNCHANGED <<content, tables, localVars, loads>>

\* ensure_dataset_version, under the advisory lock
Ensure(p) ==
  /\ pc[p] = "ensure"
  /\ lock = NoLoader
  /\ content[Version(p)] \in {NoManifest, bundle[p].files}
  /\ lock' = p
  /\ pc' = [pc EXCEPT ![p] = "preflight"]
  /\ UNCHANGED <<content, tables, localVars, loads>>

\* the version exists with other content
OtherContent(p) ==
  /\ pc[p] = "ensure"
  /\ lock = NoLoader
  /\ content[Version(p)] \notin {NoManifest, bundle[p].files}
  /\ End(p, FALSE, "raised")

\* the stored row is not the one of the bundle
Differs(x, row) == x.row # row

\* rows without a stored counterpart
New(p, a) == {row \in Accepted(p, a) : Existing(p, a, row) = {}}

\* rows that differ from whichever stored row is compared with them
AllConflicting(p) ==
  \E a \in Artifacts : \E row \in Accepted(p, a) :
    Existing(p, a, row) # {} /\ \A x \in Existing(p, a, row) : Differs(x, row)

SomeConflicting(p) ==
  \E a \in Artifacts : \E row \in Accepted(p, a) :
    \E x \in Existing(p, a, row) : Differs(x, row)

\* mutant of Preflight: repeated rows of a file are counted again
PreflightOfLines(p) ==
  /\ pc[p] = "preflight"
  /\ ~AllConflicting(p)
  /\ counts' = [counts EXCEPT ![p] =
       [inserted |-> [a \in Artifacts |-> IF a \in DOMAIN bundle[p].files
                                          THEN Len(bundle[p].files[a].rows) ELSE 0],
        skipped |-> [a \in Artifacts |-> 0]]]
  /\ pc' = [pc EXCEPT ![p] = "apply"]
  /\ at' = [at EXCEPT ![p] = 1]
  /\ UNCHANGED <<content, tables, lock, bundle, results, mine, answer, loads>>

\* every accepted row is compared with the stored one of its key; a stored
\* snapshot is never older or newer than the one it is compared with (theorem
\* SnapshotsAreNeverNewer), so that the branches for those do nothing
Preflight(p) ==
  /\ pc[p] = "preflight"
  /\ ~AllConflicting(p)
  /\ counts' = [counts EXCEPT ![p] =
       [inserted |-> [a \in Artifacts |-> Cardinality(New(p, a))],
        skipped |-> [a \in Artifacts |-> Cardinality(Accepted(p, a) \ New(p, a))]]]
  /\ pc' = [pc EXCEPT ![p] = "apply"]
  /\ at' = [at EXCEPT ![p] = 1]
  /\ UNCHANGED <<content, tables, lock, bundle, results, mine, answer, loads>>

\* ingest returns from inside its transaction, which commits
Conflict(p) ==
  /\ pc[p] = "preflight"
  /\ SomeConflicting(p)
  /\ End(p, TRUE, "conflict")

\* products, warehouses and suppliers, then what refers to them, inventory last
ApplyOrder ==
  <<"products", "warehouses", "suppliers", "orders", "purchase_orders", "order_items",
    "purchase_order_items", "inventory_movements", "shipments", "inventory">>

Applying(p) == ApplyOrder[at[p]]

\* the ids that _apply has collected when it reaches an artifact
Collected(p, rel) ==
  IF \E n \in 1..at[p] - 1 : ApplyOrder[n] = rel THEN {x.row.id : x \in Seen(p, rel)} ELSE {}

\* a row whose parent has no id yet is a KeyError
Unresolved(p) ==
  \E row \in New(p, Applying(p)) : \E rel \in RelationsOf(Applying(p)) :
    row.refs[rel] \notin Collected(p, rel)

Violates(p, a) ==
  \E row \in New(p, a) :
    \/ ~Holds(a, row)
    \/ \E other \in New(p, a) \ {row} : Excluded(a, row, other)
    \/ \E x \in Seen(p, a) : Excluded(a, row, x.row)

\* the rows of one artifact are inserted and flushed
Apply(p) ==
  /\ pc[p] = "apply"
  /\ at[p] <= Len(ApplyOrder)
  /\ ~Unresolved(p)
  /\ ~Violates(p, Applying(p))
  /\ mine' = [mine EXCEPT ![p][Applying(p)] =
                @ \cup {TableRow(Stored(row), TRUE) : row \in New(p, Applying(p))}]
  /\ at' = [at EXCEPT ![p] = @ + 1]
  /\ pc' = IF at[p] = Len(ApplyOrder) THEN [pc EXCEPT ![p] = "commit"] ELSE pc
  /\ UNCHANGED <<content, tables, lock, bundle, results, counts, answer, loads>>

\* mutant of ApplyFails: the error is caught inside the transaction
ApplyFailsQuietly(p) ==
  /\ pc[p] = "apply"
  /\ Unresolved(p) \/ Violates(p, Applying(p))
  /\ End(p, TRUE, "raised")

\* a constraint that validation does not know of refuses a row
ApplyFails(p) ==
  /\ pc[p] = "apply"
  /\ Unresolved(p) \/ Violates(p, Applying(p))
  /\ End(p, FALSE, "raised")

Commit(p) ==
  /\ pc[p] = "commit"
  /\ End(p, TRUE, "committed")

\* promotion projects an order of a namespace into a version, without the lock
Project(m, row) ==
  /\ content[m] # NoManifest
  /\ TableRow(row, FALSE) \notin tables[m]["orders"]
  /\ tables' = [tables EXCEPT ![m]["orders"] = @ \cup {TableRow(row, FALSE)}]
  /\ UNCHANGED <<content, lock, pc, localVars, loads>>

\* the bound on ingests is reached and nobody works: not a deadlock
AllLoaded ==
  /\ loads = MaxLoads
  /\ \A p \in Loaders : pc[p] = "idle"
  /\ UNCHANGED vars

Next ==
  \/ \E p \in Loaders :
       \/ \E b \in Bundles : Start(p, b)
       \/ Read(p) \/ Unreadable(p) \/ Reject(p) \/ Open(p) \/ Ensure(p) \/ OtherContent(p)
       \/ Preflight(p) \/ Conflict(p) \/ Apply(p) \/ ApplyFails(p) \/ Commit(p) \/ Crash(p)
  \/ \E m \in Manifests : \E row \in Projections : Project(m, row)
  \/ AllLoaded

Spec == Init /\ [][Next]_vars

-----------------------------------------------------------------------------
(* Properties *)

(* The loop of validate_rows and the order of validate_bundle_rows, which  *)
(* carry ids from one artifact to the next, accept what a definition       *)
(* without a loop accepts, and its rows (validation.py:109-327).           *)
ValidationIsExact ==
  \A p \in Loaders : pc[p] = "validate" =>
    LET declared == bundle[p].declared
        files == bundle[p].files
    IN  /\ Refused(p) <=> ~Consistent(declared, files)
        /\ ~Refused(p) => \A a \in DOMAIN files :
             Accepted(p, a) = {Canonical(files[a].rows[n]) : n \in DOMAIN files[a].rows}

(* When a row is applied, the ids of the rows it refers to are known:      *)
(* _apply's order of artifacts is not the one they were validated in       *)
(* (loader.py:298-372).                                                    *)
ParentsComeFirst == \A p \in Loaders : pc[p] = "apply" => ~Unresolved(p)

(* A version that a load committed holds every row of its bundle: an error *)
(* or a crash between two artifacts leaves nothing (loader.py:418-442).    *)
(* One that the command line only ensured has no rows, and no part of any. *)
VersionsAreWhole ==
  \A m \in Manifests : content[m] # NoManifest =>
    \A a \in DOMAIN content[m] : \A n \in DOMAIN content[m][a].rows :
      TableRow(Stored(Canonical(content[m][a].rows[n])), TRUE) \in tables[m][a]

(* A repeated load, of a retry or of a second process, changes nothing in  *)
(* a version, whatever promotions did to it meanwhile (loader.py:204-280). *)
ReloadChangesNothing ==
  [][\A m \in Manifests : content[m] # NoManifest =>
       \A a \in Artifacts :
         {x \in tables'[m][a] : x.own} = {x \in tables[m][a] : x.own}]_vars

(* The summaries of a committed load, which are counted before anything is *)
(* written, say what was written (loader.py:219-234, 305-372).             *)
SummariesAreTrue ==
  [][\A p \in Loaders : Commit(p) =>
       \A a \in Artifacts :
         /\ counts[p].inserted[a] = Cardinality(tables'[Version(p)][a] \ tables[Version(p)][a])
         /\ counts[p].inserted[a] + counts[p].skipped[a] = Cardinality(Accepted(p, a))]_vars
=============================================================================

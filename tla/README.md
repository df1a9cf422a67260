# TLA+ models of the operations control tower

This directory models `control_tower`: what its processes do to the PostgreSQL
database they share, what its loader and rules compute from their inputs, and
what the dashboard may show of all that. Paths below are relative to the
package directory `src/control_tower/` unless they start with `docs/` or name
`README.md`, which is the repository's.

## 1. The system

The control tower is a set of short-lived processes over one PostgreSQL
database. Every table that holds operational data carries a
`dataset_version_id`; the singleton row of `dataset_activations` is the **read
pointer** that says which version queries are scoped to.

| component | state it keeps | operations | talks to |
|---|---|---|---|
| dataset replacement (`replacement/`) | `dataset_versions`, `dataset_activations` | ensure, stage, validate, activate, rollback, backfill, under one advisory transaction lock; an operator command line | called by ingestion; read by everybody |
| bundle ingestion (`ingestion/` without observations) | the rows of one dataset version | read files, validate headers, rows and references, preflight against stored rows, apply artifact by artifact, activate: one transaction | replacement |
| order observations (`ingestion/order_observations.py`) | identities, receipts, observations, projected orders | stage, promote one or all | row locks, savepoints |
| detection rules, severity (`exceptions/rules.py`, `severity.py`) | none | six rules, read-only, in a fixed order | called by the engine |
| exception engine (`exceptions/service.py`) | `exceptions`, `exception_history` | persist the findings of a run: refresh, skip or create | row locks, two unique indexes |
| exception lifecycle (`exceptions/lifecycle.py`) | the same | one status transition and its audit row | called by the API and by bootstrap |
| bootstrap (`bootstrap.py`) | none | generate, ingest with activation, then detect and seed sample lifecycles in a second transaction | all of the above |
| read API (`api/`) | none | paged lists, details, key figures; `PATCH /exceptions/{id}/status` | pointer, lifecycle |
| KPI service (`kpis/`) | none | eleven counting statements | pointer |
| dashboard (`dashboard/`) | a cache in each Streamlit session | HTTP client of the API: summary, queue, facets, export, details, update form | API |
| synthetic generator, external validation, scripts | files | sequential tools | - |

What makes it hard:

* **Concurrency at READ COMMITTED.** Each statement sees what is committed when
  it starts. `SELECT ... FOR UPDATE` picks rows by that, waits for their locks,
  and decides again on what it then finds. An insertion or update that collides
  in a unique index waits for the other writer and fails if that one commits.
* **Objects in memory.** The session factory (`db.py:50-57`) neither flushes
  automatically nor expires objects at commit, and a locking select does not
  refresh an object the session has already loaded.
* **The read pointer** moves between any two statements of a process that
  resolved it, and between any two requests of a paged reader.
* **Caches**: the dashboard answers from replies it has read earlier.
* **Crashes and lost answers**: a process may die between any two statements;
  what survives is exactly what was committed. A caller may not learn that its
  update was.
* **Loops with many outcomes**: validation, conflicts and joins decide by row,
  and their parts run in different orders.
* **Order of rollbacks** rests on `updated_at`, written from host clocks.
* There are no messages, queues or timers; retries are people running a command
  again.

What makes each component correct: replacement has exactly one active version,
an undo stack that follows the order of activations, one row per identity, no
reader of part of a bundle. Ingestion accepts exactly the consistent bundles and
applies them as a whole or not at all. Promotion only moves a projection to
newer evidence and keeps what it promoted. The rules report an entity once,
in a fixed order, and again while its cause lasts. The engine has one active record per issue, never
raises settled facts again and covers every finding. The lifecycle has an
unbroken legal audit trail and final terminal states. Figures of one moment
agree, and an operator sees the effect of an update that was acknowledged.
Everything that starts ends.

## 2. Modules

```
DatasetTable <-- DatasetReplacement <-- DatasetHistory <-- MCDatasetReplacement
                                           ^     |  INSTANCE
                                           |     v
                                           |  ActivationHistory (abstract)
                              DatasetReplacementProofs

BundleRows <-- Ingestion <-- MCIngestion        DetectionRules <-- Detection <-- MCDetection
                  ^                                                    ^
            IngestionProofs                                     DetectionProofs

                                                ExceptionRows <-- ExceptionEngine <-- MCExceptionEngine
                                                                        ^
OrderAssessment <-- OrderObservations <--+                    ExceptionEngineProofs <-- ExceptionRunProofs
                        ^                |
                   OrderProofs      OrderHistory <-- MCOrderObservations
                                         |  INSTANCE
                                         v                    Dashboard <-- MCDashboard
                                    OrderLedger (abstract)        ^
                                                              DashboardProofs
```

Each part is split the same way. A *data* module has values and what one
function does to them; a *process* module has the variables, the sessions, and
one action for each statement or service call; an *MC* module has instances for
TLC; a *proofs* module has theorems. `SortedSets` puts a set in the order of a
relation, for the lists that `DatasetHistory`, `OrderHistory` and `Dashboard`
read off their tables; `SetLemmas` has the lemmas about it and about finite sets. The operators marked "mutant of" belong to
the runs: each is a plausible mistake in the code above it and shows that the
property it is listed with can fail.

### Dataset replacement

* `DatasetTable`: one value `t` for both tables. `status`, `stamp` (the column
  `updated_at`), `ident` (logical identity and content hash), `data` (how much
  of the bundle the scoped tables hold) and `pointer`. `Inserted`, `Validated`,
  `Retired`, `Activated`, `RolledBack`, `Backfilled` are the effects of the
  functions of `replacement/service.py`; `MayX` is the condition under which X
  does not raise. `Migrated` is what the versioning migration leaves.
* `DatasetReplacement`: a session is `idle`, `waiting` for
  `pg_advisory_xact_lock`, or `open`, with its uncommitted tables in `view[p]`.
  One action per service call (`EnsureExisting`, `EnsureInsert`, `Stage`,
  `Validate`, `Activate`, `Rollback`, `Backfill`), the outcomes of the loader
  between them (`PreflightPasses`, `PreflightConflicts`, which commits, and
  `ApplySome`/`ApplyRest`), `Refuse` for a `DatasetLifecycleError`,
  `FailOnMissingIdentity`, `Commit` and `Crash`. API sessions `ReadPointer` and
  then `ReadRows`. `clock` ticks with every flush and `ClockOffset` puts a host
  ahead. `base` is auxiliary: the tables a transaction started on.
* `ActivationHistory`: what operators are promised. A history of versions that
  activation extends and rollback shortens.
* `DatasetHistory`: the refinement mapping. The RETIRED rows in the order of
  their stamps, then the pointer.

Statements inside one service call are one step: all of a call runs under the
advisory lock and only readers of committed data can come between its
statements. That is why `Acquire` takes `db` as the view.

### Bundle ingestion

* `BundleRows`: files as `csv.DictReader` gives them. A row has an id, its
  references, a name (whatever its table wants unique), an instant, and the
  columns written in an odd way, by what the code tells apart (`Classes`:
  blank, padded, malformed, negative, too fine for its column, too long, ...).
  `ValidateRows` is the loop over the rows of an artifact (`Accept` per row),
  `ValidateBundle` the loop over artifacts, each checked against the ids the
  earlier ones contributed. `HeaderRejections` and `Miscounted` are the checks
  around them.
* `Ingestion`: `Start`, `Read` or `Unreadable`, `Reject` or `Open` (which waits for the
  advisory lock), `Ensure` or `OtherContent`, `Preflight` or `Conflict`, one `Apply` for each
  artifact in `ApplyOrder`, `Commit`; `ApplyFails` is the flush that PostgreSQL
  refuses, `Unresolved` the reference that has no row. `Project` is a promotion
  by another session into a version that exists. `Stored` is what the column
  types make of a row (rounding), `Differs` what preflight compares.
* It details the steps that `DatasetReplacement` only tells by outcome
  (`PreflightPasses`, `PreflightConflicts`, `ApplySome`, `ApplyRest`); a
  manifest stands for its version, and the versions' status is left to the other model.

### Order observations

* `OrderAssessment`: how a source row is read and judged, with the constraints
  of the tables it may reach later.
* `OrderObservations`: an observation `e` is a key, a version and facts. `obs[e]`
  and `orders[k]` are the latest row versions, `settled` and `projected` what is
  committed. A transaction is a script of stage and promote calls. Staging finds
  or inserts the identity in a savepoint (the loser of the race reads the
  winner's), then the observation and its receipt. Promotion locks the
  observation, its identity, the order and the observation it supersedes,
  compares versions, and inserts or updates the projection. `loaded` is the
  session's identity map: what promotion decides by is that object, not the row.
* `OrderLedger`, `OrderHistory`: readers are promised a ledger of promoted
  evidence for each order that only grows at its newer end; the mapping reads it
  off the committed PROMOTED observations.

### Detection

* `DetectionRules`: the six rules, the fixed order of `detect_all` and the
  severity as functions of the rows of a version and an instant. A finding is
  `about` an entity, named by its source ids, which order the findings. `key` is
  what the code makes of them: the ids joined with a colon. `Pieces(id)` is the
  text of an id as its pieces between colons, so joining is concatenation
  (`IssueKey`) and may make one key of two entities. `facts` is what the
  fingerprint covers.
  `IsVersion` is what the constraints of the tables admit: ids are unique, a
  product has one snapshot in a warehouse, no more is fulfilled than was ordered.
* `Detection`: a run over a version, then over the same version later, or over a
  next version in which an item was shipped or a purchase received.

### Exceptions

* `ExceptionRows`: a record with its audit trail `log`. `facts` stands for the
  fingerprint; the deduplication key is the dataset, the issue and the facts. `Collide` is what the two
  unique indexes refuse. `Created`, `Adopted`, `Moved` are the effects.
* `ExceptionEngine`: `committed[r]` is what others see of record `r`, `rows[r]`
  its latest version, `holder[r]` its row lock. A run goes through
  `StartRun` (resolve the pointer, evaluate all rules), and then for each finding
  `FindCase`, and either `Refresh` or `CaseGone` when it gets the lock. `Refresh`
  goes on to look for an owner of the new key (`KeepKey`, `TakeKey`) and to `Adopt`
  it. Without an active record `FindKey` leads to `Skip`, `KeyGone` or
  `Insert`. `AdoptFails` and `InsertFails` are the IntegrityError that ends a
  whole run: the code has no savepoint. A PATCH request is `StartPatch` and one
  `Transition`. A bootstrap is a run followed by `Seed` and the transitions of
  the sampled records. `TransitionFails` is 404, 409 or a refused update.
  `DeadlockDetected` aborts one session of a cycle, `Repoint` moves the pointer.
* What a run finds (`Reports`) is a free choice of issues and facts in the order
  of `detect_all`, whatever the rules compute. `Task.believed` is the status the
  session holds in memory: "NONE" for a PATCH, which loads the record with its
  lock, and the status read in `Seed`, without locks, for a bootstrap.

Two abstractions to know about. A refresh that does not change the key is taken
to write the values the record had (as with an equal `as_of`), so a session that
meets it in a unique index does not wait for it. And a dataset always is active,
as it is after the migration.

### Reads and the dashboard

* `Dashboard`: one Streamlit session. The script runs from the summary through
  the queue, the facets, the paged export and the details to the form, and again
  at every interaction (`Rerun`). A request is under way with a key, the dataset
  it resolved, and the rows or figures its statements read so far; each statement
  is a step, so commits of other sessions (`OpenCase`, `RefreshCase`, `Operate`,
  `Replace`, `PromoteOrder`) fall between any two. `Fail` ends any request, a
  sent update included, with or without its effect. `cache` holds what has been
  answered, and `Invalidate` drops it with the answer of an update. `since` and
  `commits` are auxiliary: how many commits there were when a reply was begun.

## 3. Runs

| run | instance | what it shows |
|---|---|---|
| `MCDatasetReplacement` | 2 sessions, 1 reader, 4 requests, 4 ids | loads of two bundles and a forged copy race with the operator commands, which validate and activate versions loaded or not and roll back, and with the backfill and crashes: all safety properties |
| `MCReplacementHistory` | 2 fair sessions, 4 requests, 5 ids, 3 bundles | refinement of `ActivationHistory`; every request is answered |
| `MCExceptionEngine` | 2 sessions, 2 issues, 2 fingerprints, 3 records, 5 jobs | runs beside status changes: all safety properties, and a deadlock needs a run that lost its case |
| `MCExceptionBootstrap` | 2 datasets, 1 issue, 3 records, 4 jobs | every finding of a committed run has a record with its facts although the pointer moves and bootstrap reads without locks |
| `MCExceptionLiveness` | 2 issues, 2 samples, 3 jobs | everything ends, through deadlocks and crashes |
| `MCExceptionTerminal` | bootstrap beside PATCH | **violation**: a DISMISSED is overwritten |
| `MCOrderObservations` | 2 sessions, 7 observations of 2 keys, 11 scripts, 4 transactions | the ledger, its links and the projected facts, through races on identities, observations and order numbers |
| `MCOrderLoaded` | 2 fair sessions, 2 versions, objects loaded earlier, 4 transactions | a projection still only moves to newer evidence, and every transaction ends |
| `MCOrderStale` | the same | **violation**: a retried promotion blocks promoted evidence |
| `MCIngestion` | 2 loaders, 2 loads, about a hundred bundles, a promoted order | validation is exact, loads are whole, ordered, changed by no reload and truthfully summarised |
| `MCDetection` | 32 networks at 3 instants | a run reports each entity once per rule and in order, a lasting condition keeps its facts and severity, and the flow of goods raises no alarm |
| `MCDashboard` | 5 cases of 2 datasets, 1 order, 2 commits, 2 reruns | figures agree, a reply is of one dataset, exports are complete, own updates are seen |

Bounds. `MaxRequests`, `MaxJobs`, `MaxStarts`, `MaxLoads`, `MaxCommits` and
`MaxReruns` cap how much starts; they and the sizes of the constant sets are the
only bounds on behaviours (`Records` and `Ids` bound insertions: with 3 records
and 5 jobs an insertion may find no id left, and the run then waits as if it had
crashed). They are enough because a hazard here needs two transactions in
flight, and a few before them that prepare the rows: a case has to be created,
moved to its state, and then raced for by two sessions, which is four jobs; an
order needs two versions promoted and a third session to retry; a load needs an
earlier load of the same version and a promotion between. Four requests by two
sessions let a history be extended, extended again by a racing load, rolled back and
re-activated. Bundles of one or two rows per artifact reach every branch of
validation, since each rule looks at one row, at one earlier row of its file or at
the ids of another file; the proofs cover longer files. `Symmetric` permutes
sessions in safety runs only. `MCDetection` starts from the networks in which
each rule is at its threshold: promised before or after the window, one or three
units on hand, reserved or not, movements that explain the count, miss it by one
or fall on the instant of the snapshot; product 1 in warehouse 3 and product 2 in
warehouse 4 have ids that join to one issue key, and both are short in some. In `MCDashboard` pages hold one row, so
that every list spans pages, and two commits suffice to take a row out of a list
and move the pointer within one export.

Fairness: weak fairness of each session's own steps, that is, a process that has
started keeps executing its statements (`Progress`). No `lock_timeout` or
`statement_timeout` is set, and PostgreSQL resolves lock cycles after
`deadlock_timeout`, which is why the deadlock actions are part of progress.
Nothing forces anyone to submit a request, and nobody has to crash.

Two runs are expected to fail (`findings` in `PROJECT.json`):

* `bootstrap.py:67`: the seeding transitions records it read without locks, so a
  DISMISSED that an operator committed in between is overwritten, against
  `docs/architecture.md:126`.
* `order_observations.py:679`: promotion locks the row but decides by the object
  the session has. One loaded while NORMALIZED, and promoted and superseded by
  others since, is set to CONFLICT_BLOCKED.

## 4. Observations

What the models made visible. Most of it contradicts no text of the repository or
belongs to its environment; where a text says otherwise, it is quoted:

* With hosts whose clocks disagree the undo order breaks (`service.py:262`):
  `ClockOffset <- SkewedClocks` in `MCDatasetReplacement.cfg`, without `SYMMETRY` as
  the sessions then differ, violates `StackDiscipline`. `UndoStack` is therefore proved under `OneClock`.
* `validate_dataset` does not look at the rows (`service.py:190`, "Move STAGED to
  READY after the loader's transactional checks."): the command line can ensure,
  validate and activate a version that was never loaded, as
  `tests/unit/test_dataset_versioning.py:274-285` does. No property here ties READY
  or ACTIVE to loaded rows. Readers of such a version find no rows at all, or all of
  them once a load of its bundle has committed, but no part (`ReadersSeeNoPart`).
* The command-line rollback that names no dataset (`replacement/__main__.py:39`)
  is accepted and always ends in an `AttributeError` (`FailOnMissingIdentity`).
* Overlapping detection runs may put the older fingerprint back
  (`exceptions/service.py:90`); nothing orders them.
* Two detection runs can deadlock although all runs lock in one order: a run that
  selected an active case (`exceptions/service.py:84`), waited for its lock and
  found it settled keeps the lock (PostgreSQL does not give back the row that a
  locking select then leaves out), goes on to the select of the key
  (`exceptions/service.py:104`), and may meet another run that did the same with
  another record of the issue. It takes three sessions and six jobs
  (`Sessions = {s1, s2, s3}`, `Issues = {i1}`, `IssueOrder <- OneIssue`,
  `MaxJobs = 6` in `MCExceptionEngine.cfg`), more than the run can afford with two
  issues. `OnlyLosersDeadlock` says that there is no other way.
  With a bootstrap in the mix there is: its seeding locks records in another order
  than its run did. PostgreSQL aborts one of a cycle, and the liveness run shows
  that everything ends. A bootstrap that dies between its two
  transactions leaves an active dataset without exceptions.
* "Identical source IDs are skipped" (`docs/architecture.md:97`; `README.md:136-137`
  "supports identical source-ID re-ingestion") does not hold of a bundle with a
  number of more decimals than its column. The number passes validation and is
  stored rounded, and every further load of the bundle is in conflict with its own
  row: `RoundedRowsConflict` proves it.
* "A newer inventory snapshot updates its natural key; stale or equal-time
  conflicting snapshots are rejected" (`README.md:137-138`): the branches for newer
  and stale ones (`loader.py:256-267` and 366-369) are never taken. A version holds
  snapshots of the one content that its manifest identity admits; newer files under
  that identity are refused by `ensure`, and under another go into another version. `SnapshotsAreNeverNewer` proves it.
* Two identical inventory rows are rejected as MULTIPLE_SNAPSHOTS. Names that the
  tables want unique (sku, warehouse code, PO number, tracking id, line number)
  are not validated: such a load aborts in the middle, and nothing of it stays.
* A promoted order that has the id of a loaded one makes the reload of its bundle
  a conflict. Promoted orders have no items, so no SLA rule reports them.
* Shipment delays carry no `overdue_hours`, so age never raises their severity.
  Stock rules only look at products with open demand and subtract reserved stock
  beside it. 
* Issue keys join ids with ":" (`rules.py:196` and 333), and nothing keeps one out of
  an id. Product A in warehouse B:C and product A:B in warehouse C are one issue:
  a run that finds both reports its key twice (`JoinedIssuesCollide`, which happens in
  `MCDetection`), and one case shows whichever was found last. The engine model's
  runs (`Reports`) are those over ids that do not collide. Runs over ids that do
  might take locks of cases in opposite orders.
* A summary that a commit divides need not add up (its SLA share can exceed
  100%); a page and its total may disagree; an export may skip a row that another
  row's departure moved, and a pointer move mixes datasets in it. `CountsAgree`,
  `ExportIsComplete` are about replies that no commit divides. A page behind the last
  one says "No exceptions match" under a positive total (`ui.py:685-688`).
* After a lost PATCH answer the cache still shows the case as it was
  (`OwnUpdatesAreSeen` is about acknowledged updates). A form whose case was moved
  by somebody else is rebuilt with other options before its submission is read
  (`ui.py:577-586`); which one is sent is up to Streamlit, and any may be in the model.
* Without an active dataset reads are not scoped at all (`service.py:287`).

## 5. Proofs

For every value of the constants, checked by TLAPS. A theorem named here states
a property of the runs unless it says otherwise.

* `DatasetReplacementProofs`: `TypeCorrect`, `ActiveVersion`, `IdentityHeldOnce`,
  `Serial`, `RollbackOnce`, and `UndoStack`, which assumes `OneClock` (no host is
  ahead of another). The properties are not inductive: `IInv` adds that only the
  holder of the lock has a transaction open, that uncommitted tables satisfy what
  committed ones do (`TableInv`), and that the primary-key sequence is ahead of
  every row. `ClockInv` adds that all stamps lie in the past.
* In the same module `ImplementsActivationHistory`: the committed tables implement
  `ActivationHistory`. It assumes `OneClock` and `OneMove`, that a request moves
  the pointer at most once (a commit with an activation and a rollback would be
  two steps of the history in one); `ProgramsMoveOnce` shows that no command and no
  load makes two moves. `MoveInv` says that an open transaction still has the
  history it started on, or has moved it by one version and has no move left.
* In the same module `ReadersSeeOneVersion` (`ReadersSeeNoPart`), for any requests.
  `PartInv` says that only a load in progress leaves a part of a bundle behind, in
  the uncommitted tables of its own session, for the version it is loading.
* `ExceptionEngineProofs`: `TypeCorrect`, `ActiveCase`, `Suppression`, with
  bootstraps, crashes and moving pointers. The invariant is that no *version* of a
  record, committed or not, collides with a version of another (`NoClash`): every
  end of a transaction only publishes or drops versions there are, and every write
  passed the indexes. `Clean` says a record nobody has locked has one version;
  `Ready` that a session's program counter agrees with its data.
* `AuditTrail` and `TerminalStates` assume `"bootstrap" \notin Kinds`; run
  `MCExceptionTerminal` shows why. Their invariant `LifeInv` adds that nobody has a
  pending change of a settled record (`Settled`), that uncommitted trails are sound
  too (`Trails`), and that a session about to take over a key has locked an active
  record (`HasCase`).
* `ExceptionRunProofs`: `CoveredRuns` (`FindingsAreCovered`), and `QuietRuns` (a
  run changes no lifecycle state, stated there), with bootstraps, crashes and moving
  pointers. `RunInv` says what a run holds for each finding it is through with
  (`Kept`): a record with the key of the finding, or the active case of its issue
  next to a record that has the key. That record is settled, as the indexes allow
  one active case; nobody can make it active while the run holds the case, and a
  settled record keeps its facts (`Lasting`). So the run may even settle the case
  itself, as a bootstrap does, and the key is still there when it commits. That no
  later finding takes the key away follows from the order of the findings
  (`Ordered`, `Upwards`).
* In the same module `DeadlocksOfLosers`: without bootstraps `OnlyLosersDeadlock`,
  for any number of sessions, issues and records. `Upwards` says that whatever a
  run has locked stands for a finding it is through with, or is a record of the
  present one that it lost. So the sessions further on in the order of `detect_all`,
  together with those that lost their case at the same finding, wait only for each
  other (`AboveIsClosed`), and a session that waits in a cycle is one of them.
* `OrderProofs`: `TypeCorrect`, `ProjectionNeverGoesBack`, `StagingIsNeverLost`,
  `OnlyFitEvidence`, with any scripts and objects loaded at any time. The heart is
  that a session which remembers an order holds the row lock of the order's
  current observation, and whoever replaces the projection needs that lock: what
  the session compares versions with is therefore still current.
* In the same module `ChainOfProjections`, `NeverDemoted` and `OrdersAreALedger`
  (`OrderObservations` implements `OrderLedger`), which assume `NothingLoaded`: no
  caller hands `promote` an object its session loaded before. Run `MCOrderStale`
  shows why. `ChainInv` adds that a session judges evidence that is not promoted
  (`Fresh`), that evidence changes only under its identity's lock (`Guarded`), that
  promoted rows lead to the order's projection, committed or not (`Linked`), and
  that what is not committed yet is newer than what is (`Late`). From it,
  `SortedExtends` shows that the sorted promotions after a step begin with those
  before it.
* `IngestionProofs`: `ExactValidation`, `WholeVersions`, `ParentsFirst`,
  `QuietReload`, `TrueSummaries`, for bundles of any artifacts and
  files of any length. `SetInduction` derives induction for a set of naturals from
  their well-foundedness, and with it `LoopOfRows` and `LoopIsRight` show what the
  recursive functions of validation compute. The invariant `LoadInv` says that
  the process that holds the lock is the one that works, that a version that
  exists holds exactly the image of its bundle and promoted orders, and that one
  that does not exist yet has no rows while its loader has written whole artifacts
  in order. `RowsAreTyped` adds that rows keep the columns of their artifact through
  rounding and promotion. `SnapshotsAreNeverNewer` and `RoundedRowsConflict` state no
  property of a run but what section 4 says of two texts of the repository:
  `FoundAgain` shows that what preflight finds for a row is that row's own image, if
  it is no promoted order.
* `DetectionProofs`: `RunsAreOrdered` (`ReportedInOrder`), `FindingsLast` (`TimeOnlyAdds`) and `FlowIsQuiet`
  (`FlowRaisesNoAlarm`), for any version of any size, any settings that
  validation accepts, and any instants. The inductive invariant is `FoundInVersion`
  (`DetInv`): whatever ships and arrives, the rows stay a version, and what was
  found is what the rules detect in it. The rest is about the rules' data.
  `SumSplits` and `SumGrows` derive from `SetInduction` that any element can be
  taken out of a sum over a set, and that more of what is not negative makes no
  smaller sum; `RankedFlatten` that lists put one after the other are in order if
  each is and all of one precede all of the next. From `IsVersion`, `FoundIsNamed`
  shows that no rule has two findings about one entity, `WantedLasts` that the items of
  an order at risk stay the same, and `SameDifference` and `DemandAfterShip` that a
  movement changes a count and what it is compared with by the same unit.
* `DashboardProofs`: `OwnUpdates` (one request at a time, and the cache dropped with
  the answer, leave no reply older than an acknowledged update) and `FiguresAgree`,
  whose invariants say that the request under way is the one of the script's step
  (`Position`) and that a reply still current counts what the tables say
  (`CountInv`). `OneDataset`: every statement of a request reads rows of the dataset
  it resolved (`ReadInv`). `CompleteExport`: while an export is calm, its pages so
  far are a prefix of the sorted queue and the count never falls below what it began
  with (`ExportInv`).

The assumptions are `TableAssumption`, `ReplacementAssumption`, `RowAssumption`,
`EngineAssumption`, `ObservationAssumption`, `IngestionAssumption`,
`DashboardAssumption`, `SettingsAssumption` (what the validation of settings
accepts) and `DetectionAssumption` (the worlds a behaviour starts from are
versions), all of them types and shapes of the constants, which TLC evaluates in
the runs, and the named hypotheses above. `IngestionAssumption` lets a promotion
project rows of orders that are blank in some columns and odd in no other way, which
is what promotion writes (`order_observations.py:848-863`).

Only model-checked: all liveness, which, as ENABLED, is out of the prover's reach.
Every safety property of a passing run is a theorem. `UndoStack` and
`ImplementsActivationHistory` need hypotheses on clocks and requests, three theorems
of the engine that no bootstrap runs, and three of promotion that it is handed no
objects loaded before; the others hold as they stand.

## 6. What is left

A bootstrap as a whole: ingestion, activation and detection composed with the
operator's rollbacks. Each part and the moves of the pointer between them are
modelled; no text promises anything of the whole.

## 7. Not modelled

The synthetic generator and external validation are sequential file tools without
shared state: what they compute is data and formatting, and a test covers it.
Settings validation, logging, request ids and error bodies, serialisation, HTML
and charts, the supplier panel, the checks of a form's text, the shell scripts
and the older migrations are left out. The lists of orders, inventory, purchase
orders and shipments (`api/queries.py`) run the same two statements as the
exception list over other tables, and are not modelled again. The database
triggers that protect `exception_history` from other clients guard against
writes no code of the package makes. Derived columns of a record (texts, money,
stored severity) have no property in the engine. Orders projected before
identities existed are left out, as no code of the package writes one with a
source namespace. Several behaviours without a pointer (a database before the
versioning migration) are left out: the migration creates one.

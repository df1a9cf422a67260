------------------------- MODULE DatasetReplacement -------------------------
(***************************************************************************)
(* Dataset replacement as the sessions that run it see it: the operator    *)
(* command line (replacement/__main__.py), the bundle loader               *)
(* (ingestion/loader.py) and library callers that compose the functions of *)
(* replacement/service.py in one transaction, on one PostgreSQL database   *)
(* that API sessions read meanwhile.                                       *)
(*                                                                         *)
(* Every service function first takes the transaction-level advisory lock, *)
(* which PostgreSQL holds until the transaction ends.  A session therefore *)
(* is idle, waits for the lock, or holds it with its uncommitted writes in *)
(* view[p]; COMMIT publishes them in db, an exception or a crash drops     *)
(* them.  Reads outside the lock only see db.                              *)
(***************************************************************************)
EXTENDS DatasetTable, Sequences

CONSTANTS
  Procs,          \* sessions that run replacement operations
  Readers,        \* API sessions
  Requests,       \* the requests sessions may receive
  ClockOffset,    \* how far each session's host clock is ahead
  MaxRequests     \* bound: requests submitted in a behaviour

NoProc == "nobody"

Ops == {"ensure", "preflight", "apply", "stage", "validate", "activate",
        "rollback", "backfill"}

Request == [ops : Seq(Ops), id : Ids \cup {NoId},
            ident : Identities \cup {NoIdentity}]

ASSUME ReplacementAssumption ==
  /\ NoProc \notin Procs
  /\ \A r \in Requests : r \in Request /\ r.ops # <<>>
  /\ ClockOffset \in [Procs -> Nat]
  /\ MaxRequests \in Nat

(* The requests the command line accepts: an operation on a dataset id, or *)
(* on a complete identity that is ensured first; rollback needs neither.   *)
CliActions == {"stage", "validate", "activate", "rollback"}

CliRequests ==
  {[ops |-> <<a>>, id |-> d, ident |-> NoIdentity] : a \in CliActions, d \in Ids}
  \cup {[ops |-> <<"ensure", a>>, id |-> NoId, ident |-> i] :
          a \in CliActions, i \in Identities}
  \cup {[ops |-> <<"ensure", "rollback">>, id |-> NoId, ident |-> NoIdentity]}

(* A validated bundle handed to ingest(activate = FALSE or TRUE). *)
Loading == <<"ensure", "preflight", "apply", "validate">>

IngestRequests ==
  {[ops |-> o, id |-> NoId, ident |-> i] :
     o \in {Loading, Append(Loading, "activate")}, i \in Identities}

VARIABLES
  db,        \* the committed tables
  nextId,    \* the primary-key sequence, which no rollback resets
  clock,     \* true time, one tick per flushed change
  lock,      \* the session that holds the advisory lock
  pc,        \* pc[p]: "idle", "waiting" for the lock, "open" transaction
  req,       \* req[p]: the request p serves or served last
  todo,      \* todo[p]: the service calls p still has to make
  target,    \* target[p]: the dataset id its calls work on
  view,      \* view[p]: the tables as p's open transaction sees them
  answer,    \* answer[p]: how p's last request ended
  submitted, \* number of requests so far (bound only)
  reading    \* reading[r]: the id an API session resolved and what it read

(* An auxiliary variable: the committed tables p's transaction started on. *)
VARIABLE base

sessionVars == <<pc, req, todo, target, answer>>
vars == <<db, nextId, clock, lock, sessionVars, view, submitted, reading, base>>

NoRequest == [ops |-> <<>>, id |-> NoId, ident |-> NoIdentity]

Init ==
  /\ db = Migrated
  /\ nextId = LegacyId + 1
  /\ clock = 1
  /\ lock = NoProc
  /\ pc = [p \in Procs |-> "idle"]
  /\ req = [p \in Procs |-> NoRequest]
  /\ todo = [p \in Procs |-> <<>>]
  /\ target = [p \in Procs |-> NoId]
  /\ view = [p \in Procs |-> Migrated]
  /\ answer = [p \in Procs |-> "none"]
  /\ submitted = 0
  /\ reading = [r \in Readers |-> [id |-> NoId, data |-> "unread"]]
  /\ base = [p \in Procs |-> Migrated]

TypeOK ==
  /\ db \in Tables
  /\ nextId \in Nat
  /\ clock \in Nat
  /\ lock \in Procs \cup {NoProc}
  /\ pc \in [Procs -> {"idle", "waiting", "open"}]
  /\ req \in [Procs -> Request]
  /\ todo \in [Procs -> Seq(Ops)]
  /\ target \in [Procs -> Ids \cup {NoId}]
  /\ view \in [Procs -> Tables]
  /\ answer \in [Procs -> {"none", "committed", "refused", "aborted", "exception"}]
  /\ submitted \in Nat
  /\ reading \in [Readers -> [id : Ids \cup {NoId}, data : Amounts \cup {"unread"}]]
  /\ base \in [Procs -> Tables]

-----------------------------------------------------------------------------
(* Sessions *)

\* a user action: an operator types a command, a loader is started
Submit(p, r) ==
  /\ pc[p] = "idle"
  /\ submitted < MaxRequests
  /\ submitted' = submitted + 1
  /\ pc' = [pc EXCEPT ![p] = "waiting"]
  /\ req' = [req EXCEPT ![p] = r]
  /\ todo' = [todo EXCEPT ![p] = r.ops]
  /\ target' = [target EXCEPT ![p] = r.id]
  /\ UNCHANGED <<db, nextId, clock, lock, answer, view, reading, base>>

\* mutant of End: a session-level lock, which only a clean end releases
EndKeepingLock(p, how) ==
  /\ lock' = IF lock = p /\ how = "committed" THEN NoProc ELSE lock
  /\ pc' = [pc EXCEPT ![p] = "idle"]
  /\ answer' = [answer EXCEPT ![p] = how]
  /\ req' = [req EXCEPT ![p] = NoRequest]
  /\ todo' = [todo EXCEPT ![p] = <<>>]
  /\ target' = [target EXCEPT ![p] = NoId]
  /\ view' = [view EXCEPT ![p] = Migrated]
  /\ base' = [base EXCEPT ![p] = Migrated]
  /\ UNCHANGED <<nextId, clock, submitted, reading>>

\* the end of a transaction, whatever ends it, releases the lock; what the
\* session kept in memory is gone
End(p, how) ==
  /\ lock' = IF lock = p THEN NoProc ELSE lock
  /\ pc' = [pc EXCEPT ![p] = "idle"]
  /\ answer' = [answer EXCEPT ![p] = how]
  /\ req' = [req EXCEPT ![p] = NoRequest]
  /\ todo' = [todo EXCEPT ![p] = <<>>]
  /\ target' = [target EXCEPT ![p] = NoId]
  /\ view' = [view EXCEPT ![p] = Migrated]
  /\ base' = [base EXCEPT ![p] = Migrated]
  /\ UNCHANGED <<nextId, clock, submitted, reading>>

\* ensure_dataset_version(as_of = None) evaluates None.tzinfo before it locks
WithoutIdentity(p) ==
  /\ todo[p] # <<>>
  /\ Head(todo[p]) = "ensure"
  /\ req[p].ident = NoIdentity

FailOnMissingIdentity(p) ==
  /\ pc[p] \in {"waiting", "open"}
  /\ WithoutIdentity(p)
  /\ db' = db
  /\ End(p, "exception")

\* mutant of Acquire: the lock call is missing
AcquireNothing(p) ==
  /\ pc[p] = "waiting"
  /\ ~WithoutIdentity(p)
  /\ lock' = p
  /\ pc' = [pc EXCEPT ![p] = "open"]
  /\ view' = [view EXCEPT ![p] = db]
  /\ base' = [base EXCEPT ![p] = db]
  /\ UNCHANGED <<db, nextId, clock, req, todo, target, answer, submitted, reading>>

\* pg_advisory_xact_lock returns; the next statement sees what is committed
Acquire(p) ==
  /\ pc[p] = "waiting"
  /\ ~WithoutIdentity(p)
  /\ lock = NoProc
  /\ lock' = p
  /\ pc' = [pc EXCEPT ![p] = "open"]
  /\ view' = [view EXCEPT ![p] = db]
  /\ base' = [base EXCEPT ![p] = db]
  /\ UNCHANGED <<db, nextId, clock, req, todo, target, answer, submitted, reading>>

Commit(p) ==
  /\ pc[p] = "open"
  /\ todo[p] = <<>>
  /\ db' = view[p]
  /\ End(p, "committed")

\* the process or its connection dies, or the operator interrupts it
Crash(p) ==
  /\ pc[p] # "idle"
  /\ db' = db
  /\ End(p, "aborted")

-----------------------------------------------------------------------------
(* Service calls, made one after the other by the session with the lock *)

Calls(p, op) == pc[p] = "open" /\ todo[p] # <<>> /\ Head(todo[p]) = op

\* the clock of p's host when it flushes
Now(p) == clock + ClockOffset[p]

\* a call leaves table t behind in the transaction and returns
Return(p, t) ==
  /\ view' = [view EXCEPT ![p] = t]
  /\ clock' = IF t.stamp = view[p].stamp THEN clock ELSE clock + 1
  /\ todo' = [todo EXCEPT ![p] = Tail(@)]
  /\ UNCHANGED <<db, lock, pc, req, answer, submitted, reading, base>>

EnsureExisting(p) ==
  /\ Calls(p, "ensure")
  /\ ~WithoutIdentity(p)
  /\ MayEnsure(view[p], req[p].ident)
  /\ \E d \in Holders(view[p], req[p].ident) : target' = [target EXCEPT ![p] = d]
  /\ nextId' = nextId
  /\ Return(p, view[p])

EnsureInsert(p) ==
  /\ Calls(p, "ensure")
  /\ ~WithoutIdentity(p)
  /\ Holders(view[p], req[p].ident) = {}
  /\ nextId \in Ids
  /\ nextId' = nextId + 1
  /\ target' = [target EXCEPT ![p] = nextId]
  /\ Return(p, Inserted(view[p], nextId, req[p].ident, Now(p)))

Stage(p) ==
  /\ Calls(p, "stage")
  /\ MayStage(view[p], target[p])
  /\ Return(p, view[p])
  /\ UNCHANGED <<nextId, target>>

Validate(p) ==
  /\ Calls(p, "validate")
  /\ MayValidate(view[p], target[p])
  /\ Return(p, Validated(view[p], target[p], Now(p)))
  /\ UNCHANGED <<nextId, target>>

Activate(p) ==
  /\ Calls(p, "activate")
  /\ MayActivate(view[p], target[p])
  /\ Return(p, Activated(view[p], target[p], Now(p)))
  /\ UNCHANGED <<nextId, target>>

Rollback(p) ==
  /\ Calls(p, "rollback")
  /\ MayRollback(view[p], target[p])
  /\ \E d \in Undoable(view[p]) :
       /\ MostRecent(view[p], d)
       /\ Return(p, RolledBack(view[p], d, Now(p)))
  /\ UNCHANGED <<nextId, target>>

\* the legacy row exists since the migration, so its ensure never inserts here
Backfill(p) ==
  /\ Calls(p, "backfill")
  /\ MayEnsure(view[p], LegacyIdentity)
  /\ \E d \in Holders(view[p], LegacyIdentity) :
       Return(p, Backfilled(view[p], d, Now(p)))
  /\ UNCHANGED <<nextId, target>>

\* the loader compares its bundle with the rows the dataset already has
PreflightPasses(p) ==
  /\ Calls(p, "preflight")
  /\ Return(p, view[p])
  /\ UNCHANGED <<nextId, target>>

\* a promoted order has the id of a loaded one, or a column rounded a number
\* (Ingestion): ingest returns from inside its transaction block, which commits
PreflightConflicts(p) ==
  /\ Calls(p, "preflight")
  /\ view[p].data[target[p]] = "whole"
  /\ todo' = [todo EXCEPT ![p] = <<>>]
  /\ UNCHANGED <<db, nextId, clock, lock, pc, req, target, view, answer,
                 submitted, reading, base>>

\* _apply flushes one artifact after the other
ApplySome(p) ==
  /\ Calls(p, "apply")
  /\ view[p].data[target[p]] = "none"
  /\ view' = [view EXCEPT ![p].data[target[p]] = "partial"]
  /\ UNCHANGED <<db, nextId, clock, lock, sessionVars, submitted, reading, base>>

\* mutant of ApplyRest: the loop returns with the first artifact
ApplyRestReturnsEarly(p) ==
  /\ Calls(p, "apply")
  /\ view[p].data[target[p]] # "none"
  /\ Return(p, view[p])
  /\ UNCHANGED <<nextId, target>>

ApplyRest(p) ==
  /\ Calls(p, "apply")
  /\ view[p].data[target[p]] # "none"
  /\ Return(p, [view[p] EXCEPT !.data[target[p]] = "whole"])
  /\ UNCHANGED <<nextId, target>>

\* the guards of the service functions; the loader's own steps have none
Permitted(op, t, d, i) ==
  CASE op = "ensure"   -> MayEnsure(t, i)
    [] op = "backfill" -> MayEnsure(t, LegacyIdentity)
    [] op = "stage"    -> MayStage(t, d)
    [] op = "validate" -> MayValidate(t, d)
    [] op = "activate" -> MayActivate(t, d)
    [] op = "rollback" -> MayRollback(t, d)
    [] OTHER           -> TRUE

\* a DatasetLifecycleError leaves the session block, which rolls back
Refuse(p) ==
  /\ pc[p] = "open"
  /\ todo[p] # <<>>
  /\ ~WithoutIdentity(p)
  /\ ~Permitted(Head(todo[p]), view[p], target[p], req[p].ident)
  /\ db' = db
  /\ End(p, "refused")

Call(p) ==
  \/ EnsureExisting(p) \/ EnsureInsert(p) \/ Stage(p) \/ Validate(p)
  \/ Activate(p) \/ Rollback(p) \/ Backfill(p)
  \/ PreflightPasses(p) \/ PreflightConflicts(p) \/ ApplySome(p) \/ ApplyRest(p)

-----------------------------------------------------------------------------
(* API sessions: get_active_dataset_version, then queries scoped to its id *)

ReadPointer(r) ==
  /\ reading' = [reading EXCEPT ![r] = [id |-> db.pointer, data |-> "unread"]]
  /\ UNCHANGED <<db, nextId, clock, lock, sessionVars, view, submitted, base>>

ReadRows(r) ==
  /\ reading[r].id # NoId
  /\ reading[r].data = "unread"
  /\ reading' = [reading EXCEPT ![r].data = db.data[reading[r].id]]
  /\ UNCHANGED <<db, nextId, clock, lock, sessionVars, view, submitted, base>>

-----------------------------------------------------------------------------
(* What a session does once it has a request, without crashing *)
Progress(p) ==
  FailOnMissingIdentity(p) \/ Acquire(p) \/ Call(p) \/ Refuse(p) \/ Commit(p)

\* the bound on requests is reached and nobody waits: not a deadlock
AllAnswered ==
  /\ submitted = MaxRequests
  /\ \A p \in Procs : pc[p] = "idle"
  /\ UNCHANGED vars

Next ==
  \/ \E p \in Procs : \/ \E r \in Requests : Submit(p, r)
                      \/ FailOnMissingIdentity(p) \/ Acquire(p)
                      \/ EnsureExisting(p) \/ EnsureInsert(p) \/ Stage(p)
                      \/ Validate(p) \/ Activate(p) \/ Rollback(p) \/ Backfill(p)
                      \/ PreflightPasses(p) \/ PreflightConflicts(p)
                      \/ ApplySome(p) \/ ApplyRest(p)
                      \/ Refuse(p) \/ Commit(p) \/ Crash(p)
  \/ \E r \in Readers : ReadPointer(r) \/ ReadRows(r)
  \/ AllAnswered

Spec == Init /\ [][Next]_vars

(* A started session keeps running: no lock_timeout or statement_timeout   *)
(* is configured, and the lock's holder never waits for anyone.            *)
FairSpec == Spec /\ \A p \in Procs : WF_vars(Progress(p))

-----------------------------------------------------------------------------
(* Properties *)

(* Between any two commits the committed tables have exactly one ACTIVE    *)
(* version, the one every operational query is scoped to.                  *)
OneActiveVersion == OneActive(db)

(* A logical identity never gets a second row, whatever sessions raced to  *)
(* ensure it and whatever content they brought.                            *)
IdentityIsUnique == UniqueIdentity(db)

(* No commit overwrites what another session committed meanwhile: the      *)
(* tables an open transaction started on are still the committed ones.     *)
NoLostUpdate == \A p \in Procs : pc[p] = "open" => base[p] = db

(* Readers see the old or the new active version, never a part of one      *)
(* (docs/architecture.md:16), even if activations, rollbacks and loads     *)
(* commit between the statements of a query, and though a load flushes one *)
(* artifact after the other and may die in between (loader.py:441).  A     *)
(* version that the command line validated without a load has no rows.     *)
ReadersSeeNoPart == \A r \in Readers : reading[r].data # "partial"

(* Every move of the read pointer is a push or a pop of the undo stack, so *)
(* repeated rollbacks walk back through the activation history.            *)
StackDiscipline ==
  [][\A p \in Procs :
       pc[p] = "open" /\ pc'[p] = "open" /\ view'[p].pointer # view[p].pointer
       => Push(view[p], view'[p]) \/ Pop(view[p], view'[p])]_vars

(* Two operators who both ask to roll back version d undo d once: a        *)
(* rollback that names d only commits when d is what readers see now.      *)
RollbackUndoesWhatItNames ==
  [][\A p \in Procs :
       /\ pc[p] = "open" /\ pc'[p] = "idle" /\ answer'[p] = "committed"
       /\ req[p].ops = <<"rollback">> /\ req[p].id # NoId
       => db.pointer = req[p].id /\ db'.pointer # req[p].id]_vars

(* Every request is answered, also behind a lock whose holder crashed.     *)
EveryRequestIsAnswered == \A p \in Procs : pc[p] # "idle" ~> pc[p] = "idle"
=============================================================================

---------------------- MODULE DatasetReplacementProofs ----------------------
(***************************************************************************)
(* Safety of DatasetReplacement for any sessions, requests, rows and       *)
(* length of history.  The inductive invariant IInv adds to the properties *)
(* themselves that only the holder of the advisory lock has a transaction  *)
(* open, that its uncommitted tables satisfy what the committed ones do,   *)
(* and that the primary-key sequence is ahead of every row.                *)
(***************************************************************************)
EXTENDS DatasetHistory, SetLemmas

-----------------------------------------------------------------------------
(* The tables, of any size, and what each effect does to them. *)

(* What every version of the tables satisfies, committed or in progress.   *)
TableInv(t) ==
  /\ t.pointer \in Ids
  /\ OneActive(t)
  /\ UniqueIdentity(t)
  /\ t.ident[LegacyId] = LegacyIdentity
  /\ t.status[LegacyId] \notin {"ABSENT", "STAGED"}

\* rows the primary-key sequence has not reached do not exist
Unassigned(t, n) == \A d \in Ids : d >= n => t.status[d] = "ABSENT"

\* every updated_at lies in the past
Past(t, now) == \A d \in Ids : t.stamp[d] < now

\* readers and rollback find the same
SameHistory(t, u) ==
  /\ u.pointer = t.pointer
  /\ Undoable(u) = Undoable(t)
  /\ \A d \in Undoable(t) : u.stamp[d] = t.stamp[d]

-----------------------------------------------------------------------------
(* The table the migration leaves is a legal one. *)
LEMMA MigratedTable ==
  /\ Migrated \in Tables
  /\ TableInv(Migrated)
  /\ Unassigned(Migrated, LegacyId + 1)
  /\ Past(Migrated, 1)
<1>1. Migrated \in Tables
  BY TableAssumption DEF Migrated, Tables, Statuses, Amounts
<1>2. TableInv(Migrated)
  BY TableAssumption DEF Migrated, TableInv, OneActive, UniqueIdentity, Identities
<1>3. Unassigned(Migrated, LegacyId + 1)
  BY TableAssumption DEF Migrated, Unassigned
<1>4. Past(Migrated, 1)
  BY DEF Migrated, Past
<1>5. QED BY <1>1, <1>2, <1>3, <1>4

(* ensure_dataset_version inserts a row the sequence just handed out. *)
LEMMA InsertedTable ==
  ASSUME NEW t \in Tables, TableInv(t), NEW n \in Ids, Unassigned(t, n),
         NEW i \in Identities, Holders(t, i) = {}, NEW now \in Nat
  PROVE  LET u == Inserted(t, n, i, now)
         IN  /\ u \in Tables
             /\ TableInv(u)
             /\ Unassigned(u, n + 1)
             /\ SameHistory(t, u)
             /\ u.stamp = [t.stamp EXCEPT ![n] = now]
<1> DEFINE u == Inserted(t, n, i, now)
<1>1. /\ u \in Tables
      /\ u.status = [t.status EXCEPT ![n] = "STAGED"]
      /\ u.stamp = [t.stamp EXCEPT ![n] = now]
      /\ u.ident = [t.ident EXCEPT ![n] = i]
      /\ u.pointer = t.pointer
  BY DEF Inserted, SetStatus, Tables, Statuses, Amounts
<1> HIDE DEF u
<1>3. t.status[n] = "ABSENT"
  BY TableAssumption DEF Unassigned
<1>4. n # t.pointer /\ n # LegacyId
  BY <1>3 DEF TableInv, OneActive
<1>5. OneActive(u)
  <2>1. SUFFICES ASSUME NEW d \in Ids
                 PROVE  u.status[d] = "ACTIVE" <=> d = u.pointer
    BY DEF OneActive
  <2>2. t.status[d] = "ACTIVE" <=> d = t.pointer
    BY DEF TableInv, OneActive
  <2>3. t.status \in [Ids -> Statuses]
    BY DEF Tables
  <2>4. u.status[d] = IF d = n THEN "STAGED" ELSE t.status[d]
    BY <1>1, <2>3
  <2>5. QED BY <1>1, <1>4, <2>2, <2>4
<1>6. UniqueIdentity(u)
  BY <1>1 DEF TableInv, UniqueIdentity, Holders, Tables
<1>7. TableInv(u)
  BY <1>1, <1>4, <1>5, <1>6, TableAssumption DEF TableInv, Tables
<1>8. Unassigned(u, n + 1)
  BY <1>1, TableAssumption DEF Unassigned, Tables
<1>9. SameHistory(t, u)
  BY <1>1, <1>3 DEF SameHistory, Undoable, Tables
<1>10. QED BY <1>1, <1>7, <1>8, <1>9 DEF u

(* A change of statuses and pointer that creates and removes no row keeps  *)
(* the invariant as soon as it leaves exactly the pointer's row ACTIVE.    *)
LEMMA StatusChange ==
  ASSUME NEW t \in Tables, TableInv(t), NEW u \in Tables,
         u.ident = t.ident, u.pointer \in Ids, OneActive(u),
         \A d \in Ids : u.status[d] = "ABSENT" <=> t.status[d] = "ABSENT",
         u.status[LegacyId] # "STAGED"
  PROVE  /\ TableInv(u)
         /\ \A n \in Nat : Unassigned(t, n) => Unassigned(u, n)
<1>1. UniqueIdentity(u)
  BY DEF TableInv, UniqueIdentity
<1>2. TableInv(u)
  BY <1>1, TableAssumption DEF TableInv
<1>3. \A n \in Nat : Unassigned(t, n) => Unassigned(u, n)
  BY DEF Unassigned
<1>4. QED BY <1>2, <1>3

(* validate_dataset *)
LEMMA ValidatedTable ==
  ASSUME NEW t \in Tables, TableInv(t), NEW d \in Ids, NEW now \in Nat,
         MayValidate(t, d)
  PROVE  LET u == Validated(t, d, now)
         IN  /\ u \in Tables
             /\ TableInv(u)
             /\ \A n \in Nat : Unassigned(t, n) => Unassigned(u, n)
             /\ SameHistory(t, u)
             /\ u.stamp = t.stamp \/ u.stamp = [t.stamp EXCEPT ![d] = now]
<1> DEFINE u == Validated(t, d, now)
<1>1. CASE t.status[d] # "STAGED"
  BY <1>1 DEF Validated, SameHistory
<1>2. CASE t.status[d] = "STAGED"
  <2>1. /\ u \in Tables
        /\ u.status = [t.status EXCEPT ![d] = "READY"]
        /\ u.stamp = [t.stamp EXCEPT ![d] = now]
        /\ u.ident = t.ident
        /\ u.pointer = t.pointer
    BY <1>2 DEF Validated, SetStatus, Tables, Statuses
  <2> HIDE DEF u
  <2>2. \A e \in Ids : u.status[e] = IF e = d THEN "READY" ELSE t.status[e]
    BY <2>1 DEF Tables
  <2>3. d # t.pointer /\ d # LegacyId
    BY <1>2 DEF TableInv, OneActive
  <2>4. OneActive(u)
    BY <2>1, <2>2, <2>3 DEF TableInv, OneActive
  <2>5. SameHistory(t, u)
    BY <1>2, <2>1, <2>2 DEF SameHistory, Undoable, Tables
  <2>6. QED
    BY <1>2, <2>1, <2>2, <2>3, <2>4, <2>5, StatusChange, TableAssumption DEF TableInv, u
<1>3. QED BY <1>1, <1>2

(* activate_dataset of a READY row: the row it replaces becomes the top of *)
(* the undo stack.                                                         *)
LEMMA ActivatedTable ==
  ASSUME NEW t \in Tables, TableInv(t), NEW d \in Ids, NEW now \in Nat,
         MayActivate(t, d), d # t.pointer
  PROVE  LET u == Activated(t, d, now)
         IN  /\ u \in Tables
             /\ TableInv(u)
             /\ \A n \in Nat : Unassigned(t, n) => Unassigned(u, n)
             /\ u.pointer = d
             /\ u.stamp = [t.stamp EXCEPT ![t.pointer] = now, ![d] = now]
             /\ Past(t, now) => Push(t, u)
<1> DEFINE c == t.pointer
           u == Activated(t, d, now)
<1>1. /\ c \in Ids /\ c # NoId /\ t.status[c] = "ACTIVE" /\ t.status[d] = "READY"
  BY TableAssumption DEF TableInv, OneActive, MayActivate
<1>2. /\ u \in Tables
      /\ u.status = [t.status EXCEPT ![c] = "RETIRED", ![d] = "ACTIVE"]
      /\ u.stamp = [t.stamp EXCEPT ![c] = now, ![d] = now]
      /\ u.ident = t.ident
      /\ u.pointer = d
  BY <1>1 DEF Activated, Retired, SetStatus, Tables, Statuses
<1> HIDE DEF u
<1>3. \A e \in Ids : /\ u.status[e] = IF e = d THEN "ACTIVE" ELSE
                                       IF e = c THEN "RETIRED" ELSE t.status[e]
                     /\ u.stamp[e] = IF e \in {c, d} THEN now ELSE t.stamp[e]
  BY <1>1, <1>2 DEF Tables
<1>4. OneActive(u)
  BY <1>1, <1>2, <1>3 DEF TableInv, OneActive
<1>5. /\ TableInv(u)
      /\ \A n \in Nat : Unassigned(t, n) => Unassigned(u, n)
  BY <1>1, <1>2, <1>3, <1>4, StatusChange, TableAssumption DEF TableInv
<1>6. ASSUME Past(t, now) PROVE Push(t, u)
  <2>1. Undoable(u) = Undoable(t) \cup {c}
    BY <1>1, <1>2, <1>3 DEF Undoable
  <2>2. \A e \in Undoable(t) : u.stamp[e] = t.stamp[e] /\ t.stamp[e] < now
    BY <1>1, <1>3, <1>6 DEF Undoable, Past
  <2>3. u.stamp[c] = now
    BY <1>1, <1>3
  <2>4. \A e \in Undoable(u) \ {c} : Newer(u, c, e)
    BY <2>1, <2>2, <2>3 DEF Newer, Tables, Undoable
  <2>5. QED BY <2>1, <2>2, <2>4 DEF Push, MostRecent
<1>7. QED BY <1>2, <1>5, <1>6 DEF u

(* rollback_dataset *)
LEMMA RolledBackTable ==
  ASSUME NEW t \in Tables, TableInv(t), NEW d \in Ids, MostRecent(t, d),
         NEW now \in Nat
  PROVE  LET u == RolledBack(t, d, now)
         IN  /\ u \in Tables
             /\ TableInv(u)
             /\ \A n \in Nat : Unassigned(t, n) => Unassigned(u, n)
             /\ u.pointer = d
             /\ d # t.pointer
             /\ u.stamp = [t.stamp EXCEPT ![t.pointer] = now, ![d] = now]
             /\ Pop(t, u)
<1> DEFINE c == t.pointer
           u == RolledBack(t, d, now)
<1>1. c \in Ids /\ t.status[c] = "ACTIVE" /\ t.status[d] = "RETIRED" /\ d # c
  BY DEF TableInv, OneActive, MostRecent, Undoable
<1>2. /\ u \in Tables
      /\ u.status = [t.status EXCEPT ![c] = "READY", ![d] = "ACTIVE"]
      /\ u.stamp = [t.stamp EXCEPT ![c] = now, ![d] = now]
      /\ u.ident = t.ident
      /\ u.pointer = d
  BY <1>1 DEF RolledBack, SetStatus, Tables, Statuses
<1> HIDE DEF u
<1>3. \A e \in Ids : /\ u.status[e] = IF e = d THEN "ACTIVE" ELSE
                                       IF e = c THEN "READY" ELSE t.status[e]
                     /\ u.stamp[e] = IF e \in {c, d} THEN now ELSE t.stamp[e]
  BY <1>1, <1>2 DEF Tables
<1>4. OneActive(u)
  BY <1>1, <1>2, <1>3 DEF TableInv, OneActive
<1>5. /\ TableInv(u)
      /\ \A n \in Nat : Unassigned(t, n) => Unassigned(u, n)
  BY <1>1, <1>2, <1>3, <1>4, StatusChange, TableAssumption DEF TableInv
<1>6. Pop(t, u)
  <2>1. Undoable(u) = Undoable(t) \ {d}
    BY <1>1, <1>2, <1>3 DEF Undoable
  <2>2. \A e \in Undoable(u) : u.stamp[e] = t.stamp[e]
    BY <1>1, <1>2, <1>3 DEF Undoable
  <2>3. u.status[c] = "READY"
    BY <1>1, <1>3
  <2>4. QED BY <1>2, <2>1, <2>2, <2>3 DEF Pop
<1>7. QED BY <1>1, <1>2, <1>5, <1>6 DEF u

(* After the migration backfill_m076 finds the legacy row and a pointer,   *)
(* and changes nothing.                                                    *)
LEMMA BackfilledTable ==
  ASSUME NEW t \in Tables, TableInv(t), NEW d \in Holders(t, LegacyIdentity),
         NEW now \in Nat
  PROVE  Backfilled(t, d, now) = t
<1>1. d = LegacyId
  BY TableAssumption DEF Holders, TableInv, UniqueIdentity
<1>2. t.status[d] # "STAGED" /\ t.pointer # NoId
  BY <1>1, TableAssumption DEF TableInv
<1>3. QED BY <1>2 DEF Backfilled

(* Loading rows touches neither dataset_versions nor the pointer.          *)
LEMMA LoadedTable ==
  ASSUME NEW t \in Tables, TableInv(t), NEW d, NEW q \in Amounts
  PROVE  LET u == [t EXCEPT !.data[d] = q]
         IN  /\ u \in Tables
             /\ TableInv(u)
             /\ \A n \in Nat : Unassigned(t, n) => Unassigned(u, n)
             /\ SameHistory(t, u)
             /\ u.stamp = t.stamp
<1> DEFINE u == [t EXCEPT !.data[d] = q]
<1>1. /\ u \in Tables
      /\ u.status = t.status
      /\ u.stamp = t.stamp
      /\ u.ident = t.ident
      /\ u.pointer = t.pointer
  BY DEF Tables
<1> HIDE DEF u
<1>2. OneActive(u)
  BY <1>1 DEF TableInv, OneActive
<1>3. SameHistory(t, u)
  BY <1>1 DEF SameHistory, Undoable
<1>4. QED BY <1>1, <1>2, <1>3, StatusChange, TableAssumption DEF TableInv, u

-----------------------------------------------------------------------------
(* The sessions. *)

SessionInv == \A p \in Procs : pc[p] = "open" => lock = p /\ base[p] = db

Sound(t) == TableInv(t) /\ Unassigned(t, nextId)

TablesInv == Sound(db) /\ \A p \in Procs : Sound(view[p])

IInv == TypeOK /\ SessionInv /\ TablesInv

\* the stamps of every version of the tables lie in the past
ClockInv == Past(db, clock) /\ \A p \in Procs : Past(view[p], clock)

Answers == {"none", "committed", "refused", "aborted", "exception"}

-----------------------------------------------------------------------------
(* The initial state. *)
LEMMA InitInv == Init => IInv /\ ClockInv
<1> SUFFICES ASSUME Init PROVE IInv /\ ClockInv
  OBVIOUS
<1> USE MigratedTable, TableAssumption, ReplacementAssumption
<1>1. NoRequest \in Request
  BY DEF NoRequest, Request
<1>2. TypeOK
  BY <1>1 DEF Init, TypeOK
<1>3. SessionInv
  BY DEF Init, SessionInv
<1>4. TablesInv
  BY DEF Init, TablesInv, Sound
<1>5. ClockInv
  BY DEF Init, ClockInv
<1>6. QED BY <1>2, <1>3, <1>4, <1>5 DEF IInv

(* What a call returns to the session is all that has to be checked of it. *)
LEMMA ReturnInv ==
  ASSUME IInv, NEW p \in Procs, pc[p] = "open", todo[p] # <<>>,
         NEW t \in Tables, TableInv(t), Unassigned(t, nextId'),
         nextId' \in {nextId, nextId + 1},
         target' \in [Procs -> Ids \cup {NoId}],
         Return(p, t)
  PROVE  IInv'
<1> USE DEF IInv, Return
<1>1. Tail(todo[p]) \in Seq(Ops)
  BY DEF TypeOK
<1>2. TypeOK'
  BY <1>1 DEF TypeOK
<1>3. SessionInv'
  BY DEF SessionInv
<1>4. TablesInv'
  <2>1. \A u : Unassigned(u, nextId) => Unassigned(u, nextId')
    BY TableAssumption DEF Unassigned, TypeOK
  <2>2. \A q \in Procs : view'[q] = IF q = p THEN t ELSE view[q]
    BY DEF TypeOK
  <2>3. QED BY <2>1, <2>2 DEF TablesInv, Sound
<1>5. QED BY <1>2, <1>3, <1>4

(* The end of a transaction: either it publishes sound tables and held the *)
(* lock, or the committed tables stay as they are.                         *)
LEMMA EndInv ==
  ASSUME IInv, NEW p \in Procs, NEW how \in Answers, End(p, how),
         \/ db' = db
         \/ pc[p] = "open" /\ db' = view[p]
  PROVE  IInv'
<1> USE DEF IInv, End
<1>1. db' \in Tables /\ Sound(db')
  BY DEF TypeOK, TablesInv
<1>2. TypeOK'
  <2>1. NoRequest \in Request
    BY DEF NoRequest, Request
  <2>2. QED
    BY <1>1, <2>1, MigratedTable DEF TypeOK, Answers
<1>3. SessionInv'
  BY ReplacementAssumption DEF SessionInv, TypeOK
<1>4. TablesInv'
  <2>1. LegacyId < nextId
    BY <1>1, TableAssumption DEF Sound, TableInv, Unassigned, TypeOK
  <2>2. Sound(Migrated)
    BY <2>1, MigratedTable, TableAssumption DEF Sound, Unassigned, TypeOK
  <2>3. \A q \in Procs : view'[q] = IF q = p THEN Migrated ELSE view[q]
    BY DEF TypeOK
  <2>4. nextId' = nextId
    OBVIOUS
  <2>5. QED BY <1>1, <2>2, <2>3, <2>4 DEF TablesInv, Sound
<1>5. QED BY <1>2, <1>3, <1>4

(* Each service call returns tables that satisfy what it found them to.    *)
LEMMA CallInv ==
  ASSUME IInv, NEW p \in Procs, Call(p)
  PROVE  IInv'
<1> DEFINE t == view[p]
<1>1. /\ pc[p] = "open" /\ todo[p] # <<>>
      /\ t \in Tables /\ TableInv(t) /\ Unassigned(t, nextId)
      /\ nextId \in Nat /\ Now(p) \in Nat
      /\ target[p] \in Ids \cup {NoId}
      /\ target \in [Procs -> Ids \cup {NoId}]
      /\ req[p].ident \in Identities \cup {NoIdentity}
  <2>1. pc[p] = "open" /\ todo[p] # <<>>
    BY DEF Call, Calls, EnsureExisting, EnsureInsert, Stage, Validate, Activate,
           Rollback, Backfill, PreflightPasses, PreflightConflicts, ApplySome, ApplyRest
  <2>2. QED
    BY <2>1, ReplacementAssumption DEF IInv, TypeOK, TablesInv, Sound, Now, Request
<1> HIDE DEF t
<1>2. ASSUME Return(p, t), nextId' = nextId, target' \in [Procs -> Ids \cup {NoId}]
      PROVE  IInv'
  BY <1>1, <1>2, ReturnInv DEF t
<1>3. CASE EnsureExisting(p)
  <2>1. target' \in [Procs -> Ids \cup {NoId}]
    BY <1>1, <1>3 DEF EnsureExisting, Holders
  <2>2. QED BY <1>2, <1>3, <2>1 DEF EnsureExisting, t
<1>4. CASE EnsureInsert(p)
  <2> DEFINE u == Inserted(t, nextId, req[p].ident, Now(p))
  <2>1. req[p].ident \in Identities
    BY <1>1, <1>4 DEF EnsureInsert, Calls, WithoutIdentity
  <2>2. nextId \in Ids /\ Holders(t, req[p].ident) = {} /\ nextId' = nextId + 1
    BY <1>4 DEF EnsureInsert, t
  <2>3. u \in Tables /\ TableInv(u) /\ Unassigned(u, nextId')
    BY <1>1, <2>1, <2>2, InsertedTable
  <2>4. target' \in [Procs -> Ids \cup {NoId}]
    BY <1>1, <1>4 DEF EnsureInsert
  <2>5. Return(p, u)
    BY <1>4 DEF EnsureInsert, t
  <2> HIDE DEF u
  <2>6. QED BY <1>1, <2>2, <2>3, <2>4, <2>5, ReturnInv
<1>5. CASE Stage(p)
  BY <1>1, <1>2, <1>5 DEF Stage, t
<1>6. CASE Validate(p)
  <2> DEFINE u == Validated(t, target[p], Now(p))
  <2>1. MayValidate(t, target[p]) /\ target[p] \in Ids
    BY <1>6 DEF Validate, MayValidate, RowExists, t
  <2>2. u \in Tables /\ TableInv(u) /\ Unassigned(u, nextId)
    BY <1>1, <2>1, ValidatedTable
  <2>3. Return(p, u) /\ nextId' = nextId /\ target' = target
    BY <1>6 DEF Validate, t
  <2> HIDE DEF u
  <2>4. QED BY <1>1, <2>2, <2>3, ReturnInv
<1>7. CASE Activate(p)
  <2> DEFINE u == Activated(t, target[p], Now(p))
  <2>1. MayActivate(t, target[p]) /\ target[p] \in Ids
    BY <1>7 DEF Activate, MayActivate, RowExists, t
  <2>2. u \in Tables /\ TableInv(u) /\ Unassigned(u, nextId)
    <3>1. CASE target[p] # t.pointer
      BY <1>1, <2>1, <3>1, ActivatedTable
    <3>2. CASE target[p] = t.pointer
      BY <1>1, <3>2 DEF Activated, TableInv, OneActive
    <3>3. QED BY <3>1, <3>2
  <2>3. Return(p, u) /\ nextId' = nextId /\ target' = target
    BY <1>7 DEF Activate, t
  <2> HIDE DEF u
  <2>4. QED BY <1>1, <2>2, <2>3, ReturnInv
<1>8. CASE Rollback(p)
  <2>1. PICK d \in Ids : MostRecent(t, d) /\ Return(p, RolledBack(t, d, Now(p)))
    BY <1>8 DEF Rollback, Undoable, t
  <2> DEFINE u == RolledBack(t, d, Now(p))
  <2>2. u \in Tables /\ TableInv(u) /\ Unassigned(u, nextId)
    BY <1>1, <2>1, RolledBackTable
  <2>3. Return(p, u) /\ nextId' = nextId /\ target' = target
    BY <1>8, <2>1 DEF Rollback
  <2> HIDE DEF u
  <2>4. QED BY <1>1, <2>2, <2>3, ReturnInv
<1>9. CASE Backfill(p)
  <2>1. PICK d \in Holders(t, LegacyIdentity) : Return(p, Backfilled(t, d, Now(p)))
    BY <1>9 DEF Backfill, t
  <2>2. Backfilled(t, d, Now(p)) = t
    BY <1>1, BackfilledTable
  <2>3. QED BY <1>1, <1>2, <1>9, <2>1, <2>2 DEF Backfill
<1>10. CASE PreflightPasses(p)
  BY <1>1, <1>2, <1>10 DEF PreflightPasses, t
<1>11. CASE PreflightConflicts(p)
  <2>1. <<>> \in Seq(Ops)
    OBVIOUS
  <2>2. TypeOK'
    BY <2>1, <1>11 DEF PreflightConflicts, IInv, TypeOK
  <2>3. SessionInv' /\ TablesInv'
    BY <1>11 DEF PreflightConflicts, IInv, SessionInv, TablesInv, Sound
  <2>4. QED BY <2>2, <2>3 DEF IInv
<1>12. CASE ApplySome(p)
  <2> DEFINE u == [t EXCEPT !.data[target[p]] = "partial"]
  <2>1. u \in Tables /\ TableInv(u) /\ Unassigned(u, nextId)
    BY <1>1, LoadedTable DEF Amounts
  <2>2. view' = [view EXCEPT ![p] = u]
    BY <1>12 DEF ApplySome, t
  <2> HIDE DEF u
  <2>3. TypeOK'
    <3>1. view' \in [Procs -> Tables]
      BY <2>1, <2>2 DEF IInv, TypeOK
    <3>2. UNCHANGED <<db, nextId, clock, lock, pc, req, todo, target, answer,
                      submitted, reading, base>>
      BY <1>12 DEF ApplySome, sessionVars
    <3>3. QED BY <3>1, <3>2 DEF IInv, TypeOK
  <2>4. SessionInv'
    BY <1>12 DEF ApplySome, sessionVars, IInv, SessionInv
  <2>5. TablesInv'
    <3>1. \A q \in Procs : view'[q] = IF q = p THEN u ELSE view[q]
      BY <2>2 DEF IInv, TypeOK
    <3>2. QED
      BY <1>12, <2>1, <3>1 DEF ApplySome, IInv, TablesInv, Sound
  <2>6. QED BY <2>3, <2>4, <2>5 DEF IInv
<1>13. CASE ApplyRest(p)
  <2> DEFINE u == [t EXCEPT !.data[target[p]] = "whole"]
  <2>1. u \in Tables /\ TableInv(u) /\ Unassigned(u, nextId)
    BY <1>1, LoadedTable DEF Amounts
  <2>2. Return(p, u) /\ nextId' = nextId /\ target' = target
    BY <1>13 DEF ApplyRest, t
  <2> HIDE DEF u
  <2>3. QED BY <1>1, <2>1, <2>2, ReturnInv
<1>14. QED
  BY <1>3, <1>4, <1>5, <1>6, <1>7, <1>8, <1>9, <1>10, <1>11, <1>12, <1>13 DEF Call

(* Every step keeps the invariant. *)
LEMMA NextInv == IInv /\ [Next]_vars => IInv'
<1> SUFFICES ASSUME IInv, [Next]_vars PROVE IInv'
  OBVIOUS
<1>1. ASSUME NEW p \in Procs, NEW r \in Requests, Submit(p, r)
      PROVE  IInv'
  <2>1. r \in Request /\ r.ops \in Seq(Ops) /\ r.id \in Ids \cup {NoId}
    BY ReplacementAssumption DEF Request
  <2>2. TypeOK'
    BY <1>1, <2>1 DEF Submit, IInv, TypeOK
  <2>3. SessionInv' /\ TablesInv'
    BY <1>1 DEF Submit, IInv, SessionInv, TablesInv, Sound, TypeOK
  <2>4. QED BY <2>2, <2>3 DEF IInv
<1>2. ASSUME NEW p \in Procs, FailOnMissingIdentity(p) \/ Refuse(p) \/ Commit(p) \/ Crash(p)
      PROVE  IInv'
  BY <1>2, EndInv DEF FailOnMissingIdentity, Refuse, Commit, Crash, Answers
<1>3. ASSUME NEW p \in Procs, Acquire(p)
      PROVE  IInv'
  <2>1. TypeOK'
    BY <1>3 DEF Acquire, IInv, TypeOK
  <2>2. SessionInv'
    BY <1>3, ReplacementAssumption DEF Acquire, IInv, SessionInv, TypeOK
  <2>3. TablesInv'
    <3>1. \A q \in Procs : view'[q] = IF q = p THEN db ELSE view[q]
      BY <1>3 DEF Acquire, IInv, TypeOK
    <3>2. QED BY <1>3, <3>1 DEF Acquire, IInv, TablesInv, Sound
  <2>4. QED BY <2>1, <2>2, <2>3 DEF IInv
<1>4. ASSUME NEW r \in Readers, ReadPointer(r) \/ ReadRows(r)
      PROVE  IInv'
  <2>1. TypeOK'
    <3>1. /\ db.pointer \in Ids \cup {NoId}
          /\ \A d \in Ids : db.data[d] \in Amounts
          /\ reading \in [Readers -> [id : Ids \cup {NoId}, data : Amounts \cup {"unread"}]]
      BY DEF IInv, TypeOK, Tables
    <3>2. CASE ReadPointer(r)
      <4>1. reading' \in [Readers -> [id : Ids \cup {NoId}, data : Amounts \cup {"unread"}]]
        BY <3>1, <3>2 DEF ReadPointer
      <4>2. QED BY <3>2, <4>1 DEF ReadPointer, sessionVars, IInv, TypeOK
    <3>3. CASE ReadRows(r)
      <4>1. reading[r].id \in Ids
        BY <3>1, <3>3 DEF ReadRows
      <4>2. reading' \in [Readers -> [id : Ids \cup {NoId}, data : Amounts \cup {"unread"}]]
        BY <3>1, <3>3, <4>1 DEF ReadRows
      <4>3. QED BY <3>3, <4>2 DEF ReadRows, sessionVars, IInv, TypeOK
    <3>4. QED BY <1>4, <3>2, <3>3
  <2>2. SessionInv' /\ TablesInv'
    BY <1>4 DEF ReadPointer, ReadRows, sessionVars, IInv, SessionInv, TablesInv, Sound
  <2>3. QED BY <2>1, <2>2 DEF IInv
<1>5. CASE UNCHANGED vars
  BY <1>5 DEF vars, sessionVars, IInv, TypeOK, SessionInv, TablesInv, Sound
<1>6. QED
  BY <1>1, <1>2, <1>3, <1>4, <1>5, CallInv DEF Next, Call, AllAnswered

THEOREM InductiveInvariant == Spec => []IInv
BY InitInv, NextInv, PTL DEF Spec

(* Every variable keeps its type.                                          *)
THEOREM TypeCorrect == Spec => []TypeOK
BY InductiveInvariant, PTL DEF IInv

(* Exactly one version is ACTIVE and the read pointer names it, whatever   *)
(* sessions load, activate, roll back, fail or crash.                      *)
THEOREM ActiveVersion == Spec => []OneActiveVersion
<1>1. IInv => OneActiveVersion
  BY DEF IInv, TablesInv, Sound, TableInv, OneActiveVersion
<1>2. QED BY <1>1, InductiveInvariant, PTL

(* No logical identity ever has two rows.                                  *)
THEOREM IdentityHeldOnce == Spec => []IdentityIsUnique
<1>1. IInv => IdentityIsUnique
  BY DEF IInv, TablesInv, Sound, TableInv, IdentityIsUnique
<1>2. QED BY <1>1, InductiveInvariant, PTL

(* The advisory lock makes the transactions serial: none commits tables it *)
(* computed from a state another one has replaced.                         *)
THEOREM Serial == Spec => []NoLostUpdate
<1>1. IInv => NoLostUpdate
  BY DEF IInv, SessionInv, NoLostUpdate
<1>2. QED BY <1>1, InductiveInvariant, PTL

-----------------------------------------------------------------------------
(* The undo stack.  Sessions on hosts whose clocks agree write updated_at  *)
(* in the order in which the lock serialises them.                         *)
OneClock == \A p \in Procs : ClockOffset[p] = 0

Moves == {"activate", "rollback"}

\* what a call does to its own tables, and that it leaves the others alone
Effect(p) ==
  /\ pc' = pc /\ db' = db /\ req' = req /\ base' = base
  /\ \A q \in Procs \ {p} : view'[q] = view[q] /\ todo'[q] = todo[q] /\ target'[q] = target[q]
  /\ clock' = IF view'[p].stamp = view[p].stamp THEN clock ELSE clock + 1
  /\ \A d \in Ids : view'[p].stamp[d] \in {view[p].stamp[d], Now(p)}
  /\ todo'[p] \in {todo[p], Tail(todo[p]), <<>>}
  /\ \/ SameHistory(view[p], view'[p])
     \/ /\ todo[p] # <<>> /\ Head(todo[p]) \in Moves /\ todo'[p] = Tail(todo[p])
        /\ \/ Past(view[p], Now(p)) => Push(view[p], view'[p])
           \/ Pop(view[p], view'[p])

LEMMA ReturnEffect ==
  ASSUME IInv, NEW p \in Procs, NEW t \in Tables, Return(p, t),
         target' \in [Procs -> Ids \cup {NoId}],
         \A q \in Procs \ {p} : target'[q] = target[q],
         \A d \in Ids : t.stamp[d] \in {view[p].stamp[d], Now(p)},
         \/ SameHistory(view[p], t)
         \/ /\ todo[p] # <<>> /\ Head(todo[p]) \in Moves
            /\ \/ Past(view[p], Now(p)) => Push(view[p], t)
               \/ Pop(view[p], t)
  PROVE  Effect(p)
<1>1. /\ view \in [Procs -> Tables] /\ todo \in [Procs -> Seq(Ops)]
  BY DEF IInv, TypeOK
<1>2. view'[p] = t /\ todo'[p] = Tail(todo[p]) /\ \A q \in Procs \ {p} : view'[q] = view[q] /\ todo'[q] = todo[q]
  BY <1>1 DEF Return
<1>3. /\ pc' = pc /\ db' = db /\ req' = req /\ base' = base
      /\ clock' = IF t.stamp = view[p].stamp THEN clock ELSE clock + 1
  BY DEF Return
<1>4. QED BY <1>2, <1>3 DEF Effect

(* Every service call has such an effect. *)
LEMMA CallEffect ==
  ASSUME IInv, NEW p \in Procs, Call(p)
  PROVE  Effect(p)
<1> DEFINE t == view[p]
<1>1. /\ t \in Tables /\ TableInv(t) /\ Unassigned(t, nextId)
      /\ nextId \in Nat /\ Now(p) \in Nat
      /\ target \in [Procs -> Ids \cup {NoId}]
      /\ target[p] \in Ids \cup {NoId}
      /\ req[p].ident \in Identities \cup {NoIdentity}
  BY ReplacementAssumption DEF IInv, TypeOK, TablesInv, Sound, Now, Request
<1> HIDE DEF t
<1>2. ASSUME Return(p, t), target' \in [Procs -> Ids \cup {NoId}],
             \A q \in Procs \ {p} : target'[q] = target[q]
      PROVE  Effect(p)
  BY <1>1, <1>2, ReturnEffect DEF t, SameHistory
<1>3. CASE EnsureExisting(p)
  <2>1. /\ target' \in [Procs -> Ids \cup {NoId}]
        /\ \A q \in Procs \ {p} : target'[q] = target[q]
    BY <1>1, <1>3 DEF EnsureExisting, Holders
  <2>2. QED BY <1>2, <1>3, <2>1 DEF EnsureExisting, t
<1>4. CASE EnsureInsert(p)
  <2> DEFINE u == Inserted(t, nextId, req[p].ident, Now(p))
  <2>1. req[p].ident \in Identities /\ nextId \in Ids /\ Holders(t, req[p].ident) = {}
    BY <1>1, <1>4 DEF EnsureInsert, Calls, WithoutIdentity, t
  <2>2. /\ u \in Tables /\ SameHistory(t, u)
        /\ u.stamp = [t.stamp EXCEPT ![nextId] = Now(p)]
    BY <1>1, <2>1, InsertedTable
  <2>3. /\ target' \in [Procs -> Ids \cup {NoId}]
        /\ \A q \in Procs \ {p} : target'[q] = target[q]
    BY <1>1, <1>4 DEF EnsureInsert
  <2>4. Return(p, u)
    BY <1>4 DEF EnsureInsert, t
  <2> HIDE DEF u
  <2>5. \A d \in Ids : u.stamp[d] \in {t.stamp[d], Now(p)}
    BY <1>1, <2>2 DEF Tables
  <2>6. QED BY <2>2, <2>3, <2>4, <2>5, ReturnEffect DEF t
<1>5. CASE Stage(p) \/ PreflightPasses(p)
  BY <1>1, <1>2, <1>5 DEF Stage, PreflightPasses, t
<1>6. CASE Validate(p)
  <2> DEFINE u == Validated(t, target[p], Now(p))
  <2>1. MayValidate(t, target[p]) /\ target[p] \in Ids
    BY <1>6 DEF Validate, MayValidate, RowExists, t
  <2>2. /\ u \in Tables /\ SameHistory(t, u)
        /\ u.stamp = t.stamp \/ u.stamp = [t.stamp EXCEPT ![target[p]] = Now(p)]
    BY <1>1, <2>1, ValidatedTable
  <2>3. Return(p, u) /\ target' = target
    BY <1>6 DEF Validate, t
  <2> HIDE DEF u
  <2>4. \A d \in Ids : u.stamp[d] \in {t.stamp[d], Now(p)}
    BY <1>1, <2>2 DEF Tables
  <2>5. QED BY <1>1, <2>2, <2>3, <2>4, ReturnEffect DEF t
<1>7. CASE Activate(p)
  <2> DEFINE u == Activated(t, target[p], Now(p))
  <2>1. MayActivate(t, target[p]) /\ target[p] \in Ids /\ t.pointer \in Ids
    BY <1>1, <1>7 DEF Activate, MayActivate, RowExists, TableInv, t
  <2>2. /\ Return(p, u) /\ target' = target
        /\ todo[p] # <<>> /\ Head(todo[p]) \in Moves
    BY <1>7 DEF Activate, Calls, Moves, t
  <2>3. CASE target[p] = t.pointer
    <3>1. u = t
      BY <1>1, <2>3 DEF Activated, TableInv, OneActive
    <3>2. QED BY <1>1, <1>2, <2>2, <3>1
  <2>4. CASE target[p] # t.pointer
    <3>1. /\ u \in Tables
          /\ u.stamp = [t.stamp EXCEPT ![t.pointer] = Now(p), ![target[p]] = Now(p)]
          /\ Past(t, Now(p)) => Push(t, u)
      BY <1>1, <2>1, <2>4, ActivatedTable
    <3> HIDE DEF u
    <3>2. \A d \in Ids : u.stamp[d] \in {t.stamp[d], Now(p)}
      BY <1>1, <2>1, <3>1 DEF Tables
    <3>3. QED BY <1>1, <2>2, <3>1, <3>2, ReturnEffect DEF t
  <2>5. QED BY <2>3, <2>4
<1>8. CASE Rollback(p)
  <2>1. PICK d \in Ids : MostRecent(t, d) /\ Return(p, RolledBack(t, d, Now(p)))
    BY <1>8 DEF Rollback, Undoable, t
  <2> DEFINE u == RolledBack(t, d, Now(p))
  <2>2. /\ u \in Tables
        /\ u.stamp = [t.stamp EXCEPT ![t.pointer] = Now(p), ![d] = Now(p)]
        /\ Pop(t, u)
    BY <1>1, <2>1, RolledBackTable
  <2>3. /\ Return(p, u) /\ target' = target
        /\ todo[p] # <<>> /\ Head(todo[p]) \in Moves
    BY <1>8, <2>1 DEF Rollback, Calls, Moves
  <2> HIDE DEF u
  <2>4. \A e \in Ids : u.stamp[e] \in {t.stamp[e], Now(p)}
    BY <1>1, <2>1, <2>2 DEF Tables
  <2>5. QED BY <1>1, <2>2, <2>3, <2>4, ReturnEffect DEF t
<1>9. CASE Backfill(p)
  <2>1. PICK d \in Holders(t, LegacyIdentity) : Return(p, Backfilled(t, d, Now(p)))
    BY <1>9 DEF Backfill, t
  <2>2. Backfilled(t, d, Now(p)) = t
    BY <1>1, BackfilledTable
  <2>3. QED BY <1>1, <1>2, <1>9, <2>1, <2>2 DEF Backfill
<1>10. CASE PreflightConflicts(p)
  <2>1. /\ pc' = pc /\ db' = db /\ req' = req /\ base' = base
        /\ view' = view /\ clock' = clock /\ target' = target
        /\ todo'[p] = <<>> /\ \A q \in Procs \ {p} : todo'[q] = todo[q]
    BY <1>10 DEF PreflightConflicts, IInv, TypeOK
  <2>2. QED BY <2>1 DEF Effect, SameHistory
<1>11. CASE ApplySome(p)
  <2> DEFINE u == [t EXCEPT !.data[target[p]] = "partial"]
  <2>1. u \in Tables /\ SameHistory(t, u) /\ u.stamp = t.stamp
    BY <1>1, LoadedTable DEF Amounts
  <2>2. /\ view' = [view EXCEPT ![p] = u]
        /\ pc' = pc /\ db' = db /\ req' = req /\ base' = base
        /\ todo' = todo /\ clock' = clock /\ target' = target
    BY <1>11 DEF ApplySome, sessionVars, t
  <2> HIDE DEF u
  <2>3. view'[p] = u /\ \A q \in Procs \ {p} : view'[q] = view[q]
    BY <2>2 DEF IInv, TypeOK
  <2>4. QED BY <2>1, <2>2, <2>3 DEF Effect, t
<1>12. CASE ApplyRest(p)
  <2> DEFINE u == [t EXCEPT !.data[target[p]] = "whole"]
  <2>1. u \in Tables /\ SameHistory(t, u) /\ u.stamp = t.stamp
    BY <1>1, LoadedTable DEF Amounts
  <2>2. Return(p, u) /\ target' = target
    BY <1>12 DEF ApplyRest, t
  <2> HIDE DEF u
  <2>3. QED BY <1>1, <2>1, <2>2, ReturnEffect DEF t
<1>13. QED
  BY <1>3, <1>4, <1>5, <1>6, <1>7, <1>8, <1>9, <1>10, <1>11, <1>12 DEF Call

(* With one clock no version of the tables is stamped in the future. *)
LEMMA ClockNext == OneClock /\ IInv /\ ClockInv /\ [Next]_vars => ClockInv'
<1> SUFFICES ASSUME OneClock, IInv, ClockInv, [Next]_vars PROVE ClockInv'
  OBVIOUS
<1>1. ASSUME NEW p \in Procs, Call(p)
      PROVE  ClockInv'
  <2>1. Effect(p)
    BY <1>1, CallEffect
  <2>2. Now(p) = clock /\ clock \in Nat
    BY DEF OneClock, Now, IInv, TypeOK
  <2>3. \A q \in Procs : \A d \in Ids : view[q].stamp[d] \in Nat
    BY DEF IInv, TypeOK, Tables
  <2>4. \A d \in Ids : db.stamp[d] \in Nat
    BY DEF IInv, TypeOK, Tables
  <2>5. clock' \in {clock, clock + 1} /\ db' = db
    BY <2>1 DEF Effect
  <2>6. Past(db', clock')
    BY <2>2, <2>4, <2>5 DEF ClockInv, Past
  <2>7. ASSUME NEW q \in Procs, q # p PROVE Past(view'[q], clock')
    BY <2>1, <2>2, <2>3, <2>5, <2>7 DEF ClockInv, Past, Effect
  <2>8. Past(view'[p], clock')
    BY <2>1, <2>2, <2>3 DEF ClockInv, Past, Effect
  <2>9. QED BY <2>6, <2>7, <2>8 DEF ClockInv
<1>2. ASSUME NEW p \in Procs, NEW how \in Answers, End(p, how),
             db' = db \/ db' = view[p]
      PROVE  ClockInv'
  <2>1. \A q \in Procs : view'[q] = IF q = p THEN Migrated ELSE view[q]
    BY <1>2 DEF End, IInv, TypeOK
  <2>2. clock' = clock
    BY <1>2 DEF End
  <2>3. Past(Migrated, clock)
    BY TableAssumption DEF ClockInv, Past, Migrated, IInv, TypeOK, Tables
  <2>4. QED BY <1>2, <2>1, <2>2, <2>3 DEF ClockInv
<1>3. ASSUME NEW p \in Procs, FailOnMissingIdentity(p) \/ Refuse(p) \/ Commit(p) \/ Crash(p)
      PROVE  ClockInv'
  BY <1>2, <1>3 DEF FailOnMissingIdentity, Refuse, Commit, Crash, Answers
<1>4. ASSUME NEW p \in Procs, Acquire(p)
      PROVE  ClockInv'
  <2>1. \A q \in Procs : view'[q] = IF q = p THEN db ELSE view[q]
    BY <1>4 DEF Acquire, IInv, TypeOK
  <2>2. QED BY <1>4, <2>1 DEF Acquire, ClockInv
<1>5. ASSUME UNCHANGED <<db, clock, view>>
      PROVE  ClockInv'
  BY <1>5 DEF ClockInv
<1>6. QED
  BY <1>1, <1>3, <1>4, <1>5
  DEF Next, Call, AllAnswered, Submit, ReadPointer, ReadRows, vars

(* On one clock every move of the read pointer pushes the version it       *)
(* leaves on the undo stack or pops the most recent one: rollbacks walk    *)
(* back through the activation history however sessions interleave.        *)
THEOREM UndoStack == OneClock /\ Spec => StackDiscipline
<1> SUFFICES ASSUME OneClock PROVE Spec => StackDiscipline
  OBVIOUS
<1> DEFINE Disciplined ==
      \A p \in Procs :
        pc[p] = "open" /\ pc'[p] = "open" /\ view'[p].pointer # view[p].pointer
        => Push(view[p], view'[p]) \/ Pop(view[p], view'[p])
<1>1. ASSUME IInv, ClockInv, Next PROVE Disciplined
  <2>1. ASSUME NEW p \in Procs, Call(p) PROVE Disciplined
    <3>1. Effect(p) /\ Past(view[p], Now(p))
      <4>1. Now(p) = clock
        BY <1>1 DEF OneClock, Now, IInv, TypeOK
      <4>2. QED BY <1>1, <2>1, <4>1, CallEffect DEF ClockInv
    <3>2. QED BY <3>1 DEF Effect, SameHistory
  <2>2. ASSUME NEW p \in Procs, NEW how \in Answers, End(p, how) PROVE Disciplined
    <3>1. pc'[p] = "idle" /\ \A q \in Procs \ {p} : view'[q] = view[q]
      BY <1>1, <2>2 DEF End, IInv, TypeOK
    <3>2. QED BY <3>1
  <2>3. ASSUME NEW p \in Procs, Acquire(p) PROVE Disciplined
    <3>1. pc[p] = "waiting" /\ \A q \in Procs \ {p} : view'[q] = view[q]
      BY <1>1, <2>3 DEF Acquire, IInv, TypeOK
    <3>2. QED BY <3>1
  <2>4. ASSUME view' = view PROVE Disciplined
    BY <2>4
  <2>5. QED
    BY <1>1, <2>1, <2>2, <2>3, <2>4
    DEF Next, Call, AllAnswered, Submit, ReadPointer, ReadRows, vars,
        FailOnMissingIdentity, Refuse, Commit, Crash, Answers
<1>2. IInv /\ ClockInv /\ [Next]_vars => [Disciplined]_vars
  BY <1>1
<1>3. Init => ClockInv
  BY InitInv
<1>4. IInv /\ ClockInv /\ [Next]_vars => ClockInv'
  BY ClockNext
<1> HIDE DEF Disciplined
<1>5. Spec => [][Disciplined]_vars
  BY <1>2, <1>3, <1>4, InductiveInvariant, PTL DEF Spec
<1>6. QED BY <1>5 DEF StackDiscipline, Disciplined

-----------------------------------------------------------------------------
(* A rollback that names a version.  Between its start and its commit the  *)
(* session has either not called rollback_dataset yet, on the tables it    *)
(* started from, or it undid the version it names.                         *)
Names(p) == req[p].ops = <<"rollback">> /\ req[p].id # NoId

NamedInv ==
  \A p \in Procs : Names(p) =>
    /\ pc[p] # "idle" => target[p] = req[p].id
    /\ pc[p] = "waiting" => todo[p] = <<"rollback">>
    /\ pc[p] = "open" =>
         \/ todo[p] = <<"rollback">> /\ view[p] = base[p]
         \/ /\ todo[p] = <<>>
            /\ base[p].pointer = req[p].id
            /\ view[p].pointer # req[p].id

LEMMA NamedNext == IInv /\ NamedInv /\ [Next]_vars => NamedInv'
<1> SUFFICES ASSUME IInv, NamedInv, [Next]_vars PROVE NamedInv'
  OBVIOUS
<1>1. ASSUME NEW p \in Procs, Call(p)
      PROVE  NamedInv'
  <2>1. Effect(p)
    BY <1>1, CallEffect
  <2>2. pc[p] = "open" /\ todo[p] # <<>>
    BY <1>1
    DEF Call, Calls, EnsureExisting, EnsureInsert, Stage, Validate, Activate,
        Rollback, Backfill, PreflightPasses, PreflightConflicts, ApplySome, ApplyRest
  <2>3. CASE Names(p)
    <3>1. todo[p] = <<"rollback">> /\ view[p] = base[p] /\ target[p] = req[p].id
      BY <2>2, <2>3 DEF NamedInv
    <3>2. Head(todo[p]) = "rollback" /\ Tail(todo[p]) = <<>>
      BY <3>1
    <3>3. Rollback(p)
      BY <1>1, <3>2
      DEF Call, Calls, EnsureExisting, EnsureInsert, Stage, Validate, Activate,
          Backfill, PreflightPasses, PreflightConflicts, ApplySome, ApplyRest
    <3>4. PICK d \in Ids : MostRecent(view[p], d) /\ Return(p, RolledBack(view[p], d, Now(p)))
      BY <3>3 DEF Rollback, Undoable
    <3>5. view[p].pointer = req[p].id
      BY <2>3, <3>1, <3>3 DEF Rollback, MayRollback, Names
    <3>6. view[p] \in Tables /\ TableInv(view[p]) /\ Now(p) \in Nat
      BY ReplacementAssumption DEF IInv, TypeOK, TablesInv, Sound, Now
    <3>7. RolledBack(view[p], d, Now(p)).pointer # req[p].id
      <4>1. d # view[p].pointer
        BY <3>4 DEF MostRecent, Undoable
      <4>2. RolledBack(view[p], d, Now(p)).pointer = d
        BY <3>6 DEF RolledBack, SetStatus, Tables
      <4>3. QED BY <3>5, <4>1, <4>2
    <3>8. /\ view'[p].pointer # req[p].id /\ todo'[p] = <<>>
          /\ target' = target
      BY <3>2, <3>3, <3>4, <3>7 DEF Rollback, Return, IInv, TypeOK
    <3>9. QED
      BY <2>1, <2>2, <3>1, <3>5, <3>8 DEF NamedInv, Names, Effect
  <2>4. CASE ~Names(p)
    BY <2>1, <2>4 DEF NamedInv, Names, Effect
  <2>5. QED BY <2>3, <2>4
<1>2. ASSUME NEW p \in Procs, NEW how \in Answers, End(p, how)
      PROVE  NamedInv'
  <2>1. /\ pc'[p] = "idle"
        /\ \A q \in Procs \ {p} :
             /\ pc'[q] = pc[q] /\ req'[q] = req[q] /\ todo'[q] = todo[q]
             /\ target'[q] = target[q] /\ view'[q] = view[q] /\ base'[q] = base[q]
    BY <1>2 DEF End, IInv, TypeOK
  <2>2. QED BY <2>1 DEF NamedInv, Names
<1>3. ASSUME NEW p \in Procs, NEW r \in Requests, Submit(p, r)
      PROVE  NamedInv'
  <2>1. /\ pc'[p] = "waiting" /\ req'[p] = r /\ todo'[p] = r.ops /\ target'[p] = r.id
        /\ view' = view /\ base' = base
        /\ \A q \in Procs \ {p} :
             /\ pc'[q] = pc[q] /\ req'[q] = req[q] /\ todo'[q] = todo[q]
             /\ target'[q] = target[q]
    BY <1>3 DEF Submit, IInv, TypeOK
  <2>2. QED BY <2>1 DEF NamedInv, Names
<1>4. ASSUME NEW p \in Procs, Acquire(p)
      PROVE  NamedInv'
  <2>1. /\ pc[p] = "waiting" /\ pc'[p] = "open" /\ view'[p] = base'[p]
        /\ req' = req /\ todo' = todo /\ target' = target
        /\ \A q \in Procs \ {p} :
             pc'[q] = pc[q] /\ view'[q] = view[q] /\ base'[q] = base[q]
    BY <1>4 DEF Acquire, IInv, TypeOK
  <2>2. QED BY <2>1 DEF NamedInv, Names
<1>5. ASSUME UNCHANGED <<pc, req, todo, target, view, base>>
      PROVE  NamedInv'
  BY <1>5 DEF NamedInv, Names
<1>6. QED
  BY <1>1, <1>2, <1>3, <1>4, <1>5
  DEF Next, Call, AllAnswered, ReadPointer, ReadRows, vars, sessionVars,
      FailOnMissingIdentity, Refuse, Commit, Crash, Answers

(* Two operators who ask to roll back the same version undo it once: the   *)
(* second finds that it is no longer what readers see, and is refused.     *)
THEOREM RollbackOnce == Spec => RollbackUndoesWhatItNames
<1> DEFINE Once ==
      \A p \in Procs :
        /\ pc[p] = "open" /\ pc'[p] = "idle" /\ answer'[p] = "committed"
        /\ req[p].ops = <<"rollback">> /\ req[p].id # NoId
        => db.pointer = req[p].id /\ db'.pointer # req[p].id
<1>1. IInv /\ NamedInv /\ [Next]_vars => [Once]_vars
  <2> SUFFICES ASSUME IInv, NamedInv, Next,
                      NEW p \in Procs, Names(p),
                      pc[p] = "open", pc'[p] = "idle", answer'[p] = "committed"
               PROVE  db.pointer = req[p].id /\ db'.pointer # req[p].id
    BY DEF Names
  <2>1. Commit(p)
    <3>1. ASSUME NEW q \in Procs, NEW how \in Answers, End(q, how)
          PROVE  q = p /\ how = "committed"
      BY <3>1 DEF End, IInv, TypeOK
    <3>2. ASSUME pc' = pc PROVE FALSE
      BY <3>2
    <3>3. ASSUME NEW q \in Procs, Call(q) PROVE FALSE
      BY <3>2, <3>3, CallEffect DEF Effect
    <3>4. ASSUME NEW q \in Procs, Acquire(q) PROVE FALSE
      BY <3>4 DEF Acquire, IInv, TypeOK
    <3>5. ASSUME NEW q \in Procs, NEW r \in Requests, Submit(q, r) PROVE FALSE
      BY <3>5 DEF Submit, IInv, TypeOK
    <3>6. QED
      BY <3>1, <3>2, <3>3, <3>4, <3>5
      DEF Next, Call, AllAnswered, ReadPointer, ReadRows, vars, sessionVars,
          FailOnMissingIdentity, Refuse, Commit, Crash, Answers
  <2>2. base[p].pointer = req[p].id /\ view[p].pointer # req[p].id /\ base[p] = db
    BY <2>1 DEF Commit, NamedInv, IInv, SessionInv
  <2>3. QED BY <2>1, <2>2 DEF Commit
<1>2. Init => NamedInv
  BY DEF Init, NamedInv, Names, NoRequest
<1> HIDE DEF Once
<1>3. Spec => [][Once]_vars
  BY <1>1, <1>2, InductiveInvariant, NamedNext, PTL DEF Spec
<1>4. QED BY <1>3 DEF RollbackUndoesWhatItNames, Once

-----------------------------------------------------------------------------
(* The activation history.  A transaction makes at most one call that      *)
(* moves the read pointer, as every request of the command line and the    *)
(* loader does (LEMMA ProgramsMoveOnce): one with two would show readers   *)
(* an activation and a rollback as a single step.                          *)
MovesOnce(q) == \A i, j \in 1..Len(q) : q[i] \in Moves /\ q[j] \in Moves => i = j

NoMove(q) == \A i \in 1..Len(q) : q[i] \notin Moves

OneMove == \A r \in Requests : MovesOnce(r.ops)

LEMMA OneMoreOp ==
  ASSUME NEW q \in Seq(Ops), NoMove(q), NEW e \in Ops
  PROVE  MovesOnce(Append(q, e))
<1>1. /\ Len(Append(q, e)) = Len(q) + 1 /\ Len(q) \in Nat
      /\ \A i \in 1..Len(q) : Append(q, e)[i] = q[i]
  OBVIOUS
<1>2. QED BY <1>1 DEF NoMove, MovesOnce

\* replacement/__main__.py:38-72 and ingestion/loader.py:418-442
LEMMA ProgramsMoveOnce == \A r \in CliRequests \cup IngestRequests : MovesOnce(r.ops)
<1>1. ASSUME NEW r \in CliRequests PROVE MovesOnce(r.ops)
  <2>1. Len(r.ops) \in 1..2 /\ (Len(r.ops) = 2 => r.ops[1] = "ensure")
    BY DEF CliRequests
  <2>2. QED BY <2>1 DEF MovesOnce, Moves
<1>2. ASSUME NEW r \in IngestRequests PROVE MovesOnce(r.ops)
  <2>1. r.ops = Loading \/ r.ops = Append(Loading, "activate")
    BY DEF IngestRequests
  <2>2. CASE r.ops = Loading
    BY <2>2 DEF MovesOnce, Moves, Loading
  <2>3. CASE r.ops = Append(Loading, "activate")
    <3>1. Loading \in Seq(Ops) /\ NoMove(Loading) /\ "activate" \in Ops
      BY DEF Loading, Ops, NoMove, Moves
    <3>2. QED BY <2>3, <3>1, OneMoreOp
  <2>4. QED BY <2>1, <2>2, <2>3
<1>3. QED BY <1>1, <1>2

\* a service call leaves the rest of the request, or none of it
LEMMA RestMovesOnce ==
  ASSUME NEW q \in Seq(Ops), MovesOnce(q), NEW r \in {q, Tail(q), <<>>}, r = Tail(q) => q # <<>>
  PROVE  /\ MovesOnce(r)
         /\ NoMove(q) => NoMove(r)
         /\ r = Tail(q) /\ q # <<>> /\ Head(q) \in Moves => NoMove(r)
<1>1. CASE q # <<>> /\ r = Tail(q)
  <2>1. /\ Len(r) = Len(q) - 1 /\ Len(q) \in Nat /\ Len(q) > 0
        /\ \A i \in 1..Len(r) : r[i] = q[i + 1]
        /\ Head(q) = q[1]
    BY <1>1, HeadTailProperties
  <2>2. MovesOnce(r)
    <3> SUFFICES ASSUME NEW i \in 1..Len(r), NEW j \in 1..Len(r), r[i] \in Moves, r[j] \in Moves
                 PROVE  i = j
      BY DEF MovesOnce
    <3>1. i + 1 \in 1..Len(q) /\ j + 1 \in 1..Len(q)
      BY <2>1
    <3>2. i + 1 = j + 1
      BY <2>1, <3>1 DEF MovesOnce
    <3>3. QED BY <2>1, <3>2
  <2>3. NoMove(q) => NoMove(r)
    BY <2>1 DEF NoMove
  <2>4. ASSUME Head(q) \in Moves PROVE NoMove(r)
    <3> SUFFICES ASSUME NEW i \in 1..Len(r), r[i] \in Moves PROVE FALSE
      BY DEF NoMove
    <3>1. i + 1 \in 1..Len(q) /\ 1 \in 1..Len(q) /\ q[i + 1] \in Moves /\ q[1] \in Moves
      BY <2>1, <2>4
    <3>2. i + 1 = 1
      BY <3>1 DEF MovesOnce
    <3>3. QED BY <2>1, <3>2
  <2>5. QED BY <2>2, <2>3, <2>4
<1>2. CASE r = q \/ r = <<>>
  <2>1. MovesOnce(r) /\ (NoMove(q) => NoMove(r))
    BY <1>2 DEF MovesOnce, NoMove
  <2>2. QED BY <1>1, <2>1
<1>3. QED BY <1>1, <1>2

\* rollback as the history shows it; the status of the row it leaves does not
Popped(t, u) ==
  /\ MostRecent(t, u.pointer)
  /\ Undoable(u) = Undoable(t) \ {u.pointer}
  /\ \A d \in Undoable(u) : u.stamp[d] = t.stamp[d]

Moved(t, u) == Push(t, u) \/ Popped(t, u)

\* what a transaction has done to the tables it started from
MoveInv ==
  \A p \in Procs :
    /\ MovesOnce(todo[p])
    /\ pc[p] = "open" =>
         \/ SameHistory(base[p], view[p])
         \/ NoMove(todo[p]) /\ Moved(base[p], view[p])

\* calls that leave the history alone before and after the move
LEMMA SameMove ==
  ASSUME NEW s, NEW t, NEW u
  PROVE  /\ SameHistory(s, t) /\ SameHistory(t, u) => SameHistory(s, u)
         /\ SameHistory(s, t) /\ Moved(t, u) => Moved(s, u)
         /\ Moved(s, t) /\ SameHistory(t, u) => Moved(s, u)
<1>1. SameHistory(s, t) /\ SameHistory(t, u) => SameHistory(s, u)
  BY DEF SameHistory
<1>2. ASSUME SameHistory(s, t) PROVE Moved(t, u) => Moved(s, u)
  <2>1. \A d : MostRecent(t, d) => MostRecent(s, d)
    BY <1>2 DEF SameHistory, MostRecent, Newer
  <2>2. Push(t, u) => Push(s, u)
    BY <1>2 DEF SameHistory, Push
  <2>3. Popped(t, u) => Popped(s, u)
    BY <1>2, <2>1 DEF SameHistory, Popped
  <2>4. QED BY <2>2, <2>3 DEF Moved
<1>3. ASSUME SameHistory(t, u) PROVE Moved(s, t) => Moved(s, u)
  <2>1. \A d : MostRecent(t, d) => MostRecent(u, d)
    BY <1>3 DEF SameHistory, MostRecent, Newer
  <2>2. Push(s, t) => Push(s, u)
    BY <1>3, <2>1 DEF SameHistory, Push
  <2>3. Popped(s, t) => Popped(s, u)
    BY <1>3 DEF SameHistory, Popped
  <2>4. QED BY <2>2, <2>3 DEF Moved
<1>4. QED BY <1>1, <1>2, <1>3

\* every step keeps it
LEMMA MoveNext ==
  OneClock /\ OneMove /\ IInv /\ ClockInv /\ MoveInv /\ [Next]_vars => MoveInv'
<1> SUFFICES ASSUME OneClock, OneMove, IInv, ClockInv, MoveInv, [Next]_vars
             PROVE  MoveInv'
  OBVIOUS
<1>1. ASSUME NEW p \in Procs, Call(p)
      PROVE  MoveInv'
  <2>1. Effect(p)
    BY <1>1, CallEffect
  <2>2. pc[p] = "open" /\ todo[p] # <<>> /\ todo[p] \in Seq(Ops)
    BY <1>1
    DEF Call, Calls, EnsureExisting, EnsureInsert, Stage, Validate, Activate,
        Rollback, Backfill, PreflightPasses, PreflightConflicts, ApplySome, ApplyRest,
        IInv, TypeOK
  <2>3. Past(view[p], Now(p))
    <3>1. Now(p) = clock
      BY DEF OneClock, Now, IInv, TypeOK
    <3>2. QED BY <3>1 DEF ClockInv
  <2> DEFINE s == base[p]
             t == view[p]
             u == view'[p]
  <2>4. /\ MovesOnce(todo'[p])
        /\ NoMove(todo[p]) => NoMove(todo'[p])
        /\ todo'[p] = Tail(todo[p]) /\ Head(todo[p]) \in Moves => NoMove(todo'[p])
    BY <2>1, <2>2, RestMovesOnce DEF Effect, MoveInv
  <2>5. \/ SameHistory(t, u)
        \/ NoMove(todo'[p]) /\ ~NoMove(todo[p]) /\ Moved(t, u)
    <3>1. todo[p] # <<>> /\ Head(todo[p]) \in Moves => ~NoMove(todo[p])
      BY <2>2, HeadTailProperties DEF NoMove
    <3>2. Pop(t, u) => Popped(t, u)
      BY DEF Pop, Popped
    <3>3. QED BY <2>1, <2>3, <2>4, <3>1, <3>2 DEF Effect, Moved
  <2>6. SameHistory(s, t) \/ (NoMove(todo[p]) /\ Moved(s, t))
    BY <2>2 DEF MoveInv
  <2>7. SameHistory(s, u) \/ (NoMove(todo'[p]) /\ Moved(s, u))
    <3> HIDE DEF s, t, u
    <3>1. QED BY <2>4, <2>5, <2>6, SameMove
  <2>8. QED BY <2>1, <2>4, <2>7 DEF Effect, MoveInv
<1>2. ASSUME NEW p \in Procs, NEW how \in Answers, End(p, how)
      PROVE  MoveInv'
  <2>1. /\ pc'[p] = "idle" /\ todo'[p] = <<>>
        /\ \A q \in Procs \ {p} :
             pc'[q] = pc[q] /\ todo'[q] = todo[q] /\ view'[q] = view[q] /\ base'[q] = base[q]
    BY <1>2 DEF End, IInv, TypeOK
  <2>2. MovesOnce(<<>>)
    BY DEF MovesOnce
  <2>3. QED BY <2>1, <2>2 DEF MoveInv
<1>3. ASSUME NEW p \in Procs, NEW r \in Requests, Submit(p, r)
      PROVE  MoveInv'
  <2>1. /\ pc'[p] = "waiting" /\ todo'[p] = r.ops
        /\ view' = view /\ base' = base
        /\ \A q \in Procs \ {p} : pc'[q] = pc[q] /\ todo'[q] = todo[q]
    BY <1>3 DEF Submit, IInv, TypeOK
  <2>2. QED BY <2>1 DEF MoveInv, OneMove
<1>4. ASSUME NEW p \in Procs, Acquire(p)
      PROVE  MoveInv'
  <2>1. /\ pc'[p] = "open" /\ view'[p] = base'[p] /\ todo' = todo
        /\ \A q \in Procs \ {p} :
             pc'[q] = pc[q] /\ view'[q] = view[q] /\ base'[q] = base[q]
    BY <1>4 DEF Acquire, IInv, TypeOK
  <2>2. QED BY <2>1 DEF MoveInv, SameHistory
<1>5. ASSUME UNCHANGED <<pc, todo, view, base>>
      PROVE  MoveInv'
  BY <1>5 DEF MoveInv
<1>6. QED
  BY <1>1, <1>2, <1>3, <1>4, <1>5
  DEF Next, Call, AllAnswered, ReadPointer, ReadRows, vars, sessionVars,
      FailOnMissingIdentity, Refuse, Commit, Crash, Answers

\* the RETIRED rows are finitely many and updated_at, then id, orders them
LEMMA StackOrdered ==
  ASSUME NEW t \in Tables, NEW n \in Nat, Unassigned(t, n)
  PROVE  /\ IsFiniteSet(Undoable(t))
         /\ Ordering(RetirementOrder(t), Undoable(t))
<1>1. Undoable(t) \in SUBSET (0..n)
  <2> SUFFICES ASSUME NEW d \in Undoable(t) PROVE d \in 0..n
    OBVIOUS
  <2>1. d \in Ids /\ d \in Nat /\ t.status[d] = "RETIRED"
    BY TableAssumption DEF Undoable
  <2>2. ~(d >= n)
    BY <2>1 DEF Unassigned
  <2>3. QED BY <2>1, <2>2
<1>2. IsFiniteSet(Undoable(t))
  <2>1. IsFiniteSet(0..n)
    BY FS_Interval
  <2>2. QED BY <1>1, <2>1, FS_Subset
<1>3. \A d \in Undoable(t) : d \in Nat /\ t.stamp[d] \in Nat
  BY TableAssumption DEF Undoable, Tables
<1>4. Ordering(RetirementOrder(t), Undoable(t))
  BY <1>3 DEF Ordering, RetirementOrder, RetiredBefore
<1>5. QED BY <1>2, <1>4

\* a row retired after all the others is the last of the stack
LEMMA StackGrows ==
  ASSUME NEW t, NEW u, NEW d,
         IsFiniteSet(Undoable(t)), Ordering(RetirementOrder(t), Undoable(t)),
         Ordering(RetirementOrder(u), Undoable(u)),
         d \notin Undoable(t), Undoable(u) = Undoable(t) \cup {d}, MostRecent(u, d),
         \A e \in Undoable(t) : u.stamp[e] = t.stamp[e]
  PROVE  SortedBy(Undoable(u), RetirementOrder(u))
           = Append(SortedBy(Undoable(t), RetirementOrder(t)), d)
<1> DEFINE S == Undoable(t)
           R == RetirementOrder(u)
           Q == RetirementOrder(t)
<1>1. \A x, y \in S : <<x, y>> \in R <=> <<x, y>> \in Q
  BY DEF RetirementOrder, RetiredBefore
<1>2. \A x \in S : <<x, d>> \in R
  BY DEF RetirementOrder, RetiredBefore, MostRecent, Newer
<1>3. IsFiniteSet(S) /\ d \notin S /\ Ordering(R, S \cup {d}) /\ Ordering(Q, S)
  OBVIOUS
<1> HIDE DEF S, R, Q
<1>4. SortedBy(S, R) = SortedBy(S, Q)
  BY <1>1, <1>3, SortedBySame
<1>5. SortedBy(S \cup {d}, R) = Append(SortedBy(S, R), d)
  BY <1>2, <1>3, SortedByAppend
<1>6. QED BY <1>4, <1>5 DEF S, R, Q

\* the move of a transaction is the abstract step of the history
LEMMA MovedHistory ==
  ASSUME NEW t \in Tables, NEW u \in Tables, NEW n \in Nat,
         Unassigned(t, n), Unassigned(u, n), t.pointer \in Ids, u.pointer \in Ids
  PROVE  /\ SameHistory(t, u) => HistoryOf(u) = HistoryOf(t)
         /\ Push(t, u) => /\ HistoryOf(u) = Append(HistoryOf(t), u.pointer)
                          /\ ~Abstract!Contains(HistoryOf(t), u.pointer)
         /\ Popped(t, u) => /\ Len(HistoryOf(t)) > 1
                            /\ HistoryOf(u) = Abstract!Front(HistoryOf(t))
<1> DEFINE q == SortedBy(Undoable(t), RetirementOrder(t))
           r == SortedBy(Undoable(u), RetirementOrder(u))
<1>1. /\ IsFiniteSet(Undoable(t)) /\ Ordering(RetirementOrder(t), Undoable(t))
      /\ IsFiniteSet(Undoable(u)) /\ Ordering(RetirementOrder(u), Undoable(u))
  BY StackOrdered
<1>2. q \in Seq(Undoable(t)) /\ r \in Seq(Undoable(u))
  BY <1>1, SortedBySeq
<1>3. ASSUME SameHistory(t, u) PROVE HistoryOf(u) = HistoryOf(t)
  <2>1. RetirementOrder(u) = RetirementOrder(t)
    BY <1>3 DEF SameHistory, RetirementOrder, RetiredBefore
  <2>2. QED BY <1>3, <2>1 DEF SameHistory, HistoryOf
<1>4. ASSUME Push(t, u)
      PROVE  /\ HistoryOf(u) = Append(HistoryOf(t), u.pointer)
             /\ ~Abstract!Contains(HistoryOf(t), u.pointer)
  <2>1. t.pointer \notin Undoable(t) /\ u.pointer \notin Undoable(u)
    BY DEF Undoable
  <2>2. r = Append(q, t.pointer)
    BY <1>1, <1>4, <2>1, StackGrows DEF Push
  <2>3. HistoryOf(t) = r /\ HistoryOf(u) = Append(r, u.pointer)
    BY <2>2 DEF HistoryOf
  <2>4. ~Abstract!Contains(r, u.pointer)
    <3> HIDE DEF r
    <3>1. \A i \in 1..Len(r) : r[i] \in Undoable(u)
      BY <1>2, ElementOfSeq
    <3>2. QED BY <2>1, <3>1 DEF Abstract!Contains
  <2>5. QED BY <2>3, <2>4
<1>5. ASSUME Popped(t, u)
      PROVE  /\ Len(HistoryOf(t)) > 1
             /\ HistoryOf(u) = Abstract!Front(HistoryOf(t))
  <2>1. /\ u.pointer \in Undoable(t)
        /\ u.pointer \notin Undoable(u)
        /\ Undoable(t) = Undoable(u) \cup {u.pointer}
        /\ \A e \in Undoable(u) : t.stamp[e] = u.stamp[e]
        /\ MostRecent(t, u.pointer)
    BY <1>5 DEF Popped, MostRecent
  <2>2. q = Append(r, u.pointer)
    BY <1>1, <2>1, StackGrows
  <2>3. HistoryOf(u) = q /\ HistoryOf(t) = Append(q, t.pointer)
    BY <2>2 DEF HistoryOf
  <2>4. q \in Seq(Ids) /\ Len(q) >= 1 /\ Len(q) \in Nat
    <3> HIDE DEF q, r
    <3>1. r \in Seq(Ids) /\ Len(r) \in Nat
      BY <1>2, SeqMonotonic, LenProperties DEF Undoable
    <3>2. QED BY <2>2, <3>1, AppendProperties
  <2> HIDE DEF q
  <2>5. /\ Append(q, t.pointer) \in Seq(Ids) /\ Len(Append(q, t.pointer)) = Len(q) + 1
        /\ SubSeq(Append(q, t.pointer), 1, Len(q)) = q
    BY <2>4, HeadTailAppend, AppendProperties
  <2>6. QED BY <2>3, <2>4, <2>5 DEF Abstract!Front
<1>6. QED BY <1>3, <1>4, <1>5

(* The commits of DatasetReplacement implement ActivationHistory           *)
(* (docs/architecture.md, repeated rollbacks walk back through it): each   *)
(* one leaves the history as it is, extends it by a version that is not in *)
(* it, or takes its last version away, and no other step shows in it.      *)
THEOREM ImplementsActivationHistory == OneClock /\ OneMove /\ Spec => ImplementsHistory
<1> SUFFICES ASSUME OneClock, OneMove PROVE Spec => ImplementsHistory
  OBVIOUS
<1>1. Init => Abstract!Init
  <2> SUFFICES ASSUME Init PROVE HistoryOf(db) = <<LegacyId>>
    BY DEF Abstract!Init
  <2>1. db.pointer = LegacyId /\ Undoable(db) = {}
    BY DEF Init, Migrated, Undoable
  <2>2. SortedBy({}, RetirementOrder(db)) = <<>>
    BY FS_EmptySet DEF SortedBy
  <2>3. SortedBy(Undoable(db), RetirementOrder(db)) = <<>>
    BY <2>1, <2>2
  <2> DEFINE q == SortedBy(Undoable(db), RetirementOrder(db))
  <2>4. HistoryOf(db) = Append(q, LegacyId)
    BY <2>1 DEF HistoryOf
  <2> HIDE DEF q
  <2>5. Append(q, LegacyId) = <<LegacyId>>
    BY <2>3 DEF q
  <2>6. QED BY <2>4, <2>5
<1>2. Init => MoveInv
  BY DEF Init, MoveInv, MovesOnce
<1>3. IInv /\ MoveInv /\ [Next]_vars => [Abstract!Next]_(HistoryOf(db))
  <2> SUFFICES ASSUME IInv, MoveInv, [Next]_vars
               PROVE  Abstract!Next \/ HistoryOf(db)' = HistoryOf(db)
    OBVIOUS
  <2>1. ASSUME db' = db PROVE HistoryOf(db)' = HistoryOf(db)
    BY <2>1 DEF HistoryOf, Undoable, RetirementOrder, RetiredBefore, SortedBy, Before, NotAfter
  <2>2. ASSUME NEW p \in Procs, Commit(p)
        PROVE  Abstract!Next \/ HistoryOf(db)' = HistoryOf(db)
    <3>1. /\ db \in Tables /\ Unassigned(db, nextId) /\ db.pointer \in Ids
          /\ view[p] \in Tables /\ Unassigned(view[p], nextId) /\ view[p].pointer \in Ids
          /\ nextId \in Nat
      BY DEF IInv, TypeOK, TablesInv, Sound, TableInv
    <3>2. db' = view[p] /\ (SameHistory(db, view[p]) \/ Moved(db, view[p]))
      BY <2>2 DEF Commit, IInv, SessionInv, MoveInv
    <3>3. HistoryOf(db)' = HistoryOf(db')
      BY DEF HistoryOf, Undoable, RetirementOrder, RetiredBefore, SortedBy, Before, NotAfter
    <3>4. HistoryOf(db') = HistoryOf(view[p])
      BY <3>2
    <3>5. QED
      BY <3>1, <3>2, <3>3, <3>4, MovedHistory
      DEF Moved, Abstract!Next, Abstract!Undo, Abstract!Promote
  <2>3. ASSUME NEW p \in Procs, Call(p) PROVE db' = db
    BY <2>3, CallEffect DEF Effect
  <2>4. QED
    BY <2>1, <2>2, <2>3
    DEF Next, Call, AllAnswered, Submit, Acquire, ReadPointer, ReadRows, vars,
        FailOnMissingIdentity, Refuse, Crash
<1>4. Init => ClockInv
  BY InitInv
<1>5. IInv /\ ClockInv /\ [Next]_vars => ClockInv'
  BY ClockNext
<1>6. IInv /\ ClockInv /\ MoveInv /\ [Next]_vars => MoveInv'
  BY MoveNext
<1>7. QED
  BY <1>1, <1>2, <1>3, <1>4, <1>5, <1>6, InductiveInvariant, PTL
  DEF Spec, ImplementsHistory, Abstract!Spec

-----------------------------------------------------------------------------
(* What readers find: a version without rows, or with all of them.  Only a *)
(* load in progress leaves a part behind, in its own uncommitted tables.   *)

NoPart(t) == \A d \in Ids : t.data[d] # "partial"

\* p is in the middle of loading d
InApply(p, d) == todo[p] # <<>> /\ Head(todo[p]) = "apply" /\ d = target[p]

PartInv ==
  /\ NoPart(db)
  /\ \A p \in Procs : pc[p] = "open" =>
       \A d \in Ids : view[p].data[d] = "partial" => InApply(p, d)
  /\ \A r \in Readers : reading[r].data # "partial"

(* No change of statuses touches the rows of a version. *)
LEMMA StatusKeepsData ==
  ASSUME NEW t \in Tables, NEW d \in Ids, NEW s \in Statuses, NEW now \in Nat
  PROVE  SetStatus(t, d, s, now) \in Tables /\ SetStatus(t, d, s, now).data = t.data
BY DEF SetStatus, Tables

LEMMA EffectsKeepData ==
  ASSUME NEW t \in Tables, NEW d \in Ids, NEW now \in Nat, t.pointer \in Ids
  PROVE  /\ Validated(t, d, now).data = t.data
         /\ Activated(t, d, now).data = t.data
         /\ RolledBack(t, d, now).data = t.data
<1>1. Validated(t, d, now).data = t.data
  BY StatusKeepsData DEF Validated, Statuses
<1>2. Activated(t, d, now).data = t.data
  <2>1. /\ Retired(t, t.pointer, now) \in Tables
        /\ Retired(t, t.pointer, now).data = t.data
    BY StatusKeepsData DEF Retired, Statuses
  <2> DEFINE r == Retired(t, t.pointer, now)
             u == SetStatus(r, d, "ACTIVE", now)
  <2>2. u \in Tables /\ u.data = t.data
    BY <2>1, StatusKeepsData DEF Statuses
  <2>3. SetStatus(t, d, "ACTIVE", now).data = t.data
    BY StatusKeepsData DEF Statuses
  <2>4. Activated(t, d, now) =
          IF t.pointer = d
          THEN IF t.status[d] = "READY" THEN SetStatus(t, d, "ACTIVE", now) ELSE t
          ELSE [u EXCEPT !.pointer = d]
    BY DEF Activated
  <2> HIDE DEF r, u
  <2>5. [u EXCEPT !.pointer = d].data = t.data
    BY <2>2 DEF Tables
  <2>6. QED BY <2>3, <2>4, <2>5
<1>3. RolledBack(t, d, now).data = t.data
  <2> DEFINE r == SetStatus(t, t.pointer, "READY", now)
             u == SetStatus(r, d, "ACTIVE", now)
  <2>1. r \in Tables /\ r.data = t.data
    BY StatusKeepsData DEF Statuses
  <2> HIDE DEF r
  <2>2. u \in Tables /\ u.data = t.data
    BY <2>1, StatusKeepsData DEF Statuses
  <2>3. RolledBack(t, d, now) = [u EXCEPT !.pointer = d]
    BY DEF RolledBack, r
  <2> HIDE DEF u
  <2>4. QED BY <2>2, <2>3 DEF Tables
<1>4. QED BY <1>1, <1>2, <1>3

(* A call that leaves no part behind, or only that of the load it makes,   *)
(* keeps the invariant: it publishes nothing.                              *)
LEMMA CallKept ==
  ASSUME IInv, PartInv, NEW p \in Procs, Call(p),
         \A d \in Ids : view'[p].data[d] = "partial" => InApply(p, d)'
  PROVE  PartInv'
<1>1. /\ pc' = pc /\ db' = db /\ reading' = reading
      /\ \A q \in Procs \ {p} : view'[q] = view[q] /\ todo'[q] = todo[q] /\ target'[q] = target[q]
  <2>1. Effect(p) /\ reading' = reading
    BY CallEffect DEF Call, EnsureExisting, EnsureInsert, Stage, Validate, Activate, Rollback,
                      Backfill, PreflightPasses, PreflightConflicts, ApplySome, ApplyRest, Return
  <2>2. QED BY <2>1 DEF Effect
<1>2. \A q \in Procs \ {p} : \A d \in Ids :
        pc'[q] = "open" /\ view'[q].data[d] = "partial" => InApply(q, d)'
  BY <1>1 DEF PartInv, InApply
<1>3. QED BY <1>1, <1>2 DEF PartInv, NoPart

(* Each service call keeps the invariant. *)
LEMMA CallLoads ==
  ASSUME IInv, PartInv, NEW p \in Procs, Call(p)
  PROVE  PartInv'
<1> DEFINE t == view[p]
<1>1. /\ pc[p] = "open" /\ todo[p] # <<>>
      /\ t \in Tables /\ t.pointer \in Ids /\ Now(p) \in Nat /\ TableInv(t)
      /\ target[p] \in Ids \cup {NoId}
      /\ view \in [Procs -> Tables]
  <2>1. pc[p] = "open" /\ todo[p] # <<>>
    BY DEF Call, Calls, EnsureExisting, EnsureInsert, Stage, Validate, Activate,
           Rollback, Backfill, PreflightPasses, PreflightConflicts, ApplySome, ApplyRest
  <2>2. QED
    BY <2>1, ReplacementAssumption DEF IInv, TypeOK, TablesInv, Sound, Now, TableInv
<1>2. Head(todo[p]) # "apply" => NoPart(t)
  BY <1>1 DEF PartInv, InApply, NoPart
<1> HIDE DEF t
<1>3. ASSUME NEW u, Return(p, u), NoPart(u)
      PROVE  PartInv'
  <2>1. view'[p] = u
    BY <1>1, <1>3 DEF Return
  <2>2. QED BY <1>3, <2>1, CallKept DEF NoPart
<1>4. CASE EnsureExisting(p) \/ Stage(p) \/ PreflightPasses(p)
  BY <1>2, <1>3, <1>4 DEF EnsureExisting, Stage, PreflightPasses, Calls, t
<1>5. CASE EnsureInsert(p)
  <2> DEFINE u == Inserted(t, nextId, req[p].ident, Now(p))
  <2>1. /\ nextId \in Ids /\ NoPart(t) /\ Return(p, u)
    BY <1>2, <1>5 DEF EnsureInsert, Calls, t
  <2>2. u.data = [t.data EXCEPT ![nextId] = "none"]
    BY <1>1 DEF Inserted, SetStatus, Tables
  <2> HIDE DEF u
  <2>3. NoPart(u)
    BY <1>1, <2>1, <2>2 DEF NoPart, Tables
  <2>4. QED BY <1>3, <2>1, <2>3
<1>6. CASE Validate(p)
  <2>1. /\ target[p] \in Ids /\ NoPart(t)
        /\ Return(p, Validated(t, target[p], Now(p)))
    BY <1>2, <1>6 DEF Validate, MayValidate, RowExists, Calls, t
  <2>2. NoPart(Validated(t, target[p], Now(p)))
    BY <1>1, <2>1, EffectsKeepData DEF NoPart
  <2>3. QED BY <1>3, <2>1, <2>2
<1>7. CASE Activate(p)
  <2>1. /\ target[p] \in Ids /\ NoPart(t)
        /\ Return(p, Activated(t, target[p], Now(p)))
    BY <1>2, <1>7 DEF Activate, MayActivate, RowExists, Calls, t
  <2>2. NoPart(Activated(t, target[p], Now(p)))
    BY <1>1, <2>1, EffectsKeepData DEF NoPart
  <2>3. QED BY <1>3, <2>1, <2>2
<1>8. CASE Rollback(p)
  <2>1. PICK d \in Ids : Return(p, RolledBack(t, d, Now(p)))
    BY <1>8 DEF Rollback, Undoable, t
  <2>2. NoPart(t)
    BY <1>2, <1>8 DEF Rollback, Calls
  <2>3. NoPart(RolledBack(t, d, Now(p)))
    BY <1>1, <2>1, <2>2, EffectsKeepData DEF NoPart
  <2>4. QED BY <1>3, <2>1, <2>3
<1>9. CASE Backfill(p)
  <2>1. PICK d \in Holders(t, LegacyIdentity) : Return(p, Backfilled(t, d, Now(p)))
    BY <1>9 DEF Backfill, t
  <2>2. Return(p, t) /\ NoPart(t)
    BY <1>1, <1>2, <1>9, <2>1, BackfilledTable DEF Backfill, Calls
  <2>3. QED BY <1>3, <2>2
<1>10. CASE PreflightConflicts(p)
  <2>1. NoPart(t) /\ view' = view
    BY <1>2, <1>10 DEF PreflightConflicts, Calls
  <2>2. QED BY <2>1, CallKept DEF NoPart, t
<1>11. CASE ApplySome(p)
  <2> DEFINE u == [t EXCEPT !.data[target[p]] = "partial"]
  <2>1. /\ Head(todo[p]) = "apply" /\ t.data[target[p]] = "none"
        /\ todo' = todo /\ target' = target /\ view' = [view EXCEPT ![p] = u]
    BY <1>11 DEF ApplySome, Calls, sessionVars, t
  <2>2. \A d \in Ids : t.data[d] = "partial" => InApply(p, d)
    BY <1>1 DEF PartInv, t
  <2>3. u.data = [t.data EXCEPT ![target[p]] = "partial"]
    BY <1>1 DEF Tables
  <2>4. view'[p] = u
    BY <1>1, <2>1
  <2> HIDE DEF u
  <2>5. \A d \in Ids : u.data[d] = "partial" => d = target[p] \/ t.data[d] = "partial"
    BY <1>1, <2>3 DEF Tables
  <2>6. \A d \in Ids : u.data[d] = "partial" => InApply(p, d)'
    BY <1>1, <2>1, <2>2, <2>5 DEF InApply
  <2>7. QED BY <2>4, <2>6, CallKept
<1>12. CASE ApplyRest(p)
  <2> DEFINE u == [t EXCEPT !.data[target[p]] = "whole"]
  <2>1. Return(p, u)
    BY <1>12 DEF ApplyRest, t
  <2>2. \A d \in Ids : t.data[d] = "partial" => d = target[p]
    BY <1>1 DEF PartInv, InApply, t
  <2>3. u.data = [t.data EXCEPT ![target[p]] = "whole"]
    BY <1>1 DEF Tables
  <2> HIDE DEF u
  <2>4. NoPart(u)
    BY <1>1, <2>2, <2>3 DEF NoPart, Tables
  <2>5. QED BY <1>3, <2>1, <2>4
<1>13. QED
  BY <1>4, <1>5, <1>6, <1>7, <1>8, <1>9, <1>10, <1>11, <1>12 DEF Call

LEMMA PartInit == Init => PartInv
BY TableAssumption DEF Init, PartInv, NoPart, Migrated

(* Every step keeps it: a commit comes after the last call, when no load   *)
(* is under way, and any other end drops what the session wrote.           *)
LEMMA PartNext == IInv /\ PartInv /\ [Next]_vars => PartInv'
<1> SUFFICES ASSUME IInv, PartInv, [Next]_vars PROVE PartInv'
  OBVIOUS
<1>1. ASSUME NEW p \in Procs, NEW r \in Requests, Submit(p, r)
      PROVE  PartInv'
  <2>1. /\ db' = db /\ view' = view /\ reading' = reading /\ pc'[p] = "waiting"
        /\ \A q \in Procs \ {p} :
             pc'[q] = pc[q] /\ todo'[q] = todo[q] /\ target'[q] = target[q]
    BY <1>1 DEF Submit, IInv, TypeOK
  <2>2. QED BY <2>1 DEF PartInv, InApply, NoPart
<1>2. ASSUME NEW p \in Procs, NEW how \in Answers, End(p, how), NoPart(db')
      PROVE  PartInv'
  <2>1. /\ reading' = reading /\ pc'[p] = "idle"
        /\ \A q \in Procs \ {p} :
             /\ pc'[q] = pc[q] /\ todo'[q] = todo[q] /\ target'[q] = target[q]
             /\ view'[q] = view[q]
    BY <1>2 DEF End, IInv, TypeOK
  <2>2. QED BY <1>2, <2>1 DEF PartInv, InApply
<1>3. ASSUME NEW p \in Procs, FailOnMissingIdentity(p) \/ Refuse(p) \/ Commit(p) \/ Crash(p)
      PROVE  PartInv'
  <2>1. NoPart(db')
    <3>1. CASE Commit(p)
      BY <3>1 DEF Commit, PartInv, InApply, NoPart
    <3>2. CASE db' = db
      BY <3>2 DEF PartInv, NoPart
    <3>3. QED BY <1>3, <3>1, <3>2 DEF FailOnMissingIdentity, Refuse, Crash
  <2>2. QED BY <1>2, <1>3, <2>1 DEF FailOnMissingIdentity, Refuse, Commit, Crash, Answers
<1>4. ASSUME NEW p \in Procs, Acquire(p)
      PROVE  PartInv'
  <2>1. /\ db' = db /\ reading' = reading /\ todo' = todo /\ target' = target
        /\ view'[p] = db
        /\ \A q \in Procs \ {p} : pc'[q] = pc[q] /\ view'[q] = view[q]
    BY <1>4 DEF Acquire, IInv, TypeOK
  <2>2. QED BY <2>1 DEF PartInv, InApply, NoPart
<1>5. ASSUME NEW r \in Readers, ReadPointer(r) \/ ReadRows(r)
      PROVE  PartInv'
  <2>1. /\ db' = db /\ view' = view /\ pc' = pc /\ todo' = todo /\ target' = target
        /\ \A s \in Readers \ {r} : reading'[s] = reading[s]
    BY <1>5 DEF ReadPointer, ReadRows, sessionVars, IInv, TypeOK
  <2>2. reading'[r].data # "partial"
    <3>1. CASE ReadPointer(r)
      BY <3>1 DEF ReadPointer, IInv, TypeOK
    <3>2. CASE ReadRows(r)
      <4>1. reading[r].id \in Ids /\ reading'[r].data = db.data[reading[r].id]
        BY <3>2 DEF ReadRows, IInv, TypeOK
      <4>2. QED BY <4>1 DEF PartInv, NoPart
    <3>3. QED BY <1>5, <3>1, <3>2
  <2>3. QED BY <2>1, <2>2 DEF PartInv, InApply, NoPart
<1>6. CASE UNCHANGED vars
  BY <1>6 DEF vars, sessionVars, PartInv, InApply, NoPart
<1>7. QED
  BY <1>1, <1>3, <1>4, <1>5, <1>6, CallLoads DEF Next, Call, AllAnswered

(* No query of an API session (api/queries.py:30) sees part of a bundle,   *)
(* whatever the sessions are asked to do, whatever loads die half way, and *)
(* although the pointer may move between its statements.                   *)
THEOREM ReadersSeeOneVersion == Spec => []ReadersSeeNoPart
<1>1. Init => PartInv
  BY PartInit
<1>2. IInv /\ PartInv /\ [Next]_vars => PartInv'
  BY PartNext
<1>3. PartInv => ReadersSeeNoPart
  BY DEF PartInv, ReadersSeeNoPart
<1>4. QED BY <1>1, <1>2, <1>3, InductiveInvariant, PTL DEF Spec
=============================================================================

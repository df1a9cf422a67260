---------------------------- MODULE DatasetTable ----------------------------
(***************************************************************************)
(* The tables dataset_versions and dataset_activations as one value, and   *)
(* the effect each function of replacement/service.py has on it.           *)
(*                                                                         *)
(* A table t has, for every primary key d, the columns status, stamp       *)
(* (updated_at), ident (the logical identity with its content hash) and    *)
(* data (how much of the bundle the scoped tables hold for d), and the     *)
(* singleton read pointer.  Who may apply an effect, and when it becomes   *)
(* visible, is the business of module DatasetReplacement.                  *)
(***************************************************************************)
EXTENDS Naturals

CONSTANTS
  Ids,            \* primary keys that dataset_versions may hand out
  Keys,           \* logical identities: (dataset_key, manifest, seed, as_of, revision)
  Contents,       \* content hashes
  LegacyId,       \* the row the dataset-versioning migration inserts
  LegacyIdentity, \* its identity
  NoIdentity      \* the identity of a row that does not exist

NoId == 0

Identities == [key : Keys, content : Contents]

ASSUME TableAssumption ==
  /\ Ids \subseteq Nat \ {NoId}
  /\ LegacyId \in Ids
  /\ LegacyIdentity \in Identities
  /\ NoIdentity \notin Identities

Statuses == {"ABSENT", "STAGED", "READY", "ACTIVE", "RETIRED"}

Amounts == {"none", "partial", "whole"}

Tables == [status  : [Ids -> Statuses],
           stamp   : [Ids -> Nat],
           ident   : [Ids -> Identities \cup {NoIdentity}],
           data    : [Ids -> Amounts],
           pointer : Ids \cup {NoId}]

(* What migration 20260917_01 leaves: every row that existed belongs to    *)
(* the legacy dataset, which is ACTIVE and pointed at.                     *)
Migrated ==
  [status  |-> [d \in Ids |-> IF d = LegacyId THEN "ACTIVE" ELSE "ABSENT"],
   stamp   |-> [d \in Ids |-> 0],
   ident   |-> [d \in Ids |-> IF d = LegacyId THEN LegacyIdentity ELSE NoIdentity],
   data    |-> [d \in Ids |-> IF d = LegacyId THEN "whole" ELSE "none"],
   pointer |-> LegacyId]

-----------------------------------------------------------------------------
(* Queries *)

RowExists(t, d) == d \in Ids /\ t.status[d] # "ABSENT"

\* mutant of Holders: the lookup is by identity_hash, which covers the content
HoldersByHash(t, i) == {d \in Ids : t.status[d] # "ABSENT" /\ t.ident[d] = i}

\* the rows the logical-identity SELECT of ensure_dataset_version returns
Holders(t, i) == {d \in Ids : t.status[d] # "ABSENT" /\ t.ident[d].key = i.key}

\* the rows rollback may go back to
Undoable(t) == {d \in Ids : t.status[d] = "RETIRED" /\ d # t.pointer}

\* mutant of Newer: rollback takes the highest id, not the last one retired
NewerById(t, d, e) == d > e

\* ORDER BY updated_at DESC, id DESC
Newer(t, d, e) == \/ t.stamp[d] > t.stamp[e]
                  \/ t.stamp[d] = t.stamp[e] /\ d > e

\* ... LIMIT 1: the row that ORDER BY puts first
MostRecent(t, d) == /\ d \in Undoable(t)
                    /\ \A e \in Undoable(t) \ {d} : Newer(t, d, e)

-----------------------------------------------------------------------------
(* When a service function goes through, and when it raises *)

MayEnsure(t, i) == \A d \in Holders(t, i) : t.ident[d] = i

MayValidate(t, d) == RowExists(t, d) /\ t.status[d] # "RETIRED"

MayStage(t, d) == RowExists(t, d) /\ t.status[d] # "RETIRED"

MayActivate(t, d) == RowExists(t, d) /\ t.status[d] \in {"READY", "ACTIVE"}

\* mutant of MayRollback: the named dataset need not be the active one
MayRollbackAny(t, d) == /\ t.pointer # NoId
                        /\ RowExists(t, t.pointer)
                        /\ d # NoId => RowExists(t, d)
                        /\ Undoable(t) # {}

\* d = NoId: no dataset was named
MayRollback(t, d) == /\ t.pointer # NoId
                     /\ RowExists(t, t.pointer)
                     /\ d # NoId => RowExists(t, d) /\ d = t.pointer
                     /\ Undoable(t) # {}

-----------------------------------------------------------------------------
(* Effects; now is the wall clock of the process that flushes *)

\* a flushed status change also writes updated_at (TimestampMixin, onupdate)
SetStatus(t, d, s, now) == [t EXCEPT !.status[d] = s, !.stamp[d] = now]

Inserted(t, d, i, now) ==
  [SetStatus(t, d, "STAGED", now) EXCEPT !.ident[d] = i, !.data[d] = "none"]

Validated(t, d, now) ==
  IF t.status[d] = "STAGED" THEN SetStatus(t, d, "READY", now) ELSE t

\* mutants of Retired: the previous version keeps its status; it gets a status
\* the check constraint of dataset_versions does not list
NotRetired(t, d, now) == t
Superseded(t, d, now) ==
  IF d # NoId /\ t.status[d] = "ACTIVE" THEN SetStatus(t, d, "SUPERSEDED", now) ELSE t

Retired(t, d, now) ==
  IF d # NoId /\ t.status[d] = "ACTIVE" THEN SetStatus(t, d, "RETIRED", now) ELSE t

Activated(t, d, now) ==
  IF t.pointer = d
  THEN IF t.status[d] = "READY" THEN SetStatus(t, d, "ACTIVE", now) ELSE t
  ELSE [SetStatus(Retired(t, t.pointer, now), d, "ACTIVE", now) EXCEPT !.pointer = d]

\* mutant of RolledBack: the version it leaves becomes RETIRED, hence the most
\* recent one, and two rollbacks in a row swap two versions
RolledBackToRetired(t, previous, now) ==
  [SetStatus(SetStatus(t, t.pointer, "RETIRED", now), previous, "ACTIVE", now)
     EXCEPT !.pointer = previous]

RolledBack(t, previous, now) ==
  [SetStatus(SetStatus(t, t.pointer, "READY", now), previous, "ACTIVE", now)
     EXCEPT !.pointer = previous]

\* backfill_m076 once its ensure_dataset_version has returned row d
Backfilled(t, d, now) ==
  LET r == IF t.status[d] = "STAGED" THEN SetStatus(t, d, "ACTIVE", now) ELSE t
  IN  IF t.pointer = NoId THEN [r EXCEPT !.pointer = d] ELSE r

-----------------------------------------------------------------------------
(* What must be true of the table and of its changes *)

(* Exactly one row is ACTIVE and the read pointer names it                 *)
(* (docs/architecture.md: "makes exactly one version ACTIVE").             *)
OneActive(t) == \A d \in Ids : t.status[d] = "ACTIVE" <=> d = t.pointer

(* A logical identity is held by at most one row, so two bundles that      *)
(* claim the same identity with different content never coexist.           *)
UniqueIdentity(t) ==
  \A d, e \in Ids : /\ t.status[d] # "ABSENT" /\ t.status[e] # "ABSENT"
                    /\ t.ident[d].key = t.ident[e].key
                    => d = e

(* Activation pushes the version it replaces on the undo stack: it becomes *)
(* the row the next rollback takes, and the order below it is untouched.   *)
Push(t, u) ==
  /\ Undoable(u) = Undoable(t) \cup {t.pointer}
  /\ MostRecent(u, t.pointer)
  /\ \A d \in Undoable(t) : u.stamp[d] = t.stamp[d]

(* Rollback pops that stack: the pointer goes to the most recent row, the  *)
(* row it leaves is READY and not on the stack, and the order is untouched.*)
Pop(t, u) ==
  /\ MostRecent(t, u.pointer)
  /\ Undoable(u) = Undoable(t) \ {u.pointer}
  /\ u.status[t.pointer] = "READY"
  /\ \A d \in Undoable(u) : u.stamp[d] = t.stamp[d]
=============================================================================

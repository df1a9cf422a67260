---------------------------- MODULE ExceptionRows ----------------------------
(***************************************************************************)
(* One row of the tables exceptions and exception_history: an exception    *)
(* record with its audit trail, what the functions of exceptions/service.py*)
(* and exceptions/lifecycle.py make of it, and the two unique indexes that *)
(* relate rows.  Which session may write a row, and when its write becomes *)
(* visible, is the business of module ExceptionEngine.                     *)
(***************************************************************************)
EXTENDS Naturals, Sequences

CONSTANTS
  Datasets,   \* dataset versions
  Issues,     \* (exception type, issue key) pairs
  Facts,      \* fingerprints of the source facts of an issue
  None        \* no dataset, no issue

ASSUME RowAssumption ==
  /\ None \notin Datasets \cup Issues
  /\ Facts \subseteq Nat \ {0}

ActiveStatuses == {"OPEN", "ACKNOWLEDGED", "IN_PROGRESS"}
TerminalStatuses == {"RESOLVED", "DISMISSED"}
Statuses == ActiveStatuses \cup TerminalStatuses

Legal ==
  [OPEN         |-> {"ACKNOWLEDGED", "DISMISSED"},
   ACKNOWLEDGED |-> {"IN_PROGRESS", "DISMISSED"},
   IN_PROGRESS  |-> {"RESOLVED", "DISMISSED"},
   RESOLVED     |-> {},
   DISMISSED    |-> {}]

\* a row of exception_history
Entry == [from : Statuses \cup {"NONE"}, to : Statuses]

\* a row of exceptions
Row == [status : Statuses \cup {"ABSENT"}, ds : Datasets \cup {None},
        issue : Issues \cup {None}, facts : Facts \cup {0}, log : Seq(Entry)]

Blank == [status |-> "ABSENT", ds |-> None, issue |-> None, facts |-> 0,
          log |-> <<>>]

Finding == [issue : Issues, facts : Facts]

Present(row) == row.status # "ABSENT"
Active(row) == row.status \in ActiveStatuses
Terminal(row) == row.status \in TerminalStatuses

-----------------------------------------------------------------------------
(* Which rows the two selects of _persist_one return *)

\* mutant of IsActiveCase: the dataset scope is forgotten
IsActiveCaseAnywhere(row, d, f) == Active(row) /\ row.issue = f.issue

IsActiveCase(row, d, f) == Active(row) /\ row.ds = d /\ row.issue = f.issue

\* mutant of HasKey: the key is made without the fingerprint
HasKeyOfIssue(row, d, f) == Present(row) /\ row.ds = d /\ row.issue = f.issue

\* the deduplication key is a digest of type, issue key and fingerprint
HasKey(row, d, f) ==
  Present(row) /\ row.ds = d /\ row.issue = f.issue /\ row.facts = f.facts

-----------------------------------------------------------------------------
(* What unique indexes keep apart *)

\* mutants of Collide: one of the two unique indexes is missing
CollideByKey(a, b) ==
  Present(a) /\ Present(b) /\ a.ds = b.ds /\ a.issue = b.issue /\ a.facts = b.facts
CollideByCase(a, b) ==
  Active(a) /\ Active(b) /\ a.ds = b.ds /\ a.issue = b.issue

\* uq_exceptions_deduplication_key and uq_exceptions_active_type_issue_key
Collide(a, b) ==
  /\ Present(a) /\ Present(b)
  /\ a.ds = b.ds /\ a.issue = b.issue
  /\ a.facts = b.facts \/ (Active(a) /\ Active(b))

-----------------------------------------------------------------------------
(* Effects *)

\* mutant of Created: the first history row leaves from the missing row's status
CreatedFromAbsent(d, f) ==
  [status |-> "OPEN", ds |-> d, issue |-> f.issue, facts |-> f.facts,
   log |-> <<[from |-> "ABSENT", to |-> "OPEN"]>>]

\* a new finding starts OPEN with one history row
Created(d, f) ==
  [status |-> "OPEN", ds |-> d, issue |-> f.issue, facts |-> f.facts,
   log |-> <<[from |-> "NONE", to |-> "OPEN"]>>]

\* a recurring active issue takes over the key of the latest facts
Adopted(row, f) == [row EXCEPT !.facts = f.facts]

\* mutant of Moved: the history row is forgotten
MovedSilently(row, from, to) == [row EXCEPT !.status = to]

\* a transition from the status the session believes the row to have
Moved(row, from, to) ==
  [row EXCEPT !.status = to, !.log = Append(@, [from |-> from, to |-> to])]

-----------------------------------------------------------------------------
(* What must be true of a row *)

(* The audit trail of a row starts with its detection, every entry leaves  *)
(* from where the previous one arrived, along a legal transition, and the  *)
(* last one arrived at the row's status.                                   *)
SoundTrail(row) ==
  /\ Present(row) =>
       /\ row.log # <<>>
       /\ row.log[1] = [from |-> "NONE", to |-> "OPEN"]
       /\ row.log[Len(row.log)].to = row.status
  /\ \A k \in 2..Len(row.log) :
       /\ row.log[k].from = row.log[k - 1].to
       /\ row.log[k].to \in Legal[row.log[k].from]
=============================================================================

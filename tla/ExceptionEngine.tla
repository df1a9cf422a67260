--------------------------- MODULE ExceptionEngine ---------------------------
(***************************************************************************)
(* Detection runs (exceptions/service.py), the bootstrap that seeds sample *)
(* lifecycles after one (bootstrap.py) and API status changes              *)
(* (exceptions/lifecycle.py, api/routes.py) as concurrent PostgreSQL       *)
(* transactions at READ COMMITTED.                                         *)
(*                                                                         *)
(* A SELECT ... FOR UPDATE picks a row by what is committed, waits for its *)
(* lock, and then decides again on the row it locked; the lock lasts until *)
(* the transaction ends.  committed[r] is the row other sessions see,      *)
(* rows[r] the latest version, which only the holder of the lock writes.   *)
(* An INSERT or UPDATE that collides with a row in a unique index fails,   *)
(* and takes the whole transaction with it, or waits if that row is the    *)
(* uncommitted work of another session.                                    *)
(***************************************************************************)
EXTENDS ExceptionRows, SequencesExt

CONSTANTS
  Sessions,    \* detection runs, bootstraps and API requests
  Records,     \* primary keys of exceptions
  IssueOrder,  \* the issues in the order of detect_all: by rule, then entity
  Samples,     \* the types bootstrap seeds: issues of the type, statuses to walk
  Kinds,       \* what sessions may be asked to do
  MaxJobs      \* bound: jobs started in a behaviour

Nobody == "nobody"

\* statuses to go through, one after the other
Path == Seq(Statuses) \ {<<>>}

ASSUME EngineAssumption ==
  /\ Nobody \notin Sessions
  /\ Records \subseteq Nat \ {0}
  /\ IssueOrder \in Seq(Issues)
  /\ \A i \in Issues : \E k \in DOMAIN IssueOrder : IssueOrder[k] = i
  /\ Samples \in Seq([issues : SUBSET Issues, path : Path])
  /\ \A k \in DOMAIN Samples : \A j \in DOMAIN Samples[k].path :
       Samples[k].path[j] \in Legal[IF j = 1 THEN "OPEN" ELSE Samples[k].path[j - 1]]
  /\ Kinds \subseteq {"detect", "bootstrap", "patch"}
  /\ MaxJobs \in Nat

VARIABLES
  rows,      \* latest version of every record
  committed, \* its committed version
  holder,    \* who holds its row lock
  active,    \* the dataset the read pointer names
  pc,        \* what each session does next
  job,       \* the job it does: kind, dataset, findings
  at,        \* index of the finding it works on
  found,     \* the record its last select picked, 0 for none
  todo,      \* transitions it still has to make
  jobs       \* jobs started so far (bound)

vars == <<rows, committed, holder, active, pc, job, at, found, todo, jobs>>

Steps == {"idle", "findCase", "lockCase", "findOwner", "adopt", "findKey", "lockKey",
          "insert", "seed", "transition", "commit"}

Idle == [kind |-> "none", ds |-> None, findings |-> <<>>]

Job == [kind : {"none", "detect", "bootstrap", "patch"}, ds : Datasets \cup {None},
        findings : Seq(Finding)]

\* one record to move along path; believed is the status the session loaded
\* before it locks the record, "NONE" if it loads the record with the lock
Task == [rec : Records, believed : Statuses \cup {"NONE"}, path : Path]

Init ==
  /\ rows = [r \in Records |-> Blank]
  /\ committed = [r \in Records |-> Blank]
  /\ holder = [r \in Records |-> Nobody]
  /\ active \in Datasets
  /\ pc = [s \in Sessions |-> "idle"]
  /\ job = [s \in Sessions |-> Idle]
  /\ at = [s \in Sessions |-> 0]
  /\ found = [s \in Sessions |-> 0]
  /\ todo = [s \in Sessions |-> <<>>]
  /\ jobs = 0

TypeOK ==
  /\ rows \in [Records -> Row]
  /\ committed \in [Records -> Row]
  /\ holder \in [Records -> Sessions \cup {Nobody}]
  /\ active \in Datasets
  /\ pc \in [Sessions -> Steps]
  /\ job \in [Sessions -> Job]
  /\ at \in [Sessions -> Nat]
  /\ found \in [Sessions -> Records \cup {0}]
  /\ todo \in [Sessions -> Seq(Task)]
  /\ jobs \in Nat

-----------------------------------------------------------------------------
(* PostgreSQL *)

\* the version of r that a statement of s sees
Seen(s, r) == IF holder[r] = s THEN rows[r] ELSE committed[r]

\* s gets the lock of r without waiting
Free(s, r) == holder[r] \in {s, Nobody}

\* records whose unique-index entries stand in the way of row r becoming row
InTheWay(row, r) ==
  {q \in Records \ {r} : Collide(rows[q], row) \/ Collide(committed[q], row)}

\* those s waits for: uncommitted work of other sessions
Pending(s, row, r) ==
  {q \in InTheWay(row, r) : ~Free(s, q) /\ rows[q] # committed[q]}

\* mutant of Freed: an aborted transaction keeps its row locks
FreedByCommit(s, keep) ==
  [r \in Records |-> IF holder[r] = s /\ keep THEN Nobody ELSE holder[r]]

Freed(s, keep) == [r \in Records |-> IF holder[r] = s THEN Nobody ELSE holder[r]]

\* the end of a transaction publishes or drops its rows and frees its locks
End(s, keep) ==
  /\ committed' = IF keep THEN [r \in Records |-> Seen(s, r)] ELSE committed
  /\ rows' = IF keep THEN rows
             ELSE [r \in Records |-> IF holder[r] = s THEN committed[r] ELSE rows[r]]
  /\ holder' = Freed(s, keep)
  /\ pc' = [pc EXCEPT ![s] = "idle"]
  /\ job' = [job EXCEPT ![s] = Idle]
  /\ at' = [at EXCEPT ![s] = 0]
  /\ found' = [found EXCEPT ![s] = 0]
  /\ todo' = [todo EXCEPT ![s] = <<>>]
  /\ UNCHANGED <<active, jobs>>

\* s locks r and makes row of it
Write(s, r, row) ==
  /\ rows' = [rows EXCEPT ![r] = row]
  /\ holder' = [holder EXCEPT ![r] = s]

Commit(s) ==
  /\ pc[s] = "commit"
  /\ End(s, TRUE)

\* the process or its connection dies
Crash(s) ==
  /\ pc[s] # "idle"
  /\ End(s, FALSE)

-----------------------------------------------------------------------------
(* Detection runs *)

Position(i) == CHOOSE k \in DOMAIN IssueOrder : IssueOrder[k] = i

\* mutant of Reports: a run reports its findings in any order
ShuffledReports ==
  {fs \in BoundedSeq(Finding, Len(IssueOrder)) :
     \A j, k \in DOMAIN fs : fs[j].issue = fs[k].issue => j = k}

\* what detect_all may return, depending on the rows of the dataset when its
\* rules read them and on as_of: findings in stable rule and entity order, of
\* entities whose source ids do not join to one issue key (rules.py:196)
Reports ==
  {fs \in BoundedSeq(Finding, Len(IssueOrder)) :
     \A j, k \in DOMAIN fs : j < k => Position(fs[j].issue) < Position(fs[k].issue)}

\* what is next once the findings from index n on are left
Continue(s, kind, n, fs) ==
  pc' = [pc EXCEPT ![s] = IF n <= Len(fs) THEN "findCase"
                          ELSE IF kind = "bootstrap" THEN "seed" ELSE "commit"]

\* the run resolves the active dataset, then all rules read it
StartRun(s, kind, fs) ==
  /\ pc[s] = "idle"
  /\ kind \in Kinds \ {"patch"}
  /\ jobs < MaxJobs
  /\ jobs' = jobs + 1
  /\ job' = [job EXCEPT ![s] = [kind |-> kind, ds |-> active, findings |-> fs]]
  /\ at' = [at EXCEPT ![s] = 1]
  /\ Continue(s, kind, 1, fs)
  /\ UNCHANGED <<rows, committed, holder, active, found, todo>>

Current(s) == job[s].findings[at[s]]

NextFinding(s) ==
  /\ at' = [at EXCEPT ![s] = @ + 1]
  /\ found' = [found EXCEPT ![s] = 0]
  /\ Continue(s, job[s].kind, at[s] + 1, job[s].findings)
  /\ UNCHANGED <<committed, active, job, todo, jobs>>

Select(s, hits, step, otherwise) ==
  /\ \/ \E r \in hits : found' = [found EXCEPT ![s] = r] /\ pc' = [pc EXCEPT ![s] = step]
     \/ hits = {} /\ found' = found /\ pc' = [pc EXCEPT ![s] = otherwise]
  /\ UNCHANGED <<rows, committed, holder, active, job, at, todo, jobs>>

\* s has waited for the lock of a record that no longer is what it selected
Gone(s, step) ==
  /\ Write(s, found[s], rows[found[s]])
  /\ pc' = [pc EXCEPT ![s] = step]
  /\ found' = [found EXCEPT ![s] = 0]
  /\ UNCHANGED <<committed, active, job, at, todo, jobs>>

FindCase(s) ==
  /\ pc[s] = "findCase"
  /\ Select(s, {r \in Records : IsActiveCase(Seen(s, r), job[s].ds, Current(s))},
            "lockCase", "findKey")

\* the active record of a recurring issue is refreshed, its lifecycle stays; here
\* the refreshed columns have the values they had, unless the facts changed
Refresh(s) ==
  /\ pc[s] = "lockCase"
  /\ Free(s, found[s])
  /\ IsActiveCase(rows[found[s]], job[s].ds, Current(s))
  /\ Write(s, found[s], rows[found[s]])
  /\ IF HasKey(rows[found[s]], job[s].ds, Current(s)) THEN NextFinding(s)
     ELSE /\ pc' = [pc EXCEPT ![s] = "findOwner"]
          /\ UNCHANGED <<committed, active, job, at, found, todo, jobs>>

Owners(s) == {r \in Records : HasKey(Seen(s, r), job[s].ds, Current(s))}

\* a record that has the new facts suppresses them
KeepKey(s) ==
  /\ pc[s] = "findOwner"
  /\ Owners(s) # {}
  /\ UNCHANGED <<rows, holder>>
  /\ NextFinding(s)

TakeKey(s) ==
  /\ pc[s] = "findOwner"
  /\ Owners(s) = {}
  /\ pc' = [pc EXCEPT ![s] = "adopt"]
  /\ UNCHANGED <<rows, committed, holder, active, job, at, found, todo, jobs>>

AdoptedRow(s) == Adopted(rows[found[s]], Current(s))

\* otherwise the record takes over their key
Adopt(s) ==
  /\ pc[s] = "adopt"
  /\ InTheWay(AdoptedRow(s), found[s]) = {}
  /\ Write(s, found[s], AdoptedRow(s))
  /\ NextFinding(s)

\* a unique index refuses a row: no savepoint, the run is lost
AdoptFails(s) ==
  /\ pc[s] = "adopt"
  /\ InTheWay(AdoptedRow(s), found[s]) # {}
  /\ Pending(s, AdoptedRow(s), found[s]) = {}
  /\ End(s, FALSE)

CaseGone(s) ==
  /\ pc[s] = "lockCase"
  /\ Free(s, found[s])
  /\ ~IsActiveCase(rows[found[s]], job[s].ds, Current(s))
  /\ Gone(s, "findKey")

FindKey(s) ==
  /\ pc[s] = "findKey"
  /\ Select(s, Owners(s), "lockKey", "insert")

\* facts that a resolved or dismissed record has are not raised again
Skip(s) ==
  /\ pc[s] = "lockKey"
  /\ Free(s, found[s])
  /\ HasKey(rows[found[s]], job[s].ds, Current(s))
  /\ Write(s, found[s], rows[found[s]])
  /\ NextFinding(s)

KeyGone(s) ==
  /\ pc[s] = "lockKey"
  /\ Free(s, found[s])
  /\ ~HasKey(rows[found[s]], job[s].ds, Current(s))
  /\ Gone(s, "insert")

Unused == {r \in Records : ~Present(rows[r]) /\ holder[r] = Nobody}

NewRow(s) == Created(job[s].ds, Current(s))

Insert(s) ==
  /\ pc[s] = "insert"
  /\ InTheWay(NewRow(s), 0) = {}
  /\ \E r \in Unused : /\ \A q \in Unused : r <= q
                       /\ Write(s, r, NewRow(s))
  /\ NextFinding(s)

InsertFails(s) ==
  /\ pc[s] = "insert"
  /\ InTheWay(NewRow(s), 0) # {}
  /\ Pending(s, NewRow(s), 0) = {}
  /\ End(s, FALSE)

-----------------------------------------------------------------------------
(* Lifecycle transitions *)

\* mutant of StartPatch: the record is loaded before it is locked
StartPatchUnlocked(s, r, to) ==
  /\ pc[s] = "idle"
  /\ "patch" \in Kinds
  /\ jobs < MaxJobs
  /\ Present(committed[r])
  /\ jobs' = jobs + 1
  /\ job' = [job EXCEPT ![s] = [kind |-> "patch", ds |-> active, findings |-> <<>>]]
  /\ todo' = [todo EXCEPT ![s] = <<[rec |-> r, believed |-> committed[r].status,
                                    path |-> <<to>>]>>]
  /\ pc' = [pc EXCEPT ![s] = "transition"]
  /\ UNCHANGED <<rows, committed, holder, active, at, found>>

\* PATCH /exceptions/{id}/status resolves the active dataset
StartPatch(s, r, to) ==
  /\ pc[s] = "idle"
  /\ "patch" \in Kinds
  /\ jobs < MaxJobs
  /\ jobs' = jobs + 1
  /\ job' = [job EXCEPT ![s] = [kind |-> "patch", ds |-> active, findings |-> <<>>]]
  /\ todo' = [todo EXCEPT ![s] = <<[rec |-> r, believed |-> "NONE", path |-> <<to>>]>>]
  /\ pc' = [pc EXCEPT ![s] = "transition"]
  /\ UNCHANGED <<rows, committed, holder, active, at, found>>

\* bootstrap reads, without locks, the first record of every sampled type by
\* issue and deduplication key, and keeps those it sees OPEN in memory
First(s, issues, r) ==
  LET Of(q) == /\ Present(Seen(s, q))
               /\ Seen(s, q).ds = job[s].ds
               /\ Seen(s, q).issue \in issues
      Before(q) == \/ Position(Seen(s, q).issue) < Position(Seen(s, r).issue)
                   \/ /\ Seen(s, q).issue = Seen(s, r).issue
                      /\ Seen(s, q).facts < Seen(s, r).facts
  IN  Of(r) /\ \A q \in Records \ {r} : Of(q) => ~Before(q)

Sampled(s, k, r) ==
  /\ First(s, Samples[k].issues, r)
  /\ Seen(s, r).status = "OPEN"

Picked(s) == {k \in DOMAIN Samples : \E r \in Records : Sampled(s, k, r)}

SampleTask(s, k) ==
  [rec |-> CHOOSE r \in Records : Sampled(s, k, r),
   believed |-> "OPEN", path |-> Samples[k].path]

Seed(s) ==
  /\ pc[s] = "seed"
  /\ \E order \in [1..Cardinality(Picked(s)) -> Picked(s)] :
       /\ \A j, k \in DOMAIN order : j < k => order[j] < order[k]
       /\ todo' = [todo EXCEPT ![s] = [n \in DOMAIN order |-> SampleTask(s, order[n])]]
  /\ pc' = [pc EXCEPT ![s] = IF Picked(s) = {} THEN "commit" ELSE "transition"]
  /\ UNCHANGED <<rows, committed, holder, active, job, at, found, jobs>>

Rec(s) == Head(todo[s]).rec
Goal(s) == Head(Head(todo[s]).path)

\* the status the session compares: a row it has loaded before is not refreshed
\* by the select that locks it
From(s) == IF Head(todo[s]).believed = "NONE" THEN rows[Rec(s)].status
           ELSE Head(todo[s]).believed

Visible(s) == Present(Seen(s, Rec(s))) /\ Seen(s, Rec(s)).ds = job[s].ds

MovedRow(s) == Moved(rows[Rec(s)], From(s), Goal(s))

Rest(s) ==
  LET task == Head(todo[s])
      path == Tail(task.path)
  IN  IF path = <<>> THEN Tail(todo[s])
      ELSE <<[task EXCEPT !.believed = Goal(s), !.path = path]>> \o Tail(todo[s])

Transition(s) ==
  /\ pc[s] = "transition"
  /\ Visible(s)
  /\ Free(s, Rec(s))
  /\ Goal(s) \in Legal[From(s)]
  /\ InTheWay(MovedRow(s), Rec(s)) = {}
  /\ Write(s, Rec(s), MovedRow(s))
  /\ todo' = [todo EXCEPT ![s] = Rest(s)]
  /\ pc' = [pc EXCEPT ![s] = IF Rest(s) = <<>> THEN "commit" ELSE "transition"]
  /\ UNCHANGED <<committed, active, job, at, found, jobs>>

\* 404, 409, or a refused update
TransitionFails(s) ==
  /\ pc[s] = "transition"
  /\ \/ ~Visible(s)
     \/ Visible(s) /\ Free(s, Rec(s)) /\ Goal(s) \notin Legal[From(s)]
     \/ /\ Visible(s) /\ Free(s, Rec(s)) /\ Goal(s) \in Legal[From(s)]
        /\ InTheWay(MovedRow(s), Rec(s)) # {}
        /\ Pending(s, MovedRow(s), Rec(s)) = {}
  /\ End(s, FALSE)

-----------------------------------------------------------------------------
(* Waiting *)

\* the sessions whose end s needs to go on
WaitsFor(s) ==
  {holder[r] : r \in
     CASE pc[s] \in {"lockCase", "lockKey"} -> {r \in {found[s]} : ~Free(s, r)}
       [] pc[s] = "adopt"  -> Pending(s, AdoptedRow(s), found[s])
       [] pc[s] = "insert" -> Pending(s, NewRow(s), 0)
       [] pc[s] = "transition" ->
            IF ~Visible(s) THEN {}
            ELSE IF ~Free(s, Rec(s)) THEN {Rec(s)}
            ELSE Pending(s, MovedRow(s), Rec(s))
       [] OTHER -> {}}

\* s waits, over others, for itself: no set of sessions without s has all it
\* waits for and all that its members wait for
Deadlocked(s) ==
  \A S \in SUBSET Sessions :
    (\A t \in S \cup {s} : WaitsFor(t) \subseteq S) => s \in S

\* PostgreSQL aborts a transaction that closes a cycle of waiting ones
DeadlockDetected(s) ==
  /\ Deadlocked(s)
  /\ End(s, FALSE)

\* dataset replacement moves the read pointer at any time
Repoint(d) ==
  /\ active # d
  /\ active' = d
  /\ UNCHANGED <<rows, committed, holder, pc, job, at, found, todo, jobs>>

Progress(s) ==
  \/ FindCase(s) \/ Refresh(s) \/ KeepKey(s) \/ TakeKey(s) \/ Adopt(s) \/ AdoptFails(s)
  \/ CaseGone(s) \/ FindKey(s) \/ Skip(s) \/ KeyGone(s)
  \/ Insert(s) \/ InsertFails(s) \/ Seed(s) \/ Transition(s) \/ TransitionFails(s)
  \/ DeadlockDetected(s) \/ Commit(s)

\* the bound on jobs is reached and nobody works: not a deadlock
AllDone ==
  /\ jobs = MaxJobs
  /\ \A s \in Sessions : pc[s] = "idle"
  /\ UNCHANGED vars

Next ==
  \/ \E s \in Sessions :
       \/ \E kind \in Kinds, fs \in Reports : StartRun(s, kind, fs)
       \/ \E r \in Records, to \in Statuses : StartPatch(s, r, to)
       \/ FindCase(s) \/ Refresh(s) \/ KeepKey(s) \/ TakeKey(s) \/ Adopt(s) \/ AdoptFails(s)
       \/ CaseGone(s) \/ FindKey(s) \/ Skip(s) \/ KeyGone(s)
       \/ Insert(s) \/ InsertFails(s) \/ Seed(s) \/ Transition(s) \/ TransitionFails(s)
       \/ DeadlockDetected(s) \/ Commit(s) \/ Crash(s)
  \/ \E d \in Datasets : Repoint(d)
  \/ AllDone

Spec == Init /\ [][Next]_vars

(* Every session keeps executing its statements; PostgreSQL looks for      *)
(* deadlocks after deadlock_timeout.                                       *)
FairSpec == Spec /\ \A s \in Sessions : WF_vars(Progress(s))

-----------------------------------------------------------------------------
(* Properties *)

(* Two committed active records never stand for the same issue of a        *)
(* dataset, whatever runs raised it at the same time (service.py:86).      *)
OneActiveCase ==
  \A r, q \in Records : /\ Active(committed[r]) /\ Active(committed[q])
                        /\ committed[r].ds = committed[q].ds
                        /\ committed[r].issue = committed[q].issue
                        => r = q

(* Facts an operator resolved or dismissed are not raised again: no other  *)
(* record of the dataset ever gets their key (service.py:110).             *)
SettledFactsStayQuiet ==
  \A r, q \in Records :
    Present(committed[r]) /\ HasKey(committed[q], committed[r].ds, committed[r]) => r = q

(* The committed audit trail explains the committed status, entry by       *)
(* entry, along legal transitions (docs/architecture.md:116-127).          *)
AuditTrailIsSound == \A r \in Records : SoundTrail(committed[r])

(* Terminal states cannot transition (docs/architecture.md:126): no commit *)
(* changes a record that was resolved or dismissed.                        *)
TerminalIsFinal ==
  [][\A r \in Records : Terminal(committed[r]) => committed'[r] = committed[r]]_vars

(* A run leaves each of its findings with a record of its dataset that has *)
(* just these facts, also when operators and other runs change records     *)
(* meanwhile and the bootstrap has moved some itself (service.py:75-115).  *)
FindingsAreCovered ==
  [][\A s \in Sessions : Commit(s) =>
       \A k \in DOMAIN job[s].findings : \E r \in Records :
         /\ committed'[r].ds = job[s].ds
         /\ committed'[r].issue = job[s].findings[k].issue
         /\ committed'[r].facts = job[s].findings[k].facts]_vars

(* A repeated run refreshes active findings without changing lifecycle     *)
(* state or adding history noise (README.md:158).                          *)
RefreshIsQuiet ==
  [][\A s \in Sessions : Commit(s) /\ job[s].kind = "detect" =>
       \A r \in Records : Present(committed[r]) =>
         committed'[r].status = committed[r].status /\ committed'[r].log = committed[r].log]_vars

(* Runs lock records in one order of issues, and status changes one record *)
(* only, so they wait for each other in a cycle in one case: a run has lost*)
(* the case it selected to an operator who settled it, still has the lock  *)
(* of that record, and waits for the record of its facts, which another    *)
(* run has lost likewise (service.py:83-121).                              *)
OnlyLosersDeadlock ==
  \A s \in Sessions : Deadlocked(s) =>
    /\ pc[s] = "lockKey"
    /\ \E r \in Records : /\ holder[r] = s /\ Terminal(rows[r])
                          /\ rows[r].ds = job[s].ds /\ rows[r].issue = Current(s).issue

(* Every run and every request ends.                                       *)
EveryJobEnds == \A s \in Sessions : pc[s] # "idle" ~> pc[s] = "idle"
=============================================================================

------------------------ MODULE ExceptionEngineProofs ------------------------
(***************************************************************************)
(* Safety of ExceptionEngine for any sessions, records, datasets, issues   *)
(* and facts.  What the unique indexes keep apart stays apart because the  *)
(* inductive invariant covers the uncommitted versions of the records too. *)
(* The audit trail and the terminal states rest on more: that no session   *)
(* moves a record by a status it read before it had the lock.  Bootstrap   *)
(* does, so those theorems are about detection runs and status changes.    *)
(***************************************************************************)
EXTENDS ExceptionEngine, FiniteSetTheorems, SequenceTheorems, TLAPS

Working == {"findCase", "lockCase", "findOwner", "adopt", "findKey", "lockKey", "insert"}

\* what the statement a session is about to execute relies on
Ready(s) ==
  /\ pc[s] \in Working => at[s] \in DOMAIN job[s].findings
  /\ pc[s] \in {"lockCase", "findOwner", "adopt", "lockKey"} => found[s] \in Records
  /\ pc[s] = "transition" => todo[s] # <<>>

\* a record whose lock is free has no uncommitted version
Clean == \A r \in Records : holder[r] = Nobody => rows[r] = committed[r]

\* no version of a record collides with a version of another record
Apart(a, b) == ~Collide(a, b)

NoClash ==
  \A r, q \in Records : r # q =>
    /\ Apart(rows[r], rows[q])
    /\ Apart(rows[r], committed[q])
    /\ Apart(committed[r], committed[q])

BaseInv == TypeOK /\ (\A s \in Sessions : Ready(s)) /\ Clean

IInv == BaseInv /\ NoClash

-----------------------------------------------------------------------------
(* Rows. *)
LEMMA ApartSymmetric == ASSUME NEW a, NEW b, Apart(a, b) PROVE Apart(b, a)
  BY DEF Apart, Collide

LEMMA BlankRow == Blank \in Row
  BY RowAssumption DEF Blank, Row

LEMMA CreatedRow ==
  ASSUME NEW d \in Datasets \cup {None}, NEW f \in Finding
  PROVE  Created(d, f) \in Row
<1>1. [from |-> "NONE", to |-> "OPEN"] \in Entry
  BY DEF Entry, Statuses, ActiveStatuses
<1>2. <<[from |-> "NONE", to |-> "OPEN"]>> \in Seq(Entry)
  BY <1>1
<1>3. QED
  BY <1>2 DEF Created, Row, Finding, Statuses, ActiveStatuses

LEMMA AdoptedInRow ==
  ASSUME NEW row \in Row, NEW f \in Finding
  PROVE  Adopted(row, f) \in Row
  BY DEF Adopted, Row, Finding

LEMMA MovedInRow ==
  ASSUME NEW row \in Row, NEW from \in Statuses \cup {"NONE"}, NEW to \in Statuses
  PROVE  Moved(row, from, to) \in Row
<1>1. [from |-> from, to |-> to] \in Entry
  BY DEF Entry
<1>2. Append(row.log, [from |-> from, to |-> to]) \in Seq(Entry)
  BY <1>1 DEF Row
<1>3. QED
  BY <1>2 DEF Moved, Row

-----------------------------------------------------------------------------
(* Versions.  A step either publishes or drops versions there are, or      *)
(* writes one that the unique indexes let pass.                            *)
LEMMA NoNewVersion ==
  ASSUME NoClash,
         \A r \in Records : /\ rows'[r] \in {rows[r], committed[r]}
                            /\ committed'[r] \in {rows[r], committed[r]}
  PROVE  NoClash'
  BY ApartSymmetric DEF NoClash

LEMMA OneNewVersion ==
  ASSUME NoClash, NEW r \in Records, NEW row,
         rows'[r] = row,
         \A q \in Records \ {r} : rows'[q] = rows[q],
         committed' = committed,
         \A q \in Records \ {r} : Apart(rows[q], row) /\ Apart(committed[q], row)
  PROVE  NoClash'
  BY ApartSymmetric DEF NoClash

LEMMA NothingInTheWay ==
  ASSUME NEW row, NEW r, InTheWay(row, r) = {}
  PROVE  \A q \in Records \ {r} : Apart(rows[q], row) /\ Apart(committed[q], row)
  BY DEF InTheWay, Apart

LEMMA Written ==
  ASSUME TypeOK, NEW s \in Sessions, NEW r \in Records, NEW row \in Row, Write(s, r, row)
  PROVE  /\ rows' \in [Records -> Row]
         /\ holder' \in [Records -> Sessions \cup {Nobody}]
         /\ rows'[r] = row /\ holder'[r] = s
         /\ \A q \in Records \ {r} : rows'[q] = rows[q] /\ holder'[q] = holder[q]
  BY DEF TypeOK, Write

-----------------------------------------------------------------------------
(* The end of a transaction. *)
LEMMA EndInv ==
  ASSUME IInv, NEW s \in Sessions, NEW keep \in BOOLEAN, End(s, keep)
  PROVE  IInv'
<1> USE DEF IInv, BaseInv
<1>1. \A r \in Records : rows'[r] \in {rows[r], committed[r]}
  BY DEF TypeOK, End
<1>2. \A r \in Records : committed'[r] \in {rows[r], committed[r]}
  BY DEF TypeOK, End, Seen
<1>3. rows' = [r \in Records |-> rows'[r]] /\ committed' = [r \in Records |-> committed'[r]]
  BY DEF TypeOK, End
<1>4. TypeOK'
  <2>1. rows' \in [Records -> Row] /\ committed' \in [Records -> Row]
    BY <1>1, <1>2, <1>3 DEF TypeOK
  <2>2. holder' \in [Records -> Sessions \cup {Nobody}]
    BY DEF TypeOK, End, Freed
  <2>3. Idle \in Job
    BY DEF Idle, Job
  <2>4. /\ pc' \in [Sessions -> Steps] /\ job' \in [Sessions -> Job]
        /\ at' \in [Sessions -> Nat] /\ found' \in [Sessions -> Records \cup {0}]
        /\ todo' \in [Sessions -> Seq(Task)]
    BY <2>3 DEF TypeOK, End, Steps
  <2>5. active' \in Datasets /\ jobs' \in Nat
    BY DEF TypeOK, End
  <2>6. QED BY <2>1, <2>2, <2>4, <2>5 DEF TypeOK
<1>5. \A t \in Sessions : Ready(t)'
  BY DEF TypeOK, End, Ready, Working
<1>6. Clean'
  <2> SUFFICES ASSUME NEW r \in Records, holder'[r] = Nobody
               PROVE  rows'[r] = committed'[r]
    BY DEF Clean
  <2>1. holder[r] = s \/ holder[r] = Nobody
    BY DEF End, Freed
  <2>2. QED BY <2>1, EngineAssumption DEF Clean, TypeOK, End, Seen
<1>7. NoClash'
  BY <1>1, <1>2, NoNewVersion
<1>8. QED BY <1>4, <1>5, <1>6, <1>7

-----------------------------------------------------------------------------
(* Detection runs. *)
LEMMA CurrentFinding ==
  ASSUME TypeOK, NEW s \in Sessions, Ready(s), pc[s] \in Working
  PROVE  /\ Current(s) \in Finding
         /\ job[s].ds \in Datasets \cup {None}
  BY DEF TypeOK, Ready, Current, Job

(* A statement that leaves the findings and tasks alone and takes the      *)
(* session to its next one.                                                *)
LEMMA NextStatement ==
  ASSUME TypeOK, NEW s \in Sessions, \A t \in Sessions : Ready(t), pc[s] \in Working,
         NEW step \in Working, NEW r \in Records \cup {0},
         step \in {"lockCase", "findOwner", "adopt", "lockKey"} => r \in Records,
         pc' = [pc EXCEPT ![s] = step], found' = [found EXCEPT ![s] = r],
         UNCHANGED <<job, at, todo, active, jobs>>
  PROVE  /\ pc' \in [Sessions -> Steps] /\ job' \in [Sessions -> Job]
         /\ at' \in [Sessions -> Nat] /\ found' \in [Sessions -> Records \cup {0}]
         /\ todo' \in [Sessions -> Seq(Task)] /\ active' \in Datasets /\ jobs' \in Nat
         /\ \A t \in Sessions : Ready(t)'
<1>1. Working \subseteq Steps
  BY DEF Working, Steps
<1>2. \A t \in Sessions : Ready(t)'
  BY DEF TypeOK, Ready, Working
<1>3. QED BY <1>1, <1>2 DEF TypeOK

LEMMA NextFindingStep ==
  ASSUME TypeOK, NEW s \in Sessions, \A t \in Sessions : Ready(t), pc[s] \in Working,
         NextFinding(s)
  PROVE  /\ pc' \in [Sessions -> Steps] /\ job' \in [Sessions -> Job]
         /\ at' \in [Sessions -> Nat] /\ found' \in [Sessions -> Records \cup {0}]
         /\ todo' \in [Sessions -> Seq(Task)] /\ active' \in Datasets /\ jobs' \in Nat
         /\ \A t \in Sessions : Ready(t)'
         /\ committed' = committed
<1>1. job[s].findings \in Seq(Finding) /\ at[s] \in Nat
  BY DEF TypeOK, Job
<1> DEFINE step == pc'[s]
<1>2. /\ pc' = [pc EXCEPT ![s] = step] /\ step \in {"findCase", "seed", "commit"}
      /\ step = "findCase" => at[s] + 1 \in DOMAIN job[s].findings
  BY <1>1 DEF TypeOK, NextFinding, Continue
<1> HIDE DEF step
<1>3. \A t \in Sessions : Ready(t)'
  BY <1>1, <1>2 DEF TypeOK, NextFinding, Ready, Working
<1>4. /\ pc' \in [Sessions -> Steps] /\ at' \in [Sessions -> Nat]
      /\ found' \in [Sessions -> Records \cup {0}]
  BY <1>1, <1>2 DEF TypeOK, NextFinding, Steps
<1>5. QED BY <1>3, <1>4 DEF TypeOK, NextFinding

LEMMA StartRunInv ==
  ASSUME IInv, NEW s \in Sessions, NEW kind \in Kinds, NEW fs \in Reports,
         StartRun(s, kind, fs)
  PROVE  IInv'
<1> USE DEF IInv, BaseInv
<1>1. fs \in Seq(Finding)
  BY DEF Reports, BoundedSeq, SeqOf
<1>2. kind \in {"detect", "bootstrap"}
  BY EngineAssumption DEF StartRun
<1> DEFINE run == [kind |-> kind, ds |-> active, findings |-> fs]
<1>3. run \in Job
  BY <1>1, <1>2 DEF Job, TypeOK
<1> DEFINE step == pc'[s]
<1>4. /\ pc' = [pc EXCEPT ![s] = step] /\ step \in {"findCase", "seed", "commit"}
      /\ step = "findCase" => 1 \in DOMAIN fs
  BY <1>1 DEF TypeOK, StartRun, Continue
<1>5. job' = [job EXCEPT ![s] = run]
  BY DEF StartRun
<1>6. run.findings = fs
  OBVIOUS
<1> HIDE DEF run, step
<1>7. TypeOK'
  BY <1>3, <1>4, <1>5 DEF TypeOK, StartRun, Steps
<1>8. \A t \in Sessions : Ready(t)'
  BY <1>4, <1>5, <1>6 DEF TypeOK, StartRun, Ready, Working
<1>9. Clean' /\ NoClash'
  BY DEF StartRun, Clean, NoClash
<1>10. QED BY <1>7, <1>8, <1>9

(* A session locks a record and leaves it as it is. *)
LEMMA LockedInv ==
  ASSUME IInv, NEW s \in Sessions, NEW r \in Records, Free(s, r),
         Write(s, r, rows[r]), committed' = committed
  PROVE  /\ rows' \in [Records -> Row] /\ committed' \in [Records -> Row]
         /\ holder' \in [Records -> Sessions \cup {Nobody}]
         /\ rows' = rows
         /\ Clean' /\ NoClash'
<1> USE DEF IInv, BaseInv
<1>1. rows' = rows
  BY DEF TypeOK, Write
<1>2. holder' \in [Records -> Sessions \cup {Nobody}]
  BY DEF TypeOK, Write
<1>3. \A q \in Records : holder'[q] = Nobody => holder[q] = Nobody
  BY EngineAssumption DEF TypeOK, Write
<1>4. Clean' /\ NoClash'
  BY <1>1, <1>3 DEF Clean, NoClash
<1>5. QED BY <1>1, <1>2, <1>4 DEF TypeOK

(* A session writes a version that the unique indexes let pass. *)
LEMMA VersionInv ==
  ASSUME IInv, NEW s \in Sessions, NEW r \in Records, NEW row \in Row,
         \A q \in Records \ {r} : Apart(rows[q], row) /\ Apart(committed[q], row),
         Write(s, r, row), committed' = committed
  PROVE  /\ rows' \in [Records -> Row] /\ committed' \in [Records -> Row]
         /\ holder' \in [Records -> Sessions \cup {Nobody}]
         /\ Clean' /\ NoClash'
<1> USE DEF IInv, BaseInv
<1>1. /\ rows' \in [Records -> Row]
      /\ holder' \in [Records -> Sessions \cup {Nobody}]
      /\ rows'[r] = row /\ holder'[r] = s
      /\ \A q \in Records \ {r} : rows'[q] = rows[q] /\ holder'[q] = holder[q]
  BY Written
<1>2. NoClash'
  BY <1>1, OneNewVersion
<1>3. Clean'
  BY <1>1, EngineAssumption DEF Clean
<1>4. QED BY <1>1, <1>2, <1>3 DEF TypeOK

(* The steps of a detection run between its start and its end. *)
LEMMA SelectInv ==
  ASSUME IInv, NEW s \in Sessions, FindCase(s) \/ FindKey(s)
  PROVE  IInv'
<1> USE DEF IInv, BaseInv
<1>1. /\ pc[s] \in Working
      /\ UNCHANGED <<rows, committed, holder, active, job, at, todo, jobs>>
  BY DEF FindCase, FindKey, Select, Working
<1>2. \E step \in Working, r \in Records \cup {0} :
        /\ step \in {"lockCase", "findOwner", "adopt", "lockKey"} => r \in Records
        /\ pc' = [pc EXCEPT ![s] = step] /\ found' = [found EXCEPT ![s] = r]
  <2>1. found = [found EXCEPT ![s] = found[s]] /\ found[s] \in Records \cup {0}
    BY DEF TypeOK
  <2>2. CASE FindCase(s)
    <3>1. CASE \E r \in Records : /\ found' = [found EXCEPT ![s] = r]
                                  /\ pc' = [pc EXCEPT ![s] = "lockCase"]
      BY <3>1 DEF Working
    <3>2. CASE found' = found /\ pc' = [pc EXCEPT ![s] = "findKey"]
      BY <2>1, <3>2, "findKey" \in Working DEF Working
    <3>3. QED BY <2>2, <3>1, <3>2 DEF FindCase, Select
  <2>3. CASE FindKey(s)
    <3>1. CASE \E r \in Records : /\ found' = [found EXCEPT ![s] = r]
                                  /\ pc' = [pc EXCEPT ![s] = "lockKey"]
      BY <3>1 DEF Working
    <3>2. CASE found' = found /\ pc' = [pc EXCEPT ![s] = "insert"]
      BY <2>1, <3>2, "insert" \in Working DEF Working
    <3>3. QED BY <2>3, <3>1, <3>2 DEF FindKey, Select, Owners
  <2>4. QED BY <2>2, <2>3
<1>3. /\ pc' \in [Sessions -> Steps] /\ job' \in [Sessions -> Job]
      /\ at' \in [Sessions -> Nat] /\ found' \in [Sessions -> Records \cup {0}]
      /\ todo' \in [Sessions -> Seq(Task)] /\ active' \in Datasets /\ jobs' \in Nat
      /\ \A t \in Sessions : Ready(t)'
  BY <1>1, <1>2, NextStatement
<1>4. QED BY <1>1, <1>3 DEF TypeOK, Clean, NoClash

LEMMA LockInv ==
  ASSUME IInv, NEW s \in Sessions,
         Refresh(s) \/ CaseGone(s) \/ Skip(s) \/ KeyGone(s)
  PROVE  IInv'
<1> USE DEF IInv, BaseInv
<1>1. /\ pc[s] \in {"lockCase", "lockKey"} /\ Free(s, found[s])
      /\ Write(s, found[s], rows[found[s]]) /\ committed' = committed
  BY DEF Refresh, CaseGone, Skip, KeyGone, Gone, NextFinding
<1>2. found[s] \in Records /\ pc[s] \in Working
  BY <1>1 DEF Ready, Working
<1>3. /\ rows' \in [Records -> Row] /\ committed' \in [Records -> Row]
      /\ holder' \in [Records -> Sessions \cup {Nobody}]
      /\ Clean' /\ NoClash'
  BY <1>1, <1>2, LockedInv
<1>4. /\ pc' \in [Sessions -> Steps] /\ job' \in [Sessions -> Job]
      /\ at' \in [Sessions -> Nat] /\ found' \in [Sessions -> Records \cup {0}]
      /\ todo' \in [Sessions -> Seq(Task)] /\ active' \in Datasets /\ jobs' \in Nat
      /\ \A t \in Sessions : Ready(t)'
  <2>1. CASE NextFinding(s)
    BY <1>2, <2>1, NextFindingStep
  <2>2. CASE /\ pc' = [pc EXCEPT ![s] = "findOwner"]
             /\ UNCHANGED <<active, job, at, found, todo, jobs>>
    <3>1. found' = [found EXCEPT ![s] = found[s]]
      BY <2>2 DEF TypeOK
    <3>2. QED BY <1>2, <2>2, <3>1, NextStatement, "findOwner" \in Working DEF Working
  <2>3. CASE \E step \in {"findKey", "insert"} : Gone(s, step)
    <3>1. PICK step \in {"findKey", "insert"} : Gone(s, step)
      BY <2>3
    <3>2. step \in Working /\ step \notin {"lockCase", "findOwner", "adopt", "lockKey"}
      BY DEF Working
    <3>3. QED BY <1>2, <3>1, <3>2, NextStatement DEF Gone
  <2>4. QED BY <2>1, <2>2, <2>3 DEF Refresh, CaseGone, Skip, KeyGone
<1>5. QED BY <1>3, <1>4 DEF TypeOK

LEMMA OwnerInv ==
  ASSUME IInv, NEW s \in Sessions, KeepKey(s) \/ TakeKey(s)
  PROVE  IInv'
<1> USE DEF IInv, BaseInv
<1>1. pc[s] = "findOwner" /\ pc[s] \in Working /\ found[s] \in Records
  BY DEF KeepKey, TakeKey, Working, Ready
<1>2. rows' = rows /\ holder' = holder /\ committed' = committed
  BY DEF KeepKey, TakeKey, NextFinding
<1>3. /\ pc' \in [Sessions -> Steps] /\ job' \in [Sessions -> Job]
      /\ at' \in [Sessions -> Nat] /\ found' \in [Sessions -> Records \cup {0}]
      /\ todo' \in [Sessions -> Seq(Task)] /\ active' \in Datasets /\ jobs' \in Nat
      /\ \A t \in Sessions : Ready(t)'
  <2>1. CASE KeepKey(s)
    BY <1>1, <2>1, NextFindingStep DEF KeepKey
  <2>2. CASE TakeKey(s)
    <3>1. found' = [found EXCEPT ![s] = found[s]]
      BY <2>2 DEF TypeOK, TakeKey
    <3>2. "adopt" \in Working
      BY DEF Working
    <3>3. QED BY <1>1, <2>2, <3>1, <3>2, NextStatement DEF TakeKey
  <2>3. QED BY <2>1, <2>2
<1>4. TypeOK'
  BY <1>2, <1>3 DEF TypeOK
<1>5. QED BY <1>2, <1>3, <1>4 DEF Clean, NoClash

LEMMA AdoptInv ==
  ASSUME IInv, NEW s \in Sessions, Adopt(s)
  PROVE  IInv'
<1> USE DEF IInv, BaseInv
<1>1. pc[s] \in Working /\ found[s] \in Records
  BY DEF Adopt, Working, Ready
<1>2. AdoptedRow(s) \in Row
  BY <1>1, CurrentFinding, AdoptedInRow DEF AdoptedRow, TypeOK
<1>3. \A q \in Records \ {found[s]} : Apart(rows[q], AdoptedRow(s)) /\ Apart(committed[q], AdoptedRow(s))
  BY NothingInTheWay DEF Adopt
<1>4. /\ pc' \in [Sessions -> Steps] /\ job' \in [Sessions -> Job]
      /\ at' \in [Sessions -> Nat] /\ found' \in [Sessions -> Records \cup {0}]
      /\ todo' \in [Sessions -> Seq(Task)] /\ active' \in Datasets /\ jobs' \in Nat
      /\ \A t \in Sessions : Ready(t)'
      /\ committed' = committed
  BY <1>1, NextFindingStep DEF Adopt
<1>5. /\ rows' \in [Records -> Row] /\ committed' \in [Records -> Row]
      /\ holder' \in [Records -> Sessions \cup {Nobody}]
      /\ Clean' /\ NoClash'
  BY <1>1, <1>2, <1>3, <1>4, VersionInv DEF Adopt
<1>6. QED BY <1>4, <1>5 DEF TypeOK

LEMMA InsertInv ==
  ASSUME IInv, NEW s \in Sessions, Insert(s)
  PROVE  IInv'
<1> USE DEF IInv, BaseInv
<1>1. pc[s] \in Working
  BY DEF Insert, Working
<1>2. NewRow(s) \in Row
  BY <1>1, CurrentFinding, CreatedRow DEF NewRow
<1>3. PICK r \in Unused : Write(s, r, NewRow(s))
  BY DEF Insert
<1>4. r \in Records
  BY DEF Unused
<1>5. \A q \in Records : Apart(rows[q], NewRow(s)) /\ Apart(committed[q], NewRow(s))
  <2>1. \A q \in Records \ {0} : Apart(rows[q], NewRow(s)) /\ Apart(committed[q], NewRow(s))
    BY NothingInTheWay DEF Insert
  <2>2. QED BY <2>1, EngineAssumption
<1>6. /\ pc' \in [Sessions -> Steps] /\ job' \in [Sessions -> Job]
      /\ at' \in [Sessions -> Nat] /\ found' \in [Sessions -> Records \cup {0}]
      /\ todo' \in [Sessions -> Seq(Task)] /\ active' \in Datasets /\ jobs' \in Nat
      /\ \A t \in Sessions : Ready(t)'
      /\ committed' = committed
  BY <1>1, NextFindingStep DEF Insert
<1>7. /\ rows' \in [Records -> Row] /\ committed' \in [Records -> Row]
      /\ holder' \in [Records -> Sessions \cup {Nobody}]
      /\ Clean' /\ NoClash'
  BY <1>2, <1>3, <1>4, <1>5, <1>6, VersionInv
<1>8. QED BY <1>6, <1>7 DEF TypeOK

-----------------------------------------------------------------------------
(* Lifecycle transitions. *)
LEMMA StartPatchInv ==
  ASSUME IInv, NEW s \in Sessions, NEW r \in Records, NEW to \in Statuses,
         StartPatch(s, r, to)
  PROVE  IInv'
<1> USE DEF IInv, BaseInv
<1> DEFINE request == [kind |-> "patch", ds |-> active, findings |-> <<>>]
           tasks == <<[rec |-> r, believed |-> "NONE", path |-> <<to>>]>>
<1>1. request \in Job
  BY DEF Job, TypeOK
<1>2. tasks \in Seq(Task) /\ tasks # <<>>
  BY DEF Task, Path
<1>3. /\ job' = [job EXCEPT ![s] = request] /\ todo' = [todo EXCEPT ![s] = tasks]
      /\ jobs' = jobs + 1
      /\ pc' = [pc EXCEPT ![s] = "transition"]
      /\ UNCHANGED <<rows, committed, holder, active, at, found>>
  BY DEF StartPatch
<1> HIDE DEF request, tasks
<1>4. TypeOK'
  BY <1>1, <1>2, <1>3 DEF TypeOK, Steps
<1>5. \A t \in Sessions : Ready(t)'
  BY <1>2, <1>3 DEF TypeOK, Ready, Working
<1>6. QED BY <1>3, <1>4, <1>5 DEF Clean, NoClash

LEMMA SeedInv ==
  ASSUME IInv, NEW s \in Sessions, Seed(s)
  PROVE  IInv'
<1> USE DEF IInv, BaseInv
<1>1. Picked(s) \subseteq 1..Len(Samples) /\ Len(Samples) \in Nat
  BY EngineAssumption DEF Picked
<1>2. IsFiniteSet(Picked(s))
  <2>1. IsFiniteSet(1..Len(Samples))
    BY <1>1, FS_Interval
  <2>2. QED BY <1>1, <2>1, FS_Subset
<1>3. Cardinality(Picked(s)) \in Nat
  BY <1>2, FS_CardinalityType
<1>4. Cardinality(Picked(s)) = 0 => Picked(s) = {}
  BY <1>2, FS_EmptySet
<1>5. PICK order \in [1..Cardinality(Picked(s)) -> Picked(s)] :
        todo' = [todo EXCEPT ![s] = [n \in DOMAIN order |-> SampleTask(s, order[n])]]
  BY DEF Seed
<1> DEFINE tasks == [n \in DOMAIN order |-> SampleTask(s, order[n])]
<1>6. \A k \in Picked(s) : SampleTask(s, k) \in Task
  <2> SUFFICES ASSUME NEW k \in Picked(s) PROVE SampleTask(s, k) \in Task
    OBVIOUS
  <2>1. PICK r \in Records : Sampled(s, k, r)
    BY DEF Picked
  <2>2. (CHOOSE q \in Records : Sampled(s, k, q)) \in Records
    BY <2>1
  <2>3. Samples[k].path \in Path
    <3>1. Samples \in Seq([issues : SUBSET Issues, path : Path]) /\ k \in 1..Len(Samples)
      BY <1>1, EngineAssumption
    <3>2. Samples[k] \in [issues : SUBSET Issues, path : Path]
      BY <3>1, ElementOfSeq
    <3>3. QED BY <3>2
  <2>4. "OPEN" \in Statuses
    BY DEF Statuses, ActiveStatuses
  <2>5. QED BY <2>2, <2>3, <2>4 DEF SampleTask, Task
<1>7. tasks \in Seq(Task) /\ (Picked(s) # {} => tasks # <<>>)
  <2>1. tasks \in [1..Cardinality(Picked(s)) -> Task]
    BY <1>6
  <2>2. tasks \in Seq(Task) /\ Len(tasks) = Cardinality(Picked(s))
    BY <1>3, <2>1
  <2>3. QED BY <1>3, <1>4, <2>2
<1>8. todo' = [todo EXCEPT ![s] = tasks]
  BY <1>5
<1> HIDE DEF tasks
<1>9. TypeOK'
  BY <1>7, <1>8 DEF TypeOK, Seed, Steps
<1>10. \A t \in Sessions : Ready(t)'
  BY <1>7, <1>8 DEF TypeOK, Ready, Working, Seed
<1>11. Clean' /\ NoClash'
  BY DEF Clean, NoClash, Seed
<1>12. QED BY <1>9, <1>10, <1>11

(* The task a session works on, and the status it takes the record to have.*)
LEMMA TaskFacts ==
  ASSUME TypeOK, Clean, NEW s \in Sessions, todo[s] # <<>>
  PROVE  /\ Head(todo[s]) \in Task /\ Rec(s) \in Records /\ Goal(s) \in Statuses
         /\ Visible(s) /\ Free(s, Rec(s)) => From(s) \in Statuses
<1>1. todo[s] \in Seq(Task)
  BY DEF TypeOK
<1>2. Head(todo[s]) \in Task
  BY <1>1
<1>3. Rec(s) \in Records /\ Head(todo[s]).path \in Seq(Statuses) /\ Head(todo[s]).path # <<>>
  BY <1>2 DEF Rec, Task, Path
<1>4. Goal(s) \in Statuses
  BY <1>3 DEF Goal
<1>5. ASSUME Visible(s), Free(s, Rec(s)) PROVE From(s) \in Statuses
  <2>1. rows[Rec(s)] = Seen(s, Rec(s))
    BY <1>3, <1>5, EngineAssumption DEF Free, Seen, Clean
  <2>2. rows[Rec(s)].status \in Statuses
    BY <1>3, <1>5, <2>1 DEF Visible, Present, TypeOK, Row
  <2>3. QED BY <1>2, <2>2 DEF From, Task
<1>6. QED BY <1>2, <1>3, <1>4, <1>5

LEMMA TransitionInv ==
  ASSUME IInv, NEW s \in Sessions, Transition(s)
  PROVE  IInv'
<1> USE DEF IInv, BaseInv
<1>1. todo[s] # <<>> /\ todo[s] \in Seq(Task)
  BY DEF Ready, Transition, TypeOK
<1>2. /\ Head(todo[s]) \in Task /\ Rec(s) \in Records /\ Goal(s) \in Statuses
      /\ From(s) \in Statuses
  BY <1>1, TaskFacts DEF Transition
<1>3. MovedRow(s) \in Row
  BY <1>2, MovedInRow DEF MovedRow, TypeOK
<1>4. \A q \in Records \ {Rec(s)} : Apart(rows[q], MovedRow(s)) /\ Apart(committed[q], MovedRow(s))
  BY NothingInTheWay DEF Transition
<1>5. /\ rows' \in [Records -> Row] /\ committed' \in [Records -> Row]
      /\ holder' \in [Records -> Sessions \cup {Nobody}]
      /\ Clean' /\ NoClash'
  BY <1>2, <1>3, <1>4, VersionInv DEF Transition
<1>6. Rest(s) \in Seq(Task)
  <2> DEFINE task == Head(todo[s])
             path == Tail(task.path)
  <2>1. path \in Seq(Statuses)
    BY <1>2 DEF Task, Path
  <2>2. CASE path = <<>>
    BY <1>1, <2>2 DEF Rest
  <2>3. CASE path # <<>>
    <3>1. [task EXCEPT !.believed = Goal(s), !.path = path] \in Task
      BY <1>2, <2>1, <2>3 DEF Task, Path
    <3>2. Tail(todo[s]) \in Seq(Task)
      BY <1>1
    <3>3. Rest(s) = <<[task EXCEPT !.believed = Goal(s), !.path = path]>> \o Tail(todo[s])
      BY <2>3 DEF Rest
    <3> HIDE DEF task, path
    <3>4. QED BY <3>1, <3>2, <3>3
  <2>4. QED BY <2>2, <2>3
<1>7. /\ todo' = [todo EXCEPT ![s] = Rest(s)]
      /\ pc' = [pc EXCEPT ![s] = IF Rest(s) = <<>> THEN "commit" ELSE "transition"]
      /\ UNCHANGED <<committed, active, job, at, found, jobs>>
  BY DEF Transition
<1>8. TypeOK'
  BY <1>5, <1>6, <1>7 DEF TypeOK, Steps
<1>9. \A t \in Sessions : Ready(t)'
  BY <1>7 DEF TypeOK, Ready, Working
<1>10. QED BY <1>5, <1>8, <1>9

-----------------------------------------------------------------------------
(* The inductive invariant. *)
LEMMA InitInv == Init => IInv
<1> SUFFICES ASSUME Init PROVE IInv
  OBVIOUS
<1>1. Idle \in Job
  BY DEF Idle, Job
<1>2. TypeOK
  BY <1>1, BlankRow DEF Init, TypeOK, Steps
<1>3. \A s \in Sessions : Ready(s)
  BY DEF Init, Ready, Working
<1>4. Clean /\ NoClash
  BY DEF Init, Clean, NoClash, Apart, Collide, Present, Blank
<1>5. QED BY <1>2, <1>3, <1>4 DEF IInv, BaseInv

LEMMA RepointInv ==
  ASSUME IInv, NEW d \in Datasets, Repoint(d)
  PROVE  IInv'
  BY DEF IInv, BaseInv, Repoint, TypeOK, Ready, Clean, NoClash

LEMMA StutterInv == IInv /\ UNCHANGED vars => IInv'
  BY DEF IInv, BaseInv, vars, TypeOK, Ready, Clean, NoClash

LEMMA StepInv == IInv /\ [Next]_vars => IInv'
<1> SUFFICES ASSUME IInv, [Next]_vars PROVE IInv'
  OBVIOUS
<1>1. CASE UNCHANGED vars
  BY <1>1, StutterInv
<1>2. CASE \E d \in Datasets : Repoint(d)
  BY <1>2, RepointInv
<1>3. ASSUME NEW s \in Sessions,
             \/ \E kind \in Kinds, fs \in Reports : StartRun(s, kind, fs)
             \/ \E r \in Records, to \in Statuses : StartPatch(s, r, to)
      PROVE  IInv'
  BY <1>3, StartRunInv, StartPatchInv
<1>4. ASSUME NEW s \in Sessions,
             FindCase(s) \/ Refresh(s) \/ KeepKey(s) \/ TakeKey(s) \/ Adopt(s)
             \/ CaseGone(s) \/ FindKey(s) \/ Skip(s) \/ KeyGone(s) \/ Insert(s)
      PROVE  IInv'
  BY <1>4, SelectInv, LockInv, OwnerInv, AdoptInv, InsertInv
<1>5. ASSUME NEW s \in Sessions, Seed(s) \/ Transition(s)
      PROVE  IInv'
  BY <1>5, SeedInv, TransitionInv
<1>6. ASSUME NEW s \in Sessions,
             \/ AdoptFails(s) \/ InsertFails(s) \/ TransitionFails(s)
             \/ DeadlockDetected(s) \/ Commit(s) \/ Crash(s)
      PROVE  IInv'
  <2>1. PICK keep \in BOOLEAN : End(s, keep)
    BY <1>6 DEF AdoptFails, InsertFails, TransitionFails, DeadlockDetected, Commit, Crash
  <2>2. QED BY <2>1, EndInv
<1>7. QED BY <1>1, <1>2, <1>3, <1>4, <1>5, <1>6 DEF Next, AllDone

(* Whatever sessions do, every version of the records stays apart from     *)
(* those of other records, and free records have one version.              *)
THEOREM InductiveInvariant == Spec => []IInv
  BY InitInv, StepInv, PTL DEF Spec

(* Every variable keeps its type. *)
THEOREM TypeCorrect == Spec => []TypeOK
<1>1. IInv => TypeOK
  BY DEF IInv, BaseInv
<1>2. QED BY <1>1, InductiveInvariant, PTL

(* Two committed active records never stand for the same issue of a        *)
(* dataset (service.py:86), with bootstraps running too.                   *)
THEOREM ActiveCase == Spec => []OneActiveCase
<1>1. IInv => OneActiveCase
  BY DEF IInv, NoClash, Apart, Collide, OneActiveCase, Active, Present, ActiveStatuses
<1>2. QED BY <1>1, InductiveInvariant, PTL

(* No other record gets the key of settled facts (service.py:110), with    *)
(* bootstraps running too.                                                 *)
THEOREM Suppression == Spec => []SettledFactsStayQuiet
<1>1. IInv => SettledFactsStayQuiet
  BY DEF IInv, NoClash, Apart, Collide, SettledFactsStayQuiet, HasKey, Present
<1>2. QED BY <1>1, InductiveInvariant, PTL

-----------------------------------------------------------------------------
(* Lifecycles without bootstrap. *)

\* a session that is about to take over a key has locked an active record
HasCase(s) ==
  pc[s] \in {"findOwner", "adopt"} => holder[found[s]] = s /\ Active(rows[found[s]])

\* a session makes one transition, from the status it finds under the lock
OneTask(s) ==
  pc[s] = "transition" =>
    /\ Len(todo[s]) = 1
    /\ Head(todo[s]).believed = "NONE"
    /\ Len(Head(todo[s]).path) = 1

NotSeeding(s) == pc[s] # "seed" /\ job[s].kind # "bootstrap"

SessionInv == \A s \in Sessions : HasCase(s) /\ OneTask(s) /\ NotSeeding(s)

\* nobody has an uncommitted change of a settled record
Settled == \A r \in Records : Terminal(committed[r]) => rows[r] = committed[r]

Trails == \A r \in Records : SoundTrail(rows[r]) /\ SoundTrail(committed[r])

LifeInv == IInv /\ SessionInv /\ Settled /\ Trails

LEMMA BlankTrail == SoundTrail(Blank)
  BY DEF SoundTrail, Blank, Present

LEMMA CreatedTrail ==
  ASSUME NEW d, NEW f
  PROVE  SoundTrail(Created(d, f)) /\ Active(Created(d, f))
  BY DEF SoundTrail, Created, Present, Active, ActiveStatuses

LEMMA AdoptedTrail ==
  ASSUME NEW row \in Row, NEW f \in Finding, SoundTrail(row), Active(row)
  PROVE  SoundTrail(Adopted(row, f)) /\ Active(Adopted(row, f))
<1>1. /\ Adopted(row, f).status = row.status
      /\ Adopted(row, f).log = row.log
  BY DEF Adopted, Row
<1>2. QED BY <1>1 DEF SoundTrail, Present, Active

(* A legal transition from the status of the row extends its trail. *)
LEMMA MovedTrail ==
  ASSUME NEW row \in Row, SoundTrail(row), Present(row), NEW to \in Legal[row.status]
  PROVE  SoundTrail(Moved(row, row.status, to)) /\ ~Terminal(row)
<1> DEFINE new == [from |-> row.status, to |-> to]
           moved == Moved(row, row.status, to)
<1>1. row.log \in Seq(Entry) /\ row.log # <<>> /\ row.status \in Statuses
  BY DEF Row, SoundTrail, Present
<1>2. moved.status = to /\ moved.log = Append(row.log, new)
  BY DEF Moved, Row
<1>3. /\ Len(moved.log) = Len(row.log) + 1 /\ Len(row.log) \in Nat \ {0}
      /\ moved.log[Len(moved.log)] = new
      /\ \A k \in 1..Len(row.log) : moved.log[k] = row.log[k]
  BY <1>1, <1>2
<1> HIDE DEF moved
<1>4. moved.log # <<>> /\ moved.log[1] = [from |-> "NONE", to |-> "OPEN"]
  BY <1>3 DEF SoundTrail, Present
<1>5. moved.log[Len(moved.log)].to = moved.status
  BY <1>2, <1>3
<1>6. ASSUME NEW k \in 2..Len(moved.log)
      PROVE  /\ moved.log[k].from = moved.log[k - 1].to
             /\ moved.log[k].to \in Legal[moved.log[k].from]
  <2>1. CASE k \in 2..Len(row.log)
    <3> DEFINE j == k - 1
    <3>0. k \in 1..Len(row.log) /\ j \in 1..Len(row.log)
      BY <1>3, <2>1
    <3> HIDE DEF j
    <3>1. moved.log[k] = row.log[k] /\ moved.log[j] = row.log[j]
      BY <1>3, <3>0
    <3>2. QED BY <2>1, <3>1 DEF SoundTrail, j
  <2>2. CASE k = Len(row.log) + 1
    <3>1. moved.log[k] = new /\ moved.log[k - 1] = row.log[Len(row.log)]
      BY <1>3, <2>2
    <3>2. QED BY <3>1 DEF SoundTrail
  <2>3. QED BY <1>3, <2>1, <2>2
<1>7. ~Terminal(row)
  BY <1>1 DEF Terminal, TerminalStatuses, Legal
<1>8. QED BY <1>4, <1>5, <1>6, <1>7 DEF SoundTrail, moved

LEMMA NextFindingPlain ==
  ASSUME TypeOK, SessionInv, NEW s \in Sessions, NextFinding(s)
  PROVE  /\ pc'[s] \in {"findCase", "commit"} /\ job' = job
         /\ \A t \in Sessions : OneTask(t)' /\ NotSeeding(t)'
         /\ \A t \in Sessions \ {s} : pc'[t] = pc[t] /\ found'[t] = found[t]
<1>1. NotSeeding(s)
  BY DEF SessionInv
<1>2. pc'[s] \in {"findCase", "commit"}
  BY <1>1 DEF TypeOK, NextFinding, Continue, NotSeeding
<1>3. \A t \in Sessions \ {s} : pc'[t] = pc[t] /\ found'[t] = found[t]
  BY DEF TypeOK, NextFinding, Continue
<1>4. job' = job /\ todo' = todo
  BY DEF NextFinding
<1>5. QED BY <1>2, <1>3, <1>4 DEF SessionInv, OneTask, NotSeeding

(* A session that writes a record it may lock leaves the records the       *)
(* others have locked alone.                                               *)
LEMMA OthersKeepCase ==
  ASSUME TypeOK, \A t \in Sessions : Ready(t), SessionInv,
         NEW s \in Sessions, NEW r \in Records, Free(s, r), NEW row, Write(s, r, row),
         \A t \in Sessions \ {s} : pc'[t] = pc[t] /\ found'[t] = found[t]
  PROVE  \A t \in Sessions \ {s} : HasCase(t)'
<1> SUFFICES ASSUME NEW t \in Sessions \ {s}, pc[t] \in {"findOwner", "adopt"}
             PROVE  holder'[found[t]] = t /\ Active(rows'[found[t]])
  BY DEF HasCase
<1>1. found[t] \in Records /\ holder[found[t]] = t /\ Active(rows[found[t]])
  BY DEF Ready, SessionInv, HasCase
<1>2. found[t] # r
  BY <1>1, EngineAssumption DEF Free
<1>3. holder'[found[t]] = holder[found[t]] /\ rows'[found[t]] = rows[found[t]]
  BY <1>1, <1>2 DEF Write, TypeOK
<1>4. QED BY <1>1, <1>3

(* A written version keeps Settled and Trails if it has a sound trail and  *)
(* does not replace a settled one.                                         *)
LEMMA WrittenTrails ==
  ASSUME TypeOK, Settled, Trails,
         NEW s \in Sessions, NEW r \in Records, NEW row \in Row, Write(s, r, row),
         committed' = committed, SoundTrail(row), ~Terminal(rows[r])
  PROVE  Settled' /\ Trails'
<1>1. /\ rows'[r] = row /\ \A q \in Records \ {r} : rows'[q] = rows[q]
  BY Written
<1>2. ~Terminal(committed[r])
  BY DEF Settled
<1>3. QED BY <1>1, <1>2 DEF Settled, Trails

LEMMA EndLife ==
  ASSUME LifeInv, NEW s \in Sessions, NEW keep \in BOOLEAN, End(s, keep)
  PROVE  /\ SessionInv' /\ Settled' /\ Trails'
         /\ \A r \in Records : Terminal(committed[r]) => committed'[r] = committed[r]
<1> USE DEF LifeInv, IInv, BaseInv
<1>1. \A r \in Records : /\ rows'[r] \in {rows[r], committed[r]}
                         /\ committed'[r] \in {rows[r], committed[r]}
                         /\ holder[r] # s => rows'[r] = rows[r] /\ holder'[r] = holder[r]
  BY DEF TypeOK, End, Seen, Freed
<1>2. Trails'
  BY <1>1 DEF Trails
<1>3. \A r \in Records : rows'[r] = committed'[r] \/ (rows'[r] = rows[r] /\ committed'[r] = committed[r])
  BY DEF TypeOK, End, Seen
<1>4. Settled' /\ \A r \in Records : Terminal(committed[r]) => committed'[r] = committed[r]
  BY <1>1, <1>3 DEF Settled
<1>5. pc'[s] = "idle" /\ job'[s] = Idle
  BY DEF TypeOK, End
<1>6. \A t \in Sessions \ {s} :
        pc'[t] = pc[t] /\ job'[t] = job[t] /\ found'[t] = found[t] /\ todo'[t] = todo[t]
  BY DEF TypeOK, End
<1>7. ASSUME NEW t \in Sessions PROVE HasCase(t)'
  <2>1. CASE t = s
    BY <1>5, <2>1 DEF HasCase
  <2>2. CASE t # s /\ pc[t] \in {"findOwner", "adopt"}
    <3>1. found[t] \in Records /\ holder[found[t]] = t /\ Active(rows[found[t]])
      BY <2>2 DEF Ready, SessionInv, HasCase
    <3>2. QED BY <1>1, <1>6, <2>2, <3>1 DEF HasCase
  <2>3. CASE t # s /\ pc[t] \notin {"findOwner", "adopt"}
    BY <1>6, <2>3 DEF HasCase
  <2>4. QED BY <2>1, <2>2, <2>3
<1>8. \A t \in Sessions : OneTask(t)' /\ NotSeeding(t)'
  BY <1>5, <1>6 DEF SessionInv, OneTask, NotSeeding, Idle
<1>9. QED BY <1>2, <1>4, <1>7, <1>8 DEF SessionInv

LEMMA StartLife ==
  ASSUME LifeInv, "bootstrap" \notin Kinds, NEW s \in Sessions,
         \/ \E kind \in Kinds, fs \in Reports : StartRun(s, kind, fs)
         \/ \E r \in Records, to \in Statuses : StartPatch(s, r, to)
  PROVE  SessionInv' /\ Settled' /\ Trails'
<1> USE DEF LifeInv, IInv, BaseInv
<1>1. rows' = rows /\ committed' = committed /\ holder' = holder /\ found' = found
  BY DEF StartRun, StartPatch
<1>2. \A t \in Sessions \ {s} :
        pc'[t] = pc[t] /\ job'[t] = job[t] /\ todo'[t] = todo[t]
  BY DEF TypeOK, StartRun, StartPatch, Continue
<1>3. /\ pc'[s] \notin {"findOwner", "adopt"} /\ NotSeeding(s)' /\ OneTask(s)'
  <2>1. CASE \E kind \in Kinds, fs \in Reports : StartRun(s, kind, fs)
    <3>1. PICK kind \in Kinds, fs \in Reports : StartRun(s, kind, fs)
      BY <2>1
    <3>2. pc'[s] \in {"findCase", "commit"} /\ job'[s].kind = kind /\ kind # "bootstrap"
      BY <3>1 DEF StartRun, Continue, TypeOK
    <3>3. QED BY <3>2 DEF NotSeeding, OneTask
  <2>2. CASE \E r \in Records, to \in Statuses : StartPatch(s, r, to)
    <3>1. PICK r \in Records, to \in Statuses : StartPatch(s, r, to)
      BY <2>2
    <3>2. /\ pc'[s] = "transition" /\ job'[s].kind = "patch"
          /\ todo'[s] = <<[rec |-> r, believed |-> "NONE", path |-> <<to>>]>>
      BY <3>1 DEF StartPatch, TypeOK
    <3>3. QED BY <3>2 DEF NotSeeding, OneTask
  <2>3. QED BY <2>1, <2>2
<1>4. QED BY <1>1, <1>2, <1>3 DEF SessionInv, HasCase, OneTask, NotSeeding, Settled, Trails

LEMMA ReadLife ==
  ASSUME LifeInv, NEW s \in Sessions,
         FindCase(s) \/ FindKey(s) \/ KeepKey(s) \/ TakeKey(s)
  PROVE  SessionInv' /\ Settled' /\ Trails'
<1> USE DEF LifeInv, IInv, BaseInv
<1>1. rows' = rows /\ committed' = committed /\ holder' = holder
  BY DEF FindCase, FindKey, KeepKey, TakeKey, Select, NextFinding
<1>2. CASE FindCase(s) \/ FindKey(s)
  <2>1. /\ pc'[s] \in {"lockCase", "findKey", "lockKey", "insert"}
        /\ \A t \in Sessions \ {s} : pc'[t] = pc[t] /\ found'[t] = found[t]
        /\ job' = job /\ todo' = todo
    BY <1>2 DEF FindCase, FindKey, Select, TypeOK
  <2>2. QED BY <1>1, <2>1 DEF SessionInv, HasCase, OneTask, NotSeeding, Settled, Trails
<1>3. CASE TakeKey(s)
  <2>1. /\ pc[s] = "findOwner" /\ pc' = [pc EXCEPT ![s] = "adopt"]
        /\ found' = found /\ job' = job /\ todo' = todo
    BY <1>3 DEF TakeKey
  <2>2. QED BY <1>1, <2>1 DEF TypeOK, SessionInv, HasCase, OneTask, NotSeeding, Settled, Trails
<1>4. CASE KeepKey(s)
  <2>1. NextFinding(s)
    BY <1>4 DEF KeepKey
  <2>2. QED BY <1>1, <2>1, NextFindingPlain DEF SessionInv, HasCase, Settled, Trails
<1>5. QED BY <1>2, <1>3, <1>4

LEMMA LockLife ==
  ASSUME LifeInv, NEW s \in Sessions,
         Refresh(s) \/ CaseGone(s) \/ Skip(s) \/ KeyGone(s)
  PROVE  SessionInv' /\ Settled' /\ Trails'
<1> USE DEF LifeInv, IInv, BaseInv
<1>1. /\ pc[s] \in {"lockCase", "lockKey"} /\ Free(s, found[s])
      /\ Write(s, found[s], rows[found[s]]) /\ committed' = committed
  BY DEF Refresh, CaseGone, Skip, KeyGone, Gone, NextFinding
<1>2. found[s] \in Records
  BY <1>1 DEF Ready, Working
<1>3. rows' = rows /\ holder'[found[s]] = s
  BY <1>1, <1>2 DEF Write, TypeOK
<1>4. /\ \A t \in Sessions \ {s} : pc'[t] = pc[t] /\ found'[t] = found[t]
      /\ \A t \in Sessions : OneTask(t)' /\ NotSeeding(t)'
      /\ HasCase(s)'
  <2>1. CASE NextFinding(s)
    BY <2>1, NextFindingPlain DEF HasCase
  <2>2. CASE /\ pc' = [pc EXCEPT ![s] = "findOwner"]
             /\ UNCHANGED <<active, job, at, found, todo, jobs>>
             /\ IsActiveCase(rows[found[s]], job[s].ds, Current(s))
    BY <1>3, <2>2 DEF TypeOK, SessionInv, HasCase, OneTask, NotSeeding, IsActiveCase
  <2>3. CASE \E step \in {"findKey", "insert"} : Gone(s, step)
    BY <2>3 DEF Gone, TypeOK, SessionInv, HasCase, OneTask, NotSeeding
  <2>4. QED BY <2>1, <2>2, <2>3 DEF Refresh, CaseGone, Skip, KeyGone
<1>5. \A t \in Sessions \ {s} : HasCase(t)'
  BY <1>1, <1>2, <1>4, OthersKeepCase
<1>6. QED BY <1>1, <1>3, <1>4, <1>5 DEF SessionInv, Settled, Trails

(* A finding is written: a new record or the new facts of an active one.   *)
LEMMA FindingLife ==
  ASSUME LifeInv, NEW s \in Sessions, Adopt(s) \/ Insert(s)
  PROVE  SessionInv' /\ Settled' /\ Trails'
<1> USE DEF LifeInv, IInv, BaseInv
<1>1. NextFinding(s) /\ committed' = committed /\ pc[s] \in Working
  BY DEF Adopt, Insert, NextFinding, Working
<1>2. Current(s) \in Finding /\ job[s].ds \in Datasets \cup {None}
  BY <1>1, CurrentFinding
<1>3. \E r \in Records, row \in Row :
        /\ Free(s, r) /\ Write(s, r, row) /\ SoundTrail(row) /\ ~Terminal(rows[r])
  <2>1. CASE Adopt(s)
    <3>1. /\ found[s] \in Records /\ holder[found[s]] = s /\ Active(rows[found[s]])
      BY <2>1 DEF Adopt, Ready, SessionInv, HasCase
    <3>2. rows[found[s]] \in Row /\ SoundTrail(rows[found[s]])
      BY <3>1 DEF TypeOK, Trails
    <3>3. AdoptedRow(s) \in Row /\ SoundTrail(AdoptedRow(s))
      BY <1>2, <3>1, <3>2, AdoptedInRow, AdoptedTrail DEF AdoptedRow
    <3>4. Free(s, found[s]) /\ ~Terminal(rows[found[s]])
      BY <3>1 DEF Free, Active, Terminal, ActiveStatuses, TerminalStatuses
    <3>5. QED BY <2>1, <3>1, <3>3, <3>4 DEF Adopt
  <2>2. CASE Insert(s)
    <3>1. PICK r \in Unused : Write(s, r, NewRow(s))
      BY <2>2 DEF Insert
    <3>2. r \in Records /\ Free(s, r) /\ ~Terminal(rows[r])
      BY DEF Unused, Free, Present, Terminal, TerminalStatuses
    <3>3. NewRow(s) \in Row /\ SoundTrail(NewRow(s))
      BY <1>2, CreatedRow, CreatedTrail DEF NewRow
    <3>4. QED BY <3>1, <3>2, <3>3
  <2>3. QED BY <2>1, <2>2
<1>4. PICK r \in Records, row \in Row :
        /\ Free(s, r) /\ Write(s, r, row) /\ SoundTrail(row) /\ ~Terminal(rows[r])
  BY <1>3
<1>5. Settled' /\ Trails'
  BY <1>1, <1>4, WrittenTrails
<1>6. /\ pc'[s] \in {"findCase", "commit"}
      /\ \A t \in Sessions : OneTask(t)' /\ NotSeeding(t)'
      /\ \A t \in Sessions \ {s} : pc'[t] = pc[t] /\ found'[t] = found[t]
  BY <1>1, NextFindingPlain
<1>7. \A t \in Sessions \ {s} : HasCase(t)'
  BY <1>4, <1>6, OthersKeepCase
<1>8. HasCase(s)'
  BY <1>6 DEF HasCase
<1>9. QED BY <1>5, <1>6, <1>7, <1>8 DEF SessionInv

LEMMA LastOne == ASSUME NEW S, NEW seq \in Seq(S), Len(seq) = 1 PROVE Tail(seq) = <<>>
<1>1. seq # <<>>
  OBVIOUS
<1>2. Tail(seq) \in Seq(S) /\ Len(Tail(seq)) = 0
  BY <1>1, HeadTailProperties
<1>3. QED BY <1>2, EmptySeq

(* The status change is decided on the row under the lock. *)
LEMMA TransitionLife ==
  ASSUME LifeInv, NEW s \in Sessions, Transition(s)
  PROVE  SessionInv' /\ Settled' /\ Trails'
<1> USE DEF LifeInv, IInv, BaseInv
<1>1. /\ todo[s] # <<>> /\ todo[s] \in Seq(Task) /\ Len(todo[s]) = 1
      /\ Head(todo[s]).believed = "NONE" /\ Len(Head(todo[s]).path) = 1
  BY DEF Transition, Ready, TypeOK, SessionInv, OneTask
<1>2. /\ Head(todo[s]) \in Task /\ Rec(s) \in Records /\ Goal(s) \in Statuses
      /\ From(s) \in Statuses
  BY <1>1, TaskFacts DEF Transition
<1>3. From(s) = rows[Rec(s)].status
  BY <1>1 DEF From
<1>4. rows[Rec(s)] \in Row /\ SoundTrail(rows[Rec(s)]) /\ Present(rows[Rec(s)])
  BY <1>2, <1>3 DEF TypeOK, Trails, Present, Statuses, ActiveStatuses, TerminalStatuses
<1>5. /\ MovedRow(s) \in Row /\ SoundTrail(MovedRow(s)) /\ ~Terminal(rows[Rec(s)])
  BY <1>2, <1>3, <1>4, MovedInRow, MovedTrail DEF MovedRow, Transition
<1>6. /\ Free(s, Rec(s)) /\ Write(s, Rec(s), MovedRow(s)) /\ committed' = committed
  BY DEF Transition
<1>7. Settled' /\ Trails'
  BY <1>2, <1>5, <1>6, WrittenTrails
<1>8. Rest(s) = <<>>
  <2>1. Tail(Head(todo[s]).path) = <<>>
    <3>1. Head(todo[s]).path \in Seq(Statuses)
      BY <1>2 DEF Task, Path
    <3>2. QED BY <1>1, <3>1, LastOne
  <2>2. Tail(todo[s]) = <<>>
    BY <1>1, LastOne
  <2>3. QED BY <2>1, <2>2 DEF Rest
<1>9. /\ pc'[s] = "commit" /\ job' = job
      /\ \A t \in Sessions \ {s} :
           pc'[t] = pc[t] /\ found'[t] = found[t] /\ todo'[t] = todo[t]
  BY <1>8 DEF Transition, TypeOK
<1>10. \A t \in Sessions \ {s} : HasCase(t)'
  BY <1>2, <1>6, <1>9, OthersKeepCase
<1>11. QED BY <1>7, <1>9, <1>10 DEF SessionInv, HasCase, OneTask, NotSeeding

LEMMA InitLife == Init => LifeInv
<1> SUFFICES ASSUME Init PROVE LifeInv
  OBVIOUS
<1>1. SessionInv
  BY DEF Init, SessionInv, HasCase, OneTask, NotSeeding, Idle
<1>2. Settled /\ Trails
  BY BlankTrail DEF Init, Settled, Trails
<1>3. QED BY <1>1, <1>2, InitInv DEF LifeInv

LEMMA StepLife ==
  ASSUME LifeInv, "bootstrap" \notin Kinds, [Next]_vars
  PROVE  /\ LifeInv'
         /\ \A r \in Records : Terminal(committed[r]) => committed'[r] = committed[r]
<1>1. IInv'
  BY StepInv DEF LifeInv
<1>2. /\ SessionInv' /\ Settled' /\ Trails'
      /\ \A r \in Records : Terminal(committed[r]) => committed'[r] = committed[r]
  <2>1. CASE UNCHANGED vars
    BY <2>1 DEF LifeInv, vars, SessionInv, HasCase, OneTask, NotSeeding, Settled, Trails
  <2>2. CASE \E d \in Datasets : Repoint(d)
    BY <2>2 DEF LifeInv, Repoint, SessionInv, HasCase, OneTask, NotSeeding, Settled, Trails
  <2>3. ASSUME NEW s \in Sessions,
               \/ \E kind \in Kinds, fs \in Reports : StartRun(s, kind, fs)
               \/ \E r \in Records, to \in Statuses : StartPatch(s, r, to)
        PROVE  SessionInv' /\ Settled' /\ Trails' /\ committed' = committed
    <3>1. SessionInv' /\ Settled' /\ Trails'
      BY <2>3, StartLife
    <3>2. QED BY <2>3, <3>1 DEF StartRun, StartPatch
  <2>4. ASSUME NEW s \in Sessions,
               FindCase(s) \/ Refresh(s) \/ KeepKey(s) \/ TakeKey(s) \/ Adopt(s)
               \/ CaseGone(s) \/ FindKey(s) \/ Skip(s) \/ KeyGone(s) \/ Insert(s)
               \/ Transition(s)
        PROVE  SessionInv' /\ Settled' /\ Trails' /\ committed' = committed
    <3>1. SessionInv' /\ Settled' /\ Trails'
      BY <2>4, ReadLife, LockLife, FindingLife, TransitionLife
    <3>2. committed' = committed
      BY <2>4 DEF FindCase, Refresh, KeepKey, TakeKey, Adopt, CaseGone, FindKey, Skip,
                  KeyGone, Insert, Transition, Select, Gone, NextFinding
    <3>3. QED BY <3>1, <3>2
  <2>5. ASSUME NEW s \in Sessions PROVE ~Seed(s)
    BY DEF LifeInv, SessionInv, NotSeeding, Seed
  <2>6. ASSUME NEW s \in Sessions,
               \/ AdoptFails(s) \/ InsertFails(s) \/ TransitionFails(s)
               \/ DeadlockDetected(s) \/ Commit(s) \/ Crash(s)
        PROVE  /\ SessionInv' /\ Settled' /\ Trails'
               /\ \A r \in Records : Terminal(committed[r]) => committed'[r] = committed[r]
    <3>1. PICK keep \in BOOLEAN : End(s, keep)
      BY <2>6 DEF AdoptFails, InsertFails, TransitionFails, DeadlockDetected, Commit, Crash
    <3>2. QED BY <3>1, EndLife
  <2>7. QED BY <2>1, <2>2, <2>3, <2>4, <2>5, <2>6 DEF Next, AllDone, Repoint, vars
<1>3. QED BY <1>1, <1>2 DEF LifeInv

(* Where no bootstrap runs, every version of every record has a sound      *)
(* trail, settled records have no pending change, and a session about to   *)
(* take over a key holds an active record.                                 *)
THEOREM LifecycleInvariant == "bootstrap" \notin Kinds /\ Spec => []LifeInv
<1> SUFFICES ASSUME "bootstrap" \notin Kinds PROVE Spec => []LifeInv
  OBVIOUS
<1>1. LifeInv /\ [Next]_vars => LifeInv'
  BY StepLife
<1>2. QED BY <1>1, InitLife, PTL DEF Spec

(* The committed audit trail explains the committed status along legal     *)
(* transitions (docs/architecture.md:116-127).                             *)
THEOREM AuditTrail == "bootstrap" \notin Kinds /\ Spec => []AuditTrailIsSound
<1> SUFFICES ASSUME "bootstrap" \notin Kinds PROVE Spec => []AuditTrailIsSound
  OBVIOUS
<1>1. LifeInv => AuditTrailIsSound
  BY DEF LifeInv, Trails, AuditTrailIsSound
<1>2. Spec => []LifeInv
  BY LifecycleInvariant
<1>3. QED BY <1>1, <1>2, PTL

(* Terminal states cannot transition (docs/architecture.md:126): detection *)
(* runs, status changes, crashes and refusals in any order never change a  *)
(* committed record that was resolved or dismissed.                        *)
THEOREM TerminalStates == "bootstrap" \notin Kinds /\ Spec => TerminalIsFinal
<1> SUFFICES ASSUME "bootstrap" \notin Kinds PROVE Spec => TerminalIsFinal
  OBVIOUS
<1>1. LifeInv /\ [Next]_vars =>
        [\A r \in Records : Terminal(committed[r]) => committed'[r] = committed[r]]_vars
  BY StepLife
<1>2. Spec => []LifeInv
  BY LifecycleInvariant
<1>3. QED BY <1>1, <1>2, PTL DEF Spec, TerminalIsFinal
=============================================================================

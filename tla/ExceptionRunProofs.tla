-------------------------- MODULE ExceptionRunProofs --------------------------
(***************************************************************************)
(* What a committed detection run promises, beside operators and the       *)
(* bootstrap, and who can deadlock.  Both rest on the row locks and on the *)
(* order of the findings: whatever a run has looked at stays as it is      *)
(* until it commits, and no later finding of the run touches it.           *)
(***************************************************************************)
EXTENDS ExceptionEngineProofs

\* b is a later version of record a: what is there stands for the same issue,
\* and once it is settled for the same facts
Keeps(a, b) ==
  Present(a) => /\ Present(b) /\ b.ds = a.ds /\ b.issue = a.issue
                /\ Active(a) \/ b.facts = a.facts

Lasting == \A r \in Records : Keeps(committed[r], rows[r])

HoldsNothing(s) == pc[s] = "idle" => \A r \in Records : holder[r] # s

OnlyMoves(s) == pc[s] \in {"seed", "transition"} => job[s].kind # "detect"

\* a run has only changed the facts of the records there were
Quiet(s) ==
  job[s].kind = "detect" =>
    \A r \in Records : holder[r] = s /\ Present(committed[r]) =>
      rows[r].status = committed[r].status /\ rows[r].log = committed[r].log

\* s has the key of finding f, or the active case that shares the issue with a
\* record that has the key: that one nobody can make active before s ends
Kept(s, f) ==
  \E r \in Records :
    /\ holder[r] = s
    /\ \/ HasKey(rows[r], job[s].ds, f)
       \/ /\ IsActiveCase(committed[r], job[s].ds, f)
          /\ \E q \in Records \ {r} : HasKey(committed[q], job[s].ds, f)

Covered(s) ==
  \A k \in DOMAIN job[s].findings : k < at[s] => Kept(s, job[s].findings[k])

Through(s) ==
  pc[s] \in {"seed", "transition", "commit"} => \A k \in DOMAIN job[s].findings : k < at[s]

\* a run that is about to take over a key has locked the case, and left it alone
OnCase(s) ==
  pc[s] \in {"findOwner", "adopt"} =>
    /\ holder[found[s]] = s /\ rows[found[s]] = committed[found[s]]
    /\ IsActiveCase(rows[found[s]], job[s].ds, Current(s))

\* row stands for the issue s works on
OfCurrent(s, row) == Present(row) /\ row.ds = job[s].ds /\ row.issue = Current(s).issue

OnFound(s) == pc[s] \in {"lockCase", "lockKey"} => OfCurrent(s, Seen(s, found[s]))

Ordered(s) ==
  \A j, k \in DOMAIN job[s].findings :
    j < k => Position(job[s].findings[j].issue) < Position(job[s].findings[k].issue)

\* where the finding a run works on comes in the order of detect_all
Rank(s) == Position(Current(s).issue)

\* r has been locked for the finding s works on, and is as it was
Lost(s, r) ==
  /\ rows[r].issue = Current(s).issue
  /\ rows[r] = committed[r]
  /\ pc[s] \notin {"findCase", "lockCase"}
  /\ pc[s] \in {"findKey", "lockKey"} => ~Active(rows[r])

\* all that a run has locked was locked for the findings up to this one
Upwards(s) ==
  pc[s] \in Working => \A r \in Records : holder[r] = s =>
    /\ Present(rows[r]) /\ rows[r].ds = job[s].ds /\ rows[r].issue \in Issues
    /\ Position(rows[r].issue) < Rank(s) \/ Lost(s, r)

Run(s) ==
  /\ HoldsNothing(s) /\ OnlyMoves(s) /\ Quiet(s) /\ Covered(s) /\ Through(s)
  /\ OnCase(s) /\ OnFound(s) /\ Ordered(s) /\ Upwards(s)

RunInv == IInv /\ Lasting /\ \A s \in Sessions : Run(s)

-----------------------------------------------------------------------------
(* Findings and their order. *)
LEMMA PositionOf ==
  ASSUME NEW i \in Issues
  PROVE  Position(i) \in Nat /\ IssueOrder[Position(i)] = i
<1>1. \E k \in DOMAIN IssueOrder : IssueOrder[k] = i
  BY EngineAssumption
<1>2. Position(i) \in DOMAIN IssueOrder /\ IssueOrder[Position(i)] = i
  BY <1>1 DEF Position
<1>3. QED BY <1>2, EngineAssumption

LEMMA FindingOf ==
  ASSUME TypeOK, NEW s \in Sessions, NEW k \in DOMAIN job[s].findings
  PROVE  job[s].findings[k] \in Finding /\ job[s].findings[k].issue \in Issues
<1>1. job[s].findings \in Seq(Finding)
  BY DEF TypeOK, Job
<1>2. job[s].findings[k] \in Finding
  BY <1>1, ElementOfSeq
<1>3. QED BY <1>2 DEF Finding

LEMMA RankOf ==
  ASSUME TypeOK, NEW s \in Sessions, Ready(s), pc[s] \in Working
  PROVE  /\ Rank(s) \in Nat /\ Current(s).issue \in Issues
         /\ \A i \in Issues : Position(i) = Rank(s) => i = Current(s).issue
<1>1. Current(s) \in Finding
  BY CurrentFinding
<1>2. Current(s).issue \in Issues
  BY <1>1 DEF Finding
<1>3. QED BY <1>2, PositionOf DEF Rank

\* the issue of a finding a run is through with is not the current one
LEMMA PastIssues ==
  ASSUME RunInv, NEW s \in Sessions, pc[s] \in Working,
         NEW k \in DOMAIN job[s].findings, k < at[s]
  PROVE  job[s].findings[k].issue # Current(s).issue
<1>1. TypeOK /\ Ready(s) /\ Run(s)
  BY DEF RunInv, IInv, BaseInv
<1>2. at[s] \in DOMAIN job[s].findings
  BY <1>1 DEF Ready
<1>3. Position(job[s].findings[k].issue) < Rank(s)
  BY <1>1, <1>2 DEF Run, Ordered, Rank, Current
<1>4. Rank(s) \in Nat
  BY <1>1, RankOf
<1>5. QED BY <1>3, <1>4 DEF Rank

-----------------------------------------------------------------------------
(* A step of s leaves alone what the others hold, and publishes or drops   *)
(* versions there are.  The record that keeps a finding of t for the case  *)
(* t holds is settled, as the case is active: so it keeps its facts.       *)
LEMMA OthersRun ==
  ASSUME RunInv, NEW s \in Sessions,
         \A r \in Records : holder[r] \notin {s, Nobody} =>
           rows'[r] = rows[r] /\ holder'[r] = holder[r] /\ committed'[r] = committed[r],
         \A r \in Records : holder[r] \in {s, Nobody} => holder'[r] \in {s, Nobody},
         \A r \in Records : committed'[r] \in {rows[r], committed[r]},
         \A t \in Sessions \ {s} :
           pc'[t] = pc[t] /\ job'[t] = job[t] /\ at'[t] = at[t] /\ found'[t] = found[t]
  PROVE  \A t \in Sessions \ {s} : Run(t)'
<1> SUFFICES ASSUME NEW t \in Sessions \ {s} PROVE Run(t)'
  OBVIOUS
<1>1. /\ Run(t) /\ Ready(t) /\ Lasting /\ NoClash
      /\ pc'[t] = pc[t] /\ job'[t] = job[t] /\ at'[t] = at[t] /\ found'[t] = found[t]
  BY DEF RunInv, IInv, BaseInv
<1>2. t # Nobody
  BY EngineAssumption
<1>3. \A r \in Records : holder'[r] = t => holder[r] = t
  BY <1>2
<1>4. \A r \in Records : holder[r] = t =>
        rows'[r] = rows[r] /\ holder'[r] = t /\ committed'[r] = committed[r]
  BY <1>2
<1>5. Current(t)' = Current(t) /\ Rank(t)' = Rank(t)
  BY <1>1 DEF Current, Rank
<1>6. \A r \in Records : Keeps(committed[r], committed'[r])
  BY <1>1 DEF Lasting, Keeps
<1>7. HoldsNothing(t)' /\ OnlyMoves(t)' /\ Through(t)' /\ Ordered(t)'
  BY <1>1, <1>3 DEF Run, HoldsNothing, OnlyMoves, Through, Ordered
<1>8. Quiet(t)'
  BY <1>1, <1>3, <1>4 DEF Run, Quiet
<1>9. Covered(t)'
  <2> SUFFICES ASSUME NEW k \in DOMAIN job[t].findings, k < at[t]
               PROVE  Kept(t, job[t].findings[k])'
    BY <1>1 DEF Covered, Kept
  <2> DEFINE f == job[t].findings[k]
             d == job[t].ds
  <2>1. PICK r \in Records :
          /\ holder[r] = t
          /\ \/ HasKey(rows[r], d, f)
             \/ /\ IsActiveCase(committed[r], d, f)
                /\ \E q \in Records \ {r} : HasKey(committed[q], d, f)
    BY <1>1 DEF Run, Covered, Kept
  <2>2. job'[t].ds = d /\ job'[t].findings[k] = f
    BY <1>1
  <2> HIDE DEF d, f
  <2>3. holder'[r] = t /\ rows'[r] = rows[r] /\ committed'[r] = committed[r]
    BY <1>4, <2>1
  <2>4. ASSUME NEW q \in Records \ {r}, HasKey(committed[q], d, f),
               IsActiveCase(committed[r], d, f)
        PROVE  HasKey(committed'[q], d, f)
    <3>1. ~Active(committed[q])
      <4>1. Apart(committed[r], committed[q])
        BY <1>1 DEF NoClash
      <4>2. Present(committed[r])
        BY <2>4 DEF IsActiveCase, Present, Active, ActiveStatuses
      <4>3. QED BY <2>4, <4>1, <4>2 DEF Apart, Collide, HasKey, IsActiveCase
    <3>2. QED BY <1>6, <2>4, <3>1 DEF Keeps, HasKey
  <2>5. QED BY <2>1, <2>2, <2>3, <2>4 DEF Kept
<1>10. OnCase(t)'
  <2> SUFFICES ASSUME pc[t] \in {"findOwner", "adopt"} PROVE OnCase(t)'
    BY <1>1 DEF OnCase
  <2>1. found[t] \in Records /\ holder[found[t]] = t
    BY <1>1 DEF Ready, Run, OnCase
  <2>2. QED BY <1>1, <1>4, <1>5, <2>1 DEF Run, OnCase
<1>11. Upwards(t)'
  BY <1>1, <1>3, <1>4, <1>5 DEF Run, Upwards, Lost
<1>12. OnFound(t)'
  <2> SUFFICES ASSUME pc[t] \in {"lockCase", "lockKey"}
               PROVE  OfCurrent(t, Seen(t, found[t]))'
    BY <1>1 DEF OnFound
  <2>1. found[t] \in Records /\ OfCurrent(t, Seen(t, found[t]))
    BY <1>1 DEF Ready, Run, OnFound
  <2>2. CASE holder[found[t]] = t
    BY <1>1, <1>4, <1>5, <2>1, <2>2 DEF Seen, OfCurrent
  <2>3. CASE holder[found[t]] # t
    <3>1. holder'[found[t]] # t /\ Keeps(committed[found[t]], committed'[found[t]])
      BY <1>3, <1>6, <2>1, <2>3
    <3>2. QED BY <1>1, <1>5, <2>1, <2>3, <3>1 DEF Seen, OfCurrent, Keeps
  <2>4. QED BY <2>2, <2>3
<1>13. QED BY <1>7, <1>8, <1>9, <1>10, <1>11, <1>12 DEF Run

LEMMA EndRun ==
  ASSUME RunInv, NEW s \in Sessions, NEW keep \in BOOLEAN, End(s, keep)
  PROVE  Lasting' /\ \A t \in Sessions : Run(t)'
<1>1. TypeOK /\ Lasting
  BY DEF RunInv, IInv, BaseInv
<1>2. \A r \in Records :
        /\ rows'[r] = committed'[r] \/ (rows'[r] = rows[r] /\ committed'[r] = committed[r])
        /\ committed'[r] \in {rows[r], committed[r]}
  BY <1>1 DEF TypeOK, End, Seen
<1>3. Lasting'
  BY <1>1, <1>2 DEF Lasting, Keeps
<1>4. \A t \in Sessions \ {s} : Run(t)'
  <2>1. \A r \in Records : holder[r] \notin {s, Nobody} =>
          rows'[r] = rows[r] /\ holder'[r] = holder[r] /\ committed'[r] = committed[r]
    BY <1>1 DEF TypeOK, End, Seen, Freed
  <2>2. \A r \in Records : holder[r] \in {s, Nobody} => holder'[r] \in {s, Nobody}
    BY <1>1 DEF TypeOK, End, Freed
  <2>3. \A t \in Sessions \ {s} :
          pc'[t] = pc[t] /\ job'[t] = job[t] /\ at'[t] = at[t] /\ found'[t] = found[t]
    BY <1>1 DEF TypeOK, End
  <2>4. QED BY <1>2, <2>1, <2>2, <2>3, OthersRun
<1>5. Run(s)'
  <2>1. pc'[s] = "idle" /\ job'[s].kind = "none" /\ job'[s].findings = <<>>
    BY <1>1 DEF TypeOK, End, Idle
  <2>2. \A r \in Records : holder'[r] # s
    BY <1>1, EngineAssumption DEF TypeOK, End, Freed
  <2>3. HoldsNothing(s)' /\ OnlyMoves(s)' /\ Quiet(s)' /\ Covered(s)' /\ Through(s)'
    BY <2>1, <2>2 DEF HoldsNothing, OnlyMoves, Quiet, Covered, Through
  <2>4. OnCase(s)' /\ OnFound(s)' /\ Ordered(s)' /\ Upwards(s)'
    BY <2>1 DEF OnCase, OnFound, Ordered, Upwards, Working
  <2>5. QED BY <2>3, <2>4 DEF Run
<1>6. QED BY <1>3, <1>4, <1>5

LEMMA StartRunRun ==
  ASSUME RunInv, NEW s \in Sessions,
         \/ \E kind \in Kinds, fs \in Reports : StartRun(s, kind, fs)
         \/ \E r \in Records, to \in Statuses : StartPatch(s, r, to)
  PROVE  Lasting' /\ \A t \in Sessions : Run(t)'
<1>1. TypeOK /\ Lasting
  BY DEF RunInv, IInv, BaseInv
<1>2. /\ rows' = rows /\ holder' = holder /\ committed' = committed /\ pc[s] = "idle"
  BY DEF StartRun, StartPatch
<1>3. \A t \in Sessions \ {s} : Run(t)'
  <2>1. \A t \in Sessions \ {s} :
          pc'[t] = pc[t] /\ job'[t] = job[t] /\ at'[t] = at[t] /\ found'[t] = found[t]
    BY <1>1 DEF TypeOK, StartRun, StartPatch, Continue
  <2>2. QED BY <1>2, <2>1, OthersRun
<1>4. \A r \in Records : holder'[r] # s
  BY <1>2 DEF RunInv, Run, HoldsNothing
<1>5. /\ OnlyMoves(s)' /\ Covered(s)' /\ Through(s)' /\ Ordered(s)'
      /\ pc'[s] \in {"findCase", "seed", "commit", "transition"}
  <2>1. CASE \E kind \in Kinds, fs \in Reports : StartRun(s, kind, fs)
    <3>1. PICK kind \in Kinds, fs \in Reports : StartRun(s, kind, fs)
      BY <2>1
    <3>2. fs \in Seq(Finding)
      BY DEF Reports, BoundedSeq, SeqOf
    <3>3. /\ job'[s].findings = fs /\ job'[s].kind = kind /\ at'[s] = 1
          /\ pc'[s] \in {"findCase", "seed", "commit"}
          /\ pc'[s] = "seed" => kind = "bootstrap"
          /\ pc'[s] # "findCase" => Len(fs) < 1
      <4>1. job'[s].findings = fs /\ job'[s].kind = kind /\ at'[s] = 1
        BY <1>1, <3>1 DEF TypeOK, StartRun
      <4>2. Len(fs) \in Nat
        BY <3>2
      <4>3. CASE 1 <= Len(fs)
        <5>1. pc'[s] = "findCase"
          BY <1>1, <3>1, <4>3 DEF TypeOK, StartRun, Continue
        <5>2. QED BY <4>1, <5>1
      <4>4. CASE ~(1 <= Len(fs))
        BY <1>1, <3>1, <4>1, <4>2, <4>4 DEF TypeOK, StartRun, Continue
      <4>5. QED BY <4>3, <4>4
    <3>4. Covered(s)' /\ Through(s)'
      BY <3>2, <3>3 DEF Covered, Through
    <3>5. QED BY <3>3, <3>4 DEF OnlyMoves, Ordered, Reports
  <2>2. CASE \E r \in Records, to \in Statuses : StartPatch(s, r, to)
    <3>1. job'[s].findings = <<>> /\ job'[s].kind = "patch" /\ pc'[s] = "transition"
      BY <1>1, <2>2 DEF TypeOK, StartPatch
    <3>2. QED BY <3>1 DEF OnlyMoves, Covered, Through, Ordered
  <2>3. QED BY <2>1, <2>2
<1>6. Run(s)'
  BY <1>4, <1>5 DEF Run, HoldsNothing, Quiet, OnCase, OnFound, Upwards
<1>7. QED BY <1>1, <1>2, <1>3, <1>6 DEF Lasting

(* A session writes or locks r: the others go on, and it keeps what it has *)
(* covered if the new version does, and the finding it leaves.             *)
LEMMA WriteRun ==
  ASSUME RunInv, NEW s \in Sessions, NEW r \in Records, NEW row \in Row,
         Free(s, r), Write(s, r, row), committed' = committed, Keeps(committed[r], row),
         pc'[s] # "idle", job'[s] = job[s],
         \A t \in Sessions \ {s} :
           pc'[t] = pc[t] /\ job'[t] = job[t] /\ at'[t] = at[t] /\ found'[t] = found[t],
         \* records there were keep their lifecycle
         job[s].kind = "detect" /\ Present(rows[r]) =>
           row.status = rows[r].status /\ row.log = rows[r].log,
         \* and the keys that count
         \A k \in DOMAIN job[s].findings :
           k < at[s] /\ HasKey(rows[r], job[s].ds, job[s].findings[k]) =>
             HasKey(row, job[s].ds, job[s].findings[k]),
         \A k \in DOMAIN job[s].findings : k < at'[s] =>
           k < at[s] \/ Kept(s, job[s].findings[k])'
  PROVE  /\ rows'[r] = row /\ holder'[r] = s
         /\ \A q \in Records \ {r} : rows'[q] = rows[q] /\ holder'[q] = holder[q]
         /\ Lasting' /\ \A t \in Sessions \ {s} : Run(t)'
         /\ HoldsNothing(s)' /\ Quiet(s)' /\ Covered(s)'
<1>1. TypeOK /\ Clean /\ Run(s) /\ Lasting
  BY DEF RunInv, IInv, BaseInv
<1>2. /\ rows'[r] = row /\ holder'[r] = s
      /\ \A q \in Records \ {r} : rows'[q] = rows[q] /\ holder'[q] = holder[q]
  BY <1>1, Written
<1>3. \A t \in Sessions \ {s} : Run(t)'
  <2>1. holder[r] \in {s, Nobody}
    BY DEF Free
  <2>2. QED BY <1>2, <2>1, OthersRun
<1>4. Lasting' /\ HoldsNothing(s)'
  BY <1>1, <1>2 DEF Lasting, HoldsNothing
<1>5. Quiet(s)'
  <2> SUFFICES ASSUME job[s].kind = "detect", NEW q \in Records, holder'[q] = s,
                      Present(committed[q])
               PROVE  /\ rows'[q].status = committed[q].status
                      /\ rows'[q].log = committed[q].log
    BY DEF Quiet
  <2>1. CASE q # r
    BY <1>1, <1>2, <2>1 DEF Run, Quiet
  <2>2. CASE q = r
    <3>1. rows[r].status = committed[r].status /\ rows[r].log = committed[r].log
      BY <1>1, <2>2 DEF Free, Clean, Run, Quiet
    <3>2. Present(rows[r])
      BY <2>2, <3>1 DEF Present
    <3>3. QED BY <1>2, <2>2, <3>1, <3>2
  <2>3. QED BY <2>1, <2>2
<1>6. Covered(s)'
  <2> SUFFICES ASSUME NEW k \in DOMAIN job[s].findings, k < at[s]
               PROVE  Kept(s, job[s].findings[k])'
    BY DEF Covered, Kept
  <2>1. PICK q \in Records :
          /\ holder[q] = s
          /\ \/ HasKey(rows[q], job[s].ds, job[s].findings[k])
             \/ /\ IsActiveCase(committed[q], job[s].ds, job[s].findings[k])
                /\ \E p \in Records \ {q} : HasKey(committed[p], job[s].ds, job[s].findings[k])
    BY <1>1 DEF Run, Covered, Kept
  <2>2. /\ holder'[q] = s
        /\ HasKey(rows[q], job[s].ds, job[s].findings[k]) =>
             HasKey(rows'[q], job[s].ds, job[s].findings[k])
    BY <1>2, <2>1
  <2>3. QED BY <2>1, <2>2 DEF Kept
<1>7. QED BY <1>2, <1>3, <1>4, <1>5, <1>6

(* The next finding comes later in the order than all s has locked, or the *)
(* run is through with its findings.                                       *)
LEMMA NextFindingRun ==
  ASSUME RunInv, NEW s \in Sessions, pc[s] \in Working, NextFinding(s)
  PROVE  /\ \A t \in Sessions \ {s} :
              pc'[t] = pc[t] /\ job'[t] = job[t] /\ at'[t] = at[t] /\ found'[t] = found[t]
         /\ job'[s] = job[s] /\ at'[s] = at[s] + 1 /\ pc'[s] \in {"findCase", "seed", "commit"}
         /\ pc'[s] = "findCase" => at'[s] \in DOMAIN job[s].findings
         /\ OnlyMoves(s)' /\ Through(s)' /\ OnCase(s)' /\ OnFound(s)' /\ Ordered(s)'
         /\ \A k \in DOMAIN job[s].findings : k < at'[s] => k < at[s] \/ k = at[s]
<1>1. TypeOK /\ Run(s)
  BY DEF RunInv, IInv, BaseInv
<1>2. /\ job' = job /\ job[s].findings \in Seq(Finding) /\ at[s] \in Nat /\ at'[s] = at[s] + 1
      /\ \A t \in Sessions \ {s} : pc'[t] = pc[t] /\ at'[t] = at[t] /\ found'[t] = found[t]
  BY <1>1 DEF TypeOK, Job, NextFinding, Continue
<1> DEFINE n == Len(job[s].findings)
<1>3. n \in Nat /\ DOMAIN job[s].findings = 1..n
  BY <1>2
<1>4. /\ pc'[s] \in {"findCase", "seed", "commit"}
      /\ pc'[s] = "findCase" => at[s] + 1 <= n
      /\ pc'[s] # "findCase" => ~(at[s] + 1 <= n)
      /\ pc'[s] = "seed" => job[s].kind = "bootstrap"
  <2>1. CASE at[s] + 1 <= n
    <3>1. pc'[s] = "findCase"
      BY <1>1, <2>1 DEF TypeOK, NextFinding, Continue
    <3>2. QED BY <2>1, <3>1
  <2>2. CASE ~(at[s] + 1 <= n)
    BY <1>1, <2>2 DEF TypeOK, NextFinding, Continue
  <2>3. QED BY <2>1, <2>2
<1> HIDE DEF n
<1>5. Through(s)'
  BY <1>2, <1>3, <1>4 DEF Through
<1>6. \A k \in DOMAIN job[s].findings : k < at'[s] => k < at[s] \/ k = at[s]
  BY <1>2, <1>3
<1>7. Ordered(s)' /\ OnlyMoves(s)' /\ OnCase(s)' /\ OnFound(s)'
  BY <1>1, <1>2, <1>4 DEF Run, Ordered, OnlyMoves, OnCase, OnFound
<1>8. pc'[s] = "findCase" => at'[s] \in DOMAIN job[s].findings
  BY <1>2, <1>3, <1>4
<1>9. QED BY <1>2, <1>4, <1>5, <1>6, <1>7, <1>8

LEMMA NextUpwards ==
  ASSUME RunInv, NEW s \in Sessions, pc[s] \in Working, NextFinding(s),
         \A r \in Records : holder'[r] = s =>
           /\ Present(rows'[r]) /\ rows'[r].ds = job[s].ds /\ rows'[r].issue \in Issues
           /\ Position(rows'[r].issue) <= Rank(s)
  PROVE  Upwards(s)'
<1>1. TypeOK /\ Ready(s) /\ Run(s)
  BY DEF RunInv, IInv, BaseInv
<1>2. /\ job'[s] = job[s] /\ at'[s] = at[s] + 1 /\ pc'[s] \in {"findCase", "seed", "commit"}
      /\ pc'[s] = "findCase" => at'[s] \in DOMAIN job[s].findings
  BY NextFindingRun
<1>3. at[s] \in Nat /\ at[s] \in DOMAIN job[s].findings
  BY <1>1 DEF TypeOK, Ready
<1>4. ASSUME pc'[s] = "findCase", NEW r \in Records, holder'[r] = s
      PROVE  Position(rows'[r].issue) < Rank(s)'
  <2>1. Rank(s) < Position(job[s].findings[at'[s]].issue)
    BY <1>1, <1>2, <1>3, <1>4 DEF Run, Ordered, Rank, Current
  <2>2. Rank(s)' = Position(job[s].findings[at'[s]].issue)
    BY <1>2 DEF Rank, Current
  <2>3. /\ Position(job[s].findings[at'[s]].issue) \in Nat /\ Rank(s) \in Nat
        /\ Position(rows'[r].issue) \in Nat
    BY <1>1, <1>2, <1>4, FindingOf, PositionOf, RankOf
  <2>4. QED BY <1>4, <2>1, <2>2, <2>3
<1>5. QED BY <1>2, <1>4 DEF Upwards, Working

LEMMA ReadRun ==
  ASSUME RunInv, NEW s \in Sessions, FindCase(s) \/ FindKey(s)
  PROVE  Lasting' /\ \A t \in Sessions : Run(t)'
<1>1. TypeOK /\ Lasting /\ Run(s) /\ Ready(s)
  BY DEF RunInv, IInv, BaseInv
<1>2. /\ UNCHANGED <<rows, holder, committed, job, at>>
      /\ pc[s] \in {"findCase", "findKey"}
      /\ pc'[s] \in {"lockCase", "findKey", "lockKey", "insert"}
      /\ pc[s] = "findCase" => pc'[s] \in {"lockCase", "findKey"}
      /\ pc[s] = "findKey" => pc'[s] \in {"lockKey", "insert"}
      /\ \A t \in Sessions \ {s} : pc'[t] = pc[t] /\ found'[t] = found[t]
  BY <1>1 DEF TypeOK, FindCase, FindKey, Select
<1>3. \A t \in Sessions \ {s} : Run(t)'
  BY <1>2, OthersRun
<1>4. Current(s)' = Current(s) /\ Rank(s)' = Rank(s) /\ pc[s] \in Working
  BY <1>2 DEF Current, Rank, Working
<1>5. Upwards(s)'
  <2> SUFFICES ASSUME NEW r \in Records, holder[r] = s
               PROVE  /\ Present(rows[r]) /\ rows[r].ds = job[s].ds /\ rows[r].issue \in Issues
                      /\ Position(rows[r].issue) < Rank(s) \/ Lost(s, r)'
    BY <1>2, <1>4 DEF Upwards
  <2>1. /\ Present(rows[r]) /\ rows[r].ds = job[s].ds /\ rows[r].issue \in Issues
        /\ Position(rows[r].issue) < Rank(s) \/ Lost(s, r)
    BY <1>1, <1>4 DEF Run, Upwards
  <2>2. pc'[s] = "findKey" => ~Lost(s, r)
    BY <1>2 DEF Lost
  <2>3. Lost(s, r) => Lost(s, r)'
    BY <1>2, <1>4, <2>2 DEF Lost
  <2>4. QED BY <2>1, <2>3
<1>6. OnFound(s)'
  <2> SUFFICES ASSUME pc'[s] \in {"lockCase", "lockKey"}
               PROVE  OfCurrent(s, Seen(s, found[s]))'
    BY DEF OnFound
  <2>1. \/ IsActiveCase(Seen(s, found'[s]), job[s].ds, Current(s))
        \/ HasKey(Seen(s, found'[s]), job[s].ds, Current(s))
    BY <1>1 DEF TypeOK, FindCase, FindKey, Select, Owners
  <2>2. OfCurrent(s, Seen(s, found'[s]))
    BY <2>1 DEF OfCurrent, IsActiveCase, HasKey, Present, Active, ActiveStatuses
  <2>3. QED BY <1>2, <1>4, <2>2 DEF OfCurrent, Seen
<1>7. Lasting' /\ HoldsNothing(s)' /\ OnlyMoves(s)' /\ Quiet(s)' /\ Through(s)' /\ OnCase(s)'
  BY <1>1, <1>2 DEF Lasting, Run, HoldsNothing, OnlyMoves, Quiet, Through, OnCase
<1>8. Covered(s)' /\ Ordered(s)'
  BY <1>1, <1>2 DEF Run, Covered, Kept, Ordered
<1>9. QED BY <1>3, <1>5, <1>6, <1>7, <1>8 DEF Run

(* A statement that locks a record without changing it, or has it locked.  *)
LEMMA LockRun ==
  ASSUME RunInv, NEW s \in Sessions,
         Refresh(s) \/ CaseGone(s) \/ Skip(s) \/ KeyGone(s) \/ KeepKey(s) \/ TakeKey(s)
  PROVE  Lasting' /\ \A t \in Sessions : Run(t)'
<1> DEFINE r == found[s]
           ds == job[s].ds
           now == Current(s)
<1>1. TypeOK /\ Clean /\ Ready(s) /\ Run(s) /\ Lasting
  BY DEF RunInv, IInv, BaseInv
<1>2. pc[s] \in {"lockCase", "lockKey", "findOwner"} /\ pc[s] \in Working
  BY DEF Refresh, CaseGone, Skip, KeyGone, KeepKey, TakeKey, Working
<1>3. r \in Records /\ rows[r] \in Row /\ at[s] \in Nat
  BY <1>1, <1>2 DEF Ready, TypeOK
<1>4. Free(s, r) /\ Write(s, r, rows[r]) /\ committed' = committed
  <2>1. CASE Refresh(s) \/ CaseGone(s) \/ Skip(s) \/ KeyGone(s)
    BY <2>1 DEF Refresh, CaseGone, Skip, KeyGone, Gone, NextFinding
  <2>2. CASE KeepKey(s) \/ TakeKey(s)
    <3>1. holder[r] = s
      BY <1>1, <2>2 DEF Run, OnCase, KeepKey, TakeKey
    <3>2. rows' = rows /\ holder' = holder /\ committed' = committed
      BY <2>2 DEF KeepKey, TakeKey, NextFinding
    <3>3. QED BY <1>1, <1>3, <3>1, <3>2 DEF Free, Write, TypeOK
  <2>3. QED BY <2>1, <2>2
<1>5. /\ rows' = rows /\ holder'[r] = s
      /\ \A q \in Records \ {r} : holder'[q] = holder[q]
  <2>1. rows' = rows
    BY <1>1, <1>3, <1>4 DEF Write, TypeOK
  <2> HIDE DEF r
  <2>2. QED BY <1>1, <1>3, <1>4, <2>1, Written
<1>6. \A t \in Sessions \ {s} :
        pc'[t] = pc[t] /\ job'[t] = job[t] /\ at'[t] = at[t] /\ found'[t] = found[t]
  <2>1. CASE NextFinding(s)
    BY <1>2, <2>1, NextFindingRun
  <2>2. CASE ~NextFinding(s)
    BY <1>1, <2>2 DEF Refresh, CaseGone, Skip, KeyGone, Gone, KeepKey, TakeKey, TypeOK
  <2>3. QED BY <2>1, <2>2
\* the record stands for the issue, and is held in no other version
<1>7. OfCurrent(s, rows[r])
  <2>1. CASE pc[s] \in {"lockCase", "lockKey"}
    BY <1>1, <1>3, <1>4, <2>1 DEF Run, OnFound, Seen, Free, Clean
  <2>2. CASE pc[s] = "findOwner"
    BY <1>1, <2>2 DEF Run, OnCase, IsActiveCase, OfCurrent, Present, Active, ActiveStatuses
  <2>3. QED BY <1>2, <2>1, <2>2
<1>8. /\ Rank(s) \in Nat /\ now.issue \in Issues
      /\ Position(rows[r].issue) = Rank(s)
  BY <1>1, <1>2, <1>7, RankOf DEF OfCurrent, Rank
<1>9. rows[r] = committed[r]
  <2>1. CASE holder[r] = s
    BY <1>1, <1>2, <1>3, <1>8, <2>1 DEF Run, Upwards, Lost
  <2>2. CASE holder[r] # s
    BY <1>1, <1>3, <1>4, <2>2 DEF Free, Clean
  <2>3. QED BY <2>1, <2>2
<1>10. \A q \in Records : holder[q] = s =>
         /\ Present(rows[q]) /\ rows[q].ds = ds /\ rows[q].issue \in Issues
         /\ Position(rows[q].issue) < Rank(s) \/ Lost(s, q)
  BY <1>1, <1>2 DEF Run, Upwards
<1>11. ASSUME NEW q \in Records, holder'[q] = s
       PROVE  /\ Present(rows'[q]) /\ rows'[q].ds = ds /\ rows'[q].issue \in Issues
              /\ q = r \/ (holder[q] = s /\ rows'[q] = rows[q])
  <2> HIDE DEF r
  <2>1. CASE q = r
    BY <1>5, <1>7, <1>8, <2>1 DEF OfCurrent
  <2>2. CASE q # r
    BY <1>5, <1>10, <1>11, <2>2
  <2>3. QED BY <2>1, <2>2
<1>12. Keeps(committed[r], rows[r])
  BY <1>1, <1>3 DEF Lasting
<1>13. CASE NextFinding(s)
  <2>1. /\ job'[s] = job[s] /\ pc'[s] # "idle" /\ at'[s] # at[s]
        /\ OnlyMoves(s)' /\ Through(s)' /\ OnCase(s)' /\ OnFound(s)' /\ Ordered(s)'
        /\ \A k \in DOMAIN job[s].findings : k < at'[s] => k < at[s] \/ k = at[s]
    BY <1>2, <1>3, <1>13, NextFindingRun
  <2>2. ASSUME NEW q \in Records, holder'[q] = s
        PROVE  /\ Present(rows'[q]) /\ rows'[q].ds = ds /\ rows'[q].issue \in Issues
               /\ Position(rows'[q].issue) <= Rank(s)
    <3> HIDE DEF r
    <3>1. CASE q = r
      BY <1>5, <1>8, <1>11, <2>2, <3>1
    <3>2. CASE q # r
      <4>1. holder[q] = s /\ rows'[q] = rows[q]
        BY <1>11, <2>2, <3>2
      <4>2. Position(rows[q].issue) < Rank(s) \/ Position(rows[q].issue) = Rank(s)
        BY <1>10, <4>1 DEF Lost, Rank
      <4>3. Position(rows'[q].issue) \in Nat
        BY <1>11, <2>2, PositionOf
      <4>4. QED BY <1>8, <1>11, <2>2, <4>1, <4>2, <4>3
    <3>3. QED BY <3>1, <3>2
  <2>3. Upwards(s)'
    BY <1>2, <1>13, <2>2, NextUpwards
  <2>4. \E p \in Records :
          /\ holder'[p] = s
          /\ \/ HasKey(rows[p], ds, now)
             \/ /\ IsActiveCase(committed[p], ds, now)
                /\ \E q \in Records \ {p} : HasKey(committed[q], ds, now)
    <3>1. ~CaseGone(s) /\ ~KeyGone(s) /\ ~TakeKey(s)
      BY <1>1, <2>1 DEF CaseGone, KeyGone, Gone, TakeKey
    <3>2. CASE Refresh(s) \/ Skip(s)
      <4>1. HasKey(rows[r], ds, now)
        BY <1>1, <2>1, <3>2 DEF Refresh, Skip
      <4>2. QED BY <1>3, <1>5, <4>1
    <3>3. CASE KeepKey(s)
      <4>1. PICK q \in Records : HasKey(Seen(s, q), ds, now)
        BY <3>3 DEF KeepKey, Owners
      <4>2. IsActiveCase(committed[r], ds, now) /\ holder[r] = s
        BY <1>1, <3>3 DEF KeepKey, Run, OnCase
      <4> HIDE DEF r
      <4>3. CASE holder[q] = s
        BY <1>5, <4>1, <4>3 DEF Seen
      <4>4. CASE holder[q] # s
        BY <1>3, <1>5, <4>1, <4>2, <4>4 DEF Seen
      <4>5. QED BY <4>3, <4>4
    <3>4. QED BY <3>1, <3>2, <3>3
  <2>5. \A k \in DOMAIN job[s].findings : k < at'[s] =>
          k < at[s] \/ Kept(s, job[s].findings[k])'
    BY <1>4, <1>5, <2>1, <2>4 DEF Kept, Current
  <2> HIDE DEF r
  <2>6. Lasting' /\ (\A t \in Sessions \ {s} : Run(t)') /\ HoldsNothing(s)' /\ Quiet(s)'
        /\ Covered(s)'
    BY <1>3, <1>4, <1>6, <1>12, <2>1, <2>5, WriteRun
  <2>7. QED BY <2>1, <2>3, <2>6 DEF Run
<1>14. CASE ~NextFinding(s)
  <2>1. /\ job' = job /\ at' = at
        /\ \/ pc'[s] \in {"findOwner", "adopt"} /\ found'[s] = r
              /\ IsActiveCase(rows[r], ds, now)
           \/ pc'[s] = "insert"
           \/ pc'[s] = "findKey" /\ CaseGone(s)
    BY <1>1, <1>14 DEF Refresh, CaseGone, Skip, KeyGone, Gone, KeepKey, TakeKey, TypeOK, Run, OnCase
  <2>2. Current(s)' = Current(s) /\ Rank(s)' = Rank(s)
    BY <2>1 DEF Current, Rank
  <2>3. pc'[s] = "findKey" => pc[s] = "lockCase" /\ ~Active(rows[r])
    BY <1>7, <2>1 DEF CaseGone, IsActiveCase, OfCurrent
  <2>4. OnCase(s)'
    BY <1>4, <1>5, <1>9, <2>1, <2>2 DEF OnCase
  <2> HIDE DEF r
  <2>5. ASSUME NEW q \in Records, holder'[q] = s
        PROVE  Position(rows'[q].issue) < Rank(s) \/ Lost(s, q)'
    <3>1. CASE q = r
      BY <1>4, <1>5, <1>7, <1>9, <2>1, <2>2, <2>3, <3>1 DEF Lost, OfCurrent
    <3>2. CASE q # r
      <4>1. holder[q] = s /\ rows'[q] = rows[q]
        BY <1>11, <2>5, <3>2
      <4>2. CASE Position(rows[q].issue) < Rank(s)
        BY <4>1, <4>2
      <4>3. CASE Lost(s, q)
        BY <1>4, <2>1, <2>2, <2>3, <4>1, <4>3 DEF Lost
      <4>4. QED BY <1>10, <4>1, <4>2, <4>3
    <3>3. QED BY <3>1, <3>2
  <2>6. Upwards(s)'
    BY <1>11, <2>1, <2>2, <2>5 DEF Upwards
  <2>7. OnlyMoves(s)' /\ Through(s)' /\ OnFound(s)' /\ Ordered(s)'
    BY <1>1, <2>1 DEF Run, OnlyMoves, Through, OnFound, Ordered
  <2>8. pc'[s] # "idle"
    BY <2>1
  <2>9. Lasting' /\ (\A t \in Sessions \ {s} : Run(t)') /\ HoldsNothing(s)' /\ Quiet(s)'
        /\ Covered(s)'
    BY <1>3, <1>4, <1>6, <1>12, <2>1, <2>8, WriteRun
  <2>10. QED BY <2>4, <2>6, <2>7, <2>9 DEF Run
<1>15. QED BY <1>13, <1>14

(* A finding is written: a new record or the new facts of an active one.   *)
LEMMA FindingRun ==
  ASSUME RunInv, NEW s \in Sessions, Adopt(s) \/ Insert(s)
  PROVE  Lasting' /\ \A t \in Sessions : Run(t)'
<1> DEFINE ds == job[s].ds
           now == Current(s)
<1>1. TypeOK /\ Ready(s) /\ Run(s) /\ Lasting
  BY DEF RunInv, IInv, BaseInv
<1>2. pc[s] \in Working /\ NextFinding(s) /\ committed' = committed
  BY DEF Adopt, Insert, Working, NextFinding
<1>3. /\ now \in Finding /\ ds \in Datasets \cup {None}
      /\ Rank(s) \in Nat /\ now.issue \in Issues
  BY <1>1, <1>2, CurrentFinding, RankOf
<1>4. \E r \in Records, row \in Row :
        /\ Free(s, r) /\ Write(s, r, row) /\ Keeps(committed[r], row) /\ HasKey(row, ds, now)
        /\ Present(rows[r]) =>
             /\ row.status = rows[r].status /\ row.log = rows[r].log
             /\ rows[r].issue = now.issue
  <2>1. CASE Adopt(s)
    <3> DEFINE r == found[s]
               row == AdoptedRow(s)
    <3>1. /\ r \in Records /\ holder[r] = s /\ rows[r] \in Row /\ rows[r] = committed[r]
          /\ IsActiveCase(rows[r], ds, now)
      BY <1>1, <2>1 DEF Adopt, Ready, Run, OnCase, TypeOK
    <3>2. /\ row \in Row /\ row.status = rows[r].status /\ row.log = rows[r].log
          /\ row.ds = rows[r].ds /\ row.issue = rows[r].issue /\ row.facts = now.facts
      BY <1>3, <3>1, AdoptedInRow DEF AdoptedRow, Adopted, Row
    <3>3. Free(s, r) /\ Write(s, r, row)
      BY <2>1, <3>1 DEF Adopt, Free
    <3> HIDE DEF r, row, now, ds
    <3>4. Keeps(committed[r], row) /\ HasKey(row, ds, now) /\ rows[r].issue = now.issue
      BY <3>1, <3>2 DEF Keeps, HasKey, IsActiveCase, Present, Active, ActiveStatuses
    <3>5. QED BY <3>1, <3>2, <3>3, <3>4
  <2>2. CASE Insert(s)
    <3>1. PICK r \in Unused : Write(s, r, NewRow(s))
      BY <2>2 DEF Insert
    <3>2. r \in Records /\ Free(s, r) /\ ~Present(rows[r])
      BY DEF Unused, Free
    <3>3. NewRow(s) \in Row
      BY <1>3, CreatedRow DEF NewRow
    <3>4. Keeps(committed[r], NewRow(s))
      BY <1>1, <3>2 DEF Lasting, Keeps
    <3>5. HasKey(NewRow(s), ds, now)
      BY DEF HasKey, NewRow, Created, Present
    <3>6. QED BY <3>1, <3>2, <3>3, <3>4, <3>5
  <2>3. QED BY <2>1, <2>2
<1>5. PICK r \in Records, row \in Row :
        /\ Free(s, r) /\ Write(s, r, row) /\ Keeps(committed[r], row) /\ HasKey(row, ds, now)
        /\ Present(rows[r]) =>
             /\ row.status = rows[r].status /\ row.log = rows[r].log
             /\ rows[r].issue = now.issue
  BY <1>4
<1>6. /\ \A t \in Sessions \ {s} :
           pc'[t] = pc[t] /\ job'[t] = job[t] /\ at'[t] = at[t] /\ found'[t] = found[t]
      /\ job'[s] = job[s] /\ pc'[s] # "idle"
      /\ OnlyMoves(s)' /\ Through(s)' /\ OnCase(s)' /\ OnFound(s)' /\ Ordered(s)'
      /\ \A k \in DOMAIN job[s].findings : k < at'[s] => k < at[s] \/ k = at[s]
  BY <1>2, NextFindingRun
<1>7. rows'[r] = row /\ holder'[r] = s
  BY <1>1, <1>5, Written
<1>8. \A k \in DOMAIN job[s].findings :
        k < at[s] => ~HasKey(rows[r], ds, job[s].findings[k])
  BY <1>2, <1>5, PastIssues DEF HasKey
<1>9. \A k \in DOMAIN job[s].findings : k < at'[s] =>
        k < at[s] \/ Kept(s, job[s].findings[k])'
  BY <1>5, <1>6, <1>7 DEF Kept, Current
<1>10. /\ \A q \in Records \ {r} : rows'[q] = rows[q] /\ holder'[q] = holder[q]
       /\ Lasting' /\ (\A t \in Sessions \ {s} : Run(t)')
       /\ HoldsNothing(s)' /\ Quiet(s)' /\ Covered(s)'
  BY <1>2, <1>5, <1>6, <1>8, <1>9, WriteRun
<1>11. ASSUME NEW q \in Records, holder'[q] = s
       PROVE  /\ Present(rows'[q]) /\ rows'[q].ds = ds /\ rows'[q].issue \in Issues
              /\ Position(rows'[q].issue) <= Rank(s)
  <2>1. CASE q = r
    BY <1>3, <1>5, <1>7, <2>1 DEF HasKey, Rank
  <2>2. CASE q # r
    <3>1. holder[q] = s /\ rows'[q] = rows[q]
      BY <1>10, <1>11, <2>2
    <3>2. /\ Present(rows[q]) /\ rows[q].ds = ds /\ rows[q].issue \in Issues
          /\ Position(rows[q].issue) < Rank(s) \/ Position(rows[q].issue) = Rank(s)
      BY <1>1, <1>2, <3>1 DEF Run, Upwards, Lost, Rank
    <3>3. Position(rows[q].issue) \in Nat
      BY <3>2, PositionOf
    <3>4. QED BY <1>3, <3>1, <3>2, <3>3
  <2>3. QED BY <2>1, <2>2
<1>12. Upwards(s)'
  BY <1>2, <1>11, NextUpwards
<1>13. QED BY <1>6, <1>10, <1>12 DEF Run

(* The bootstrap reads its samples, after its findings. *)
LEMMA SeedRun ==
  ASSUME RunInv, NEW s \in Sessions, Seed(s)
  PROVE  Lasting' /\ \A t \in Sessions : Run(t)'
<1>1. TypeOK /\ Run(s) /\ Lasting
  BY DEF RunInv, IInv, BaseInv
<1>2. /\ UNCHANGED <<rows, holder, committed, job, at, found>> /\ pc[s] = "seed"
      /\ pc'[s] \in {"commit", "transition"} /\ \A t \in Sessions \ {s} : pc'[t] = pc[t]
  BY <1>1 DEF Seed, TypeOK
<1>3. \A t \in Sessions \ {s} : Run(t)'
  BY <1>2, OthersRun
<1>4. Lasting' /\ HoldsNothing(s)' /\ OnlyMoves(s)' /\ Quiet(s)' /\ Through(s)'
  BY <1>1, <1>2 DEF Run, Lasting, HoldsNothing, OnlyMoves, Quiet, Through
<1>5. Covered(s)' /\ Ordered(s)'
  BY <1>1, <1>2 DEF Run, Covered, Kept, Ordered
<1>6. OnCase(s)' /\ OnFound(s)' /\ Upwards(s)'
  BY <1>2 DEF OnCase, OnFound, Upwards, Working
<1>7. QED BY <1>3, <1>4, <1>5, <1>6 DEF Run

(* A transition leaves a record its key, whatever status it takes it for.  *)
LEMMA TransitionRun ==
  ASSUME RunInv, NEW s \in Sessions, Transition(s)
  PROVE  Lasting' /\ \A t \in Sessions : Run(t)'
<1> DEFINE r == Rec(s)
           row == MovedRow(s)
<1>1. TypeOK /\ Clean /\ Ready(s) /\ Run(s) /\ Lasting
  BY DEF RunInv, IInv, BaseInv
<1>2. /\ pc[s] = "transition" /\ pc'[s] \in {"commit", "transition"}
      /\ Write(s, r, row) /\ Free(s, r)
      /\ UNCHANGED <<committed, job, at, found>>
      /\ \A t \in Sessions \ {s} : pc'[t] = pc[t]
  BY <1>1 DEF Transition, TypeOK
<1>3. /\ todo[s] # <<>> /\ r \in Records /\ Goal(s) \in Statuses /\ From(s) \in Statuses
      /\ rows[r] \in Row
  BY <1>1, <1>2, TaskFacts DEF Ready, Transition, TypeOK
<1>4. row \in Row
  BY <1>1, <1>3, MovedInRow DEF MovedRow
<1>5. /\ row.status = Goal(s) /\ row.ds = rows[r].ds /\ row.issue = rows[r].issue
      /\ row.facts = rows[r].facts
  BY <1>3 DEF MovedRow, Moved, Row
<1>6. Present(row)
  BY <1>3, <1>5 DEF Present, Statuses, ActiveStatuses, TerminalStatuses
<1> HIDE DEF r, row
<1>7. Keeps(committed[r], row)
  BY <1>1, <1>3, <1>5, <1>6 DEF Lasting, Keeps
<1>8. \A k \in DOMAIN job[s].findings :
        HasKey(rows[r], job[s].ds, job[s].findings[k]) =>
          HasKey(row, job[s].ds, job[s].findings[k])
  BY <1>5, <1>6 DEF HasKey
<1>9. job[s].kind # "detect"
  BY <1>1, <1>2 DEF Run, OnlyMoves
<1>10. Lasting' /\ (\A t \in Sessions \ {s} : Run(t)') /\ HoldsNothing(s)' /\ Quiet(s)'
       /\ Covered(s)'
  BY <1>2, <1>3, <1>4, <1>7, <1>8, <1>9, WriteRun
<1>11. OnlyMoves(s)' /\ Through(s)' /\ OnCase(s)' /\ OnFound(s)' /\ Ordered(s)' /\ Upwards(s)'
  BY <1>1, <1>2 DEF Run, OnlyMoves, Through, OnCase, OnFound, Ordered, Upwards, Working
<1>12. QED BY <1>10, <1>11 DEF Run

LEMMA InitRun == Init => RunInv
<1> SUFFICES ASSUME Init PROVE RunInv
  OBVIOUS
<1>1. Lasting
  BY DEF Init, Lasting, Keeps
<1>2. ASSUME NEW s \in Sessions PROVE Run(s)
  <2>1. pc[s] = "idle" /\ job[s].findings = <<>> /\ job[s].kind = "none"
        /\ \A r \in Records : holder[r] # s
    BY EngineAssumption DEF Init, Idle
  <2>2. QED
    BY <2>1 DEF Run, HoldsNothing, OnlyMoves, Quiet, Covered, Through, OnCase, OnFound,
                Ordered, Upwards, Working
<1>3. QED BY <1>1, <1>2, InitInv DEF RunInv

LEMMA StepRun == RunInv /\ [Next]_vars => RunInv'
<1> SUFFICES ASSUME RunInv, [Next]_vars PROVE RunInv'
  OBVIOUS
<1>1. IInv'
  BY StepInv DEF RunInv
<1>2. Lasting' /\ \A t \in Sessions : Run(t)'
  <2>1. CASE UNCHANGED vars \/ \E d \in Datasets : Repoint(d)
    BY <2>1 DEF RunInv, Repoint, vars, Lasting, Run, HoldsNothing, OnlyMoves, Quiet, Covered,
                Kept, Through, OnCase, OnFound, OfCurrent, Seen, Ordered, Upwards, Lost, Rank,
                Current
  <2>2. ASSUME NEW s \in Sessions,
               \/ \E kind \in Kinds, fs \in Reports : StartRun(s, kind, fs)
               \/ \E r \in Records, to \in Statuses : StartPatch(s, r, to)
        PROVE  Lasting' /\ \A t \in Sessions : Run(t)'
    BY <2>2, StartRunRun
  <2>3. ASSUME NEW s \in Sessions,
               \/ FindCase(s) \/ Refresh(s) \/ KeepKey(s) \/ TakeKey(s) \/ Adopt(s)
               \/ CaseGone(s) \/ FindKey(s) \/ Skip(s) \/ KeyGone(s) \/ Insert(s)
               \/ Seed(s) \/ Transition(s)
        PROVE  Lasting' /\ \A t \in Sessions : Run(t)'
    BY <2>3, ReadRun, LockRun, FindingRun, SeedRun, TransitionRun
  <2>4. ASSUME NEW s \in Sessions,
               \/ AdoptFails(s) \/ InsertFails(s) \/ TransitionFails(s)
               \/ DeadlockDetected(s) \/ Commit(s) \/ Crash(s)
        PROVE  Lasting' /\ \A t \in Sessions : Run(t)'
    <3>1. PICK keep \in BOOLEAN : End(s, keep)
      BY <2>4 DEF AdoptFails, InsertFails, TransitionFails, DeadlockDetected, Commit, Crash
    <3>2. QED BY <3>1, EndRun
  <2>5. QED BY <2>1, <2>2, <2>3, <2>4 DEF Next, AllDone
<1>3. QED BY <1>1, <1>2 DEF RunInv

-----------------------------------------------------------------------------
(* What a commit publishes of a run: lifecycles as they were, and a record *)
(* with the key of every finding.                                          *)
LEMMA CommitRun ==
  ASSUME RunInv, NEW s \in Sessions, Commit(s)
  PROVE  /\ job[s].kind = "detect" =>
              \A r \in Records : Present(committed[r]) =>
                committed'[r].status = committed[r].status /\ committed'[r].log = committed[r].log
         /\ \A k \in DOMAIN job[s].findings : \E r \in Records :
              HasKey(committed'[r], job[s].ds, job[s].findings[k])
<1>1. TypeOK /\ NoClash /\ Lasting /\ Run(s) /\ pc[s] = "commit"
  BY DEF RunInv, IInv, BaseInv, Commit
<1>2. \A r \in Records : committed'[r] = IF holder[r] = s THEN rows[r] ELSE committed[r]
  BY <1>1 DEF TypeOK, Commit, End, Seen
<1>3. ASSUME NEW k \in DOMAIN job[s].findings
      PROVE  \E r \in Records : HasKey(committed'[r], job[s].ds, job[s].findings[k])
  <2> DEFINE d == job[s].ds
             f == job[s].findings[k]
  <2>1. PICK r \in Records :
          /\ holder[r] = s
          /\ \/ HasKey(rows[r], d, f)
             \/ /\ IsActiveCase(committed[r], d, f)
                /\ \E q \in Records \ {r} : HasKey(committed[q], d, f)
    BY <1>1 DEF Run, Through, Covered, Kept
  <2> HIDE DEF d, f
  <2>2. CASE HasKey(rows[r], d, f)
    BY <1>2, <2>1, <2>2 DEF d, f
  <2>3. ASSUME IsActiveCase(committed[r], d, f), NEW q \in Records \ {r},
               HasKey(committed[q], d, f)
        PROVE  HasKey(committed'[q], d, f)
    <3>1. Apart(committed[r], committed[q]) /\ Present(committed[r])
      BY <1>1, <2>3 DEF NoClash, IsActiveCase, Present, Active, ActiveStatuses
    <3>2. ~Active(committed[q])
      BY <2>3, <3>1 DEF Apart, Collide, HasKey, IsActiveCase
    <3>3. QED BY <1>1, <1>2, <2>3, <3>2 DEF Lasting, Keeps, HasKey
  <2>4. QED BY <2>1, <2>2, <2>3 DEF d, f
<1>4. QED BY <1>1, <1>2, <1>3 DEF Run, Quiet

(* A committed run refreshes active findings without changing lifecycle    *)
(* state or adding history noise (README.md:158).                          *)
THEOREM QuietRuns == Spec => RefreshIsQuiet
<1> DEFINE Quietly ==
      \A s \in Sessions : Commit(s) /\ job[s].kind = "detect" =>
        \A r \in Records : Present(committed[r]) =>
          committed'[r].status = committed[r].status /\ committed'[r].log = committed[r].log
<1>1. RunInv /\ [Next]_vars => RunInv'
  BY StepRun
<1>2. RunInv /\ [Next]_vars => [Quietly]_vars
  BY CommitRun
<1> HIDE DEF Quietly
<1>3. Spec => [][Quietly]_vars
  BY <1>1, <1>2, InitRun, PTL DEF Spec
<1>4. QED BY <1>3 DEF RefreshIsQuiet, Quietly

(* A committed run leaves each of its findings with a record of its        *)
(* dataset that has just these facts (service.py:75-115).                  *)
THEOREM CoveredRuns == Spec => FindingsAreCovered
<1> DEFINE Covering ==
      \A s \in Sessions : Commit(s) =>
        \A k \in DOMAIN job[s].findings : \E r \in Records :
          /\ committed'[r].ds = job[s].ds
          /\ committed'[r].issue = job[s].findings[k].issue
          /\ committed'[r].facts = job[s].findings[k].facts
<1>1. RunInv /\ [Next]_vars => RunInv'
  BY StepRun
<1>2. RunInv /\ [Next]_vars => [Covering]_vars
  BY CommitRun DEF HasKey
<1> HIDE DEF Covering
<1>3. Spec => [][Covering]_vars
  BY <1>1, <1>2, InitRun, PTL DEF Spec
<1>4. QED BY <1>3 DEF FindingsAreCovered, Covering

(***************************************************************************)
(* Who waits for whom.  A run locks records in the order of its findings,  *)
(* so a cycle of sessions can only close over a record that one of them    *)
(* selected as an active case and found settled when it got the lock.      *)
(***************************************************************************)

\* a status change holds its one record when it has nothing left to do
HoldsNoneYet(s) == pc[s] = "transition" => \A r \in Records : holder[r] # s

ClimbInv == LifeInv /\ RunInv /\ \A s \in Sessions : HoldsNoneYet(s)

LEMMA InitClimbs == Init => ClimbInv
  BY InitLife, InitRun DEF ClimbInv, Init, HoldsNoneYet

LEMMA StepClimbs == ClimbInv /\ "bootstrap" \notin Kinds /\ [Next]_vars => ClimbInv'
<1> SUFFICES ASSUME ClimbInv, "bootstrap" \notin Kinds, [Next]_vars PROVE ClimbInv'
  OBVIOUS
<1>1. LifeInv' /\ RunInv'
  BY StepLife, StepRun DEF ClimbInv
<1>2. TypeOK /\ (\A s \in Sessions : Ready(s) /\ Run(s)) /\ SessionInv
  BY DEF ClimbInv, RunInv, LifeInv, IInv, BaseInv
<1>3. \A s \in Sessions : HoldsNoneYet(s)'
  <2>1. CASE UNCHANGED vars \/ \E d \in Datasets : Repoint(d)
    BY <2>1 DEF ClimbInv, Repoint, vars, HoldsNoneYet
  \* who takes no lock does not begin a transition; the others are left alone
  <2>2. ASSUME NEW s \in Sessions,
               \A t \in Sessions \ {s} : pc'[t] = pc[t],
               \A t \in Sessions \ {s}, r \in Records : holder'[r] = t => holder[r] = t,
               pc'[s] # "transition" \/ \A r \in Records : holder'[r] # s
        PROVE  \A t \in Sessions : HoldsNoneYet(t)'
    BY <2>2 DEF ClimbInv, HoldsNoneYet
  <2>3. ASSUME NEW s \in Sessions,
               \/ \E kind \in Kinds, fs \in Reports : StartRun(s, kind, fs)
               \/ \E r \in Records, to \in Statuses : StartPatch(s, r, to)
        PROVE  \A t \in Sessions : HoldsNoneYet(t)'
    <3>1. holder' = holder /\ pc[s] = "idle" /\ \A t \in Sessions \ {s} : pc'[t] = pc[t]
      BY <1>2, <2>3 DEF StartRun, StartPatch, Continue, TypeOK
    <3>2. \A r \in Records : holder'[r] # s
      BY <1>2, <3>1 DEF Run, HoldsNothing
    <3>3. QED BY <2>2, <3>1, <3>2
  <2>4. ASSUME NEW s \in Sessions, NextFinding(s), pc[s] \in Working,
               \A t \in Sessions \ {s}, r \in Records : holder'[r] = t => holder[r] = t
        PROVE  \A t \in Sessions : HoldsNoneYet(t)'
    <3>1. pc'[s] # "transition" /\ \A t \in Sessions \ {s} : pc'[t] = pc[t]
      BY <2>4, NextFindingRun DEF ClimbInv
    <3>2. QED BY <2>2, <2>4, <3>1
  <2>5. ASSUME NEW s \in Sessions, NEW r \in Records, NEW row, Write(s, r, row),
               NEW t \in Sessions \ {s}, NEW q \in Records, holder'[q] = t
        PROVE  holder[q] = t
    BY <1>2, <2>5 DEF Write, TypeOK
  <2>6. ASSUME NEW s \in Sessions,
               \/ Refresh(s) \/ CaseGone(s) \/ Skip(s) \/ KeyGone(s) \/ Adopt(s) \/ Insert(s)
               \/ KeepKey(s) \/ TakeKey(s) \/ FindCase(s) \/ FindKey(s)
        PROVE  \A t \in Sessions : HoldsNoneYet(t)'
    <3>1. pc[s] \in Working
      BY <2>6 DEF Refresh, CaseGone, Skip, KeyGone, Adopt, Insert, KeepKey, TakeKey, FindCase,
                  FindKey, Working
    <3>2. holder' = holder \/ \E r \in Records : \E row : Write(s, r, row)
      <4>1. CASE Refresh(s) \/ CaseGone(s) \/ Skip(s) \/ KeyGone(s) \/ Adopt(s)
        <5>1. found[s] \in Records
          BY <1>2, <4>1 DEF Ready, Refresh, CaseGone, Skip, KeyGone, Adopt
        <5>2. \E row : Write(s, found[s], row)
          BY <4>1 DEF Refresh, CaseGone, Skip, KeyGone, Gone, Adopt
        <5>3. QED BY <5>1, <5>2
      <4>2. CASE Insert(s)
        BY <4>2 DEF Insert, Unused
      <4>3. CASE KeepKey(s) \/ TakeKey(s) \/ FindCase(s) \/ FindKey(s)
        BY <4>3 DEF KeepKey, TakeKey, FindCase, FindKey, Select
      <4>4. QED BY <2>6, <4>1, <4>2, <4>3
    <3>3. \A t \in Sessions \ {s}, r \in Records : holder'[r] = t => holder[r] = t
      BY <2>5, <3>2
    <3>4. CASE NextFinding(s)
      BY <2>4, <3>1, <3>3, <3>4
    <3>5. CASE ~NextFinding(s)
      <4>1. pc'[s] # "transition" /\ \A t \in Sessions \ {s} : pc'[t] = pc[t]
        BY <1>2, <2>6, <3>5 DEF Refresh, CaseGone, Skip, KeyGone, Gone, Adopt, Insert, KeepKey,
                                TakeKey, FindCase, FindKey, Select, TypeOK
      <4>2. QED BY <2>2, <3>3, <4>1
    <3>6. QED BY <3>4, <3>5
  <2>7. ASSUME NEW s \in Sessions PROVE ~Seed(s)
    BY <1>2 DEF SessionInv, NotSeeding, Seed
  <2>8. ASSUME NEW s \in Sessions, Transition(s)
        PROVE  \A t \in Sessions : HoldsNoneYet(t)'
    <3>1. todo[s] # <<>> /\ todo[s] \in Seq(Task) /\ Len(todo[s]) = 1
          /\ Len(Head(todo[s]).path) = 1
      BY <1>2, <2>8 DEF Transition, Ready, TypeOK, SessionInv, OneTask
    <3>2. Head(todo[s]) \in Task
      BY <3>1
    <3>3. Rec(s) \in Records /\ Head(todo[s]).path \in Seq(Statuses)
      BY <3>2 DEF Rec, Task, Path
    <3>4. Tail(Head(todo[s]).path) = <<>> /\ Tail(todo[s]) = <<>>
      BY <3>1, <3>3, LastOne
    <3>5. Rest(s) = <<>>
      BY <3>4 DEF Rest
    <3>6. pc'[s] = "commit" /\ \A t \in Sessions \ {s} : pc'[t] = pc[t]
      BY <1>2, <2>8, <3>5 DEF Transition, TypeOK
    <3>7. \A t \in Sessions \ {s}, r \in Records : holder'[r] = t => holder[r] = t
      BY <2>5, <2>8, <3>3 DEF Transition
    <3>8. QED BY <2>2, <3>6, <3>7
  <2>9. ASSUME NEW s \in Sessions,
               \/ AdoptFails(s) \/ InsertFails(s) \/ TransitionFails(s)
               \/ DeadlockDetected(s) \/ Commit(s) \/ Crash(s)
        PROVE  \A t \in Sessions : HoldsNoneYet(t)'
    <3>1. PICK keep \in BOOLEAN : End(s, keep)
      BY <2>9 DEF AdoptFails, InsertFails, TransitionFails, DeadlockDetected, Commit, Crash
    <3>2. /\ \A t \in Sessions \ {s} : pc'[t] = pc[t]
          /\ \A t \in Sessions \ {s}, r \in Records : holder'[r] = t => holder[r] = t
          /\ pc'[s] = "idle"
      BY <1>2, <3>1, EngineAssumption DEF End, Freed, TypeOK
    <3>3. QED BY <2>2, <3>2
  <2>10. QED BY <2>1, <2>3, <2>6, <2>7, <2>8, <2>9 DEF Next, AllDone
<1>4. QED BY <1>1, <1>3 DEF ClimbInv

\* s has locked a record for the issue it works on
HasLost(s) == \E r \in Records : holder[r] = s /\ rows[r].issue = Current(s).issue

Waits(s) == WaitsFor(s) # {}

LEMMA WaitsForOthers ==
  ASSUME TypeOK, \A t \in Sessions : Ready(t), NEW s \in Sessions
  PROVE  WaitsFor(s) \subseteq Sessions
<1> DEFINE Hold == {r \in Records : ~Free(s, r)}
<1>1. \A r \in Hold : holder[r] \in Sessions
  BY DEF TypeOK, Free
<1>2. pc[s] \in {"lockCase", "lockKey"} => {r \in {found[s]} : ~Free(s, r)} \subseteq Hold
  BY DEF Ready
<1>3. \A row, r : Pending(s, row, r) \subseteq Hold
  BY DEF Pending, InTheWay
<1>4. ASSUME pc[s] = "transition" PROVE Visible(s) /\ ~Free(s, Rec(s)) => Rec(s) \in Hold
  <2>1. todo[s] # <<>> /\ todo[s] \in Seq(Task)
    BY <1>4 DEF Ready, TypeOK
  <2>2. Head(todo[s]) \in Task
    BY <2>1
  <2>3. QED BY <2>2 DEF Rec, Task
<1> HIDE DEF Hold
<1>5. QED BY <1>1, <1>2, <1>3, <1>4 DEF WaitsFor

(* A waiting session waits for the holder of a record that stands for its  *)
(* issue.                                                                  *)
LEMMA WaitsForIssue ==
  ASSUME ClimbInv, NEW s \in Sessions, pc[s] \in Working, NEW t \in WaitsFor(s)
  PROVE  \E r \in Records :
           /\ holder[r] = t /\ rows[r].issue = Current(s).issue
           /\ pc[s] \in {"lockCase", "lockKey"} \/ rows[r] # committed[r]
<1>1. TypeOK /\ Lasting /\ Ready(s) /\ Run(s)
  BY DEF ClimbInv, RunInv, LifeInv, IInv, BaseInv
<1>2. Current(s) \in Finding /\ job[s].ds \in Datasets \cup {None}
  BY <1>1, CurrentFinding
<1>3. CASE pc[s] \in {"lockCase", "lockKey"}
  <2>1. found[s] \in Records /\ ~Free(s, found[s]) /\ holder[found[s]] = t
    BY <1>1, <1>3 DEF WaitsFor, Ready
  <2>2. OfCurrent(s, committed[found[s]])
    BY <1>1, <1>3, <2>1 DEF Run, OnFound, Seen, Free
  <2>3. rows[found[s]].issue = Current(s).issue
    BY <1>1, <2>1, <2>2 DEF Lasting, Keeps, OfCurrent
  <2>4. QED BY <1>3, <2>1, <2>3
<1>4. ASSUME NEW row, NEW q, NEW r \in Pending(s, row, q), row.issue = Current(s).issue
      PROVE  r \in Records /\ rows[r].issue = Current(s).issue /\ rows[r] # committed[r]
  <2>1. r \in Records /\ rows[r] # committed[r]
        /\ (Collide(rows[r], row) \/ Collide(committed[r], row))
    BY DEF Pending, InTheWay
  <2>2. QED BY <1>1, <1>4, <2>1 DEF Collide, Lasting, Keeps
<1>5. CASE pc[s] = "adopt"
  <2>1. AdoptedRow(s).issue = Current(s).issue
    <3>1. rows[found[s]] \in Row /\ rows[found[s]].issue = Current(s).issue
      BY <1>1, <1>5 DEF Ready, TypeOK, Run, OnCase, IsActiveCase
    <3>2. QED BY <3>1 DEF AdoptedRow, Adopted, Row
  <2>2. PICK r \in Pending(s, AdoptedRow(s), found[s]) : holder[r] = t
    BY <1>5 DEF WaitsFor
  <2>3. QED BY <1>4, <2>1, <2>2
<1>6. CASE pc[s] = "insert"
  <2>1. NewRow(s).issue = Current(s).issue
    BY DEF NewRow, Created
  <2>2. PICK r \in Pending(s, NewRow(s), 0) : holder[r] = t
    BY <1>6 DEF WaitsFor
  <2>3. QED BY <1>4, <2>1, <2>2
<1>7. QED BY <1>3, <1>5, <1>6 DEF WaitsFor, Working

(* Whoever is waited for and waits itself is further up, or as far and has *)
(* lost the record it found: only a select waits for such a one.           *)
LEMMA WaitsUpwards ==
  ASSUME ClimbInv, NEW s \in Sessions, pc[s] \in Working, NEW t \in WaitsFor(s), Waits(t)
  PROVE  /\ pc[t] \in Working /\ t \in Sessions
         /\ \/ Rank(s) < Rank(t)
            \/ Rank(s) = Rank(t) /\ HasLost(t) /\ pc[s] \in {"lockCase", "lockKey"}
<1>1. TypeOK /\ \A u \in Sessions : Ready(u) /\ Run(u) /\ HoldsNoneYet(u)
  BY DEF ClimbInv, RunInv, LifeInv, IInv, BaseInv
<1>2. t \in Sessions
  BY <1>1, WaitsForOthers
<1>3. PICK r \in Records :
        /\ holder[r] = t /\ rows[r].issue = Current(s).issue
        /\ pc[s] \in {"lockCase", "lockKey"} \/ rows[r] # committed[r]
  BY WaitsForIssue
<1>4. pc[t] \in Working
  BY <1>1, <1>2, <1>3 DEF Waits, WaitsFor, HoldsNoneYet, Working
<1>5. Position(rows[r].issue) < Rank(t) \/ Lost(t, r)
  BY <1>1, <1>2, <1>3, <1>4 DEF Run, Upwards
<1>6. Position(rows[r].issue) = Rank(s)
  BY <1>3 DEF Rank
<1>7. CASE Lost(t, r)
  <2>1. rows[r].issue = Current(t).issue /\ rows[r] = committed[r]
    BY <1>7 DEF Lost
  <2>2. Rank(s) = Rank(t)
    BY <1>6, <2>1 DEF Rank
  <2>3. QED BY <1>2, <1>3, <1>4, <2>1, <2>2 DEF HasLost
<1>8. QED BY <1>2, <1>4, <1>5, <1>6, <1>7

\* sessions that go on or that are further up than s
Above(s) ==
  {t \in Sessions : ~Waits(t) \/ (pc[t] \in Working /\ Rank(s) < Rank(t))}

\* or as far up as s with a record they have lost
Beyond(s) ==
  {t \in Sessions : \/ ~Waits(t)
                    \/ /\ pc[t] \in Working
                       /\ Rank(s) < Rank(t) \/ (Rank(s) = Rank(t) /\ HasLost(t))}

LEMMA AboveIsClosed ==
  ASSUME ClimbInv, NEW s \in Sessions, pc[s] \in Working
  PROVE  /\ \A t \in Above(s) : WaitsFor(t) \subseteq Above(s)
         /\ \A t \in Beyond(s) : WaitsFor(t) \subseteq Beyond(s)
         /\ pc[s] \in {"adopt", "insert"} => WaitsFor(s) \subseteq Above(s)
         /\ WaitsFor(s) \subseteq Beyond(s)
<1>1. TypeOK /\ \A u \in Sessions : Ready(u)
  BY DEF ClimbInv, RunInv, LifeInv, IInv, BaseInv
<1>2. \A u \in Sessions : pc[u] \in Working => Rank(u) \in Nat
  BY <1>1, RankOf
<1>3. \A t \in Sessions : WaitsFor(t) \subseteq Sessions
  BY <1>1, WaitsForOthers
<1>4. \A t \in Sessions : pc[t] \in Working =>
        \A u \in WaitsFor(t) : Waits(u) =>
          /\ pc[u] \in Working
          /\ \/ Rank(t) < Rank(u)
             \/ Rank(t) = Rank(u) /\ HasLost(u) /\ pc[t] \in {"lockCase", "lockKey"}
  BY WaitsUpwards
<1>5. ASSUME NEW t \in Above(s), NEW u \in WaitsFor(t) PROVE u \in Above(s)
  <2>1. t \in Sessions /\ Waits(t) /\ pc[t] \in Working /\ Rank(s) < Rank(t)
    BY DEF Above, Waits
  <2>2. u \in Sessions
    BY <1>3, <2>1
  <2>3. CASE Waits(u)
    BY <1>2, <1>4, <2>1, <2>2, <2>3 DEF Above
  <2>4. QED BY <2>2, <2>3 DEF Above
<1>6. ASSUME NEW t \in Beyond(s), NEW u \in WaitsFor(t) PROVE u \in Beyond(s)
  <2>1. /\ t \in Sessions /\ Waits(t) /\ pc[t] \in Working
        /\ Rank(s) < Rank(t) \/ Rank(s) = Rank(t)
    BY DEF Beyond, Waits
  <2>2. u \in Sessions
    BY <1>3, <2>1
  <2>3. CASE Waits(u)
    BY <1>2, <1>4, <2>1, <2>2, <2>3 DEF Beyond
  <2>4. QED BY <2>2, <2>3 DEF Beyond
<1>7. ASSUME pc[s] \in {"adopt", "insert"}, NEW u \in WaitsFor(s) PROVE u \in Above(s)
  BY <1>3, <1>4, <1>7 DEF Above
<1>8. ASSUME NEW u \in WaitsFor(s) PROVE u \in Beyond(s)
  BY <1>3, <1>4 DEF Beyond
<1>9. QED BY <1>5, <1>6, <1>7, <1>8

LEMMA LoserDeadlocks ==
  ASSUME ClimbInv, NEW s \in Sessions, Deadlocked(s)
  PROVE  /\ pc[s] = "lockKey"
         /\ \E r \in Records : /\ holder[r] = s /\ Terminal(rows[r])
                               /\ rows[r].ds = job[s].ds /\ rows[r].issue = Current(s).issue
<1>1. TypeOK /\ \A u \in Sessions : Ready(u) /\ Run(u) /\ HoldsNoneYet(u)
  BY DEF ClimbInv, RunInv, LifeInv, IInv, BaseInv
<1>2. ASSUME NEW S \in SUBSET Sessions, WaitsFor(s) \subseteq S,
             \A t \in S : WaitsFor(t) \subseteq S
      PROVE  s \in S
  BY <1>2 DEF Deadlocked
<1>3. Waits(s)
  <2>1. CASE WaitsFor(s) = {}
    <3>1. s \in {}
      BY <1>2, <2>1
    <3>2. QED BY <3>1
  <2>2. QED BY <2>1 DEF Waits
<1>4. pc[s] \in Working \cup {"transition"}
  BY <1>3 DEF Waits, WaitsFor, Working
\* nobody waits for a status change before it holds its record
<1>5. pc[s] # "transition"
  <2> SUFFICES ASSUME pc[s] = "transition" PROVE FALSE
    OBVIOUS
  <2> DEFINE Later == {t \in Sessions : pc[t] # "transition"}
  <2>1. ASSUME NEW t \in Sessions, NEW u \in WaitsFor(t) PROVE u \in Later
    <3>1. u \in Sessions
      BY <1>1, WaitsForOthers
    <3>2. \E r \in Records : holder[r] = u
      <4>1. CASE pc[t] \in Working
        BY <4>1, WaitsForIssue
      <4>2. CASE pc[t] = "transition"
        <5>1. todo[t] # <<>> /\ todo[t] \in Seq(Task)
          BY <1>1, <4>2 DEF Ready, TypeOK
        <5>2. Head(todo[t]) \in Task
          BY <5>1
        <5>3. Rec(t) \in Records
          BY <5>2 DEF Rec, Task
        <5>4. QED BY <4>2, <5>3 DEF WaitsFor, Pending, InTheWay
      <4>3. QED BY <4>1, <4>2 DEF WaitsFor, Working
    <3>3. QED BY <1>1, <3>1, <3>2 DEF HoldsNoneYet
  <2>2. s \in Later
    BY <1>2, <2>1
  <2>3. QED BY <2>2
<1>6. pc[s] \in Working
  BY <1>4, <1>5
<1>7. Rank(s) \in Nat /\ Current(s).issue \in Issues
  BY <1>1, <1>6, RankOf
<1>8. HasLost(s)
  <2>1. Beyond(s) \in SUBSET Sessions
    BY DEF Beyond
  <2>2. s \in Beyond(s)
    BY <1>2, <1>6, <2>1, AboveIsClosed
  <2>3. QED BY <1>3, <1>7, <2>2 DEF Beyond
<1>9. pc[s] \notin {"adopt", "insert"}
  <2> SUFFICES ASSUME pc[s] \in {"adopt", "insert"} PROVE FALSE
    OBVIOUS
  <2>1. Above(s) \in SUBSET Sessions
    BY DEF Above
  <2>2. s \in Above(s)
    BY <1>2, <1>6, <2>1, AboveIsClosed
  <2>3. QED BY <1>3, <1>7, <2>2 DEF Above
<1>10. PICK r \in Records : holder[r] = s /\ rows[r].issue = Current(s).issue
  BY <1>8 DEF HasLost
<1>11. /\ Present(rows[r]) /\ rows[r].ds = job[s].ds /\ Lost(s, r)
  <2>1. Position(rows[r].issue) = Rank(s)
    BY <1>10 DEF Rank
  <2>2. QED BY <1>1, <1>6, <1>7, <1>10, <2>1 DEF Run, Upwards
<1>12. pc[s] = "lockKey"
  BY <1>3, <1>6, <1>9, <1>11 DEF Waits, WaitsFor, Working, Lost
<1>13. Terminal(rows[r])
  <2>1. rows[r].status \in Statuses \cup {"ABSENT"} /\ ~Active(rows[r])
    BY <1>1, <1>11, <1>12 DEF TypeOK, Row, Lost
  <2>2. QED BY <1>11, <2>1 DEF Present, Active, Terminal, Statuses
<1>14. QED BY <1>10, <1>11, <1>12, <1>13

(* Where no bootstrap runs, a cycle of waiting sessions is one of runs that*)
(* have lost the case they selected (service.py:83-121).                   *)
THEOREM DeadlocksOfLosers == "bootstrap" \notin Kinds /\ Spec => []OnlyLosersDeadlock
<1> SUFFICES ASSUME "bootstrap" \notin Kinds PROVE Spec => []OnlyLosersDeadlock
  OBVIOUS
<1>1. ClimbInv /\ [Next]_vars => ClimbInv'
  BY StepClimbs
<1>2. ClimbInv => OnlyLosersDeadlock
  BY LoserDeadlocks DEF OnlyLosersDeadlock
<1>3. QED BY <1>1, <1>2, InitClimbs, PTL DEF Spec
=============================================================================

-------------------------- MODULE OrderObservations --------------------------
(***************************************************************************)
(* Staging and promotion of order observations                            *)
(* (ingestion/order_observations.py) by concurrent PostgreSQL transactions *)
(* at READ COMMITTED, in one dataset version and one source namespace.     *)
(*                                                                         *)
(* A key stands for its row of source_order_identities, and for the row of *)
(* orders projected from it: both are written only with the identity       *)
(* locked, so the lock promote takes on the order never makes anyone wait. *)
(* obs[e] and orders[k] are the latest versions, settled and projected the *)
(* committed ones.  Sessions do not autoflush (db.py:57): what promote     *)
(* assigns reaches the unique index of order numbers when the transaction  *)
(* commits, what it inserts reaches it at once.                            *)
(***************************************************************************)
EXTENDS OrderAssessment, Sequences

CONSTANTS
  Sessions,   \* database sessions of ingestion workers
  Keys,       \* source order ids
  Versions,   \* source versions
  Numbers,    \* order numbers
  Sites,      \* source warehouse ids
  Batches,    \* ingestion batches
  Evidence,   \* observations that may be staged
  Newer,      \* pairs of a version and one the comparator calls newer
  Scripts,    \* what a transaction may be asked to do
  MaxStarts,  \* bound: transactions started in a behaviour
  None        \* no version, warehouse or observation

Nobody == "nobody"

\* the normalized facts of a row: those a property depends on, and the row they
\* were read from
Facts == [number : Numbers, site : Sites \cup {None}, row : Raw]

\* a call of stage or promote in a transaction; ordered: with a comparator;
\* loaded: promote gets an object its caller's session loaded earlier
Op == [do : {"stage", "promote"}, e : Evidence, batch : Batches, ordered : BOOLEAN,
       loaded : BOOLEAN]

ASSUME ObservationAssumption ==
  /\ Nobody \notin Sessions
  /\ None \notin Versions \cup Sites \cup Evidence
  /\ Evidence \subseteq [key : Keys, version : Versions \cup {None}, facts : Facts]
  /\ \A e \in Evidence : HasKey(e.facts.row) /\ (e.facts.site = None) = ~Kept(e.facts.row, "site")
  /\ Newer \subseteq (Versions \cup {None}) \X (Versions \cup {None})
  /\ \A u, v, w \in Versions \cup {None} :
       <<u, v>> \in Newer => u # v /\ (<<v, w>> \in Newer => <<u, w>> \in Newer)
  /\ Scripts \subseteq Seq(Op) \ {<<>>}
  /\ MaxStarts \in Nat

ObservationStatuses ==
  {"NORMALIZED", "CONTEXT_INCOMPLETE", "REJECTED_INVALID", "CONFLICT_BLOCKED", "PROMOTED"}

\* next: the observation that superseded this one; batches: those with a receipt
Observation == [status : ObservationStatuses \cup {"ABSENT"},
                next : Evidence \cup {None}, batches : SUBSET Batches]

Unseen == [status |-> "ABSENT", next |-> None, batches |-> {}]

\* of: the observation whose facts the columns have; current: its
\* current_observation_id
Order == [version : Versions \cup {None}, of : Evidence \cup {None},
          current : Evidence \cup {None}]

NoOrder == [version |-> None, of |-> None, current |-> None]

VARIABLES
  known,     \* keys with a committed identity
  keyHolder, \* who has locked or is inserting the identity
  obs,       \* latest version of every observation
  settled,   \* its committed version
  obsHolder, \* who holds its row lock
  orders,    \* latest version of the order of every key
  projected, \* its committed version
  sites,     \* registered warehouses
  pc,        \* what each session does next
  script,    \* the calls of its transaction
  at,        \* index of the call it works on
  loaded,    \* observations its identity map holds, as they were loaded
  held,      \* orders its identity map holds, as they were loaded
  starts     \* transactions started so far (bound)

rowVars == <<known, keyHolder, obs, settled, obsHolder, orders, projected>>
vars == <<rowVars, sites, pc, script, at, loaded, held, starts>>

Steps == {"idle", "identity", "newIdentity", "record", "load", "observe", "recheck", "judge",
          "decide", "insert", "clash", "supersede", "commit"}

Init ==
  /\ known = {}
  /\ keyHolder = [k \in Keys |-> Nobody]
  /\ obs = [e \in Evidence |-> Unseen]
  /\ settled = [e \in Evidence |-> Unseen]
  /\ obsHolder = [e \in Evidence |-> Nobody]
  /\ orders = [k \in Keys |-> NoOrder]
  /\ projected = [k \in Keys |-> NoOrder]
  /\ sites \in SUBSET Sites
  /\ pc = [s \in Sessions |-> "idle"]
  /\ script = [s \in Sessions |-> <<>>]
  /\ at = [s \in Sessions |-> 0]
  /\ loaded = [s \in Sessions |-> [e \in Evidence |-> Unseen]]
  /\ held = [s \in Sessions |-> [k \in Keys |-> NoOrder]]
  /\ starts = 0

TypeOK ==
  /\ known \subseteq Keys
  /\ keyHolder \in [Keys -> Sessions \cup {Nobody}]
  /\ obs \in [Evidence -> Observation]
  /\ settled \in [Evidence -> Observation]
  /\ obsHolder \in [Evidence -> Sessions \cup {Nobody}]
  /\ orders \in [Keys -> Order]
  /\ projected \in [Keys -> Order]
  /\ sites \subseteq Sites
  /\ pc \in [Sessions -> Steps]
  /\ script \in [Sessions -> Seq(Op)]
  /\ at \in [Sessions -> Nat]
  /\ loaded \in [Sessions -> [Evidence -> Observation]]
  /\ held \in [Sessions -> [Keys -> Order]]
  /\ starts \in Nat

-----------------------------------------------------------------------------
(* PostgreSQL *)

Present(o) == o.status # "ABSENT"
There(order) == order.of # None

\* the version a statement of s sees
Seen(s, e) == IF obsHolder[e] = s THEN obs[e] ELSE settled[e]
SeenOrder(s, k) == IF keyHolder[k] = s THEN orders[k] ELSE projected[k]

\* s gets the lock without waiting
Free(s, e) == obsHolder[e] \in {s, Nobody}
FreeKey(s, k) == keyHolder[k] \in {s, Nobody}

\* the end of a transaction publishes or drops its rows and frees its locks
End(s, keep) ==
  /\ known' = IF keep THEN known \cup {k \in Keys : keyHolder[k] = s} ELSE known
  /\ settled' = IF keep THEN [e \in Evidence |-> Seen(s, e)] ELSE settled
  /\ obs' = [e \in Evidence |-> IF obsHolder[e] = s /\ ~keep THEN settled[e] ELSE obs[e]]
  /\ projected' = IF keep THEN [k \in Keys |-> SeenOrder(s, k)] ELSE projected
  /\ orders' = [k \in Keys |-> IF keyHolder[k] = s /\ ~keep THEN projected[k] ELSE orders[k]]
  /\ keyHolder' = [k \in Keys |-> IF keyHolder[k] = s THEN Nobody ELSE keyHolder[k]]
  /\ obsHolder' = [e \in Evidence |-> IF obsHolder[e] = s THEN Nobody ELSE obsHolder[e]]
  /\ pc' = [pc EXCEPT ![s] = "idle"]
  /\ script' = [script EXCEPT ![s] = <<>>]
  /\ at' = [at EXCEPT ![s] = 0]
  /\ loaded' = [loaded EXCEPT ![s] = [e \in Evidence |-> Unseen]]
  /\ held' = [held EXCEPT ![s] = [k \in Keys |-> NoOrder]]
  /\ UNCHANGED <<sites, starts>>

\* the process or its connection dies, or the caller gives up
Crash(s) ==
  /\ pc[s] # "idle"
  /\ End(s, FALSE)

Call(s) == script[s][at[s]]
Ev(s) == Call(s).e
Key(s) == Ev(s).key

FirstStep(op) ==
  IF op.do = "stage" THEN "identity" ELSE IF op.loaded THEN "load" ELSE "observe"

Begin(s, calls) ==
  /\ pc[s] = "idle"
  /\ starts < MaxStarts
  /\ starts' = starts + 1
  /\ script' = [script EXCEPT ![s] = calls]
  /\ at' = [at EXCEPT ![s] = 1]
  /\ pc' = [pc EXCEPT ![s] = FirstStep(calls[1])]
  /\ UNCHANGED <<rowVars, sites, loaded, held>>

Return(s) ==
  /\ at' = [at EXCEPT ![s] = @ + 1]
  /\ pc' = [pc EXCEPT ![s] = IF at[s] = Len(script[s]) THEN "commit"
                             ELSE FirstStep(script[s][at[s] + 1])]
  /\ UNCHANGED <<sites, script, starts>>

GoTo(s, step) ==
  /\ pc' = [pc EXCEPT ![s] = step]
  /\ UNCHANGED <<sites, script, at, starts>>

-----------------------------------------------------------------------------
(* stage_order_observation *)

\* the identity is selected FOR UPDATE: one that is not committed is not seen
FindIdentity(s) ==
  /\ pc[s] = "identity"
  /\ IF Key(s) \in known \/ keyHolder[Key(s)] = s
     THEN /\ FreeKey(s, Key(s))
          /\ keyHolder' = [keyHolder EXCEPT ![Key(s)] = s]
          /\ GoTo(s, "record")
     ELSE GoTo(s, "newIdentity") /\ UNCHANGED keyHolder
  /\ UNCHANGED <<known, obs, settled, obsHolder, orders, projected, loaded, held>>

CreateIdentity(s) ==
  /\ pc[s] = "newIdentity"
  /\ Key(s) \notin known
  /\ keyHolder[Key(s)] = Nobody
  /\ keyHolder' = [keyHolder EXCEPT ![Key(s)] = s]
  /\ GoTo(s, "record")
  /\ UNCHANGED <<known, obs, settled, obsHolder, orders, projected, loaded, held>>

\* mutant of IdentityTaken: the insert is repeated, not the select
IdentityTakenAgain(s) ==
  /\ pc[s] = "newIdentity"
  /\ Key(s) \in known
  /\ GoTo(s, "newIdentity")
  /\ UNCHANGED <<rowVars, loaded, held>>

\* another session was first: the savepoint is undone and the select repeated
IdentityTaken(s) ==
  /\ pc[s] = "newIdentity"
  /\ Key(s) \in known
  /\ GoTo(s, "identity")
  /\ UNCHANGED <<rowVars, loaded, held>>

Write(s, e, row) ==
  /\ obs' = [obs EXCEPT ![e] = row]
  /\ obsHolder' = [obsHolder EXCEPT ![e] = s]

Recorded(e, batch) ==
  [status |-> Assessed(e.facts.row), next |-> None, batches |-> {batch}]

\* new evidence is inserted with the receipt of its batch
Record(s) ==
  /\ pc[s] = "record"
  /\ ~Present(Seen(s, Ev(s)))
  /\ Storable(Ev(s).facts.row)
  /\ Write(s, Ev(s), Recorded(Ev(s), Call(s).batch))
  /\ loaded' = [loaded EXCEPT ![s][Ev(s)] = Recorded(Ev(s), Call(s).batch)]
  /\ Return(s)
  /\ UNCHANGED <<known, keyHolder, settled, orders, projected, held>>

\* a row the table does not accept: the last retry raises
RecordFails(s) ==
  /\ pc[s] = "record"
  /\ ~Present(Seen(s, Ev(s)))
  /\ ~Storable(Ev(s).facts.row)
  /\ End(s, FALSE)

\* mutant of Replay: a replay of evidence is taken for a replay of its batch
ReplaySilently(s) ==
  /\ pc[s] = "record"
  /\ Present(Seen(s, Ev(s)))
  /\ loaded' = [loaded EXCEPT ![s][Ev(s)] = Seen(s, Ev(s))]
  /\ Return(s)
  /\ UNCHANGED <<rowVars, held>>

\* exact evidence replays its row; the receipt of a new batch refers to the row,
\* which a promotion may have locked
Replay(s) ==
  /\ pc[s] = "record"
  /\ Present(Seen(s, Ev(s)))
  /\ LET row == Seen(s, Ev(s)) IN
     /\ loaded' = [loaded EXCEPT ![s][Ev(s)] = IF Present(@) THEN @ ELSE row]
     /\ IF Call(s).batch \in row.batches THEN UNCHANGED <<obs, obsHolder>>
        ELSE /\ Free(s, Ev(s))
             /\ Write(s, Ev(s), [obs[Ev(s)] EXCEPT !.batches = @ \cup {Call(s).batch}])
  /\ Return(s)
  /\ UNCHANGED <<known, keyHolder, settled, orders, projected, held>>

-----------------------------------------------------------------------------
(* promote_order_observation *)

\* the caller's session has loaded the observation it asks to promote
Load(s) ==
  /\ pc[s] = "load"
  /\ loaded' = [loaded EXCEPT ![s][Ev(s)] = Seen(s, Ev(s))]
  /\ GoTo(s, "observe")
  /\ UNCHANGED <<rowVars, held>>

\* the object promote decides by: a select that locks a row does not refresh the
\* object of it that the session has
Believed(s) == IF Present(loaded[s][Ev(s)]) THEN loaded[s][Ev(s)] ELSE obs[Ev(s)]

\* mutant of StepAfter: promoted evidence is judged again
StepAfterAnew(status) ==
  IF status \in {"NORMALIZED", "CONTEXT_INCOMPLETE", "PROMOTED"} THEN "judge" ELSE "refused"

StepAfter(status) ==
  CASE status = "PROMOTED"                                -> "recheck"
    [] status \in {"NORMALIZED", "CONTEXT_INCOMPLETE"}    -> "judge"
    [] OTHER                                              -> "refused"

\* the observation is locked; one that is not there, rejected or blocked is left
Observe(s) ==
  /\ pc[s] = "observe"
  /\ IF ~Present(Seen(s, Ev(s))) THEN Return(s) /\ UNCHANGED obsHolder
     ELSE /\ Free(s, Ev(s))
          /\ obsHolder' = [obsHolder EXCEPT ![Ev(s)] = s]
          /\ IF StepAfter(Believed(s).status) = "refused" THEN Return(s)
             ELSE GoTo(s, StepAfter(Believed(s).status))
  /\ UNCHANGED <<known, keyHolder, obs, settled, orders, projected, loaded, held>>

\* the order as the session's identity map has it, or as it reads it now
BelievedOrder(s) == IF There(held[s][Key(s)]) THEN held[s][Key(s)] ELSE SeenOrder(s, Key(s))

Matches(order, e) == order.of # None /\ order.of.key = e.key /\ order.of.facts = e.facts

\* a promoted observation: the order is read, without a lock, and returned if it
\* is the observation's projection
Recheck(s) ==
  /\ pc[s] = "recheck"
  /\ LET order == BelievedOrder(s) IN
     held' = IF order.current = Ev(s) /\ order.version = Ev(s).version /\ Matches(order, Ev(s))
             THEN [held EXCEPT ![s][Key(s)] = order] ELSE held
  /\ Return(s)
  /\ UNCHANGED <<rowVars, loaded>>

\* promote assigns to the object: the column of the row only changes when the
\* value is not the one the object had
SetStatus(s, status) ==
  /\ obs' = [obs EXCEPT ![Ev(s)].status = IF status = Believed(s).status THEN @ ELSE status]
  /\ loaded' = [loaded EXCEPT ![s][Ev(s)] = [Believed(s) EXCEPT !.status = status]]

\* the call ends with the observation in another status
Leave(s, status) ==
  /\ SetStatus(s, status)
  /\ Return(s)
  /\ UNCHANGED <<known, settled, obsHolder, orders, projected, held>>

Siblings(s) == {f \in Evidence \ {Ev(s)} : f.key = Key(s) /\ Present(Seen(s, f))}

\* the source says two things under one version (or without any)
Contradicted(s) ==
  \E f \in Siblings(s) : f.version = Ev(s).version /\ f.facts # Ev(s).facts

\* the identity is locked, then evidence, warehouse and context are judged
Judge(s) ==
  /\ pc[s] = "judge"
  /\ FreeKey(s, Key(s))
  /\ keyHolder' = [keyHolder EXCEPT ![Key(s)] = s]
  /\ CASE Contradicted(s) -> Leave(s, "CONFLICT_BLOCKED")
       [] ~Contradicted(s) /\ (Ev(s).facts.site \notin sites \/ Gaps(Ev(s).facts.row) # {}) ->
            Leave(s, "CONTEXT_INCOMPLETE")
       [] OTHER -> /\ SetStatus(s, "NORMALIZED")
                   /\ GoTo(s, "decide")
                   /\ UNCHANGED <<known, settled, obsHolder, orders, projected, held>>

\* without a comparator no version is newer than another
Supersedes(s, order) == Call(s).ordered /\ <<order.version, Ev(s).version>> \in Newer

\* a first projection among several versions needs a comparator
Unproven(s) ==
  /\ Ev(s).version # None
  /\ ~Call(s).ordered
  /\ \E f \in Siblings(s) : f.version # Ev(s).version

\* mutant of Proven: an older version is projected as well
ProvenIfCompared(s, order) ==
  IF order.version = Ev(s).version THEN Matches(order, Ev(s)) ELSE Call(s).ordered

\* the same version must say the same, another one must be newer
Proven(s, order) ==
  IF order.version = Ev(s).version THEN Matches(order, Ev(s)) ELSE Supersedes(s, order)

\* the order is locked and read
Decide(s) ==
  /\ pc[s] = "decide"
  /\ LET order == BelievedOrder(s)
         proven == IF There(order) THEN Proven(s, order) ELSE ~Unproven(s)
     IN  IF ~proven THEN Leave(s, "CONFLICT_BLOCKED")
         ELSE /\ GoTo(s, IF There(order) THEN "supersede" ELSE "insert")
              /\ UNCHANGED <<known, obs, settled, obsHolder, orders, projected, loaded, held>>
  /\ UNCHANGED keyHolder

Projection(e) == [version |-> e.version, of |-> e, current |-> e]

Number(order) == order.of.facts.number

\* keys whose entry in the unique index of order numbers stands in the way of
\* number n for key k; an entry of s itself is the row as s will flush it
InTheWay(s, k, n) ==
  {q \in Keys \ {k} :
     \/ There(SeenOrder(s, q)) /\ Number(SeenOrder(s, q)) = n
     \/ ~There(projected[q]) /\ There(orders[q]) /\ Number(orders[q]) = n}

\* those inserted by a transaction that has not ended
Pending(s, k, n) == {q \in InTheWay(s, k, n) : ~FreeKey(s, q) /\ ~There(projected[q])}

\* the observation becomes the current one of its order
Promote(s) ==
  /\ orders' = [orders EXCEPT ![Key(s)] = Projection(Ev(s))]
  /\ held' = [held EXCEPT ![s][Key(s)] = Projection(Ev(s))]
  /\ Return(s)
  /\ UNCHANGED <<known, keyHolder, settled, projected>>

\* the first projection of a key
InsertOrder(s) ==
  /\ pc[s] = "insert"
  /\ InTheWay(s, Key(s), Ev(s).facts.number) = {}
  /\ SetStatus(s, "PROMOTED")
  /\ Promote(s)
  /\ UNCHANGED obsHolder

\* the savepoint is undone, and the row that has the number is looked for
InsertRefused(s) ==
  /\ pc[s] = "insert"
  /\ InTheWay(s, Key(s), Ev(s).facts.number) # {}
  /\ Pending(s, Key(s), Ev(s).facts.number) = {}
  /\ GoTo(s, "clash")
  /\ UNCHANGED <<rowVars, loaded, held>>

HasNumber(s, n) == {q \in Keys : There(SeenOrder(s, q)) /\ Number(SeenOrder(s, q)) = n}

\* the order of another key has the number
RejectNumber(s) ==
  /\ pc[s] = "clash"
  /\ HasNumber(s, Ev(s).facts.number) # {}
  /\ Leave(s, "REJECTED_INVALID")
  /\ UNCHANGED keyHolder

\* it had it a moment ago: the error is raised
NumberGone(s) ==
  /\ pc[s] = "clash"
  /\ HasNumber(s, Ev(s).facts.number) = {}
  /\ End(s, FALSE)

\* mutant of Supersede: the previous observation does not learn its successor
SupersedeSilently(s) ==
  /\ pc[s] = "supersede"
  /\ SetStatus(s, "PROMOTED")
  /\ Promote(s)
  /\ UNCHANGED obsHolder

\* an order that is projected already: its previous observation is locked
Supersede(s) ==
  /\ pc[s] = "supersede"
  /\ LET previous == BelievedOrder(s).current IN
     IF previous = Ev(s)
     THEN SetStatus(s, "PROMOTED") /\ UNCHANGED obsHolder
     ELSE /\ Free(s, previous)
          /\ obs' = [obs EXCEPT ![previous].next = Ev(s),
                                ![Ev(s)].status = "PROMOTED"]
          /\ obsHolder' = [obsHolder EXCEPT ![previous] = s]
          /\ loaded' = [loaded EXCEPT ![s][Ev(s)] = [Believed(s) EXCEPT !.status = "PROMOTED"]]
  /\ Promote(s)

-----------------------------------------------------------------------------
(* The end of a transaction *)

\* orders whose new number an order of another key has
Clashes(s) ==
  {k \in Keys : /\ keyHolder[k] = s
                /\ There(orders[k]) /\ There(projected[k])
                /\ InTheWay(s, k, Number(orders[k])) # {}}

Awaited(s) == UNION {Pending(s, k, Number(orders[k])) : k \in Clashes(s)}

\* the assigned columns are flushed and all is committed
Commit(s) ==
  /\ pc[s] = "commit"
  /\ Clashes(s) = {}
  /\ End(s, TRUE)

CommitFails(s) ==
  /\ pc[s] = "commit"
  /\ Clashes(s) # {}
  /\ Awaited(s) = {}
  /\ End(s, FALSE)

\* the sessions whose end s needs to go on
WaitsFor(s) ==
  CASE pc[s] \in {"identity", "judge"} /\ Key(s) \in known /\ ~FreeKey(s, Key(s)) ->
         {keyHolder[Key(s)]}
    [] pc[s] = "newIdentity" /\ Key(s) \notin known /\ ~FreeKey(s, Key(s)) ->
         {keyHolder[Key(s)]}
    [] pc[s] = "record" /\ Present(Seen(s, Ev(s))) /\ ~Free(s, Ev(s))
       /\ Call(s).batch \notin Seen(s, Ev(s)).batches -> {obsHolder[Ev(s)]}
    [] pc[s] = "observe" /\ Present(Seen(s, Ev(s))) /\ ~Free(s, Ev(s)) -> {obsHolder[Ev(s)]}
    [] pc[s] = "insert" -> {keyHolder[q] : q \in Pending(s, Key(s), Ev(s).facts.number)}
    [] pc[s] = "supersede" /\ ~Free(s, BelievedOrder(s).current) ->
         {obsHolder[BelievedOrder(s).current]}
    [] pc[s] = "commit" -> {keyHolder[q] : q \in Awaited(s)}
    [] OTHER -> {}

\* s waits, over others, for itself: no set of sessions without s has all it
\* waits for and all that its members wait for
Deadlocked(s) ==
  \A S \in SUBSET Sessions :
    (\A t \in S \cup {s} : WaitsFor(t) \subseteq S) => s \in S

\* PostgreSQL aborts a transaction that closes a cycle of waiting ones
DeadlockDetected(s) ==
  /\ Deadlocked(s)
  /\ End(s, FALSE)

\* a warehouse is registered, in the dataset version, at any time
Register(w) ==
  /\ w \notin sites
  /\ sites' = sites \cup {w}
  /\ UNCHANGED <<rowVars, pc, script, at, loaded, held, starts>>

Progress(s) ==
  \/ FindIdentity(s) \/ CreateIdentity(s) \/ IdentityTaken(s)
  \/ Record(s) \/ RecordFails(s) \/ Replay(s)
  \/ Load(s) \/ Observe(s) \/ Recheck(s) \/ Judge(s) \/ Decide(s)
  \/ InsertOrder(s) \/ InsertRefused(s) \/ RejectNumber(s) \/ NumberGone(s) \/ Supersede(s)
  \/ Commit(s) \/ CommitFails(s) \/ DeadlockDetected(s)

\* the bound on transactions is reached and nobody works: not a deadlock
AllDone ==
  /\ starts = MaxStarts
  /\ \A s \in Sessions : pc[s] = "idle"
  /\ UNCHANGED vars

Next ==
  \/ \E s \in Sessions :
       \/ \E calls \in Scripts : Begin(s, calls)
       \/ FindIdentity(s) \/ CreateIdentity(s) \/ IdentityTaken(s)
       \/ Record(s) \/ RecordFails(s) \/ Replay(s)
       \/ Load(s) \/ Observe(s) \/ Recheck(s) \/ Judge(s) \/ Decide(s)
       \/ InsertOrder(s) \/ InsertRefused(s) \/ RejectNumber(s) \/ NumberGone(s) \/ Supersede(s)
       \/ Commit(s) \/ CommitFails(s) \/ DeadlockDetected(s) \/ Crash(s)
  \/ \E w \in Sites : Register(w)
  \/ AllDone

Spec == Init /\ [][Next]_vars

(* Every session keeps executing its statements; PostgreSQL looks for      *)
(* deadlocks after deadlock_timeout.                                       *)
FairSpec == Spec /\ \A s \in Sessions : WF_vars(Progress(s))

-----------------------------------------------------------------------------
(* Properties *)

(* The observation an order names as its current one is promoted, says     *)
(* what the order's columns say, and has no successor; every other         *)
(* promoted observation has a promoted successor with a newer version      *)
(* (order_observations.py:670, 897-914).                                   *)
ProjectionIsLinked ==
  /\ \A k \in Keys : There(projected[k]) =>
       settled[projected[k].current].status = "PROMOTED"
  /\ \A e \in Evidence : settled[e].status = "PROMOTED" =>
       LET next == settled[e].next
       IN  IF next = None THEN projected[e.key] = Projection(e)
           ELSE /\ next.key = e.key
                /\ settled[next].status = "PROMOTED"
                /\ <<e.version, next.version>> \in Newer

(* Whatever versions are promoted at the same time, an order that is       *)
(* projected is only ever projected anew from a version the comparator     *)
(* calls newer (order_observations.py:672-674).                            *)
ProjectionAdvances ==
  [][\A k \in Keys : There(projected[k]) /\ projected'[k] # projected[k] =>
       <<projected[k].version, projected'[k].version>> \in Newer]_vars

(* Promoted evidence stays promoted: a retried promotion of a historical   *)
(* version leaves it as it is                                              *)
(* (tests/unit/test_order_observations.py:718-777).                        *)
PromotedStaysPromoted ==
  [][\A e \in Evidence : settled[e].status = "PROMOTED" => settled'[e].status = "PROMOTED"]_vars

(* A committed transaction has recorded every observation it staged with   *)
(* the receipt of its batch, also when another session staged the same     *)
(* evidence or created the identity meanwhile (order_observations.py:496). *)
StagedIsRecorded ==
  [][\A s \in Sessions : Commit(s) =>
       \A n \in DOMAIN script[s] : script[s][n].do = "stage" =>
         script[s][n].batch \in settled'[script[s][n].e].batches]_vars

(* No evidence that reaches the projection lacks what the columns of an    *)
(* order need (order_observations.py:828-834, models.py:302-338).          *)
ProjectionFits ==
  \A s \in Sessions : pc[s] \in {"insert", "supersede"} => Projectable(Ev(s).facts.row)

(* Every transaction ends.                                                 *)
EveryCallReturns == \A s \in Sessions : pc[s] # "idle" ~> pc[s] = "idle"
=============================================================================

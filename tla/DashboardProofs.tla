-------------------------- MODULE DashboardProofs --------------------------
(***************************************************************************)
(* What a dashboard session may rely on, for any cases, orders, filters,   *)
(* commits of other sessions and number of reruns.                         *)
(***************************************************************************)
EXTENDS Dashboard, SetLemmas

\* since is the number of the commit that something was read after
Fresh(since) == since \in Nat /\ acknowledged <= since

(* Nothing the session holds or waits for is older than the last update it *)
(* was told of: not a reply in the cache, not the request under way, not   *)
(* the pages that an export collected.                                     *)
FreshInv ==
  /\ commits \in Nat /\ acknowledged \in Nat /\ acknowledged <= commits
  /\ "since" \in DOMAIN export
  /\ request # Idle => {"key", "since"} \subseteq DOMAIN request /\ Fresh(request.since)
  /\ Waiting("exception_export") => Fresh(export.since)
  /\ \A k \in DOMAIN cache : Fresh(cache[k].since)

LEMMA FreshInit == Init => FreshInv
BY DEF Init, FreshInv, Waiting, Idle, NoExport

\* a request is made, or its next statement runs
LEMMA AskFresh ==
  ASSUME FreshInv, NEW key, Ask(key), UNCHANGED <<commits, cache, acknowledged>>,
         "since" \in DOMAIN export',
         key[1] = "exception_export" => Fresh(export'.since)
  PROVE  FreshInv'
BY DEF FreshInv, Fresh, Ask, Waiting, Idle

LEMMA StatementFresh ==
  ASSUME FreshInv, request # Idle, UNCHANGED <<commits, cache, acknowledged, export>>,
         {"key", "since"} \subseteq DOMAIN request',
         request'.since = request.since, request'.key = request.key
  PROVE  FreshInv'
BY DEF FreshInv, Fresh, Waiting

\* a reply is cached
LEMMA CacheFresh ==
  ASSUME FreshInv, NEW key, NEW reply, Cache(key, reply), Fresh(reply.since),
         request' = Idle, UNCHANGED <<commits, acknowledged>>, "since" \in DOMAIN export'
  PROVE  FreshInv'
BY DEF FreshInv, Fresh, Cache, Waiting

\* the session goes on with what it has
LEMMA HitFresh ==
  ASSUME FreshInv, UNCHANGED <<commits, acknowledged, request, export, cache>>
  PROVE  FreshInv'
BY DEF FreshInv, Fresh, Waiting

\* the session gives up what it waits for, or has its answer
LEMMA IdleFresh ==
  ASSUME FreshInv, request' = Idle, UNCHANGED <<commits, acknowledged, cache>>,
         export' \in {export, NoExport}
  PROVE  FreshInv'
BY DEF FreshInv, Fresh, Waiting, NoExport

\* steps of the script that ask the cache, and if need be the API
LEMMA HitOrMissFresh ==
  ASSUME FreshInv, NEW key, NEW next, key[1] # "exception_export", Hit(key, next) \/ Miss(key)
  PROVE  FreshInv'
BY HitFresh, AskFresh DEF Hit, Miss, server, FreshInv

LEMMA CountFresh ==
  ASSUME FreshInv, request # Idle, NEW q, CountStatement(q)
  PROVE  FreshInv'
<1> DEFINE n == Cardinality(Matching(q, request.dataset))
           ids == Matching(q, request.dataset)
<1>1. /\ request' = [request EXCEPT !.done = 1, !.total = n, !.read = ids]
      /\ UNCHANGED <<commits, cache, acknowledged, export>>
  BY DEF CountStatement, Statement, server
<1> HIDE DEF n, ids
<1>2. /\ {"key", "since"} \subseteq DOMAIN request'
      /\ request'.since = request.since /\ request'.key = request.key
  BY <1>1 DEF FreshInv
<1>3. QED BY <1>1, <1>2, StatementFresh

LEMMA AnsweredFresh ==
  ASSUME FreshInv, request # Idle, NEW reply, NEW next, Answered(reply, next),
         reply.since = request.since
  PROVE  FreshInv'
<1>1. /\ Cache(request.key, reply) /\ request' = Idle
      /\ UNCHANGED <<commits, acknowledged, export>> /\ Fresh(reply.since)
  BY DEF Answered, server, FreshInv
<1>2. QED BY <1>1, CacheFresh DEF FreshInv

LEMMA FetchedSince ==
  ASSUME NEW q, NEW n, NEW size PROVE Fetched(q, n, size).since = request.since
BY DEF Fetched, Reply

LEMMA ReadFresh ==
  ASSUME FreshInv,
         Summary \/ SummaryStatement \/ Queue \/ QueueStatement \/ FacetCount \/ FacetStatement
  PROVE  FreshInv'
<1>1. CASE Summary
  BY <1>1, HitOrMissFresh DEF Summary, SummaryKey
<1>2. CASE SummaryStatement
  <2> DEFINE n == request.done + 1
             counts == Append(request.counts, Kpi(KPIS[n], request.dataset))
             read == request.read \cup Scoped(request.dataset)
             reply == Reply(<<>>, counts, 0, read)
  <2>1. /\ request # Idle
        /\ \/ Statement([request EXCEPT !.done = n, !.counts = counts, !.read = read])
           \/ Answered(reply, <<"queue">>)
    BY <1>2 DEF SummaryStatement, Waiting
  <2>2. reply.since = request.since
    BY DEF Reply
  <2> HIDE DEF n, counts, read, reply
  <2>3. CASE Statement([request EXCEPT !.done = n, !.counts = counts, !.read = read])
    <3>1. /\ request' = [request EXCEPT !.done = n, !.counts = counts, !.read = read]
          /\ UNCHANGED <<commits, cache, acknowledged, export>>
      BY <2>3 DEF Statement, server
    <3>2. /\ {"key", "since"} \subseteq DOMAIN request'
          /\ request'.since = request.since /\ request'.key = request.key
      BY <2>1, <3>1 DEF FreshInv
    <3>3. QED BY <2>1, <3>1, <3>2, StatementFresh
  <2>4. CASE Answered(reply, <<"queue">>)
    BY <2>1, <2>2, <2>4, AnsweredFresh
  <2>5. QED BY <2>1, <2>3, <2>4
<1>3. CASE Queue
  BY <1>3, HitOrMissFresh DEF Queue, QueueKey
<1>4. CASE QueueStatement
  <2>1. request # Idle
    BY <1>4 DEF QueueStatement, Waiting
  <2>2. CASE CountStatement(filter)
    BY <2>1, <2>2, CountFresh
  <2>3. CASE ~CountStatement(filter)
    <3> DEFINE reply == Fetched(filter, page, PageSize)
    <3>1. PICK next : Answered(reply, next)
      BY <1>4, <2>3 DEF QueueStatement
    <3>2. reply.since = request.since
      BY FetchedSince
    <3> HIDE DEF reply
    <3>3. QED BY <2>1, <3>1, <3>2, AnsweredFresh
  <2>4. QED BY <2>2, <2>3
<1>5. CASE FacetCount
  BY <1>5, HitOrMissFresh DEF FacetCount, FacetKey
<1>6. CASE FacetStatement
  <2>1. PICK n \in DOMAIN Facets :
          /\ Waiting("facet")
          /\ \/ CountStatement(FacetQuery(n))
             \/ Answered(Fetched(FacetQuery(n), 1, 1), Facet(n + 1))
    BY <1>6 DEF FacetStatement
  <2>2. QED BY <2>1, CountFresh, AnsweredFresh, FetchedSince DEF Waiting
<1>7. QED BY <1>1, <1>2, <1>3, <1>4, <1>5, <1>6

LEMMA ExportFresh ==
  ASSUME FreshInv, Export \/ ExportStatement
  PROVE  FreshInv'
<1>1. CASE Export
  <2>1. CASE Hit(ExportKey, <<"detail">>)
    BY <2>1, HitFresh DEF Hit, server
  <2>2. CASE ~Hit(ExportKey, <<"detail">>)
    <3> DEFINE start == Matching(filter, active)
    <3>1. /\ Ask(ExportKey) /\ UNCHANGED <<commits, cache, acknowledged>>
          /\ export' = [NoExport EXCEPT !.page = 1, !.start = start,
                                        !.calm = TRUE, !.since = commits]
      BY <1>1, <2>2 DEF Export, server
    <3> HIDE DEF start
    <3>2. "since" \in DOMAIN export' /\ export'.since = commits
      BY <3>1 DEF NoExport
    <3>3. Fresh(commits)
      BY DEF FreshInv, Fresh
    <3>4. QED
      <4>1. Fresh(export'.since)
        BY <3>2, <3>3
      <4>2. QED BY <3>1, <3>2, <4>1, AskFresh
  <2>3. QED BY <2>1, <2>2
<1>2. CASE ExportStatement
  <2>1. request # Idle /\ Waiting("exception_export")
    BY <1>2 DEF ExportStatement, Waiting
  <2>2. CASE CountStatement(filter)
    BY <2>1, <2>2, CountFresh
  <2>3. CASE ~CountStatement(filter)
    <3> DEFINE rows == export.rows \o PageOf(filter, request.dataset, export.page, ExportSize)
               reply == [rows |-> rows, start |-> export.start,
                         calm |-> export.calm, since |-> export.since]
    <3>1. /\ UNCHANGED <<commits, acknowledged>>
          /\ \/ /\ export' = [export EXCEPT !.rows = rows, !.page = @ + 1]
                /\ Ask(ExportKey)
                /\ cache' = cache
             \/ /\ Cache(ExportKey, reply)
                /\ export' = NoExport
                /\ request' = Idle
      BY <1>2, <2>3 DEF ExportStatement, server
    <3>2. reply.since = export.since /\ Fresh(export.since)
      BY <2>1 DEF FreshInv
    <3> HIDE DEF rows, reply
    <3>3. CASE Ask(ExportKey) /\ cache' = cache
                /\ export' = [export EXCEPT !.rows = rows, !.page = @ + 1]
      <4>1. "since" \in DOMAIN export' /\ export'.since = export.since
        BY <3>3 DEF FreshInv
      <4>2. Fresh(export'.since)
        BY <3>2, <4>1
      <4>3. QED BY <3>1, <3>3, <4>1, <4>2, AskFresh
    <3>4. CASE Cache(ExportKey, reply) /\ export' = NoExport /\ request' = Idle
      <4>1. Fresh(reply.since) /\ "since" \in DOMAIN export'
        BY <3>2, <3>4 DEF NoExport
      <4>2. QED BY <3>1, <3>4, <4>1, CacheFresh
    <3>5. QED BY <3>1, <3>3, <3>4
  <2>4. QED BY <2>2, <2>3
<1>3. QED BY <1>1, <1>2

LEMMA CaseFresh ==
  ASSUME FreshInv, Detail \/ DetailStatement \/ PatchStatement \/ Fail
  PROVE  FreshInv'
<1>1. CASE Detail
  <2>1. PICK id : Ask(<<"detail", id>>)
    BY <1>1 DEF Detail
  <2>2. UNCHANGED <<commits, cache, acknowledged, export>>
    BY <1>1 DEF Detail, server
  <2>3. QED BY <2>1, <2>2, AskFresh DEF FreshInv
<1>2. CASE DetailStatement
  <2>1. UNCHANGED <<commits, cache, acknowledged, export>>
    BY <1>2 DEF DetailStatement, server
  <2>2. request' = Idle \/ \E t : Ask(<<"patch", t>>)
    BY <1>2 DEF DetailStatement
  <2>3. QED BY <2>1, <2>2, AskFresh, IdleFresh DEF FreshInv
<1>3. CASE PatchStatement
  <2>1. Waiting("patch") /\ export' = export
    BY <1>3 DEF PatchStatement
  <2>2. \/ /\ request' = [request EXCEPT !.done = 1] /\ commits' = commits + 1
           /\ UNCHANGED <<cache, acknowledged>>
        \/ /\ request' = Idle /\ commits' = commits
           /\ \/ UNCHANGED <<cache, acknowledged>>
              \/ cache' = <<>> /\ acknowledged' = commits
    BY <1>3 DEF PatchStatement, Invalidate, server
  <2>3. CASE request' = [request EXCEPT !.done = 1]
    BY <2>1, <2>2, <2>3 DEF FreshInv, Fresh, Waiting
  <2>4. CASE request' = Idle
    <3>1. DOMAIN <<>> = {}
      OBVIOUS
    <3>2. QED BY <2>1, <2>2, <2>4, <3>1 DEF FreshInv, Fresh, Waiting, Idle
  <2>5. QED BY <2>2, <2>3, <2>4
<1>4. CASE Fail
  BY <1>4, IdleFresh DEF Fail, server
<1>5. QED BY <1>1, <1>2, <1>3, <1>4

LEMMA OthersFresh ==
  ASSUME FreshInv, Others
  PROVE  FreshInv'
<1>1. Committed
  BY DEF Others, OpenCase, RefreshCase, Operate, Replace, PromoteOrder
<1>2. PICK calm : export' = [export EXCEPT !.calm = calm]
  BY <1>1 DEF Committed
<1>3. "since" \in DOMAIN export' /\ export'.since = export.since
  BY <1>2 DEF FreshInv
<1>4. commits' = commits + 1 /\ UNCHANGED <<request, cache, acknowledged>>
  BY <1>1 DEF Committed
<1>5. QED BY <1>3, <1>4 DEF FreshInv, Fresh, Waiting

LEMMA FreshNext == FreshInv /\ [Next]_vars => FreshInv'
<1> SUFFICES ASSUME FreshInv, [Next]_vars PROVE FreshInv'
  OBVIOUS
<1>1. CASE Rerun
  BY <1>1, HitFresh DEF Rerun, server
<1>2. CASE UNCHANGED vars
  BY <1>2, HitFresh DEF vars, server, script
<1>3. QED BY <1>1, <1>2, ReadFresh, ExportFresh, CaseFresh, OthersFresh DEF Next, Script

(* An acknowledged update is never followed by a reply the session read    *)
(* before it (ui.py:444-460): dropping the cache with the answer is        *)
(* enough, since the script has no other request under way by then.        *)
THEOREM OwnUpdates == Spec => []OwnUpdatesAreSeen
<1>1. FreshInv => OwnUpdatesAreSeen
  BY DEF FreshInv, Fresh, OwnUpdatesAreSeen
<1>2. QED BY <1>1, FreshInit, FreshNext, PTL DEF Spec

-----------------------------------------------------------------------------
(* The request under way is the one the script's step waits for, and is    *)
(* not answered by the cache: nothing moves the script on before it ends.  *)
Cached == {"summary", "exceptions", "facet", "exception_export"}

Position ==
  request # Idle =>
    /\ "key" \in DOMAIN request
    /\ \/ step = <<"summary">> /\ request.key = SummaryKey
       \/ step = <<"queue">> /\ request.key = QueueKey
       \/ \E n \in DOMAIN Facets : AtFacet(n) /\ request.key = FacetKey(n)
       \/ step = <<"export">> /\ request.key = ExportKey
       \/ step = <<"detail">> /\ request.key[1] = "detail"
       \/ step = <<"patch">> /\ request.key[1] = "patch"
    /\ request.key[1] \in Cached => request.key \notin DOMAIN cache

LEMMA PositionKept ==
  ASSUME Position, UNCHANGED <<step, filter, page, cache>>,
         request # Idle, "key" \in DOMAIN request', request'.key = request.key
  PROVE  Position'
BY DEF Position, SummaryKey, QueueKey, FacetKey, FacetQuery, ExportKey, AtFacet

LEMMA PositionIdle == ASSUME request' = Idle PROVE Position'
BY DEF Position, Idle

LEMMA PositionUnchanged ==
  ASSUME Position, UNCHANGED <<step, filter, page, cache, request>>
  PROVE  Position'
BY PositionKept, PositionIdle DEF Position

\* a step that finds its key in the cache waits for nothing
LEMMA NothingAsked ==
  ASSUME Position, NEW key, key \in DOMAIN cache,
         \/ step = <<"summary">> /\ key = SummaryKey
         \/ step = <<"queue">> /\ key = QueueKey
         \/ \E n \in DOMAIN Facets : AtFacet(n) /\ key = FacetKey(n)
         \/ step = <<"export">> /\ key = ExportKey
  PROVE  request = Idle
<1> SUFFICES ASSUME request # Idle PROVE FALSE
  OBVIOUS
<1>1. request.key = key /\ key[1] \in Cached
  <2>1. step[1] \in {"summary", "queue", "facet", "export"}
    BY DEF AtFacet
  <2>2. step # <<"detail">> /\ step # <<"patch">>
    BY <2>1
  <2>3. CASE step = <<"summary">> /\ key = SummaryKey
    BY <2>3 DEF Position, AtFacet, SummaryKey, Cached
  <2>4. CASE step = <<"queue">> /\ key = QueueKey
    BY <2>4 DEF Position, AtFacet, QueueKey, Cached
  <2>5. ASSUME NEW n \in DOMAIN Facets, AtFacet(n), key = FacetKey(n)
        PROVE  request.key = key /\ key[1] \in Cached
    BY <2>5 DEF Position, AtFacet, FacetKey, Cached
  <2>6. CASE step = <<"export">> /\ key = ExportKey
    BY <2>6 DEF Position, AtFacet, ExportKey, Cached
  <2>7. QED BY <2>3, <2>4, <2>5, <2>6
<1>2. QED BY <1>1 DEF Position

\* a step of the script that may be answered by the cache
Step(key) ==
  \/ step = <<"summary">> /\ key = SummaryKey
  \/ step = <<"queue">> /\ key = QueueKey
  \/ \E n \in DOMAIN Facets : AtFacet(n) /\ key = FacetKey(n)
  \/ step = <<"export">> /\ key = ExportKey

LEMMA AskPosition ==
  ASSUME NEW key, Step(key), key \notin DOMAIN cache, Ask(key),
         UNCHANGED <<step, filter, page, cache>>
  PROVE  Position'
BY DEF Position, Step, Ask, SummaryKey, QueueKey, FacetKey, FacetQuery, ExportKey, AtFacet

LEMMA HitOrMissPosition ==
  ASSUME Position, NEW key, NEW next, Step(key), Hit(key, next) \/ Miss(key)
  PROVE  Position'
<1>1. CASE Hit(key, next)
  BY <1>1, NothingAsked, PositionIdle DEF Hit, Step
<1>2. CASE Miss(key)
  BY <1>2, AskPosition DEF Miss
<1>3. QED BY <1>1, <1>2

LEMMA CountPosition ==
  ASSUME Position, request # Idle, NEW q, CountStatement(q)
  PROVE  Position'
<1> DEFINE n == Cardinality(Matching(q, request.dataset))
           ids == Matching(q, request.dataset)
<1>1. /\ request' = [request EXCEPT !.done = 1, !.total = n, !.read = ids]
      /\ UNCHANGED <<step, filter, page, cache>>
  BY DEF CountStatement, Statement
<1> HIDE DEF n, ids
<1>2. "key" \in DOMAIN request' /\ request'.key = request.key
  BY <1>1 DEF Position
<1>3. QED BY <1>1, <1>2, PositionKept

LEMMA ReadPosition ==
  ASSUME Position,
         Summary \/ SummaryStatement \/ Queue \/ QueueStatement \/ FacetCount \/ FacetStatement
  PROVE  Position'
<1>1. CASE Summary
  BY <1>1, HitOrMissPosition DEF Summary, Step
<1>2. CASE SummaryStatement
  <2> DEFINE n == request.done + 1
             counts == Append(request.counts, Kpi(KPIS[n], request.dataset))
             read == request.read \cup Scoped(request.dataset)
  <2>1. /\ request # Idle
        /\ \/ Statement([request EXCEPT !.done = n, !.counts = counts, !.read = read])
           \/ request' = Idle
    BY <1>2 DEF SummaryStatement, Waiting, Answered
  <2> HIDE DEF n, counts, read
  <2>2. CASE Statement([request EXCEPT !.done = n, !.counts = counts, !.read = read])
    BY <2>1, <2>2, PositionKept DEF Statement, Position
  <2>3. QED BY <2>1, <2>2, PositionIdle
<1>3. CASE Queue
  BY <1>3, HitOrMissPosition DEF Queue, Step
<1>4. CASE QueueStatement
  <2>1. request # Idle /\ (CountStatement(filter) \/ request' = Idle)
    BY <1>4 DEF QueueStatement, Waiting, Answered
  <2>2. QED BY <2>1, CountPosition, PositionIdle
<1>5. CASE FacetCount
  BY <1>5, HitOrMissPosition DEF FacetCount, Step
<1>6. CASE FacetStatement
  <2>1. request # Idle /\ ((\E q : CountStatement(q)) \/ request' = Idle)
    BY <1>6 DEF FacetStatement, Waiting, Answered
  <2>2. QED BY <2>1, CountPosition, PositionIdle
<1>7. QED BY <1>1, <1>2, <1>3, <1>4, <1>5, <1>6

LEMMA OtherPosition ==
  ASSUME Position,
         \/ Rerun \/ Export \/ ExportStatement \/ Detail \/ DetailStatement
         \/ PatchStatement \/ Fail \/ Others
  PROVE  Position'
<1>1. CASE Rerun
  <2>1. step[1] = "done" /\ request' = request
    BY <1>1 DEF Rerun
  <2>2. request = Idle
    BY <2>1 DEF Position, AtFacet
  <2>3. QED BY <2>1, <2>2, PositionIdle
<1>2. CASE Export
  <2>1. step = <<"export">> /\ UNCHANGED <<filter, page>>
    BY <1>2 DEF Export, Hit
  <2>2. CASE Hit(ExportKey, <<"detail">>)
    BY <2>1, <2>2, HitOrMissPosition DEF Step
  <2>3. CASE ~Hit(ExportKey, <<"detail">>)
    BY <1>2, <2>1, <2>3, AskPosition DEF Export, Step
  <2>4. QED BY <2>2, <2>3
<1>3. CASE ExportStatement
  <2>1. request # Idle /\ request.key[1] = "exception_export"
    BY <1>3 DEF ExportStatement, Waiting
  <2>2. step = <<"export">> /\ ExportKey \notin DOMAIN cache
    BY <2>1 DEF Position, SummaryKey, QueueKey, FacetKey, ExportKey, Cached
  <2>3. \/ CountStatement(filter)
        \/ Ask(ExportKey) /\ UNCHANGED <<step, filter, page, cache>>
        \/ request' = Idle
    BY <1>3 DEF ExportStatement
  <2>4. QED BY <2>1, <2>2, <2>3, CountPosition, AskPosition, PositionIdle DEF Step
<1>4. CASE Detail
  <2>1. step' = <<"detail">> /\ \E id : Ask(<<"detail", id>>)
    BY <1>4 DEF Detail
  <2>2. QED BY <2>1 DEF Position, Ask, Cached
<1>5. CASE DetailStatement
  <2>1. request' = Idle \/ (step' = <<"patch">> /\ \E t : Ask(<<"patch", t>>))
    BY <1>5 DEF DetailStatement
  <2>2. QED BY <2>1, PositionIdle DEF Position, Ask, Cached
<1>6. CASE PatchStatement
  <2>1. request # Idle /\ UNCHANGED <<filter, page>>
    BY <1>6 DEF PatchStatement, Waiting
  <2>2. \/ request' = Idle
        \/ request' = [request EXCEPT !.done = 1] /\ UNCHANGED <<step, cache>>
    BY <1>6 DEF PatchStatement
  <2>3. QED BY <2>1, <2>2, PositionIdle, PositionKept DEF Position
<1>7. CASE Fail
  BY <1>7, PositionIdle DEF Fail
<1>8. CASE Others
  <2>1. Committed
    BY <1>8 DEF Others, OpenCase, RefreshCase, Operate, Replace, PromoteOrder
  <2>2. QED BY <2>1, PositionUnchanged DEF Committed
<1>9. QED BY <1>1, <1>2, <1>3, <1>4, <1>5, <1>6, <1>7, <1>8

LEMMA PositionNext == Position /\ [Next]_vars => Position'
<1>1. ASSUME Position, UNCHANGED vars PROVE Position'
  BY <1>1, PositionUnchanged DEF vars, script
<1>2. QED BY <1>1, ReadPosition, OtherPosition DEF Next, Script

-----------------------------------------------------------------------------
(* What the statements of a summary and of a page count on one state.      *)
Rows == DOMAIN cases \subseteq DOMAIN Cases /\ DOMAIN orders = DOMAIN Orders

\* the first n figures are those of dataset d in this state
Counted(counts, n, d) == counts = [i \in 1..n |-> Kpi(KPIS[i], d)]

Total(q, d) == Cardinality(Matching(q, d))

LEMMA Figures ==
  ASSUME NEW d, NEW s, Counted(s.counts, Len(KPIS), d)
  PROVE  /\ Figure(s, "orders_processed") = Cardinality(Placed(d))
         /\ Figure(s, "open_orders") = OrdersThat(d, {"OPEN"})
         /\ Figure(s, "fulfilled_orders") = OrdersThat(d, {"ON_TIME", "LATE"})
         /\ Figure(s, "cancelled_orders") = OrdersThat(d, {"CANCELLED"})
         /\ Figure(s, "on_time_orders") = OrdersThat(d, {"ON_TIME"})
         /\ Figure(s, "open_exceptions") = Cardinality(Active(d))
         /\ Figure(s, "critical_exceptions") = Cardinality(Critical(d))
         /\ Figure(s, "stockout_risks") = OfType(d, "STOCKOUT_RISK")
         /\ Figure(s, "supplier_delays") = OfType(d, "SUPPLIER_DELAY")
         /\ Figure(s, "shipment_delays") = OfType(d, "SHIPMENT_DELAY")
<1>1. /\ Len(KPIS) = 11 /\ DOMAIN KPIS = 1..11
      /\ KPIS[1] = "orders_processed" /\ KPIS[2] = "open_orders"
      /\ KPIS[3] = "fulfilled_orders" /\ KPIS[4] = "cancelled_orders"
      /\ KPIS[5] = "on_time_orders" /\ KPIS[6] = "open_exceptions"
      /\ KPIS[7] = "critical_exceptions" /\ KPIS[8] = "revenue_at_risk"
      /\ KPIS[9] = "stockout_risks" /\ KPIS[10] = "supplier_delays"
      /\ KPIS[11] = "shipment_delays"
  BY DEF KPIS
<1>2. \A i, j \in 1..11 : KPIS[i] = KPIS[j] => i = j
  BY DEF KPIS
<1>3. \A n \in 1..11 : Figure(s, KPIS[n]) = Kpi(KPIS[n], d)
  <2>1. TAKE n \in 1..11
  <2>2. (CHOOSE i \in DOMAIN KPIS : KPIS[i] = KPIS[n]) = n
    BY <1>1, <1>2
  <2>3. s.counts[n] = Kpi(KPIS[n], d)
    BY <1>1 DEF Counted
  <2>4. QED BY <2>2, <2>3 DEF Figure
<1>4. QED BY <1>1, <1>3 DEF Kpi

\* three sets that share nothing, within a finite one
LEMMA ThreeParts ==
  ASSUME NEW S, IsFiniteSet(S), NEW A \in SUBSET S, NEW B \in SUBSET S, NEW C \in SUBSET S,
         A \cap B = {}, A \cap C = {}, B \cap C = {}
  PROVE  /\ Cardinality(A) + Cardinality(B) + Cardinality(C) <= Cardinality(S)
         /\ Cardinality(A) \in Nat /\ Cardinality(B) \in Nat /\ Cardinality(C) \in Nat
<1>1. IsFiniteSet(A) /\ IsFiniteSet(B) /\ IsFiniteSet(C)
  BY FS_Subset
<1>2. /\ Cardinality(A) \in Nat /\ Cardinality(B) \in Nat /\ Cardinality(C) \in Nat
      /\ Cardinality(S) \in Nat
  BY <1>1, FS_CardinalityType
<1>3. IsFiniteSet(A \cup B) /\ Cardinality(A \cup B) = Cardinality(A) + Cardinality(B)
  <2>1. Cardinality(A \cap B) = 0
    BY FS_EmptySet
  <2>2. /\ IsFiniteSet(A \cup B)
        /\ Cardinality(A \cup B) = Cardinality(A) + Cardinality(B) - Cardinality(A \cap B)
    BY <1>1, FS_Union
  <2>3. QED BY <1>2, <2>1, <2>2
<1>4. (A \cup B) \cap C = {}
  OBVIOUS
<1>5. Cardinality((A \cup B) \cup C) = Cardinality(A) + Cardinality(B) + Cardinality(C)
  <2>1. Cardinality((A \cup B) \cap C) = 0
    BY <1>4, FS_EmptySet
  <2>2. Cardinality((A \cup B) \cup C)
          = Cardinality(A \cup B) + Cardinality(C) - Cardinality((A \cup B) \cap C)
    BY <1>1, <1>3, FS_Union
  <2>3. QED BY <1>2, <1>3, <2>1, <2>2
<1>6. (A \cup B) \cup C \in SUBSET S
  OBVIOUS
<1>7. Cardinality((A \cup B) \cup C) <= Cardinality(S)
  BY <1>6, FS_Subset
<1>8. QED BY <1>2, <1>5, <1>7

(* Figures that are all of one state add up. *)
LEMMA AddsUpNow ==
  ASSUME Rows, NEW d, NEW s, Counted(s.counts, Len(KPIS), d)
  PROVE  AddsUp(s)
<1>1. IsFiniteSet(Active(d)) /\ IsFiniteSet(Placed(d))
  <2>1. Active(d) \in SUBSET DOMAIN Cases /\ Placed(d) \in SUBSET DOMAIN Orders
    BY DEF Rows, Active, Scoped, Placed
  <2>2. QED BY <2>1, FS_Subset, DashboardAssumption
<1>2. Cardinality(Critical(d)) <= Cardinality(Active(d))
  <2>1. Critical(d) \in SUBSET Active(d)
    BY DEF Critical
  <2>2. QED BY <1>1, <2>1, FS_Subset
<1>3. OfType(d, "STOCKOUT_RISK") + OfType(d, "SUPPLIER_DELAY") + OfType(d, "SHIPMENT_DELAY")
        <= Cardinality(Active(d))
  <2> DEFINE A == {id \in Active(d) : Cases[id].type = "STOCKOUT_RISK"}
             B == {id \in Active(d) : Cases[id].type = "SUPPLIER_DELAY"}
             C == {id \in Active(d) : Cases[id].type = "SHIPMENT_DELAY"}
  <2>1. Cardinality(A) + Cardinality(B) + Cardinality(C) <= Cardinality(Active(d))
    <3>1. A \cap B = {} /\ A \cap C = {} /\ B \cap C = {}
      OBVIOUS
    <3>2. QED BY <1>1, <3>1, ThreeParts
  <2>2. QED BY <2>1 DEF OfType
<1>4. OrdersThat(d, {"OPEN"}) + OrdersThat(d, {"ON_TIME", "LATE"})
        + OrdersThat(d, {"CANCELLED"}) <= Cardinality(Placed(d))
  <2> DEFINE A == {o \in Placed(d) : orders[o] \in {"OPEN"}}
             B == {o \in Placed(d) : orders[o] \in {"ON_TIME", "LATE"}}
             C == {o \in Placed(d) : orders[o] \in {"CANCELLED"}}
  <2>1. Cardinality(A) + Cardinality(B) + Cardinality(C) <= Cardinality(Placed(d))
    <3>1. A \cap B = {} /\ A \cap C = {} /\ B \cap C = {}
      OBVIOUS
    <3>2. QED BY <1>1, <3>1, ThreeParts
  <2>2. QED BY <2>1 DEF OrdersThat
<1>5. OrdersThat(d, {"ON_TIME"}) <= OrdersThat(d, {"ON_TIME", "LATE"})
  <2> DEFINE A == {o \in Placed(d) : orders[o] \in {"ON_TIME"}}
             B == {o \in Placed(d) : orders[o] \in {"ON_TIME", "LATE"}}
  <2>1. A \in SUBSET B /\ B \in SUBSET Placed(d)
    OBVIOUS
  <2>2. Cardinality(A) <= Cardinality(B)
    BY <1>1, <2>1, FS_Subset
  <2>3. QED BY <2>2 DEF OrdersThat
<1>6. QED BY <1>2, <1>3, <1>4, <1>5, Figures DEF AddsUp

(* The number of cases that a page of the queue or a facet counts is the   *)
(* figure of the summary that stands for them.                             *)
Agrees(q, total, s) ==
  /\ q.status = ACTIVE_STATUSES /\ q.severity = {} =>
       /\ q.type = {} => total = Figure(s, "open_exceptions")
       /\ q.type = {"STOCKOUT_RISK"} => total = Figure(s, "stockout_risks")
  /\ /\ q.status = ACTIVE_STATUSES /\ q.type = {}
     /\ q.severity = {"CRITICAL"}
     => total = Figure(s, "critical_exceptions")

LEMMA AgreesNow ==
  ASSUME NEW d, NEW s, Counted(s.counts, Len(KPIS), d), NEW q
  PROVE  Agrees(q, Total(q, d), s)
<1>1. ASSUME q.status = ACTIVE_STATUSES, q.severity = {}, q.type = {}
      PROVE  Matching(q, d) = Active(d)
  BY <1>1 DEF Matching, Active, Selects, ACTIVE_STATUSES
<1>2. ASSUME q.status = ACTIVE_STATUSES, q.severity = {}, q.type = {"STOCKOUT_RISK"}
      PROVE  Matching(q, d) = {id \in Active(d) : Cases[id].type = "STOCKOUT_RISK"}
  BY <1>2 DEF Matching, Active, Selects, ACTIVE_STATUSES
<1>3. ASSUME q.status = ACTIVE_STATUSES, q.severity = {"CRITICAL"}, q.type = {}
      PROVE  Matching(q, d) = Critical(d)
  BY <1>3 DEF Matching, Critical, Active, Selects, ACTIVE_STATUSES
<1>4. QED BY <1>1, <1>2, <1>3, Figures DEF Agrees, Total, OfType

-----------------------------------------------------------------------------
(* What was read since the last commit is what the tables say now; what    *)
(* was read at one earlier moment added up then.                           *)
Fields == {"key", "dataset", "done", "total", "counts", "since", "read"}

RequestInv ==
  request # Idle =>
    /\ Fields \subseteq DOMAIN request
    /\ request.since \in Nat /\ request.since <= commits
    /\ request.key[1] = "summary" => request.done \in 0..Len(KPIS) - 1
    /\ request.since = commits =>
         /\ request.dataset = active
         /\ request.key[1] = "summary" => Counted(request.counts, request.done, active)
         /\ request.key[1] \in {"exceptions", "facet"} /\ request.done = 1
            => request.total = Total(request.key[2], active)

ReplyInv ==
  \A k \in DOMAIN cache :
    k[1] \in {"summary", "exceptions", "facet"} =>
      /\ cache[k].since \in Nat /\ cache[k].since <= commits
      /\ cache[k].since = cache[k].until =>
           /\ k[1] = "summary" => AddsUp(cache[k])
           /\ cache[k].since = commits =>
                IF k[1] = "summary"
                THEN Counted(cache[k].counts, Len(KPIS), active)
                ELSE cache[k].total = Total(k[2], active)

CountInv == commits \in Nat /\ Rows /\ RequestInv /\ ReplyInv /\ CountsAgree

LEMMA CountInit == Init => CountInv
<1> SUFFICES ASSUME Init PROVE CountInv
  OBVIOUS
<1>1. Rows
  BY DashboardAssumption DEF Init, Rows
<1>2. DOMAIN cache = {} /\ request = Idle /\ commits \in Nat
  BY DEF Init
<1>3. QED
  BY <1>1, <1>2 DEF CountInv, RequestInv, ReplyInv, CountsAgree, Summaries, Replies

LEMMA SameFigures ==
  ASSUME UNCHANGED <<active, cases, orders>>
  PROVE  /\ \A name : Kpi(name, active)' = Kpi(name, active)
         /\ \A q : Total(q, active)' = Total(q, active)
<1>1. ASSUME NEW name PROVE Kpi(name, active)' = Kpi(name, active)
  BY DEF Kpi, Placed, OrdersThat, Active, Critical, OfType, Scoped
<1>2. ASSUME NEW q PROVE Total(q, active)' = Total(q, active)
  BY DEF Total, Matching, Scoped, Selects
<1>3. QED BY <1>1, <1>2

\* nothing is committed, asked or answered
LEMMA CountKept ==
  ASSUME CountInv, UNCHANGED <<server, cache>>, request' \in {request, Idle}
  PROVE  CountInv'
<1>1. UNCHANGED <<active, cases, orders, commits, cache>>
  BY DEF server
<1>2. RequestInv'
  BY <1>1, SameFigures DEF CountInv, RequestInv, Counted, Total
<1>3. ReplyInv'
  BY <1>1, SameFigures DEF CountInv, ReplyInv, Counted, Total, AddsUp, Figure
<1>4. CountsAgree'
  BY <1>1 DEF CountInv, CountsAgree, Summaries, Replies, SameMoment
<1>5. QED BY <1>1, <1>2, <1>3, <1>4 DEF CountInv, Rows

\* a commit, after which everything the session has is of earlier
LEMMA CountCommit ==
  ASSUME CountInv, Rows', commits' = commits + 1, cache' = cache,
         request' # Idle =>
           /\ request # Idle /\ Fields \subseteq DOMAIN request'
           /\ request'.since = request.since /\ request'.key = request.key
           /\ request.key[1] = "summary" => request'.done = request.done
  PROVE  CountInv'
<1>1. RequestInv'
  BY DEF CountInv, RequestInv
<1>2. ReplyInv'
  BY DEF CountInv, ReplyInv
<1>3. CountsAgree'
  BY DEF CountInv, CountsAgree, Summaries, Replies, SameMoment
<1>4. QED BY <1>1, <1>2, <1>3 DEF CountInv

\* what the session holds is not touched
LEMMA CountAsked ==
  ASSUME CountInv, UNCHANGED <<server, cache>>, RequestInv'
  PROVE  CountInv'
<1>1. UNCHANGED <<active, cases, orders, commits, cache>>
  BY DEF server
<1>2. ReplyInv'
  BY <1>1, SameFigures DEF CountInv, ReplyInv, Counted, Total, AddsUp, Figure
<1>3. CountsAgree'
  BY <1>1 DEF CountInv, CountsAgree, Summaries, Replies, SameMoment
<1>4. QED BY <1>1, <1>2, <1>3 DEF CountInv, Rows

LEMMA CountAsk ==
  ASSUME CountInv, UNCHANGED <<server, cache>>, NEW key, Ask(key)
  PROVE  CountInv'
<1>1. Len(KPIS) = 11
  BY DEF KPIS
<1>2. Counted(<<>>, 0, active)'
  BY DEF Counted
<1>3. /\ request'.since = commits /\ request'.dataset = active /\ request'.done = 0
      /\ request'.counts = <<>> /\ request'.key = key /\ DOMAIN request' = Fields
  BY DEF Ask, Fields
<1>4. RequestInv'
  BY <1>1, <1>2, <1>3 DEF RequestInv, server, CountInv, Counted
<1>5. QED BY <1>4, CountAsked

\* the first statement of a page
LEMMA CountCounted ==
  ASSUME CountInv, request # Idle, NEW q, CountStatement(q),
         request.key[1] # "summary",
         request.key[1] \in {"exceptions", "facet"} => request.key[2] = q
  PROVE  CountInv'
<1> DEFINE n == Cardinality(Matching(q, request.dataset))
           ids == Matching(q, request.dataset)
<1>1. /\ request' = [request EXCEPT !.done = 1, !.total = n, !.read = ids]
      /\ UNCHANGED <<server, cache>>
  BY DEF CountStatement, Statement
<1>2. request.since = commits => n = Total(q, active)
  BY DEF CountInv, RequestInv, Total
<1> HIDE DEF n, ids
<1>3. /\ Fields \subseteq DOMAIN request' /\ request'.key = request.key
      /\ request'.since = request.since /\ request'.dataset = request.dataset
      /\ request'.total = n
  BY <1>1 DEF CountInv, RequestInv, Fields
<1>4. UNCHANGED <<active, cases, orders, commits>>
  BY <1>1 DEF server
<1>5. Total(q, active)' = Total(q, active)
  BY <1>4, SameFigures
<1>6. ASSUME request'.key[1] \in {"exceptions", "facet"}, request'.since = commits'
      PROVE  request'.total = Total(request.key[2], active)'
  BY <1>2, <1>3, <1>4, <1>5, <1>6
<1>7. RequestInv'
  BY <1>3, <1>4, <1>6 DEF CountInv, RequestInv
<1>8. QED BY <1>1, <1>7, CountAsked

\* an answer
LEMMA CountAnswered ==
  ASSUME CountInv, UNCHANGED server, request # Idle, request' = Idle,
         NEW reply, Cache(request.key, reply),
         request.key[1] \in {"summary", "exceptions", "facet"} =>
           /\ reply.since = request.since /\ reply.until = commits
           /\ request.since = commits =>
                IF request.key[1] = "summary"
                THEN Counted(reply.counts, Len(KPIS), active)
                ELSE reply.total = Total(request.key[2], active)
  PROVE  CountInv'
<1>1. UNCHANGED <<active, cases, orders, commits>>
  BY DEF server
<1>2. /\ DOMAIN cache' = DOMAIN cache \cup {request.key}
      /\ \A k \in DOMAIN cache' : cache'[k] = IF k = request.key THEN reply ELSE cache[k]
  BY DEF Cache
<1> DEFINE Now(k, r) == IF k[1] = "summary"
                        THEN Counted(r.counts, Len(KPIS), active)
                        ELSE r.total = Total(k[2], active)
           Good(k, r) ==
             /\ r.since \in Nat /\ r.since <= commits
             /\ r.since = r.until =>
                  /\ k[1] = "summary" => AddsUp(r)
                  /\ r.since = commits => Now(k, r)
<1>3. ASSUME NEW k \in DOMAIN cache', k[1] \in {"summary", "exceptions", "facet"}
      PROVE  Good(k, cache'[k])
  <2>1. CASE k # request.key
    BY <1>2, <1>3, <2>1 DEF CountInv, ReplyInv
  <2>2. CASE k = request.key
    <3>1. /\ cache'[k] = reply /\ reply.since \in Nat /\ reply.since <= commits
          /\ reply.since = reply.until => reply.since = commits /\ Now(k, reply)
      BY <1>2, <1>3, <2>2 DEF CountInv, RequestInv
    <3>2. k[1] = "summary" /\ reply.since = reply.until => AddsUp(reply)
      BY <3>1, AddsUpNow DEF CountInv
    <3>3. QED BY <3>1, <3>2
  <2>3. QED BY <2>1, <2>2
<1>4. ReplyInv'
  <2>1. ASSUME NEW k \in DOMAIN cache', k[1] \in {"summary", "exceptions", "facet"},
               NEW r, r = cache'[k]
        PROVE  /\ r.since \in Nat /\ r.since <= commits'
               /\ r.since = r.until =>
                    /\ k[1] = "summary" => AddsUp(r)
                    /\ r.since = commits' =>
                         IF k[1] = "summary"
                         THEN r.counts = [i \in 1..Len(KPIS) |-> Kpi(KPIS[i], active)']
                         ELSE r.total = Total(k[2], active)'
    <3>1. Good(k, r)
      BY <1>3, <2>1
    <3>2. QED BY <1>1, <3>1, SameFigures DEF Counted
  <2> HIDE DEF Now, Good
  <2>2. QED BY <2>1 DEF ReplyInv, Counted
<1>5. CountsAgree'
  <2>1. ASSUME NEW x \in DOMAIN cache', NEW k \in DOMAIN cache',
               x[1] = "summary", cache'[x].since = cache'[x].until,
               k[1] \in {"exceptions", "facet"}, SameMoment(cache'[k], cache'[x])
        PROVE  Agrees(k[2], cache'[k].total, cache'[x])
    <3>1. CASE cache'[x].since = commits
      <4>1. Now(x, cache'[x]) /\ Now(k, cache'[k])
        BY <1>3, <2>1, <3>1 DEF SameMoment
      <4>2. QED BY <2>1, <4>1, AgreesNow
    <3>2. CASE cache'[x].since # commits
      <4>1. x \in DOMAIN cache /\ k \in DOMAIN cache
            /\ cache'[x] = cache[x] /\ cache'[k] = cache[k]
        BY <1>2, <2>1, <3>2 DEF SameMoment
      <4>2. QED
        BY <2>1, <4>1 DEF CountInv, CountsAgree, Summaries, Replies, Agrees
    <3>3. QED BY <3>1, <3>2
  <2>2. ASSUME NEW x \in DOMAIN cache', x[1] = "summary",
               cache'[x].since = cache'[x].until
        PROVE  AddsUp(cache'[x])
    BY <1>3, <2>2
  <2>3. QED BY <2>1, <2>2 DEF CountsAgree, Summaries, Replies, Agrees
<1>6. Rows' /\ RequestInv' /\ commits' \in Nat
  BY <1>1 DEF CountInv, Rows, RequestInv
<1>7. QED BY <1>4, <1>5, <1>6 DEF CountInv

LEMMA AppendNext ==
  ASSUME NEW m \in Nat, NEW f, f = [i \in 1..m + 1 |-> f[i]]
  PROVE  Append([i \in 1..m |-> f[i]], f[m + 1]) = f
<1> DEFINE S == {f[i] : i \in 1..m + 1}
           g == [i \in 1..m |-> f[i]]
           h == Append(g, f[m + 1])
<1>1. f[m + 1] \in S /\ g \in [1..m -> S]
  OBVIOUS
<1>2. g \in Seq(S) /\ Len(g) = m
  <2>1. g \in [1..m -> S]
    BY <1>1
  <2>2. g \in Seq(S)
    <3> HIDE DEF g, S
    <3>1. g \in UNION {[1..n -> S] : n \in Nat}
      BY <2>1
    <3>2. QED BY <3>1, SeqDef, Zenon
  <2>3. DOMAIN g = 1..m
    OBVIOUS
  <2> HIDE DEF g
  <2>4. 1..Len(g) = 1..m /\ Len(g) \in Nat
    BY <2>2, <2>3, LenProperties
  <2>5. QED BY <2>2, <2>4
<1>3. /\ h \in Seq(S) /\ Len(h) = m + 1
      /\ \A i \in 1..m : h[i] = f[i]
      /\ h[m + 1] = f[m + 1]
  BY <1>1, <1>2, AppendProperties
<1> HIDE DEF h, g, S
<1>4. ASSUME NEW i \in 1..m + 1 PROVE h[i] = f[i]
  <2>1. i \in 1..m \/ i = m + 1
    OBVIOUS
  <2>2. QED BY <1>3, <2>1
<1>5. h = [i \in 1..m + 1 |-> h[i]]
  BY <1>3, LenProperties
<1>6. h = f
  BY <1>4, <1>5
<1>7. QED BY <1>6 DEF h, g

\* the next figure of a summary
LEMMA CountSummary ==
  ASSUME CountInv, SummaryStatement
  PROVE  CountInv'
<1> DEFINE n == request.done + 1
           counts == Append(request.counts, Kpi(KPIS[n], request.dataset))
           read == request.read \cup Scoped(request.dataset)
           reply == Reply(<<>>, counts, 0, read)
<1>1. /\ request # Idle /\ request.key[1] = "summary"
      /\ IF n < Len(KPIS)
         THEN Statement([request EXCEPT !.done = n, !.counts = counts, !.read = read])
         ELSE Answered(reply, <<"queue">>)
  BY DEF SummaryStatement, Waiting
<1>2. /\ n \in 1..Len(KPIS) /\ Len(KPIS) = 11
      /\ Fields \subseteq DOMAIN request
      /\ request.done \in Nat /\ n - 1 = request.done
  BY <1>1 DEF CountInv, RequestInv, KPIS
<1>3. reply.since = request.since /\ reply.until = commits /\ reply.counts = counts
  BY DEF Reply
<1>4. request.since = commits => Counted(counts, n, active)
  <2> SUFFICES ASSUME request.since = commits PROVE Counted(counts, n, active)
    OBVIOUS
  <2>1. /\ request.dataset = active
        /\ request.counts = [i \in 1..request.done |-> Kpi(KPIS[i], active)]
    BY <1>1, <1>2 DEF CountInv, RequestInv, Counted
  <2>2. counts = [i \in 1..n |-> Kpi(KPIS[i], active)]
    <3> DEFINE m == request.done
               f == [i \in 1..m + 1 |-> Kpi(KPIS[i], active)]
    <3>1. m \in Nat /\ n = m + 1
      BY <1>2
    <3>2. f[m + 1] = Kpi(KPIS[n], request.dataset)
      BY <2>1, <3>1
    <3>3. request.counts = [i \in 1..m |-> f[i]]
      BY <2>1, <3>1
    <3>4. f = [i \in 1..m + 1 |-> f[i]]
      OBVIOUS
    <3> HIDE DEF f, m, n
    <3>5. Append([i \in 1..m |-> f[i]], f[m + 1]) = f
      BY <3>1, <3>4, AppendNext
    <3>6. QED BY <3>1, <3>2, <3>3, <3>5 DEF f
  <2>3. QED BY <2>2 DEF Counted
<1>5. CASE n < Len(KPIS)
  <2>1. Statement([request EXCEPT !.done = n, !.counts = counts, !.read = read])
    BY <1>1, <1>5
  <2> HIDE DEF n, counts, read, reply
  <2>2. /\ request' = [request EXCEPT !.done = n, !.counts = counts, !.read = read]
        /\ UNCHANGED <<server, cache>>
    BY <2>1 DEF Statement
  <2>3. /\ Fields \subseteq DOMAIN request' /\ request'.key = request.key
        /\ request'.since = request.since /\ request'.dataset = request.dataset
        /\ request'.done = n /\ request'.counts = counts
    BY <1>2, <2>2 DEF Fields
  <2>4. UNCHANGED <<active, cases, orders, commits>>
    BY <2>2 DEF server
  <2>5. ASSUME request.since = commits
        PROVE  counts = [i \in 1..n |-> Kpi(KPIS[i], active)']
    BY <1>4, <2>4, <2>5, SameFigures DEF Counted
  <2>6. RequestInv'
    BY <1>1, <1>2, <1>5, <2>3, <2>4, <2>5 DEF CountInv, RequestInv, Counted
  <2>7. QED BY <2>2, <2>6, CountAsked
<1>6. CASE n = Len(KPIS)
  <2>1. Answered(reply, <<"queue">>)
    BY <1>1, <1>2, <1>6
  <2> HIDE DEF reply, counts, read
  <2>2. Cache(request.key, reply) /\ request' = Idle /\ UNCHANGED server
    BY <2>1 DEF Answered
  <2>3. request.since = commits => Counted(reply.counts, Len(KPIS), active)
    BY <1>3, <1>4, <1>6
  <2>4. QED BY <1>1, <1>3, <2>2, <2>3, CountAnswered
<1>7. QED BY <1>2, <1>5, <1>6

LEMMA CountHitOrMiss ==
  ASSUME CountInv, NEW key, NEW next, Hit(key, next) \/ Miss(key)
  PROVE  CountInv'
BY CountKept, CountAsk DEF Hit, Miss

LEMMA FetchedReply ==
  ASSUME NEW q, NEW n, NEW size
  PROVE  /\ Fetched(q, n, size).since = request.since
         /\ Fetched(q, n, size).until = commits
         /\ Fetched(q, n, size).total = request.total
BY DEF Fetched, Reply

\* a page that was counted is fetched
LEMMA CountFetched ==
  ASSUME CountInv, request # Idle, request.done = 1,
         request.key[1] \in {"exceptions", "facet"},
         NEW q, NEW n, NEW size, NEW next, Answered(Fetched(q, n, size), next)
  PROVE  CountInv'
<1> DEFINE reply == Fetched(q, n, size)
<1>1. reply.since = request.since /\ reply.until = commits /\ reply.total = request.total
  BY FetchedReply
<1>2. Cache(request.key, reply) /\ request' = Idle /\ UNCHANGED server
  BY DEF Answered
<1> HIDE DEF reply
<1>3. request.since = commits => reply.total = Total(request.key[2], active)
  BY <1>1 DEF CountInv, RequestInv
<1>4. QED BY <1>1, <1>2, <1>3, CountAnswered

LEMMA ReadCounts ==
  ASSUME CountInv, Position,
         Summary \/ Queue \/ QueueStatement \/ FacetCount \/ FacetStatement
  PROVE  CountInv'
<1>1. CASE Summary \/ Queue \/ FacetCount
  BY <1>1, CountHitOrMiss DEF Summary, Queue, FacetCount
<1>2. CASE QueueStatement
  <2>1. request # Idle /\ request.key[1] = "exceptions"
    BY <1>2 DEF QueueStatement, Waiting
  <2>2. request.key = QueueKey
    BY <2>1 DEF Position, SummaryKey, FacetKey, ExportKey
  <2>3. request.key[2] = filter
    BY <2>2 DEF QueueKey
  <2>4. CASE CountStatement(filter)
    BY <2>1, <2>3, <2>4, CountCounted
  <2>5. CASE ~CountStatement(filter)
    <3>1. request.done = 1 /\ \E next : Answered(Fetched(filter, page, PageSize), next)
      BY <1>2, <2>5 DEF QueueStatement
    <3>2. QED BY <2>1, <3>1, CountFetched
  <2>6. QED BY <2>4, <2>5
<1>3. CASE FacetStatement
  <2>1. PICK n \in DOMAIN Facets :
          /\ AtFacet(n) /\ Waiting("facet")
          /\ \/ CountStatement(FacetQuery(n))
             \/ request.done = 1 /\ Answered(Fetched(FacetQuery(n), 1, 1), Facet(n + 1))
    BY <1>3 DEF FacetStatement
  <2>2. request # Idle /\ request.key[1] = "facet"
    BY <2>1 DEF Waiting
  <2>3. PICK m \in DOMAIN Facets : AtFacet(m) /\ request.key = FacetKey(m)
    BY <2>2 DEF Position, SummaryKey, QueueKey, ExportKey
  <2>4. n = m
    <3>1. <<"facet", n>>[2] = <<"facet", m>>[2]
      BY <2>1, <2>3 DEF AtFacet
    <3>2. QED BY <3>1
  <2>5. request.key[2] = FacetQuery(n)
    BY <2>3, <2>4 DEF FacetKey
  <2>6. QED BY <2>1, <2>2, <2>5, CountCounted, CountFetched
<1>4. QED BY <1>1, <1>2, <1>3

LEMMA ExportCounts ==
  ASSUME CountInv, Position, Export \/ ExportStatement
  PROVE  CountInv'
<1>1. CASE Export
  BY <1>1, CountKept, CountAsk DEF Export, Hit
<1>2. CASE ExportStatement
  <2>1. request # Idle /\ request.key[1] = "exception_export"
    BY <1>2 DEF ExportStatement, Waiting
  <2>2. request.key = ExportKey
    BY <2>1 DEF Position, SummaryKey, QueueKey, FacetKey
  <2>3. CASE CountStatement(filter)
    BY <2>1, <2>3, CountCounted
  <2>4. CASE ~CountStatement(filter)
    <3>1. /\ UNCHANGED server
          /\ \/ Ask(ExportKey) /\ UNCHANGED cache
             \/ request' = Idle /\ \E reply : Cache(ExportKey, reply)
      BY <1>2, <2>4 DEF ExportStatement
    <3>2. QED BY <2>1, <2>2, <3>1, CountAsk, CountAnswered
  <2>5. QED BY <2>3, <2>4
<1>3. QED BY <1>1, <1>2

LEMMA CommittedCounts ==
  ASSUME CountInv, Others
  PROVE  CountInv'
<1>1. commits' = commits + 1 /\ UNCHANGED <<request, cache>>
  BY DEF Others, OpenCase, RefreshCase, Operate, Replace, PromoteOrder, Committed
<1>2. Rows'
  <2>1. CASE OpenCase
    BY <2>1 DEF OpenCase, CountInv, Rows
  <2>2. CASE RefreshCase
    BY <2>2 DEF RefreshCase, CountInv, Rows
  <2>3. CASE Operate
    BY <2>3 DEF Operate, CountInv, Rows
  <2>4. CASE Replace \/ PromoteOrder
    BY <2>4 DEF Replace, PromoteOrder, CountInv, Rows
  <2>5. QED BY <2>1, <2>2, <2>3, <2>4 DEF Others
<1>3. QED BY <1>1, <1>2, CountCommit DEF CountInv, RequestInv

LEMMA PatchCounts ==
  ASSUME CountInv, PatchStatement
  PROVE  CountInv'
<1>1. request # Idle /\ request.key[1] = "patch"
  BY DEF PatchStatement, Waiting
<1>2. CASE commits' = commits + 1 /\ UNCHANGED <<orders, cache>>
             /\ request' = [request EXCEPT !.done = 1]
             /\ \E t : cases' = [cases EXCEPT ![selected].status = t]
  <2>1. Rows'
    BY <1>2 DEF CountInv, Rows
  <2>2. /\ Fields \subseteq DOMAIN request'
        /\ request'.since = request.since /\ request'.key = request.key
    BY <1>1, <1>2 DEF CountInv, RequestInv, Fields
  <2>3. QED BY <1>1, <1>2, <2>1, <2>2, CountCommit
<1>3. CASE request' = Idle /\ UNCHANGED server /\ cache' = cache
  BY <1>3, CountKept
<1>4. CASE request' = Idle /\ UNCHANGED server /\ cache' = <<>>
  <2>1. DOMAIN cache' = {}
    BY <1>4
  <2>2. QED
    BY <1>4, <2>1 DEF CountInv, Rows, RequestInv, ReplyInv, CountsAgree, Summaries,
                      Replies, server
<1>5. QED BY <1>2, <1>3, <1>4 DEF PatchStatement, Invalidate

LEMMA CountNext == CountInv /\ Position /\ [Next]_vars => CountInv'
<1> SUFFICES ASSUME CountInv, Position, [Next]_vars PROVE CountInv'
  OBVIOUS
<1>1. CASE Rerun \/ UNCHANGED vars
  BY <1>1, CountKept DEF Rerun, vars, server, script
<1>2. CASE Detail \/ DetailStatement
  <2>1. UNCHANGED <<server, cache>> /\ (request' = Idle \/ \E key : Ask(key))
    BY <1>2 DEF Detail, DetailStatement
  <2>2. QED BY <2>1, CountKept, CountAsk
<1>3. CASE Fail
  BY <1>3, CountKept DEF Fail
<1>4. QED
  BY <1>1, <1>2, <1>3, CountSummary, ReadCounts, ExportCounts, CommittedCounts, PatchCounts
  DEF Next, Script

(* The figures of a summary that no commit divides add up, and are those   *)
(* that the queue and the facets show of the same moment (api/routes.py:   *)
(* 376-397, kpis/service.py:43-152), for any cases, orders and commits.    *)
(* CountInv says what a reply that is still current counts; Position that  *)
(* the script has one request under way, for the queue its filter selects. *)
THEOREM FiguresAgree == Spec => []CountsAgree
<1>1. Init => Position
  BY DEF Init, Position
<1>2. CountInv => CountsAgree
  BY DEF CountInv
<1>3. QED BY <1>1, <1>2, CountInit, CountNext, PositionNext, PTL DEF Spec
-----------------------------------------------------------------------------
(* The rows that statements read, and the items of a page.                 *)

LEMMA OrderOfIds ==
  ASSUME NEW ids \in SUBSET DOMAIN Cases
  PROVE  IsFiniteSet(ids) /\ Ordering(ById, ids)
<1>1. IsFiniteSet(ids) /\ ids \subseteq Nat
  BY FS_Subset, DashboardAssumption
<1>2. \A m, n \in ids : <<m, n>> \in ById <=> m < n
  BY DEF ById
<1>3. QED BY <1>1, <1>2 DEF Ordering

LEMMA InOrderItems ==
  ASSUME NEW ids \in SUBSET DOMAIN Cases
  PROVE  /\ Cardinality(ids) \in Nat
         /\ InOrder(ids) \in Seq(ids) /\ Len(InOrder(ids)) = Cardinality(ids)
         /\ \A i \in 1..Cardinality(ids) : InOrder(ids)[i] \in ids
         /\ \A i, j \in 1..Cardinality(ids) : i < j => InOrder(ids)[i] < InOrder(ids)[j]
<1>1. IsFiniteSet(ids) /\ Ordering(ById, ids)
  BY OrderOfIds
<1>2. InOrder(ids) \in Seq(ids) /\ Len(InOrder(ids)) = Cardinality(ids)
  BY <1>1, SortedBySeq DEF InOrder
<1>3. /\ Cardinality(ids) \in Nat /\ InOrder(ids) \in [1..Cardinality(ids) -> ids]
      /\ \A i, j \in 1..Cardinality(ids) : i < j => <<InOrder(ids)[i], InOrder(ids)[j]>> \in ById
  BY <1>1, SortedByOrder DEF InOrder
<1>4. QED BY <1>2, <1>3 DEF ById

\* up to size items, those behind the first lo
IsPage(items, ids, lo, size) ==
  /\ items \in Seq(ids)
  /\ Len(items) = IF Cardinality(ids) <= lo THEN 0
                  ELSE IF Cardinality(ids) <= lo + size THEN Cardinality(ids) - lo ELSE size
  /\ \A i \in 1..Len(items) : items[i] = InOrder(ids)[lo + i]

LEMMA PageItems ==
  ASSUME Rows, NEW q, NEW d, NEW n \in Nat \ {0}, NEW size \in Nat \ {0},
         NEW lo, lo = (n - 1) * size
  PROVE  /\ Matching(q, d) \in SUBSET DOMAIN Cases
         /\ Cardinality(Matching(q, d)) \in Nat /\ lo \in Nat
         /\ IsPage(PageOf(q, d, n, size), Matching(q, d), lo, size)
<1> DEFINE ids == Matching(q, d)
           total == Cardinality(ids)
           hi == Min({n * size, Len(InOrder(ids))})
           items == PageOf(q, d, n, size)
<1>1. ids \in SUBSET DOMAIN Cases
  BY DEF Matching, Scoped, Rows
<1>2. /\ total \in Nat /\ Len(InOrder(ids)) = total
      /\ \A i \in 1..total : InOrder(ids)[i] \in ids
  BY <1>1, InOrderItems
<1>3. lo \in Nat /\ n * size = lo + size
  OBVIOUS
<1>4. hi = IF total <= lo + size THEN total ELSE lo + size
  BY <1>2, <1>3 DEF Min
<1>5. items = SubSeq(InOrder(ids), lo + 1, hi)
  BY DEF PageOf
<1> HIDE DEF ids, total, hi, items
<1>6. hi \in Int /\ lo + 1 \in Int /\ \A i \in lo + 1 .. hi : InOrder(ids)[i] \in ids
  BY <1>2, <1>3, <1>4
<1>7. /\ items \in Seq(ids)
      /\ Len(items) = IF lo + 1 <= hi THEN hi - (lo + 1) + 1 ELSE 0
      /\ \A i \in 1 .. hi - (lo + 1) + 1 : items[i] = InOrder(ids)[lo + 1 + i - 1]
  <2> DEFINE s == InOrder(ids)
             a == lo + 1
  <2>1. a \in Int /\ hi \in Int /\ \A i \in a..hi : s[i] \in ids
    BY <1>6
  <2> HIDE DEF s, a
  <2>2. /\ SubSeq(s, a, hi) \in Seq(ids)
        /\ Len(SubSeq(s, a, hi)) = IF a <= hi THEN hi - a + 1 ELSE 0
        /\ \A i \in 1..hi - a + 1 : SubSeq(s, a, hi)[i] = s[a + i - 1]
    BY <2>1, SubSeqProperties
  <2>3. QED BY <1>5, <2>2 DEF s, a
<1>8. Len(items) = IF total <= lo THEN 0
                   ELSE IF total <= lo + size THEN total - lo ELSE size
  BY <1>2, <1>3, <1>4, <1>7
<1>9. \A i \in 1..Len(items) : items[i] = InOrder(ids)[lo + i]
  BY <1>2, <1>3, <1>4, <1>7
<1>10. QED BY <1>1, <1>2, <1>3, <1>7, <1>8, <1>9 DEF IsPage, ids, total, items

-----------------------------------------------------------------------------
(* What a request has read, and what a reply keeps of it, are rows of the  *)
(* dataset that the request resolved.                                      *)
OfDataset(read, d) == \A id \in read : Cases[id].dataset = d

ReadInv ==
  /\ active \in Datasets /\ page \in Pages
  /\ request # Idle => /\ Fields \subseteq DOMAIN request
                       /\ request.dataset \in Datasets
                       /\ OfDataset(request.read, request.dataset)
  /\ \A k \in DOMAIN cache :
       k[1] # "exception_export" => \E d \in Datasets : OfDataset(cache[k].read, d)

LEMMA ReadKept ==
  ASSUME ReadInv, active' \in Datasets, page' \in Pages, request' \in {request, Idle},
         cache' = cache \/ cache' = <<>>
  PROVE  ReadInv'
<1>1. DOMAIN <<>> = {}
  OBVIOUS
<1>2. QED BY <1>1 DEF ReadInv, OfDataset

LEMMA ReadAsk ==
  ASSUME ReadInv, UNCHANGED <<active, page, cache>>, NEW key, Ask(key)
  PROVE  ReadInv'
BY DEF ReadInv, OfDataset, Ask, Fields

LEMMA ReadStatement ==
  ASSUME ReadInv, UNCHANGED <<active, page, cache>>, request # Idle,
         Fields \subseteq DOMAIN request', request'.dataset = request.dataset,
         OfDataset(request'.read, request.dataset)
  PROVE  ReadInv'
BY DEF ReadInv, OfDataset

LEMMA ReadCounted ==
  ASSUME ReadInv, request # Idle, NEW q, CountStatement(q)
  PROVE  ReadInv'
<1> DEFINE n == Cardinality(Matching(q, request.dataset))
           ids == Matching(q, request.dataset)
<1>1. /\ request' = [request EXCEPT !.done = 1, !.total = n, !.read = ids]
      /\ UNCHANGED <<active, page, cache>>
  BY DEF CountStatement, Statement, server
<1>2. OfDataset(ids, request.dataset)
  BY DEF OfDataset, Matching, Scoped
<1> HIDE DEF n, ids
<1>3. /\ Fields \subseteq DOMAIN request' /\ request'.dataset = request.dataset
      /\ request'.read = ids
  BY <1>1 DEF ReadInv, Fields
<1>4. QED BY <1>1, <1>2, <1>3, ReadStatement

LEMMA ReadAnswered ==
  ASSUME ReadInv, UNCHANGED <<active, page>>, request # Idle, request' = Idle,
         NEW reply, Cache(request.key, reply),
         request.key[1] # "exception_export" => OfDataset(reply.read, request.dataset)
  PROVE  ReadInv'
BY DEF ReadInv, OfDataset, Cache

LEMMA ReadHitOrMiss ==
  ASSUME ReadInv, NEW key, NEW next, Hit(key, next) \/ Miss(key)
  PROVE  ReadInv'
BY ReadKept, ReadAsk DEF Hit, Miss, server, ReadInv

LEMMA ReadFetched ==
  ASSUME ReadInv, Rows, request # Idle, NEW q, NEW n \in Nat \ {0}, NEW size \in Nat \ {0},
         NEW next, Answered(Fetched(q, n, size), next)
  PROVE  ReadInv'
<1> DEFINE items == PageOf(q, request.dataset, n, size)
           reply == Fetched(q, n, size)
<1>1. items \in Seq(Matching(q, request.dataset))
  BY PageItems DEF IsPage
<1>2. reply.read = request.read \cup Range(items)
  BY DEF Fetched, Reply
<1>3. UNCHANGED <<active, page>> /\ request' = Idle /\ Cache(request.key, reply)
  BY DEF Answered, server
<1> HIDE DEF items, reply
<1>4. Range(items) \subseteq Matching(q, request.dataset)
  BY <1>1, LenProperties, ElementOfSeq DEF Range
<1>5. OfDataset(reply.read, request.dataset)
  BY <1>2, <1>4 DEF ReadInv, OfDataset, Matching, Scoped
<1>6. QED BY <1>3, <1>5, ReadAnswered

LEMMA ReadSummary ==
  ASSUME ReadInv, SummaryStatement
  PROVE  ReadInv'
<1> DEFINE n == request.done + 1
           counts == Append(request.counts, Kpi(KPIS[n], request.dataset))
           read == request.read \cup Scoped(request.dataset)
           reply == Reply(<<>>, counts, 0, read)
<1>1. /\ request # Idle /\ request.key[1] = "summary"
      /\ \/ Statement([request EXCEPT !.done = n, !.counts = counts, !.read = read])
         \/ Answered(reply, <<"queue">>)
  BY DEF SummaryStatement, Waiting
<1>2. OfDataset(read, request.dataset)
  BY <1>1 DEF ReadInv, OfDataset, Scoped
<1>3. reply.read = read
  BY DEF Reply
<1> HIDE DEF n, counts, read, reply
<1>4. CASE Statement([request EXCEPT !.done = n, !.counts = counts, !.read = read])
  <2>1. /\ request' = [request EXCEPT !.done = n, !.counts = counts, !.read = read]
        /\ UNCHANGED <<active, page, cache>>
    BY <1>4 DEF Statement, server
  <2>2. /\ Fields \subseteq DOMAIN request' /\ request'.dataset = request.dataset
        /\ request'.read = read
    BY <1>1, <2>1 DEF ReadInv, Fields
  <2>3. QED BY <1>1, <1>2, <2>1, <2>2, ReadStatement
<1>5. CASE Answered(reply, <<"queue">>)
  BY <1>1, <1>2, <1>3, <1>5, ReadAnswered DEF Answered, server
<1>6. QED BY <1>1, <1>4, <1>5

LEMMA ReadNext == ReadInv /\ Rows /\ [Next]_vars => ReadInv'
<1> SUFFICES ASSUME ReadInv, Rows, [Next]_vars PROVE ReadInv'
  OBVIOUS
<1>1. CASE Rerun \/ Fail \/ UNCHANGED vars
  BY <1>1, ReadKept DEF Rerun, Fail, vars, server, script, ReadInv
<1>2. CASE Summary \/ Queue \/ FacetCount
  BY <1>2, ReadHitOrMiss DEF Summary, Queue, FacetCount
<1>3. CASE QueueStatement
  <2>1. page \in Nat \ {0} /\ PageSize \in Nat \ {0} /\ request # Idle
    BY <1>3, DashboardAssumption DEF ReadInv, QueueStatement, Waiting
  <2>2. CountStatement(filter) \/ \E next : Answered(Fetched(filter, page, PageSize), next)
    BY <1>3 DEF QueueStatement
  <2>3. QED BY <2>1, <2>2, ReadCounted, ReadFetched
<1>4. CASE FacetStatement
  <2>1. request # Idle /\ \E q, next : CountStatement(q) \/ Answered(Fetched(q, 1, 1), next)
    BY <1>4 DEF FacetStatement, Waiting
  <2>2. QED BY <2>1, ReadCounted, ReadFetched
<1>5. CASE Export
  BY <1>5, ReadHitOrMiss, ReadAsk DEF Export, server
<1>6. CASE ExportStatement
  <2>1. request # Idle /\ request.key[1] = "exception_export"
    BY <1>6 DEF ExportStatement, Waiting
  <2>2. CASE CountStatement(filter)
    BY <2>1, <2>2, ReadCounted
  <2>3. CASE ~CountStatement(filter)
    <3>1. /\ UNCHANGED <<active, page>>
          /\ \/ Ask(ExportKey) /\ UNCHANGED cache
             \/ request' = Idle /\ \E reply : Cache(ExportKey, reply)
      BY <1>6, <2>3 DEF ExportStatement, server
    <3>2. ASSUME NEW reply, Cache(ExportKey, reply), request' = Idle PROVE ReadInv'
      BY <3>1, <3>2 DEF ReadInv, OfDataset, Cache, ExportKey
    <3>3. QED BY <3>1, <3>2, ReadAsk
  <2>4. QED BY <2>2, <2>3
<1>7. CASE Detail \/ DetailStatement
  <2>1. UNCHANGED <<active, page, cache>> /\ (request' = Idle \/ \E key : Ask(key))
    BY <1>7 DEF Detail, DetailStatement, server
  <2>2. QED BY <2>1, ReadKept, ReadAsk DEF ReadInv
<1>8. CASE PatchStatement
  <2>1. active' = active /\ page' = page /\ request # Idle
    BY <1>8 DEF PatchStatement, server, Waiting
  <2>2. \/ request' = Idle /\ (cache' = cache \/ cache' = <<>>)
        \/ request' = [request EXCEPT !.done = 1] /\ cache' = cache
    BY <1>8 DEF PatchStatement, Invalidate
  <2>3. CASE request' = [request EXCEPT !.done = 1] /\ cache' = cache
    <3>1. /\ Fields \subseteq DOMAIN request' /\ request'.dataset = request.dataset
          /\ request'.read = request.read
      BY <2>1, <2>3 DEF ReadInv, Fields
    <3>2. QED BY <2>1, <2>3, <3>1, ReadStatement DEF ReadInv
  <2>4. QED BY <2>1, <2>2, <2>3, ReadKept DEF ReadInv
<1>9. CASE Others
  <2>1. UNCHANGED <<request, cache, page>> /\ active' \in Datasets
    BY <1>9 DEF Others, OpenCase, RefreshCase, Operate, Replace, PromoteOrder, Committed, ReadInv
  <2>2. QED BY <2>1, ReadKept DEF ReadInv
<1>10. QED
  BY <1>1, <1>2, <1>3, <1>4, <1>5, <1>6, <1>7, <1>8, <1>9, ReadSummary DEF Next, Script

(* Whatever moves the active dataset between two statements of a request,  *)
(* what a summary counts and what a page counts and lists are rows of one  *)
(* dataset (api/routes.py:376 and 458, queries.py:32-35 and 256): each     *)
(* request resolves the dataset once and scopes every statement to it.     *)
THEOREM OneDataset == Spec => []RepliesAreOfOneDataset
<1>1. Init => Position
  BY DEF Init, Position
<1>2. Init => ReadInv
  <2>1. DOMAIN <<>> = {}
    OBVIOUS
  <2>2. QED BY <2>1, DashboardAssumption DEF Init, ReadInv
<1>3. CountInv => Rows
  BY DEF CountInv
<1>4. ReadInv => RepliesAreOfOneDataset
  <2> SUFFICES ASSUME ReadInv, NEW k \in DOMAIN cache, k[1] # "exception_export"
               PROVE  Cardinality({Cases[id].dataset : id \in cache[k].read}) <= 1
    BY DEF RepliesAreOfOneDataset
  <2> DEFINE found == {Cases[id].dataset : id \in cache[k].read}
  <2>1. PICK d \in Datasets : OfDataset(cache[k].read, d)
    BY DEF ReadInv
  <2>2. found \in SUBSET {d}
    BY <2>1 DEF OfDataset
  <2> HIDE DEF found
  <2>3. IsFiniteSet({d}) /\ Cardinality({d}) = 1
    BY FS_Singleton
  <2>4. Cardinality(found) <= 1
    BY <2>2, <2>3, FS_Subset
  <2>5. QED BY <2>4 DEF found
<1>5. QED
  BY <1>1, <1>2, <1>3, <1>4, CountInit, CountNext, PositionNext, ReadNext, PTL DEF Spec
-----------------------------------------------------------------------------
(* The rows of an export. *)

FirstOf(ids, n) == [i \in 1..n |-> InOrder(ids)[i]]

\* ids has what start has, and nothing new before the end of it
Behind(ids, start) == start \subseteq ids /\ \A m \in start, n \in ids \ start : m < n

Whole(e) ==
  /\ IsPrefix(InOrder(e.start), e.rows)
  /\ \A m, n \in DOMAIN e.rows : m < n => e.rows[m] < e.rows[n]

LEMMA FirstItems ==
  ASSUME NEW ids \in SUBSET DOMAIN Cases, NEW n \in 0..Cardinality(ids)
  PROVE  /\ FirstOf(ids, n) \in Seq(ids) /\ Len(FirstOf(ids, n)) = n
         /\ \A i \in 1..n : FirstOf(ids, n)[i] = InOrder(ids)[i]
<1> DEFINE f == FirstOf(ids, n)
<1>1. n \in Nat /\ f \in [1..n -> ids]
  BY InOrderItems DEF FirstOf
<1>2. \A i \in 1..n : f[i] = InOrder(ids)[i]
  BY DEF FirstOf
<1> HIDE DEF f
<1>3. f \in UNION {[1..k -> ids] : k \in Nat}
  BY <1>1
<1>4. f \in Seq(ids)
  BY <1>3, SeqDef, Zenon
<1>5. 1..Len(f) = 1..n /\ Len(f) \in Nat
  BY <1>1, <1>4, LenProperties
<1>6. QED BY <1>1, <1>2, <1>4, <1>5 DEF f

\* the first lo ids, and the page behind them
LEMMA NextPage ==
  ASSUME NEW ids \in SUBSET DOMAIN Cases, NEW lo \in Nat, lo <= Cardinality(ids),
         NEW size \in Nat \ {0}, NEW items, IsPage(items, ids, lo, size)
  PROVE  LET m == lo + Len(items)
         IN  /\ m = IF Cardinality(ids) <= lo + size THEN Cardinality(ids) ELSE lo + size
             /\ m \in 0..Cardinality(ids)
             /\ FirstOf(ids, lo) \o items = FirstOf(ids, m)
             /\ items = <<>> => m = Cardinality(ids)
<1> DEFINE total == Cardinality(ids)
           m == lo + Len(items)
           f == FirstOf(ids, lo)
           g == FirstOf(ids, m)
<1>0. lo <= total
  OBVIOUS
<1>1. /\ ids \in SUBSET DOMAIN Cases /\ total \in Nat
      /\ items \in Seq(ids)
      /\ Len(items) = IF total <= lo THEN 0
                      ELSE IF total <= lo + size THEN total - lo ELSE size
      /\ \A i \in 1..Len(items) : items[i] = InOrder(ids)[lo + i]
  BY InOrderItems DEF IsPage
<1> HIDE DEF total
<1>2. m \in 0..total /\ m = IF total <= lo + size THEN total ELSE lo + size
  BY <1>0, <1>1
<1>3. /\ f \in Seq(ids) /\ Len(f) = lo
      /\ \A i \in 1..lo : f[i] = InOrder(ids)[i]
  BY <1>0, <1>1, FirstItems DEF total
<1>4. /\ g \in Seq(ids) /\ Len(g) = m
      /\ \A i \in 1..m : g[i] = InOrder(ids)[i]
  BY <1>1, <1>2, FirstItems DEF total
<1>2a. lo + Len(items) = m
  OBVIOUS
<1> HIDE DEF f, g, m
<1>5. /\ f \o items \in Seq(ids) /\ Len(f \o items) = m
      /\ \A i \in 1..m : (f \o items)[i] = IF i <= lo THEN f[i] ELSE items[i - lo]
  <2>1. /\ f \o items \in Seq(ids) /\ Len(f \o items) = Len(f) + Len(items)
        /\ \A i \in 1..Len(f) + Len(items) :
             (f \o items)[i] = IF i <= Len(f) THEN f[i] ELSE items[i - Len(f)]
    BY <1>1, <1>3, ConcatProperties
  <2>2. QED BY <1>2a, <1>3, <2>1
<1>6. ASSUME NEW i \in 1..m PROVE (f \o items)[i] = g[i]
  <2>1. m \in Nat /\ Len(items) \in Nat
    BY <1>1, <1>2
  <2>2. CASE i <= lo
    BY <1>1, <1>3, <1>4, <1>5, <2>1, <2>2
  <2>3. CASE ~(i <= lo)
    <3>1. i - lo \in 1..Len(items) /\ lo + (i - lo) = i
      BY <1>2a, <1>1, <1>2, <2>1, <2>3
    <3>2. QED BY <1>1, <1>4, <1>5, <2>3, <3>1
  <2>4. QED BY <2>2, <2>3
<1>7. f \o items = g
  BY <1>4, <1>5, <1>6, SeqEqual
<1>8. items = <<>> => m = total
  <2>1. items = <<>> => Len(items) = 0
    OBVIOUS
  <2>2. QED BY <1>2a, <1>0, <1>1, <1>2, <2>1
<1>9. QED BY <1>2, <1>7, <1>8 DEF total, f, g, m

\* an export that has as many rows as matched when it began has those
LEMMA WholeExport ==
  ASSUME NEW ids \in SUBSET DOMAIN Cases, NEW start \in SUBSET DOMAIN Cases,
         Behind(ids, start), NEW n \in Cardinality(start)..Cardinality(ids),
         NEW e, e.rows = FirstOf(ids, n), e.start = start
  PROVE  Whole(e)
<1> DEFINE s == InOrder(start)
           t == FirstOf(ids, n)
           k == Cardinality(start)
<1>1. /\ k \in Nat /\ s \in Seq(start) /\ Len(s) = k
      /\ Cardinality(ids) \in Nat /\ n \in 0..Cardinality(ids) /\ k <= n
      /\ \A i \in 1..k : s[i] \in start
      /\ \A i, j \in 1..Cardinality(ids) : i < j => InOrder(ids)[i] < InOrder(ids)[j]
  BY InOrderItems
<1>2. /\ t \in Seq(ids) /\ Len(t) = n
      /\ \A i \in 1..n : t[i] = InOrder(ids)[i]
  BY <1>1, FirstItems
<1>3. \A i \in 1..k : InOrder(ids)[i] = s[i]
  <2>1. IsFiniteSet(ids) /\ Ordering(ById, ids) /\ start \in SUBSET ids
    BY OrderOfIds DEF Behind
  <2>2. \A x \in start, y \in ids \ start : <<x, y>> \in ById
    BY DEF Behind, ById
  <2>3. QED BY <2>1, <2>2, SortedByExtends DEF InOrder
<1>4. \A i \in 1..k : t[i] = s[i]
  BY <1>1, <1>2, <1>3
<1>5. DOMAIN t = 1..n
  BY DEF FirstOf
<1> HIDE DEF s, t, k
<1>6. /\ SubSeq(s, 1, k) \in Seq(ids) /\ Len(SubSeq(s, 1, k)) = k
      /\ \A i \in 1..k : SubSeq(s, 1, k)[i] = s[i]
  <2>1. 1 \in Int /\ k \in Int /\ \A i \in 1..k : s[i] \in ids
    BY <1>1 DEF Behind
  <2>2. /\ SubSeq(s, 1, k) \in Seq(ids)
        /\ Len(SubSeq(s, 1, k)) = IF 1 <= k THEN k - 1 + 1 ELSE 0
        /\ \A i \in 1..k - 1 + 1 : SubSeq(s, 1, k)[i] = s[1 + i - 1]
    BY <2>1, SubSeqProperties
  <2>3. QED BY <1>1, <2>2
<1>7. /\ SubSeq(t, 1, k) \in Seq(ids) /\ Len(SubSeq(t, 1, k)) = k
      /\ \A i \in 1..k : SubSeq(t, 1, k)[i] = t[i]
  <2>1. 1 \in Int /\ k \in Int /\ \A i \in 1..k : t[i] \in ids
    BY <1>1, <1>2, ElementOfSeq
  <2>2. /\ SubSeq(t, 1, k) \in Seq(ids)
        /\ Len(SubSeq(t, 1, k)) = IF 1 <= k THEN k - 1 + 1 ELSE 0
        /\ \A i \in 1..k - 1 + 1 : SubSeq(t, 1, k)[i] = t[1 + i - 1]
    BY <2>1, SubSeqProperties
  <2>3. QED BY <1>1, <2>2
<1>8. SubSeq(s, 1, k) = SubSeq(t, 1, k)
  <2>1. \A i \in 1..k : SubSeq(s, 1, k)[i] = SubSeq(t, 1, k)[i]
    BY <1>4, <1>6, <1>7
  <2>2. QED BY <1>6, <1>7, <2>1, SeqEqual
<1>9. IsPrefix(s, t)
  BY <1>1, <1>2, <1>8 DEF IsPrefix
<1>10. \A i, j \in DOMAIN t : i < j => t[i] < t[j]
  BY <1>1, <1>2, <1>5
<1>11. QED BY <1>9, <1>10 DEF Whole, s, t

-----------------------------------------------------------------------------
(* While nothing but the end of the queue moves, the pages collected so    *)
(* far are its first rows, and it has at least as many rows as it had when *)
(* they were counted.                                                      *)
Collected ==
  LET ids == Matching(filter, active)
  IN  /\ request.dataset = active
      /\ export.start \in SUBSET DOMAIN Cases /\ Behind(ids, export.start)
      /\ export.page \in Nat \ {0}
      /\ (export.page - 1) * ExportSize <= Cardinality(ids)
      /\ export.rows = FirstOf(ids, (export.page - 1) * ExportSize)
      /\ request.done = 1 => request.total \in Cardinality(export.start)..Cardinality(ids)

ExportInv ==
  /\ {"rows", "page", "start", "calm"} \subseteq DOMAIN export
  /\ Waiting("exception_export") /\ export.calm => Collected
  /\ \A k \in DOMAIN cache :
       k[1] = "exception_export" /\ cache[k].calm => Whole(cache[k])

\* the requests of everything but the export
LEMMA ExportElse ==
  ASSUME ExportInv, ~Waiting("exception_export")', export' \in {export, NoExport},
         \A k \in DOMAIN cache' :
           k[1] = "exception_export" => k \in DOMAIN cache /\ cache'[k] = cache[k]
  PROVE  ExportInv'
<1>1. {"rows", "page", "start", "calm"} \subseteq DOMAIN export'
  BY DEF ExportInv, NoExport
<1>2. \A k \in DOMAIN cache' :
        k[1] = "exception_export" /\ cache'[k].calm => Whole(cache'[k])
  BY DEF ExportInv
<1> HIDE DEF Whole
<1>3. QED
  <2>1. ASSUME NEW k \in DOMAIN cache', k[1] = "exception_export", cache'[k].calm
        PROVE  Whole(cache[k])' 
    BY <1>2, <2>1 DEF Whole, InOrder, SortedBy, Before, NotAfter
  <2>2. QED BY <1>1, <2>1 DEF ExportInv

\* what an answer to the export leaves in the cache
LEMMA ExportAnswered ==
  ASSUME ExportInv, request' = Idle, export' = NoExport,
         NEW reply, Cache(ExportKey, reply), reply.calm => Whole(reply)
  PROVE  ExportInv'
<1>1. {"rows", "page", "start", "calm"} \subseteq DOMAIN export' /\ ~Waiting("exception_export")'
  BY DEF NoExport, Waiting
<1>2. \A k \in DOMAIN cache' :
        k[1] = "exception_export" /\ cache'[k].calm => Whole(cache'[k])
  BY DEF ExportInv, Cache
<1>3. QED
  BY <1>1, <1>2 DEF ExportInv, Whole, InOrder, SortedBy, Before, NotAfter, ById

\* the export goes on, with the cases as they are
LEMMA ExportGoes ==
  ASSUME ExportInv, UNCHANGED <<active, cases, filter, cache>>,
         {"rows", "page", "start", "calm"} \subseteq DOMAIN export',
         export'.calm =>
           LET ids == Matching(filter, active)
           IN  /\ request'.dataset = active
               /\ export'.start \in SUBSET DOMAIN Cases /\ Behind(ids, export'.start)
               /\ export'.page \in Nat \ {0}
               /\ (export'.page - 1) * ExportSize <= Cardinality(ids)
               /\ export'.rows = FirstOf(ids, (export'.page - 1) * ExportSize)
               /\ request'.done = 1 =>
                    request'.total \in Cardinality(export'.start)..Cardinality(ids)
  PROVE  ExportInv'
<1> DEFINE ids == Matching(filter, active)
<1>1. Matching(filter, active)' = ids
  BY DEF Matching, Scoped, Selects
<1>2. Behind(Matching(filter, active), export.start)' = Behind(ids', export'.start)
  BY DEF Behind
<1>3. FirstOf(Matching(filter, active), (export.page - 1) * ExportSize)'
        = FirstOf(ids', (export'.page - 1) * ExportSize)
  BY DEF FirstOf, InOrder, SortedBy, Before, NotAfter, ById
<1>4. ASSUME export'.calm PROVE Collected'
  BY <1>1, <1>2, <1>3, <1>4 DEF Collected
<1>5. \A k \in DOMAIN cache' :
        k[1] = "exception_export" /\ cache'[k].calm => Whole(cache'[k])
  BY DEF ExportInv
<1>6. QED
  BY <1>4, <1>5 DEF ExportInv, Whole, InOrder, SortedBy, Before, NotAfter, ById
LEMMA ExportStarts ==
  ASSUME ExportInv, Rows, Position, Export
  PROVE  ExportInv'
<1> DEFINE start == Matching(filter, active)
<1>1. step = <<"export">> /\ UNCHANGED <<active, cases, filter, cache>>
  BY DEF Export, Hit, server
<1>2. CASE Hit(ExportKey, <<"detail">>)
  <2>1. request = Idle
    BY <1>1, <1>2, NothingAsked DEF Hit
  <2>2. request' = Idle /\ export' = export /\ cache' = cache
    BY <1>2, <2>1 DEF Hit
  <2>3. QED BY <2>2, ExportElse DEF Waiting
<1>3. CASE ~Hit(ExportKey, <<"detail">>)
  <2>1. /\ Ask(ExportKey)
        /\ export' = [NoExport EXCEPT !.page = 1, !.start = start,
                                      !.calm = TRUE, !.since = commits]
    BY <1>3 DEF Export
  <2>2. start \in SUBSET DOMAIN Cases
    BY DEF Matching, Scoped, Rows
  <2>3. Cardinality(start) \in Nat /\ FirstOf(start, 0) = <<>>
    BY <2>2, InOrderItems DEF FirstOf
  <2>4. Behind(start, start)
    BY DEF Behind
  <2>5. (1 - 1) * ExportSize = 0
    BY DashboardAssumption
  <2> HIDE DEF start
  <2>6. /\ {"rows", "page", "start", "calm"} \subseteq DOMAIN export'
        /\ export'.page = 1 /\ export'.start = start /\ export'.rows = <<>>
    BY <2>1 DEF NoExport
  <2>7. request'.dataset = active /\ request'.done = 0
    BY <2>1 DEF Ask
  <2>8. /\ export'.start \in SUBSET DOMAIN Cases /\ Behind(start, export'.start)
        /\ export'.page \in Nat \ {0}
        /\ (export'.page - 1) * ExportSize <= Cardinality(start)
        /\ export'.rows = FirstOf(start, (export'.page - 1) * ExportSize)
    BY <2>2, <2>3, <2>4, <2>5, <2>6
  <2>9. QED BY <1>1, <2>6, <2>7, <2>8, ExportGoes DEF start
<1>4. QED BY <1>2, <1>3

\* a page is counted
LEMMA ExportCounted ==
  ASSUME ExportInv, ReadInv, Rows, Waiting("exception_export"), CountStatement(filter)
  PROVE  ExportInv'
<1> DEFINE n == Cardinality(Matching(filter, request.dataset))
           read == Matching(filter, request.dataset)
           ids == Matching(filter, active)
<1>1. /\ request' = [request EXCEPT !.done = 1, !.total = n, !.read = read]
      /\ UNCHANGED <<active, cases, filter, cache, export>>
  BY DEF CountStatement, Statement, server
<1>2. ids \in SUBSET DOMAIN Cases
  BY DEF Matching, Scoped, Rows
<1>3. Cardinality(ids) \in Nat /\ IsFiniteSet(ids)
  BY <1>2, InOrderItems, OrderOfIds
<1>4. export.calm => Collected /\ n = Cardinality(ids)
  BY DEF ExportInv, Collected
<1>5. export.calm => Cardinality(ids) \in Cardinality(export.start)..Cardinality(ids)
  <2>1. export.calm => Cardinality(export.start) \in Nat
                       /\ Cardinality(export.start) <= Cardinality(ids)
    BY <1>3, <1>4, FS_Subset, FS_CardinalityType DEF Collected, Behind
  <2>2. QED BY <1>3, <2>1
<1> HIDE DEF n, read
<1>6. request'.dataset = request.dataset /\ request'.total = n
  BY <1>1 DEF ReadInv, Fields, Waiting
<1>7. QED
  BY <1>1, <1>4, <1>5, <1>6, ExportGoes DEF Collected, ExportInv

\* a page is fetched
LEMMA ExportFetched ==
  ASSUME ExportInv, Rows, Waiting("exception_export"), ExportStatement, ~CountStatement(filter)
  PROVE  ExportInv'
<1> DEFINE ids == Matching(filter, active)
           items == PageOf(filter, request.dataset, export.page, ExportSize)
           rows == export.rows \o items
           reply == [rows |-> rows, start |-> export.start,
                     calm |-> export.calm, since |-> export.since]
           lo == (export.page - 1) * ExportSize
           total == Cardinality(ids)
           m == lo + Len(items)
<1>1. /\ request.done = 1 /\ UNCHANGED <<active, cases, filter>>
      /\ \/ /\ Len(rows) < request.total /\ items # <<>>
            /\ export' = [export EXCEPT !.rows = rows, !.page = @ + 1]
            /\ Ask(ExportKey)
            /\ UNCHANGED cache
         \/ /\ ~(Len(rows) < request.total /\ items # <<>>)
            /\ Cache(ExportKey, reply)
            /\ export' = NoExport
            /\ request' = Idle
  BY DEF ExportStatement, MorePages, server
<1>2. ASSUME export.calm
      PROVE  /\ Collected /\ ids \in SUBSET DOMAIN Cases
             /\ Cardinality(export.start) \in Nat /\ total \in Nat /\ lo \in Nat
             /\ m \in 0..total /\ rows = FirstOf(ids, m) /\ Len(rows) = m
             /\ items = <<>> => m = total
             /\ m = IF total <= lo + ExportSize THEN total ELSE lo + ExportSize
  <2>1. Collected /\ ids \in SUBSET DOMAIN Cases
    BY <1>2 DEF ExportInv, Matching, Scoped, Rows
  <2>2. total \in Nat /\ Cardinality(export.start) \in Nat
    BY <2>1, InOrderItems DEF Collected
  <2>3. export.page \in Nat \ {0} /\ ExportSize \in Nat \ {0} /\ lo <= total
    BY <2>1, DashboardAssumption DEF Collected
  <2>4. items = PageOf(filter, active, export.page, ExportSize) /\ rows = FirstOf(ids, lo) \o items
    BY <2>1 DEF Collected
  <2>5. lo \in Nat /\ IsPage(items, ids, lo, ExportSize)
    BY <2>3, <2>4, PageItems
  <2> HIDE DEF lo, rows, items, ids
  <2>6. /\ m \in 0..total /\ rows = FirstOf(ids, m) /\ (items = <<>> => m = total)
        /\ m = IF total <= lo + ExportSize THEN total ELSE lo + ExportSize
    <3>1. LET n == lo + Len(items)
          IN  /\ n = IF Cardinality(ids) <= lo + ExportSize THEN Cardinality(ids) ELSE lo + ExportSize
              /\ n \in 0..Cardinality(ids)
              /\ FirstOf(ids, lo) \o items = FirstOf(ids, n)
              /\ items = <<>> => n = Cardinality(ids)
      <4>1. ids \in SUBSET DOMAIN Cases /\ lo <= Cardinality(ids) /\ ExportSize \in Nat \ {0}
        BY <2>1, <2>3
      <4>2. QED BY <2>5, <4>1, NextPage
    <3>2. rows = FirstOf(ids, lo) \o items
      BY <2>4 DEF items
    <3>3. QED BY <3>1, <3>2
  <2> HIDE DEF m
  <2>7. Len(rows) = m
    BY <2>1, <2>6, FirstItems DEF total
  <2>8. QED BY <2>1, <2>2, <2>5, <2>6, <2>7
<1>3. CASE export' = [export EXCEPT !.rows = rows, !.page = @ + 1] /\ Ask(ExportKey)
           /\ Len(rows) < request.total /\ items # <<>> /\ UNCHANGED cache
  <2> HIDE DEF rows
  <2>1. /\ {"rows", "page", "start", "calm"} \subseteq DOMAIN export'
        /\ export'.rows = rows /\ export'.page = export.page + 1
        /\ export'.start = export.start /\ export'.calm = export.calm
    BY <1>3 DEF ExportInv
  <2>2. request'.dataset = active /\ request'.done = 0
    BY <1>3 DEF Ask
  <2>3. ASSUME export'.calm
        PROVE  /\ export'.start \in SUBSET DOMAIN Cases /\ Behind(ids, export'.start)
               /\ export'.page \in Nat \ {0}
               /\ (export'.page - 1) * ExportSize <= total
               /\ export'.rows = FirstOf(ids, (export'.page - 1) * ExportSize)
    <3>1. /\ Collected /\ total \in Nat /\ lo \in Nat /\ m \in 0..total /\ rows = FirstOf(ids, m)
          /\ Len(rows) = m
          /\ m = IF total <= lo + ExportSize THEN total ELSE lo + ExportSize
      BY <1>2, <2>1, <2>3
    <3>2. request.total <= total /\ request.total \in Int
      BY <1>1, <3>1 DEF Collected
    <3>3. ExportSize \in Nat \ {0} /\ export.page \in Nat \ {0}
      BY <3>1, DashboardAssumption DEF Collected
    <3>4. (export'.page - 1) * ExportSize = lo + ExportSize
      BY <2>1, <3>3
    <3> HIDE DEF lo, ids, total, m
    <3>5. m = lo + ExportSize /\ m <= total
      BY <1>3, <3>1, <3>2, <3>3
    <3>6. QED BY <2>1, <3>1, <3>3, <3>4, <3>5 DEF Collected, ids
  <2>4. QED BY <1>1, <1>3, <2>1, <2>2, <2>3, ExportGoes
<1>4. CASE /\ ~(Len(rows) < request.total /\ items # <<>>) /\ Cache(ExportKey, reply)
           /\ export' = NoExport /\ request' = Idle
  <2>1. ASSUME reply.calm PROVE Whole(reply)
    <3>1. export.calm /\ reply.rows = rows /\ reply.start = export.start
      BY <2>1
    <3>2. /\ Collected /\ ids \in SUBSET DOMAIN Cases
          /\ Cardinality(export.start) \in Nat /\ total \in Nat
          /\ m \in 0..total /\ rows = FirstOf(ids, m) /\ Len(rows) = m
          /\ items = <<>> => m = total
      BY <1>2, <3>1
    <3>3. /\ request.total \in Cardinality(export.start)..total
          /\ export.start \in SUBSET DOMAIN Cases /\ Behind(ids, export.start)
      BY <1>1, <3>2 DEF Collected
    <3> HIDE DEF m, total, rows, items, ids, reply
    <3>4. m \in Cardinality(export.start)..total
      BY <1>4, <3>2, <3>3
    <3>5. QED BY <3>1, <3>2, <3>3, <3>4, WholeExport DEF total
  <2> HIDE DEF reply
  <2>2. QED BY <1>4, <2>1, ExportAnswered
<1>5. QED BY <1>1, <1>3, <1>4

\* commits of other sessions while the export goes on
LEMMA ExportCommitted ==
  ASSUME ExportInv, Rows, Rows', Committed
  PROVE  ExportInv'
<1> DEFINE before == Matching(filter, active)
           after == Matching(filter, active)'
           calm == /\ export.calm
                   /\ active' = active
                   /\ before \subseteq after
                   /\ \A m \in before, n \in after \ before : m < n
<1>1. export' = [export EXCEPT !.calm = calm] /\ UNCHANGED <<request, cache, filter>>
  BY DEF Committed
<1>2. before \in SUBSET DOMAIN Cases /\ after \in SUBSET DOMAIN Cases
  BY DEF Matching, Scoped, Rows
<1> HIDE DEF calm
<1>3. /\ {"rows", "page", "start", "calm"} \subseteq DOMAIN export'
      /\ export'.rows = export.rows /\ export'.page = export.page
      /\ export'.start = export.start /\ export'.calm = calm
  BY <1>1 DEF ExportInv
<1>4. ASSUME Waiting("exception_export"), calm
      PROVE  /\ request.dataset = active'
             /\ export.start \in SUBSET DOMAIN Cases /\ Behind(after, export.start)
             /\ export.page \in Nat \ {0}
             /\ (export.page - 1) * ExportSize <= Cardinality(after)
             /\ export.rows = FirstOf(after, (export.page - 1) * ExportSize)
             /\ request.done = 1 =>
                  request.total \in Cardinality(export.start)..Cardinality(after)
  <2>1. Collected /\ active' = active /\ before \subseteq after
        /\ \A m \in before, n \in after \ before : m < n
    BY <1>4 DEF calm, ExportInv
  <2>2. /\ Cardinality(before) \in Nat /\ Cardinality(after) \in Nat
        /\ Cardinality(export.start) \in Nat
    BY <1>2, <2>1, InOrderItems DEF Collected
  <2> HIDE DEF after
  <2>3. /\ Cardinality(before) <= Cardinality(after)
        /\ \A i \in 1..Cardinality(before) : InOrder(after)[i] = InOrder(before)[i]
    <3>1. IsFiniteSet(after) /\ Ordering(ById, after) /\ before \in SUBSET after
      BY <1>2, <2>1, OrderOfIds
    <3>2. \A x \in before, y \in after \ before : <<x, y>> \in ById
      BY <1>2, <2>1 DEF ById
    <3> HIDE DEF before
    <3>3. QED BY <3>1, <3>2, SortedByExtends DEF InOrder
  <2>4. Behind(after, export.start)
    BY <2>1 DEF Collected, Behind
  <2>5. /\ export.start \in SUBSET DOMAIN Cases
        /\ export.page \in Nat \ {0} /\ ExportSize \in Nat \ {0}
        /\ (export.page - 1) * ExportSize <= Cardinality(before)
        /\ export.rows = FirstOf(before, (export.page - 1) * ExportSize)
        /\ request.done = 1 =>
             request.total \in Cardinality(export.start)..Cardinality(before)
        /\ request.dataset = active
    BY <2>1, DashboardAssumption DEF Collected
  <2> DEFINE lo == (export.page - 1) * ExportSize
  <2>6. lo \in Nat
    BY <2>5
  <2> HIDE DEF lo, before
  <2>7. FirstOf(before, lo) = FirstOf(after, lo)
    BY <2>2, <2>3, <2>5, <2>6 DEF FirstOf, lo
  <2>8. QED BY <2>1, <2>2, <2>3, <2>4, <2>5, <2>7 DEF lo
<1>5. Waiting("exception_export")' <=> Waiting("exception_export")
  BY <1>1 DEF Waiting
<1>6. Behind(Matching(filter, active), export.start)' = Behind(after, export'.start)
  BY DEF Behind
<1>7. FirstOf(Matching(filter, active), (export.page - 1) * ExportSize)'
        = FirstOf(after, (export'.page - 1) * ExportSize)
  BY DEF FirstOf, InOrder, SortedBy, Before, NotAfter, ById
<1>8. ASSUME Waiting("exception_export")', export'.calm PROVE Collected'
  BY <1>1, <1>3, <1>4, <1>5, <1>6, <1>7, <1>8 DEF Collected
<1>9. \A k \in DOMAIN cache' :
        k[1] = "exception_export" /\ cache'[k].calm => Whole(cache'[k])
  BY <1>1 DEF ExportInv
<1>10. QED
  BY <1>3, <1>8, <1>9 DEF ExportInv, Whole, InOrder, SortedBy, Before, NotAfter, ById
LEMMA ExportNext ==
  ExportInv /\ ReadInv /\ Rows /\ Rows' /\ Position /\ Position' /\ [Next]_vars => ExportInv'
<1> SUFFICES ASSUME ExportInv, ReadInv, Rows, Rows', Position, Position', [Next]_vars
             PROVE  ExportInv'
  OBVIOUS
<1>1. CASE UNCHANGED vars
  <2>1. UNCHANGED <<active, cases, filter, cache, export, request>>
    BY <1>1 DEF vars, server, script
  <2>2. CASE Waiting("exception_export")
    BY <2>1, <2>2, ExportGoes DEF ExportInv, Collected
  <2>3. CASE ~Waiting("exception_export")
    BY <2>1, <2>3, ExportElse DEF Waiting
  <2>4. QED BY <2>2, <2>3
<1>2. CASE Rerun
  <2>1. step[1] = "done" /\ UNCHANGED <<request, export, cache>>
    BY <1>2 DEF Rerun
  <2>2. request = Idle
    BY <2>1 DEF Position, AtFacet
  <2>3. QED BY <2>1, <2>2, ExportElse DEF Waiting
<1>3. CASE Summary \/ Queue \/ FacetCount
  <2>1. PICK key, next :
          /\ Step(key) /\ key[1] # "exception_export" /\ (Hit(key, next) \/ Miss(key))
    BY <1>3 DEF Summary, Queue, FacetCount, Step, SummaryKey, QueueKey, FacetKey
  <2>2. UNCHANGED <<cache, export>> /\ (Hit(key, next) => request' = request)
    BY <2>1 DEF Hit, Miss
  <2>3. ~Waiting("exception_export")'
    BY <2>1, NothingAsked DEF Hit, Miss, Ask, Waiting, Step
  <2>4. QED BY <2>2, <2>3, ExportElse
<1>4. CASE SummaryStatement \/ QueueStatement \/ FacetStatement
  <2>1. request # Idle /\ "key" \in DOMAIN request /\ request.key[1] # "exception_export"
    BY <1>4 DEF SummaryStatement, QueueStatement, FacetStatement, Waiting, Position
  <2>2. \/ \E reply : Cache(request.key, reply) /\ request' = Idle /\ export' = export
        \/ \E answer : Statement(answer)
    BY <1>4 DEF SummaryStatement, QueueStatement, FacetStatement, CountStatement, Answered
  <2>3. CASE \E reply : Cache(request.key, reply) /\ request' = Idle /\ export' = export
    BY <2>1, <2>3, ExportElse DEF Cache, Waiting
  <2>4. CASE \E answer : Statement(answer)
    <3>1. UNCHANGED <<step, filter, page, cache, export>>
      BY <2>4 DEF Statement
    <3>2. step # <<"export">>
      BY <2>1 DEF Position, AtFacet, SummaryKey, QueueKey, FacetKey, ExportKey
    <3>3. ~Waiting("exception_export")'
      BY <3>1, <3>2 DEF Position, Waiting, SummaryKey, QueueKey, FacetKey
    <3>4. QED BY <3>1, <3>3, ExportElse
  <2>5. QED BY <2>2, <2>3, <2>4
<1>5. CASE ExportStatement
  BY <1>5, ExportCounted, ExportFetched DEF ExportStatement
<1>6. CASE Detail \/ DetailStatement \/ Fail
  <2>1. /\ request' = Idle \/ \E x : Ask(<<"detail", x>>) \/ Ask(<<"patch", x>>)
        /\ cache' = cache /\ export' \in {export, NoExport}
    BY <1>6 DEF Detail, DetailStatement, Fail
  <2>2. ~Waiting("exception_export")'
    BY <2>1 DEF Ask, Waiting
  <2>3. QED BY <2>1, <2>2, ExportElse
<1>7. CASE PatchStatement
  <2>1. /\ request # Idle /\ request.key[1] = "patch" /\ export' = export
        /\ \/ request' = Idle /\ (cache' = cache \/ cache' = <<>>)
           \/ request' = [request EXCEPT !.done = 1] /\ cache' = cache
    BY <1>7 DEF PatchStatement, Waiting, Invalidate
  <2>2. ~Waiting("exception_export")'
    BY <2>1 DEF Waiting, Position
  <2>3. DOMAIN <<>> = {}
    OBVIOUS
  <2>4. QED BY <2>1, <2>2, <2>3, ExportElse
<1>8. CASE Others
  BY <1>8, ExportCommitted
  DEF Others, OpenCase, RefreshCase, Operate, Replace, PromoteOrder
<1>9. QED
  BY <1>1, <1>2, <1>3, <1>4, <1>5, <1>6, <1>7, <1>8, ExportStarts DEF Next, Script

(* An export during which cases were only added with higher ids has every  *)
(* case that matched when it began, once and in order (client.py:142-159,  *)
(* queries.py:32-35 and 281), for any queue and page size.  Each page      *)
(* counts and fetches anew: what holds them together is that the pages so  *)
(* far are a prefix of the queue, and that the count never falls below     *)
(* what the export began with.                                             *)
THEOREM CompleteExport == Spec => []ExportIsComplete
<1>1. Init => Position
  BY DEF Init, Position
<1>2. Init => ReadInv /\ ExportInv
  <2>1. DOMAIN <<>> = {}
    OBVIOUS
  <2>2. QED BY <2>1, DashboardAssumption DEF Init, ReadInv, ExportInv, NoExport, Waiting
<1>3. CountInv => Rows
  BY DEF CountInv
<1>4. ExportInv => ExportIsComplete
  BY DEF ExportInv, ExportIsComplete, Replies, Whole
<1>5. CountInv' => Rows'
  BY DEF CountInv
<1>6. QED
  BY <1>1, <1>2, <1>3, <1>4, <1>5, CountInit, CountNext, PositionNext, ReadNext, ExportNext,
     PTL DEF Spec
=============================================================================

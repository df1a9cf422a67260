----------------------------- MODULE Dashboard -----------------------------
(***************************************************************************)
(* One Streamlit session of the dashboard (dashboard/ui.py) that reads     *)
(* through the API (api/routes.py, api/queries.py, kpis/service.py) while  *)
(* other sessions commit: detection runs that open and refresh cases,      *)
(* operators, promotions of orders and replacements of the active dataset. *)
(*                                                                         *)
(* A request resolves the active dataset and then runs its statements one  *)
(* by one at READ COMMITTED, so commits may fall between any two of them.  *)
(***************************************************************************)
EXTENDS Integers, Sequences, FiniteSets, FiniteSetsExt, SequencesExt, SortedSets

CONSTANTS
  Datasets,
  Cases,        \* id of a case |-> its dataset, type, detected_at and revenue
  Existing,     \* severity of the cases committed before the session began
  Loaded,       \* the dataset active by then
  Orders,       \* id of an order |-> its dataset and ordered_at
  AsOf,         \* settings.as_of of the API
  Filters,      \* what the sidebar may select
  Facets,       \* <<dimension, value>>, in the order of FACET_DEFINITIONS
  Pages,        \* queue pages an operator looks at
  PageSize, ExportSize,
  MaxCommits,   \* bound on the commits of other sessions
  MaxReruns     \* bound on the reruns of the script

ASSUME DashboardAssumption ==
  /\ DOMAIN Cases \subseteq Nat /\ DOMAIN Existing \subseteq DOMAIN Cases
  /\ IsFiniteSet(DOMAIN Cases) /\ IsFiniteSet(DOMAIN Orders)
  /\ Loaded \in Datasets
  /\ \A f \in Filters : DOMAIN f = {"status", "type", "severity"}
  /\ PageSize \in Nat \ {0} /\ ExportSize \in Nat \ {0} /\ Pages \subseteq Nat \ {0}

VARIABLES
  active,       \* the active dataset
  cases,        \* id |-> severity and status of the cases committed so far
  orders,       \* id |-> how far the order is
  step,         \* what the running script does next
  filter, page, \* its sidebar and queue page
  selected,     \* the case whose details are open
  chosen,       \* the transition a submitted form asks for
  request,      \* the request the script waits for
  export,       \* the rows that the export has collected so far
  cache,        \* st.session_state["_dashboard_cache"]: key |-> reply
  commits,      \* number of commits so far
  acknowledged, \* of them, the last update this session was told of
  reruns

server == <<active, cases, orders, commits>>
script == <<step, filter, page, selected, chosen, request, export, cache, acknowledged, reruns>>
vars == <<server, script>>

STATUSES == {"OPEN", "ACKNOWLEDGED", "IN_PROGRESS", "RESOLVED", "DISMISSED"}
ACTIVE_STATUSES == {"OPEN", "ACKNOWLEDGED", "IN_PROGRESS"}
LEGAL_TRANSITIONS ==
  [s \in STATUSES |->
     CASE s = "OPEN" -> <<"ACKNOWLEDGED", "DISMISSED">>
       [] s = "ACKNOWLEDGED" -> <<"IN_PROGRESS", "DISMISSED">>
       [] s = "IN_PROGRESS" -> <<"RESOLVED", "DISMISSED">>
       [] OTHER -> <<>>]

None == "None"

-----------------------------------------------------------------------------
(* The queries of the API *)

\* mutant of Scoped: the rows of every dataset are read
ScopedNot(d) == DOMAIN cases

\* scope_statement
Scoped(d) == {id \in DOMAIN cases : Cases[id].dataset = d}

Selects(values, v) == values = {} \/ v \in values

\* the cases of dataset d that a query matches, none detected after AsOf
Matching(q, d) ==
  {id \in Scoped(d) : /\ Selects(q.status, cases[id].status)
                      /\ Selects(q.type, Cases[id].type)
                      /\ Selects(q.severity, cases[id].severity)
                      /\ Cases[id].detected_at <= AsOf}

\* mutant of InOrder: the most severe cases come first
InOrderOfSeverity(ids) ==
  SortedBy(ids, {p \in ids \X ids :
    \/ cases[p[1]].severity # cases[p[2]].severity /\ cases[p[1]].severity = "CRITICAL"
    \/ cases[p[1]].severity = cases[p[2]].severity /\ p[1] < p[2]})

\* ORDER BY id
ById == {p \in (DOMAIN Cases) \X (DOMAIN Cases) : p[1] < p[2]}
InOrder(ids) == SortedBy(ids, ById)

\* OFFSET and LIMIT
PageOf(q, d, n, size) ==
  LET ids == InOrder(Matching(q, d))
  IN  SubSeq(ids, (n - 1) * size + 1, Min({n * size, Len(ids)}))

-----------------------------------------------------------------------------
(* The key figures *)

Placed(d) == {o \in DOMAIN orders : Orders[o].dataset = d /\ Orders[o].ordered_at <= AsOf}
OrdersThat(d, states) == Cardinality({o \in Placed(d) : orders[o] \in states})

Active(d) ==
  {id \in Scoped(d) : cases[id].status \in ACTIVE_STATUSES /\ Cases[id].detected_at <= AsOf}

Revenue(id) == Cases[id].revenue

\* the statements of a summary, in their order
KPIS == <<"orders_processed", "open_orders", "fulfilled_orders", "cancelled_orders",
          "on_time_orders", "open_exceptions", "critical_exceptions", "revenue_at_risk",
          "stockout_risks", "supplier_delays", "shipment_delays">>

OfType(d, type) == Cardinality({id \in Active(d) : Cases[id].type = type})

\* mutant of Critical: cases that are settled count
CriticalEver(d) == {id \in Scoped(d) : cases[id].severity = "CRITICAL"}

Critical(d) == {id \in Active(d) : cases[id].severity = "CRITICAL"}

\* an order is OPEN, CANCELLED, or FULFILLED on time, late, or after AsOf
Kpi(name, d) ==
  CASE name = "orders_processed" -> Cardinality(Placed(d))
    [] name = "open_orders" -> OrdersThat(d, {"OPEN"})
    [] name = "fulfilled_orders" -> OrdersThat(d, {"ON_TIME", "LATE"})
    [] name = "cancelled_orders" -> OrdersThat(d, {"CANCELLED"})
    [] name = "on_time_orders" -> OrdersThat(d, {"ON_TIME"})
    [] name = "open_exceptions" -> Cardinality(Active(d))
    [] name = "critical_exceptions" -> Cardinality(Critical(d))
    [] name = "revenue_at_risk" -> MapThenSumSet(Revenue, Active(d))
    [] name = "stockout_risks" -> OfType(d, "STOCKOUT_RISK")
    [] name = "supplier_delays" -> OfType(d, "SUPPLIER_DELAY")
    [] name = "shipment_delays" -> OfType(d, "SHIPMENT_DELAY")

-----------------------------------------------------------------------------
(* Requests.  since and until are the commits a reply has seen at its      *)
(* first and last statement, read the rows its statements looked at.       *)

Idle == [key |-> <<None>>]
NoChoice == [target |-> None, seen |-> None]
NoExport == [rows |-> <<>>, page |-> 0, start |-> {}, calm |-> FALSE, since |-> 0]

Ask(key) ==
  request' = [key |-> key, dataset |-> active, done |-> 0, total |-> 0, counts |-> <<>>,
              since |-> commits, read |-> {}]

Waiting(name) == request # Idle /\ request.key[1] = name

Reply(rows, counts, total, read) ==
  [rows |-> rows, counts |-> counts, total |-> total, since |-> request.since,
   until |-> commits, read |-> read]

Cache(key, reply) ==
  cache' = [k \in DOMAIN cache \cup {key} |-> IF k = key THEN reply ELSE cache[k]]

SummaryKey == <<"summary">>
QueueKey == <<"exceptions", filter, page>>
ExportKey == <<"exception_export", filter>>
FacetQuery(n) == [filter EXCEPT ![Facets[n][1]] = {Facets[n][2]}]
FacetKey(n) == <<"facet", FacetQuery(n)>>

\* from the facets the script goes on to the export when the page has rows
AfterFacets == IF cache[QueueKey].rows = <<>> THEN <<"done">> ELSE <<"export">>
Facet(n) == IF n > Len(Facets) THEN AfterFacets ELSE <<"facet", n>>

-----------------------------------------------------------------------------
(* The script, from top to bottom *)

\* an operator opens the dashboard, or changes a filter or the page
Rerun ==
  /\ step = <<"done">>
  /\ reruns < MaxReruns
  /\ filter' \in Filters
  /\ page' \in Pages
  /\ step' = <<"summary">>
  /\ chosen' = NoChoice
  /\ selected' = 0
  /\ reruns' = reruns + 1
  /\ UNCHANGED <<server, request, export, cache, acknowledged>>

\* what _cache_get finds is not asked for again
Hit(key, next) ==
  /\ key \in DOMAIN cache
  /\ step' = next
  /\ UNCHANGED <<server, filter, page, selected, chosen, request, export, cache, acknowledged,
                 reruns>>

Miss(key) ==
  /\ key \notin DOMAIN cache
  /\ request = Idle
  /\ Ask(key)
  /\ UNCHANGED <<server, step, filter, page, selected, chosen, export, cache, acknowledged,
                 reruns>>

\* a reply that is kept in the cache
Answered(reply, next) ==
  /\ Cache(request.key, reply)
  /\ request' = Idle
  /\ step' = next
  /\ UNCHANGED <<server, filter, page, selected, chosen, export, acknowledged, reruns>>

\* the next statement of a request
Statement(answer) ==
  /\ request' = answer
  /\ UNCHANGED <<server, step, filter, page, selected, chosen, export, cache, acknowledged,
                 reruns>>

Summary ==
  /\ step = <<"summary">>
  /\ \/ Hit(SummaryKey, <<"queue">>)
     \/ Miss(SummaryKey)

\* KPIService.summary, one statement at a time
SummaryStatement ==
  /\ Waiting("summary")
  /\ LET n == request.done + 1
         counts == Append(request.counts, Kpi(KPIS[n], request.dataset))
         read == request.read \cup Scoped(request.dataset)
     IN  IF n < Len(KPIS)
         THEN Statement([request EXCEPT !.done = n, !.counts = counts, !.read = read])
         ELSE Answered(Reply(<<>>, counts, 0, read), <<"queue">>)

\* the first statement of a page counts what the second one fetches from
CountStatement(q) ==
  /\ request.done = 0
  /\ LET ids == Matching(q, request.dataset)
     IN  Statement([request EXCEPT !.done = 1, !.total = Cardinality(ids), !.read = ids])

Fetched(q, n, size) ==
  LET rows == PageOf(q, request.dataset, n, size)
  IN  Reply(rows, <<>>, request.total, request.read \cup Range(rows))

Queue ==
  /\ step = <<"queue">>
  /\ \/ Hit(QueueKey, Facet(1))
     \/ Miss(QueueKey)

QueueStatement ==
  /\ Waiting("exceptions")
  /\ \/ CountStatement(filter)
     \/ LET reply == Fetched(filter, page, PageSize)
        IN  /\ request.done = 1
            /\ Answered(reply, IF Facets # <<>> THEN <<"facet", 1>>
                               ELSE IF reply.rows = <<>> THEN <<"done">> ELSE <<"export">>)

AtFacet(n) == step = <<"facet", n>>

FacetCount ==
  \E n \in DOMAIN Facets :
    /\ AtFacet(n)
    /\ \/ Hit(FacetKey(n), Facet(n + 1))
       \/ Miss(FacetKey(n))

FacetStatement ==
  \E n \in DOMAIN Facets :
    /\ AtFacet(n)
    /\ Waiting("facet")
    /\ \/ CountStatement(FacetQuery(n))
       \/ /\ request.done = 1
          /\ Answered(Fetched(FacetQuery(n), 1, 1), Facet(n + 1))

Export ==
  /\ step = <<"export">>
  /\ \/ Hit(ExportKey, <<"detail">>)
     \/ /\ ExportKey \notin DOMAIN cache
        /\ request = Idle
        /\ Ask(ExportKey)
        /\ export' = [NoExport EXCEPT !.page = 1, !.start = Matching(filter, active),
                                      !.calm = TRUE, !.since = commits]
        /\ UNCHANGED <<server, step, filter, page, selected, chosen, cache, acknowledged, reruns>>

\* mutant of MorePages: the first page stands for all
MorePagesNever(rows, total, items) == FALSE

\* get_all_exceptions asks for another page while rows are missing
MorePages(rows, total, items) == Len(rows) < total /\ items # <<>>

\* every page is a request of its own, on the dataset active by then
ExportStatement ==
  /\ Waiting("exception_export")
  /\ \/ CountStatement(filter)
     \/ LET items == PageOf(filter, request.dataset, export.page, ExportSize)
            rows == export.rows \o items
        IN  /\ request.done = 1
            /\ IF MorePages(rows, request.total, items)
               THEN /\ export' = [export EXCEPT !.rows = rows, !.page = @ + 1]
                    /\ Ask(ExportKey)
                    /\ UNCHANGED <<step, cache>>
               ELSE /\ Cache(ExportKey, [rows |-> rows, start |-> export.start,
                                         calm |-> export.calm, since |-> export.since])
                    /\ export' = NoExport
                    /\ request' = Idle
                    /\ step' = <<"detail">>
            /\ UNCHANGED <<server, filter, page, selected, chosen, acknowledged, reruns>>

\* one of the listed cases is open; its details are never cached
Detail ==
  /\ step = <<"detail">>
  /\ request = Idle
  /\ \E id \in Range(cache[QueueKey].rows) :
       /\ chosen # NoChoice => id = selected
       /\ selected' = id
       /\ Ask(<<"detail", id>>)
  /\ UNCHANGED <<server, step, filter, page, chosen, export, cache, acknowledged, reruns>>

\* the form offers what the case allows now: a choice made when it allowed
\* something else is replaced by one of the new options
Target(status) ==
  IF status = chosen.seen THEN {chosen.target} ELSE Range(LEGAL_TRANSITIONS[status])

\* the details arrive: of an open case the operator may submit a transition,
\* which runs the script again, and a form just submitted is sent
DetailStatement ==
  /\ Waiting("detail")
  /\ LET found == selected \in Scoped(request.dataset)
         status == cases[selected].status
     IN  \/ /\ ~found \/ LEGAL_TRANSITIONS[status] = <<>> \/ chosen = NoChoice
            /\ step' = <<"done">>
            /\ request' = Idle
            /\ chosen' = NoChoice
            /\ UNCHANGED <<server, filter, page, selected, export, cache, acknowledged, reruns>>
         \/ /\ found
            /\ chosen = NoChoice
            /\ reruns < MaxReruns
            /\ \E t \in Range(LEGAL_TRANSITIONS[status]) :
                 chosen' = [target |-> t, seen |-> status]
            /\ request' = Idle
            /\ step' = <<"summary">>
            /\ reruns' = reruns + 1
            /\ UNCHANGED <<server, filter, page, selected, export, cache, acknowledged>>
         \/ /\ found
            /\ chosen # NoChoice
            /\ \E t \in Target(status) : Ask(<<"patch", t>>)
            /\ step' = <<"patch">>
            /\ UNCHANGED <<server, filter, page, selected, chosen, export, cache, acknowledged,
                           reruns>>

\* mutant of Invalidate: what was read before the update is kept
InvalidateNothing ==
  /\ cache' = cache
  /\ acknowledged' = commits

\* invalidate_dashboard_cache
Invalidate ==
  /\ cache' = <<>>
  /\ acknowledged' = commits

\* the update commits as transition_exception does (404 and 409 commit
\* nothing), and the answer, if it arrives, drops every cached reply
PatchStatement ==
  /\ Waiting("patch")
  /\ LET target == request.key[2]
         legal == /\ selected \in Scoped(request.dataset)
                  /\ target \in Range(LEGAL_TRANSITIONS[cases[selected].status])
     IN  IF legal /\ request.done = 0
         THEN /\ cases' = [cases EXCEPT ![selected].status = target]
              /\ commits' = commits + 1
              /\ request' = [request EXCEPT !.done = 1]
              /\ UNCHANGED <<active, orders, step, cache, acknowledged>>
         ELSE /\ request' = Idle
              /\ IF request.done = 1
                 THEN step' = <<"summary">> /\ Invalidate
                 ELSE step' = <<"done">> /\ UNCHANGED <<cache, acknowledged>>
              /\ UNCHANGED server
  /\ chosen' = IF request' = Idle THEN NoChoice ELSE chosen
  /\ UNCHANGED <<filter, page, selected, export, reruns>>

\* a request times out, or the API cannot be reached or answers 503: the
\* script shows an error, and goes on where it can
Fail ==
  /\ request # Idle
  /\ request' = Idle
  /\ step' = CASE step = <<"export">> -> <<"detail">>
               [] step[1] = "facet" -> AfterFacets
               [] OTHER -> <<"done">>
  /\ chosen' = IF step' = <<"done">> THEN NoChoice ELSE chosen
  /\ export' = NoExport
  /\ UNCHANGED <<server, filter, page, selected, cache, acknowledged, reruns>>

-----------------------------------------------------------------------------
(* What other sessions commit *)

Committed ==
  /\ commits < MaxCommits
  /\ commits' = commits + 1
  /\ UNCHANGED <<step, filter, page, selected, chosen, request, cache, acknowledged, reruns>>
  \* an export stays calm while cases are only added behind those it counts
  /\ export' = [export EXCEPT !.calm =
                  @ /\ active' = active
                    /\ LET before == Matching(filter, active)
                           after == Matching(filter, active)'
                       IN  /\ before \subseteq after
                           /\ \A m \in before, n \in after \ before : m < n]

\* a run opens a case: ids are drawn before the run commits, so that a lower
\* id may become visible after a higher one
OpenCase ==
  /\ \E id \in DOMAIN Cases \ DOMAIN cases, s \in {"CRITICAL", "LOW"} :
       cases' = [i \in DOMAIN cases \cup {id} |->
                   IF i = id THEN [status |-> "OPEN", severity |-> s] ELSE cases[i]]
  /\ UNCHANGED <<active, orders>>
  /\ Committed

RefreshCase ==
  /\ \E id \in DOMAIN cases, s \in {"CRITICAL", "LOW"} :
       /\ cases[id].status \in ACTIVE_STATUSES
       /\ cases[id].severity # s
       /\ cases' = [cases EXCEPT ![id].severity = s]
  /\ UNCHANGED <<active, orders>>
  /\ Committed

Operate ==
  /\ \E id \in DOMAIN cases : \E t \in Range(LEGAL_TRANSITIONS[cases[id].status]) :
       cases' = [cases EXCEPT ![id].status = t]
  /\ UNCHANGED <<active, orders>>
  /\ Committed

Replace ==
  /\ active' \in Datasets \ {active}
  /\ UNCHANGED <<cases, orders>>
  /\ Committed

PromoteOrder ==
  /\ \E o \in DOMAIN orders, s \in {"OPEN", "ON_TIME", "LATE", "AFTER", "CANCELLED"} :
       orders' = [orders EXCEPT ![o] = s]
  /\ orders' # orders
  /\ UNCHANGED <<active, cases>>
  /\ Committed

-----------------------------------------------------------------------------
Init ==
  /\ active = Loaded
  /\ cases = [id \in DOMAIN Existing |-> [status |-> "OPEN", severity |-> Existing[id]]]
  /\ orders = [o \in DOMAIN Orders |-> "OPEN"]
  /\ step = <<"done">>
  /\ filter \in Filters
  /\ page \in Pages
  /\ selected = 0
  /\ chosen = NoChoice
  /\ request = Idle
  /\ export = NoExport
  /\ cache = <<>>
  /\ commits = 0
  /\ acknowledged = 0
  /\ reruns = 0

Script ==
  \/ Rerun
  \/ Summary \/ SummaryStatement
  \/ Queue \/ QueueStatement
  \/ FacetCount \/ FacetStatement
  \/ Export \/ ExportStatement
  \/ Detail \/ DetailStatement
  \/ PatchStatement
  \/ Fail

Others == OpenCase \/ RefreshCase \/ Operate \/ Replace \/ PromoteOrder

Next == Script \/ Others

Spec == Init /\ [][Next]_vars

-----------------------------------------------------------------------------
(* Properties *)

Replies(name) == {cache[k] : k \in {x \in DOMAIN cache : x[1] = name}}
Summaries == Replies("summary")

\* A reply whose statements saw no commit between them adds up, and agrees
\* with every other such reply of the same moment: the critical cases are
\* among the active ones, the three types do not count a case twice, every
\* order on time is fulfilled and every order is in at most one state
\* (kpis/service.py:43-152), and the queue's total for the active statuses,
\* and a facet's for one of its types, is the figure of the summary
\* (api/routes.py:376-397, queries.py:32, ui.py:646-668).
Figure(s, name) == s.counts[CHOOSE n \in DOMAIN KPIS : KPIS[n] = name]

AddsUp(s) ==
  /\ Figure(s, "critical_exceptions") <= Figure(s, "open_exceptions")
  /\ Figure(s, "stockout_risks") + Figure(s, "supplier_delays") + Figure(s, "shipment_delays")
       <= Figure(s, "open_exceptions")
  /\ Figure(s, "on_time_orders") <= Figure(s, "fulfilled_orders")
  /\ Figure(s, "open_orders") + Figure(s, "fulfilled_orders") + Figure(s, "cancelled_orders")
       <= Figure(s, "orders_processed")

SameMoment(r, s) == r.since = r.until /\ s.since = s.until /\ r.since = s.since

CountsAgree ==
  \A s \in Summaries : s.since = s.until =>
    /\ AddsUp(s)
    /\ \A k \in DOMAIN cache :
         k[1] \in {"exceptions", "facet"} /\ SameMoment(cache[k], s) =>
           /\ k[2].status = ACTIVE_STATUSES /\ k[2].severity = {} =>
                /\ k[2].type = {} => cache[k].total = Figure(s, "open_exceptions")
                /\ k[2].type = {"STOCKOUT_RISK"} => cache[k].total = Figure(s, "stockout_risks")
           /\ /\ k[2].status = ACTIVE_STATUSES /\ k[2].type = {}
              /\ k[2].severity = {"CRITICAL"}
              => cache[k].total = Figure(s, "critical_exceptions")

\* Whatever moves the active dataset between two statements of a request,
\* what a summary counts and what a page counts and lists are rows of one
\* dataset (api/routes.py:376 and 458, queries.py:32-35 and 256).
RepliesAreOfOneDataset ==
  \A k \in DOMAIN cache :
    k[1] # "exception_export" =>
      Cardinality({Cases[id].dataset : id \in cache[k].read}) <= 1

\* The export of a queue on which, while its pages were fetched, cases were
\* only added with higher ids has every case that matched when it began,
\* once and in order: nothing is skipped or repeated at a page boundary
\* although each page counts and fetches anew (client.py:142-159,
\* queries.py:32-35 and 281).
ExportIsComplete ==
  \A e \in Replies("exception_export") : e.calm =>
    /\ IsPrefix(InOrder(e.start), e.rows)
    /\ \A m, n \in DOMAIN e.rows : m < n => e.rows[m] < e.rows[n]

\* After an update was acknowledged nothing that the session read before it
\* is shown again (ui.py:444-460 and 594-603).
OwnUpdatesAreSeen ==
  \A k \in DOMAIN cache : cache[k].since >= acknowledged
=============================================================================

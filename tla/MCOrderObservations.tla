------------------------- MODULE MCOrderObservations -------------------------
(***************************************************************************)
(* Instances of OrderObservations for TLC: a source order with three       *)
(* versions, one of which says two things, and another order that wants    *)
(* its number; which transactions there are is the question of each        *)
(* configuration.                                                          *)
(***************************************************************************)
EXTENDS OrderHistory, TLC

CONSTANTS s1, s2, s3, k1, k2, v1, v2, v3, n1, n2, w1, b1, b2, none

GoodRow == [f \in DOMAIN [order |-> 0, number |-> 0, status |-> 0, region |-> 0, site |-> 0,
                          amount |-> 0, currency |-> 0, ordered |-> 0, promised |-> 0,
                          fulfilled |-> 0] |-> "given"]
NoPromise == [GoodRow EXCEPT !.promised = "absent"]
LongCurrency == [GoodRow EXCEPT !.currency = "long"]

Fact(n, row) == [number |-> n, site |-> w1, row |-> row]

First   == [key |-> k1, version |-> v1, facts |-> Fact(n1, GoodRow)]
Second  == [key |-> k1, version |-> v2, facts |-> Fact(n2, GoodRow)]
Third   == [key |-> k1, version |-> v3, facts |-> Fact(n1, GoodRow)]
Twisted == [key |-> k1, version |-> v2, facts |-> Fact(n1, GoodRow)]
Rival   == [key |-> k2, version |-> none, facts |-> Fact(n2, GoodRow)]
Partial == [key |-> k2, version |-> v1, facts |-> Fact(n2, NoPromise)]
Wide    == [key |-> k2, version |-> v1, facts |-> Fact(n2, LongCurrency)]

Older == {<<v1, v2>>, <<v2, v3>>, <<v1, v3>>}

Stage(e, b) == [do |-> "stage", e |-> e, batch |-> b, ordered |-> FALSE, loaded |-> FALSE]
Promotion(e, ordered) ==
  [do |-> "promote", e |-> e, batch |-> b1, ordered |-> ordered, loaded |-> FALSE]
Reload(e) == [do |-> "promote", e |-> e, batch |-> b1, ordered |-> TRUE, loaded |-> TRUE]

MainEvidence == {First, Second, Third, Twisted, Rival, Partial, Wide}
MainScripts ==
  {<<Stage(First, b1), Promotion(First, FALSE)>>, <<Stage(Second, b1)>>,
   <<Stage(Second, b2), Promotion(Second, TRUE)>>, <<Stage(Twisted, b1)>>,
   <<Promotion(First, TRUE), Promotion(Second, TRUE)>>, <<Promotion(Twisted, TRUE)>>,
   <<Stage(Third, b1), Promotion(Third, TRUE)>>, <<Promotion(Third, FALSE)>>,
   <<Stage(Rival, b1), Promotion(Rival, FALSE)>>,
   <<Stage(Partial, b1), Promotion(Partial, TRUE)>>, <<Stage(Rival, b2), Stage(Wide, b1)>>}

\* callers whose sessions have loaded what they promote
LoadedEvidence == {First, Second}
LoadedScripts ==
  {<<Stage(First, b1), Stage(Second, b1)>>, <<Stage(Second, b2)>>,
   <<Promotion(First, TRUE), Promotion(Second, TRUE)>>, <<Reload(First)>>, <<Reload(Second)>>}

Symmetric == Permutations(Sessions)
=============================================================================

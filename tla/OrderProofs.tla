----------------------------- MODULE OrderProofs -----------------------------
(***************************************************************************)
(* Safety of OrderObservations for any sessions, evidence, versions,       *)
(* transactions and comparator.  That a projection only advances rests on  *)
(* locks that are not taken for it: a session that has an order in its     *)
(* identity map holds the row of the order's current observation, and      *)
(* whoever replaces the projection needs that row too.  The second part is *)
(* about callers that load nothing ahead: promoted evidence stays promoted,*)
(* it forms one chain, and OrderObservations implements OrderLedger.       *)
(***************************************************************************)
EXTENDS OrderHistory, FiniteSetTheorems, SequenceTheorems, TLAPS

Calling == {"identity", "newIdentity", "record", "load", "observe", "recheck", "judge",
            "decide", "insert", "clash", "supersede"}
Deciding == {"decide", "insert", "clash", "supersede"}
Judging == Deciding \cup {"judge"}

\* a session works on a call of its script, or is through with them
InScript(s) ==
  /\ pc[s] \in Calling =>
       /\ at[s] \in 1..Len(script[s])
       /\ Call(s).do = "stage" <=> pc[s] \in {"identity", "newIdentity", "record"}
  /\ pc[s] = "commit" => at[s] > Len(script[s])

\* the locks a call has taken by then
Locks(s) ==
  /\ pc[s] \in Judging \cup {"recheck"} => obsHolder[Ev(s)] = s
  /\ pc[s] \in Deciding \cup {"record"} => keyHolder[Key(s)] = s

\* evidence with a status that leads to a projection was found valid, and
\* evidence that is not there has no receipts
Valid(o, e) ==
  /\ o.status \in {"NORMALIZED", "CONTEXT_INCOMPLETE", "PROMOTED"} => Invalid(e.facts.row) = {}
  /\ ~Present(o) => o.batches = {}

\* what has been found out about the evidence of a call
Judged(s) ==
  /\ \A e \in Evidence : Valid(loaded[s][e], e)
  /\ pc[s] \in Judging => Invalid(Ev(s).facts.row) = {}
  /\ pc[s] \in Deciding => Gaps(Ev(s).facts.row) = {}

\* every call that is through has left its receipt
Received(s) ==
  \A n \in 1..Len(script[s]) : n < at[s] /\ script[s][n].do = "stage" =>
    script[s][n].batch \in Seen(s, script[s][n].e).batches

\* an order a session remembers is the one there is, and cannot be replaced
Remembered(s) ==
  \A k \in Keys : There(held[s][k]) =>
    /\ held[s][k] = SeenOrder(s, k)
    /\ obsHolder[held[s][k].current] = s

\* what was decided about the order is still so
Decided(s) ==
  /\ pc[s] \in {"insert", "clash"} => ~There(orders[Key(s)])
  /\ pc[s] = "supersede" => There(orders[Key(s)]) /\ Proven(s, orders[Key(s)])

SessionInv(s) ==
  InScript(s) /\ Locks(s) /\ Judged(s) /\ Received(s) /\ Remembered(s) /\ Decided(s)

EvidenceInv(e) ==
  /\ obsHolder[e] = Nobody => obs[e] = settled[e]
  /\ settled[e].batches \subseteq obs[e].batches
  /\ Valid(obs[e], e) /\ Valid(settled[e], e)
  /\ obsHolder[e] # Nobody /\ ~Present(settled[e]) => keyHolder[e.key] = obsHolder[e]

\* an order has the columns of an observation of its key
OfKey(order, k) ==
  There(order) => order.of \in Evidence /\ order.of.key = k /\ order = Projection(order.of)

Advanced(old, new) ==
  There(old) => There(new) /\ (new = old \/ <<old.version, new.version>> \in Newer)

KeyInv(k) ==
  /\ OfKey(orders[k], k) /\ OfKey(projected[k], k)
  /\ keyHolder[k] = Nobody => orders[k] = projected[k]
  /\ Advanced(projected[k], orders[k])
  /\ There(projected[k]) /\ orders[k] # projected[k] =>
       obsHolder[projected[k].current] = keyHolder[k]

IInv ==
  /\ TypeOK
  /\ \A s \in Sessions : SessionInv(s)
  /\ \A e \in Evidence : EvidenceInv(e)
  /\ \A k \in Keys : KeyInv(k)

\* what a step of t that does not end its transaction leaves to the others
Frame(t) ==
  /\ \A s \in Sessions \ {t} :
       /\ pc'[s] = pc[s] /\ at'[s] = at[s] /\ script'[s] = script[s]
       /\ loaded'[s] = loaded[s] /\ held'[s] = held[s]
  /\ \A e \in Evidence :
       /\ \/ obsHolder'[e] = obsHolder[e]
          \/ /\ obsHolder[e] = Nobody /\ obsHolder'[e] = t
             /\ Present(settled[e]) \/ keyHolder'[e.key] = t
       /\ obs'[e] = obs[e] \/ obsHolder'[e] = t
       /\ obs[e].batches \subseteq obs'[e].batches
  /\ \A k \in Keys :
       /\ keyHolder'[k] = keyHolder[k] \/ (keyHolder[k] = Nobody /\ keyHolder'[k] = t)
       /\ orders'[k] = orders[k] \/ keyHolder[k] = t
  /\ settled' = settled /\ projected' = projected

-----------------------------------------------------------------------------
(* The call a session works on. *)
LEMMA CallType ==
  ASSUME TypeOK, NEW s \in Sessions, InScript(s), pc[s] \in Calling
  PROVE  Call(s) \in Op /\ Ev(s) \in Evidence /\ Key(s) \in Keys
<1>1. script[s] \in Seq(Op) /\ at[s] \in 1..Len(script[s])
  BY DEF TypeOK, InScript
<1>2. Call(s) \in Op
  BY <1>1, ElementOfSeq DEF Call
<1>3. QED
  BY <1>2, ObservationAssumption DEF Op, Ev, Key

(* The step of another session disturbs nothing a session relies on. *)
LEMMA OthersKept ==
  ASSUME IInv, NEW t \in Sessions, Frame(t), NEW s \in Sessions \ {t}
  PROVE  SessionInv(s)'
<1> USE DEF IInv
<1>1. /\ pc'[s] = pc[s] /\ at'[s] = at[s] /\ script'[s] = script[s]
      /\ loaded'[s] = loaded[s] /\ held'[s] = held[s]
  BY DEF Frame
<1>2. SessionInv(s) /\ TypeOK /\ s # Nobody /\ t # Nobody
  BY ObservationAssumption
<1>3. Call(s)' = Call(s) /\ Ev(s)' = Ev(s) /\ Key(s)' = Key(s)
  BY <1>1 DEF Call, Ev, Key
<1>4. InScript(s)'
  BY <1>1, <1>2, <1>3 DEF SessionInv, InScript
<1>5. pc[s] \in Calling => Ev(s) \in Evidence /\ Key(s) \in Keys
  BY <1>2, CallType DEF SessionInv
<1>6. /\ \A e \in Evidence : obsHolder[e] = s => obsHolder'[e] = s /\ obs'[e] = obs[e]
      /\ \A e \in Evidence : obsHolder'[e] = s => obsHolder[e] = s
      /\ \A k \in Keys : keyHolder[k] = s => keyHolder'[k] = s /\ orders'[k] = orders[k]
      /\ \A k \in Keys : keyHolder'[k] = s => keyHolder[k] = s
  BY <1>2 DEF Frame
<1>7. Locks(s)'
  BY <1>1, <1>2, <1>3, <1>5, <1>6 DEF SessionInv, Locks, Calling, Judging, Deciding
<1>8. Judged(s)'
  BY <1>1, <1>2, <1>3 DEF SessionInv, Judged
<1>9. \A e \in Evidence : Seen(s, e)' = Seen(s, e)
  BY <1>6 DEF Seen, Frame
<1>10. Received(s)'
  <2> SUFFICES ASSUME NEW n \in 1..Len(script[s]), n < at[s], NEW call \in Op,
                      call = script[s][n], call.do = "stage"
               PROVE  call.batch \in Seen(s, call.e)'.batches
    <3>1. \A n \in 1..Len(script[s]) : script[s][n] \in Op
      BY <1>2, ElementOfSeq DEF TypeOK
    <3>2. QED BY <1>1, <3>1 DEF Received
  <2>1. call.batch \in Seen(s, call.e).batches
    BY <1>2 DEF SessionInv, Received
  <2>2. QED BY <1>9, <2>1 DEF Op
<1>11. \A k \in Keys : SeenOrder(s, k)' = SeenOrder(s, k)
  BY <1>6 DEF SeenOrder, Frame
<1>12. Remembered(s)'
  <2> SUFFICES ASSUME NEW k \in Keys, There(held[s][k])
               PROVE  held[s][k] = SeenOrder(s, k)' /\ obsHolder'[held[s][k].current] = s
    BY <1>1 DEF Remembered
  <2>1. held[s][k] = SeenOrder(s, k) /\ obsHolder[held[s][k].current] = s
    BY <1>2 DEF SessionInv, Remembered
  <2>2. OfKey(SeenOrder(s, k), k)
    BY DEF KeyInv, SeenOrder
  <2>3. held[s][k].current \in Evidence
    BY <2>1, <2>2 DEF OfKey, Projection
  <2>4. QED BY <1>6, <1>11, <2>1, <2>3
<1>13. Decided(s)'
  <2>1. pc[s] \in Deciding => orders'[Key(s)] = orders[Key(s)]
    BY <1>2, <1>5, <1>6 DEF SessionInv, Locks, Calling, Deciding
  <2>2. QED BY <1>1, <1>2, <1>3, <2>1 DEF SessionInv, Decided, Deciding, Proven, Matches, Supersedes
<1>14. QED BY <1>4, <1>7, <1>8, <1>10, <1>12, <1>13 DEF SessionInv

(* Evidence keeps its invariant if the session writes valid statuses.      *)
LEMMA EvidenceKept ==
  ASSUME IInv, NEW t \in Sessions, Frame(t), \A e \in Evidence : Valid(obs'[e], e)
  PROVE  \A e \in Evidence : EvidenceInv(e)'
<1> SUFFICES ASSUME NEW e \in Evidence PROVE EvidenceInv(e)'
  OBVIOUS
<1>1. EvidenceInv(e) /\ t # Nobody
  BY ObservationAssumption DEF IInv
<1>2. obsHolder'[e] = Nobody => obsHolder[e] = Nobody /\ obs'[e] = obs[e]
  BY <1>1 DEF Frame
<1>3. settled'[e] = settled[e] /\ obs[e].batches \subseteq obs'[e].batches
  BY DEF Frame
<1>4. obsHolder'[e] # Nobody /\ ~Present(settled'[e]) => keyHolder'[e.key] = obsHolder'[e]
  <2> SUFFICES ASSUME obsHolder'[e] # Nobody, ~Present(settled[e])
               PROVE  keyHolder'[e.key] = obsHolder'[e]
    BY <1>3
  <2>1. e.key \in Keys
    BY ObservationAssumption
  <2>2. CASE obsHolder'[e] = obsHolder[e]
    <3>1. keyHolder[e.key] = obsHolder[e] /\ keyHolder[e.key] # Nobody
      BY <1>1, <2>2 DEF EvidenceInv
    <3>2. QED BY <2>1, <2>2, <3>1 DEF Frame
  <2>3. CASE obsHolder'[e] # obsHolder[e]
    BY <2>3 DEF Frame
  <2>4. QED BY <2>2, <2>3
<1>5. Valid(obs'[e], e) /\ Valid(settled'[e], e)
  BY <1>1, <1>3 DEF EvidenceInv
<1>6. QED BY <1>1, <1>2, <1>3, <1>4, <1>5 DEF EvidenceInv, Valid

(* An order keeps its invariant in a step that does not write it.          *)
LEMMA KeyKept ==
  ASSUME IInv, NEW t \in Sessions, Frame(t), NEW k \in Keys, orders'[k] = orders[k]
  PROVE  KeyInv(k)'
<1>1. KeyInv(k) /\ t # Nobody
  BY ObservationAssumption DEF IInv
<1>2. keyHolder'[k] = Nobody => keyHolder[k] = Nobody
  BY <1>1 DEF Frame
<1>3. projected'[k] = projected[k] /\ orders'[k] = orders[k]
  BY DEF Frame
<1>4. There(projected[k]) /\ orders[k] # projected[k] =>
        obsHolder'[projected[k].current] = keyHolder'[k]
  <2> SUFFICES ASSUME There(projected[k]), orders[k] # projected[k]
               PROVE  obsHolder'[projected[k].current] = keyHolder'[k]
    OBVIOUS
  <2>1. projected[k].current \in Evidence
    BY <1>1 DEF KeyInv, OfKey, Projection
  <2>2. keyHolder[k] # Nobody /\ obsHolder[projected[k].current] = keyHolder[k]
    BY <1>1 DEF KeyInv
  <2>3. QED BY <2>1, <2>2 DEF Frame
<1>5. QED BY <1>1, <1>2, <1>3, <1>4 DEF KeyInv, OfKey, Advanced, There, Projection

(* A session remembers an order rightly that its step does not write.      *)
LEMMA OrderRemembered ==
  ASSUME IInv, NEW t \in Sessions, Frame(t), NEW k \in Keys, orders'[k] = orders[k],
         There(held[t][k])
  PROVE  held[t][k] = SeenOrder(t, k)' /\ obsHolder'[held[t][k].current] = t
<1>1. KeyInv(k) /\ t # Nobody /\ SessionInv(t)
  BY ObservationAssumption DEF IInv
<1>2. held[t][k] = SeenOrder(t, k) /\ obsHolder[held[t][k].current] = t
  BY <1>1 DEF SessionInv, Remembered
<1>3. held[t][k].current \in Evidence
  BY <1>1, <1>2 DEF KeyInv, SeenOrder, OfKey, Projection
<1>4. SeenOrder(t, k)' = SeenOrder(t, k)
  BY <1>1 DEF SeenOrder, Frame, KeyInv
<1>5. QED BY <1>1, <1>2, <1>3, <1>4 DEF Frame

LEMMA RememberedKept ==
  ASSUME IInv, NEW t \in Sessions, Frame(t), orders' = orders, held'[t] = held[t]
  PROVE  Remembered(t)'
BY OrderRemembered DEF Remembered

(* Receipts stay; a staging that is through has added its own.             *)
LEMMA ReceivedKept ==
  ASSUME IInv, NEW t \in Sessions, Frame(t), script' = script, at'[t] \in Nat,
         \/ at'[t] = at[t]
         \/ /\ at'[t] = at[t] + 1
            /\ Call(t).do = "stage" =>
                 \/ Call(t).batch \in Seen(t, Ev(t)).batches
                 \/ obsHolder'[Ev(t)] = t /\ Call(t).batch \in obs'[Ev(t)].batches
  PROVE  Received(t)'
<1>1. TypeOK /\ SessionInv(t) /\ t # Nobody
  BY ObservationAssumption DEF IInv
<1>2. at[t] \in Nat /\ \A n \in 1..Len(script[t]) : script[t][n] \in Op
  BY <1>1, ElementOfSeq DEF TypeOK
<1> SUFFICES ASSUME NEW n \in 1..Len(script[t]), n < at'[t], NEW call \in Op,
                    call = script[t][n], call.do = "stage"
             PROVE  call.batch \in Seen(t, call.e)'.batches
  BY <1>2 DEF Received
<1>3. \A e \in Evidence : Seen(t, e).batches \subseteq Seen(t, e)'.batches
  <2> SUFFICES ASSUME NEW e \in Evidence PROVE Seen(t, e).batches \subseteq Seen(t, e)'.batches
    OBVIOUS
  <2>1. EvidenceInv(e)
    BY DEF IInv
  <2>2. QED BY <1>1, <2>1 DEF Seen, Frame, EvidenceInv
<1>4. CASE n < at[t]
  <2>1. call.batch \in Seen(t, call.e).batches
    BY <1>1, <1>4 DEF SessionInv, Received
  <2>2. QED BY <1>3, <2>1 DEF Op
<1>5. CASE ~(n < at[t])
  <2>1. n = at[t] /\ at'[t] = at[t] + 1
    BY <1>2, <1>5
  <2>2. call = Call(t)
    BY <2>1 DEF Call
  <2>3. \/ call.batch \in Seen(t, call.e).batches
        \/ obsHolder'[call.e] = t /\ call.batch \in obs'[call.e].batches
    BY <2>1, <2>2 DEF Ev
  <2>4. QED BY <1>3, <2>3 DEF Op, Seen
<1>6. QED BY <1>4, <1>5

-----------------------------------------------------------------------------
(* Steps that end a call, or go on with it. *)

\* the statements at which a call begins
Entries == {"identity", "load", "observe"}

LEMMA FirstStepEntry ==
  ASSUME NEW op \in Op
  PROVE  FirstStep(op) \in Entries /\ (op.do = "stage" <=> FirstStep(op) = "identity")
  BY DEF FirstStep, Entries, Op

LEMMA ReturnStep ==
  ASSUME TypeOK, NEW t \in Sessions, InScript(t), pc[t] \in Calling, Return(t)
  PROVE  /\ pc' \in [Sessions -> Steps] /\ script' = script /\ at' \in [Sessions -> Nat]
         /\ at'[t] = at[t] + 1 /\ pc'[t] \in Entries \cup {"commit"}
         /\ InScript(t)'
         /\ \A s \in Sessions \ {t} : pc'[s] = pc[s] /\ at'[s] = at[s]
<1>1. /\ script[t] \in Seq(Op) /\ at[t] \in 1..Len(script[t]) /\ Len(script[t]) \in Nat
      /\ pc \in [Sessions -> Steps] /\ at \in [Sessions -> Nat]
  BY LenProperties DEF TypeOK, InScript
<1>2. /\ script' = script /\ at'[t] = at[t] + 1
      /\ pc'[t] = IF at[t] = Len(script[t]) THEN "commit" ELSE FirstStep(script[t][at[t] + 1])
  BY <1>1 DEF Return
<1>3. CASE at[t] = Len(script[t])
  <2>1. pc'[t] = "commit" /\ at'[t] > Len(script'[t])
    BY <1>1, <1>2, <1>3
  <2>2. QED BY <1>1, <1>2, <2>1 DEF Return, InScript, Calling, Steps
<1>4. CASE at[t] # Len(script[t])
  <2>1. at[t] + 1 \in 1..Len(script[t])
    BY <1>1, <1>4
  <2>2. script[t][at[t] + 1] \in Op
    BY <1>1, <2>1, ElementOfSeq
  <2>3. /\ pc'[t] \in Entries
        /\ script[t][at[t] + 1].do = "stage" <=> pc'[t] = "identity"
    BY <1>2, <1>4, <2>2, FirstStepEntry
  <2>4. Call(t)' = script[t][at[t] + 1]
    BY <1>2 DEF Call
  <2>5. InScript(t)'
    BY <1>2, <2>1, <2>3, <2>4 DEF InScript, Entries, Calling
  <2>6. Entries \subseteq Steps
    BY DEF Entries, Steps
  <2>7. QED BY <1>1, <1>2, <2>3, <2>5, <2>6 DEF Return
<1>5. QED BY <1>3, <1>4

LEMMA GoToStep ==
  ASSUME TypeOK, NEW t \in Sessions, InScript(t), pc[t] \in Calling, NEW step \in Calling,
         pc[t] \in {"identity", "newIdentity", "record"} <=> step \in {"identity", "newIdentity", "record"},
         GoTo(t, step)
  PROVE  /\ pc' \in [Sessions -> Steps] /\ script' = script /\ at' = at
         /\ pc'[t] = step
         /\ InScript(t)'
         /\ Call(t)' = Call(t) /\ Ev(t)' = Ev(t) /\ Key(t)' = Key(t)
         /\ \A s \in Sessions \ {t} : pc'[s] = pc[s]
<1>1. /\ pc' \in [Sessions -> Steps] /\ script' = script /\ at' = at /\ pc'[t] = step
      /\ \A s \in Sessions \ {t} : pc'[s] = pc[s]
  BY DEF TypeOK, GoTo, Calling, Steps
<1>2. Call(t)' = Call(t) /\ Ev(t)' = Ev(t) /\ Key(t)' = Key(t)
  BY <1>1 DEF Call, Ev, Key
<1>3. InScript(t)'
  BY <1>1, <1>2 DEF InScript, Calling
<1>4. QED BY <1>1, <1>2, <1>3

(* A session whose call is over relies on nothing but what it remembers.   *)
LEMMA ReturnKept ==
  ASSUME IInv, NEW t \in Sessions, pc[t] \in Calling, Frame(t), Return(t), Remembered(t)',
         \A e \in Evidence : Valid(loaded'[t][e], e),
         Call(t).do = "stage" =>
           \/ Call(t).batch \in Seen(t, Ev(t)).batches
           \/ obsHolder'[Ev(t)] = t /\ Call(t).batch \in obs'[Ev(t)].batches
  PROVE  SessionInv(t)'
<1>1. TypeOK /\ InScript(t)
  BY DEF IInv, SessionInv
<1>2. /\ script' = script /\ at' \in [Sessions -> Nat] /\ at'[t] = at[t] + 1
      /\ pc'[t] \in Entries \cup {"commit"} /\ InScript(t)'
  BY <1>1, ReturnStep
<1>3. Received(t)'
  BY <1>2, ReceivedKept
<1>4. Locks(t)' /\ Judged(t)' /\ Decided(t)'
  BY <1>2 DEF Locks, Judged, Decided, Judging, Deciding, Entries, Valid
<1>5. QED BY <1>2, <1>3, <1>4 DEF SessionInv

(* A step that writes no order keeps the invariant.                        *)
LEMMA StepInv ==
  ASSUME IInv, NEW t \in Sessions, TypeOK', Frame(t), SessionInv(t)', orders' = orders,
         \A e \in Evidence : Valid(obs'[e], e)
  PROVE  IInv'
<1>1. \A s \in Sessions : SessionInv(s)'
  BY OthersKept
<1>2. (\A e \in Evidence : EvidenceInv(e)') /\ (\A k \in Keys : KeyInv(k)')
  BY EvidenceKept, KeyKept
<1>3. QED BY <1>1, <1>2 DEF IInv

-----------------------------------------------------------------------------
(* The end of a transaction, kept or not. *)

LEMMA EndType ==
  ASSUME IInv, NEW t \in Sessions, NEW keep \in BOOLEAN, End(t, keep)
  PROVE  TypeOK'
<1>1. TypeOK
  BY DEF IInv
<1>2. Unseen \in Observation /\ NoOrder \in Order
  BY DEF Unseen, Observation, NoOrder, Order
<1>3. <<>> \in Seq(Op) /\ "idle" \in Steps
  BY DEF Steps
<1>4. /\ pc' \in [Sessions -> Steps] /\ script' \in [Sessions -> Seq(Op)] /\ at' \in [Sessions -> Nat]
      /\ sites' \subseteq Sites /\ starts' \in Nat
  BY <1>1, <1>3 DEF TypeOK, End
<1>5. /\ loaded' \in [Sessions -> [Evidence -> Observation]]
      /\ held' \in [Sessions -> [Keys -> Order]]
  BY <1>1, <1>2 DEF TypeOK, End
<1>6. /\ obs' \in [Evidence -> Observation] /\ settled' \in [Evidence -> Observation]
      /\ obsHolder' \in [Evidence -> Sessions \cup {Nobody}]
  BY <1>1 DEF TypeOK, End, Seen
<1>7. /\ orders' \in [Keys -> Order] /\ projected' \in [Keys -> Order]
      /\ keyHolder' \in [Keys -> Sessions \cup {Nobody}] /\ known' \subseteq Keys
  BY <1>1 DEF TypeOK, End, SeenOrder
<1>8. QED BY <1>4, <1>5, <1>6, <1>7 DEF TypeOK

LEMMA EndOthers ==
  ASSUME IInv, NEW t \in Sessions, NEW keep \in BOOLEAN, End(t, keep), NEW s \in Sessions \ {t}
  PROVE  SessionInv(s)'
<1>1. TypeOK /\ SessionInv(s) /\ s # Nobody /\ t # Nobody
  BY ObservationAssumption DEF IInv
<1>2. /\ pc'[s] = pc[s] /\ at'[s] = at[s] /\ script'[s] = script[s]
      /\ loaded'[s] = loaded[s] /\ held'[s] = held[s]
  BY <1>1 DEF TypeOK, End
<1>3. Call(s)' = Call(s) /\ Ev(s)' = Ev(s) /\ Key(s)' = Key(s)
  BY <1>2 DEF Call, Ev, Key
<1>4. pc[s] \in Calling => Ev(s) \in Evidence /\ Key(s) \in Keys
  BY <1>1, CallType DEF SessionInv
<1>5. /\ \A e \in Evidence : obsHolder'[e] = s <=> obsHolder[e] = s
      /\ \A e \in Evidence : obsHolder[e] = s => obs'[e] = obs[e]
      /\ \A k \in Keys : keyHolder'[k] = s <=> keyHolder[k] = s
      /\ \A k \in Keys : keyHolder[k] = s => orders'[k] = orders[k]
  BY <1>1 DEF TypeOK, End
<1>6. InScript(s)' /\ Judged(s)'
  BY <1>1, <1>2, <1>3 DEF SessionInv, InScript, Judged
<1>7. Locks(s)'
  BY <1>1, <1>2, <1>3, <1>4, <1>5 DEF SessionInv, Locks, Calling, Judging, Deciding
<1>8. Received(s)'
  <2> SUFFICES ASSUME NEW n \in 1..Len(script[s]), n < at[s], NEW call \in Op,
                      call = script[s][n], call.do = "stage"
               PROVE  call.batch \in Seen(s, call.e)'.batches
    <3>1. \A n \in 1..Len(script[s]) : script[s][n] \in Op
      BY <1>1, ElementOfSeq DEF TypeOK
    <3>2. QED BY <1>2, <3>1 DEF Received
  <2>1. call.batch \in Seen(s, call.e).batches /\ call.e \in Evidence
    BY <1>1 DEF SessionInv, Received, Op
  <2>2. \A e \in Evidence : settled[e].batches \subseteq settled'[e].batches
    BY DEF End, Seen, IInv, EvidenceInv
  <2>3. Seen(s, call.e).batches \subseteq Seen(s, call.e)'.batches
    BY <1>5, <2>1, <2>2 DEF Seen
  <2>4. QED BY <2>1, <2>3
<1>9. Remembered(s)'
  <2> SUFFICES ASSUME NEW k \in Keys, There(held[s][k])
               PROVE  held[s][k] = SeenOrder(s, k)' /\ obsHolder'[held[s][k].current] = s
    BY <1>2 DEF Remembered
  <2>1. held[s][k] = SeenOrder(s, k) /\ obsHolder[held[s][k].current] = s /\ KeyInv(k)
    BY <1>1 DEF SessionInv, Remembered, IInv
  <2>2. held[s][k].current \in Evidence
    BY <2>1 DEF SeenOrder, KeyInv, OfKey, Projection
  <2>3. keyHolder[k] = t => orders[k] = projected[k]
    BY <1>1, <2>1 DEF SeenOrder, KeyInv
  <2>4. keyHolder[k] # s => projected'[k] = projected[k]
    BY <2>3 DEF End, SeenOrder
  <2>5. QED BY <1>5, <2>1, <2>2, <2>4 DEF SeenOrder
<1>10. Decided(s)'
  <2>1. pc[s] \in Deciding => orders'[Key(s)] = orders[Key(s)]
    BY <1>1, <1>4, <1>5 DEF SessionInv, Locks, Calling, Deciding
  <2>2. QED BY <1>1, <1>2, <1>3, <2>1 DEF SessionInv, Decided, Deciding, Proven, Matches, Supersedes
<1>11. QED BY <1>6, <1>7, <1>8, <1>9, <1>10 DEF SessionInv

LEMMA EndInv ==
  ASSUME IInv, NEW t \in Sessions, NEW keep \in BOOLEAN, End(t, keep)
  PROVE  IInv'
<1>1. TypeOK /\ t # Nobody
  BY ObservationAssumption DEF IInv
<1>2. TypeOK'
  BY EndType
<1>3. SessionInv(t)'
  <2>1. /\ pc'[t] = "idle" /\ script'[t] = <<>>
        /\ loaded'[t] = [e \in Evidence |-> Unseen] /\ held'[t] = [k \in Keys |-> NoOrder]
    BY <1>1 DEF TypeOK, End
  <2>2. InScript(t)' /\ Locks(t)' /\ Decided(t)' /\ Received(t)'
    BY <2>1 DEF InScript, Locks, Decided, Received, Calling, Judging, Deciding
  <2>3. Judged(t)' /\ Remembered(t)'
    BY <2>1 DEF Judged, Remembered, Valid, Unseen, NoOrder, There, Judging, Deciding
  <2>4. QED BY <2>2, <2>3 DEF SessionInv
<1>4. \A s \in Sessions : SessionInv(s)'
  BY <1>3, EndOthers
<1>5. ASSUME NEW e \in Evidence PROVE EvidenceInv(e)'
  <2>1. EvidenceInv(e)
    BY DEF IInv
  <2>2. e.key \in Keys
    BY ObservationAssumption
  <2>3. /\ settled'[e] \in {settled[e], obs[e]} /\ obs'[e] \in {settled[e], obs[e]}
        /\ settled'[e].batches \subseteq obs'[e].batches
        /\ obsHolder'[e] = Nobody => obs'[e] = settled'[e]
    BY <1>1, <2>1 DEF EvidenceInv, End, Seen
  <2>4. obsHolder'[e] # Nobody /\ ~Present(settled'[e]) => keyHolder'[e.key] = obsHolder'[e]
    BY <1>1, <2>1, <2>2 DEF EvidenceInv, End, Seen
  <2>5. Valid(obs'[e], e) /\ Valid(settled'[e], e)
    BY <2>1, <2>3 DEF EvidenceInv
  <2>6. QED BY <2>3, <2>4, <2>5 DEF EvidenceInv, Valid
<1>6. ASSUME NEW k \in Keys PROVE KeyInv(k)'
  <2>1. KeyInv(k)
    BY DEF IInv
  <2>2. CASE keyHolder[k] = t
    <3>1. orders'[k] = projected'[k] /\ orders'[k] \in {orders[k], projected[k]}
      BY <2>2 DEF End, SeenOrder
    <3>2. QED BY <2>1, <3>1 DEF KeyInv, OfKey, Advanced, There, Projection
  <2>3. CASE keyHolder[k] # t
    <3>1. orders'[k] = orders[k] /\ projected'[k] = projected[k] /\ keyHolder'[k] = keyHolder[k]
      BY <2>3 DEF End, SeenOrder
    <3>2. There(projected[k]) => projected[k].current \in Evidence
      BY <2>1 DEF KeyInv, OfKey, Projection
    <3>3. \A e \in Evidence : obsHolder[e] = keyHolder[k] => obsHolder'[e] = keyHolder[k]
      BY <2>3 DEF End
    <3>4. QED BY <2>1, <3>1, <3>2, <3>3 DEF KeyInv, OfKey, Advanced, There, Projection
  <2>4. QED BY <2>2, <2>3
<1>7. QED BY <1>2, <1>4, <1>5, <1>6 DEF IInv

-----------------------------------------------------------------------------
(* The beginning of a transaction, and stage_order_observation. *)

LEMMA BeginInv ==
  ASSUME IInv, NEW t \in Sessions, NEW calls \in Scripts, Begin(t, calls)
  PROVE  IInv' /\ Frame(t)
<1>1. TypeOK /\ SessionInv(t) /\ t # Nobody
  BY ObservationAssumption DEF IInv
<1>2. calls \in Seq(Op) /\ calls # <<>> /\ Len(calls) \in Nat /\ 1 \in 1..Len(calls)
  BY ObservationAssumption, LenProperties, EmptySeq
<1>3. calls[1] \in Op
  BY <1>2, ElementOfSeq
<1>4. FirstStep(calls[1]) \in Entries /\ (calls[1].do = "stage" <=> FirstStep(calls[1]) = "identity")
  BY <1>3, FirstStepEntry
<1>5. /\ pc'[t] = FirstStep(calls[1]) /\ script'[t] = calls /\ at'[t] = 1
      /\ Call(t)' = calls[1]
  BY <1>1 DEF TypeOK, Begin, Call
<1>6. TypeOK'
  BY <1>1, <1>2, <1>4, ObservationAssumption DEF TypeOK, Begin, rowVars, Entries, Steps
<1>7. Frame(t)
  BY DEF Begin, rowVars, Frame
<1>8. InScript(t)'
  BY <1>2, <1>4, <1>5 DEF InScript, Entries, Calling
<1>9. Locks(t)' /\ Judged(t)' /\ Decided(t)' /\ Received(t)'
  BY <1>1, <1>4, <1>5 DEF Begin, SessionInv, Locks, Judged, Decided, Received, Entries, Judging, Deciding
<1>10. Remembered(t)'
  BY <1>7, RememberedKept DEF Begin, rowVars
<1>11. SessionInv(t)'
  BY <1>8, <1>9, <1>10 DEF SessionInv
<1>12. \A e \in Evidence : Valid(obs'[e], e)
  BY DEF Begin, rowVars, IInv, EvidenceInv
<1>13. QED BY <1>6, <1>7, <1>11, <1>12, StepInv DEF Begin, rowVars

(* A statement of a call that writes no order and goes on with the call,   *)
(* having made true what the next statement relies on.                     *)
LEMMA GoToInv ==
  ASSUME IInv, NEW t \in Sessions, pc[t] \in Calling, NEW step \in Calling,
         pc[t] \in {"identity", "newIdentity", "record"} <=> step \in {"identity", "newIdentity", "record"},
         GoTo(t, step),
         keyHolder' \in [Keys -> Sessions \cup {Nobody}],
         obsHolder' \in [Evidence -> Sessions \cup {Nobody}],
         Frame(t), UNCHANGED <<known, settled, orders, projected, held>>,
         obs' \in [Evidence -> Observation],
         loaded' \in [Sessions -> [Evidence -> Observation]],
         \A e \in Evidence : Valid(obs'[e], e) /\ Valid(loaded'[t][e], e),
         step \in Judging \cup {"recheck"} => obsHolder'[Ev(t)] = t,
         step \in Deciding \cup {"record"} => keyHolder'[Key(t)] = t,
         step \in Judging => Invalid(Ev(t).facts.row) = {},
         step \in Deciding => Gaps(Ev(t).facts.row) = {},
         step \in {"insert", "clash"} => ~There(orders[Key(t)]),
         step = "supersede" => There(orders[Key(t)]) /\ Proven(t, orders[Key(t)])
  PROVE  IInv'
<1>1. TypeOK /\ SessionInv(t) /\ InScript(t)
  BY DEF IInv, SessionInv
<1>2. /\ pc' \in [Sessions -> Steps] /\ script' = script /\ at' = at /\ pc'[t] = step
      /\ InScript(t)'
      /\ Call(t)' = Call(t) /\ Ev(t)' = Ev(t) /\ Key(t)' = Key(t)
  BY <1>1, GoToStep
<1>3. TypeOK'
  BY <1>1, <1>2 DEF TypeOK, GoTo
<1>4. Received(t)'
  BY <1>1, <1>2, ReceivedKept DEF TypeOK
<1>5. Remembered(t)'
  BY RememberedKept
<1>6. Locks(t)' /\ Judged(t)'
  BY <1>2 DEF Locks, Judged
<1>7. Decided(t)'
  BY <1>2 DEF Decided, Proven, Matches, Supersedes
<1>8. SessionInv(t)'
  BY <1>2, <1>4, <1>5, <1>6, <1>7 DEF SessionInv
<1>9. QED BY <1>3, <1>8, StepInv

LEMMA IdentityInv ==
  ASSUME IInv, NEW t \in Sessions, FindIdentity(t) \/ CreateIdentity(t) \/ IdentityTaken(t)
  PROVE  IInv' /\ Frame(t)
<1>1. TypeOK /\ SessionInv(t) /\ InScript(t) /\ t # Nobody
  BY ObservationAssumption DEF IInv, SessionInv
<1>2. pc[t] \in Calling /\ Key(t) \in Keys
  <2>1. pc[t] \in Calling
    BY DEF FindIdentity, CreateIdentity, IdentityTaken, Calling
  <2>2. QED BY <1>1, <2>1, CallType
<1>3. /\ keyHolder' \in [Keys -> Sessions \cup {Nobody}]
      /\ UNCHANGED <<known, obs, settled, obsHolder, orders, projected, loaded, held>>
  BY <1>1, <1>2 DEF TypeOK, FindIdentity, CreateIdentity, IdentityTaken, rowVars
<1>4. \E step \in {"identity", "newIdentity", "record"} : GoTo(t, step)
  BY DEF FindIdentity, CreateIdentity, IdentityTaken
<1>5. Frame(t)
  BY <1>1, <1>2, <1>3, <1>4 DEF TypeOK, Frame, GoTo, FindIdentity, CreateIdentity, IdentityTaken, FreeKey, rowVars
<1>6. \A e \in Evidence : Valid(obs'[e], e) /\ Valid(loaded'[t][e], e)
  BY <1>1, <1>3 DEF SessionInv, Judged, IInv, EvidenceInv
<1>7. pc[t] \in {"identity", "newIdentity", "record"}
  BY DEF FindIdentity, CreateIdentity, IdentityTaken
<1>8. PICK step \in {"identity", "newIdentity", "record"} : GoTo(t, step)
  BY <1>4
<1>9. step \in Calling /\ step \notin Judging \cup Deciding \cup {"recheck", "insert", "clash", "supersede"}
  BY DEF Calling, Judging, Deciding
<1>10. step = "record" => keyHolder'[Key(t)] = t
  <2> SUFFICES ASSUME step = "record" PROVE keyHolder'[Key(t)] = t
    OBVIOUS
  <2>1. pc'[t] = "record"
    BY <1>1, <1>8 DEF TypeOK, GoTo
  <2>2. QED BY <1>1, <1>2, <2>1 DEF TypeOK, FindIdentity, CreateIdentity, IdentityTaken, GoTo
<1>11. QED BY <1>10, <1>1, <1>2, <1>3, <1>5, <1>6, <1>7, <1>8, <1>9, GoToInv DEF TypeOK

(* A statement that writes no order and ends its call.                     *)
LEMMA ReturnInv ==
  ASSUME IInv, NEW t \in Sessions, pc[t] \in Calling, Return(t), Frame(t),
         keyHolder' \in [Keys -> Sessions \cup {Nobody}],
         obsHolder' \in [Evidence -> Sessions \cup {Nobody}],
         obs' \in [Evidence -> Observation],
         loaded' \in [Sessions -> [Evidence -> Observation]],
         UNCHANGED <<known, settled, orders, projected, held>>,
         \A e \in Evidence : Valid(obs'[e], e) /\ Valid(loaded'[t][e], e),
         Call(t).do = "stage" =>
           \/ Call(t).batch \in Seen(t, Ev(t)).batches
           \/ obsHolder'[Ev(t)] = t /\ Call(t).batch \in obs'[Ev(t)].batches
  PROVE  IInv'
<1>1. TypeOK /\ SessionInv(t) /\ InScript(t)
  BY DEF IInv, SessionInv
<1>2. /\ pc' \in [Sessions -> Steps] /\ script' = script /\ at' \in [Sessions -> Nat]
  BY <1>1, ReturnStep
<1>3. TypeOK'
  BY <1>1, <1>2 DEF TypeOK, Return
<1>4. Remembered(t)'
  BY RememberedKept
<1>5. SessionInv(t)'
  BY <1>4, ReturnKept
<1>6. QED BY <1>3, <1>5, StepInv

LEMMA AssessedStatus ==
  ASSUME NEW e \in Evidence, NEW batch \in Batches
  PROVE  Recorded(e, batch) \in Observation /\ Valid(Recorded(e, batch), e)
  BY DEF Recorded, Observation, ObservationStatuses, Valid, Assessed, Present

LEMMA StageInv ==
  ASSUME IInv, NEW t \in Sessions, Record(t) \/ Replay(t)
  PROVE  IInv' /\ Frame(t)
<1>1. TypeOK /\ SessionInv(t) /\ InScript(t) /\ t # Nobody /\ pc[t] \in Calling
  BY ObservationAssumption DEF IInv, SessionInv, Record, Replay, Calling
<1>2. PICK e \in Evidence : e = Ev(t)
  BY <1>1, CallType
<1>3. PICK batch \in Batches : batch = Call(t).batch
  BY <1>1, CallType DEF Op
<1>4. /\ obs[e] \in Observation /\ settled[e] \in Observation /\ loaded[t][e] \in Observation
      /\ Seen(t, e) \in Observation
      /\ EvidenceInv(e) /\ Valid(loaded[t][e], e) /\ Valid(Seen(t, e), e)
  BY <1>1 DEF TypeOK, IInv, SessionInv, Judged, EvidenceInv, Seen
<1>5. /\ Return(t) /\ UNCHANGED <<known, keyHolder, settled, orders, projected, held>>
  BY DEF Record, Replay
<1>6. \/ obs' = obs /\ obsHolder' = obsHolder /\ batch \in Seen(t, e).batches
      \/ \E row \in Observation :
           /\ obsHolder[e] \in {t, Nobody} /\ obs' = [obs EXCEPT ![e] = row]
           /\ obsHolder' = [obsHolder EXCEPT ![e] = t]
           /\ Valid(row, e) /\ obs[e].batches \subseteq row.batches /\ batch \in row.batches
  <2>1. CASE Record(t)
    <3>1. Write(t, e, Recorded(e, batch)) /\ ~Present(Seen(t, e))
      BY <1>2, <1>3, <2>1 DEF Record
    <3>2. Recorded(e, batch) \in Observation /\ Valid(Recorded(e, batch), e)
      BY AssessedStatus
    <3>3. keyHolder[e.key] = t
      BY <1>1, <1>2, <2>1 DEF SessionInv, Locks, Record, Key
    <3>4. obsHolder[e] \in {t, Nobody} /\ obs[e].batches = {}
      BY <1>1, <1>4, <3>1, <3>3 DEF Seen, EvidenceInv, Valid
    <3>5. QED BY <3>1, <3>2, <3>4 DEF Write, Recorded
  <2>2. CASE Replay(t)
    <3>1. CASE batch \in Seen(t, e).batches
      BY <1>2, <1>3, <2>2, <3>1 DEF Replay
    <3>2. CASE batch \notin Seen(t, e).batches
      <4> DEFINE row == [status |-> obs[e].status, next |-> obs[e].next,
                         batches |-> obs[e].batches \cup {batch}]
      <4>1. row \in Observation /\ [obs[e] EXCEPT !.batches = @ \cup {batch}] = row
        BY <1>4 DEF Observation
      <4>2. Free(t, e) /\ Write(t, e, row)
        BY <1>2, <1>3, <2>2, <3>2, <4>1 DEF Replay
      <4>3. Valid(row, e)
        <5>1. Present(obs[e])
          BY <1>2, <1>4, <2>2, <4>2 DEF Replay, Seen, Free, EvidenceInv
        <5>2. QED BY <1>4, <5>1 DEF EvidenceInv, Valid, Present
      <4>4. QED BY <4>1, <4>2, <4>3 DEF Write, Free
    <3>3. QED BY <3>1, <3>2
  <2>3. QED BY <2>1, <2>2
<1>7. keyHolder[e.key] = t
  BY <1>1, <1>2 DEF SessionInv, Locks, Record, Replay, Key
<1>8. /\ obs' \in [Evidence -> Observation] /\ obsHolder' \in [Evidence -> Sessions \cup {Nobody}]
      /\ \A f \in Evidence : Valid(obs'[f], f)
      /\ \A f \in Evidence : obs[f].batches \subseteq obs'[f].batches
      /\ \A f \in Evidence :
           \/ obs'[f] = obs[f] /\ obsHolder'[f] = obsHolder[f]
           \/ f = e /\ obsHolder[f] \in {t, Nobody} /\ obsHolder'[f] = t
      /\ \/ batch \in Seen(t, e).batches
         \/ obsHolder'[e] = t /\ batch \in obs'[e].batches
  <2>1. \A f \in Evidence : Valid(obs[f], f)
    BY DEF IInv, EvidenceInv
  <2>2. CASE obs' = obs /\ obsHolder' = obsHolder /\ batch \in Seen(t, e).batches
    <3>1. obs \in [Evidence -> Observation] /\ obsHolder \in [Evidence -> Sessions \cup {Nobody}]
      BY <1>1 DEF TypeOK
    <3>2. QED BY <2>1, <2>2, <3>1
  <2>3. ASSUME NEW row \in Observation,
               obsHolder[e] \in {t, Nobody}, obs' = [obs EXCEPT ![e] = row],
               obsHolder' = [obsHolder EXCEPT ![e] = t],
               Valid(row, e), obs[e].batches \subseteq row.batches, batch \in row.batches
        PROVE  <1>8
    BY <1>1, <2>1, <2>3 DEF TypeOK
  <2>4. QED BY <1>6, <2>2, <2>3
<1>9. Frame(t)
  BY <1>1, <1>5, <1>7, <1>8 DEF TypeOK, Frame, Return, Record, Replay
<1>10. /\ loaded' \in [Sessions -> [Evidence -> Observation]]
       /\ \A f \in Evidence : Valid(loaded'[t][f], f)
  <2>1. PICK row \in Observation : Valid(row, e) /\ loaded' = [loaded EXCEPT ![t][e] = row]
    <3>1. CASE Record(t)
      BY <1>2, <1>3, <3>1, AssessedStatus DEF Record
    <3>2. CASE Replay(t)
      BY <1>2, <1>4, <3>2 DEF Replay
    <3>3. QED BY <3>1, <3>2
  <2>2. \A f \in Evidence : Valid(loaded[t][f], f)
    BY <1>1 DEF SessionInv, Judged
  <2>3. QED BY <1>1, <2>1, <2>2 DEF TypeOK
<1>11. QED
  BY <1>1, <1>2, <1>3, <1>5, <1>8, <1>9, <1>10, ReturnInv DEF TypeOK

-----------------------------------------------------------------------------
(* promote_order_observation. *)

\* what holds of a session in any of its promotion's statements
LEMMA Promotion ==
  ASSUME IInv, NEW t \in Sessions,
         pc[t] \in {"load", "observe", "recheck", "judge", "decide", "insert", "clash", "supersede"}
  PROVE  /\ TypeOK /\ SessionInv(t) /\ InScript(t) /\ t # Nobody /\ pc[t] \in Calling
         /\ Ev(t) \in Evidence /\ Key(t) \in Keys /\ Key(t) = Ev(t).key
         /\ Call(t).do # "stage"
         /\ \A e \in Evidence : Valid(obs[e], e) /\ Valid(settled[e], e) /\ Valid(loaded[t][e], e)
<1>1. TypeOK /\ SessionInv(t) /\ InScript(t) /\ t # Nobody /\ pc[t] \in Calling
  BY ObservationAssumption DEF IInv, SessionInv, Calling
<1>2. Ev(t) \in Evidence /\ Key(t) \in Keys /\ Key(t) = Ev(t).key
  BY <1>1, CallType DEF Key
<1>3. Call(t).do # "stage"
  BY <1>1 DEF InScript
<1>4. \A e \in Evidence : Valid(obs[e], e) /\ Valid(settled[e], e) /\ Valid(loaded[t][e], e)
  BY <1>1 DEF IInv, EvidenceInv, SessionInv, Judged
<1>5. QED BY <1>1, <1>2, <1>3, <1>4

LEMMA LoadInv ==
  ASSUME IInv, NEW t \in Sessions, Load(t)
  PROVE  IInv' /\ Frame(t)
<1>1. pc[t] = "load"
  BY DEF Load
<1>2. /\ TypeOK /\ SessionInv(t) /\ pc[t] \in Calling /\ Ev(t) \in Evidence
      /\ \A e \in Evidence : Valid(obs[e], e) /\ Valid(settled[e], e) /\ Valid(loaded[t][e], e)
  BY <1>1, Promotion
<1>3. PICK e \in Evidence : e = Ev(t)
  BY <1>2
<1>4. Seen(t, e) \in Observation /\ Valid(Seen(t, e), e)
  BY <1>2 DEF TypeOK, Seen
<1>5. loaded' = [loaded EXCEPT ![t][e] = Seen(t, e)] /\ GoTo(t, "observe")
      /\ UNCHANGED rowVars /\ UNCHANGED held
  BY <1>3 DEF Load
<1>6. /\ loaded' \in [Sessions -> [Evidence -> Observation]]
      /\ \A f \in Evidence : Valid(loaded'[t][f], f)
  BY <1>2, <1>4, <1>5 DEF TypeOK
<1>7. Frame(t)
  BY <1>2, <1>5 DEF TypeOK, Frame, GoTo, rowVars
<1>8. "observe" \in Calling /\ "observe" \notin Judging \cup Deciding
  BY DEF Calling, Judging, Deciding
<1>9. QED BY <1>1, <1>2, <1>5, <1>6, <1>7, <1>8, GoToInv DEF TypeOK, rowVars

LEMMA BelievedValid ==
  ASSUME IInv, NEW t \in Sessions,
         pc[t] \in {"observe", "recheck", "judge", "decide", "insert", "clash", "supersede"}
  PROVE  Believed(t) \in Observation /\ Valid(Believed(t), Ev(t))
<1>1. /\ TypeOK /\ Ev(t) \in Evidence
      /\ \A e \in Evidence : Valid(obs[e], e) /\ Valid(loaded[t][e], e)
  BY Promotion
<1>2. QED BY <1>1 DEF Believed, TypeOK

LEMMA ObserveInv ==
  ASSUME IInv, NEW t \in Sessions, Observe(t)
  PROVE  IInv' /\ Frame(t)
<1>1. pc[t] = "observe"
  BY DEF Observe
<1>2. /\ TypeOK /\ SessionInv(t) /\ t # Nobody /\ pc[t] \in Calling /\ Ev(t) \in Evidence
      /\ Call(t).do # "stage"
      /\ \A e \in Evidence : Valid(obs[e], e) /\ Valid(loaded[t][e], e)
  BY <1>1, Promotion
<1>3. UNCHANGED <<known, keyHolder, obs, settled, orders, projected, loaded, held>>
  BY DEF Observe
<1>4. obsHolder' \in [Evidence -> Sessions \cup {Nobody}]
  BY <1>2 DEF TypeOK, Observe
<1>5. \A s \in Sessions \ {t} : pc'[s] = pc[s] /\ at'[s] = at[s] /\ script'[s] = script[s]
  BY <1>2 DEF TypeOK, Observe, Return, GoTo
<1>6. \A e \in Evidence :
        \/ obsHolder'[e] = obsHolder[e]
        \/ obsHolder[e] = Nobody /\ obsHolder'[e] = t /\ Present(settled[e])
  BY <1>2 DEF TypeOK, Observe, Free, Seen
<1>7. Frame(t)
  BY <1>3, <1>5, <1>6 DEF Frame
<1>8. CASE Return(t)
  BY <1>2, <1>3, <1>4, <1>7, <1>8, ReturnInv DEF TypeOK
<1>9. CASE ~Return(t)
  <2>1. /\ StepAfter(Believed(t).status) # "refused" /\ GoTo(t, StepAfter(Believed(t).status))
        /\ obsHolder'[Ev(t)] = t
    BY <1>2, <1>9 DEF TypeOK, Observe
  <2>2. Believed(t) \in Observation /\ Valid(Believed(t), Ev(t))
    BY <1>1, BelievedValid
  <2>3. PICK step \in {"recheck", "judge"} : step = StepAfter(Believed(t).status)
    BY <2>1 DEF StepAfter
  <2>4. step = "judge" => Invalid(Ev(t).facts.row) = {}
    BY <2>2, <2>3 DEF StepAfter, Valid
  <2>5. step \in Calling /\ step \notin Deciding /\ (step \in Judging <=> step = "judge")
    BY DEF Calling, Judging, Deciding
  <2>6. step \notin {"insert", "clash", "supersede", "record", "identity", "newIdentity"}
    OBVIOUS
  <2>7. GoTo(t, step)
    BY <2>1, <2>3
  <2>8. QED
    BY <1>1, <1>2, <1>3, <1>4, <1>7, <2>1, <2>4, <2>5, <2>6, <2>7, GoToInv DEF TypeOK
<1>10. QED BY <1>8, <1>9

(* The order a session believes in is the one it sees, and one there is is *)
(* the projection of evidence of its key.                                  *)
LEMMA BelievedOrderSeen ==
  ASSUME IInv, NEW t \in Sessions,
         pc[t] \in {"recheck", "judge", "decide", "insert", "clash", "supersede"}
  PROVE  BelievedOrder(t) = SeenOrder(t, Key(t)) /\ OfKey(BelievedOrder(t), Key(t))
<1>1. TypeOK /\ SessionInv(t) /\ Key(t) \in Keys
  BY Promotion
<1>2. BelievedOrder(t) = SeenOrder(t, Key(t))
  BY <1>1 DEF BelievedOrder, SessionInv, Remembered
<1>3. QED BY <1>1, <1>2 DEF SeenOrder, IInv, KeyInv

LEMMA RecheckInv ==
  ASSUME IInv, NEW t \in Sessions, Recheck(t)
  PROVE  IInv' /\ Frame(t)
<1>1. pc[t] = "recheck"
  BY DEF Recheck
<1>2. /\ TypeOK /\ SessionInv(t) /\ InScript(t) /\ pc[t] \in Calling /\ Key(t) \in Keys
      /\ Call(t).do # "stage"
      /\ \A e \in Evidence : Valid(obs[e], e) /\ Valid(loaded[t][e], e)
  BY <1>1, Promotion
<1>3. UNCHANGED rowVars /\ UNCHANGED loaded /\ Return(t)
  BY DEF Recheck
<1>4. PICK k \in Keys : k = Key(t)
  BY <1>2
<1>5. SeenOrder(t, k) \in Order
  BY <1>2 DEF TypeOK, SeenOrder
<1>6. \/ held' = held
      \/ held' = [held EXCEPT ![t][k] = SeenOrder(t, k)] /\ obsHolder[SeenOrder(t, k).current] = t
  BY <1>1, <1>2, <1>4, BelievedOrderSeen DEF Recheck, SessionInv, Locks
<1>7. held' \in [Sessions -> [Keys -> Order]] /\ \A s \in Sessions \ {t} : held'[s] = held[s]
  <2>1. held \in [Sessions -> [Keys -> Order]]
    BY <1>2 DEF TypeOK
  <2>2. ASSUME NEW order \in Order, held' = [held EXCEPT ![t][k] = order] PROVE <1>7
    BY <2>1, <2>2
  <2>3. QED BY <1>5, <1>6, <2>1, <2>2
<1>8. /\ pc' \in [Sessions -> Steps] /\ script' = script /\ at' \in [Sessions -> Nat]
      /\ \A s \in Sessions \ {t} : pc'[s] = pc[s] /\ at'[s] = at[s]
  BY <1>2, <1>3, ReturnStep
<1>9. TypeOK'
  BY <1>2, <1>3, <1>7, <1>8 DEF TypeOK, Return, rowVars
<1>10. Frame(t)
  BY <1>3, <1>7, <1>8 DEF Frame, rowVars
<1>11. Remembered(t)'
  <2> SUFFICES ASSUME NEW q \in Keys, There(held'[t][q])
               PROVE  held'[t][q] = SeenOrder(t, q)' /\ obsHolder'[held'[t][q].current] = t
    BY DEF Remembered
  <2>1. SeenOrder(t, q)' = SeenOrder(t, q) /\ obsHolder' = obsHolder
    BY <1>3 DEF SeenOrder, rowVars
  <2>2. There(held[t][q]) => held[t][q] = SeenOrder(t, q) /\ obsHolder[held[t][q].current] = t
    BY <1>2 DEF SessionInv, Remembered
  <2>3. held'[t][q] = held[t][q] \/ (held'[t][q] = SeenOrder(t, q) /\ obsHolder[SeenOrder(t, q).current] = t)
    BY <1>2, <1>6 DEF TypeOK
  <2>4. QED BY <2>1, <2>2, <2>3
<1>12. SessionInv(t)'
  BY <1>2, <1>3, <1>10, <1>11, ReturnKept
<1>13. QED BY <1>2, <1>3, <1>9, <1>10, <1>12, StepInv DEF rowVars

(* Setting the status of the evidence a promotion has locked.              *)
LEMMA SetStatusKept ==
  ASSUME IInv, NEW t \in Sessions, pc[t] \in Judging,
         NEW status \in ObservationStatuses, SetStatus(t, status)
  PROVE  /\ obs' \in [Evidence -> Observation] /\ loaded' \in [Sessions -> [Evidence -> Observation]]
         /\ \A e \in Evidence : Valid(obs'[e], e) /\ Valid(loaded'[t][e], e)
         /\ \A e \in Evidence : obs'[e].batches = obs[e].batches
         /\ \A e \in Evidence : obs'[e] = obs[e] \/ obsHolder[e] = t
         /\ \A s \in Sessions \ {t} : loaded'[s] = loaded[s]
<1>1. pc[t] \in {"judge", "decide", "insert", "clash", "supersede"}
  BY DEF Judging, Deciding
<1>2. /\ TypeOK /\ SessionInv(t) /\ Ev(t) \in Evidence
      /\ \A e \in Evidence : Valid(obs[e], e) /\ Valid(loaded[t][e], e)
  BY <1>1, Promotion
<1>3. PICK e \in Evidence : e = Ev(t)
  BY <1>2
<1>4. Believed(t) \in Observation /\ Valid(Believed(t), e)
  BY <1>1, <1>3, BelievedValid
<1>5. Invalid(e.facts.row) = {} /\ obsHolder[e] = t
  BY <1>2, <1>3 DEF SessionInv, Judged, Locks
<1> DEFINE new == [Believed(t) EXCEPT !.status = status]
           row == [obs[e] EXCEPT !.status = IF status = Believed(t).status THEN @ ELSE status]
<1>6. /\ new \in Observation /\ row \in Observation
      /\ row.batches = obs[e].batches /\ row.status \in {obs[e].status, status}
      /\ new.status = status
  BY <1>2, <1>4 DEF TypeOK, Observation
<1>7. Valid(new, e)
  BY <1>4, <1>5, <1>6 DEF Valid, Present, ObservationStatuses
<1>8. Valid(row, e)
  BY <1>2, <1>5, <1>6 DEF Valid, Present, ObservationStatuses
<1>9. loaded' = [loaded EXCEPT ![t][e] = new] /\ obs' = [obs EXCEPT ![e] = row]
  BY <1>2, <1>3 DEF SetStatus, TypeOK
<1> HIDE DEF new, row
<1>10. /\ obs' \in [Evidence -> Observation] /\ loaded' \in [Sessions -> [Evidence -> Observation]]
       /\ \A s \in Sessions \ {t} : loaded'[s] = loaded[s]
  BY <1>2, <1>6, <1>9 DEF TypeOK
<1>11. \A f \in Evidence : Valid(obs'[f], f) /\ Valid(loaded'[t][f], f)
  BY <1>2, <1>7, <1>8, <1>9 DEF TypeOK
<1>12. \A f \in Evidence : obs'[f].batches = obs[f].batches /\ (obs'[f] = obs[f] \/ obsHolder[f] = t)
  BY <1>2, <1>5, <1>6, <1>9 DEF TypeOK
<1>13. QED BY <1>10, <1>11, <1>12

LEMMA LeaveInv ==
  ASSUME IInv, NEW t \in Sessions, pc[t] \in Judging,
         NEW status \in ObservationStatuses, Leave(t, status),
         keyHolder' \in [Keys -> Sessions \cup {Nobody}],
         \A k \in Keys : \/ keyHolder'[k] = keyHolder[k]
                         \/ keyHolder[k] = Nobody /\ keyHolder'[k] = t
  PROVE  IInv' /\ Frame(t)
<1>1. pc[t] \in {"judge", "decide", "insert", "clash", "supersede"}
  BY DEF Judging, Deciding
<1>2. TypeOK /\ InScript(t) /\ pc[t] \in Calling /\ Ev(t) \in Evidence /\ Call(t).do # "stage"
  BY <1>1, Promotion
<1>3. /\ obs' \in [Evidence -> Observation] /\ loaded' \in [Sessions -> [Evidence -> Observation]]
      /\ \A e \in Evidence : Valid(obs'[e], e) /\ Valid(loaded'[t][e], e)
      /\ \A e \in Evidence : obs'[e].batches = obs[e].batches
      /\ \A e \in Evidence : obs'[e] = obs[e] \/ obsHolder[e] = t
      /\ \A s \in Sessions \ {t} : loaded'[s] = loaded[s]
  BY SetStatusKept DEF Leave
<1>4. Return(t) /\ UNCHANGED <<known, settled, obsHolder, orders, projected, held>>
  BY DEF Leave
<1>5. script' = script /\ \A s \in Sessions \ {t} : pc'[s] = pc[s] /\ at'[s] = at[s]
  BY <1>2, <1>4, ReturnStep
<1>6. Frame(t)
  BY <1>3, <1>4, <1>5 DEF Frame
<1>7. QED BY <1>2, <1>3, <1>4, <1>6, ReturnInv DEF TypeOK

LEMMA JudgeInv ==
  ASSUME IInv, NEW t \in Sessions, Judge(t)
  PROVE  IInv' /\ Frame(t)
<1>1. pc[t] = "judge" /\ pc[t] \in Judging
  BY DEF Judge, Judging, Deciding
<1>2. /\ TypeOK /\ SessionInv(t) /\ t # Nobody /\ pc[t] \in Calling /\ Key(t) \in Keys
  BY <1>1, Promotion
<1>3. /\ keyHolder' \in [Keys -> Sessions \cup {Nobody}] /\ keyHolder'[Key(t)] = t
      /\ \A k \in Keys : \/ keyHolder'[k] = keyHolder[k]
                         \/ keyHolder[k] = Nobody /\ keyHolder'[k] = t
  BY <1>2 DEF TypeOK, Judge, FreeKey
<1>4. {"CONFLICT_BLOCKED", "CONTEXT_INCOMPLETE", "NORMALIZED"} \subseteq ObservationStatuses
  BY DEF ObservationStatuses
<1>5. CASE Leave(t, "CONFLICT_BLOCKED") \/ Leave(t, "CONTEXT_INCOMPLETE")
  BY <1>1, <1>3, <1>4, <1>5, LeaveInv
<1>6. CASE ~(Leave(t, "CONFLICT_BLOCKED") \/ Leave(t, "CONTEXT_INCOMPLETE"))
  <2>1. /\ SetStatus(t, "NORMALIZED") /\ GoTo(t, "decide") /\ Gaps(Ev(t).facts.row) = {}
        /\ UNCHANGED <<known, settled, obsHolder, orders, projected, held>>
    BY <1>6 DEF Judge
  <2>2. /\ obs' \in [Evidence -> Observation] /\ loaded' \in [Sessions -> [Evidence -> Observation]]
        /\ \A e \in Evidence : Valid(obs'[e], e) /\ Valid(loaded'[t][e], e)
        /\ \A e \in Evidence : obs'[e].batches = obs[e].batches
        /\ \A e \in Evidence : obs'[e] = obs[e] \/ obsHolder[e] = t
        /\ \A s \in Sessions \ {t} : loaded'[s] = loaded[s]
    BY <1>1, <1>4, <2>1, SetStatusKept
  <2>3. Frame(t)
    BY <1>2, <1>3, <2>1, <2>2 DEF TypeOK, Frame, GoTo
  <2>4. Invalid(Ev(t).facts.row) = {} /\ obsHolder[Ev(t)] = t
    BY <1>1, <1>2 DEF SessionInv, Judged, Locks
  <2>5. "decide" \in Calling /\ obsHolder \in [Evidence -> Sessions \cup {Nobody}]
    BY <1>2 DEF Calling, TypeOK
  <2>6. QED BY <1>1, <1>2, <1>3, <2>1, <2>2, <2>3, <2>4, <2>5, GoToInv
<1>7. QED BY <1>5, <1>6

LEMMA DecideInv ==
  ASSUME IInv, NEW t \in Sessions, Decide(t)
  PROVE  IInv' /\ Frame(t)
<1>1. pc[t] = "decide" /\ pc[t] \in Judging /\ pc[t] \in Deciding
  BY DEF Decide, Judging, Deciding
<1>2. /\ TypeOK /\ SessionInv(t) /\ t # Nobody /\ pc[t] \in Calling /\ Key(t) \in Keys
      /\ \A e \in Evidence : Valid(obs[e], e) /\ Valid(loaded[t][e], e)
  BY <1>1, Promotion
<1>3. keyHolder[Key(t)] = t /\ obsHolder[Ev(t)] = t
      /\ Invalid(Ev(t).facts.row) = {} /\ Gaps(Ev(t).facts.row) = {}
  BY <1>1, <1>2 DEF SessionInv, Locks, Judged
<1>4. BelievedOrder(t) = orders[Key(t)]
  BY <1>1, <1>3, BelievedOrderSeen DEF SeenOrder
<1>5. CASE Leave(t, "CONFLICT_BLOCKED")
  BY <1>1, <1>2, <1>5, LeaveInv DEF ObservationStatuses, Decide, TypeOK
<1>6. CASE ~Leave(t, "CONFLICT_BLOCKED")
  <2> DEFINE next == IF There(orders[Key(t)]) THEN "supersede" ELSE "insert"
  <2>1. /\ GoTo(t, next) /\ (There(orders[Key(t)]) => Proven(t, orders[Key(t)]))
        /\ UNCHANGED <<known, obs, settled, obsHolder, orders, projected, loaded, held, keyHolder>>
    BY <1>4, <1>6 DEF Decide
  <2>2. PICK step \in {"supersede", "insert"} : step = next
    OBVIOUS
  <2>3. /\ step = "supersede" => There(orders[Key(t)]) /\ Proven(t, orders[Key(t)])
        /\ step = "insert" => ~There(orders[Key(t)])
        /\ GoTo(t, step) /\ step \in Calling /\ step \notin {"identity", "newIdentity", "record", "clash"}
    BY <2>1, <2>2 DEF Calling
  <2>4. Frame(t)
    BY <1>2, <2>1 DEF TypeOK, Frame, GoTo
  <2>5. QED BY <1>1, <1>2, <1>3, <2>1, <2>2, <2>3, <2>4, GoToInv DEF TypeOK
<1>7. QED BY <1>5, <1>6

LEMMA ClashInv ==
  ASSUME IInv, NEW t \in Sessions, InsertRefused(t) \/ RejectNumber(t)
  PROVE  IInv' /\ Frame(t)
<1>1. pc[t] \in {"insert", "clash"} /\ pc[t] \in Judging /\ pc[t] \in Deciding
  BY DEF InsertRefused, RejectNumber, Judging, Deciding
<1>2. /\ TypeOK /\ SessionInv(t) /\ t # Nobody /\ pc[t] \in Calling
      /\ \A e \in Evidence : Valid(obs[e], e) /\ Valid(loaded[t][e], e)
  BY <1>1, Promotion
<1>3. /\ keyHolder[Key(t)] = t /\ obsHolder[Ev(t)] = t
      /\ Invalid(Ev(t).facts.row) = {} /\ Gaps(Ev(t).facts.row) = {}
      /\ ~There(orders[Key(t)])
  BY <1>1, <1>2 DEF SessionInv, Locks, Judged, Decided
<1>4. CASE RejectNumber(t)
  BY <1>1, <1>2, <1>4, LeaveInv DEF ObservationStatuses, RejectNumber, TypeOK
<1>5. CASE InsertRefused(t)
  <2>1. GoTo(t, "clash") /\ UNCHANGED rowVars /\ UNCHANGED <<loaded, held>>
    BY <1>5 DEF InsertRefused
  <2>2. Frame(t)
    BY <1>2, <2>1 DEF TypeOK, Frame, GoTo, rowVars
  <2>3. "clash" \in Calling
    BY DEF Calling
  <2>4. QED BY <1>1, <1>2, <1>3, <2>1, <2>2, <2>3, GoToInv DEF TypeOK, rowVars
<1>6. QED BY <1>4, <1>5

(* The evidence becomes the current one of its order, whose previous       *)
(* evidence the session has locked.                                        *)
LEMMA PromoteInv ==
  ASSUME IInv, NEW t \in Sessions, pc[t] \in {"insert", "supersede"}, Promote(t),
         obs' \in [Evidence -> Observation], obsHolder' \in [Evidence -> Sessions \cup {Nobody}],
         loaded' \in [Sessions -> [Evidence -> Observation]],
         \A e \in Evidence :
           /\ Valid(obs'[e], e) /\ Valid(loaded'[t][e], e)
           /\ obs[e].batches \subseteq obs'[e].batches
           /\ obs'[e] = obs[e] \/ obsHolder'[e] = t
           /\ \/ obsHolder'[e] = obsHolder[e]
              \/ /\ obsHolder[e] = Nobody /\ obsHolder'[e] = t
                 /\ Present(settled[e]) \/ keyHolder[e.key] = t,
         \A s \in Sessions \ {t} : loaded'[s] = loaded[s],
         There(orders[Key(t)]) => obsHolder'[orders[Key(t)].current] = t,
         Advanced(orders[Key(t)], Projection(Ev(t)))
  PROVE  IInv' /\ Frame(t)
<1>1. /\ TypeOK /\ SessionInv(t) /\ InScript(t) /\ t # Nobody /\ pc[t] \in Calling
      /\ Ev(t) \in Evidence /\ Key(t) \in Keys /\ Key(t) = Ev(t).key
      /\ Call(t).do # "stage"
  BY Promotion
<1>2. PICK e \in Evidence : e = Ev(t)
  BY <1>1
<1>3. PICK k \in Keys : k = Key(t)
  BY <1>1
<1>4. keyHolder[k] = t /\ obsHolder[e] = t /\ e.key = k
  BY <1>1, <1>2, <1>3 DEF SessionInv, Locks, Judging, Deciding
<1>5. /\ orders' = [orders EXCEPT ![k] = Projection(e)]
      /\ held' = [held EXCEPT ![t][k] = Projection(e)]
      /\ Return(t) /\ UNCHANGED <<known, keyHolder, settled, projected>>
  BY <1>2, <1>3 DEF Promote
<1>6. Projection(e) \in Order /\ There(Projection(e)) /\ OfKey(Projection(e), k)
  BY <1>4, ObservationAssumption DEF Projection, Order, There, OfKey
<1>7. /\ orders' \in [Keys -> Order] /\ held' \in [Sessions -> [Keys -> Order]]
      /\ orders'[k] = Projection(e) /\ held'[t][k] = Projection(e)
      /\ \A q \in Keys \ {k} : orders'[q] = orders[q] /\ held'[t][q] = held[t][q]
      /\ \A s \in Sessions \ {t} : held'[s] = held[s]
  <2>1. orders \in [Keys -> Order] /\ held \in [Sessions -> [Keys -> Order]]
    BY <1>1 DEF TypeOK
  <2>2. ASSUME NEW order \in Order, order = Projection(e) PROVE <1>7
    BY <1>5, <2>1, <2>2
  <2>3. QED BY <1>6, <2>2
<1>8. /\ pc' \in [Sessions -> Steps] /\ script' = script /\ at' \in [Sessions -> Nat]
      /\ \A s \in Sessions \ {t} : pc'[s] = pc[s] /\ at'[s] = at[s]
  BY <1>1, <1>5, ReturnStep
<1>9. TypeOK'
  BY <1>1, <1>5, <1>7, <1>8 DEF TypeOK, Return
<1>10. Frame(t)
  BY <1>4, <1>5, <1>7, <1>8 DEF Frame
<1>11. Remembered(t)'
  <2> SUFFICES ASSUME NEW q \in Keys, There(held'[t][q])
               PROVE  held'[t][q] = SeenOrder(t, q)' /\ obsHolder'[held'[t][q].current] = t
    BY DEF Remembered
  <2>1. CASE q = k
    BY <1>1, <1>4, <1>5, <1>7, <2>1 DEF SeenOrder, Projection
  <2>2. CASE q # k
    BY <1>7, <1>10, <2>2, OrderRemembered
  <2>3. QED BY <2>1, <2>2
<1>12. SessionInv(t)'
  BY <1>1, <1>5, <1>10, <1>11, ReturnKept
<1>13. KeyInv(k)'
  <2>1. KeyInv(k) /\ projected[k] \in Order /\ orders[k] \in Order
    BY <1>1 DEF IInv, TypeOK
  <2>2. Advanced(projected[k], Projection(e))
    <3>1. /\ projected[k].version \in Versions \cup {None} /\ orders[k].version \in Versions \cup {None}
          /\ Projection(e).version \in Versions \cup {None}
      BY <1>6, <2>1 DEF Order
    <3>2. Advanced(projected[k], orders[k]) /\ Advanced(orders[k], Projection(e))
      BY <1>2, <1>3, <2>1 DEF KeyInv
    <3>3. QED BY <3>1, <3>2, ObservationAssumption DEF Advanced
  <2>3. There(projected[k]) => obsHolder'[projected[k].current] = t
    <3> SUFFICES ASSUME There(projected[k]) PROVE obsHolder'[projected[k].current] = t
      OBVIOUS
    <3>1. CASE orders[k] = projected[k]
      BY <1>3, <3>1
    <3>2. CASE orders[k] # projected[k]
      <4>1. projected[k].current \in Evidence /\ obsHolder[projected[k].current] = t
        BY <1>4, <2>1, <3>2 DEF KeyInv, OfKey, Projection
      <4>2. QED BY <1>1, <4>1
    <3>3. QED BY <3>1, <3>2
  <2>4. keyHolder'[k] = t /\ projected'[k] = projected[k]
    BY <1>4, <1>5
  <2>5. OfKey(orders[k], k)' /\ OfKey(projected[k], k)' /\ Advanced(projected[k], orders[k])'
    BY <1>6, <1>7, <2>1, <2>2, <2>4 DEF KeyInv, OfKey, Advanced, There, Projection
  <2>6. QED BY <1>1, <2>3, <2>4, <2>5 DEF KeyInv, There
<1>14. \A q \in Keys : KeyInv(q)'
  BY <1>7, <1>10, <1>13, KeyKept
<1>15. QED BY <1>9, <1>10, <1>12, <1>14, OthersKept, EvidenceKept DEF IInv

LEMMA InsertInv ==
  ASSUME IInv, NEW t \in Sessions, InsertOrder(t)
  PROVE  IInv' /\ Frame(t)
<1>1. pc[t] = "insert" /\ pc[t] \in Judging
  BY DEF InsertOrder, Judging, Deciding
<1>2. TypeOK /\ SessionInv(t)
  BY <1>1, Promotion
<1>3. SetStatus(t, "PROMOTED") /\ Promote(t) /\ obsHolder' = obsHolder
  BY DEF InsertOrder
<1>4. "PROMOTED" \in ObservationStatuses
  BY DEF ObservationStatuses
<1>5. /\ obs' \in [Evidence -> Observation] /\ loaded' \in [Sessions -> [Evidence -> Observation]]
      /\ \A e \in Evidence : Valid(obs'[e], e) /\ Valid(loaded'[t][e], e)
      /\ \A e \in Evidence : obs'[e].batches = obs[e].batches
      /\ \A e \in Evidence : obs'[e] = obs[e] \/ obsHolder[e] = t
      /\ \A s \in Sessions \ {t} : loaded'[s] = loaded[s]
  BY <1>1, <1>3, <1>4, SetStatusKept
<1>6. ~There(orders[Key(t)])
  BY <1>1, <1>2 DEF SessionInv, Decided
<1>7. obsHolder' \in [Evidence -> Sessions \cup {Nobody}]
  BY <1>2, <1>3 DEF TypeOK
<1>8. QED BY <1>1, <1>3, <1>5, <1>6, <1>7, PromoteInv DEF Advanced

(* Observations are told apart by key, version and facts.                  *)
LEMMA SameEvidence ==
  ASSUME NEW e \in Evidence, NEW f \in Evidence,
         e.key = f.key, e.version = f.version, e.facts = f.facts
  PROVE  e = f
BY ObservationAssumption

(* An order that is projected anew has another observation of the same     *)
(* key, with an older version.                                             *)
LEMMA Superseded ==
  ASSUME IInv, NEW t \in Sessions, Supersede(t), NEW e \in Evidence, e = Ev(t)
  PROVE  /\ e.key \in Keys /\ keyHolder[e.key] = t /\ obsHolder[e] = t
         /\ Invalid(e.facts.row) = {}
         /\ \E previous \in Evidence :
              /\ orders[e.key] = Projection(previous) /\ previous.key = e.key
              /\ BelievedOrder(t).current = previous
              /\ previous = e \/ <<previous.version, e.version>> \in Newer
<1>1. pc[t] = "supersede" /\ pc[t] \in Judging /\ pc[t] \in Deciding
  BY DEF Supersede, Judging, Deciding
<1>2. SessionInv(t) /\ Key(t) \in Keys /\ Key(t) = e.key
  BY <1>1, Promotion
<1>3. PICK k \in Keys : k = e.key
  BY <1>2
<1>4. /\ keyHolder[k] = t /\ obsHolder[e] = t
      /\ Invalid(e.facts.row) = {}
      /\ There(orders[k]) /\ Proven(t, orders[k])
  BY <1>1, <1>2, <1>3 DEF SessionInv, Locks, Judged, Decided
<1>5. BelievedOrder(t) = orders[k] /\ OfKey(orders[k], k)
  BY <1>1, <1>2, <1>3, <1>4, BelievedOrderSeen DEF SeenOrder
<1>6. PICK previous \in Evidence : orders[k] = Projection(previous) /\ previous.key = k
  BY <1>4, <1>5 DEF OfKey
<1>7. BelievedOrder(t).current = previous
  BY <1>5, <1>6 DEF Projection
<1>8. previous = e \/ <<previous.version, e.version>> \in Newer
  <2>1. CASE previous.version = e.version
    <3>1. Matches(orders[k], e)
      BY <1>4, <1>6, <2>1 DEF Proven, Projection
    <3>2. QED BY <1>3, <1>6, <2>1, <3>1, SameEvidence DEF Matches, Projection
  <2>2. CASE previous.version # e.version
    BY <1>4, <1>6, <2>2 DEF Proven, Supersedes, Projection
  <2>3. QED BY <2>1, <2>2
<1>9. QED BY <1>3, <1>4, <1>6, <1>7, <1>8

LEMMA SupersedeInv ==
  ASSUME IInv, NEW t \in Sessions, Supersede(t)
  PROVE  IInv' /\ Frame(t)
<1>1. pc[t] = "supersede" /\ pc[t] \in Judging
  BY DEF Supersede, Judging, Deciding
<1>2. /\ TypeOK /\ t # Nobody /\ Ev(t) \in Evidence /\ Key(t) = Ev(t).key
      /\ \A e \in Evidence : Valid(obs[e], e) /\ Valid(loaded[t][e], e)
  BY <1>1, Promotion
<1>3. PICK e \in Evidence : e = Ev(t)
  BY <1>2
<1>4. PICK k \in Keys : k = Key(t) /\ k = e.key
  BY <1>2, <1>3, Superseded
<1>5. keyHolder[k] = t /\ obsHolder[e] = t /\ Invalid(e.facts.row) = {}
  BY <1>3, <1>4, Superseded
<1>7. PICK previous \in Evidence :
        /\ orders[k] = Projection(previous) /\ previous.key = k
        /\ BelievedOrder(t).current = previous
        /\ previous = e \/ <<previous.version, e.version>> \in Newer
  BY <1>3, <1>4, Superseded
<1>8. BelievedOrder(t).current = previous /\ Promote(t)
  BY <1>7 DEF Supersede
<1>10. Advanced(orders[Key(t)], Projection(Ev(t)))
  <2>1. There(Projection(e))
    BY ObservationAssumption DEF There, Projection
  <2>2. orders[k] = Projection(e) \/ <<orders[k].version, Projection(e).version>> \in Newer
    BY <1>7 DEF Projection
  <2>3. QED BY <1>3, <1>4, <2>1, <2>2 DEF Advanced
<1>11. CASE previous = e
  <2>1. SetStatus(t, "PROMOTED") /\ obsHolder' = obsHolder
    BY <1>3, <1>8, <1>11 DEF Supersede
  <2>2. /\ obs' \in [Evidence -> Observation] /\ loaded' \in [Sessions -> [Evidence -> Observation]]
        /\ \A f \in Evidence : Valid(obs'[f], f) /\ Valid(loaded'[t][f], f)
        /\ \A f \in Evidence : obs'[f].batches = obs[f].batches
        /\ \A f \in Evidence : obs'[f] = obs[f] \/ obsHolder[f] = t
        /\ \A s \in Sessions \ {t} : loaded'[s] = loaded[s]
    BY <1>1, <2>1, SetStatusKept DEF ObservationStatuses
  <2>3. obsHolder'[orders[Key(t)].current] = t
    BY <1>4, <1>5, <1>7, <1>11, <2>1 DEF Projection
  <2>4. QED BY <1>1, <1>2, <1>8, <1>10, <2>1, <2>2, <2>3, PromoteInv DEF TypeOK
<1>12. CASE previous # e
  <2> DEFINE old == [status |-> obs[previous].status, next |-> e, batches |-> obs[previous].batches]
             new == [status |-> "PROMOTED", next |-> obs[e].next, batches |-> obs[e].batches]
             mine == [Believed(t) EXCEPT !.status = "PROMOTED"]
  <2>1. /\ Free(t, previous) /\ obsHolder' = [obsHolder EXCEPT ![previous] = t]
        /\ obs' = [obs EXCEPT ![previous].next = e, ![e].status = "PROMOTED"]
        /\ loaded' = [loaded EXCEPT ![t][e] = mine]
    BY <1>3, <1>8, <1>12 DEF Supersede
  <2>2. obs \in [Evidence -> Observation] /\ obs[e] \in Observation /\ obs[previous] \in Observation
    BY <1>2 DEF TypeOK
  <2>3. old \in Observation /\ new \in Observation
    BY <2>2 DEF Observation, ObservationStatuses
  <2>4. obs' = [obs EXCEPT ![previous] = old, ![e] = new]
    <3>1. [obs[previous] EXCEPT !.next = e] = old /\ [obs[e] EXCEPT !.status = "PROMOTED"] = new
      BY <2>2 DEF Observation
    <3>2. QED BY <1>12, <2>1, <2>2, <3>1
  <2>5. Believed(t) \in Observation /\ Valid(Believed(t), e)
    BY <1>1, <1>3, BelievedValid
  <2>6. mine \in Observation /\ Valid(mine, e)
    BY <1>5, <2>5 DEF Observation, ObservationStatuses, Valid, Present
  <2>7. Valid(old, previous) /\ Valid(new, e)
    BY <1>2, <1>5 DEF Valid, Present
  <2> HIDE DEF mine
  <2>8. /\ loaded' \in [Sessions -> [Evidence -> Observation]]
        /\ \A f \in Evidence : Valid(loaded'[t][f], f)
        /\ \A s \in Sessions \ {t} : loaded'[s] = loaded[s]
    BY <1>2, <2>1, <2>6 DEF TypeOK
  <2>9. /\ obs' \in [Evidence -> Observation]
        /\ \A f \in Evidence : /\ Valid(obs'[f], f) /\ obs[f].batches \subseteq obs'[f].batches
                               /\ obs'[f] = obs[f] \/ f \in {previous, e}
    BY <1>2, <2>2, <2>3, <2>4, <2>7
  <2>10. /\ obsHolder' \in [Evidence -> Sessions \cup {Nobody}]
         /\ obsHolder'[previous] = t /\ obsHolder'[e] = t
         /\ \A f \in Evidence \ {previous} : obsHolder'[f] = obsHolder[f]
         /\ obsHolder[previous] \in {t, Nobody}
    BY <1>2, <1>5, <2>1 DEF TypeOK, Free
  <2>11. \A f \in Evidence :
           /\ obs'[f] = obs[f] \/ obsHolder'[f] = t
           /\ \/ obsHolder'[f] = obsHolder[f]
              \/ obsHolder[f] = Nobody /\ obsHolder'[f] = t /\ keyHolder[f.key] = t
    BY <1>5, <1>7, <2>9, <2>10
  <2>12. obsHolder'[orders[Key(t)].current] = t
    BY <1>4, <1>7, <2>10 DEF Projection
  <2>13. QED BY <1>1, <1>8, <1>10, <2>8, <2>9, <2>10, <2>11, <2>12, PromoteInv
<1>13. QED BY <1>11, <1>12

-----------------------------------------------------------------------------
(* The invariant. *)

LEMMA InitInv == Init => IInv
<1> SUFFICES ASSUME Init PROVE IInv
  OBVIOUS
<1>1. Unseen \in Observation /\ NoOrder \in Order /\ <<>> \in Seq(Op) /\ "idle" \in Steps
  BY DEF Unseen, Observation, NoOrder, Order, Steps
<1>2. TypeOK
  BY <1>1 DEF Init, TypeOK
<1>3. \A s \in Sessions : SessionInv(s)
  BY DEF Init, SessionInv, InScript, Locks, Judged, Received, Remembered, Decided, Calling,
         Judging, Deciding, Valid, Unseen, There, NoOrder, Present
<1>4. \A e \in Evidence : EvidenceInv(e)
  BY DEF Init, EvidenceInv, Valid, Unseen, Present
<1>5. \A k \in Keys : KeyInv(k)
  BY DEF Init, KeyInv, OfKey, Advanced, There, NoOrder
<1>6. QED BY <1>2, <1>3, <1>4, <1>5 DEF IInv

(* No part of the invariant depends on the warehouses or on the bound.     *)
LEMMA QuietInv ==
  ASSUME IInv, sites' \subseteq Sites, starts' \in Nat,
         UNCHANGED <<rowVars, pc, script, at, loaded, held>>
  PROVE  IInv'
<1>1. /\ UNCHANGED <<known, keyHolder, obs, settled, obsHolder, orders, projected>>
      /\ UNCHANGED <<pc, script, at, loaded, held>>
  BY DEF rowVars
<1>2. TypeOK'
  BY <1>1 DEF IInv, TypeOK
<1>3. ASSUME NEW s \in Sessions PROVE SessionInv(s)'
  <2>1. SessionInv(s)
    BY DEF IInv
  <2>2. Call(s)' = Call(s) /\ Ev(s)' = Ev(s) /\ Key(s)' = Key(s)
    BY <1>1 DEF Call, Ev, Key
  <2>3. /\ \A e \in Evidence : Seen(s, e)' = Seen(s, e)
        /\ \A k \in Keys : SeenOrder(s, k)' = SeenOrder(s, k)
    BY <1>1 DEF Seen, SeenOrder
  <2>4. InScript(s)' /\ Locks(s)'
    BY <1>1, <2>1, <2>2 DEF SessionInv, InScript, Locks
  <2>5. Judged(s)'
    BY <1>1, <2>1, <2>2 DEF SessionInv, Judged
  <2>6. Received(s)'
    <3>1. script[s] \in Seq(Op) /\ at[s] \in Nat
      BY DEF IInv, TypeOK
    <3>2. ASSUME NEW n \in 1..Len(script[s]) PROVE script[s][n].e \in Evidence
      <4>1. script[s][n] \in Op
        BY <3>1, ElementOfSeq
      <4>2. QED BY <4>1 DEF Op
    <3>3. QED BY <1>1, <2>1, <2>3, <3>2 DEF SessionInv, Received
  <2>7. Remembered(s)'
    BY <1>1, <2>1, <2>3 DEF SessionInv, Remembered
  <2>8. Decided(s)'
    <3>1. (\A order : Proven(s, order)' = Proven(s, order))
      BY <2>2 DEF Proven, Supersedes
    <3>2. QED BY <1>1, <2>1, <2>2, <3>1 DEF SessionInv, Decided
  <2>9. QED BY <2>4, <2>5, <2>6, <2>7, <2>8 DEF SessionInv
<1>4. ASSUME NEW e \in Evidence PROVE EvidenceInv(e)'
  BY <1>1 DEF IInv, EvidenceInv
<1>5. ASSUME NEW k \in Keys PROVE KeyInv(k)'
  BY <1>1 DEF IInv, KeyInv
<1>6. QED BY <1>2, <1>3, <1>4, <1>5 DEF IInv

LEMMA NextInv ==
  ASSUME IInv, [Next]_vars
  PROVE  IInv'
<1>1. ASSUME NEW t \in Sessions, NEW calls \in Scripts, Begin(t, calls) PROVE IInv'
  BY <1>1, BeginInv
<1>2. ASSUME NEW t \in Sessions, FindIdentity(t) \/ CreateIdentity(t) \/ IdentityTaken(t) PROVE IInv'
  BY <1>2, IdentityInv
<1>3. ASSUME NEW t \in Sessions, Record(t) \/ Replay(t) PROVE IInv'
  BY <1>3, StageInv
<1>4. ASSUME NEW t \in Sessions, Load(t) \/ Observe(t) \/ Recheck(t) PROVE IInv'
  BY <1>4, LoadInv, ObserveInv, RecheckInv
<1>5. ASSUME NEW t \in Sessions, Judge(t) \/ Decide(t) PROVE IInv'
  BY <1>5, JudgeInv, DecideInv
<1>6. ASSUME NEW t \in Sessions, InsertRefused(t) \/ RejectNumber(t) PROVE IInv'
  BY <1>6, ClashInv
<1>7. ASSUME NEW t \in Sessions, InsertOrder(t) \/ Supersede(t) PROVE IInv'
  BY <1>7, InsertInv, SupersedeInv
<1>8. ASSUME NEW t \in Sessions,
             \/ RecordFails(t) \/ NumberGone(t) \/ Commit(t) \/ CommitFails(t)
             \/ DeadlockDetected(t) \/ Crash(t)
      PROVE  IInv'
  <2>1. \E keep \in BOOLEAN : End(t, keep)
    BY <1>8 DEF RecordFails, NumberGone, Commit, CommitFails, DeadlockDetected, Crash
  <2>2. QED BY <2>1, EndInv
<1>9. ASSUME NEW w \in Sites, Register(w) PROVE IInv'
  BY <1>9, QuietInv DEF Register, IInv, TypeOK
<1>10. CASE AllDone \/ UNCHANGED vars
  BY <1>10, QuietInv DEF AllDone, vars, rowVars, IInv, TypeOK
<1>11. QED
  BY <1>1, <1>2, <1>3, <1>4, <1>5, <1>6, <1>7, <1>8, <1>9, <1>10 DEF Next

(* The invariant is inductive and true at first.                           *)
THEOREM Invariance == Spec => []IInv
BY InitInv, NextInv, PTL DEF Spec

-----------------------------------------------------------------------------
(* What the invariant says of the system. *)

(* Every variable keeps its type.                                          *)
THEOREM TypeCorrect == Spec => []TypeOK
<1>1. IInv => TypeOK
  BY DEF IInv
<1>2. QED BY <1>1, Invariance, PTL

(* No evidence reaches the insert or the update of an order without the    *)
(* facts its columns need (order_observations.py:828-834), whatever was    *)
(* staged or is promoted by whom.                                          *)
THEOREM OnlyFitEvidence == Spec => []ProjectionFits
<1>1. IInv => ProjectionFits
  <2> SUFFICES ASSUME IInv, NEW s \in Sessions, pc[s] \in {"insert", "supersede"}
               PROVE  Projectable(Ev(s).facts.row)
    BY DEF ProjectionFits
  <2>1. /\ Invalid(Ev(s).facts.row) = {} /\ Gaps(Ev(s).facts.row) = {}
        /\ Ev(s) \in Evidence
    BY CallType DEF IInv, SessionInv, Judged, Judging, Deciding, Calling
  <2>2. PICK raw \in Raw : raw = Ev(s).facts.row
    BY <2>1, ObservationAssumption DEF Facts
  <2>3. \A f \in Needed : Kept(raw, f)
    BY <2>1, <2>2 DEF Gaps
  <2>4. /\ {g \in FactNames : raw[g] = "conflicting"} = {}
        /\ {g \in FactNames : raw[g] \in {"malformed", "negative", "long"}} = {}
    <3>1. ASSUME NEW g \in FactNames, raw[g] = "conflicting" PROVE FALSE
      <4>1. <<"CONFLICTING", g>> \in Invalid(raw)
        BY <3>1 DEF Invalid
      <4>2. QED BY <2>1, <2>2, <4>1
    <3>2. ASSUME NEW g \in FactNames, raw[g] \in {"malformed", "negative", "long"} PROVE FALSE
      <4>1. <<"MALFORMED", g>> \in Invalid(raw)
        BY <3>2 DEF Invalid
      <4>2. QED BY <2>1, <2>2, <4>1
    <3>3. QED BY <3>1, <3>2
  <2>5. ~Backwards(raw)
    <3>1. Backwards(raw) => "fulfilled" \in {g \in {"fulfilled"} : Backwards(raw)}
      OBVIOUS
    <3>2. Backwards(raw) => <<"CONFLICTING", "fulfilled">> \in Invalid(raw)
      BY <3>1 DEF Invalid
    <3>3. QED BY <2>1, <2>2, <3>2
  <2>6. raw.status # "malformed" /\ raw.currency \notin {"long", "conflicting"}
    BY <2>4 DEF FactNames, Texts
  <2>7. QED BY <2>2, <2>3, <2>5, <2>6 DEF Projectable, Storable
<1>2. QED BY <1>1, Invariance, PTL

LEMMA OnlyEndsPublish ==
  ASSUME Next
  PROVE  UNCHANGED <<settled, projected>> \/ \E s \in Sessions, keep \in BOOLEAN : End(s, keep)
<1>1. ASSUME NEW s \in Sessions,
             \/ RecordFails(s) \/ NumberGone(s) \/ Commit(s) \/ CommitFails(s)
             \/ DeadlockDetected(s) \/ Crash(s)
      PROVE  \E keep \in BOOLEAN : End(s, keep)
  BY <1>1 DEF RecordFails, NumberGone, Commit, CommitFails, DeadlockDetected, Crash
<1>2. ASSUME NEW s \in Sessions,
             \/ \E calls \in Scripts : Begin(s, calls)
             \/ FindIdentity(s) \/ CreateIdentity(s) \/ IdentityTaken(s)
             \/ Record(s) \/ Replay(s) \/ Load(s) \/ Observe(s) \/ Recheck(s)
             \/ InsertRefused(s)
      PROVE  UNCHANGED <<settled, projected>>
  BY <1>2 DEF Begin, FindIdentity, CreateIdentity, IdentityTaken, Record, Replay, Load, Observe,
              Recheck, InsertRefused, rowVars
<1>3. ASSUME NEW s \in Sessions,
             \/ Judge(s) \/ Decide(s) \/ InsertOrder(s) \/ RejectNumber(s) \/ Supersede(s)
      PROVE  UNCHANGED <<settled, projected>>
  BY <1>3 DEF Judge, Decide, InsertOrder, RejectNumber, Supersede, Leave, Promote
<1>4. ASSUME (\E w \in Sites : Register(w)) \/ AllDone PROVE UNCHANGED <<settled, projected>>
  BY <1>4 DEF Register, AllDone, vars, rowVars
<1>5. QED BY <1>1, <1>2, <1>3, <1>4 DEF Next

(* A projected order is only ever projected anew from a version the        *)
(* comparator calls newer (order_observations.py:672-674), however many    *)
(* sessions promote its versions at once, and also by sessions that loaded *)
(* the order or its observations long before.                              *)
THEOREM ProjectionNeverGoesBack == Spec => ProjectionAdvances
<1> DEFINE Forward == \A k \in Keys : There(projected[k]) /\ projected'[k] # projected[k] =>
                        <<projected[k].version, projected'[k].version>> \in Newer
<1>1. ASSUME IInv, Next PROVE Forward
  <2>1. ASSUME NEW s \in Sessions, NEW keep \in BOOLEAN, End(s, keep) PROVE Forward
    <3> SUFFICES ASSUME NEW k \in Keys, There(projected[k]), projected'[k] # projected[k]
                 PROVE  <<projected[k].version, projected'[k].version>> \in Newer
      OBVIOUS
    <3>1. projected'[k] \in {orders[k], projected[k]}
      BY <2>1 DEF End, SeenOrder
    <3>2. Advanced(projected[k], orders[k])
      BY <1>1 DEF IInv, KeyInv
    <3>3. QED BY <3>1, <3>2 DEF Advanced
  <2>2. QED BY <1>1, <2>1, OnlyEndsPublish
<1>2. IInv /\ [Next]_vars => [Forward]_vars
  BY <1>1
<1> HIDE DEF Forward
<1>3. Spec => [][Forward]_vars
  BY <1>2, Invariance, PTL DEF Spec
<1>4. QED BY <1>3 DEF Forward, ProjectionAdvances

(* A committed transaction has recorded every observation it staged, with  *)
(* the receipt of its batch (order_observations.py:496).                   *)
THEOREM StagingIsNeverLost == Spec => StagedIsRecorded
<1> DEFINE Complete == \A s \in Sessions : Commit(s) =>
                      \A n \in DOMAIN script[s] : script[s][n].do = "stage" =>
                        script[s][n].batch \in settled'[script[s][n].e].batches
<1>1. ASSUME IInv PROVE Complete
  <2> SUFFICES ASSUME NEW s \in Sessions, Commit(s), NEW n \in DOMAIN script[s],
                      script[s][n].do = "stage"
               PROVE  script[s][n].batch \in settled'[script[s][n].e].batches
    OBVIOUS
  <2>1. SessionInv(s) /\ script[s] \in Seq(Op) /\ at[s] \in Nat
    BY <1>1 DEF IInv, TypeOK
  <2>2. n \in 1..Len(script[s]) /\ Len(script[s]) \in Nat
    BY <2>1, LenProperties
  <2>3. script[s][n].e \in Evidence
    <3>1. script[s][n] \in Op
      BY <2>1, <2>2, ElementOfSeq
    <3>2. QED BY <3>1 DEF Op
  <2>4. n < at[s]
    BY <2>1, <2>2 DEF SessionInv, InScript, Commit
  <2>5. script[s][n].batch \in Seen(s, script[s][n].e).batches
    BY <2>1, <2>2, <2>4 DEF SessionInv, Received
  <2>6. settled'[script[s][n].e] = Seen(s, script[s][n].e)
    BY <2>3 DEF Commit, End
  <2>7. QED BY <2>5, <2>6
<1>2. IInv => [Complete]_vars
  BY <1>1
<1> HIDE DEF Complete
<1>3. Spec => [][Complete]_vars
  BY <1>2, Invariance, PTL
<1>4. QED BY <1>3 DEF Complete, StagedIsRecorded

-----------------------------------------------------------------------------
(* The chain of projections, while callers hand promote the rows their     *)
(* session locks.  Then a session judges what it reads, new promotions are *)
(* newer than all the key's promotions, and superseded evidence leads,     *)
(* version by version, to what the order is projected from.                *)

\* no promotion is given an object its session loaded before
NothingLoaded == \A calls \in Scripts : \A n \in DOMAIN calls : ~calls[n].loaded

\* evidence a session has in its identity map is as the session has it, and
\* nobody else can change it
Knows(s) ==
  \A e \in Evidence : Present(loaded[s][e]) =>
    keyHolder[e.key] = s /\ loaded[s][e].status = Seen(s, e).status

\* a session judges evidence that is not promoted
Fresh(s) ==
  /\ pc[s] # "load" /\ \A n \in DOMAIN script[s] : ~script[s][n].loaded
  /\ Knows(s)
  /\ pc[s] \in Judging => obs[Ev(s)].status # "PROMOTED"

\* evidence is only written by the session that holds its identity, and never
\* ceases to be promoted
Guarded(e) ==
  /\ obs[e] # settled[e] => keyHolder[e.key] = obsHolder[e]
  /\ settled[e].status = "PROMOTED" => obs[e].status = "PROMOTED"

\* the promoted rows of a key lead to its order, the newest of them
Linked(k, rows, order) ==
  /\ There(order) => rows[order.of].status = "PROMOTED"
  /\ \A e \in Evidence : e.key = k =>
       LET next == rows[e].next
       IN  /\ rows[e].status # "PROMOTED" => next = None
           /\ rows[e].status = "PROMOTED" =>
                /\ There(order) /\ (e = order.of \/ Precedes(e, order))
                /\ IF next = None THEN order = Projection(e)
                   ELSE /\ next \in Evidence /\ next.key = k /\ rows[next].status = "PROMOTED"
                        /\ Precedes(e, next)

Listed(S) == \E n \in Nat : \E q \in [1..n -> S] : Lists(q, S)

\* what is not committed yet is newer than what is
Late(k) ==
  \A e \in Promoted(k, settled) : \A f \in Promoted(k, obs) \ Promoted(k, settled) : Precedes(e, f)

ChainInv ==
  /\ \A s \in Sessions : Fresh(s)
  /\ \A e \in Evidence : Guarded(e)
  /\ \A k \in Keys :
       /\ Linked(k, obs, orders[k]) /\ Linked(k, settled, projected[k])
       /\ Late(k) /\ Listed(Promoted(k, obs)) /\ Listed(Promoted(k, settled))

-----------------------------------------------------------------------------
(* A session that does not move keeps what it knows.                       *)
LEMMA FreshKept ==
  ASSUME IInv, ChainInv, NEW t \in Sessions, Frame(t), NEW s \in Sessions \ {t}
  PROVE  Fresh(s)'
<1>1. /\ TypeOK /\ SessionInv(s) /\ Fresh(s) /\ s # Nobody
      /\ pc'[s] = pc[s] /\ at'[s] = at[s] /\ script'[s] = script[s] /\ loaded'[s] = loaded[s]
  BY ObservationAssumption DEF IInv, ChainInv, Frame
<1>2. /\ \A e \in Evidence : obsHolder'[e] = s <=> obsHolder[e] = s
      /\ \A e \in Evidence : obsHolder[e] = s => obs'[e] = obs[e]
      /\ \A k \in Keys : keyHolder[k] = s => keyHolder'[k] = s
  BY <1>1, ObservationAssumption DEF Frame
<1>3. \A e \in Evidence : Seen(s, e)' = Seen(s, e) /\ e.key \in Keys
  BY <1>2, ObservationAssumption DEF Seen, Frame
<1>4. Ev(s)' = Ev(s)
  BY <1>1 DEF Ev, Call
<1>5. pc[s] \in Judging => obs'[Ev(s)] = obs[Ev(s)]
  <2> SUFFICES ASSUME pc[s] \in Judging PROVE obs'[Ev(s)] = obs[Ev(s)]
    OBVIOUS
  <2>1. Ev(s) \in Evidence
    BY <1>1, CallType DEF SessionInv, Judging, Deciding, Calling
  <2>2. obsHolder[Ev(s)] = s
    BY <1>1 DEF SessionInv, Locks
  <2>3. QED BY <1>2, <2>1, <2>2
<1>6. QED BY <1>1, <1>2, <1>3, <1>4, <1>5 DEF Fresh, Knows

(* Only a row's status and successor matter to the chain.                  *)
LEMMA LinkedSame ==
  ASSUME NEW k \in Keys, NEW rows, NEW after, NEW order, OfKey(order, k),
         Linked(k, rows, order),
         \A e \in Evidence : e.key = k =>
           /\ after[e].next = rows[e].next
           /\ after[e].status = "PROMOTED" <=> rows[e].status = "PROMOTED"
  PROVE  Linked(k, after, order)
BY DEF Linked, OfKey

(* Evidence newer than all that is listed is listed behind it.             *)
LEMMA ListedMore ==
  ASSUME NEW S, NEW e, Listed(S), \A f \in S : Precedes(f, e)
  PROVE  Listed(S \cup {e})
<1>1. PICK n \in Nat : \E q \in [1..n -> S] : Lists(q, S)
  BY DEF Listed
<1>2. PICK q \in [1..n -> S] : Lists(q, S)
  BY <1>1
<1> DEFINE p == [i \in 1..n + 1 |-> IF i = n + 1 THEN e ELSE q[i]]
<1>3. /\ DOMAIN p = 1..n + 1 /\ p[n + 1] = e
      /\ \A i \in 1..n : p[i] = q[i] /\ q[i] \in S
      /\ p \in [1..n + 1 -> S \cup {e}]
  OBVIOUS
<1> HIDE DEF p
<1>4. \A f \in S \cup {e} : \E i \in 1..n + 1 : p[i] = f
  BY <1>2, <1>3 DEF Lists
<1>5. ASSUME NEW i \in 1..n + 1, NEW k \in 1..n + 1, i < k PROVE Precedes(p[i], p[k])
  BY <1>2, <1>3, <1>5 DEF Lists
<1>6. n + 1 \in Nat /\ Lists(p, S \cup {e})
  BY <1>3, <1>4, <1>5 DEF Lists
<1>7. QED BY <1>3, <1>6 DEF Listed

(* A step that ends no transaction promotes newer evidence, if any.        *)
LEMMA ChainStep ==
  ASSUME IInv, ChainInv, NEW t \in Sessions, Frame(t), Fresh(t)',
         \A e \in Evidence :
           /\ obs'[e] # obs[e] => keyHolder'[e.key] = t /\ obsHolder'[e] = t
           /\ obs[e].status = "PROMOTED" => obs'[e].status = "PROMOTED",
         \A k \in Keys :
           /\ Linked(k, obs', orders'[k])
           /\ \/ Promoted(k, obs') = Promoted(k, obs)
              \/ \E e \in Evidence : /\ Promoted(k, obs') = Promoted(k, obs) \cup {e}
                                     /\ \A f \in Promoted(k, obs) : Precedes(f, e)
  PROVE  ChainInv'
<1>1. TypeOK /\ t # Nobody /\ settled' = settled /\ projected' = projected
  BY ObservationAssumption DEF IInv, Frame
<1>2. \A s \in Sessions : Fresh(s)'
  BY FreshKept
<1>3. ASSUME NEW e \in Evidence PROVE Guarded(e)'
  <2>1. Guarded(e) /\ EvidenceInv(e) /\ e.key \in Keys
    BY ObservationAssumption DEF ChainInv, IInv
  <2>2. ASSUME obs'[e] = obs[e], obs[e] # settled[e]
        PROVE  keyHolder'[e.key] = obsHolder'[e]
    <3>1. keyHolder[e.key] = obsHolder[e] /\ obsHolder[e] # Nobody
      BY <2>1, <2>2 DEF Guarded, EvidenceInv
    <3>2. QED BY <2>1, <3>1 DEF Frame
  <2>3. QED BY <1>1, <2>1, <2>2 DEF Guarded
<1>4. ASSUME NEW k \in Keys
      PROVE  /\ Linked(k, settled', projected'[k]) /\ Linked(k, obs', orders'[k])
             /\ Late(k)' /\ Listed(Promoted(k, obs)') /\ Listed(Promoted(k, settled)')
  <2>1. /\ Linked(k, settled, projected[k]) /\ Late(k)
        /\ Listed(Promoted(k, obs)) /\ Listed(Promoted(k, settled))
    BY DEF ChainInv
  <2>2. Promoted(k, settled)' = Promoted(k, settled) /\ Promoted(k, obs)' = Promoted(k, obs')
    BY <1>1 DEF Promoted
  <2>3. Promoted(k, settled) \subseteq Promoted(k, obs)
    BY DEF Promoted, ChainInv, Guarded
  <2>4. Late(k)' /\ Listed(Promoted(k, obs)')
    <3>1. CASE Promoted(k, obs') = Promoted(k, obs)
      BY <2>1, <2>2, <3>1 DEF Late, Precedes
    <3>2. ASSUME NEW e \in Evidence, Promoted(k, obs') = Promoted(k, obs) \cup {e},
                 \A f \in Promoted(k, obs) : Precedes(f, e)
          PROVE  Late(k)' /\ Listed(Promoted(k, obs)')
      <4>1. Listed(Promoted(k, obs) \cup {e})
        BY <2>1, <3>2, ListedMore
      <4>2. \A f \in Promoted(k, settled), g \in Promoted(k, obs') \ Promoted(k, settled) :
              Precedes(f, g)
        BY <2>1, <2>3, <3>2 DEF Late
      <4>3. QED BY <2>2, <3>2, <4>1, <4>2 DEF Late, Precedes
    <3>3. QED BY <3>1, <3>2
  <2>5. QED BY <1>1, <2>1, <2>2, <2>4
<1>5. \A k \in Keys : Listed(Promoted(k, obs))' /\ Listed(Promoted(k, settled))'
  BY <1>4 DEF Listed, Lists, Precedes
<1>6. \A k \in Keys : Linked(k, obs, orders[k])' /\ Linked(k, settled, projected[k])'
  BY <1>4 DEF Linked, Precedes, There, Projection
<1>7. QED BY <1>2, <1>3, <1>4, <1>5, <1>6 DEF ChainInv

(* A step that promotes nothing, and changes no successor.                 *)
LEMMA SameChain ==
  ASSUME IInv, ChainInv, NEW t \in Sessions, Frame(t), Fresh(t)', orders' = orders,
         \A e \in Evidence :
           /\ obs'[e] # obs[e] => keyHolder'[e.key] = t /\ obsHolder'[e] = t
           /\ obs'[e].next = obs[e].next
           /\ obs'[e].status = "PROMOTED" <=> obs[e].status = "PROMOTED"
  PROVE  ChainInv'
<1>1. ASSUME NEW k \in Keys
      PROVE  Linked(k, obs', orders'[k]) /\ Promoted(k, obs') = Promoted(k, obs)
  <2>1. Linked(k, obs, orders[k]) /\ OfKey(orders[k], k)
    BY DEF ChainInv, IInv, KeyInv
  <2>2. Linked(k, obs', orders'[k])
    BY <2>1, LinkedSame
  <2>3. QED BY <2>2 DEF Promoted
<1>2. QED BY <1>1, ChainStep

(* A step that writes neither evidence nor an order.                       *)
LEMMA QuietChain ==
  ASSUME IInv, ChainInv, NEW t \in Sessions, Frame(t), UNCHANGED <<obs, orders>>, Fresh(t)'
  PROVE  ChainInv'
BY SameChain

(* What a session knows stays true in a step that loads and writes nothing. *)
LEMMA KnowsSame ==
  ASSUME IInv, ChainInv, NEW t \in Sessions, Frame(t), UNCHANGED obs, loaded'[t] = loaded[t]
  PROVE  Knows(t)'
<1> SUFFICES ASSUME NEW e \in Evidence, Present(loaded[t][e])
             PROVE  keyHolder'[e.key] = t /\ loaded[t][e].status = Seen(t, e)'.status
  BY DEF Knows
<1>1. /\ TypeOK /\ t # Nobody /\ EvidenceInv(e) /\ e.key \in Keys
      /\ keyHolder[e.key] = t /\ loaded[t][e].status = Seen(t, e).status
  BY ObservationAssumption DEF IInv, ChainInv, Fresh, Knows
<1>2. keyHolder'[e.key] = t
  BY <1>1 DEF Frame
<1>3. Seen(t, e)' = Seen(t, e)
  BY <1>1 DEF Seen, Frame, EvidenceInv
<1>4. QED BY <1>1, <1>2, <1>3

(* A call begins, or the next statement of a call.                         *)
LEMMA ReturnFresh ==
  ASSUME IInv, ChainInv, NEW t \in Sessions, pc[t] \in Calling, Return(t), Knows(t)'
  PROVE  Fresh(t)'
<1>1. TypeOK /\ InScript(t) /\ Fresh(t)
  BY DEF IInv, SessionInv, ChainInv
<1>2. script' = script /\ pc'[t] \in Entries \cup {"commit"}
  BY <1>1, ReturnStep
<1>3. pc'[t] # "load"
  <2>1. /\ script[t] \in Seq(Op) /\ at[t] \in 1..Len(script[t]) /\ Len(script[t]) \in Nat
        /\ DOMAIN script[t] = 1..Len(script[t])
    BY <1>1, LenProperties DEF TypeOK, InScript
  <2>2. pc'[t] = IF at[t] = Len(script[t]) THEN "commit" ELSE FirstStep(script[t][at[t] + 1])
    BY <1>1 DEF TypeOK, Return
  <2>3. at[t] # Len(script[t]) => at[t] + 1 \in DOMAIN script[t]
    BY <2>1
  <2>4. QED BY <1>1, <2>2, <2>3 DEF Fresh, FirstStep
<1>4. QED BY <1>1, <1>2, <1>3 DEF Fresh, Judging, Deciding, Entries

LEMMA GoToFresh ==
  ASSUME IInv, ChainInv, NEW t \in Sessions, NEW step, step # "load", GoTo(t, step), Knows(t)',
         step \in Judging => obs'[Ev(t)].status # "PROMOTED"
  PROVE  Fresh(t)'
BY DEF IInv, TypeOK, ChainInv, GoTo, Fresh, Ev, Call

(* Steps that write neither evidence nor an order.                         *)
LEMMA BeginChain ==
  ASSUME NothingLoaded, IInv, ChainInv, NEW t \in Sessions, NEW calls \in Scripts, Begin(t, calls)
  PROVE  ChainInv'
<1>1. Frame(t) /\ UNCHANGED <<obs, orders>> /\ loaded' = loaded
  BY BeginInv DEF Begin, rowVars
<1>2. Knows(t)'
  BY <1>1, KnowsSame
<1>3. pc'[t] = FirstStep(calls[1]) /\ script'[t] = calls
  BY DEF Begin, IInv, TypeOK
<1>4. 1 \in DOMAIN calls
  BY ObservationAssumption, LenProperties, EmptySeq
<1>5. Fresh(t)'
  BY <1>2, <1>3, <1>4 DEF Fresh, NothingLoaded, FirstStep, Judging, Deciding
<1>6. QED BY <1>1, <1>5, QuietChain

LEMMA IdentityChain ==
  ASSUME IInv, ChainInv, NEW t \in Sessions,
         FindIdentity(t) \/ CreateIdentity(t) \/ IdentityTaken(t)
  PROVE  ChainInv'
<1>1. Frame(t) /\ UNCHANGED <<obs, orders>> /\ loaded' = loaded
  BY IdentityInv DEF FindIdentity, CreateIdentity, IdentityTaken, rowVars
<1>2. Knows(t)'
  BY <1>1, KnowsSame
<1>3. PICK step \in {"identity", "newIdentity", "record"} : GoTo(t, step)
  BY DEF FindIdentity, CreateIdentity, IdentityTaken
<1>4. Fresh(t)'
  BY <1>2, <1>3, GoToFresh DEF Judging, Deciding
<1>5. QED BY <1>1, <1>4, QuietChain

(* The object promote decides by has the status of its row.                *)
LEMMA BelievedStatus ==
  ASSUME IInv, ChainInv, NEW t \in Sessions, Ev(t) \in Evidence,
         obsHolder[Ev(t)] \in {t, Nobody}
  PROVE  Believed(t).status = obs[Ev(t)].status
<1>1. obs[Ev(t)] = Seen(t, Ev(t))
  BY DEF IInv, EvidenceInv, Seen
<1>2. QED BY <1>1 DEF ChainInv, Fresh, Knows, Believed

LEMMA ObserveChain ==
  ASSUME IInv, ChainInv, NEW t \in Sessions, Observe(t)
  PROVE  ChainInv'
<1>1. /\ pc[t] \in Calling /\ Ev(t) \in Evidence /\ Frame(t)
      /\ UNCHANGED <<obs, orders>> /\ loaded' = loaded
  BY Promotion, ObserveInv DEF Observe
<1>2. Knows(t)'
  BY <1>1, KnowsSame
<1>3. CASE Return(t)
  BY <1>1, <1>2, <1>3, ReturnFresh, QuietChain
<1>4. CASE ~Return(t)
  <2>1. Free(t, Ev(t)) /\ GoTo(t, StepAfter(Believed(t).status))
        /\ StepAfter(Believed(t).status) # "refused"
    BY <1>4 DEF Observe
  <2>2. Believed(t).status = obs[Ev(t)].status
    BY <1>1, <2>1, BelievedStatus DEF Free
  <2>3. Fresh(t)'
    BY <1>1, <1>2, <2>1, <2>2, GoToFresh DEF StepAfter, Judging, Deciding
  <2>4. QED BY <1>1, <2>3, QuietChain
<1>5. QED BY <1>3, <1>4

LEMMA RecheckChain ==
  ASSUME IInv, ChainInv, NEW t \in Sessions, Recheck(t)
  PROVE  ChainInv'
<1>1. pc[t] \in Calling /\ Frame(t) /\ UNCHANGED <<obs, orders>> /\ loaded' = loaded /\ Return(t)
  BY RecheckInv DEF Recheck, rowVars, Calling
<1>2. Knows(t)'
  BY <1>1, KnowsSame
<1>3. QED BY <1>1, <1>2, ReturnFresh, QuietChain

LEMMA RefusedChain ==
  ASSUME IInv, ChainInv, NEW t \in Sessions, InsertRefused(t)
  PROVE  ChainInv'
<1>1. Frame(t) /\ UNCHANGED <<obs, orders>> /\ loaded' = loaded /\ GoTo(t, "clash")
  BY ClashInv DEF InsertRefused, rowVars
<1>2. Knows(t)'
  BY <1>1, KnowsSame
<1>3. obs[Ev(t)].status # "PROMOTED"
  BY DEF ChainInv, Fresh, InsertRefused, Judging, Deciding
<1>4. QED BY <1>1, <1>2, <1>3, GoToFresh, QuietChain

(* Steps that write evidence.                                              *)
LEMMA KnowsWritten ==
  ASSUME IInv, ChainInv, NEW t \in Sessions, Frame(t), NEW e \in Evidence, keyHolder'[e.key] = t,
         loaded'[t][e].status = Seen(t, e)'.status,
         \A f \in Evidence \ {e} :
           loaded'[t][f] = loaded[t][f] /\ obs'[f].status = obs[f].status
  PROVE  Knows(t)'
<1> SUFFICES ASSUME NEW f \in Evidence, Present(loaded'[t][f])
             PROVE  keyHolder'[f.key] = t /\ loaded'[t][f].status = Seen(t, f)'.status
  BY DEF Knows
<1>1. CASE f = e
  BY <1>1
<1>2. CASE f # e
  <2>1. /\ t # Nobody /\ EvidenceInv(f) /\ f.key \in Keys
        /\ keyHolder[f.key] = t /\ loaded[t][f].status = Seen(t, f).status
    BY <1>2, ObservationAssumption DEF IInv, ChainInv, Fresh, Knows
  <2>2. keyHolder'[f.key] = t
    BY <2>1 DEF Frame
  <2>3. obs'[f].status = obs[f].status /\ settled'[f] = settled[f]
    BY <1>2 DEF Frame
  <2>4. obsHolder'[f] = t => obs[f].status = Seen(t, f).status
    BY <2>1 DEF Frame, EvidenceInv, Seen
  <2>5. obsHolder'[f] # t => settled[f] = Seen(t, f)
    BY <2>1 DEF Frame, Seen
  <2>6. Seen(t, f)'.status = Seen(t, f).status
    BY <2>3, <2>4, <2>5 DEF Seen
  <2>7. QED BY <1>2, <2>1, <2>2, <2>6
<1>3. QED BY <1>1, <1>2

LEMMA StatusWritten ==
  ASSUME IInv, ChainInv, NEW t \in Sessions, pc[t] \in Judging, NEW status, SetStatus(t, status)
  PROVE  /\ Ev(t) \in Evidence /\ obsHolder[Ev(t)] = t
         /\ obs'[Ev(t)].status = status /\ obs'[Ev(t)].next = obs[Ev(t)].next
         /\ loaded'[t][Ev(t)].status = status
         /\ \A f \in Evidence \ {Ev(t)} : obs'[f] = obs[f] /\ loaded'[t][f] = loaded[t][f]
<1>1. pc[t] \in {"judge", "decide", "insert", "clash", "supersede"}
  BY DEF Judging, Deciding
<1>2. TypeOK /\ SessionInv(t) /\ Ev(t) \in Evidence
  BY <1>1, Promotion
<1>3. PICK e \in Evidence : e = Ev(t)
  BY <1>2
<1>4. obsHolder[e] = t /\ Believed(t).status = obs[e].status /\ Believed(t) \in Observation
  BY <1>1, <1>2, <1>3, BelievedStatus, BelievedValid DEF SessionInv, Locks
<1> DEFINE new == [Believed(t) EXCEPT !.status = status]
           row == [obs[e] EXCEPT !.status = IF status = Believed(t).status THEN @ ELSE status]
<1>5. new.status = status /\ row.status = status /\ row.next = obs[e].next
  BY <1>2, <1>4 DEF TypeOK, Observation
<1>6. loaded' = [loaded EXCEPT ![t][e] = new] /\ obs' = [obs EXCEPT ![e] = row]
  BY <1>2, <1>3 DEF SetStatus, TypeOK
<1> HIDE DEF new, row
<1>7. /\ obs'[e] = row /\ loaded'[t][e] = new
      /\ \A f \in Evidence \ {e} : obs'[f] = obs[f] /\ loaded'[t][f] = loaded[t][f]
  BY <1>2, <1>6 DEF TypeOK
<1>8. QED BY <1>3, <1>4, <1>5, <1>7

\* evidence gets a status other than promoted
LEMMA StatusChain ==
  ASSUME IInv, ChainInv, NEW t \in Sessions, pc[t] \in Judging, Frame(t),
         NEW status, status # "PROMOTED", SetStatus(t, status),
         obsHolder' = obsHolder, orders' = orders, keyHolder'[Key(t)] = t,
         \/ Return(t)
         \/ \E step \in Calling \ {"load"} : GoTo(t, step)
  PROVE  ChainInv'
<1>1. /\ Ev(t) \in Evidence /\ obsHolder[Ev(t)] = t
      /\ obs'[Ev(t)].status = status /\ obs'[Ev(t)].next = obs[Ev(t)].next
      /\ loaded'[t][Ev(t)].status = status
      /\ \A f \in Evidence \ {Ev(t)} : obs'[f] = obs[f] /\ loaded'[t][f] = loaded[t][f]
  BY StatusWritten
<1>2. PICK e \in Evidence : e = Ev(t)
  BY <1>1
<1>3. e.key = Key(t) /\ obs[e].status # "PROMOTED" /\ pc[t] \in Calling
  BY <1>2 DEF Key, ChainInv, Fresh, Judging, Deciding, Calling
<1>4. Seen(t, e)'.status = status
  BY <1>1, <1>2 DEF Seen
<1>5. Knows(t)'
  BY <1>1, <1>2, <1>3, <1>4, KnowsWritten
<1>6. Fresh(t)'
  BY <1>1, <1>3, <1>5, ReturnFresh, GoToFresh DEF Calling
<1>7. \A f \in Evidence :
        /\ obs'[f] # obs[f] => keyHolder'[f.key] = t /\ obsHolder'[f] = t
        /\ obs'[f].next = obs[f].next
        /\ obs'[f].status = "PROMOTED" <=> obs[f].status = "PROMOTED"
  BY <1>1, <1>2, <1>3
<1>8. QED BY <1>6, <1>7, SameChain

LEMMA JudgeChain ==
  ASSUME IInv, ChainInv, NEW t \in Sessions, Judge(t) \/ Decide(t) \/ RejectNumber(t)
  PROVE  ChainInv'
<1>1. /\ pc[t] \in {"judge", "decide", "clash"} /\ pc[t] \in Judging
      /\ TypeOK /\ SessionInv(t) /\ Key(t) \in Keys /\ Frame(t)
  BY JudgeInv, DecideInv, ClashInv, Promotion DEF Judge, Decide, RejectNumber, Judging, Deciding
<1>2. keyHolder'[Key(t)] = t
  <2>1. CASE Judge(t)
    BY <1>1, <2>1 DEF Judge, TypeOK
  <2>2. CASE Decide(t) \/ RejectNumber(t)
    BY <1>1, <2>2 DEF Decide, RejectNumber, SessionInv, Locks, Deciding
  <2>3. QED BY <2>1, <2>2
<1>3. ASSUME NEW status, status # "PROMOTED", Leave(t, status) PROVE ChainInv'
  BY <1>1, <1>2, <1>3, StatusChain DEF Leave
<1>4. CASE \E status \in {"CONFLICT_BLOCKED", "CONTEXT_INCOMPLETE", "REJECTED_INVALID"} :
             Leave(t, status)
  BY <1>3, <1>4
<1>5. CASE Judge(t) /\ ~(Leave(t, "CONFLICT_BLOCKED") \/ Leave(t, "CONTEXT_INCOMPLETE"))
  <2>1. SetStatus(t, "NORMALIZED") /\ GoTo(t, "decide") /\ UNCHANGED <<obsHolder, orders>>
    BY <1>5 DEF Judge
  <2>2. "decide" \in Calling \ {"load"}
    BY DEF Calling
  <2>3. QED BY <1>1, <1>2, <2>1, <2>2, StatusChain
<1>6. CASE Decide(t) /\ ~Leave(t, "CONFLICT_BLOCKED")
  <2>1. UNCHANGED <<obs, orders, loaded>> /\ \E step \in {"supersede", "insert"} : GoTo(t, step)
    BY <1>6 DEF Decide
  <2>2. obs[Ev(t)].status # "PROMOTED"
    BY <1>1 DEF ChainInv, Fresh
  <2>3. Knows(t)'
    BY <1>1, <2>1, KnowsSame
  <2>4. QED BY <1>1, <2>1, <2>2, <2>3, GoToFresh, QuietChain
<1>7. QED BY <1>4, <1>5, <1>6 DEF RejectNumber

LEMMA StageChain ==
  ASSUME IInv, ChainInv, NEW t \in Sessions, Record(t) \/ Replay(t)
  PROVE  ChainInv'
<1>1. /\ TypeOK /\ SessionInv(t) /\ InScript(t) /\ t # Nobody /\ pc[t] \in Calling /\ Frame(t)
      /\ Return(t) /\ orders' = orders /\ keyHolder' = keyHolder /\ settled' = settled
  BY ObservationAssumption, StageInv DEF IInv, SessionInv, Record, Replay, Calling
<1>2. PICK e \in Evidence : e = Ev(t)
  BY <1>1, CallType
<1>3. PICK batch : batch = Call(t).batch
  OBVIOUS
<1>4. /\ keyHolder[e.key] = t /\ EvidenceInv(e) /\ Guarded(e)
      /\ obs[e] \in Observation /\ settled[e] \in Observation
      /\ e.key \in Keys /\ Linked(e.key, obs, orders[e.key])
  BY <1>1, <1>2, ObservationAssumption
  DEF SessionInv, Locks, Record, Replay, Key, IInv, ChainInv, TypeOK
<1>5. obs[e] = Seen(t, e)
  BY <1>4 DEF EvidenceInv, Guarded, Seen
<1>6. CASE Record(t)
  <2>1. /\ obs' = [obs EXCEPT ![e] = Recorded(e, batch)]
        /\ obsHolder' = [obsHolder EXCEPT ![e] = t]
        /\ loaded' = [loaded EXCEPT ![t][e] = Recorded(e, batch)]
        /\ ~Present(obs[e])
    BY <1>2, <1>3, <1>5, <1>6 DEF Record, Write
  <2>2. Recorded(e, batch).status # "PROMOTED" /\ Recorded(e, batch).next = None
    BY DEF Recorded, Assessed
  <2>3. obs[e].status # "PROMOTED" /\ obs[e].next = None
    BY <1>4, <2>1 DEF Present, Linked
  <2> DEFINE row == Recorded(e, batch)
  <2>4. row.status # "PROMOTED" /\ row.next = None
    BY <2>2
  <2> HIDE DEF row
  <2>5. /\ obs'[e] = row /\ obsHolder'[e] = t /\ loaded'[t][e] = row
        /\ \A f \in Evidence \ {e} : obs'[f] = obs[f] /\ loaded'[t][f] = loaded[t][f]
    BY <1>1, <2>1 DEF TypeOK, row
  <2>6. Seen(t, e)' = row
    BY <2>5 DEF Seen
  <2>7. Knows(t)'
    BY <1>1, <1>4, <2>5, <2>6, KnowsWritten
  <2>8. Fresh(t)'
    BY <1>1, <2>7, ReturnFresh
  <2>9. QED BY <1>1, <1>4, <2>3, <2>4, <2>5, <2>8, SameChain
<1>7. CASE Replay(t)
  <2> DEFINE row == [obs[e] EXCEPT !.batches = @ \cup {batch}]
  <2>1. row.status = obs[e].status /\ row.next = obs[e].next
    BY <1>4 DEF Observation
  <2>2. /\ loaded' = [loaded EXCEPT ![t][e] = IF Present(@) THEN @ ELSE obs[e]]
        /\ \/ UNCHANGED <<obs, obsHolder>>
           \/ obs' = [obs EXCEPT ![e] = row] /\ obsHolder' = [obsHolder EXCEPT ![e] = t]
    BY <1>2, <1>3, <1>5, <1>7 DEF Replay, Write
  <2> HIDE DEF row
  <2>3. /\ \A f \in Evidence \ {e} : obs'[f] = obs[f] /\ loaded'[t][f] = loaded[t][f]
        /\ obs'[e] = obs[e] \/ (obs'[e] = row /\ obsHolder'[e] = t)
        /\ obsHolder'[e] = t \/ UNCHANGED <<obs, obsHolder>>
    BY <1>1, <2>2 DEF TypeOK
  <2>4. loaded'[t][e].status = obs[e].status
    <3>1. Present(loaded[t][e]) => loaded[t][e].status = obs[e].status
      BY <1>5 DEF ChainInv, Fresh, Knows
    <3>2. loaded'[t][e] = IF Present(loaded[t][e]) THEN loaded[t][e] ELSE obs[e]
      BY <1>1, <2>2 DEF TypeOK
    <3>3. QED BY <3>1, <3>2
  <2>5. Seen(t, e)'.status = obs[e].status
    BY <1>1, <1>5, <2>1, <2>3 DEF Seen
  <2>6. Knows(t)'
    BY <1>1, <1>4, <2>3, <2>4, <2>5, KnowsWritten
  <2>7. Fresh(t)'
    BY <1>1, <2>6, ReturnFresh
  <2>8. \A f \in Evidence : obs'[f].next = obs[f].next /\ obs'[f].status = obs[f].status
    BY <2>1, <2>3
  <2>9. QED BY <1>1, <1>4, <2>3, <2>7, <2>8, SameChain
<1>8. QED BY <1>6, <1>7

(* Evidence is promoted: it has no successor, and becomes that of whatever *)
(* evidence the order had before.                                          *)
LEMMA PromoteChain ==
  ASSUME IInv, ChainInv, NEW t \in Sessions, pc[t] \in Judging, Frame(t), Promote(t),
         NEW e \in Evidence, e = Ev(t), keyHolder[e.key] = t, obsHolder'[e] = t,
         loaded'[t][e].status = "PROMOTED", obs'[e].status = "PROMOTED",
         obs'[e].next = obs[e].next,
         \A f \in Evidence \ {e} :
           /\ loaded'[t][f] = loaded[t][f] /\ obs'[f].status = obs[f].status
           /\ \/ obs'[f] = obs[f]
              \/ f.key = e.key /\ obsHolder'[f] = t
           /\ \/ obs'[f].next = obs[f].next /\ orders[e.key] # Projection(f)
              \/ obs'[f].next = e /\ orders[e.key] = Projection(f)
                 /\ Precedes(f, e)
  PROVE  ChainInv'
<1> USE ObservationAssumption
<1>1. /\ TypeOK /\ e.key \in Keys /\ pc[t] \in Calling /\ e # None
      /\ Return(t) /\ keyHolder' = keyHolder
      /\ orders' = [orders EXCEPT ![e.key] = Projection(e)]
  BY DEF IInv, Promote, Key, Judging, Deciding, Calling
<1>2. PICK k \in Keys : k = e.key
  BY <1>1
<1>3. /\ orders'[k] = Projection(e)
      /\ \A q \in Keys \ {k} : orders'[q] = orders[q]
  BY <1>1, <1>2 DEF TypeOK
<1>4. obs[e].status # "PROMOTED"
  BY DEF ChainInv, Fresh
<1>5. Seen(t, e)'.status = "PROMOTED"
  BY DEF Seen
<1>6. Knows(t)'
  <2>1. keyHolder'[e.key] = t /\ loaded'[t][e].status = Seen(t, e)'.status
    BY <1>1, <1>5
  <2>2. \A f \in Evidence \ {e} : loaded'[t][f] = loaded[t][f] /\ obs'[f].status = obs[f].status
    OBVIOUS
  <2>3. QED BY <2>1, <2>2, KnowsWritten
<1>7. Fresh(t)'
  BY <1>1, <1>6, ReturnFresh
<1>8. Linked(k, obs, orders[k]) /\ OfKey(orders[k], k)
  BY DEF ChainInv, IInv, KeyInv
<1>9. ASSUME NEW f \in Promoted(k, obs) PROVE There(orders[k]) /\ Precedes(f, e)
  <2>1. There(orders[k]) /\ (f = orders[k].of \/ Precedes(f, orders[k])) /\ f # e
    BY <1>4, <1>8 DEF Linked, Promoted
  <2>2. PICK g \in Evidence : g = orders[k].of /\ orders[k] = Projection(g)
    BY <1>8, <2>1 DEF OfKey
  <2>3. g # e
    BY <1>4, <1>8, <2>1, <2>2 DEF Linked
  <2>4. Precedes(g, e)
    BY <1>2, <2>2, <2>3
  <2>5. CASE f = g
    BY <2>1, <2>4, <2>5
  <2>6. CASE f # g
    <3>1. Precedes(f, g) /\ Precedes(g, e)
      BY <2>1, <2>2, <2>4, <2>6 DEF Precedes, Projection
    <3>2. {f.version, g.version, e.version} \subseteq Versions \cup {None}
      BY DEF Promoted
    <3>3. QED BY <2>1, <3>1, <3>2 DEF Precedes
  <2>7. QED BY <2>5, <2>6
<1>10. Linked(k, obs', orders'[k])
  <2>1. obs'[e].next = None
    BY <1>2, <1>4, <1>8 DEF Linked
  <2>2. ASSUME NEW f \in Evidence \ {e}, f.key = k
        PROVE  /\ obs'[f].status # "PROMOTED" => obs'[f].next = None
               /\ obs'[f].status = "PROMOTED" =>
                    /\ Precedes(f, e)
                    /\ obs'[f].next \in Evidence /\ obs'[f].next.key = k
                    /\ obs'[obs'[f].next].status = "PROMOTED"
                    /\ Precedes(f, obs'[f].next)
    <3>1. obs'[f].status = "PROMOTED" => Precedes(f, e)
      BY <1>9, <2>2 DEF Promoted
    <3>2. CASE orders[k] = Projection(f)
      <4>1. obs'[f].next = e
        BY <1>2, <3>2
      <4>2. obs[f].status = "PROMOTED"
        BY <1>8, <3>2 DEF Linked, There, Projection
      <4>3. QED BY <1>2, <3>1, <4>1, <4>2
    <3>3. CASE orders[k] # Projection(f)
      <4>1. obs'[f].next = obs[f].next /\ obs'[f].status = obs[f].status
        BY <1>2, <3>3
      <4>2. obs[f].status # "PROMOTED" => obs[f].next = None
        BY <1>8, <2>2 DEF Linked
      <4>3. ASSUME obs[f].status = "PROMOTED"
            PROVE  /\ obs[f].next \in Evidence /\ obs[f].next.key = k
                   /\ obs[obs[f].next].status = "PROMOTED"
                   /\ Precedes(f, obs[f].next)
        BY <1>8, <2>2, <3>3, <4>3 DEF Linked
      <4>4. \A g \in Evidence : obs[g].status = "PROMOTED" => obs'[g].status = "PROMOTED"
        OBVIOUS
      <4>5. QED BY <3>1, <4>1, <4>2, <4>3, <4>4
    <3>4. QED BY <3>2, <3>3
  <2>3. /\ There(orders'[k]) /\ orders'[k].of = e
        /\ \A f : Precedes(f, orders'[k]) <=> Precedes(f, e)
    BY <1>1, <1>3 DEF Projection, There, Precedes
  <2>4. QED BY <1>2, <1>3, <2>1, <2>2, <2>3 DEF Linked
<1>11. Promoted(k, obs') = Promoted(k, obs) \cup {e}
  BY <1>2 DEF Promoted
<1>12. ASSUME NEW q \in Keys \ {k}
       PROVE  Linked(q, obs', orders'[q]) /\ Promoted(q, obs') = Promoted(q, obs)
  <2>1. Linked(q, obs, orders[q]) /\ OfKey(orders[q], q)
    BY DEF ChainInv, IInv, KeyInv
  <2>2. \A f \in Evidence : f.key = q => obs'[f] = obs[f]
    BY <1>2, <1>12
  <2>3. Linked(q, obs', orders'[q])
    BY <1>3, <2>1, <2>2, LinkedSame
  <2>4. QED BY <2>2, <2>3 DEF Promoted
<1>13. ASSUME NEW q \in Keys
       PROVE  /\ Linked(q, obs', orders'[q])
              /\ \/ Promoted(q, obs') = Promoted(q, obs)
                 \/ \E g \in Evidence : /\ Promoted(q, obs') = Promoted(q, obs) \cup {g}
                                        /\ \A f \in Promoted(q, obs) : Precedes(f, g)
  BY <1>9, <1>10, <1>11, <1>12
<1>14. QED BY <1>1, <1>4, <1>7, <1>13, ChainStep

LEMMA InsertChain ==
  ASSUME IInv, ChainInv, NEW t \in Sessions, InsertOrder(t)
  PROVE  ChainInv'
<1>1. /\ pc[t] \in {"insert"} /\ pc[t] \in Judging /\ Frame(t) /\ Promote(t)
      /\ SetStatus(t, "PROMOTED") /\ obsHolder' = obsHolder /\ SessionInv(t)
  BY InsertInv DEF InsertOrder, Judging, Deciding, IInv
<1>2. PICK e \in Evidence : e = Ev(t)
  BY <1>1, StatusWritten
<1>3. keyHolder[e.key] = t /\ ~There(orders[e.key])
  BY <1>1, <1>2 DEF SessionInv, Locks, Decided, Key, Deciding
<1>4. \A f \in Evidence : orders[e.key] # Projection(f)
  BY <1>3, ObservationAssumption DEF There, Projection
<1>5. QED BY <1>1, <1>2, <1>3, <1>4, StatusWritten, PromoteChain

LEMMA SupersedeChain ==
  ASSUME IInv, ChainInv, NEW t \in Sessions, Supersede(t)
  PROVE  ChainInv'
<1>1. /\ pc[t] \in {"supersede"} /\ pc[t] \in Judging /\ Frame(t) /\ TypeOK /\ Ev(t) \in Evidence
  BY SupersedeInv, Promotion DEF Supersede, Judging, Deciding
<1>2. PICK e \in Evidence : e = Ev(t)
  BY <1>1
<1>3. e.key \in Keys /\ keyHolder[e.key] = t /\ obsHolder[e] = t
  BY <1>2, Superseded
<1>4. PICK previous \in Evidence :
        /\ orders[e.key] = Projection(previous) /\ previous.key = e.key
        /\ BelievedOrder(t).current = previous
        /\ previous = e \/ Precedes(previous, e)
  BY <1>2, Superseded DEF Precedes
<1>5. previous # e
  <2>1. obs[previous].status = "PROMOTED"
    BY <1>3, <1>4, ObservationAssumption DEF ChainInv, Linked, There, Projection
  <2>2. QED BY <1>1, <1>2, <2>1 DEF ChainInv, Fresh
<1> DEFINE old == [obs[previous] EXCEPT !.next = e]
           new == [obs[e] EXCEPT !.status = "PROMOTED"]
           mine == [Believed(t) EXCEPT !.status = "PROMOTED"]
<1>6. /\ Promote(t) /\ obsHolder' = [obsHolder EXCEPT ![previous] = t]
      /\ obs' = [obs EXCEPT ![previous].next = e, ![e].status = "PROMOTED"]
      /\ loaded' = [loaded EXCEPT ![t][e] = mine]
  BY <1>2, <1>4, <1>5 DEF Supersede
<1>7. /\ old.next = e /\ old.status = obs[previous].status
      /\ new.status = "PROMOTED" /\ new.next = obs[e].next
      /\ mine.status = "PROMOTED"
  BY <1>1, <1>2, BelievedValid DEF TypeOK, Observation
<1>8. obs' = [obs EXCEPT ![previous] = old, ![e] = new]
  BY <1>1, <1>5, <1>6 DEF TypeOK
<1> HIDE DEF old, new, mine
<1>9. /\ obs'[e] = new /\ obs'[previous] = old /\ loaded'[t][e] = mine
      /\ obsHolder'[previous] = t /\ obsHolder'[e] = t
      /\ \A f \in Evidence \ {e, previous} : obs'[f] = obs[f]
      /\ \A f \in Evidence \ {e} : loaded'[t][f] = loaded[t][f]
  BY <1>1, <1>3, <1>5, <1>6, <1>8 DEF TypeOK
<1>10. \A f \in Evidence \ {previous} : orders[e.key] # Projection(f)
  BY <1>4 DEF Projection
<1>11. ASSUME NEW f \in Evidence \ {e}
       PROVE  /\ loaded'[t][f] = loaded[t][f] /\ obs'[f].status = obs[f].status
              /\ \/ obs'[f] = obs[f]
                 \/ f.key = e.key /\ obsHolder'[f] = t
              /\ \/ obs'[f].next = obs[f].next /\ orders[e.key] # Projection(f)
                 \/ obs'[f].next = e /\ orders[e.key] = Projection(f)
                    /\ Precedes(f, e)
  <2>1. CASE f = previous
    BY <1>4, <1>5, <1>7, <1>9, <2>1
  <2>2. CASE f # previous
    BY <1>9, <1>10, <2>2
  <2>3. QED BY <2>1, <2>2
<1>12. /\ loaded'[t][e].status = "PROMOTED" /\ obs'[e].status = "PROMOTED"
       /\ obs'[e].next = obs[e].next
  BY <1>7, <1>9
<1>13. QED BY <1>1, <1>2, <1>3, <1>6, <1>9, <1>11, <1>12, PromoteChain

-----------------------------------------------------------------------------
(* The end of a transaction: a key's rows and its order are published, or  *)
(* dropped, together.                                                      *)
LEMMA EndRows ==
  ASSUME IInv, ChainInv, NEW t \in Sessions, NEW keep \in BOOLEAN, End(t, keep), NEW k \in Keys
  PROVE  LET whole(rows, order) == /\ \A e \in Evidence : e.key = k => rows[e] = (IF keep THEN obs ELSE settled)[e]
                                   /\ order = (IF keep THEN orders ELSE projected)[k]
         IN  IF keyHolder[k] = t
             THEN whole(obs', orders'[k]) /\ whole(settled', projected'[k])
             ELSE /\ \A e \in Evidence : e.key = k => obs'[e] = obs[e] /\ settled'[e] = settled[e]
                  /\ orders'[k] = orders[k] /\ projected'[k] = projected[k]
<1>1. t # Nobody /\ TypeOK
  BY ObservationAssumption DEF IInv
<1>2. \A e \in Evidence : Guarded(e)
  BY DEF ChainInv
<1>3. QED BY <1>1, <1>2 DEF End, Seen, SeenOrder, Guarded

LEMMA EndChain ==
  ASSUME IInv, ChainInv, NEW t \in Sessions, NEW keep \in BOOLEAN, End(t, keep)
  PROVE  ChainInv'
<1>1. TypeOK /\ t # Nobody
  BY ObservationAssumption DEF IInv
<1>2. \A e \in Evidence : e.key \in Keys /\ Guarded(e) /\ EvidenceInv(e)
  BY ObservationAssumption DEF IInv, ChainInv
<1>3. ASSUME NEW k \in Keys
      PROVE  Linked(k, obs', orders'[k]) /\ Linked(k, settled', projected'[k])
  <2>1. /\ Linked(k, obs, orders[k]) /\ Linked(k, settled, projected[k])
        /\ OfKey(orders[k], k) /\ OfKey(projected[k], k)
    BY DEF ChainInv, IInv, KeyInv
  <2>2. QED BY <2>1, EndRows, LinkedSame
<1>4. ASSUME NEW k \in Keys
      PROVE  /\ Late(k)' /\ Listed(Promoted(k, obs'))
             /\ Listed(Promoted(k, settled'))
  <2>1. Late(k) /\ Listed(Promoted(k, obs)) /\ Listed(Promoted(k, settled))
    BY DEF ChainInv
  <2>2. CASE keyHolder[k] = t
    <3>1. /\ Promoted(k, obs') = Promoted(k, IF keep THEN obs ELSE settled)
          /\ Promoted(k, settled') = Promoted(k, IF keep THEN obs ELSE settled)
      BY <2>2, EndRows DEF Promoted
    <3>2. Late(k)'
      BY <3>1 DEF Late, Promoted
    <3>3. QED BY <2>1, <3>1, <3>2
  <2>3. CASE keyHolder[k] # t
    <3>1. Promoted(k, obs') = Promoted(k, obs) /\ Promoted(k, settled') = Promoted(k, settled)
      BY <2>3, EndRows DEF Promoted
    <3>2. Late(k)'
      BY <2>1, <3>1 DEF Late, Promoted, Precedes
    <3>3. QED BY <2>1, <3>1, <3>2
  <2>4. QED BY <2>2, <2>3
<1>5. ASSUME NEW e \in Evidence PROVE Guarded(e)'
  <2>1. obsHolder'[e] = IF obsHolder[e] = t THEN Nobody ELSE obsHolder[e]
    BY DEF End
  <2>2. keyHolder'[e.key] = IF keyHolder[e.key] = t THEN Nobody ELSE keyHolder[e.key]
    BY <1>2 DEF End
  <2>3. CASE keyHolder[e.key] = t
    BY <1>2, <2>3, EndRows DEF Guarded
  <2>4. CASE keyHolder[e.key] # t
    BY <1>2, <2>1, <2>2, <2>4, EndRows DEF Guarded
  <2>5. QED BY <2>3, <2>4
<1>6. Fresh(t)'
  <2>1. /\ pc'[t] = "idle" /\ script'[t] = <<>> /\ loaded'[t] = [e \in Evidence |-> Unseen]
    BY <1>1 DEF TypeOK, End
  <2>2. QED BY <2>1 DEF Fresh, Knows, Present, Unseen, Judging, Deciding
<1>7. ASSUME NEW s \in Sessions \ {t} PROVE Fresh(s)'
  <2>1. /\ SessionInv(s) /\ Fresh(s) /\ s # Nobody
        /\ pc'[s] = pc[s] /\ at'[s] = at[s] /\ script'[s] = script[s] /\ loaded'[s] = loaded[s]
    BY <1>1, ObservationAssumption DEF IInv, TypeOK, ChainInv, End
  <2>2. /\ \A e \in Evidence : obsHolder'[e] = s <=> obsHolder[e] = s
        /\ \A e \in Evidence : obsHolder[e] = s => obs'[e] = obs[e]
        /\ \A k \in Keys : keyHolder[k] = s => keyHolder'[k] = s
    BY <1>1, <2>1 DEF End
  <2>3. Ev(s)' = Ev(s)
    BY <2>1 DEF Ev, Call
  <2>4. pc[s] \in Judging => Ev(s) \in Evidence /\ obsHolder[Ev(s)] = s
    BY <1>1, <2>1, CallType DEF SessionInv, Locks, Judging, Deciding, Calling
  <2>5. \A e \in Evidence : keyHolder[e.key] = s => settled'[e] = settled[e]
    BY <1>2, <2>1, EndRows
  <2>6. \A e \in Evidence : keyHolder[e.key] = s => Seen(s, e)' = Seen(s, e)
    BY <2>2, <2>5 DEF Seen
  <2>7. Knows(s)'
    BY <1>2, <2>1, <2>2, <2>6 DEF Fresh, Knows
  <2>8. QED BY <2>1, <2>2, <2>3, <2>4, <2>7 DEF Fresh
<1>8. \A k \in Keys : Linked(k, obs, orders[k])' /\ Linked(k, settled, projected[k])'
  BY <1>3 DEF Linked, Precedes, There, Projection
<1>9. \A k \in Keys : Listed(Promoted(k, obs))' /\ Listed(Promoted(k, settled))'
  BY <1>4 DEF Listed, Lists, Precedes, Promoted
<1>10. QED BY <1>5, <1>6, <1>7, <1>8, <1>4, <1>9 DEF ChainInv

LEMMA ChainInit == Init => ChainInv
<1> SUFFICES ASSUME Init PROVE ChainInv
  OBVIOUS
<1>1. \A s \in Sessions : Fresh(s)
  BY DEF Init, Fresh, Knows, Present, Unseen, Judging, Deciding
<1>2. \A e \in Evidence : Guarded(e)
  BY DEF Init, Guarded, Unseen
<1>3. ASSUME NEW k \in Keys
      PROVE  /\ Linked(k, obs, orders[k]) /\ Linked(k, settled, projected[k])
             /\ Promoted(k, obs) = {} /\ Promoted(k, settled) = {}
  BY DEF Init, Linked, There, Unseen, NoOrder, Promoted
<1>4. Listed({})
  <2>1. 0 \in Nat /\ [i \in 1..0 |-> 0] \in [1..0 -> {}] /\ Lists([i \in 1..0 |-> 0], {})
    BY DEF Lists
  <2>2. QED BY <2>1 DEF Listed
<1>5. QED BY <1>1, <1>2, <1>3, <1>4 DEF ChainInv, Late

\* no part of the chain depends on the warehouses or on the bound
LEMMA StillChain ==
  ASSUME ChainInv, UNCHANGED <<rowVars, pc, script, at, loaded>>
  PROVE  ChainInv'
<1>1. /\ UNCHANGED <<keyHolder, obs, settled, obsHolder, orders, projected>>
      /\ UNCHANGED <<pc, script, at, loaded>>
  BY DEF rowVars
<1>2. \A s \in Sessions : Fresh(s)'
  BY <1>1 DEF ChainInv, Fresh, Knows, Seen, Ev, Call
<1>3. ASSUME NEW k \in Keys
      PROVE  /\ Linked(k, obs, orders[k])' /\ Linked(k, settled, projected[k])'
             /\ Late(k)' /\ Listed(Promoted(k, obs))' /\ Listed(Promoted(k, settled))'
  <2>1. /\ Linked(k, obs, orders[k]) /\ Linked(k, settled, projected[k])
        /\ Late(k) /\ Listed(Promoted(k, obs)) /\ Listed(Promoted(k, settled))
    BY DEF ChainInv
  <2>2. Linked(k, obs, orders[k])' /\ Linked(k, settled, projected[k])'
    BY <1>1, <2>1 DEF Linked, There, Projection, Precedes
  <2>3. Promoted(k, obs') = Promoted(k, obs) /\ Promoted(k, settled') = Promoted(k, settled)
    BY <1>1 DEF Promoted
  <2>4. Late(k)'
    BY <2>1, <2>3 DEF Late, Precedes, Promoted
  <2>5. Listed(Promoted(k, obs')) /\ Listed(Promoted(k, settled'))
    BY <2>1, <2>3
  <2>6. Listed(Promoted(k, obs))' /\ Listed(Promoted(k, settled))'
    BY <2>5 DEF Listed, Lists, Precedes, Promoted
  <2>7. QED BY <2>2, <2>4, <2>6
<1>4. \A e \in Evidence : Guarded(e)'
  BY <1>1 DEF ChainInv, Guarded
<1>5. QED BY <1>2, <1>3, <1>4 DEF ChainInv

LEMMA ChainNext ==
  ASSUME NothingLoaded, IInv, ChainInv, [Next]_vars
  PROVE  ChainInv'
<1>1. ASSUME NEW t \in Sessions, NEW calls \in Scripts, Begin(t, calls) PROVE ChainInv'
  BY <1>1, BeginChain
<1>2. ASSUME NEW t \in Sessions, FindIdentity(t) \/ CreateIdentity(t) \/ IdentityTaken(t)
      PROVE  ChainInv'
  BY <1>2, IdentityChain
<1>3. ASSUME NEW t \in Sessions, Record(t) \/ Replay(t) PROVE ChainInv'
  BY <1>3, StageChain
<1>4. ASSUME NEW t \in Sessions, Load(t) \/ Observe(t) \/ Recheck(t) PROVE ChainInv'
  BY <1>4, ObserveChain, RecheckChain DEF Load, ChainInv, Fresh
<1>5. ASSUME NEW t \in Sessions, Judge(t) \/ Decide(t) \/ RejectNumber(t) PROVE ChainInv'
  BY <1>5, JudgeChain
<1>6. ASSUME NEW t \in Sessions, InsertRefused(t) PROVE ChainInv'
  BY <1>6, RefusedChain
<1>7. ASSUME NEW t \in Sessions, InsertOrder(t) \/ Supersede(t) PROVE ChainInv'
  BY <1>7, InsertChain, SupersedeChain
<1>8. ASSUME NEW t \in Sessions,
             \/ RecordFails(t) \/ NumberGone(t) \/ Commit(t) \/ CommitFails(t)
             \/ DeadlockDetected(t) \/ Crash(t)
      PROVE  ChainInv'
  <2>1. \E keep \in BOOLEAN : End(t, keep)
    BY <1>8 DEF RecordFails, NumberGone, Commit, CommitFails, DeadlockDetected, Crash
  <2>2. QED BY <2>1, EndChain
<1>9. CASE (\E w \in Sites : Register(w)) \/ AllDone \/ UNCHANGED vars
  BY <1>9, StillChain DEF Register, AllDone, vars
<1>10. QED
  BY <1>1, <1>2, <1>3, <1>4, <1>5, <1>6, <1>7, <1>8, <1>9 DEF Next

LEMMA ChainInvariance == NothingLoaded /\ Spec => []ChainInv
<1> SUFFICES ASSUME NothingLoaded PROVE Spec => []ChainInv
  OBVIOUS
<1>1. IInv /\ ChainInv /\ [Next]_vars => ChainInv'
  BY ChainNext
<1>2. QED BY <1>1, ChainInit, Invariance, PTL DEF Spec

(* The promoted evidence of a source order forms a chain from older to     *)
(* newer versions that ends at the evidence its order is projected from    *)
(* (order_observations.py:670, 897-914), if no caller hands promote an     *)
(* object it loaded before.                                                *)
THEOREM ChainOfProjections == NothingLoaded /\ Spec => []ProjectionIsLinked
<1>1. IInv /\ ChainInv => ProjectionIsLinked
  <2> SUFFICES ASSUME IInv, ChainInv PROVE ProjectionIsLinked
    OBVIOUS
  <2>1. ASSUME NEW k \in Keys, There(projected[k])
        PROVE  settled[projected[k].current].status = "PROMOTED"
    <3>1. Linked(k, settled, projected[k]) /\ OfKey(projected[k], k)
      BY DEF IInv, ChainInv, KeyInv
    <3>2. QED BY <2>1, <3>1 DEF Linked, OfKey, Projection
  <2>2. ASSUME NEW e \in Evidence
        PROVE  e.key \in Keys /\ Linked(e.key, settled, projected[e.key])
    BY ObservationAssumption DEF ChainInv
  <2>3. QED BY <2>1, <2>2 DEF ProjectionIsLinked, Linked, Precedes
<1>2. QED BY <1>1, Invariance, ChainInvariance, PTL

(* Promoted evidence stays promoted, for any sessions and scripts, if no   *)
(* caller hands promote an object it loaded before                         *)
(* (tests/unit/test_order_observations.py:718-777); if one does, run       *)
(* MCOrderStale refutes it.                                                *)
THEOREM NeverDemoted == NothingLoaded /\ Spec => PromotedStaysPromoted
<1> DEFINE Stays == \A e \in Evidence :
                      settled[e].status = "PROMOTED" => settled'[e].status = "PROMOTED"
<1>1. ASSUME ChainInv, Next PROVE Stays
  <2>1. ASSUME NEW s \in Sessions, NEW keep \in BOOLEAN, End(s, keep) PROVE Stays
    BY <1>1, <2>1 DEF ChainInv, Guarded, End, Seen
  <2>2. QED BY <1>1, <2>1, OnlyEndsPublish
<1>2. ChainInv /\ [Next]_vars => [Stays]_vars
  BY <1>1
<1> HIDE DEF Stays
<1>3. NothingLoaded /\ Spec => [][Stays]_vars
  BY <1>2, ChainInvariance, PTL DEF Spec
<1>4. QED BY <1>3 DEF Stays, PromotedStaysPromoted

-----------------------------------------------------------------------------
(* The refinement: what is listed has one ascending list, and a list of    *)
(* more and newer evidence begins with it.                                 *)

Less == {x \in Nat \X Nat : x[1] < x[2]}

\* induction over a set of natural numbers
LEMMA SetInduction ==
  ASSUME NEW S, 0 \in S, \A n \in Nat : n \in S => n + 1 \in S
  PROVE  \A n \in Nat : n \in S
<1> SUFFICES ASSUME Nat \ S # {} PROVE FALSE
  OBVIOUS
<1> DEFINE T == Nat \ S
<1>1. IsWellFoundedOn(Less, Nat)
  BY NatLessThanWellFounded, Zenon DEF OpToRel, Less
<1>2. PICK x \in T : \A y \in T : ~(<<y, x>> \in Less)
  <2>1. T \subseteq Nat /\ T # {}
    OBVIOUS
  <2> HIDE DEF T
  <2>2. QED BY <1>1, <2>1, WFMin, Zenon
<1>3. x \in Nat /\ x # 0 /\ x - 1 \in T /\ <<x - 1, x>> \in Less
  BY <1>2 DEF Less
<1>4. QED BY <1>2, <1>3

LEMMA PrecedesOrder ==
  ASSUME NEW e \in Evidence, NEW f \in Evidence, Precedes(e, f)
  PROVE  e # f /\ ~Precedes(f, e)
BY ObservationAssumption DEF Precedes

LEMMA SortedLists ==
  ASSUME NEW S \in SUBSET Evidence, Listed(S)
  PROVE  \E n \in Nat : Sorted(S) \in [1..n -> S] /\ Lists(Sorted(S), S)
<1>1. PICK n \in Nat : \E q \in [1..n -> S] : Lists(q, S)
  BY DEF Listed
<1>2. PICK q \in [1..n -> S] : Lists(q, S)
  BY <1>1
<1>3. ASSUME NEW i \in 1..n, NEW j \in 1..n, q[i] = q[j] PROVE i = j
  <2>1. ASSUME NEW a \in 1..n, NEW b \in 1..n, a < b PROVE q[a] # q[b]
    BY <1>2, <2>1, PrecedesOrder DEF Lists
  <2>2. i < j \/ j < i \/ i = j
    OBVIOUS
  <2>3. QED BY <1>3, <2>1, <2>2
<1>4. q \in Bijection(1..n, S)
  BY <1>2, <1>3 DEF Lists, Bijection, Injection, Surjection, IsInjective
<1>5. Cardinality(S) = n
  <2>1. ExistsBijection(1..n, S)
    BY <1>4 DEF ExistsBijection
  <2>2. IsFiniteSet(1..n) /\ Cardinality(1..n) = n
    BY FS_Interval
  <2>3. QED BY <2>1, <2>2, FS_Bijection
<1>6. Sorted(S) \in [1..n -> S] /\ Lists(Sorted(S), S)
  BY <1>2, <1>5 DEF Sorted
<1>7. QED BY <1>6

LEMMA SortedPrefix ==
  ASSUME NEW S \in SUBSET Evidence, NEW T \in SUBSET Evidence, S \subseteq T,
         NEW m \in Nat, NEW n \in Nat, NEW p \in [1..m -> S], NEW q \in [1..n -> T],
         Lists(p, S), Lists(q, T),
         \A e \in S, f \in T \ S : Precedes(e, f)
  PROVE  m <= n /\ \A i \in 1..m : q[i] = p[i]
<1> DEFINE Same == {i \in Nat : \A j \in 1..i : j <= m => j <= n /\ q[j] = p[j]}
<1>1. 0 \in Same
  OBVIOUS
<1>2. ASSUME NEW i \in Nat, i \in Same PROVE i + 1 \in Same
  <2> DEFINE x == i + 1
  <2>1. ASSUME x <= m PROVE x <= n /\ q[x] = p[x]
    <3>1. x \in 1..m /\ p[x] \in S /\ p[x] \in T
      BY <2>1
    <3>2. \A j \in 1..i : j \in 1..m /\ j \in 1..n /\ q[j] = p[j]
      BY <1>2, <2>1
    <3>3. PICK y \in 1..n : q[y] = p[x]
      BY <3>1 DEF Lists
    <3>4. y >= x
      <4>1. ASSUME y < x PROVE FALSE
        <5>1. y \in 1..i /\ y < x
          BY <4>1
        <5>2. Precedes(p[y], p[x]) /\ p[y] = p[x] /\ p[y] \in Evidence
          BY <3>1, <3>2, <3>3, <5>1 DEF Lists
        <5>3. QED BY <5>2, PrecedesOrder
      <4>2. QED BY <4>1
    <3>5. x \in 1..n /\ q[x] \in T
      BY <3>4
    <3>6. ASSUME y # x PROVE FALSE
      <4>1. Precedes(q[x], p[x])
        BY <3>3, <3>4, <3>5, <3>6 DEF Lists
      <4>2. q[x] \in S
        BY <3>1, <3>5, <4>1, PrecedesOrder
      <4>3. PICK z \in 1..m : p[z] = q[x]
        BY <4>2 DEF Lists
      <4>4. z < x
        <5>1. z # x
          BY <3>1, <4>1, <4>3, PrecedesOrder
        <5>2. ~(x < z)
          BY <3>1, <4>1, <4>3, PrecedesOrder DEF Lists
        <5>3. QED BY <5>1, <5>2
      <4>5. z \in 1..i /\ z \in 1..n /\ q[z] = q[x]
        BY <3>2, <4>3, <4>4
      <4>6. Precedes(q[z], q[x]) /\ q[z] \in Evidence
        BY <3>5, <4>4, <4>5 DEF Lists
      <4>7. QED BY <4>5, <4>6, PrecedesOrder
    <3>7. QED BY <3>3, <3>5, <3>6
  <2>2. QED BY <1>2, <2>1
<1>3. m \in Same
  <2> HIDE DEF Same
  <2>1. QED BY <1>1, <1>2, SetInduction
<1>4. m = 0 \/ m \in 1..m
  OBVIOUS
<1>5. QED BY <1>3, <1>4

(* What holds of a key's entries before and after a step.                  *)
LEMMA SortedExtends ==
  ASSUME NEW S \in SUBSET Evidence, NEW T \in SUBSET Evidence, S \subseteq T,
         Listed(S), Listed(T), \A e \in S, f \in T \ S : Precedes(e, f)
  PROVE  IsPrefix(Sorted(S), Sorted(T))
<1>1. PICK m \in Nat : Sorted(S) \in [1..m -> S] /\ Lists(Sorted(S), S)
  BY SortedLists
<1>2. PICK n \in Nat : Sorted(T) \in [1..n -> T] /\ Lists(Sorted(T), T)
  BY SortedLists
<1>3. m <= n /\ \A i \in 1..m : Sorted(T)[i] = Sorted(S)[i]
  BY <1>1, <1>2, SortedPrefix
<1> DEFINE p == Sorted(S)
           q == Sorted(T)
<1>4. p \in Seq(T) /\ q \in Seq(T)
  <2>1. p \in [1..m -> T] /\ q \in [1..n -> T]
    BY <1>1, <1>2
  <2> HIDE DEF p, q
  <2>2. p \in UNION {[1..k -> T] : k \in Nat} /\ q \in UNION {[1..k -> T] : k \in Nat}
    BY <2>1
  <2>3. QED BY <2>2, SeqDef, Zenon
<1>5. Len(p) = m /\ Len(q) = n
  <2>1. DOMAIN p = 1..m /\ DOMAIN q = 1..n
    BY <1>1, <1>2
  <2> HIDE DEF p, q
  <2>2. /\ 1..Len(p) = 1..m /\ Len(p) \in Nat
        /\ 1..Len(q) = 1..n /\ Len(q) \in Nat
    BY <1>4, <2>1, LenProperties
  <2>3. QED BY <2>2
<1> HIDE DEF p, q
<1>6. SubSeq(p, 1, m) = SubSeq(q, 1, m)
  <2>1. /\ SubSeq(p, 1, m) \in Seq(T) /\ Len(SubSeq(p, 1, m)) = m
        /\ \A i \in 1..m : SubSeq(p, 1, m)[i] = p[i]
    BY <1>4, <1>5, SubSeqProperties
  <2>2. /\ SubSeq(q, 1, m) \in Seq(T) /\ Len(SubSeq(q, 1, m)) = m
        /\ \A i \in 1..m : SubSeq(q, 1, m)[i] = q[i]
    BY <1>3, <1>4, <1>5, SubSeqProperties
  <2>3. \A i \in 1..m : p[i] = q[i]
    BY <1>3 DEF p, q
  <2>4. QED BY <2>1, <2>2, <2>3, SeqEqual
<1>7. QED BY <1>3, <1>5, <1>6 DEF IsPrefix, p, q

\* an element listed belongs to the key and precedes the elements behind it
LEMMA SortedEntries ==
  ASSUME NEW k \in Keys, NEW rows, Listed(Promoted(k, rows))
  PROVE  LET q == Sorted(Promoted(k, rows))
         IN  /\ Ledger!Ascending(q)
             /\ \A n \in DOMAIN q : q[n] \in {e \in Evidence : e.key = k}
<1>1. PICK n \in Nat : LET q == Sorted(Promoted(k, rows))
                       IN  q \in [1..n -> Promoted(k, rows)] /\ Lists(q, Promoted(k, rows))
  BY SortedLists DEF Promoted
<1> DEFINE q == Sorted(Promoted(k, rows))
<1>2. q \in [1..n -> Promoted(k, rows)] /\ Lists(q, Promoted(k, rows))
  BY <1>1
<1> HIDE DEF q
<1>3. Ledger!Ascending(q)
  BY <1>2 DEF Ledger!Ascending, Lists, Precedes
<1>4. \A i \in DOMAIN q : q[i] \in {e \in Evidence : e.key = k}
  BY <1>2 DEF Promoted
<1>5. QED BY <1>3, <1>4 DEF q

\* what a step commits is promoted after, and newer than, what was
LEMMA CommittedGrows ==
  ASSUME IInv, ChainInv, [Next]_vars, NEW k \in Keys
  PROVE  /\ Promoted(k, settled) \subseteq Promoted(k, settled')
         /\ \A e \in Promoted(k, settled), f \in Promoted(k, settled') \ Promoted(k, settled) :
               Precedes(e, f)
<1>1. CASE UNCHANGED settled
  BY <1>1
<1>2. ASSUME NEW s \in Sessions, NEW keep \in BOOLEAN, End(s, keep)
      PROVE  /\ Promoted(k, settled) \subseteq Promoted(k, settled')
             /\ Promoted(k, settled') \subseteq Promoted(k, obs) \cup Promoted(k, settled)
  BY <1>2 DEF Promoted, ChainInv, Guarded, End, Seen
<1>3. Late(k)
  BY DEF ChainInv
<1>4. QED BY <1>1, <1>2, <1>3, OnlyEndsPublish DEF Late, vars, rowVars

LEMMA LedgerInit == Init => Ledger!Init
<1> SUFFICES ASSUME Init PROVE LedgerOf = [k \in Keys |-> <<>>]
  BY DEF Ledger!Init
<1>1. ASSUME NEW k \in Keys PROVE Sorted(Promoted(k, settled)) = <<>>
  <2>1. Listed(Promoted(k, settled))
    BY ChainInit DEF ChainInv
  <2>2. Promoted(k, settled) = {}
    BY DEF Init, Promoted, Unseen
  <2>3. PICK n \in Nat : Sorted({}) \in [1..n -> {}]
    BY <2>1, <2>2, SortedLists
  <2>4. n = 0
    BY <2>3
  <2>5. QED BY <2>2, <2>3, <2>4
<1>2. QED BY <1>1 DEF LedgerOf

LEMMA LedgerStep ==
  ASSUME NothingLoaded, IInv, ChainInv, [Next]_vars
  PROVE  Ledger!Next
<1>1. ChainInv'
  BY ChainNext
<1>2. LedgerOf' = [k \in Keys |-> Sorted(Promoted(k, settled'))]
  BY DEF LedgerOf, Sorted, Lists, Precedes, Promoted
<1>3. ASSUME NEW k \in Keys PROVE Ledger!Extend(k)
  <2>1. Listed(Promoted(k, settled)) /\ Listed(Promoted(k, settled'))
    <3>1. Listed(Promoted(k, settled))'
      BY <1>1 DEF ChainInv
    <3>2. Listed(Promoted(k, settled'))
      BY <3>1 DEF Listed, Lists, Precedes, Promoted
    <3>3. QED BY <3>2 DEF ChainInv
  <2>2. IsPrefix(Sorted(Promoted(k, settled)), Sorted(Promoted(k, settled')))
    <3>1. Promoted(k, settled) \in SUBSET Evidence /\ Promoted(k, settled') \in SUBSET Evidence
      BY DEF Promoted
    <3>2. QED BY <2>1, <3>1, CommittedGrows, SortedExtends
  <2>3. /\ LedgerOf[k] = Sorted(Promoted(k, settled))
        /\ LedgerOf'[k] = Sorted(Promoted(k, settled'))
    BY <1>2 DEF LedgerOf
  <2>4. /\ Ledger!Ascending(Sorted(Promoted(k, settled')))
        /\ \A n \in DOMAIN Sorted(Promoted(k, settled')) :
             Sorted(Promoted(k, settled'))[n] \in {e \in Evidence : e.key = k}
    BY <2>1, SortedEntries
  <2>5. QED BY <2>2, <2>3, <2>4 DEF Ledger!Extend, Ledger!IsPrefix, IsPrefix
<1>4. QED BY <1>2, <1>3 DEF Ledger!Next

(* The promoted evidence of every source order is a ledger that only grows *)
(* at its newer end (order_observations.py:662-938), for any sessions,     *)
(* scripts, versions and evidence, if no caller hands promote an object it *)
(* loaded before.                                                          *)
THEOREM OrdersAreALedger == NothingLoaded /\ Spec => ImplementsLedger
<1> SUFFICES ASSUME NothingLoaded PROVE Spec => ImplementsLedger
  OBVIOUS
<1>1. Init => Ledger!Init
  BY LedgerInit
<1>2. IInv /\ ChainInv /\ [Next]_vars => [Ledger!Next]_LedgerOf
  BY LedgerStep
<1>3. QED BY <1>1, <1>2, Invariance, ChainInvariance, PTL DEF Spec, ImplementsLedger, Ledger!Spec
=============================================================================

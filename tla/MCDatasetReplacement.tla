------------------------ MODULE MCDatasetReplacement ------------------------
(***************************************************************************)
(* Instances of DatasetReplacement for TLC: which requests the sessions    *)
(* receive is the question each configuration asks.                        *)
(***************************************************************************)
EXTENDS DatasetHistory, TLC

CONSTANTS p1, p2, r1, a, b, c, legacy, x, y, none

MCIds == 1..4

\* an id for each of four requests, whatever they insert before they fail
FiveIds == 1..5
MCKeys == {legacy, a, b, c}
MCContents == {x, y}
MCLegacyIdentity == [key |-> legacy, content |-> x]

Ax == [key |-> a, content |-> x]
Ay == [key |-> a, content |-> y]
Bx == [key |-> b, content |-> x]
Cx == [key |-> c, content |-> x]

Ingest(i, ops) == [ops |-> ops, id |-> NoId, ident |-> i]
Cli(op, d) == [ops |-> <<op>>, id |-> d, ident |-> NoIdentity]

\* loads of two bundles (and of a forged copy of the first); every operation
\* of the command line on the ids they can create and on an identity that it
\* ensures, loaded or not; the legacy backfill, and the command line's rollback
\* without a dataset id
LoadAndOperate ==
  {Ingest(i, Append(Loading, "activate")) : i \in {Ax, Bx}}
  \cup {Ingest(i, Loading) : i \in {Ax, Ay}}
  \cup {Cli(op, d) : op \in {"validate", "activate", "rollback"}, d \in 2..3}
  \cup {Ingest(Bx, <<"ensure", op>>) : op \in {"stage", "validate"}}
  \cup {Cli("backfill", NoId), Ingest(NoIdentity, <<"ensure", "rollback">>)}

\* long histories: three bundles, loaded with or without activation
LongHistories ==
  {Ingest(i, Append(Loading, "activate")) : i \in {Bx, Cx}}
  \cup {Ingest(Ax, Loading)}
  \cup {Cli(op, d) : op \in {"activate", "rollback"}, d \in 2..4}

\* one host for everybody, or p2 on a host whose clock is three flushes ahead
SteadyClocks == [p \in Procs |-> 0]
SkewedClocks == [p \in Procs |-> IF p = p2 THEN 3 ELSE 0]

Symmetric == Permutations(Procs)
=============================================================================

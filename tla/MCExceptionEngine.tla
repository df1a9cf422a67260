-------------------------- MODULE MCExceptionEngine --------------------------
(***************************************************************************)
(* Instances of ExceptionEngine for TLC: what the sessions are asked to do *)
(* and which datasets and issues there are is the question of each         *)
(* configuration.                                                          *)
(***************************************************************************)
EXTENDS ExceptionEngine, TLC

CONSTANTS s1, s2, s3, d1, d2, i1, i2, none

OneIssue == <<i1>>
TwoIssues == <<i1, i2>>

\* bootstrap resolves a sample of the type of i1 and dismisses one of i2
NoSamples == <<>>
OneSampled == <<[issues |-> {i1}, path |-> <<"ACKNOWLEDGED", "IN_PROGRESS", "RESOLVED">>]>>
BothSampled == <<[issues |-> {i1}, path |-> <<"ACKNOWLEDGED">>],
                 [issues |-> {i2}, path |-> <<"DISMISSED">>]>>

Symmetric == Permutations(Sessions)
=============================================================================

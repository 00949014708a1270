---------------------------- MODULE MCJobPipeline -----------------------------
(* Instances of JobPipeline for TLC. *)
EXTENDS JobPipeline, TLC

\* With the column default 1 and the limit 2 of the configurations: a maxRetries that is
\* stored as it is, the zero value, one that is refused, and a negative one.
OneRetry == {1}
OneOrNegative == {-1, 1}
ZeroOrTooMany == {0, 3}
AllRetries == {-1, 0, 3}

\* With a grace of 1: scheduled so long ago that the reconciler already looks for the
\* job, now, and later.
Past == {-1}
Immediate == {0}
NowOrLater == {0, 1}

Symmetry == Permutations(Jobs) \cup Permutations(Handlers) \cup Permutations(Consumers)
================================================================================

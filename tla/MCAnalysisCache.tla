--------------------------- MODULE MCAnalysisCache ---------------------------
(* Analyses of a small project that share a cache, compact and not, under  *)
(* two settings, with and without a catalog.                               *)
EXTENDS AnalysisCache, TLC

CONSTANTS s1, s2, t1

MCRequests ==
    {[setting |-> s1, source |-> "disabled", caching |-> TRUE, compact |-> FALSE],
     [setting |-> s1, source |-> "snapshot", caching |-> TRUE, compact |-> TRUE],
     [setting |-> s2, source |-> "snapshot", caching |-> TRUE, compact |-> FALSE],
     [setting |-> s1, source |-> "snapshot", caching |-> TRUE, compact |-> FALSE]}

MCSymmetry == Permutations(Run)

MCTrees == {[f \in 1 .. 2 |-> t1]}
=============================================================================

------------------------- MODULE ShardControllerMC -------------------------
EXTENDS ShardController, Naturals, FiniteSets, TLC

\* There is always an identity for a new cache: every worker and shard refers to one.
ASSUME Enough == Cardinality(Cache) >= Cardinality(Worker) + Cardinality(Id)

CONSTANTS east, west, e1, e2, w1, bad, unset, host1, host2, host3

\* east may be given another baseURL, or one that cannot be parsed; west starts without one.
MCBaseURLs == (east :> {e1, e2, bad} @@ west :> {w1, unset})

\* Each shard has a baseURL or none yet.
MCPlainURLs == (east :> {e1} @@ west :> {w1, unset})

MCHostname == e1 :> host1 @@ e2 :> host2 @@ w1 :> host3

Symmetry == Permutations(Worker)
=============================================================================

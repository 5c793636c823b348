--------------------------- MODULE ShardCachesMC ---------------------------
EXTENDS ShardCaches, Naturals, FiniteSets

\* There is always an identity for a new cache: every caller and shard refers to one.
ASSUME Enough == Cardinality(Cache) >= Cardinality(Caller) + Cardinality(Id)
=============================================================================

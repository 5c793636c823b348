---------------------------- MODULE SarCheckerMC ----------------------------
EXTENDS SarChecker, TLC

CONSTANTS alice, dev, ops

\* The same name with different groups.
MCUser == {[name |-> alice, groups |-> g] : g \in {dev, ops}}

Symmetry == Permutations(Caller) \cup Permutations({dev, ops})
=============================================================================

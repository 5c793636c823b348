----------------------------- MODULE ListingMC ------------------------------
(***************************************************************************)
(* Listing under names that go beside those of the API server, whose lists *)
(* it makes.                                                               *)
(***************************************************************************)
EXTENDS Integers

CONSTANTS Cluster, Path, Name, Body, MaxLen  \* as in Listing

ASSUME Strings == Cluster \cup Path \cup Name \subseteq Nat \ {0}
ASSUME Lengths == MaxLen \in Nat

VARIABLES kind, list, next, byKey, out, shown, rows, pc

Pages == INSTANCE Listing

PagesSpec == Pages!Spec

\* What is shown is what kcp has, each object once and as a whole; kubectl prints the
\* same under the right headers.
ShowsEachOnce == Pages!ShowsEachOnce

\* Neither the order of the shards nor that of a map is visible.
OrderOfShardsUnseen == Pages!OrderOfShardsUnseen
=============================================================================

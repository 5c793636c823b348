--------------------------- MODULE MarketplaceMC ---------------------------
EXTENDS Marketplace

CONSTANTS alice, dev, ops, c1, access

MCUser == {[name |-> alice, groups |-> g] : g \in {dev, ops}}

MCOne == {<<[cluster |-> c1, attrs |-> access]>>}
=============================================================================

-------------------------- MODULE ApiServerMC --------------------------
EXTENDS ApiServer

CONSTANTS alice, dev, frontproxy, other

\* A user with and without the group kcp adds, and one a front-proxy did not know.
MCUser == {[name |-> alice, groups |-> {dev}],
           [name |-> alice, groups |-> {dev, Authenticated}],
           [name |-> Anonymous, groups |-> {Unauthenticated}]}
=============================================================================

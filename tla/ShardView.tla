----------------------------- MODULE ShardView -----------------------------
(***************************************************************************)
(* What pkg/datasource promises to whoever lists through the Reader: a     *)
(* view that offers at most one live source per shard, and a readiness     *)
(* flag that is raised only once the view offered something.               *)
(*                                                                         *)
(* A source is opened out of sight, published once it is live, withdrawn   *)
(* before it is retired, and never swapped for another one in place.       *)
(* Closing ends every source at once; from then on the view may offer what *)
(* no longer runs, until it is withdrawn.                                  *)
(***************************************************************************)

CONSTANTS
    Id,      \* the names a view has room for
    Source,  \* what a name can be served from
    None     \* an empty place of the view

VARIABLES
    view,     \* the source that serves each name
    live,     \* the sources that follow their shard
    ready,    \* the data source reports that it has synced
    closing   \* the data source is shutting down

vars == <<view, live, ready, closing>>

Offered == {view[i] : i \in Id} \ {None}

Init ==
    /\ view = [i \in Id |-> None]
    /\ live = {}
    /\ ready = FALSE
    /\ closing = FALSE

Open(c) ==
    /\ ~closing
    /\ c \notin live \cup Offered
    /\ live' = live \cup {c}
    /\ UNCHANGED <<view, ready, closing>>

Publish(i, c) ==
    /\ view[i] = None
    /\ c \notin Offered
    /\ c \in live \/ closing
    /\ view' = [view EXCEPT ![i] = c]
    /\ UNCHANGED <<live, ready, closing>>

Withdraw(i) ==
    /\ view[i] # None
    /\ view' = [view EXCEPT ![i] = None]
    /\ UNCHANGED <<live, ready, closing>>

Retire(c) ==
    /\ c \in live \ Offered
    /\ live' = live \ {c}
    /\ UNCHANGED <<view, ready, closing>>

MarkReady ==
    /\ ~ready
    /\ Offered # {}
    /\ ready' = TRUE
    /\ UNCHANGED <<view, live, closing>>

Close ==
    /\ ~closing
    /\ closing' = TRUE
    /\ live' = {}
    /\ UNCHANGED <<view, ready>>

Next ==
    \/ \E c \in Source : Open(c) \/ Retire(c)
    \/ \E i \in Id : Withdraw(i) \/ \E c \in Source : Publish(i, c)
    \/ MarkReady
    \/ Close

Spec == Init /\ [][Next]_vars
=============================================================================

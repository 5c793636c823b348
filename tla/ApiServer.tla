------------------------------ MODULE ApiServer ------------------------------
(***************************************************************************)
(* The aggregated API server, from apiserver.New to the answer of a        *)
(* request: the storages are installed and the OpenAPI specification is    *)
(* built (ServedTypes) before the server listens and the handler chain     *)
(* serves (RequestPipeline).  What the chain routes to is what was         *)
(* installed.                                                              *)
(***************************************************************************)
EXTENDS Integers, Sequences

CONSTANTS
    User, CommonName, Anonymous, Loopback, Authenticated, Unauthenticated, Masters, None  \* as in RequestPipeline

\* What a front-proxy says of whom it does not know gives no access.
ASSUME Identities ==
    \A u \in User :
        /\ u = [name |-> u.name, groups |-> u.groups]
        /\ u.name = Anonymous => Authenticated \notin u.groups /\ Masters \notin u.groups
        /\ Unauthenticated \in u.groups => Masters \notin u.groups
ASSUME Groups == Unauthenticated \notin {Authenticated, Masters}

VARIABLES
    pending, todo, stack, built, failed,  \* ServedTypes
    prefix, allowed, req, answer          \* RequestPipeline

typesVars    == <<pending, todo, stack, built, failed>>
pipelineVars == <<prefix, allowed, req, answer>>
vars         == <<typesVars, pipelineVars>>

Served   == INSTANCE ServedTypes
Pipeline == INSTANCE RequestPipeline

ASSUME NoneIsNoPath == None \notin Pipeline!Path

Init == Served!Init /\ Pipeline!Init

\* New, and RunWithContext up to where it listens.
Prepare ==
    /\ Served!Next
    /\ UNCHANGED pipelineVars

\* Fault: requests are served while the storages are installed.
ServeEarly(r) ==
    /\ ~failed
    /\ Pipeline!Handle(r)
    /\ UNCHANGED typesVars

Serve(r) ==
    /\ Served!Built
    /\ Pipeline!Handle(r)
    /\ UNCHANGED typesVars

Next == Prepare \/ \E r \in Pipeline!Request : Serve(r)

Spec == Init /\ [][Next]_vars

-----------------------------------------------------------------------------
(* Properties.  Those of the parts, which hold of the whole.               *)

\* The server starts: every kind is in the scheme, and every type that a route leads to
\* has a definition, in whatever order they are followed.  When it serves, all storages
\* are installed, and the specification describes their lists and items, and whatever
\* its schemas refer to.
ServesWhatIsDescribed ==
    /\ Served!Starts
    /\ Served!NothingDangles
    /\ req # None =>
           \A s \in DOMAIN Served!Storages :
               s \notin pending /\ {Served!Storages[s].new, Served!Storages[s].list} \subseteq built

\* What the specification says of the marketplace's types is what Go encodes.
SchemasMatchTypes == Served!SchemasMatchTypes

\* Nobody but the loopback client and those a trusted front-proxy vouches for gets a
\* list, or anything else but the health paths.
OnlyTheVouchedFor == Pipeline!OnlyTheVouchedFor

\* Health probes are answered, with the prefix or without, whoever asks.
ProbesAnswered == Pipeline!ProbesAnswered

\* The front-proxy's prefix makes no difference to the answer, and counts once.
PrefixUnseen == Pipeline!PrefixUnseen
=============================================================================

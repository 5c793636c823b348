------------------------------- MODULE Server --------------------------------
(***************************************************************************)
(* cmd/marketplace-vws/main.go: run and buildDatasource, from the flags to *)
(* the end of the process, with what it uses of pkg/apiserver (Complete,   *)
(* Validate, New) and of pkg/datasource/manager.go (Start, Synced).        *)
(*                                                                         *)
(* External: the shard manager, whose caches are the subject of            *)
(* ShardCaches, the clients that list, and the generic API server that run *)
(* hands over to.  That one starts the post-start hooks once it listens.   *)
(* After a signal it first fails its readiness check, then accepts no new  *)
(* connections, and ends the context of the hooks with that, while it goes *)
(* on answering the requests it has.                                       *)
(***************************************************************************)
EXTENDS Integers, FiniteSets

CONSTANTS
    Hostname,  \* of the front-proxy and of the gateway
    Client,    \* requests in flight
    NoURL      \* no gateway

\* URLs of the front-proxy and the gateway, as far as the code looks at them: slash is a
\* trailing one.  url.Parse refuses a URL that is not good.
URL  == [host : Hostname, slash : BOOLEAN, good : BOOLEAN]

VARIABLES
    opts,      \* the flags and the kubeconfig
    pc,        \* how far run is
    mode,      \* what the lists are made from
    dials,     \* the rest configs of the clients, once they are built
    gated,     \* the readiness check shards-synced is there
    mgr,       \* the shard manager
    synced,    \* Synced of the manager
    signalled, \* SetupSignalContext's context has ended
    ended,     \* the context of the post-start hooks has ended
    failed,    \* the manager has stopped with an error
    listing    \* the clients whose lists are being answered

startup == <<opts, mode, dials, gated>>
manager == <<mgr, synced, failed>>
vars    == <<startup, manager, pc, signalled, ended, listing>>

\* What url.Hostname, TrimRight and the assignments to a config leave of a URL.
Config(h, slash, root, sni) == [host |-> h, slash |-> slash, root |-> root, sni |-> sni]
NoSNI == "as in the host"

ASSUME Hosts == NoSNI \notin Hostname

TypeOK ==
    /\ opts \in [ca : {"none", "broken", "good"}, kubeconfig : {"none", "broken", "good"},
                 gateway : URL \cup {NoURL}, base : URL]
    /\ pc \in {"flags", "datasource", "server", "hooks", "listen", "serving",
              "unready", "draining", "refusing", "exited"}
    /\ mode \in {"none", "static", "shards"}
    /\ {gated, synced, signalled, ended, failed} \subseteq BOOLEAN
    /\ mode = "shards" <=> DOMAIN dials = {"root", "sar", "shard"}
    /\ mgr \in {"none", "built", "running", "stopped"}
    /\ mgr = "none" <=> mode # "shards"
    /\ listing \subseteq Client

Init ==
    /\ opts \in [ca : {"none", "broken", "good"}, kubeconfig : {"none", "broken", "good"},
                 gateway : URL \cup {NoURL}, base : URL]
    /\ pc = "flags"
    /\ mode = "none" /\ dials = <<>> /\ gated = FALSE
    /\ mgr = "none" /\ synced = FALSE /\ failed = FALSE
    /\ signalled = FALSE /\ ended = FALSE /\ listing = {}

Exit == pc' = "exited" /\ UNCHANGED <<startup, manager, signalled, ended, listing>>

-----------------------------------------------------------------------------
(* run, up to where it hands over.                                         *)

\* Complete may fail to make a certificate, Validate wants the CA of the front-proxy.
OptionsFail == pc = "flags" /\ Exit

OptionsOK ==
    /\ pc = "flags" /\ opts.ca # "none"
    /\ pc' = "datasource"
    /\ UNCHANGED <<startup, manager, signalled, ended, listing>>

Static ==
    /\ pc = "datasource" /\ opts.kubeconfig = "none"
    /\ pc' = "server" /\ mode' = "static"
    /\ UNCHANGED <<opts, dials, gated, manager, signalled, ended, listing>>

\* The kubeconfig, the URL of the front-proxy, the manager or the SAR client.
DatasourceFails ==
    /\ pc = "datasource" /\ opts.kubeconfig # "none"
    /\ Exit

\* Fault: sarCfg is rootCfg, not a copy of base.
DialsShared ==
    IF opts.gateway = NoURL
    THEN LET root == Config(opts.base.host, FALSE, TRUE, NoSNI)
         IN  [root |-> root, sar |-> root, shard |-> Config(opts.base.host, opts.base.slash, FALSE, NoSNI)]
    ELSE LET sar == Config(opts.gateway.host, FALSE, FALSE, opts.base.host)
         IN  [root |-> sar, sar |-> sar, shard |-> Config(opts.base.host, opts.base.slash, FALSE, NoSNI)]

\* Where the clients dial.  All three start as base; base itself is what
\* shardConfig copies for each shard.
Dials ==
    LET base == Config(opts.base.host, opts.base.slash, FALSE, NoSNI)
        via  == Config(opts.gateway.host, FALSE, FALSE, opts.base.host)
    IN  IF opts.gateway = NoURL
        THEN [root |-> [base EXCEPT !.slash = FALSE, !.root = TRUE], sar |-> base, shard |-> base]
        ELSE [root |-> [via EXCEPT !.root = TRUE], sar |-> via, shard |-> base]

\* The manager and the SAR client, or neither.
BuildShards ==
    /\ pc = "datasource" /\ opts.kubeconfig = "good"
    /\ opts.gateway # NoURL => opts.base.good
    /\ pc' = "server" /\ mode' = "shards" /\ mgr' = "built"
    /\ dials' = Dials
    /\ UNCHANGED <<opts, gated, synced, failed, signalled, ended, listing>>

\* apiserver.New reads the CA, builds the handler chain and installs the group.
NewFails == pc = "server" /\ Exit

NewOK ==
    /\ pc = "server" /\ opts.ca = "good"
    /\ pc' = "hooks"
    /\ UNCHANGED <<startup, manager, signalled, ended, listing>>

AddWith(check) ==
    /\ pc = "hooks"
    /\ pc' = "listen" /\ gated' = (check /\ mgr # "none")
    /\ UNCHANGED <<opts, mode, dials, manager, signalled, ended, listing>>

\* Fault: the check is added with the health checks, not with the readiness checks.
AddUngated == AddWith(FALSE)

AddHooks == AddWith(TRUE)

-----------------------------------------------------------------------------
(* The generic API server, the manager, the clients, the signals.          *)

ListenFails == pc = "listen" /\ Exit

Listen ==
    /\ pc = "listen"
    /\ pc' = "serving"
    /\ UNCHANGED <<startup, manager, signalled, ended, listing>>

\* The server runs; requests that come on a connection are answered until it refuses them.
Up == pc \in {"serving", "unready", "draining", "refusing"}

\* A goroutine runs the hook, which starts the manager in another one and returns.
StartManager ==
    /\ Up /\ mgr = "built"
    /\ mgr' = "running"
    /\ UNCHANGED <<startup, pc, synced, failed, signalled, ended, listing>>

\* SetupSignalContext: the first signal ends its context, the second the process.
Signal ==
    /\ pc \notin {"flags", "exited"} /\ ~signalled
    /\ signalled' = TRUE
    /\ UNCHANGED <<startup, manager, pc, ended, listing>>

SecondSignal == signalled /\ pc # "exited" /\ Exit

\* The end of the context that run was given: readyz fails from now on.
ShutdownInitiated ==
    /\ pc = "serving" /\ signalled
    /\ pc' = "unready"
    /\ UNCHANGED <<startup, manager, signalled, ended, listing>>

NotAcceptingNewRequest ==
    /\ pc = "unready"
    /\ pc' = "draining"
    /\ UNCHANGED <<startup, manager, signalled, ended, listing>>

\* Fault: the server waits for the manager before it ends the context that stops it.
StopHooksLast ==
    /\ pc \in {"draining", "refusing"} /\ ~ended
    /\ mgr \notin {"built", "running"}
    /\ ended' = TRUE
    /\ UNCHANGED <<startup, manager, pc, signalled, listing>>

\* Two goroutines wait for that.  One ends the context of listener and hooks: requests in
\* flight would hold it back with ShutdownSendRetryAfter only, which New does not set.
StopHooks ==
    /\ pc \in {"draining", "refusing"} /\ ~ended
    /\ ended' = TRUE
    /\ UNCHANGED <<startup, manager, pc, signalled, listing>>

\* The other one refuses requests on the connections there are, and waits for those in flight.
Refuse ==
    /\ pc = "draining"
    /\ pc' = "refusing"
    /\ UNCHANGED <<startup, manager, signalled, ended, listing>>

\* The listener is closed and the requests have been answered.  Nobody waits for the manager.
RunReturns == pc = "refusing" /\ ended /\ listing = {} /\ Exit

\* Fault: the manager runs on the signal's context instead of the hook's.
ManagerStopsOnSignal ==
    /\ mgr = "running" /\ pc # "exited" /\ signalled
    /\ mgr' = "stopped"
    /\ UNCHANGED <<startup, pc, synced, failed, signalled, ended, listing>>

\* Also while a list is made from its caches, which the sweep of ShardCaches takes away.
ManagerStops ==
    /\ mgr = "running" /\ pc # "exited" /\ ended
    /\ mgr' = "stopped"
    /\ UNCHANGED <<startup, pc, synced, failed, signalled, ended, listing>>

\* Start returns an error: it is logged, and the server goes on.
ManagerFails ==
    /\ mgr = "running" /\ pc # "exited"
    /\ mgr' = "stopped" /\ failed' = TRUE
    /\ UNCHANGED <<startup, pc, synced, signalled, ended, listing>>

\* The first cache of a shard has synced: firstSynced is closed, for good.
ShardSyncs ==
    /\ mgr = "running" /\ pc # "exited" /\ ~synced
    /\ synced' = TRUE
    /\ UNCHANGED <<startup, pc, mgr, failed, signalled, ended, listing>>

ListStarts(c) ==
    /\ pc \in {"serving", "unready", "draining"} /\ c \notin listing
    /\ listing' = listing \cup {c}
    /\ UNCHANGED <<startup, manager, pc, signalled, ended>>

ListEnds(c) ==
    /\ Up /\ c \in listing
    /\ listing' = listing \ {c}
    /\ UNCHANGED <<startup, manager, pc, signalled, ended>>

Run ==
    \/ OptionsFail \/ OptionsOK
    \/ Static \/ DatasourceFails \/ BuildShards
    \/ NewFails \/ NewOK \/ AddHooks
    \/ ListenFails \/ Listen
    \/ ShutdownInitiated \/ NotAcceptingNewRequest \/ StopHooks \/ Refuse \/ RunReturns

Next ==
    \/ Run
    \/ Signal \/ SecondSignal
    \/ StartManager \/ ManagerStops \/ ManagerFails \/ ShardSyncs
    \/ \E c \in Client : ListStarts(c) \/ ListEnds(c)

Spec == Init /\ [][Next]_vars

\* run goes on, and a request is answered: the API server ends it at its deadline.
FairSpec == Spec /\ WF_vars(Run) /\ \A c \in Client : WF_vars(ListEnds(c))

-----------------------------------------------------------------------------
(* Properties.                                                             *)

\* readyz answers 200: the server serves, its hook has run, and its checks pass.
Ready == pc = "serving" /\ mgr # "built" /\ (gated => synced)

\* "its lifetime is bound to the server, and gate readiness on the first shard cache
\* syncing": while a server with shards reports ready, one of them has synced and the
\* manager follows them.  A signal stops the manager only after readiness has gone, though
\* not after the lists in flight; and only the manager's own failure stops it unnoticed.
ReadyMeansLive == Ready /\ mode = "shards" => synced /\ (mgr = "running" \/ failed)

\* "dial the gateway and present the front-proxy hostname as SNI": both clients of the
\* front-proxy reach it, only the watch of Shards in the root workspace, reviews at the
\* bare origin, and base still is what the kubeconfig says when it is copied for shards.
DialsFrontProxy ==
    mode = "shards" =>
        /\ \A k \in {"root", "sar"} :
               LET sni == IF dials[k].sni = NoSNI THEN dials[k].host ELSE dials[k].sni
               IN  /\ sni = opts.base.host
                   /\ dials[k].host = IF opts.gateway = NoURL THEN opts.base.host ELSE opts.gateway.host
                   /\ dials[k].root <=> k = "root"
                   /\ dials[k].root => ~dials[k].slash
        /\ dials["shard"] = Config(opts.base.host, opts.base.slash, FALSE, NoSNI)

\* A signal ends the process, at whatever point of the start it comes, and whatever the
\* manager does.
SignalEndsProcess == signalled ~> pc = "exited"
=============================================================================

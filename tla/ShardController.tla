-------------------------- MODULE ShardController --------------------------
(***************************************************************************)
(* pkg/datasource/shardcontroller.go and manager.go: the controller that   *)
(* follows the Shard objects of the root workspace and calls ensure and    *)
(* remove of ShardCaches for them.                                         *)
(*                                                                         *)
(* The informer store, the work queue and the workers are those of         *)
(* controller-runtime.  NewManager sets no MaxConcurrentReconciles, so the *)
(* program has one worker; the module allows any number.  An event is      *)
(* added to the queue in the step that changes the store: a notification   *)
(* on its way differs from a dirty name nobody has taken yet only by a     *)
(* reconcile more.                                                         *)
(***************************************************************************)
CONSTANTS
    Id,          \* shard names
    Worker,      \* goroutines that reconcile
    Cache,       \* identities of wildcard caches
    URL,         \* values of spec.baseURL
    BaseURLs,    \* those that each shard's object is given over time
    Unset,       \* the empty spec.baseURL
    Unparsable,  \* the baseURLs that url.Parse rejects
    Hostname,    \* what u.Hostname() returns for each other baseURL
    Gateway,     \* the --gateway-url flag, None when it is not set
    Starter,     \* the goroutine that runs ShardCaches.Start
    None

ASSUME URLs ==
    /\ BaseURLs \in [Id -> SUBSET URL]
    /\ Unparsable \subseteq URL \ {Unset}
    /\ Gateway \notin URL

VARIABLES
    shard,  \* the informer store: each shard's baseURL, None if it has no Shard object
    dirty,  \* names in the work queue
    cur,    \* the name each worker reconciles
    phase   \* how far it has come: before Get, inside ensure or remove

\* The variables of ShardCaches.
VARIABLES startPC, done, mu, active, agg, firstSynced, open, synced, dial,
          pc, id, cfg, wc, ret

queueVars == <<dirty, cur, phase>>
cacheVars == <<startPC, done, mu, active, agg, firstSynced, open, synced, dial,
               pc, id, cfg, wc, ret>>
vars      == <<shard, queueVars, cacheVars>>

-----------------------------------------------------------------------------
(* shardConfig.                                                            *)

\* Fault: the connection to the gateway does not name the shard it is for.
ShardConfigWithoutSNI(u) ==
    [host |-> IF Gateway = None THEN u ELSE Gateway, serverName |-> None]

ShardConfig(u) ==
    IF Gateway = None
    THEN [host |-> u, serverName |-> None]
    ELSE [host |-> Gateway, serverName |-> Hostname[u]]

\* Without a gateway the baseURL is not parsed.
Usable(u) == u # Unset /\ (Gateway = None \/ u \notin Unparsable)

Config == {ShardConfig(u) : u \in {v \in URL : Usable(v)}}

ASSUME Names ==
    /\ None \notin Id \cup Worker \cup URL \cup Cache \cup Config \cup {Starter}
    /\ Starter \notin Worker

Caches == INSTANCE ShardCaches WITH Caller <- Worker, Cfg <- Config

-----------------------------------------------------------------------------

Stores == {s \in [Id -> URL \cup {None}] : \A i \in Id : s[i] \in BaseURLs[i] \cup {None}}

\* A worker has a name exactly while it reconciles it.
TypeOK ==
    /\ shard \in Stores
    /\ dirty \in SUBSET Id
    /\ cur \in [Worker -> Id \cup {None}]
    /\ phase \in [Worker -> {"idle", "get", "call"}]
    /\ \A w \in Worker : cur[w] = None <=> phase[w] = "idle"

\* The first list of the informer puts every shard it finds into the queue.
Init ==
    /\ shard \in Stores
    /\ dirty = {i \in Id : shard[i] # None}
    /\ cur = [w \in Worker |-> None]
    /\ phase = [w \in Worker |-> "idle"]
    /\ Caches!Init

\* A Shard object is created, or its baseURL is changed.
Apply(i, u) ==
    /\ shard[i] # u
    /\ shard' = [shard EXCEPT ![i] = u]
    /\ dirty' = dirty \cup {i}
    /\ UNCHANGED <<cur, phase, cacheVars>>

Delete(i) ==
    /\ shard[i] # None
    /\ shard' = [shard EXCEPT ![i] = None]
    /\ dirty' = dirty \cup {i}
    /\ UNCHANGED <<cur, phase, cacheVars>>

\* Fault: the queue hands out a name that another worker still has.
TakeShared(w, i) ==
    /\ ~done
    /\ cur[w] = None
    /\ i \in dirty
    /\ dirty' = dirty \ {i}
    /\ cur' = [cur EXCEPT ![w] = i]
    /\ phase' = [phase EXCEPT ![w] = "get"]
    /\ UNCHANGED <<shard, cacheVars>>

\* The queue hands a name to one worker at a time, and is shut down with the manager.
Take(w, i) ==
    /\ ~done
    /\ cur[w] = None
    /\ i \in dirty
    /\ \A v \in Worker : cur[v] # i
    /\ dirty' = dirty \ {i}
    /\ cur' = [cur EXCEPT ![w] = i]
    /\ phase' = [phase EXCEPT ![w] = "get"]
    /\ UNCHANGED <<shard, cacheVars>>

\* Fault: the worker never tells the queue that it is done with the name.
FinishKeepsName(w) ==
    /\ phase' = [phase EXCEPT ![w] = "idle"]
    /\ UNCHANGED cur

Finish(w) ==
    /\ cur' = [cur EXCEPT ![w] = None]
    /\ phase' = [phase EXCEPT ![w] = "idle"]

\* Reconcile returns an error: the name goes back into the queue.
Requeue(w) ==
    /\ Finish(w)
    /\ dirty' = dirty \cup {cur[w]}

\* Get answers an error other than NotFound.
GetFails(w) ==
    /\ phase[w] = "get"
    /\ Requeue(w)
    /\ UNCHANGED <<shard, cacheVars>>

\* Fault: a shard that is gone is skipped.
GetNotFoundIgnored(w) ==
    /\ phase[w] = "get"
    /\ shard[cur[w]] = None
    /\ Finish(w)
    /\ UNCHANGED <<shard, dirty, cacheVars>>

GetNotFound(w) ==
    /\ phase[w] = "get"
    /\ shard[cur[w]] = None
    /\ phase' = [phase EXCEPT ![w] = "call"]
    /\ Caches!CallRemove(w, cur[w])
    /\ UNCHANGED <<shard, dirty, cur>>

GetUnusable(w) ==
    /\ phase[w] = "get"
    /\ shard[cur[w]] # None
    /\ ~Usable(shard[cur[w]])
    /\ Requeue(w)
    /\ UNCHANGED <<shard, cacheVars>>

GetUsable(w) ==
    /\ phase[w] = "get"
    /\ shard[cur[w]] # None
    /\ Usable(shard[cur[w]])
    /\ phase' = [phase EXCEPT ![w] = "call"]
    /\ Caches!CallEnsure(w, cur[w], ShardConfig(shard[cur[w]]))
    /\ UNCHANGED <<shard, dirty, cur>>

Called(w) == phase[w] = "call" /\ pc[w] = "idle"

CallOK(w) ==
    /\ Called(w)
    /\ ret[w] = "ok"
    /\ Finish(w)
    /\ UNCHANGED <<shard, dirty, cacheVars>>

\* Fault: an error of ensure is logged and not returned.
CallFailedDropped(w) ==
    /\ Called(w)
    /\ ret[w] = "err"
    /\ Finish(w)
    /\ UNCHANGED <<shard, dirty, cacheVars>>

CallFailed(w) ==
    /\ Called(w)
    /\ ret[w] = "err"
    /\ Requeue(w)
    /\ UNCHANGED <<shard, cacheVars>>

\* ShardCaches runs under the manager, and inside the calls of the workers.
CachesStep ==
    /\ Caches!Lifecycle \/ \E w \in Worker : Caches!CallStep(w)
    /\ UNCHANGED <<shard, queueVars>>

WorkerStep(w) ==
    \/ \E i \in Id : Take(w, i)
    \/ GetFails(w)
    \/ GetNotFound(w)
    \/ GetUnusable(w)
    \/ GetUsable(w)
    \/ CallOK(w)
    \/ CallFailed(w)

Next ==
    \/ \E i \in Id : Delete(i) \/ \E u \in BaseURLs[i] : Apply(i, u)
    \/ \E w \in Worker : WorkerStep(w)
    \/ CachesStep

Spec == Init /\ [][Next]_vars

-----------------------------------------------------------------------------
(* Fairness.  The workers run, every dirty name is taken from the queue in *)
(* its turn, and a read of the informer store succeeds now and then.  What *)
(* happens to the Shard objects, and when the manager ends, is left open.  *)

\* Get of w for shard i answers what the informer store holds.
GetAnswers(w, i) == cur[w] = i /\ (GetNotFound(w) \/ GetUnusable(w) \/ GetUsable(w))

FairSpec ==
    /\ Spec
    /\ Caches!Fairness
    /\ \A i \in Id : SF_vars(\E w \in Worker : Take(w, i))
    /\ \A w \in Worker :
         /\ WF_vars(phase[w] = "get" /\ WorkerStep(w))
         /\ WF_vars(CallOK(w) \/ CallFailed(w))
         /\ \A i \in Id : SF_vars(GetAnswers(w, i))

\* Shards that answer: building and syncing a cache succeeds now and then.
ShardsAnswer ==
    \A w \in Worker, i \in Id :
        /\ SF_vars(cur[w] = i /\ Caches!Build(w) /\ UNCHANGED <<shard, queueVars>>)
        /\ SF_vars(cur[w] = i /\ Caches!SyncOK(w) /\ UNCHANGED <<shard, queueVars>>)

-----------------------------------------------------------------------------
(* Properties.                                                             *)

Settled(i) == ~done /\ i \notin dirty /\ \A w \in Worker : cur[w] # i

\* No event is lost, whatever fails or changes while a reconcile is under way:
\* a shard the controller has nothing left to do for has a cache exactly if its
\* Shard object exists.
SettledMatchesShards ==
    \A i \in Id : Settled(i) => (active[i] # None <=> shard[i] # None)

\* A registered cache dials its own shard, never another one: at one of that
\* shard's baseURLs, or through the gateway with the hostname of one as SNI.
DialsOwnShard ==
    \A i \in Id : agg[i] # None =>
        \E u \in BaseURLs[i] \ {Unset} :
            IF Gateway = None
            THEN dial[agg[i]].host = u
            ELSE /\ u \notin Unparsable
                 /\ dial[agg[i]] = [host |-> Gateway, serverName |-> Hostname[u]]

\* Two ensures of the same shard never run at once, so the branch of ensure that
\* drops the cache of a lost race is out of the controller's reach.
NoLostRace ==
    \A w \in Worker : pc[w] = "commit" => active[id[w]] = None

\* "each shard is dialed at its own spec.baseURL": once the controller has
\* settled, the cache of a shard was built from the baseURL the shard now has.
DialsCurrentBaseURL ==
    \A i \in Id :
        Settled(i) /\ agg[i] # None => dial[agg[i]] = ShardConfig(shard[i])

\* The cache of a deleted shard is withdrawn, unless all workers end up waiting
\* for shards that never finish their initial sync: ensure has no timeout.
DeletedIsWithdrawn ==
    ([]<>(\E w \in Worker : pc[w] # "sync")) =>
        \A i \in Id : shard[i] = None ~> (agg[i] = None \/ shard[i] # None \/ done)

\* If shards answer now and then, a shard with a usable baseURL is registered after
\* whatever failures, and the data source reports that it has synced.
UsableIsRegistered ==
    ShardsAnswer =>
        \A i \in Id :
            (shard[i] # None /\ Usable(shard[i])) ~>
                \/ agg[i] # None /\ firstSynced
                \/ shard[i] = None \/ ~Usable(shard[i])
                \/ done
=============================================================================

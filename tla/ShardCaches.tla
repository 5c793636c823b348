---------------------------- MODULE ShardCaches ----------------------------
(***************************************************************************)
(* pkg/datasource/shardcaches.go: the ShardCaches type, which keeps one    *)
(* wildcard cache per kcp shard and registers it on the aggregate cache    *)
(* that the readers list from.                                             *)
(*                                                                         *)
(* Several goroutines may be inside ensure and remove at once; the mutex   *)
(* s.mu is released while a new cache syncs.  The aggregate cache has its  *)
(* own lock, so a reader sees agg in every state, also in the middle of a  *)
(* critical section of s.mu.  A critical section that touches agg is       *)
(* therefore two steps, one that does not is a single step.                *)
(***************************************************************************)

CONSTANTS
    Id,       \* shard names
    Caller,   \* goroutines that call ensure and remove
    Cache,    \* identities of wildcard caches; one that nobody refers to is reused
    Cfg,      \* rest.Configs a shard can be dialed with
    Starter,  \* the goroutine that runs Start
    None      \* no cache, no shard, no config, or an unlocked mutex

ASSUME Distinct ==
    /\ None \notin Id \cup Caller \cup Cache \cup Cfg \cup {Starter}
    /\ Starter \notin Caller

VARIABLES
    startPC,      \* how far Start has come
    done,         \* the manager context is cancelled
    mu,           \* holder of s.mu
    active,       \* s.active: the cache whose cancel func is kept for a shard
    agg,          \* s.agg: the cache registered for a shard
    firstSynced,  \* s.firstSynced
    open,         \* caches whose own context is not cancelled
    synced,       \* caches that completed their initial sync
    dial,         \* the config a cache was built with
    pc, id, cfg, wc, ret   \* each caller's place, arguments, new cache and last result

startVars == <<startPC, done>>
tables    == <<active, agg, firstSynced>>
cacheVars == <<open, synced, dial>>
callVars  == <<pc, id, cfg, wc, ret>>
vars      == <<startVars, mu, tables, cacheVars, callVars>>

\* The places of an ensure that Start has let pass, and of one that holds a new cache.
PastBase == {"check", "build", "sync", "commit", "publish"}
HasCache == {"sync", "commit", "publish"}

\* Type correctness, nil included: an ensure derives no context from s.baseCtx
\* before Start has set it, and has a cache exactly while it syncs or commits it.
TypeOK ==
    /\ startPC \in {"new", "serving", "sweeping", "returned"}
    /\ done \in BOOLEAN
    /\ mu \in Caller \cup {Starter, None}
    /\ active \in [Id -> Cache \cup {None}]
    /\ agg \in [Id -> Cache \cup {None}]
    /\ firstSynced \in BOOLEAN
    /\ open \in SUBSET Cache
    /\ synced \in SUBSET Cache
    /\ dial \in [Cache -> Cfg \cup {None}]
    /\ pc \in [Caller -> {"idle", "await", "check", "build", "sync",
                          "commit", "publish", "remove", "stop"}]
    /\ id \in [Caller -> Id \cup {None}]
    /\ cfg \in [Caller -> Cfg \cup {None}]
    /\ wc \in [Caller -> Cache \cup {None}]
    /\ ret \in [Caller -> {"none", "ok", "err"}]
    /\ \A p \in Caller : pc[p] \in PastBase => startPC # "new"
    /\ \A p \in Caller : wc[p] # None <=> pc[p] \in HasCache

Init ==
    /\ startPC = "new"
    /\ done = FALSE
    /\ mu = None
    /\ active = [i \in Id |-> None]
    /\ agg = [i \in Id |-> None]
    /\ firstSynced = FALSE
    /\ open = {}
    /\ synced = {}
    /\ dial = [c \in Cache |-> None]
    /\ pc = [p \in Caller |-> "idle"]
    /\ id = [p \in Caller |-> None]
    /\ cfg = [p \in Caller |-> None]
    /\ wc = [p \in Caller |-> None]
    /\ ret = [p \in Caller |-> "none"]

-----------------------------------------------------------------------------
(* Start, and the cancellation of the manager context it was given.        *)

\* s.started is a channel that Start closes.
Started == startPC # "new"

Start ==
    /\ startPC = "new"
    /\ mu = None
    /\ startPC' = "serving"
    /\ UNCHANGED <<done, mu, tables, cacheVars, callVars>>

\* Every cache context is a child of the manager context and ends with it.
CancelBase ==
    /\ ~done
    /\ done' = TRUE
    /\ open' = {}
    /\ UNCHANGED <<startPC, mu, tables, synced, dial, callVars>>

BeginSweep ==
    /\ startPC = "serving"
    /\ done
    /\ mu = None
    /\ startPC' = "sweeping"
    /\ mu' = Starter
    /\ UNCHANGED <<done, tables, cacheVars, callVars>>

\* cancel() of the cache c, which nothing refers to after the step.
Cancel(c) ==
    /\ open' = open \ {c}
    /\ synced' = synced \ {c}
    /\ dial' = [dial EXCEPT ![c] = None]

\* Fault: the sweep stops the caches and forgets delete(s.active, id).
SweepKeepsEntry(i) ==
    /\ startPC = "sweeping"
    /\ active[i] # None
    /\ agg' = [agg EXCEPT ![i] = None]
    /\ Cancel(active[i])
    /\ UNCHANGED <<startVars, mu, active, firstSynced, callVars>>

Sweep(i) ==
    /\ startPC = "sweeping"
    /\ active[i] # None
    /\ agg' = [agg EXCEPT ![i] = None]
    /\ Cancel(active[i])
    /\ active' = [active EXCEPT ![i] = None]
    /\ UNCHANGED <<startVars, mu, firstSynced, callVars>>

EndSweep ==
    /\ startPC = "sweeping"
    /\ \A i \in Id : active[i] = None
    /\ startPC' = "returned"
    /\ mu' = None
    /\ UNCHANGED <<done, tables, cacheVars, callVars>>

-----------------------------------------------------------------------------
(* Calls.                                                                  *)

Return(p, r) ==
    /\ pc' = [pc EXCEPT ![p] = "idle"]
    /\ ret' = [ret EXCEPT ![p] = r]
    /\ id' = [id EXCEPT ![p] = None]
    /\ cfg' = [cfg EXCEPT ![p] = None]
    /\ wc' = [wc EXCEPT ![p] = None]

Goto(p, l) ==
    /\ pc' = [pc EXCEPT ![p] = l]
    /\ UNCHANGED <<id, cfg, wc, ret>>

CallEnsure(p, i, d) ==
    /\ pc[p] = "idle"
    /\ pc' = [pc EXCEPT ![p] = "await"]
    /\ id' = [id EXCEPT ![p] = i]
    /\ cfg' = [cfg EXCEPT ![p] = d]
    /\ ret' = [ret EXCEPT ![p] = "none"]
    /\ UNCHANGED <<startVars, mu, tables, cacheVars, wc>>

\* Fault: ensure does not wait for Start.
AwaitNothing(p) ==
    /\ pc[p] = "await"
    /\ Goto(p, "check")
    /\ UNCHANGED <<startVars, mu, tables, cacheVars>>

\* The two ready cases of the select: Start has run, or the call's context is done.
AwaitStarted(p) ==
    /\ pc[p] = "await"
    /\ Started
    /\ Goto(p, "check")
    /\ UNCHANGED <<startVars, mu, tables, cacheVars>>

AwaitCancelled(p) ==
    /\ pc[p] = "await"
    /\ done
    /\ Return(p, "err")
    /\ UNCHANGED <<startVars, mu, tables, cacheVars>>

FindExisting(p) ==
    /\ pc[p] = "check"
    /\ mu = None
    /\ active[id[p]] # None
    /\ Return(p, "ok")
    /\ UNCHANGED <<startVars, mu, tables, cacheVars>>

\* Fault: no second look at s.active is needed if the first one keeps the lock.
FindMissingKeepsLock(p) ==
    /\ pc[p] = "check"
    /\ mu = None
    /\ active[id[p]] = None
    /\ mu' = p
    /\ Goto(p, "build")
    /\ UNCHANGED <<startVars, tables, cacheVars>>

FindMissing(p) ==
    /\ pc[p] = "check"
    /\ mu = None
    /\ active[id[p]] = None
    /\ Goto(p, "build")
    /\ UNCHANGED <<startVars, mu, tables, cacheVars>>

BuildFails(p) ==
    /\ pc[p] = "build"
    /\ Return(p, "err")
    /\ UNCHANGED <<startVars, mu, tables, cacheVars>>

\* No variable refers to c: a pool of identities stands for the allocator.
Fresh(c) ==
    /\ c \notin open \cup synced
    /\ \A i \in Id : active[i] # c /\ agg[i] # c
    /\ \A p \in Caller : wc[p] # c

FreshCache == CHOOSE c \in Cache : Fresh(c)

\* Fault: the cache context is not derived from the manager context.
BuildDetached(p) ==
    /\ pc[p] = "build"
    /\ \E c \in Cache : Fresh(c)
    /\ wc' = [wc EXCEPT ![p] = FreshCache]
    /\ open' = open \cup {FreshCache}
    /\ dial' = [dial EXCEPT ![FreshCache] = cfg[p]]
    /\ pc' = [pc EXCEPT ![p] = "sync"]
    /\ UNCHANGED <<startVars, mu, tables, synced, id, cfg, ret>>

\* context.WithCancel of a cancelled parent returns a cancelled context.
Build(p) ==
    /\ pc[p] = "build"
    /\ \E c \in Cache : Fresh(c)
    /\ wc' = [wc EXCEPT ![p] = FreshCache]
    /\ open' = IF done THEN open ELSE open \cup {FreshCache}
    /\ dial' = [dial EXCEPT ![FreshCache] = cfg[p]]
    /\ pc' = [pc EXCEPT ![p] = "sync"]
    /\ UNCHANGED <<startVars, mu, tables, synced, id, cfg, ret>>

\* WaitForCacheSync answers true: only a cache whose context still runs syncs.
SyncOK(p) ==
    /\ pc[p] = "sync"
    /\ wc[p] \in open
    /\ synced' = synced \cup {wc[p]}
    /\ Goto(p, "commit")
    /\ UNCHANGED <<startVars, mu, tables, open, dial>>

\* Fault: the answer of WaitForCacheSync is ignored.
SyncFailsIgnored(p) ==
    /\ pc[p] = "sync"
    /\ Goto(p, "commit")
    /\ UNCHANGED <<startVars, mu, tables, cacheVars>>

SyncFails(p) ==
    /\ pc[p] = "sync"
    /\ Cancel(wc[p])
    /\ Return(p, "err")
    /\ UNCHANGED <<startVars, mu, tables>>

\* Fault: the loser returns without cancelling the context of its cache.
LoseRaceLeaks(p) ==
    /\ pc[p] = "commit"
    /\ mu = None
    /\ active[id[p]] # None
    /\ Return(p, "ok")
    /\ UNCHANGED <<startVars, mu, tables, cacheVars>>

\* Another caller registered a cache meanwhile: keep it, drop the new one.
LoseRace(p) ==
    /\ pc[p] = "commit"
    /\ mu = None
    /\ active[id[p]] # None
    /\ Cancel(wc[p])
    /\ Return(p, "ok")
    /\ UNCHANGED <<startVars, mu, tables>>

\* Fault: the second look at s.active is missing.
RegisterUnchecked(p) ==
    /\ pc[p] = "commit"
    /\ mu = None
    /\ mu' = p
    /\ agg' = [agg EXCEPT ![id[p]] = wc[p]]
    /\ Goto(p, "publish")
    /\ UNCHANGED <<startVars, active, firstSynced, cacheVars>>

Register(p) ==
    /\ pc[p] = "commit"
    /\ mu = None
    /\ active[id[p]] = None
    /\ mu' = p
    /\ agg' = [agg EXCEPT ![id[p]] = wc[p]]
    /\ Goto(p, "publish")
    /\ UNCHANGED <<startVars, active, firstSynced, cacheVars>>

Publish(p) ==
    /\ pc[p] = "publish"
    /\ active' = [active EXCEPT ![id[p]] = wc[p]]
    /\ firstSynced' = TRUE
    /\ mu' = None
    /\ Return(p, "ok")
    /\ UNCHANGED <<startVars, agg, cacheVars>>

CallRemove(p, i) ==
    /\ pc[p] = "idle"
    /\ pc' = [pc EXCEPT ![p] = "remove"]
    /\ id' = [id EXCEPT ![p] = i]
    /\ ret' = [ret EXCEPT ![p] = "none"]
    /\ UNCHANGED <<startVars, mu, tables, cacheVars, cfg, wc>>

RemoveAbsent(p) ==
    /\ pc[p] = "remove"
    /\ mu = None
    /\ active[id[p]] = None
    /\ Return(p, "ok")
    /\ UNCHANGED <<startVars, mu, tables, cacheVars>>

\* Fault: the cache is stopped before it is taken out of the aggregate.
UnregisterAfterCancel(p) ==
    /\ pc[p] = "remove"
    /\ mu = None
    /\ active[id[p]] # None
    /\ mu' = p
    /\ Cancel(active[id[p]])
    /\ Goto(p, "stop")
    /\ UNCHANGED <<startVars, tables>>

\* Fault: remove stops the cache and forgets to unregister it.
UnregisterNothing(p) ==
    /\ pc[p] = "remove"
    /\ mu = None
    /\ active[id[p]] # None
    /\ mu' = p
    /\ Goto(p, "stop")
    /\ UNCHANGED <<startVars, tables, cacheVars>>

Unregister(p) ==
    /\ pc[p] = "remove"
    /\ mu = None
    /\ active[id[p]] # None
    /\ mu' = p
    /\ agg' = [agg EXCEPT ![id[p]] = None]
    /\ Goto(p, "stop")
    /\ UNCHANGED <<startVars, active, firstSynced, cacheVars>>

Stop(p) ==
    /\ pc[p] = "stop"
    /\ Cancel(active[id[p]])
    /\ active' = [active EXCEPT ![id[p]] = None]
    /\ mu' = None
    /\ Return(p, "ok")
    /\ UNCHANGED <<startVars, agg, firstSynced>>

-----------------------------------------------------------------------------

Lifecycle ==
    \/ Start
    \/ CancelBase
    \/ BeginSweep
    \/ \E i \in Id : Sweep(i)
    \/ EndSweep

\* The steps a call takes once it is made.
CallStep(p) ==
    \/ AwaitStarted(p)
    \/ AwaitCancelled(p)
    \/ FindExisting(p)
    \/ FindMissing(p)
    \/ BuildFails(p)
    \/ Build(p)
    \/ SyncOK(p)
    \/ SyncFails(p)
    \/ LoseRace(p)
    \/ Register(p)
    \/ Publish(p)
    \/ RemoveAbsent(p)
    \/ Unregister(p)
    \/ Stop(p)

Next ==
    \/ Lifecycle
    \/ \E p \in Caller :
         \/ \E i \in Id, d \in Cfg : CallEnsure(p, i, d)
         \/ \E i \in Id : CallRemove(p, i)
         \/ CallStep(p)

Spec == Init /\ [][Next]_vars

-----------------------------------------------------------------------------
(* Fairness.  The goroutines of a program whose machine is not stalled     *)
(* keep running, and sync.Mutex hands itself to a goroutine that has       *)
(* waited for a millisecond, so taking the lock is strongly fair.  Nothing *)
(* is assumed of the shards: WaitForCacheSync has no timeout, and a shard  *)
(* that never answers is only left when the cache context ends.  Nothing   *)
(* makes a caller call either.                                             *)

\* WaitForCacheSync sees the end of the context it was given.
SyncCancelled(p) == wc[p] \notin open /\ SyncFails(p)

Fairness ==
    /\ WF_vars(Start)
    /\ SF_vars(BeginSweep)
    /\ WF_vars(EndSweep \/ \E i \in Id : Sweep(i))
    /\ \A p \in Caller :
         /\ WF_vars(AwaitStarted(p) \/ AwaitCancelled(p))
         /\ SF_vars(FindExisting(p) \/ FindMissing(p))
         /\ WF_vars(BuildFails(p) \/ Build(p))
         /\ WF_vars(SyncCancelled(p))
         /\ SF_vars(LoseRace(p) \/ Register(p))
         /\ WF_vars(Publish(p))
         /\ SF_vars(RemoveAbsent(p) \/ Unregister(p))
         /\ WF_vars(Stop(p))

FairSpec == Spec /\ Fairness

-----------------------------------------------------------------------------
(* Properties.                                                             *)

\* A reader of the aggregate, who does not take s.mu, finds only caches that
\* completed their initial sync and, until shutdown, still run: AddCache comes
\* after WaitForCacheSync, RemoveCache before cancel.
ReadersSeeLiveCaches ==
    \A i \in Id : agg[i] # None => agg[i] \in synced /\ (done \/ agg[i] \in open)

\* No cache runs on without an owner that can stop it, whatever the order of
\* lost races, failed syncs, removals and shutdown: a running cache is in
\* s.active or held by an ensure in flight, and shutdown leaves none running.
NoOrphanCache ==
    /\ \A c \in open : (\E i \in Id : active[i] = c) \/ (\E p \in Caller : wc[p] = c)
    /\ done => open = {}

\* Outside the critical sections the aggregate offers exactly the caches whose
\* cancel functions s.active keeps, so remove and Start find all of them.
AggregateMatchesActive == mu = None => agg = active

\* Concurrent ensures of a shard never replace the cache that readers use: a
\* registered cache stays registered until it is removed.
RegisteredIsKept ==
    [][\A i \in Id : agg[i] # None => agg'[i] \in {agg[i], None}]_vars

\* Every call of ensure and remove returns, unless it is an ensure whose shard never
\* finishes its initial sync; once the manager context is cancelled that one returns as
\* well, and so does Start, also when calls are in flight.
CallsReturn ==
    /\ \A p \in Caller :
           pc[p] # "idle" ~> (pc[p] = "idle" \/ (pc[p] = "sync" /\ ~done))
    /\ done ~> startPC = "returned"

\* Readers of the aggregate get what ShardView promises them.
View == INSTANCE ShardView
            WITH Source <- Cache, view <- agg, live <- open,
                 ready <- firstSynced, closing <- done

ImplementsShardView == View!Spec
=============================================================================

----------------------- MODULE ShardControllerProofs -----------------------
(***************************************************************************)
(* Proofs about ShardController, for any shards, baseURLs and workers.     *)
(*                                                                         *)
(* The controller only takes steps of ShardCaches, so what is proved there *)
(* holds here.  On top of that, Following relates the queue, the calls in  *)
(* flight and the informer store: it is what makes SettledMatchesShards    *)
(* inductive.                                                              *)
(***************************************************************************)
EXTENDS ShardController, TLAPS

SCP == INSTANCE ShardCachesProofs WITH Caller <- Worker, Cfg <- Config

LEMMA CachesAssumption == SCP!Distinct
  BY Names DEF SCP!Distinct

-----------------------------------------------------------------------------
(* Every behaviour of the controller is one of ShardCaches.                *)

LEMMA CachesInit == Init => SCP!Init
  BY DEF Init, Caches!Init, SCP!Init

\* The two instances of ShardCaches name the same actions.
LEMMA SameLifecycle == Caches!Lifecycle => SCP!Lifecycle
  BY DEF Caches!Lifecycle, SCP!Lifecycle,
         Caches!Start, SCP!Start, Caches!CancelBase, SCP!CancelBase, Caches!BeginSweep,
         SCP!BeginSweep, Caches!Sweep, SCP!Sweep, Caches!EndSweep, SCP!EndSweep,
         Caches!Cancel, SCP!Cancel, Caches!startVars, SCP!startVars, Caches!tables,
         SCP!tables, Caches!cacheVars, SCP!cacheVars, Caches!callVars, SCP!callVars

LEMMA SameCallStep ==
    ASSUME NEW w \in Worker, Caches!CallStep(w)
    PROVE  SCP!CallStep(w)
  <1> USE DEF Caches!Goto, SCP!Goto, Caches!Return, SCP!Return, Caches!Cancel, SCP!Cancel,
              Caches!Fresh, SCP!Fresh, Caches!FreshCache, SCP!FreshCache, Caches!Started,
              SCP!Started, Caches!startVars, SCP!startVars, Caches!tables, SCP!tables,
              Caches!cacheVars, SCP!cacheVars, Caches!callVars, SCP!callVars
  <1>1. ASSUME Caches!AwaitStarted(w) PROVE SCP!AwaitStarted(w)
    BY <1>1 DEF Caches!AwaitStarted, SCP!AwaitStarted
  <1>2. ASSUME Caches!AwaitCancelled(w) PROVE SCP!AwaitCancelled(w)
    BY <1>2 DEF Caches!AwaitCancelled, SCP!AwaitCancelled
  <1>3. ASSUME Caches!FindExisting(w) PROVE SCP!FindExisting(w)
    BY <1>3 DEF Caches!FindExisting, SCP!FindExisting
  <1>4. ASSUME Caches!FindMissing(w) PROVE SCP!FindMissing(w)
    BY <1>4 DEF Caches!FindMissing, SCP!FindMissing
  <1>5. ASSUME Caches!BuildFails(w) PROVE SCP!BuildFails(w)
    BY <1>5 DEF Caches!BuildFails, SCP!BuildFails
  <1>6. ASSUME Caches!Build(w) PROVE SCP!Build(w)
    BY <1>6 DEF Caches!Build, SCP!Build
  <1>7. ASSUME Caches!SyncOK(w) PROVE SCP!SyncOK(w)
    BY <1>7 DEF Caches!SyncOK, SCP!SyncOK
  <1>8. ASSUME Caches!SyncFails(w) PROVE SCP!SyncFails(w)
    BY <1>8 DEF Caches!SyncFails, SCP!SyncFails
  <1>9. ASSUME Caches!LoseRace(w) PROVE SCP!LoseRace(w)
    BY <1>9 DEF Caches!LoseRace, SCP!LoseRace
  <1>10. ASSUME Caches!Register(w) PROVE SCP!Register(w)
    BY <1>10 DEF Caches!Register, SCP!Register
  <1>11. ASSUME Caches!Publish(w) PROVE SCP!Publish(w)
    BY <1>11 DEF Caches!Publish, SCP!Publish
  <1>12. ASSUME Caches!RemoveAbsent(w) PROVE SCP!RemoveAbsent(w)
    BY <1>12 DEF Caches!RemoveAbsent, SCP!RemoveAbsent
  <1>13. ASSUME Caches!Unregister(w) PROVE SCP!Unregister(w)
    BY <1>13 DEF Caches!Unregister, SCP!Unregister
  <1>14. ASSUME Caches!Stop(w) PROVE SCP!Stop(w)
    BY <1>14 DEF Caches!Stop, SCP!Stop
  <1> QED
    BY <1>1, <1>2, <1>3, <1>4, <1>5, <1>6, <1>7, <1>8, <1>9, <1>10, <1>11, <1>12, <1>13, <1>14
       DEF Caches!CallStep, SCP!CallStep

LEMMA CachesNext == TypeOK /\ [Next]_vars => [SCP!Next]_(SCP!vars)
  <1> SUFFICES ASSUME TypeOK, [Next]_vars PROVE [SCP!Next]_(SCP!vars)
    OBVIOUS
  <1>1. CASE Caches!Lifecycle
    BY <1>1, SameLifecycle DEF SCP!Next
  <1>2. ASSUME NEW w \in Worker, Caches!CallStep(w) PROVE SCP!Next
    BY <1>2, SameCallStep DEF SCP!Next
  <1>3. ASSUME NEW w \in Worker, GetNotFound(w) PROVE SCP!Next
    <2>1. cur[w] \in Id
      BY <1>3 DEF GetNotFound, TypeOK
    <2>2. SCP!CallRemove(w, cur[w])
      BY <1>3 DEF GetNotFound, Caches!CallRemove, SCP!CallRemove, Caches!startVars,
         SCP!startVars, Caches!tables, SCP!tables, Caches!cacheVars, SCP!cacheVars
    <2> QED
      BY <2>1, <2>2 DEF SCP!Next
  <1>4. ASSUME NEW w \in Worker, GetUsable(w) PROVE SCP!Next
    <2>1. cur[w] \in Id /\ ShardConfig(shard[cur[w]]) \in Config
      BY <1>4 DEF GetUsable, TypeOK, Stores, Config
    <2>2. SCP!CallEnsure(w, cur[w], ShardConfig(shard[cur[w]]))
      BY <1>4 DEF GetUsable, Caches!CallEnsure, SCP!CallEnsure, Caches!startVars,
         SCP!startVars, Caches!tables, SCP!tables, Caches!cacheVars, SCP!cacheVars
    <2> QED
      BY <2>1, <2>2 DEF SCP!Next
  <1>5. CASE UNCHANGED cacheVars
    BY <1>5 DEF cacheVars, SCP!vars, SCP!startVars, SCP!tables, SCP!cacheVars, SCP!callVars
  <1>6. \/ Caches!Lifecycle
        \/ \E w \in Worker : Caches!CallStep(w) \/ GetNotFound(w) \/ GetUsable(w)
        \/ UNCHANGED cacheVars
    BY DEF Next, WorkerStep, CachesStep, vars, Apply, Delete, Take, GetFails, GetUnusable,
       CallOK, CallFailed
  <1> QED
    BY <1>1, <1>2, <1>3, <1>4, <1>5, <1>6

-----------------------------------------------------------------------------
(* The queue and its workers.                                              *)

\* A worker is inside ensure or remove only for the name it has taken, and no
\* two workers have the same one.
Queueing ==
    /\ TypeOK
    /\ \A v, w \in Worker : cur[v] = cur[w] /\ cur[v] # None => v = w
    /\ \A w \in Worker : pc[w] # "idle" => phase[w] = "call" /\ id[w] = cur[w]

LEMMA QueueingInit == Init => Queueing
  BY Names DEF Init, Queueing, TypeOK, Caches!Init

LEMMA QueueingNext == Queueing /\ SCP!IInv /\ [Next]_vars => Queueing'
  <1> SUFFICES ASSUME Queueing, SCP!IInv, [Next]_vars PROVE Queueing'
    OBVIOUS
  <1> USE Names, URLs DEF Queueing, TypeOK, Stores, queueVars, cacheVars
  <1>1. ASSUME NEW i \in Id, Delete(i) PROVE Queueing'
    BY <1>1 DEF Delete
  <1>2. ASSUME NEW i \in Id, NEW u \in BaseURLs[i], Apply(i, u) PROVE Queueing'
    BY <1>2 DEF Apply
  <1>3. ASSUME NEW w \in Worker, NEW i \in Id, Take(w, i) PROVE Queueing'
    BY <1>3 DEF Take
  <1>4. ASSUME NEW w \in Worker, GetFails(w) \/ GetUnusable(w) PROVE Queueing'
    BY <1>4 DEF GetFails, GetUnusable, Requeue, Finish
  <1>5. ASSUME NEW w \in Worker, GetNotFound(w) PROVE Queueing'
    BY <1>5 DEF GetNotFound, Caches!CallRemove, SCP!IInv, SCP!Typing, SCP!TypeOK
  <1>6. ASSUME NEW w \in Worker, GetUsable(w) PROVE Queueing'
    BY <1>6 DEF GetUsable, Caches!CallEnsure, SCP!IInv, SCP!Typing, SCP!TypeOK
  <1>7. ASSUME NEW w \in Worker, CallOK(w) \/ CallFailed(w) PROVE Queueing'
    BY <1>7 DEF CallOK, CallFailed, Called, Requeue, Finish
  <1>8. ASSUME CachesStep PROVE Queueing'
    <2>1. UNCHANGED <<shard, dirty, cur, phase>>
      BY <1>8 DEF CachesStep
    <2>2. \A w \in Worker : pc'[w] # "idle" => pc[w] # "idle" /\ id'[w] = id[w]
      <3>1. CASE UNCHANGED <<pc, id>>
        BY <3>1
      <3>2. ASSUME NEW v \in Worker, Caches!CallStep(v)
            PROVE  \A w \in Worker : pc'[w] # "idle" => pc[w] # "idle" /\ id'[w] = id[w]
        BY <3>2 DEF SCP!IInv, SCP!Typing, SCP!TypeOK, Caches!CallStep, Caches!Goto, Caches!Return,
           Caches!AwaitStarted, Caches!AwaitCancelled, Caches!FindExisting, Caches!FindMissing,
           Caches!BuildFails, Caches!Build, Caches!SyncOK, Caches!SyncFails, Caches!LoseRace,
           Caches!Register, Caches!Publish, Caches!RemoveAbsent, Caches!Unregister, Caches!Stop
      <3>3. UNCHANGED <<pc, id>> \/ \E v \in Worker : Caches!CallStep(v)
        BY <1>8 DEF CachesStep, Caches!Lifecycle, Caches!Start, Caches!CancelBase,
           Caches!BeginSweep, Caches!Sweep, Caches!EndSweep, Caches!callVars
      <3> QED
        BY <3>1, <3>2, <3>3
    <2> QED
      BY <2>1, <2>2
  <1>9. CASE UNCHANGED vars
    BY <1>9 DEF vars
  <1> QED
    BY <1>1, <1>2, <1>3, <1>4, <1>5, <1>6, <1>7, <1>8, <1>9 DEF Next, WorkerStep

LEMMA Invariance == Spec => [](SCP!IInv /\ Queueing)
  <1>1. Init => SCP!IInv /\ Queueing
    BY CachesInit, QueueingInit, CachesAssumption, SCP!TypingInit, SCP!LockingInit,
       SCP!OwningInit DEF SCP!IInv
  <1>2. SCP!IInv /\ Queueing /\ [Next]_vars => SCP!IInv' /\ Queueing'
    <2> SUFFICES ASSUME SCP!IInv, Queueing, [Next]_vars PROVE SCP!IInv' /\ Queueing'
      OBVIOUS
    <2>1. [SCP!Next]_(SCP!vars)
      BY CachesNext DEF Queueing
    <2>2. SCP!IInv'
      BY <2>1, CachesAssumption, SCP!TypingNext, SCP!LockingNext, SCP!OwningNext DEF SCP!IInv
    <2> QED
      BY <2>2, QueueingNext
  <1> QED
    BY <1>1, <1>2, PTL DEF Spec

-----------------------------------------------------------------------------
(* Following: a call in flight whose name nobody has put back into the     *)
(* queue was made for the shard as it is now, and a name that is neither   *)
(* in the queue nor with a worker has been followed.                       *)

MatchesShard(i) == active[i] # None <=> shard[i] # None

Following ==
    /\ \A w \in Worker : phase[w] = "call" /\ cur[w] \notin dirty /\ ~done =>
        /\ pc[w] \in SCP!EnsurePlaces => shard[cur[w]] # None
        /\ pc[w] \in {"remove", "stop"} => shard[cur[w]] = None
        /\ pc[w] = "idle" /\ ret[w] = "ok" => MatchesShard(cur[w])
    /\ SettledMatchesShards

LEMMA FollowingInit == Init => Following
  BY Names DEF Init, Following, Stores, MatchesShard, SettledMatchesShards, Settled, Caches!Init

LEMMA FollowingNext == SCP!IInv /\ Queueing /\ Following /\ [Next]_vars => Following'
  <1> SUFFICES ASSUME SCP!IInv, Queueing, Following, [Next]_vars PROVE Following'
    OBVIOUS
  <1> USE Names, URLs DEF Following, MatchesShard, SettledMatchesShards, Settled, Queueing, TypeOK, Stores,
          queueVars, cacheVars, SCP!IInv, SCP!Typing, SCP!TypeOK, SCP!HasCache, SCP!PastBase,
          SCP!EnsurePlaces, Caches!startVars, Caches!tables, Caches!cacheVars, Caches!callVars,
          Caches!Goto, Caches!Return, Caches!Cancel
  <1>1. ASSUME NEW i \in Id, Delete(i) PROVE Following'
    BY <1>1 DEF Delete
  <1>2. ASSUME NEW i \in Id, NEW u \in BaseURLs[i], Apply(i, u) PROVE Following'
    BY <1>2 DEF Apply
  <1>3. ASSUME NEW w \in Worker, NEW i \in Id, Take(w, i) PROVE Following'
    BY <1>3 DEF Take
  <1>4. ASSUME NEW w \in Worker, GetFails(w) \/ GetUnusable(w) PROVE Following'
    BY <1>4 DEF GetFails, GetUnusable, Requeue, Finish
  <1>5. ASSUME NEW w \in Worker, GetNotFound(w) PROVE Following'
    BY <1>5 DEF GetNotFound, Caches!CallRemove
  <1>6. ASSUME NEW w \in Worker, GetUsable(w) PROVE Following'
    BY <1>6 DEF GetUsable, Caches!CallEnsure
  <1>7. ASSUME NEW w \in Worker, CallOK(w) PROVE Following'
    BY <1>7 DEF CallOK, Called, Finish
  <1>8. ASSUME NEW w \in Worker, CallFailed(w) PROVE Following'
    BY <1>8 DEF CallFailed, Called, Requeue, Finish
  <1>9. ASSUME Caches!Lifecycle, UNCHANGED <<shard, queueVars>> PROVE Following'
    BY <1>9 DEF SCP!Locking, Caches!Lifecycle, Caches!Start, Caches!CancelBase,
       Caches!BeginSweep, Caches!Sweep, Caches!EndSweep
  <1>10. ASSUME NEW w \in Worker, Caches!CallStep(w), UNCHANGED <<shard, queueVars>>
         PROVE  Following'
    <2> USE <1>10
    <2>1. CASE Caches!AwaitStarted(w)
      BY <2>1 DEF Caches!AwaitStarted
    <2>2. CASE Caches!AwaitCancelled(w)
      BY <2>2 DEF Caches!AwaitCancelled
    <2>3. CASE Caches!FindExisting(w)
      BY <2>3 DEF Caches!FindExisting
    <2>4. CASE Caches!FindMissing(w)
      BY <2>4 DEF Caches!FindMissing
    <2>5. CASE Caches!BuildFails(w)
      BY <2>5 DEF Caches!BuildFails
    <2>6. CASE Caches!Build(w)
      BY <2>6 DEF Caches!Build
    <2>7. CASE Caches!SyncOK(w)
      BY <2>7 DEF Caches!SyncOK
    <2>8. CASE Caches!SyncFails(w)
      BY <2>8 DEF Caches!SyncFails
    <2>9. CASE Caches!LoseRace(w)
      BY <2>9 DEF Caches!LoseRace
    <2>10. CASE Caches!Register(w)
      BY <2>10 DEF Caches!Register
    <2>11. CASE Caches!Publish(w)
      BY <2>11 DEF Caches!Publish
    <2>12. CASE Caches!RemoveAbsent(w)
      BY <2>12 DEF Caches!RemoveAbsent
    <2>13. CASE Caches!Unregister(w)
      BY <2>13 DEF Caches!Unregister
    <2>14. CASE Caches!Stop(w)
      BY <2>14 DEF Caches!Stop
    <2> QED
      BY <1>10, <2>1, <2>2, <2>3, <2>4, <2>5, <2>6, <2>7, <2>8, <2>9, <2>10,
         <2>11, <2>12, <2>13, <2>14 DEF Caches!CallStep
  <1>11. CASE UNCHANGED vars
    BY <1>11 DEF vars
  <1> QED
    BY <1>1, <1>2, <1>3, <1>4, <1>5, <1>6, <1>7, <1>8, <1>9, <1>10, <1>11
       DEF Next, WorkerStep, CachesStep

\* However events, failures, retries and calls interleave: a shard that is not in
\* the queue and not with a worker has a cache exactly if its object exists.
THEOREM NoEventIsLost == Spec => []SettledMatchesShards
  <1>1. Following => SettledMatchesShards
    BY DEF Following
  <1> QED
    BY <1>1, Invariance, FollowingInit, FollowingNext, PTL DEF Spec

\* The controller's names, queue and workers keep their types.
THEOREM TypeCorrect == Spec => []TypeOK
  <1>1. Queueing => TypeOK
    BY DEF Queueing
  <1> QED
    BY <1>1, Invariance, PTL

-----------------------------------------------------------------------------
(* One ensure at a time.                                                   *)

\* An ensure that found no cache for its shard still finds none when it commits.
Alone == \A w \in Worker : pc[w] \in {"build", "sync", "commit"} => active[id[w]] = None

LEMMA AloneNext == SCP!IInv /\ Queueing /\ Alone /\ [Next]_vars => Alone'
  <1> SUFFICES ASSUME SCP!IInv, Queueing, Alone, [Next]_vars PROVE Alone'
    OBVIOUS
  <1> USE Names, URLs DEF Alone, Queueing, TypeOK, Stores, cacheVars, SCP!IInv, SCP!Typing,
          SCP!TypeOK, Caches!startVars, Caches!tables, Caches!cacheVars, Caches!callVars,
          Caches!Goto, Caches!Return
  <1>1. CASE UNCHANGED <<pc, id, active>>
    BY <1>1
  <1>2. ASSUME NEW w \in Worker, GetNotFound(w) \/ GetUsable(w) PROVE Alone'
    BY <1>2 DEF GetNotFound, GetUsable, Caches!CallRemove, Caches!CallEnsure
  <1>3. ASSUME NEW i \in Id, Caches!Sweep(i) PROVE Alone'
    BY <1>3 DEF Caches!Sweep
  <1>4. ASSUME NEW w \in Worker, Caches!CallStep(w) PROVE Alone'
    <2>1. CASE Caches!AwaitStarted(w)
      BY <2>1 DEF Caches!AwaitStarted
    <2>2. CASE Caches!AwaitCancelled(w)
      BY <2>2 DEF Caches!AwaitCancelled
    <2>3. CASE Caches!FindExisting(w)
      BY <2>3 DEF Caches!FindExisting
    <2>4. CASE Caches!FindMissing(w)
      BY <2>4 DEF Caches!FindMissing
    <2>5. CASE Caches!BuildFails(w)
      BY <2>5 DEF Caches!BuildFails
    <2>6. CASE Caches!Build(w)
      BY <2>6 DEF Caches!Build
    <2>7. CASE Caches!SyncOK(w)
      BY <2>7 DEF Caches!SyncOK
    <2>8. CASE Caches!SyncFails(w)
      BY <2>8 DEF Caches!SyncFails
    <2>9. CASE Caches!LoseRace(w)
      BY <2>9 DEF Caches!LoseRace
    <2>10. CASE Caches!Register(w)
      BY <2>10 DEF Caches!Register
    <2>11. CASE Caches!Publish(w)
      BY <2>11 DEF Caches!Publish
    <2>12. CASE Caches!RemoveAbsent(w)
      BY <2>12 DEF Caches!RemoveAbsent
    <2>13. CASE Caches!Unregister(w)
      BY <2>13 DEF Caches!Unregister
    <2>14. CASE Caches!Stop(w)
      BY <2>14 DEF Caches!Stop
    <2> QED
      BY <1>4, <2>1, <2>2, <2>3, <2>4, <2>5, <2>6, <2>7, <2>8, <2>9, <2>10,
         <2>11, <2>12, <2>13, <2>14 DEF Caches!CallStep
  <1>5. \/ UNCHANGED <<pc, id, active>>
        \/ \E w \in Worker : GetNotFound(w) \/ GetUsable(w) \/ Caches!CallStep(w)
        \/ \E i \in Id : Caches!Sweep(i)
    BY DEF Next, WorkerStep, CachesStep, vars, Apply, Delete, Take, GetFails, GetUnusable,
       CallOK, CallFailed, Caches!Lifecycle, Caches!Start, Caches!CancelBase,
       Caches!BeginSweep, Caches!EndSweep
  <1> QED
    BY <1>1, <1>2, <1>3, <1>4, <1>5

\* With any number of workers, ensure never drops a cache it has just synced.
THEOREM RacesAreNeverLost == Spec => []NoLostRace
  <1>1. Init => Alone
    BY DEF Init, Alone, Caches!Init
  <1>2. Alone => NoLostRace
    BY DEF Alone, NoLostRace
  <1> QED
    BY <1>1, <1>2, AloneNext, Invariance, PTL DEF Spec

-----------------------------------------------------------------------------
(* Which shard a cache dials.                                              *)

\* The configs that shardConfig makes for the baseURLs of shard i.
ConfigsOf(i) == {ShardConfig(u) : u \in {v \in BaseURLs[i] : Usable(v)}}

Dialing ==
    /\ \A w \in Worker : pc[w] \in SCP!EnsurePlaces => cfg[w] \in ConfigsOf(id[w])
    /\ \A w \in Worker : pc[w] \in SCP!HasCache => dial[wc[w]] \in ConfigsOf(id[w])
    /\ \A i \in Id : active[i] # None => dial[active[i]] \in ConfigsOf(i)

LEMMA DialingInit == Init => Dialing
  BY Names DEF Init, Caches!Init, Dialing, SCP!EnsurePlaces, SCP!PastBase, SCP!HasCache

LEMMA DialingNext == SCP!IInv /\ Queueing /\ Dialing /\ [Next]_vars => Dialing'
  <1> SUFFICES ASSUME SCP!IInv, Queueing, Dialing, [Next]_vars PROVE Dialing'
    OBVIOUS
  <1> USE Names, URLs DEF Dialing, Queueing, TypeOK, Stores, cacheVars, SCP!IInv, SCP!Typing,
          SCP!TypeOK, SCP!Owning, SCP!EnsurePlaces, SCP!PastBase, SCP!HasCache,
          Caches!startVars, Caches!tables, Caches!cacheVars, Caches!callVars, Caches!Goto,
          Caches!Return, Caches!Cancel
  <1>1. CASE UNCHANGED <<pc, id, cfg, wc, dial, active>>
    BY <1>1
  <1>2. ASSUME NEW w \in Worker, GetNotFound(w) PROVE Dialing'
    BY <1>2 DEF GetNotFound, Caches!CallRemove
  <1>3. ASSUME NEW w \in Worker, GetUsable(w) PROVE Dialing'
    <2>1. ShardConfig(shard[cur[w]]) \in ConfigsOf(cur[w])
      BY <1>3 DEF GetUsable, ConfigsOf
    <2> QED
      BY <1>3, <2>1 DEF GetUsable, Caches!CallEnsure
  <1>4. ASSUME NEW i \in Id, Caches!Sweep(i) PROVE Dialing'
    BY <1>4 DEF Caches!Sweep
  <1>5. ASSUME NEW w \in Worker, Caches!CallStep(w) PROVE Dialing'
    <2>1. CASE Caches!AwaitStarted(w)
      BY <2>1 DEF Caches!AwaitStarted
    <2>2. CASE Caches!AwaitCancelled(w)
      BY <2>2 DEF Caches!AwaitCancelled
    <2>3. CASE Caches!FindExisting(w)
      BY <2>3 DEF Caches!FindExisting
    <2>4. CASE Caches!FindMissing(w)
      BY <2>4 DEF Caches!FindMissing
    <2>5. CASE Caches!BuildFails(w)
      BY <2>5 DEF Caches!BuildFails
    <2>6. CASE Caches!Build(w)
      <3> DEFINE c == Caches!FreshCache
      <3>1. c \in Cache /\ \A i \in Id : active[i] # c
            /\ \A v \in Worker : wc[v] # c
        BY <2>6, SCP!FreshCacheIsFresh DEF Caches!Build, Caches!FreshCache, SCP!FreshCache,
           Caches!Fresh, SCP!Fresh
      <3>2. dial' = [dial EXCEPT ![c] = cfg[w]] /\ wc' = [wc EXCEPT ![w] = c]
            /\ pc' = [pc EXCEPT ![w] = "sync"] /\ pc[w] = "build"
            /\ UNCHANGED <<active, id, cfg>>
        BY <2>6 DEF Caches!Build
      <3> QED
        BY <3>1, <3>2
    <2>7. CASE Caches!SyncOK(w)
      BY <2>7 DEF Caches!SyncOK
    <2>8. CASE Caches!SyncFails(w)
      BY <2>8 DEF Caches!SyncFails
    <2>9. CASE Caches!LoseRace(w)
      BY <2>9 DEF Caches!LoseRace
    <2>10. CASE Caches!Register(w)
      BY <2>10 DEF Caches!Register
    <2>11. CASE Caches!Publish(w)
      BY <2>11 DEF Caches!Publish
    <2>12. CASE Caches!RemoveAbsent(w)
      BY <2>12 DEF Caches!RemoveAbsent
    <2>13. CASE Caches!Unregister(w)
      BY <2>13 DEF Caches!Unregister
    <2>14. CASE Caches!Stop(w)
      BY <2>14 DEF Caches!Stop
    <2> QED
      BY <1>5, <2>1, <2>2, <2>3, <2>4, <2>5, <2>6, <2>7, <2>8, <2>9, <2>10,
         <2>11, <2>12, <2>13, <2>14 DEF Caches!CallStep
  <1>6. \/ UNCHANGED <<pc, id, cfg, wc, dial, active>>
        \/ \E w \in Worker : GetNotFound(w) \/ GetUsable(w) \/ Caches!CallStep(w)
        \/ \E i \in Id : Caches!Sweep(i)
    BY DEF Next, WorkerStep, CachesStep, vars, Apply, Delete, Take, GetFails, GetUnusable,
       CallOK, CallFailed, Caches!Lifecycle, Caches!Start, Caches!CancelBase,
       Caches!BeginSweep, Caches!EndSweep
  <1> QED
    BY <1>1, <1>2, <1>3, <1>4, <1>5, <1>6

LEMMA RegisteredDials == SCP!IInv /\ Queueing /\ Dialing => DialsOwnShard
  <1> SUFFICES ASSUME SCP!IInv, Queueing, Dialing, NEW i \in Id, agg[i] # None
               PROVE  \E u \in BaseURLs[i] \ {Unset} :
                          IF Gateway = None
                          THEN dial[agg[i]].host = u
                          ELSE /\ u \notin Unparsable
                               /\ dial[agg[i]] = [host |-> Gateway, serverName |-> Hostname[u]]
    BY DEF DialsOwnShard
  <1>1. dial[agg[i]] \in ConfigsOf(i)
    <2>1. CASE agg[i] = active[i]
      BY <2>1 DEF Dialing
    <2>2. CASE agg[i] # active[i]
      <3>1. PICK w \in Worker : mu = w /\ id[w] = i
        BY <2>2 DEF SCP!IInv, SCP!Locking
      <3>2. pc[w] = "publish" /\ agg[i] = wc[w]
        BY <3>1 DEF SCP!IInv, SCP!Locking
      <3> QED
        BY <3>1, <3>2 DEF Dialing, SCP!HasCache
    <2> QED
      BY <2>1, <2>2
  <1>2. PICK u \in BaseURLs[i] : Usable(u) /\ dial[agg[i]] = ShardConfig(u)
    BY <1>1 DEF ConfigsOf
  <1> QED
    BY <1>2 DEF Usable, ShardConfig

\* No interleaving of reconciles gives a shard's readers the cache of another one.
THEOREM EachShardIsItself == Spec => []DialsOwnShard
  BY Invariance, DialingInit, DialingNext, RegisteredDials, PTL DEF Spec
=============================================================================

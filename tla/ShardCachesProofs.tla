------------------------- MODULE ShardCachesProofs -------------------------
(***************************************************************************)
(* Proofs about ShardCaches, for any sets of shards, callers and caches.   *)
(*                                                                         *)
(* Three invariants are built on one another: Typing (types and the        *)
(* arguments of calls), Locking (who is inside a critical section of s.mu  *)
(* and what the tables look like meanwhile) and Owning (which cache is     *)
(* whose, and which of them run).                                          *)
(***************************************************************************)
EXTENDS ShardCaches, TLAPS

EnsurePlaces == {"await"} \cup PastBase

\* A call in flight has the arguments it was made with.
Typing ==
    /\ TypeOK
    /\ \A p \in Caller : pc[p] # "idle" => id[p] \in Id
    /\ \A p \in Caller : pc[p] \in EnsurePlaces => cfg[p] \in Cfg

\* A fresh cache is chosen from the pool.
LEMMA FreshCacheIsFresh ==
    ASSUME \E c \in Cache : Fresh(c)
    PROVE  FreshCache \in Cache /\ Fresh(FreshCache)
  BY DEF FreshCache

LEMMA TypingInit == Init => Typing
  BY Distinct DEF Init, Typing, TypeOK, PastBase, HasCache, EnsurePlaces

\* Every step keeps the types, and the arguments of the calls in flight.
LEMMA TypingNext == Typing /\ [Next]_vars => Typing'
  <1> SUFFICES ASSUME Typing, [Next]_vars PROVE Typing'
    OBVIOUS
  <1> USE Distinct DEF Typing, TypeOK, PastBase, HasCache, EnsurePlaces,
          Goto, Return, Cancel, startVars, tables, cacheVars, callVars
  <1>1. CASE Start
    BY <1>1 DEF Start
  <1>2. CASE CancelBase
    BY <1>2 DEF CancelBase
  <1>3. CASE BeginSweep
    BY <1>3 DEF BeginSweep
  <1>4. ASSUME NEW i \in Id, Sweep(i) PROVE Typing'
    BY <1>4 DEF Sweep
  <1>5. CASE EndSweep
    BY <1>5 DEF EndSweep
  <1>6. ASSUME NEW p \in Caller, NEW i \in Id, NEW d \in Cfg, CallEnsure(p, i, d)
        PROVE  Typing'
    BY <1>6 DEF CallEnsure
  <1>7. ASSUME NEW p \in Caller, NEW i \in Id, CallRemove(p, i) PROVE Typing'
    BY <1>7 DEF CallRemove
  <1>8. ASSUME NEW p \in Caller, CallStep(p) PROVE Typing'
    <2>1. CASE AwaitStarted(p)
      BY <2>1 DEF AwaitStarted, Started
    <2>2. CASE AwaitCancelled(p)
      BY <2>2 DEF AwaitCancelled
    <2>3. CASE FindExisting(p)
      BY <2>3 DEF FindExisting
    <2>4. CASE FindMissing(p)
      BY <2>4 DEF FindMissing
    <2>5. CASE BuildFails(p)
      BY <2>5 DEF BuildFails
    <2>6. CASE Build(p)
      BY <2>6, FreshCacheIsFresh DEF Build
    <2>7. CASE SyncOK(p)
      BY <2>7 DEF SyncOK
    <2>8. CASE SyncFails(p)
      BY <2>8 DEF SyncFails
    <2>9. CASE LoseRace(p)
      BY <2>9 DEF LoseRace
    <2>10. CASE Register(p)
      BY <2>10 DEF Register
    <2>11. CASE Publish(p)
      BY <2>11 DEF Publish
    <2>12. CASE RemoveAbsent(p)
      BY <2>12 DEF RemoveAbsent
    <2>13. CASE Unregister(p)
      BY <2>13 DEF Unregister
    <2>14. CASE Stop(p)
      BY <2>14 DEF Stop
    <2> QED
      BY <1>8, <2>1, <2>2, <2>3, <2>4, <2>5, <2>6, <2>7, <2>8, <2>9, <2>10,
         <2>11, <2>12, <2>13, <2>14 DEF CallStep
  <1>9. CASE UNCHANGED vars
    BY <1>9 DEF vars
  <1> QED
    BY <1>1, <1>2, <1>3, <1>4, <1>5, <1>6, <1>7, <1>8, <1>9 DEF Next, Lifecycle
-----------------------------------------------------------------------------

\* s.mu is held by whoever is between the two steps of a critical section, and
\* only there, at the one shard it works on, do the aggregate and s.active differ.
Locking ==
    /\ \A p \in Caller : mu = p <=> pc[p] \in {"publish", "stop"}
    /\ mu = Starter <=> startPC = "sweeping"
    /\ startPC \in {"sweeping", "returned"} => done
    /\ \A i \in Id : agg[i] # active[i] => \E p \in Caller : mu = p /\ id[p] = i
    /\ \A p \in Caller : pc[p] = "publish" => active[id[p]] = None /\ agg[id[p]] = wc[p]
    /\ \A p \in Caller : pc[p] = "stop" => active[id[p]] # None /\ agg[id[p]] = None

LEMMA LockingInit == Init => Locking
  BY Distinct DEF Init, Locking

\* Taking s.mu, working under it and letting go of it keep Locking.
LEMMA LockingNext == Typing /\ Locking /\ [Next]_vars => Locking'
  <1> SUFFICES ASSUME Typing, Locking, [Next]_vars PROVE Locking'
    OBVIOUS
  <1> USE Distinct DEF Typing, Locking, TypeOK, PastBase, HasCache, EnsurePlaces,
          Goto, Return, Cancel, startVars, tables, cacheVars, callVars
  <1>1. CASE Start
    BY <1>1 DEF Start
  <1>2. CASE CancelBase
    BY <1>2 DEF CancelBase
  <1>3. CASE BeginSweep
    BY <1>3 DEF BeginSweep
  <1>4. ASSUME NEW i \in Id, Sweep(i) PROVE Locking'
    BY <1>4 DEF Sweep
  <1>5. CASE EndSweep
    BY <1>5 DEF EndSweep
  <1>6. ASSUME NEW p \in Caller, NEW i \in Id, NEW d \in Cfg, CallEnsure(p, i, d)
        PROVE  Locking'
    BY <1>6 DEF CallEnsure
  <1>7. ASSUME NEW p \in Caller, NEW i \in Id, CallRemove(p, i) PROVE Locking'
    BY <1>7 DEF CallRemove
  <1>8. ASSUME NEW p \in Caller, CallStep(p) PROVE Locking'
    <2>1. CASE AwaitStarted(p)
      BY <2>1 DEF AwaitStarted
    <2>2. CASE AwaitCancelled(p)
      BY <2>2 DEF AwaitCancelled
    <2>3. CASE FindExisting(p)
      BY <2>3 DEF FindExisting
    <2>4. CASE FindMissing(p)
      BY <2>4 DEF FindMissing
    <2>5. CASE BuildFails(p)
      BY <2>5 DEF BuildFails
    <2>6. CASE Build(p)
      BY <2>6 DEF Build
    <2>7. CASE SyncOK(p)
      BY <2>7 DEF SyncOK
    <2>8. CASE SyncFails(p)
      BY <2>8 DEF SyncFails
    <2>9. CASE LoseRace(p)
      BY <2>9 DEF LoseRace
    <2>10. CASE Register(p)
      BY <2>10 DEF Register
    <2>11. CASE Publish(p)
      BY <2>11 DEF Publish
    <2>12. CASE RemoveAbsent(p)
      BY <2>12 DEF RemoveAbsent
    <2>13. CASE Unregister(p)
      BY <2>13 DEF Unregister
    <2>14. CASE Stop(p)
      BY <2>14 DEF Stop
    <2> QED
      BY <1>8, <2>1, <2>2, <2>3, <2>4, <2>5, <2>6, <2>7, <2>8, <2>9, <2>10,
         <2>11, <2>12, <2>13, <2>14 DEF CallStep
  <1>9. CASE UNCHANGED vars
    BY <1>9 DEF vars
  <1> QED
    BY <1>1, <1>2, <1>3, <1>4, <1>5, <1>6, <1>7, <1>8, <1>9 DEF Next, Lifecycle

-----------------------------------------------------------------------------

\* Caches have one owner each, an entry of s.active or an ensure in flight; the
\* owned ones run until the manager context ends, the others do not run, and a
\* cache that is about to be registered, or is, has completed its initial sync.
Owning ==
    /\ \A i, j \in Id : active[i] = active[j] /\ active[i] # None => i = j
    /\ \A p, q \in Caller : wc[p] = wc[q] /\ wc[p] # None => p = q
    /\ \A i \in Id, p \in Caller : active[i] # None => active[i] # wc[p]
    /\ ~done => \A i \in Id : active[i] # None => active[i] \in open
    /\ ~done => \A p \in Caller : wc[p] # None => wc[p] \in open
    /\ NoOrphanCache
    /\ \A i \in Id : active[i] # None => active[i] \in synced
    /\ \A p \in Caller : pc[p] \in {"commit", "publish"} => wc[p] \in synced

LEMMA OwningInit == Init => Owning
  BY Distinct DEF Init, Owning, NoOrphanCache

\* Caches change hands, start and stop without breaking Owning.
LEMMA OwningNext == Typing /\ Locking /\ Owning /\ [Next]_vars => Owning'
  <1> SUFFICES ASSUME Typing, Locking, Owning, [Next]_vars PROVE Owning'
    OBVIOUS
  <1> USE Distinct DEF Typing, Locking, Owning, NoOrphanCache, TypeOK, PastBase, HasCache, EnsurePlaces,
          Goto, Return, Cancel, startVars, tables, cacheVars, callVars
  <1>1. CASE Start
    BY <1>1 DEF Start
  <1>2. CASE CancelBase
    BY <1>2 DEF CancelBase
  <1>3. CASE BeginSweep
    BY <1>3 DEF BeginSweep
  <1>4. ASSUME NEW i \in Id, Sweep(i) PROVE Owning'
    BY <1>4 DEF Sweep
  <1>5. CASE EndSweep
    BY <1>5 DEF EndSweep
  <1>6. ASSUME NEW p \in Caller, NEW i \in Id, NEW d \in Cfg, CallEnsure(p, i, d)
        PROVE  Owning'
    BY <1>6 DEF CallEnsure
  <1>7. ASSUME NEW p \in Caller, NEW i \in Id, CallRemove(p, i) PROVE Owning'
    BY <1>7 DEF CallRemove
  <1>8. ASSUME NEW p \in Caller, CallStep(p) PROVE Owning'
    <2>1. CASE AwaitStarted(p)
      BY <2>1 DEF AwaitStarted
    <2>2. CASE AwaitCancelled(p)
      BY <2>2 DEF AwaitCancelled
    <2>3. CASE FindExisting(p)
      BY <2>3 DEF FindExisting
    <2>4. CASE FindMissing(p)
      BY <2>4 DEF FindMissing
    <2>5. CASE BuildFails(p)
      BY <2>5 DEF BuildFails
    <2>6. CASE Build(p)
      BY <2>6, FreshCacheIsFresh DEF Build, Fresh
    <2>7. CASE SyncOK(p)
      BY <2>7 DEF SyncOK
    <2>8. CASE SyncFails(p)
      BY <2>8 DEF SyncFails
    <2>9. CASE LoseRace(p)
      BY <2>9 DEF LoseRace
    <2>10. CASE Register(p)
      BY <2>10 DEF Register
    <2>11. CASE Publish(p)
      BY <2>11 DEF Publish
    <2>12. CASE RemoveAbsent(p)
      BY <2>12 DEF RemoveAbsent
    <2>13. CASE Unregister(p)
      BY <2>13 DEF Unregister
    <2>14. CASE Stop(p)
      BY <2>14 DEF Stop
    <2> QED
      BY <1>8, <2>1, <2>2, <2>3, <2>4, <2>5, <2>6, <2>7, <2>8, <2>9, <2>10,
         <2>11, <2>12, <2>13, <2>14 DEF CallStep
  <1>9. CASE UNCHANGED vars
    BY <1>9 DEF vars
  <1> QED
    BY <1>1, <1>2, <1>3, <1>4, <1>5, <1>6, <1>7, <1>8, <1>9 DEF Next, Lifecycle

-----------------------------------------------------------------------------
(* Theorems.                                                               *)

IInv == Typing /\ Locking /\ Owning

LEMMA Invariance == Spec => []IInv
  <1>1. Init => IInv
    BY TypingInit, LockingInit, OwningInit DEF IInv
  <1>2. IInv /\ [Next]_vars => IInv'
    BY TypingNext, LockingNext, OwningNext DEF IInv
  <1> QED
    BY <1>1, <1>2, PTL DEF Spec

\* shardcaches.go keeps its types: no ensure derives a context from s.baseCtx
\* before Start has set it, and none registers a cache it does not have.
THEOREM TypeCorrect == Spec => []TypeOK
  <1>1. IInv => TypeOK
    BY DEF IInv, Typing
  <1> QED
    BY <1>1, Invariance, PTL

\* A registered cache is the one of s.active, or the one that ensure is about
\* to enter there, so it has synced and runs until the manager context ends.
LEMMA RegisteredIsLive == IInv => ReadersSeeLiveCaches
  <1> SUFFICES ASSUME IInv, NEW i \in Id, agg[i] # None
               PROVE  agg[i] \in synced /\ (done \/ agg[i] \in open)
    BY DEF ReadersSeeLiveCaches
  <1> USE DEF IInv, Owning
  <1>1. CASE agg[i] = active[i]
    BY <1>1
  <1>2. CASE agg[i] # active[i]
    <2>1. PICK p \in Caller : mu = p /\ id[p] = i
      BY <1>2 DEF Locking
    <2>2. pc[p] = "publish" /\ agg[i] = wc[p]
      BY <2>1 DEF Locking
    <2> QED
      BY <2>2
  <1> QED
    BY <1>1, <1>2

\* Readers, who do not take s.mu, only ever list from caches that have synced
\* and that run until shutdown.
THEOREM ReadersAreServed == Spec => []ReadersSeeLiveCaches
  BY Invariance, RegisteredIsLive, PTL

\* No lost race, failed sync, removal or shutdown leaves a cache running that
\* nobody can stop.
THEOREM NoCacheLeaks == Spec => []NoOrphanCache
  <1>1. IInv => NoOrphanCache
    BY DEF IInv, Owning
  <1> QED
    BY <1>1, Invariance, PTL

\* Whenever s.mu is free, the aggregate and s.active agree.
THEOREM TablesAgree == Spec => []AggregateMatchesActive
  <1>1. IInv => AggregateMatchesActive
    <2> SUFFICES ASSUME IInv, mu = None PROVE agg = active
      BY DEF AggregateMatchesActive
    <2>1. ASSUME NEW i \in Id PROVE agg[i] = active[i]
      BY Distinct DEF IInv, Locking
    <2>2. agg \in [Id -> Cache \cup {None}] /\ active \in [Id -> Cache \cup {None}]
      BY DEF IInv, Typing, TypeOK
    <2> QED
      BY <2>1, <2>2
  <1> QED
    BY <1>1, Invariance, PTL

Keep == \A i \in Id : agg[i] # None => agg'[i] \in {agg[i], None}

\* The steps that touch the aggregate are Register, at an empty place, and the
\* removals.
LEMMA KeepStep == IInv /\ [Next]_vars => Keep
  <1> SUFFICES ASSUME IInv, [Next]_vars PROVE Keep
    OBVIOUS
  <1>1. ASSUME NEW i \in Id, Sweep(i) PROVE Keep
    BY <1>1 DEF Keep, Sweep, IInv, Typing, TypeOK
  <1>2. ASSUME NEW p \in Caller, Register(p) PROVE Keep
    <2>1. agg[id[p]] = None
      BY <1>2, Distinct DEF Register, IInv, Typing, Locking
    <2> QED
      BY <1>2, <2>1 DEF Keep, Register, IInv, Typing, TypeOK
  <1>3. ASSUME NEW p \in Caller, Unregister(p) PROVE Keep
    BY <1>3 DEF Keep, Unregister, IInv, Typing, TypeOK
  <1>4. CASE UNCHANGED agg
    BY <1>4 DEF Keep
  <1>5. \/ \E i \in Id : Sweep(i)
        \/ \E p \in Caller : Register(p) \/ Unregister(p)
        \/ UNCHANGED agg
    BY DEF Next, Lifecycle, CallStep, vars, tables, Start, CancelBase, BeginSweep, EndSweep,
       CallEnsure, CallRemove, AwaitStarted, AwaitCancelled, FindExisting, FindMissing,
       BuildFails, Build, SyncOK, SyncFails, LoseRace, Publish, RemoveAbsent, Stop
  <1> QED
    BY <1>1, <1>2, <1>3, <1>4, <1>5

\* However many ensures of a shard overlap, the cache its readers use is never
\* swapped under them.
THEOREM NeverReplaced == Spec => RegisteredIsKept
  <1>1. IInv /\ [Next]_vars => [Keep]_vars
    BY KeepStep
  <1>2. Spec => [][Keep]_vars
    BY <1>1, Invariance, PTL DEF Spec
  <1> QED
    BY <1>2 DEF RegisteredIsKept, Keep

-----------------------------------------------------------------------------
(* ShardCaches implements ShardView.                                       *)

\* A cache that is owned but not registered is offered by no name.
LEMMA NotOffered ==
    ASSUME IInv, NEW p \in Caller, wc[p] # None, pc[p] # "publish"
    PROVE  wc[p] \notin View!Offered
  <1> SUFFICES ASSUME NEW i \in Id, agg[i] = wc[p] PROVE FALSE
    BY DEF View!Offered
  <1>1. agg[i] # active[i]
    BY DEF IInv, Owning
  <1>2. PICK q \in Caller : mu = q /\ id[q] = i
    BY <1>1 DEF IInv, Locking
  <1>3. pc[q] = "publish" /\ wc[q] = wc[p]
    BY <1>1, <1>2 DEF IInv, Locking
  <1> QED
    BY <1>3 DEF IInv, Owning

\* Every step of ShardCaches is a step of ShardView or none.
LEMMA ViewStep == IInv /\ [Next]_vars => [View!Next]_(View!vars)
  <1> SUFFICES ASSUME IInv, [Next]_vars PROVE [View!Next]_(View!vars)
    OBVIOUS
  <1> USE DEF View!vars
  <1>1. CASE CancelBase
    <2>1. View!Close
      BY <1>1 DEF CancelBase, View!Close, tables
    <2> QED
      BY <2>1 DEF View!Next
  <1>2. ASSUME NEW i \in Id, Sweep(i) PROVE [View!Next]_(View!vars)
    <2>1. open' = open /\ done' = done /\ firstSynced' = firstSynced
      BY <1>2 DEF Sweep, Cancel, startVars, IInv, Locking, Owning, NoOrphanCache
    <2>2. agg[i] # None
      BY <1>2, Distinct DEF Sweep, IInv, Typing, TypeOK, Locking
    <2>3. View!Withdraw(i)
      BY <1>2, <2>1, <2>2 DEF Sweep, View!Withdraw
    <2> QED
      BY <2>3 DEF View!Next
  <1>3. ASSUME NEW p \in Caller, Build(p) PROVE [View!Next]_(View!vars)
    <2>1. FreshCache \in Cache /\ Fresh(FreshCache)
      BY <1>3, FreshCacheIsFresh DEF Build
    <2>2. CASE done
      BY <1>3, <2>2 DEF Build, tables, startVars
    <2>3. CASE ~done
      <3>1. View!Open(FreshCache)
        BY <1>3, <2>1, <2>3 DEF Build, tables, startVars, View!Open, View!Offered, Fresh
      <3> QED
        BY <2>1, <3>1 DEF View!Next
    <2> QED
      BY <2>2, <2>3
  <1>4. ASSUME NEW p \in Caller, SyncFails(p) \/ LoseRace(p) PROVE [View!Next]_(View!vars)
    <2>1. wc[p] \in Cache /\ wc[p] \notin View!Offered
      BY <1>4, NotOffered, Distinct DEF SyncFails, LoseRace, IInv, Typing, TypeOK, HasCache
    <2>2. open' = open \ {wc[p]} /\ UNCHANGED <<agg, firstSynced, done>>
      BY <1>4 DEF SyncFails, LoseRace, Cancel, startVars, tables
    <2>3. CASE wc[p] \in open
      BY <2>1, <2>2, <2>3 DEF View!Next, View!Retire
    <2>4. CASE wc[p] \notin open
      BY <2>2, <2>4
    <2> QED
      BY <2>3, <2>4
  <1>5. ASSUME NEW p \in Caller, Register(p) PROVE [View!Next]_(View!vars)
    <2>1. id[p] \in Id /\ wc[p] \in Cache /\ (done \/ wc[p] \in open)
      BY <1>5 DEF Register, IInv, Typing, TypeOK, HasCache, Owning
    <2>2. agg[id[p]] = None
      BY <1>5, <2>1, Distinct DEF Register, IInv, Locking
    <2>3. wc[p] \notin View!Offered
      BY <1>5, <2>1, NotOffered, Distinct DEF Register
    <2>4. View!Publish(id[p], wc[p])
      BY <1>5, <2>1, <2>2, <2>3 DEF Register, View!Publish, startVars, cacheVars
    <2> QED
      BY <2>1, <2>4 DEF View!Next
  <1>6. ASSUME NEW p \in Caller, Publish(p) PROVE [View!Next]_(View!vars)
    <2>1. UNCHANGED <<agg, open, done>> /\ firstSynced' = TRUE
      BY <1>6 DEF Publish, startVars, cacheVars
    <2>2. agg[id[p]] \in View!Offered
      BY <1>6, Distinct DEF Publish, View!Offered, IInv, Typing, TypeOK, HasCache, Locking
    <2>3. CASE firstSynced
      BY <2>1, <2>3
    <2>4. CASE ~firstSynced
      BY <2>1, <2>2, <2>4 DEF View!Next, View!MarkReady
    <2> QED
      BY <2>3, <2>4
  <1>7. ASSUME NEW p \in Caller, Unregister(p) PROVE [View!Next]_(View!vars)
    <2>1. id[p] \in Id /\ agg[id[p]] # None
      BY <1>7, Distinct DEF Unregister, IInv, Typing, Locking
    <2>2. View!Withdraw(id[p])
      BY <1>7, <2>1 DEF Unregister, View!Withdraw, startVars, cacheVars
    <2> QED
      BY <2>1, <2>2 DEF View!Next
  <1>8. ASSUME NEW p \in Caller, Stop(p) PROVE [View!Next]_(View!vars)
    <2> DEFINE c == active[id[p]]
    <2>1. id[p] \in Id /\ c \in Cache
      BY <1>8, Distinct DEF Stop, IInv, Typing, TypeOK, Locking
    <2>2. open' = open \ {c} /\ UNCHANGED <<agg, firstSynced, done>>
      BY <1>8 DEF Stop, Cancel, startVars
    <2>3. c \notin View!Offered
      <3> SUFFICES ASSUME NEW i \in Id, agg[i] = c PROVE FALSE
        BY DEF View!Offered
      <3>1. mu = p /\ agg[id[p]] = None
        BY <1>8 DEF Stop, IInv, Locking
      <3>2. i # id[p]
        BY <2>1, <3>1, Distinct
      <3>3. agg[i] = active[i]
        BY <3>1, <3>2 DEF IInv, Locking
      <3> QED
        BY <2>1, <3>2, <3>3, Distinct DEF IInv, Owning
    <2>4. CASE c \in open
      BY <2>1, <2>2, <2>3, <2>4 DEF View!Next, View!Retire
    <2>5. CASE c \notin open
      BY <2>2, <2>5
    <2> QED
      BY <2>4, <2>5
  <1>9. CASE UNCHANGED <<agg, open, firstSynced, done>>
    BY <1>9
  <1>10. \/ CancelBase
         \/ \E i \in Id : Sweep(i)
         \/ \E p \in Caller : \/ Build(p) \/ SyncFails(p) \/ LoseRace(p) \/ Register(p)
                              \/ Publish(p) \/ Unregister(p) \/ Stop(p)
         \/ UNCHANGED <<agg, open, firstSynced, done>>
    BY DEF Next, Lifecycle, CallStep, vars, startVars, tables, cacheVars, Start, BeginSweep,
       EndSweep, CallEnsure, CallRemove, AwaitStarted, AwaitCancelled, FindExisting,
       FindMissing, BuildFails, SyncOK, RemoveAbsent
  <1> QED
    BY <1>1, <1>2, <1>3, <1>4, <1>5, <1>6, <1>7, <1>8, <1>9, <1>10

\* What the readers of the aggregate see is a behaviour of ShardView: sources
\* are live when published, withdrawn before they are retired, never swapped,
\* and readiness is reported only after something was published.
THEOREM ServesShardView == Spec => ImplementsShardView
  <1>1. Init => View!Init
    BY DEF Init, View!Init
  <1> QED
    BY <1>1, Invariance, ViewStep, PTL DEF Spec, ImplementsShardView, View!Spec
=============================================================================

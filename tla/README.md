# Verification of kcp-marketplace

TLA+ specifications of the marketplace virtual workspace server (Go) and of its
user interface (Vue), checked with TLC on small instances and proved with
TLAPS for all values of their constants.

## 1. The system

`marketplace-vws` is an aggregated API server that lists, per user, the kcp
workspaces the user may enter and the APIExports the user may bind. It holds a
cache of every kcp shard and filters what it finds there by
SubjectAccessReviews. A single-page application logs in by OIDC, shows the
lists, browses a workspace through kcp and binds exports in it.

    Shard objects --informer--> shardReconciler --ensure/remove--> ShardCaches
                                (work queue)                          | AddCache, RemoveCache
                                                                      v
    browser --> API server --> list handler --> Reader --list--> AggregateCache
      (UI)      (authn, authz)     |
                                   +--> errgroup of reviews --> SAR Checker --> kcp

| Component | Source | State | Operations | What is hard | What must hold |
|---|---|---|---|---|---|
| ShardCaches | `pkg/datasource/shardcaches.go` | `started`, `baseCtx`, `active`, `firstSynced`, the aggregate, one context per cache | `Start`, `ensure`, `remove`, `Synced` | the mutex is released while a cache syncs; readers do not take it; shutdown at any moment | readers see only synced, running caches; none leaks; none is swapped; every call returns |
| Shard controller and manager | `shardcontroller.go`, `manager.go` | informer store, work queue | `Reconcile`, `shardConfig` | the object changes while a reconcile runs; errors are retried; a sync without timeout blocks the worker | no event is lost; each cache dials its own shard; deleted shards go, usable ones come |
| Reader and mappers | `reader.go`, `mappers.go`, `datasource.go` | the mapper's map and slice | `Workspaces`, `APIExports`, `mapWorkspaces`, `mapAPIExports` | duplicates between shards, unstable order, partial views | one item per cluster or export, only ready workspaces |
| SAR checker | `pkg/sar/sar.go` | map of decisions with their expiry | `CanAccessWorkspace`, `CanBindAPIExport` | check-then-act without a lock, slow and reordered answers, failures, boundaries of the ttl | an answer is the user's own and not older than can be justified |
| List handlers and process | `cmd/marketplace-vws/main.go` | per list: the snapshot, `keep[i]`, the first error; per process: clients, manager, readiness | `listAccessibleWorkspaces`, `listBindableAPIExports`, `run`, `buildDatasource`, `storages` | 16 reviews at a time, one failing of many, snapshot older than the decisions; signals at any point of the start | exactly the allowed items in order, or an error; ready only when synced; a signal ends the process |
| API server | `pkg/apiserver` | none per request | prefix stripping, authentication, authorization, `List` | order of the handlers, union of authorizers | nobody lists without being authenticated |
| UI session | `ui/src/stores/auth.ts`, `auth/oidc.ts`, `api/client.ts`, `router/index.ts`, `main.ts` | user, `reauthenticating` | login, logout, silent renew, forced re-login | concurrent 401s, late renewals, failing redirects | one redirect at a time, after a renewal was tried; no 401 is dropped |
| UI workspace browser | `ui/src/views/WorkspaceBrowser.vue`, `api/kube.ts`, the other stores | resources, selection, objects, bindings, busy flags | load, pick, bind, unbind, show | answers out of order, a changed path, polls that give up | what is shown belongs to the selection |
| API types | `apis`, `pkg/generated/openapi` | the scheme, the OpenAPI definitions | registration, `GetOpenAPIDefinitions` | written and generated apart from each other | the server starts, and describes what it serves |
| Other views, deployment | `ui/src/views`, `config`, `hack` | | | | not modelled: layout, configuration |

The hazards of each, with their lines, are listed in `PROJECT.json`.

## 2. Modules

| Module | What it is |
|---|---|
| `ShardView` | abstract: what `pkg/datasource` promises to readers. Sources are opened, published when live, withdrawn before they are retired, never swapped in place; readiness needs something published |
| `ShardCaches` | `shardcaches.go`, for any goroutines that call `ensure` and `remove` |
| `ShardController` | `shardcontroller.go` and `manager.go`, composed with an instance of `ShardCaches` |
| `SarChecker` | `sar.go` |
| `FilteredList` | abstract: what a list handler promises. One answer, an error or exactly the allowed items of one snapshot in its order |
| `ListHandler` | `main.go`: `filterWorkspaces` and `filterAPIExports` with their errgroup; implements `FilteredList` |
| `Marketplace` | `ListHandler` composed with `SarChecker`, request after request |
| `Listing` | `mappers.go`, the API types, their JSON, the tables of `storage.go`, and what `ui/src/api/marketplace.ts` reads |
| `Server` | `main.go`: `run`, `buildDatasource`, `storages`, from the flags to the exit |
| `ServedTypes` | API types, `register.go`, the storages, the generated OpenAPI definitions |
| `RequestPipeline` | `pkg/apiserver`: prefix, authentication, authorization, routes |
| `ApiServer` | the two before, one after the other |
| `AuthSession` | `ui/src/stores/auth.ts` with the client, the router and the login views |
| `WorkspaceBrowser`, `BindPanel` | `ui/src/views/WorkspaceBrowser.vue` with `api/kube.ts` |
| `...MC` | instances for TLC; `ListingMC` and `UserInterfaceMC` also have the assumptions of what they instantiate |
| `...Proofs` | theorems and proofs |

Operators introduced by a comment `Fault:` are variants of the definition that
follows them, with a mistake a change of the code could make. Nothing uses them;
`PROJECT.json` names for each property the variants that violate it.

### ShardCaches

A goroutine's place in `ensure` or `remove` is `pc[p]`, its arguments `id[p]` and
`cfg[p]`, the cache it has built `wc[p]`, its last result `ret[p]`. The tables
are `active` (`s.active`, with the cache in place of its cancel function) and
`agg` (the aggregate cache, which has a lock of its own). The context of a cache
runs while the cache is in `open`; `CancelBase` ends the manager context and,
as contexts are nested, all of them.

Every critical section of `s.mu` that touches the aggregate is two steps, with
`mu` held between them: `Register`/`Publish` at the end of `ensure`,
`Unregister`/`Stop` in `remove`, `BeginSweep`/`Sweep`/`EndSweep` in `Start`.
Readers see `agg` in between. A critical section that does not touch the
aggregate is one step guarded by a free mutex. In the second step of `remove`
and in `Sweep`, `cancel` and `delete` are one step, as nobody can see between
them without the mutex; in `Sweep` the `RemoveCache` is in the same step, because
the contexts have ended already. `Synced` only reads `firstSynced`.

The identities of caches come from a finite pool; an identity that nothing refers
to is used again, which stands for the allocator. The MC modules assume a pool
large enough for every caller and every shard. multicluster-provider is outside:
building a cache may fail, a sync may succeed while the cache's context runs,
fail at any time, or never end.

### ShardController

`shard` is the informer store, `dirty` the work queue, `cur[w]` and `phase[w]` say
what a worker reconciles. `GetNotFound` and `GetUsable` are the read of the store
together with the call of `remove` or `ensure` it leads to, since `shardConfig`
touches nothing shared; `GetUnusable` is the error of `shardConfig`. `CallOK` and
`CallFailed` take the result of the call. The queue is that of controller-runtime:
a name is with one worker at a time, an event during a reconcile makes it dirty
again, an error puts it back. Delays of the rate limiter are not modelled: a
dirty name may be taken at any later time. Informer events enter the queue in the
step that changes the store. The program has one worker, as `NewManager` leaves
`MaxConcurrentReconciles` at its default.

`ShardConfig` is `shardConfig`: without a gateway the baseURL becomes the host,
and it is not parsed; with one the gateway is the host and the hostname of the
baseURL the SNI. `BaseURLs[i]` are the values that shard `i`'s object may take.

### SarChecker

A call of `review` is `Review` (entry and key), `GetHit` or `GetMiss` (one critical
section of `c.mu`), `Decide` (kcp evaluates its policy), and `Put` or `CreateFails`.
`ChangePolicy` grants or revokes at any time, `Tick` moves the clock. Entries are
never evicted, only overwritten. A review may take `Deadline`, the time the API
server gives a request, whose context the review runs on; the repository sets no
other. The hash in `cacheKey` stands for the spec it is made of (no collisions).
`ended` is a history variable: when the decision that is not in force now last was.

### ListHandler and Marketplace

`pc` is the handler's goroutine, `task[i]` that of item `i`: `new`, `asking` (in the
checker), `failed` (an error not yet recorded), `ended` (its token not yet given back),
`done`. `Go` is `g.Go`, which blocks while all tokens are taken; `Record` is the `errOnce`
of the group, which also ends the context of the other reviews; `WaitOK` and `WaitFails`
are `g.Wait`; `Collect` is the loop that appends what is kept. A review answers or fails at
any time, also after its context has ended, because the cache of the checker does not look
at it. `End` is the end of the request. Both handlers are this module: they differ in what
an item is and what is asked about it.

`Marketplace` replaces that open review by calls of `SarChecker`: `Go` and `Checker!Review`
are one step, and so are the checker's return and the goroutine's assignment to `keep[i]`.
`Tick` does not pass the deadline of the request.

### Listing

`Scan` is one round of a mapper's loop, `Iterate` the loop over its map, in any order, `Sort`
is `sort.Slice`, which is not stable. Strings are positive numbers in their order, with 0 for
the empty one. `Read` is the JSON (every field is `omitempty`) and the `??` alternatives of
`marketplace.ts`, `Row` and `Columns` the two lists of `storages` that make a table.

### Server

`opts` are the flags and what the files hold, `pc` how far `run` is, `dials` the rest configs
of the clients. The generic API server is external, and so are the manager's own failures and
syncs. It runs the post-start hook, in a goroutine, once it listens. After a signal it fails its
readiness check (`unready`), then takes no new connections (`draining`). From there two things
go on side by side: `StopHooks` ends the context of the listener and the hooks, which does not wait
for requests as `apiserver.New` leaves `ShutdownSendRetryAfter` unset, and `Refuse` waits for the
requests in flight. So the manager may stop, and its caches go, under a list; `RunReturns` waits
for the requests and not for the manager. `failed` is a history variable that tells a manager
that stopped with an error from one that was told to stop.

### ServedTypes, RequestPipeline and ApiServer

A definition is an object's properties (of a type, or an array of it), the required ones, and
its dependencies. `Enter`, `Follow` and `Return` are the builder of the specification, which
follows dependencies depth first. The `Go...` operators are the types as Go encodes them.
`RequestPipeline!Serve` is the whole chain for one request: requests share nothing.
`ApiServer` lets the chain serve once the specification is built.

### AuthSession

`calls` are requests not answered yet, `renewing` the handlers that await `signinSilent`, `forced`
the redirects of `forceReauth` on their way, `reauth` is `reauthenticating`. A redirect that
succeeds ends the page and everything it waited for; `Load` is a page that loads. `stuck` is a
history variable: a forced redirect has failed on this page. The manager's own renewal, which
ends like a request, is among the calls.

### WorkspaceBrowser and BindPanel

The first has the lists: `load[l]` is a call of `loadResources`, `picks[k]` one of `pick`, with the
path and resource it asked for; `stale` is a history variable that says that the answer applied
last was for something else. The second has `openBind`, `bind` and `unbind`: `call[c]` is a call
with the place it awaits at and the path it used there, since each request reads `props.path`
anew. `kcp` is how far each binding is, which kcp changes on its own.

## 3. Runs

| Run | Instance | Shows |
|---|---|---|
| `shard_caches` | 2 shards, 2 goroutines, 4 caches | type invariant, `ReadersSeeLiveCaches`, `NoOrphanCache`, `AggregateMatchesActive`, `RegisteredIsKept`, that `ShardView` is implemented, and `CallsReturn` |
| `shard_controller` | 2 shards, 2 workers, gateway, 5 baseURLs, one empty, one that cannot be parsed, symmetry | type invariant, `SettledMatchesShards`, `DialsOwnShard`, `NoLostRace` |
| `shard_controller_live` | 2 shards, 1 worker, no gateway | `DeletedIsWithdrawn`, `UsableIsRegistered` |
| `shard_controller_url` | as `shard_controller`, 1 worker, no gateway | a violation, see below |
| `sar_checker` | 2 users of one name, 2 callers, ttl 2, deadline 1, clock to 5 | type invariant, `EntriesAge`, `RecentDecision` |
| `list_handler` | snapshots of 0, 2, 3 and 4 items, 2 tokens | `FanOutBounded`, `RootCause`, that `FilteredList` is implemented, and `EveryRequestAnswered` |
| `marketplace` | 2 users of one name, ttl 1, deadline 1, clock to 4 | `InStep`, `SeesRecentDecisions` |
| `listing` | all lists of up to 3 objects over 2 clusters, paths and names | `ShowsEachOnce`, `OrderOfShardsUnseen` |
| `server` | every combination of flags and files, 2 requests, signals | `ReadyMeansLive`, `DialsFrontProxy`, `SignalEndsProcess` |
| `api_server` | every request under every configuration | `ServesWhatIsDescribed`, `SchemasMatchTypes`, `OnlyTheVouchedFor`, `ProbesAnswered`, `PrefixUnseen` |
| `user_interface` | session: 3 requests; browser: 2 paths, 2 resources, 2 loads, 2 picks; panel: 2 calls over 2 exports, and over 2 paths | `OneForcedRedirect`, `SilentFirst`, `UnauthorizedIsHandled`, `SessionRecovers`, `ShowsTheSelection`, `PanelIsHonest`, `NothingStaysBusy` |
| `bind_panel_unbind` | 1 path, 1 export, 2 calls | a violation, see below |

Bounds. Two goroutines are two ensures that race, or an ensure and a remover, next to
`Start`; the proofs allow any number. Two shards make a removal of one overlap the other's
ensure. The code treats shards alike and has no counters, so the state space is finite
without a bound on the length of behaviours. Without a gateway, with one worker, only
liveness is checked: the invariants are proved for both.

In `sar_checker` and `marketplace` the only bound is the clock, `MaxTime`: it holds a review of
full length, the life of its entry, the expiry, and a tick after it; with a bound one tick
shorter `SeesRecentDecisions` fails. The two users differ in their groups only, which is what
`cacheKey` must not confuse. A request of `marketplace` has one item, as `list_handler` has the
crossing of several: 4 items are more than two batches of 2 tokens, so that a goroutine waits
for a token while one fails and a third is cancelled.

In `listing`, 3 objects over 2 values of each field are duplicates, ties and a third that sorts
between or beside them. In `api_server` a path has the prefix up to twice, users are one with the
group that kcp adds, one without it, and one who is anonymous; the order in which the
specification is built does not depend on any bound. In `user_interface`, 3 requests may be in a
renewal each, next to an expiry, so up to 4 callers of `forceReauth` meet; `MaxRedirects` bounds
those on their way and only a mistake in the guard would reach it. Two loads and two picks are the
least that can overtake each other. The parts of the user interface share nothing but the path, so
the run moves one of them at a time.

Symmetry is used in `shard_controller` on workers, which the configuration does not tell apart, and
in `sar_checker`; not in runs with liveness.

Deadlock is not checked where the system stops: a list, a request or a process that is done; and in
the user interface, where nothing more need happen.

Fairness. `ShardCaches!Fairness`: goroutines keep running (weak fairness of each
step), and the mutex is not withheld for ever from a goroutine that waits (strong
fairness of the steps that take it), as `sync.Mutex` hands itself over to a
starving waiter. Nothing is assumed of shards: `SyncOK` has no fairness, and
`SyncFails` only once the cache's context has ended. `FairSpec` of the controller
adds that a dirty name is taken in its turn and that the informer store can be
read. `ShardsAnswer`, that building and syncing a cache for a shard does not
fail for ever, is a premise of `UsableIsRegistered` alone. No fairness is assumed
of the Shard objects, or of the manager's end. `ListHandler` and `Server`: the handler's
and the program's own steps, and that reviews and requests end, one way or the other,
because the API server ends a request at its deadline. In the user interface promises
settle, with either outcome, and the timer of an expired token fires; that a poll ends is
its deadline in `api/kube.ts`. Nothing is assumed of what users do or of what kcp does to a
binding.

### What the violations show

`shard_controller_url` checks what comments and flag help of
`cmd/marketplace-vws/main.go` (lines 61, 157-158) say: without a gateway, each
shard is dialed at its own `spec.baseURL`. The trace: a shard is registered, its
baseURL changes, the reconcile that follows calls `ensure`, which returns at once
because the shard has a cache (`shardcaches.go:70`). The cache goes on dialing the
old baseURL. The same happens when a Shard is deleted and created again with
another baseURL before the worker gets to it.

`bind_panel_unbind` checks the comment of `unbind` (`WorkspaceBrowser.vue:142-143`): "then
wait for kcp to finish removing it before refreshing the resource list". The trace: the
binding is deleted, kcp does not finish within the time of `waitForGone`, which then
returns false; `unbind` does not look at that, says that the export is unbound, and
refreshes the list while its resources are still there. `bind` does look at what
`waitForBound` returns.

## 4. Proofs

`ShardCachesProofs`, from the assumption `Distinct` (`None` and the goroutine of
`Start` are not confused with anything else). The inductive invariant is built in
three layers, each inductive given the ones before:

- `Typing`: `TypeOK`, and that a call in flight has its arguments.
- `Locking`: the holder of `mu` is exactly the process between the two steps of
  its critical section, and the aggregate and `active` differ at most at the shard
  that holder works on. Without it, `AggregateMatchesActive` is not inductive: it
  says nothing about states in which the mutex is held.
- `Owning`: no cache has two owners among the entries of `active` and the ensures
  in flight; owned caches run until the manager context ends, others do not;
  a cache about to be registered has synced. It is what makes it sound to cancel a
  cache in `LoseRace`, `SyncFails` and `Stop`.

From these follow `ReadersSeeLiveCaches`, `NoOrphanCache`, `AggregateMatchesActive`,
`RegisteredIsKept` and, step by step, the refinement of `ShardView`.

`ShardControllerProofs`, from `URLs` and `Names` (the baseURLs of a shard are
baseURLs; `None`, the gateway and the goroutine of `Start` are distinct from the
rest), first shows that the controller takes only steps of `ShardCaches`, so that
the invariant above holds here as well. Then:

- `Queueing`: a goroutine inside `ensure` or `remove` is there for the name its
  worker has, and no two workers have the same.
- `Following`: a call in flight whose name is not dirty again was made for the
  shard as it is now, and if it has returned without error, its result matches.
  With this `SettledMatchesShards` is inductive; alone it is not, since it is silent
  about names a worker has.
- `Alone` gives `NoLostRace`, and `Dialing` (the config of a call, of its cache and
  of a registered cache belongs to the shard) gives `DialsOwnShard`.

`SarCheckerProofs`, from `Users` and `Times`: `Asked` says that an answer about to be
stored was in force when its review began or later. Together with the fact that
`LastHeld` never goes back, and that `cacheKey` is injective on requests, it gives
`EntriesAge` and `RecentDecision`: an answer is what kcp would have decided about that
user and request at most a ttl and a deadline ago.

`ListHandlerProofs`, from `SnapshotsAreSeqs`, `LimitIsPositive` and `Answers`, for snapshots of
any length. Beside the two invariants it proves, `IInv` has `Grouped` (goroutines start in order
and none runs outside fan-out and wait; `FanOutBounded` says nothing of the step that starts
the next), `Blamed` (every error of a review has its reason, and a goroutine is only past
recording it if the group has an error; `RootCause` alone does not know what a goroutine is
about to record), `Unreviewed` (without a checker no goroutine runs) and `Collected` (what the
loop has appended so far lists what was kept so far). With these, each step of the handler
and its goroutines is a step of `FilteredList` or is not seen there, so that
`AnswersLikeFilteredList` is a theorem.

`MarketplaceProofs`, from the assumptions of the two modules it composes, does not prove them
again: it shows that each step is a step of `ListHandler`, or starts the next request, and a step
of `SarChecker`, so that both invariants hold here. `Timely` (a request not answered is within
its deadline) and `Kept` (the verdict of a review of this request was right at most a ttl and a
deadline before the request began) are what `SeesRecentDecisions` needs until the handler
answers; `InStep` (a goroutine is asking if and only if the checker has its call, about its item
and user) is inductive with them, since the handler's invariant says that a request that is
over has no goroutines. The theorem is about requests of any number of items.

`ServerProofs`, from `Hosts` (the value for no SNI is no hostname). `TypeOK` alone is not inductive;
`Sourced` (past the datasource the lists have a source, and the rest configs are those of the
flags), `Checked` (what listens for shards has the readiness check) and `Bound` (the hook's context
ends after readiness has gone, and only that or an error of its own stops the manager) are. They
give `ReadyMeansLive` and `DialsFrontProxy`.

`ApiServerProofs`, from `Identities`, `Groups` and `NoneIsNoPath`: what authenticates a request
gives no anonymous user the groups that authorize, and the group of the unauthenticated is not one
of them. `DefinitionsClosed` (a schema refers only to the dependencies of its definition, which
are defined), `DefinitionsMatch` (the served types are described as Go encodes them) and
`StoragesKnown` are facts about the data. With `Followed` (the dependencies of a definition that is
built are built, or wait on the stack) and `Routed` (the lists of an installed storage are built or
to be built) the specification is complete when the stack is empty, in whatever order it was
built: `ServesWhatIsDescribed`, `SchemasMatchTypes`. `Answered` says that the status is that of
`Serve`, from which the other three follow by cases.

The last part of that module is about `Listing`, for lists of any length, from `Strings` and
`Lengths` (paths and names are compared, a list is finite). `PagesInv` follows the objects: the
map has for each key the last object seen with it (`MapInv`), the slice has the values of the
map, each once (`SliceInv`), in the order of the sort (`Sorted`), and what is shown is the slice,
item by item. `ShowsEachOnce` is then a fact about the mappers; for `OrderOfShardsUnseen` the
objects that precede one are shown to be as many as the places before its own.

`UserInterfaceProofs`, from `Bound`, `Apart`, `Places`, `Rows` and `Records` (values the code tells
apart differ, and there is an export to bind), has one invariant for each part. The session's `Guarded`
says that there is at most one forced redirect, and none but under `reauthenticating`, which
stays set only while one is on its way or after one failed; so the bound `MaxRedirects`, which
is at least 2, never bites. The browser's says that a loader waits for one pick at most, and
that the selection is among the resources listed (`SelectedIsListed`), without which
`ShowsTheSelection` is not inductive. The panel's says that each call is one of those the
code makes, that busy flags are set only with a call in flight that resets them, and that
"Binding..." stands only while a call polls or next to an error; both instances of `BindPanel`
take steps of one, about which it is proved.

Only model-checked: the liveness properties `CallsReturn`,
`DeletedIsWithdrawn`, `UsableIsRegistered`, `EveryRequestAnswered`, `SignalEndsProcess`,
`SessionRecovers` and `NothingStaysBusy`, as fairness and ENABLED are out of the prover's reach;
and the instances' assumption that the pool of caches is large enough, which no safety proof
needs.

## 5. Limits

- After `Start` has returned, an ensure that was in flight may still register its
  cache, whose context has ended. The model has this behaviour; readers may then
  see a cache that no longer follows its shard, which `ShardView` allows only while
  it is closing.
- Readiness is latched by the first shard and withdrawn only by a shutdown: it stays when other
  shards are missing, when the last one is removed, and when the manager has stopped with an
  error, which `main.go:93` only logs. `ShardView` states that something was published first,
  and `ReadyMeansLive` excepts a manager that failed.
- At a shutdown the context of the hook ends while requests are still answered. A list in
  flight may then be made from caches that `Start` is sweeping, and be short with status 200.
  `Server` and `ShardCaches` both have this behaviour; no property forbids it.
- The reviews of a list are recent (`SeesRecentDecisions`); how old the snapshot is that they
  filter has no bound in the code.
- Which of two objects with the same key is shown is not fixed: the one listed last.
- An older decision may replace a newer one in the SAR cache. No property forbids
  it; the bound of `RecentDecision` covers it.
- The generic API server and its filters for impersonation and for requests in flight,
  kube-openapi, controller-runtime, errgroup, oidc-client-ts, vue-router and kcp are external:
  modelled as the code here uses them. OpenAPI definitions that no route of this server leads
  to are left out.
- A list without items is a nil slice, which is sent as `"items": null`, although the
  generated schema (`zz_generated.openapi.go:155`) requires an array. The JSON of lists is not
  modelled; `marketplace.ts` takes null for an empty list.
- `reauthenticating` is never reset on a page. After a forced redirect that failed, later
  401s are dropped, although `client.ts:11-12` says that any 401 may renew or log in again.
  `UnauthorizedIsHandled` and `SessionRecovers` except that case (`stuck`).
- A silent renewal that answers after a logout puts the user back, until the sign-out
  redirect ends the page. The model has this behaviour; no property forbids it.
- After a change of the path the listed bindings are those of the workspace before, until the
  panel is opened again, although `boundName` (`WorkspaceBrowser.vue:40`) speaks of "already bound
  here". The model has it; no property forbids it.
- Exports of one name collide in the bind panel, which names bindings after them; in the model
  the names differ. The YAML viewer, and the two list stores, which keep the answer that came
  last, are left out.
- Answers to two picks or two discoveries that cross each other are applied as they come:
  `ShowsTheSelection` excepts them (`stale`). A second bind or unbind may empty the busy slot
  while the first still runs: `PanelIsHonest` says that a busy button has a call, not that a
  call has a busy button.
- Left out of the interface: that an automatic renewal refreshes `user` when it succeeds (one that
  fails is modelled), the fetch of the exports that `openBind` awaits before its review, and
  several tabs that share a session.
- Two workspaces with one path may change places from list to list, as the sort of
  `mapWorkspaces` is not stable; `OrderOfShardsUnseen` is about paths that differ.
- The generated deep copies are left out: nothing in `src/` calls them, and `ObjectMeta`, most of
  what they copy, is external.
- The SAR cache never evicts, and what it holds is not bounded by anything but the clock.
- `TypeOK` of the modules from `ListHandler` on is not a property of a run: it is part of the
  invariants proved of `ListHandler`, `Server`, `AuthSession` and `WorkspaceBrowser`, and
  describes the variables for the reader in the others.

## 6. Plan

Done: everything in the table of section 2. Left, in this order:

1. The aggregate's contents: `Listing` over the snapshots that `ShardView` allows.
2. The YAML viewer and the list stores.

# go-cachex: specifications, model checking and proofs

This directory holds TLA+ specifications of the concurrent and distributed parts
of go-cachex, the TLC configurations that check them on small instances, and
proofs checked by TLAPS. `PROJECT.json` maps every definition to the lines of
the code it stands for and lists the runs, the mutants that show what each
property is sensitive to, the findings, the hazards and the theorems.

## 1. The system

go-cachex is one Go package with three layers.

| Layer | Components | State | Operations |
|---|---|---|---|
| Local caches | `LRUHandler`, `LRUOptimizedHandler`, `ExpiringHandler`, `RistrettoHandler`, `ShardedHandler`, `TwoLevelHandler`, `CtxCache`, `GenericTTLCache`, `ObjectPoolManager` | maps, lists, expiry times, flight groups | Get, Set, Del, TTL, GetOrCompute, sweep |
| Redis-backed caches | `RedisHandler`, `KVCache`, `ModelKV`, `ModelCache`, `HotKeyCache`, `MultiLevelCache`, `CachePattern`, `AdvancedCache`, `SmartCache`, `CacheWrapper`, `CacheIndexManager`, `VersionTracker` | Redis keys and hashes, local copies of them | read-through, write-through and write-behind, invalidation, refresh |
| Coordination over Redis | `DistributedLock`, `LockManager`, `DelayQueue`, `SchedulerManager`, `DurableChannel`, `QueueHandler`, `DeadLetterQueue`, `PubSub`, `IDGenerator` | lock keys, sorted sets, lists, counters; goroutines, worker pools, channels | lock, unlock, renew; enqueue, poll, ack, cancel; send, receive, recover; subscribe; generate |

How they interact: `CacheWrapper`, `AdvancedCache` and `SmartCache` guard loads
with `DistributedLock`; `KVCache` and `GenericTTLCache` send invalidations
through `PubSub`; `SchedulerManager` is a registry of `DelayQueue`s;
`DeadLetterQueue` sits on `QueueHandler`; `ModelKV` and `ModelCache` sit on
`KVCache`; the local handlers all implement `Handler` and are composed by
`TwoLevelHandler`, `ShardedHandler`, `CtxCache` and `Client`.

What is hard in it: several processes share Redis keys and may crash between two
commands; a command may fail with its effect done or not; keys expire under
their users; background goroutines (watchdogs, consumers, workers, delayed
writes) outlive the calls that started them; state read before a command or an
unlock is used after it. `hazards` in `PROJECT.json` lists these by line. What
makes each component correct:

* **Lock**: one holder; only the owner touches the key; a lease lasts while it is
  wanted and not longer.
* **Delay queue**: an accepted task is kept until it is done, dead or cancelled; a
  key is run by one worker at a time; shutdown waits.
* **Durable channel**: an accepted message can be received; `Close` is safe and ends.
* **Id generator**: no id twice, no gaps.
* **Loads** (`CtxCache`, `CacheWrapper`, `LRUOptimizedHandler`, `RedisHandler`,
  `SmartCache`, `AdvancedCache`): concurrent misses are merged, locks are given back,
  every call returns.
* **Copies** (`KVCache`, `TwoLevelHandler`, `MultiLevelCache`, `HotKeyCache`,
  `GenericTTLCache`): a copy does not stay stale once writes have ceased.
* **Local structures** (LRU, CLOCK, expiry, object pool): map, list and counters agree,
  an entry leaves only for a reason, what is evicted is what the policy says, a pool that
  runs low is filled.
* **Queues** (`QueueHandler`, `DeadLetterQueue`): an item goes to one worker, in the order
  of its kind, and is given up only after its retries.
* **Subscriptions** (`PubSub`): a subscriber has one loop, which lives until it is stopped,
  and stopping waits for it without waiting for itself.

## 2. Modules

Each component has a module. `Lifecycles`, `Queues`, `Loads`, `Copies` and `LocalCaches`
instantiate those of a family: a variable (`kind` or `runs`) chosen at the start says which
component runs; the others keep their initial state, so one run checks the family against
the properties its members share, and one theorem states each of them. The `MC` modules
(MCDistributedLock, MCDelayQueue, MCLifecycles, MCQueues, MCLoads, MCCopies) only give
constants the values a `.cfg` cannot write, such as a function from callers to instances;
nothing is defined there that a theorem would need. Operators whose comment describes a slip of
the code (`TryLockGetTrusting`, `FoundLocally`, `\* mutated`, ...) are used only as
mutants; no specification reaches them. A part called history is not in the code: it
remembers what a property needs.

### Coordination over Redis

**DistributedLock** (`distributed_lock.go`). State: the Redis key (`owner`, `ttl`); per lock
object `acquired`, `token`, `stopChan`; per goroutine `pc`; per acquisition a watchdog
`wd[t]`. A token names the acquisition, its stop channel and its watchdog. Every method
runs under `l.mu` and is one action, but `TryLock` sends two Redis commands and is two
actions (`TryLockGet`, `TryLockSetNX`) with the mutex held in between (`MuFree`). `LockOf`
says which object a goroutine calls: its own, or one shared through a `LockManager`. The
watchdog is split at its `select`, its check of `acquired`, `IsLocked` and `Extend`. Faults
are constants: `RedisFaults` (a command fails, done or not), `Crashes`, `CallerCancels`,
`UseTimeout` (the context of `LockWithTimeout` and of `CacheWrapper`), and `Prompt`, under
which no tick passes while a goroutine has work.

**LeaseLock** (what `distributed_lock.go` promises). The lease that the objects of one key are
together: who has it, who believes so, and the time left. It is granted only when it is
free and ended only by its holder or by time; a client that only believes it has it finds
out and changes nothing. `ImplementsLease == Lease!Spec` maps the state of
`DistributedLock` to it (`Holders`, `Claims`).

**DelayQueue** (`delay_queue.go`). State: the ready and processing sorted sets with scores
counted in ticks to go, the hash of bodies, the dead letters; per pod the consumer and its
worker slots. Each Lua script is one action; `handleTask` is cut between the handler, the
ack and the re-enqueue, which are separate commands. A task is a key plus the number of
the Enqueue call it came from, so that a re-enqueued key is a new task. `done`, `dead`,
`cancelled`, `dropped` and `claimant` are history.

**DelayConsumers** (`delay_queue.go`). `StartConsumer`, `StopConsumer`, `Stop` and the
consumer goroutine's life for one queue name, cut where `q.mu` is released. `usage` says
whether callers let starts overlap and use `StopConsumer`.

**DurableChannel** (`durable_channel.go`). State: the Redis list, the buffer of `memChan`,
the persist pool, each Send, each worker, Close. A worker's pop and push are two actions; the
list may expire whenever nothing has been pushed to it for its TTL (`ListExpires`, at any moment).
`Restart` is a crash, or the end of the process after `Close`, followed by
`NewDurableChannel`, which recovers messages before it starts the workers. `exposed` is history:
the messages of which the program has lost a copy.

**IDGenerator** (`id_generator.go`). A counter and a TTL per time prefix, the clock, the
calls under way. A call formats its prefix first and reaches Redis up to `Lag` ticks later.
Each script is one action; `ResetSequence` is two commands and two actions. `ResetsAlone`
keeps other calls away from a reset.

**Queue** (`queue.go`). The list or sorted set, the delay set, the failed items and the lock
of one queue; each worker's way through lock, dequeue, handling and `RetryFailed`. An
attempt is an item with its retry count. ZRANGEBYSCORE and ZREM of the delayed kind are two
actions; the other kinds pop in one. Workers crash and the lock times out.

**DeadLetterQueue** (`dead_letter_queue.go`). `Push` is an append, a look at the length and
one pop for each letter too many, by several pushers at once, with commands that fail.

**PubSub** (`pubsub.go`). The registry, and per Subscriber `isActive`, `stopChan`, `stopMu`,
the worker pool and `messageLoop`. Sections under `p.mu` and `s.mu` are single steps;
`stopMu` is held over the waits of `Stop` and `Resubscribe` and is a variable. Connections
are lost and made again within a window of attempts; the application may close the
client; handlers run in the pool.

### Loads

**CtxCache** (`ctxcache.go`). One key: present or not, the flight map's entry, and each
caller's way through `GetOrCompute` and `flightGroup.Do`. Loaders may fail or panic,
contexts end.

**CacheWrapper** (`wrapper.go`). One cached row with versions: the wrapped function with its
lock, polling, double check, penetration default and asynchronous update, and `updateCache`
with the second, delayed deletion and write. Every call makes a lock object of its own, so a
lock is one variable, `holder`; `LeaseLost` lets its TTL run out under the holder, and a
`Lock` or a deferred `Unlock` whose command fails leaves the key with the token of a call that
is over (`Gone`), until its TTL (`ExpireGone`).

**LoadOnce** (`lru_optimized.go`, `redis.go`, `cache_builder.go`, `advanced_cache.go`). The four
other ways to compute a missing value once, told apart by `flavour`: a map of loads per
instance whose entry outlives the load, a lock in Redis with a back-off for those without
it, both, or the lock alone. Each command, loader and context may fail, loaders panic, and
leases run out. A lock from `LockManager.GetLock` is one object for all callers of an instance:
`token` is what it believes to have, and `Share` is its TryLock that says yes to the next caller
while it has the lock; `SetNX`, `ForgetToken` and `LockFails` are its other ways. `shared` and
`lapsed` are history.

### Copies

**KVCache** (`kv_cache.go`). Nodes with a local map, the hash in Redis, the application's table,
invalidations in flight. A row that is written goes into the hash alone, so a hash may have some
rows of the table and not others. `Get`, `GetMany`, `Set`, `SetMany`, `Delete`, `DeleteMany`, `Clear`,
`LoadAll`, `Refresh` and `RefreshAndSwap` are cut at every command and every unlock; the
three kinds of cache (loader by name, keys that are not strings, batch loader) differ in
what an invalidation does and in where a miss is looked up.

**GenericTTL** (`generic_cache.go`). Nodes with a map in front of a source; `Load` with its
lazy deletion, `Store`, `Delete`, `Clear`, `Invalidate`, and the messages.

**TwoLevel** (`twolevel.go`). One key in two handlers that may fail or lose it, write-through or
not; the goroutines that write to a level after the call has returned are a count per
level and value.

**MultiLevel** (`multi_level_cache.go`). `MultiLevelCache` and the four patterns of `CachePattern`
for one row; the second, delayed delete and the write-behind are agents of their own. `Clear`
is modelled as `InvalidateL1` is, because it does not reach L2 (known deviations).

**HotKey** (`hotkey.go`). Instances with their map and `accessOrder`, one Redis key with the
whole map, `autoRefresh` and eviction beside the calls.

**CacheIndex** (`cache_index.go`). The index set, the cached keys, and calls of the wrapped
function between their registration and their store. `late` is the write a call leaves to a
goroutine: the asynchronous one, and the second one 100 ms after the first. `missed` is history.

### Local structures

**BoundedMap** (the interface `Handler`, `cache.go`). What the in-memory handlers promise of
their entries: one that is stored stays until it has expired, a call in progress deletes
it, or its room is full. It is the abstract specification of the next three.

**LRUCache** (`lru.go`), **ClockCache** (`lru_optimized.go`), **ExpiringCache** (`expiring.go`). A
call is its look at `closed` and then its critical sections; the map, the list or ring, the
counters and access bits, and the goroutine that sweeps are state. Each has a refinement
mapping to `BoundedMap` (`Doing` maps a call to what it may still do to which keys) and
`KeepsEntries == Map!Spec` says that it implements it. `Unlink` is what `list.Remove` leaves;
the shards of LRUOptimizedHandler are any partition of the keys (`Shards`), each with a ring.

**ObjectPool** (`object_pool.go`). The channel of objects, the three fills (at registration,
beside it, periodic), each a goroutine that checks, makes and puts; `Stop`; a factory that
fails or panics, which in the synchronous first fill leaves a pool that is registered and never
filled again (`NotStarted`).

## 3. Runs

Runs that pass; each property has a mutant of the code that breaks it.

| Run | Components | Question |
|---|---|---|
| LockSafety | DistributedLock | does the key stay with one owner, is stale local state never trusted, and do the objects implement a lease, under crashes, lost answers, cancelled contexts, delays and a shared object? |
| LockLease | DistributedLock | is a renewed lease never lost, does it exclude, and do idle watchdogs end? |
| DelayLive | DelayQueue | does one worker at a time run a key, is an ack by who has the task, is a dead letter final, is every task settled? |
| DelayFaults | DelayQueue | is an accepted task ever nowhere, with errors, slow handlers, a full pool, Stop and a crash? |
| Lifecycles | DelayConsumers, PubSub | is there one goroutine per consumer or subscriber, does it live until it is told to stop, do Stop and Close wait for it, and do all calls return? |
| Queues | Queue, DeadLetterQueue, DurableChannel, IDGenerator | is an item given once, in order where one command pops it, and given up only after its retries; is the bound of the dead letters kept; is a message lost only in the known ways and not multiplied, and is Close safe and does it end; are ids unique and dense? |
| Loads | CtxCache, CacheWrapper, LoadOnce | is a load run once at a time where it is to be merged, are locks given back unless a command on them fails, and does the TTL free them then, do calls return? |
| Copies | KVCache, GenericTTL, TwoLevel, MultiLevel, HotKey, CacheIndex | is a row that is there found but for the known case, does a write that ran alone leave no old copy, can whatever is cached be evicted, or deleted by its index if its place there is not lost, do refreshing and TTLs set right what races have spoilt? |
| LocalCaches | LRUCache, ClockCache, ExpiringCache, ObjectPool | do the handlers implement the bounded map, do list, ring and counters agree with it, is what is evicted unused, do expired entries go, does Close return, are pools filled? |

Runs that end in a violation of a promise the repository makes in a comment or in
its docs (quoted in `findings`):

| Run | What happens |
|---|---|
| LockTimeout | `LockWithTimeout` cancels the context its watchdog lives on, and the lease lapses |
| DelayStop | a failed task acked before `Stop` is refused by the re-enqueue and lost |
| DelayReschedule | the ack of the running task deletes the body of the one enqueued meanwhile |

### Known deviations

The properties name their preconditions; each was found necessary by a behaviour of the
model that breaks the property without it. What the code does, with the place:

Locks and loads
* `MutualExclusion` needs `OwnObjects`: `LockManager.GetLock` gives all callers of a key
  one object, and `TryLock` answers true to every goroutine using an object that
  already holds (`distributed_lock.go:140`). It needs the watchdog: `MutexLock` has
  none, and an operation longer than the TTL runs beside the next
  (`distributed_lock.go:640`).
* A watchdog reads `l.stopChan` only when it first runs (`distributed_lock.go:351`).
  After a release and a new acquisition it listens to its successor's channel, so
  its own signal is never read, whatever `distributed_lock.go:166` says; it ends
  all the same (`WatchdogsEnd`), by looking at `acquired`.
* `CleanupExpiredLocks` forgets an object that is held when `IsLocked` fails
  (`distributed_lock.go:607`).
* `OneLoader` does not mean one load: a caller of `CtxCache` that missed before the leader
  stored its value loads again (`ctxcache.go:134` against 104). In `CacheWrapper` it
  speaks of callers that got the lock: without the option concurrent misses all load
  (`wrapper.go:594` against `docs/WRAPPER_ADVANCED.md:243`).
* `RedisHandler`, `SmartCache` and `LRUOptimizedHandler` give the followers of a loader that
  panics an empty value and no error, and keep a finished load for 10 ms, in which a
  value that has been deleted or set meanwhile is answered from it
  (`lru_optimized.go:772`).
* `AdvancedCache.GetOrSet` without the lock loads and does not store; `SmartCache` loads
  beside the holder when `Lock` fails, and its refresh in the background merges with
  nothing (`cache_builder.go:414`).
* All callers of one `AdvancedCache` share one lock object per key (`advanced_cache.go:268`), which
  says yes to each of them while it has the lock (`distributed_lock.go:140`): they load side by
  side, and the `Unlock` of the first opens the lock for other instances. `OneLoader` says of
  `AdvancedCache` only that callers whose object was not shared so exclude each other.
* `Unlock` with a context that has ended, or that Redis does not answer, is ignored and leaves the
  key to its TTL (`wrapper.go:585`, `distributed_lock.go:232`). `LockGivenBack` therefore says
  that only a failed command leaves a lock behind, and that it becomes free again.
* A panic of the loader leaves `CtxCache`'s flight in the map (`ctxcache.go:225`): later callers
  wait for a load that nobody runs, until their contexts end.

Queues and subscriptions
* `OnlyHolderAcks` needs handlers that keep within the visibility timeout: the ack
  script does not know whose claim it removes (`delay_queue.go:229` against 224).
* A task cancelled while its handler runs comes back when the handler fails
  (`delay_queue.go:757` against 17).
* Two pods run tasks of one ordered queue at the same time, since a pod waits only for the
  job it submitted itself (`delay_queue.go:700` against 14). No property speaks of `Ordered`.
* `OneConsumer` needs starts that do not overlap: `q.mu` is released between the look
  at the map and the registration (`delay_queue.go:636` against 594). `ConsumersEnd`
  (in `CallsEnd`) needs no `StopConsumer` followed by a start: the leaving goroutine removes its
  successor's entry, so `Stop` waits for a goroutine it has not cancelled
  (`delay_queue.go:647` against 824).
* A durable channel loses an accepted message in five ways, and `AcceptedKept` says that there
  is no sixth: it was in memory when the process crashed (`durable_channel.go:581`); a worker
  had it in hand at Close and cannot put it back with a context already cancelled
  (`durable_channel.go:602`); Redis had popped it for a BLPOP, or for an LPOP of the recovery,
  whose answer was lost (two ways); the list expired, 24 hours after the last push by default
  (`durable_channel.go:245`, 475). In hybrid and async mode a message may be received twice
  (`durable_channel.go:362`), hence `AtMostTwoCopies`.
* `UniqueIds` needs `ResetsAlone`: the reset is EXISTS, then SET (`id_generator.go:266`
  against 248). With the default sequence start of 1 a key made by `GenerateIDs` has no expiry
  (`id_generator.go:200`), and stays for ever unless a `GenerateID` meets it first; no property
  says that keys expire, and the run starts at 5.
* `InOrder` says nothing of the delayed kind: what ZRANGEBYSCORE returns by score is not compared.
* `GivenOnce` of a delayed item needs the lock, and a lock that has not timed out: the
  result of ZREM is ignored (`queue.go:247`). `RetryFailed` puts every item in the delay
  set, which consumers of the other kinds do not read; `Contains` looks at the first
  thousand items.
* `DeadLetterQueue.Push` takes more letters than are in excess when pushes race
  (`dead_letter_queue.go:193`), so `TrimsToMax` is a bound from above only.
* `PubSub`: `Stop` returns at once when `isActive` was cleared by a loop that is still
  draining (`pubsub.go:686`). `Subscribe` on an occupied channel replaces the entry and
  leaves the old Subscriber to itself; a `Subscribe` that fails and an `Unsubscribe`
  delete the channel's entry, whoever's it is; a `Resubscribe` that fails leaves its
  entry. A loop started while `Close` runs may outlive it (`StopWaits` speaks of the
  loops that ran when it began). A handler that stops its own subscriber waits for
  itself. `StartRetryWindow` 0 retries for ever.

Copies
* A `KVCache` with a loader by name and string keys takes a hash that has any row for the whole
  table (`kv_cache.go:687-708` against 20-21): after the TTL and one `Set`, or when the row came
  after the hash was read, `Get` answers "not found" for a row that is there, and the local
  map loses the others. `GetFindsRow` names this as its exception. A stale copy without
  auto-refresh stays until the next write.
* `TwoLevelHandler` promotes without a TTL, so a value read once no longer expires in L1;
  its asynchronous writes to L2 run in any order (`twolevel.go:79`). `QuietLevelsAgree`
  therefore speaks of writes that ran alone.
* `MultiLevelCache.Clear` passes the namespace to `AdvancedCache.Clear`, which puts it in front
  again (`multi_level_cache.go:233`, `advanced_cache.go:349`): L2 is not cleared.
* The second delete of `CacheAside` does not reach an L1 that a slow `Get` fills after it
  (`multi_level_cache.go:112`); only the TTL does. `WriteBehind` writes the database in
  any order (`multi_level_cache.go:322`).
* The delayed second write of `CacheWrapper` stores the data of its own update, so an older
  one may be last (`wrapper.go:719` against 718).
* `HotKeyCache` saves its whole map, so instances undo each other's writes, and a `Set` after
  an eviction saves the map without what was evicted; `LoadAll` reads back what Redis
  still has. `Delete` leaves the key's place in `accessOrder` (`hotkey.go:392`), which grows
  as keys come and go.
* The lazy deletion of `GenericTTLCache` may remove an entry stored after it looked
  (`generic_cache.go:186`).
* `CacheIndexManager` ignores a failing SADD (`cache_index.go:166`). A call goes on writing after
  its registration, in the goroutine of `UseAsync` too (`wrapper.go:652`), and once more 100 ms
  later (`wrapper.go:711`): a `DeleteByIndex` before the last of these writes leaves the key
  cached and in no index until the next call, and a `DeleteByKeys` finds its key back.
* `VersionTracker.GetOrCreateVersion` reads, then writes (`resource_version.go:141`).

Local structures
* CLOCK evicts the entry just inserted when every older one has its access bit; the
  fallback after the scan is never reached (`lru_optimized.go:311`). `UsedSurvives` is what
  remains of a second chance.
* `ExpiredGoes` holds when the sample takes in the whole map; a smaller one may miss an
  entry for ever.
* An object pool of capacity 1 or 2 has a default `MinThreshold` of 0 and is not filled
  again once it is empty (`object_pool.go:203`). The comment of `ColdStartCount` gives a
  default of an eighth of the capacity; the code leaves it 0. A factory that panics in the
  synchronous first fill leaves `Start` with the pool registered and marked as started, and
  without its periodic task (`object_pool.go:304`).

### Bounds

Two pods, processes, nodes or callers are where the races are: each deviation above needs
two actors, and most runs have a third to spare (a goroutine on a shared object, a
watchdog, a background refresh, a late write). Two tokens let a lock be taken, lost and
taken again while the first watchdog lives; a token is reused only when nothing
remembers it (`FreshToken`), and the theorems hold for any number. TTLs are 2 to 4 ticks,
so that an event can fall before, at and after each deadline; where time itself does not
matter, expiry is an action that may come at any moment. Retries, versions, crashes, calls
and ids are bounded by constants named in each module (`MaxRetries`, `MaxVersion`,
`MaxCrashes`, `MaxCalls`, `MaxIds`, `Horizon`, ...); each is large enough for its mutants,
which use the last value. Faults are bounded by a budget (`MaxFaults`, `MaxMishaps`,
`MaxErrors`): one or two failures at any point of a behaviour, after which it has to heal.

| Run | Instance |
|---|---|
| LockSafety, LockLease | three goroutines on two objects, or two on objects of their own; two tokens |
| DelayLive, DelayFaults | two pods and one or two keys with retries, or one pod with two slots and faults (`MaxRetries = 0`: the gap between ack and write-back is the same in the dead letter and in the full pool) |
| Lifecycles | three starts of one consumer; two subscribers of one channel, two callers, three calls, one event and a pool of one, so that a loop's Submit does not block |
| Queues | two items and two workers, one retry, one mishap; four letters; three messages, two movers, two crashes, a list that expires at any moment; eight ticks, six ids |
| Loads | three callers of `CtxCache`; two of `CacheWrapper` with two versions and commands that fail; two instances with three callers, one call each and two mishaps |
| Copies | two nodes, two versions, one fault for each kind of copy; two keys for `KVCache`, of which one changes: a node that writes, and one with a reader and a refresher; one key for the others, but for `HotKeyCache` also one instance with two keys of which it is to keep one; two keys of one index |
| LocalCaches | three keys in room for two, in one shard, two callers; two keys for the sweep; pools of capacity 1 to 4 |

Symmetry is used only in runs without liveness properties. Deadlock checking is
off only where calls are bounded and the system may run out of them.

### Fairness

Weak fairness of goroutine steps: the Go scheduler runs what can run. The watchdog's steps
have strong fairness, because `sync.Mutex` hands itself to a waiter it has starved. Time
passes, and with `Prompt` goroutines catch up with it again and again (`[]<>Quiet`), so
that no infinity of calls and crashes fits into one tick. Handlers and loaders return.
TTLs that the code sets run out (`Expire1`, `Expire2`, `Lapse`, `ExpireLeft`, `ExpireGone`), and
tickers tick (`Tick`, `Refill`, `BeginRefresh`, KVCache's `RefreshCall`). In `Copies` nothing else
is fair: the goroutines that refresh go on, while a call may stop anywhere and a message that
was sent may never be handled. Callers are not obliged to call, Redis not to fail, contexts
not to end; only in CtxCache, whose liveness property is what a deadline is worth, is
every context bound to end.

## 4. Proofs

Every safety property and action property of the passing runs is stated by a theorem,
for any sets of actors, keys and messages and any value of the bounds. Each
`<module>Proofs` extends the component's module or the composition that the run checks;
the theorems are about its `Spec`, which the fair specification of the run implies.
A hypothesis of a theorem is a condition on the constants, named below; a condition on the
behaviour (a write that ran alone, a lease that has not lapsed, a message not exposed)
is part of the property. Hypotheses such as `NoWorker \notin Workers` only keep a mark apart
from the actors. In a composition the step lemma `Steps` says that a step of the system is a
step or a stutter of each component, and each component has its own invariant.

**DistributedLockProofs**, from the named assumptions on the constants:

* `TypeCorrect` (`TypeOK`) and `AtMostOneHolder`: `SafeInv` is the inductive invariant. `OneHolder`
  alone is not inductive: SETNX gives the key to a token chosen in an earlier
  step, so the invariant has to say that the tokens of objects that hold or are
  in the middle of TryLock differ (`DistinctTokens`), that a mutex admits one
  TryLock at a time (`OneInFlight`), what the object looks like meanwhile
  (`InFlightState`), and that key and TTL agree (`KeyHasTTL`).
* `OwnerOnly`, `GrantsAgreeWithRedis`: action properties from the same invariant.
* `LocksAreALease` (`ImplementsLease`) is the refinement: no object has the lease at the start,
  and every step of the objects is a step of `LeaseLock` or leaves it alone. There is one
  lemma for each action that can disturb the lease (`SetNXOnLease`, `UnlockOnLease`,
  `CrashOnLease`, `TickOnLease`, ...), and `HoldsAlone`, from `SafeInv`, is why a step of the
  object that has the lease leaves nobody else with it. It needs no condition on
  scheduling, Redis or contexts: what `LeaseConditions` adds is only that the belief is true.
* `LeaseIsKept`: under `LeaseConditions` (watchdog on, prompt scheduling, no Redis faults,
  no cancelled context, interval and every Extend above one tick below their
  TTL) `LeaseInv` is inductive: each lease has a live watchdog of its own
  acquisition, on an unsignalled channel, whose ticker fires before the TTL ends,
  with a case for each point of the watchdog's loop.
* `GoroutinesExcludeEachOther`: with `OwnObjects`, mutual exclusion of goroutines. The
  run LockTimeout and the deviations above show that the conditions are needed.

**DelayQueueProofs**. `~Reschedules` says that producers leave queued keys alone (the run
DelayReschedule shows what happens otherwise), `~SlowHandlers` that handlers keep within the
visibility timeout.

| Theorem | Property | Hypotheses | Inductive invariant |
|---|---|---|---|
| `TasksAreKept` | `TaskKept` | `~Reschedules` | bodies in the hash and in hand are the last version (`BodyIsCurrent`, `HandsAreCurrent`), and a body has its key in one of the two sets (`BodyIsQueued`) |
| `OneRunAtATime`, `OnlyHolderGivesUp` | `OneRunPerKey`, `OnlyHolderAcks` | and `~SlowHandlers` | `ClaimInv`: who has a key claimed it last and in time (`OwnClaim`), and has it in one place (`OneInPod`, `OneOfEach`) |
| `BuriedStaysBuried` | `BuriedIsFinal` | and `~RedisFaults` | `FinalInv`: a job whose handler has failed has no body in the hash any more; a version done or dead is old, or its key is gone |

**QueuesProofs**.

| Theorem | Property | Hypotheses | Inductive invariant |
|---|---|---|---|
| `GivenToOne` | `GivenOnce` | | an item waits, is in the queue or is in a hand, as one attempt that later ones have not overtaken (`InOnePlace`), while one worker at a time has the lock (`Locked`) |
| `GivenUpAfterAllTries` | `RetriesSpent` | | `Chain`: an attempt exists only if all those before it have been given out |
| `ItemsInOrder` | `InOrder` | the four types, of which three have an order | `Ordered`: the queue lies as its items arrived, or in the reverse for LIFO; in a queue that is not delayed, what waits is retries; of the delayed kind nothing is said |
| `PushesTrim` | `TrimsToMax` | | `LettersInv`: each letter too many is owed by a push under way or by a command that has failed |
| `AcceptedIsKept` | `AcceptedKept` | | `MessagesKept`: who has sent, and has lost no copy, has one in a place from which it can still be received; each step that takes a copy away without a receiver exposes the message |
| `NoThirdCopy` | `AtMostTwoCopies` | | `CopiesInv`: the copies there are and those a Send or a pool job can still make are two at most |
| `ClosedIsQuiet` | `NoSendOnClosed` | | `CloseInv`: each wait of Close leaves a group of senders gone for good, because `closed` was set before it and is read under `dc.mu` |
| `NoIdTwice` | `UniqueIds` | `KeyOutlivesCalls`: `Window + Lag <= Expire`, resets alone | `IdsInv`: a counter is above all its window has given out, or its window and the latest call for it are over; a key's TTL reaches beyond both |
| `NumbersHaveNoGap` | `DenseSequence` | `KeyOutlivesCalls` | `GivenDense`: a window has given out an interval, up to the value of its key if that is there |

**LoadsProofs**. `OneLoads` states `OneLoader`: who loads is the leader in the flight map
(`LoaderInMap` for CtxCache, `LeaderInMap` for the groups of the other handlers), and who has
been given the lock has it until a lease is lost (`LockedHolds`), or in LoadOnce until a command
on it fails, or shares it with another of its instance (`TakenIsHeld`); only an AdvancedCache's
object is ever shared, because the other flavours let one caller of an instance come to it
(`SharedByAdvanced`). The converse of `LoaderInMap` is false: a panic leaves the entry of a caller
that is gone. `NoLockIsLeft` states `NoLockLeft`, the safety part of `LockGivenBack` in
CacheWrapper and LoadOnce: the key has the token of a call that is over only if a command on the
lock failed (`Gone`, `lapsed`). The invariant says at which places of a call the lock is still to
be given back (`WrapperLeft`, with `LockedPlaces`, and `NoneLeft`, with `HeldAt`); an object's
token is that of a call of its instance that will unlock (`TokenIsHeld`).

**CopiesProofs**, with the lemmas of **HotKeyProofs** about HotKeyCache as a component of its own,
which it uses twice: for several instances, and for one with more keys than it is to keep.

| Theorem | Property | Inductive invariant |
|---|---|---|
| `RowsAreFound` | `GetFindsRow` | `KVInv`: unless a row has gone during the call, a Get looks for rows that are there, and has all of them once it has loaded (`HasLoaded`), or has what a hash had (`Partial`) |
| `NoOldCopyIsServed` | `QuietLevelsAgree` | TwoLevel, while no writes have raced (`Peaceful`): a write is alone, late writes carry what is true, and the levels agree. GenericTTL (`Undisturbed`): the writer is alone, nobody loads before all are told, and an old copy has its deletion before it. CacheIndex: what is cached is indexed or missed, and so are the keys that calls in flight, and the goroutines that calls have left behind, are still to write (`FlightIsIndexed`) |
| `KeysCanBeEvicted` | `KeysEvictable` | `Places`: every key of a map is in `accessOrder`. A place removed or cut off had its key deleted; a map that replaces another brings an order of all its keys, by `SequenceOfAll`, for finitely many keys |

**LifecyclesProofs**.

| Theorem | Property | Inductive invariant |
|---|---|---|
| `OneConsumerEach`, `StopsAndClosesWait` (consumers) | `OneConsumer`, `StopWaits` | under `PlainUsage` (starts one after the other, no StopConsumer): a start that has passed the check found no live consumer, and a live one is in the map (`Starting`); `wg` is the number of goroutines (`Counted`), and a job belongs to one |
| `OneLoopEach`, `Resubscribes`, `StopsAndClosesWait` (PubSub) | `OneLoop`, `StaysSubscribed`, `StopWaits` | what each point of a call has seen to: who is about to start a loop holds `stopMu` and found none, Close has cancelled before it waits (`Located`); the first start of a Subscriber is by the call that made it (`OneStarter`) |

**LocalCachesProofs**, from `LocalParameters`: finitely many keys, any partition of them in
shards, any capacity.

* `ListsAreTheMaps` (`ListsMatch`) and `EvictsTheUnused` (`EvictsByUse`). For LRUHandler: the list
  has the entries of the map, each once, and what is in front of an entry was used after it
  (`Recent`). For LRUOptimizedHandler, shard by shard: ring and counter have the entries of
  the map (`RingIs`), who was used since the last eviction has the access bit, and who has
  the bit is held. The step that needs an argument is the eviction (`Victim`): the entry
  just inserted is at the head and has no bit, so the scan ends at an entry without one.
* `EntriesAreKept` (`KeepsEntries`) is the refinement: the initial states of the three handlers
  are initial states of `BoundedMap`, and each of their steps is one of its steps or
  leaves it alone. It rests on the invariants above, since `BoundedMap` evicts only when its
  room is full, and the handlers when their list is.
* The lemmas below them are about lists without repetition: their length is the number of
  their elements, `Unlink` leaves the rest in its order, and such a rest exists. The last is
  by a least counterexample, as the library's induction theorems cannot be applied.

Checked by TLC only: liveness (`WatchdogsEnd`, `TaskEventuallySettled`, `CallsEnd`,
`CloseCompletes`, the part of `LockGivenBack` that says the lock becomes free again and again,
`CallsReturn`, `Heals`, `Ends`), since fairness and ENABLED are beyond the prover. ObjectPool
and MultiLevel have no other property.

## 5. Not modelled

`RistrettoHandler` (a third-party cache behind an adapter whose admission policy is not in
the repository); `ModelKV` and `ModelCache` (reflection and SQL text in front of `KVCache`);
`ShardedHandler` and `SchedulerManager` (stateless routing, a registry under one mutex);
`VersionTracker` (one Redis command for each operation); the maps of `LockManager` and of
the managers of hot keys and object pools; serialisation, compression, logging, metrics,
option constructors, argument checks; reads that change nothing. The individual reasons
are in `components`.

Keys are mostly taken one at a time, because the components keep them apart. The eviction of
the local structures and of `HotKeyCache`, the index, and the hash of `KVCache` relate several
and have them. After `HotKeyCache.Stop` the model has no tick of the refresh any more, where
Go's `select` may take one that is already due.

## 6. Plan

1. Composition: `KVCache` over `PubSub`, so that a lost connection is what loses an
   invalidation; `DeadLetterQueue` over `Queue`.
2. A third abstract specification with a refinement proof, in the manner of `BoundedMap` and
   `LeaseLock`: a reliable task store, implemented by `DelayQueue` without reschedules.
3. Safety properties of `ObjectPool` and `MultiLevel`, of which only liveness is checked.
4. The map of `LockManager`; `RetryFailed` followed through the delay set of all kinds.

# TLA+ models of pthreads

This directory holds TLA+ models of the PHP extension *pthreads*, the TLC runs
that check them on small instances, and TLAPS proofs of the most important
results for every instance. Paths below are relative to the repository's
parent directory, as in `PROJECT.json` (`src/src/worker.c` is the extension's
`src/worker.c`).

## 1. The system

pthreads gives PHP programs threads. Every thread has an interpreter of its own
and memory of its own; what they share are *ThreadedBase* objects. The parts:

| Part | State | Operations | Modelled in |
|---|---|---|---|
| Monitor (`monitor.c`, `threaded_base.c`) | recursive mutex, condition variable, word of flags | lock, wait, timed wait, notify, add/remove a flag, wait until a flag | `Monitor`; as used by Workers in `Worker` |
| Thread life cycle (`object.c`: start, join, routine) | flags STARTED, RUNNING, JOINED, ERROR, AWAIT_JOIN, EXIT; the READY monitor of `start()` | start, join, implicit join on destruction, `pthreads_routine` | `Worker` |
| Runnable state (`threaded_runnable.c`, `object.c`) | the bits RUNNING and ERROR of a task | set and cleared by each execution; `isRunning`, `isTerminated` | `Runnable` |
| Worker (`worker.c`) | `queue`, `gc`, `running`, `tasks_collected`; the thread's `done_tasks_cache` | stack, unstack, collect with a callback, next task, add garbage, free | `Worker`, promise in `TaskQueue` |
| Queue (`queue.c`) | doubly linked lists of items | push, shift, pop, remove, clean | `LinkedQueue`, promise in `TaskLists` |
| Property store (`store.c`, `handlers.c`) | shared hash with `modcount`; per connection a property table and `local_props_modcount` | read, write, delete, shift, pop, chunk, merge, tohash, sync, full sync, persist | `Store` |
| Order and iteration (`store.c`, `handlers.c`) | buckets in insertion order, positions of iterators | insert, unset, shift, pop, chunk, reset, data, key, forward | `Iteration`, promise in `InsertionOrder` |
| Connections (`object.c`) | reference count, per-thread PHP objects for one shared object | construct, connect, copy, free | `Registry`; for one object in `Store` |
| Pool (`pool.c`) | `$size`, `$last`, `$workers` | submit, submitTo, collect, resize, shutdown | `Pool` |
| Registry (`globals.c`) | set of live addresses and the globals lock | add, delete, validate | `Registry`, lock order in `Locking` |
| Preparation (`prepare.c`) | class tables of a thread | startup, copying and linking of classes, static members, late binding | `Prepare` |
| Copying (`copy.c`) | cache of copied functions | copy of functions, values, constant expressions, opcodes | `FunctionCache`, `Values`, `Opcodes` |
| Resources (`resources.c`, `store.c`) | `EG(regular_list)` and the table of kept resources per thread | store, read, keep, clean up | `Resources` |
| Sockets (`ext_sockets_hacks.c`, `globals.c`) | descriptors that are shared | store, read, free, shut down | `Sockets` |
| Module start-up (`php_pthreads.c`) | registration with the engine | | not modelled |

Interactions. The creator of a thread and the thread share one object and its
monitor; each has its own PHP object for it. A Worker shares the two queues of
tasks under that monitor, but each task also has a monitor and a store of its
own, and the thread that ran a task must keep its own copy alive
(`done_tasks_cache`) for as long as the creator may look at the properties,
because stored strings and closures are pointers into the memory of the thread
that wrote them. A store is guarded by the object's monitor, the caches in front
of it by nothing: each belongs to one thread and is compared with the store by
`modcount`. A Pool is used by one thread; its Workers run beside it. Every
operation that makes, finds or frees an object takes the globals lock, alone,
inside a monitor or around one. A new thread copies the classes and functions of
its creator out of the creator's memory, and does so again whenever it meets an
object of a class that it does not know. What cannot be copied is shared by
address: stored objects, closures, resources and descriptors.

What is hard: wake-ups sent only in some cases (`stack()` notifies only when the
queue was empty), a queue filled half inside and half outside the lock
(`add_garbage`), the AWAIT_JOIN/EXIT handshake that lets the creator copy from a
live but silent thread, fatal errors that jump out of the routine with
`longjmp`, caches filled after the lock is released, values whose owner goes
away, addresses that are validated in one critical section and used in another
or reused in between, locks taken in both orders, classes copied while they
refer to one another, and integers that stand for positions (`$last`,
`count - 1`, iterators, offsets in opcodes). The list with line numbers is `hazards` in `PROJECT.json`.

What makes each part correct: a Worker runs each stacked task once, in order,
and a join waits for all of them; what can be collected can be read; nobody
sleeps past the event he waits for; every call returns. A read returns what is
stored; what is stored by pointer is alive; a loop meets every element once. A
Pool never exceeds its size, its calls return (`shutdown()` if every Worker could
be started), and a zero from `collect()` means
that nothing is left. Reference counts are exact; an address names the object
that was stored under it; nobody waits in a circle. A thread's classes are
complete, once each, with the values of the creator and no pointer into its
memory; a copied function runs the same code. Only its owner destroys a
resource, and a descriptor is closed when nobody has it.

## 2. Modules and how they correspond to the code

What a program that uses the extension does is a variable that is chosen at the
start and never changes (`program`, `prog`, `habits`, `freedoms`, `users`): one
run looks at all the programs that its MC module lists. Where a promise holds
only for programs that keep a rule, the rule is a named condition of the
property (`Disciplined`, `Undisturbed`, `WritesCacheable`, `HoldsDescendant`), and
the programs that break the rule are among those of the run, so that the other
properties are checked for them as well. Section 4 says what happens to them.

`MCPrimitives` and `MCCrossing` put modules side by side that share no state; a
variable `part` selects the one that moves while the others stand still. It only
saves runs: each part is explored exactly as it would be alone.

### `Worker`

Two processes, the creator (`cpc`) and the thread (`wpc`). A critical section of
the monitor is one action; the ones that are not atomic in the code are several:
`collect()` calls back into PHP with the mutex held (`holder`), `pthread_cond_wait`
gives it up (`waiters`), `add_garbage` pushes to `gc` under the lock
(`AddGarbage`) and to `done_tasks_cache` after it (`CachePush`). The monitor on
the creator's stack that `start()` waits on is `ready`.

| Code | Actions |
|---|---|
| `pthreads_start` | `Start`, `CreateSuccess`, `CreateFailure`, `StartReturn` |
| `pthreads_worker_add_task`, `_dequeue_task` | `Stack`, `Unstack` |
| `pthreads_worker_collect_tasks` | `CollectBegin`, `CollectCall`, `CollectAccept`, `CollectRefuse`, `CollectEnd` |
| `pthreads_join` | `JoinBegin`, `JoinWait`, `JoinSync`, `JoinExit`, `JoinReturn` |
| `pthreads_base_free` | `Free` |
| `pthreads_routine` | `TStartup` ... `TShutdown` |
| `pthreads_worker_next_task` | `NextTask`, `NextTaskJoined`, `NextTaskWait` |
| `pthreads_routine_run_function` | `TRun...` for the thread object, `Task...` for a task |

A stacked task is named by the position at which it was stacked, so the same
object can be stacked twice; ERROR and RUNNING belong to the object. Fatal
errors inside `run()` are `TRunError` and `TaskError`; those outside
`run_function`'s own `zend_try` are governed by the constant `BailoutPoints`.
The uninitialised `done_tasks_cache` that one of them leaves is a choice between
a lucky empty cache and a crash (`TClean`). `SpuriousWake` stands for the
spurious wake-ups POSIX allows and for `notify()` called on the Worker by a
program.

Left out: the `worker` property that `run_function` sets on a task (`Runnable`
has it); timed waits (`Monitor`);
`collect()` called from inside a collector (that is in `LinkedQueue`); other
threads than the creator calling the Worker's methods, which the code
rejects with an exception.

### `TaskQueue`

The promise: each task goes queued, running, finished, gone; in order, one at a
time; the Worker closes only with nothing queued or running. `Worker` maps onto
it by `StatusOf`.

### `Store`

One object, several connections on several threads. `shared` and `modcount` are
the store, `cache`, `local` and `table` the connections' property tables,
`local_props_modcount`, and whether the table has been allocated. Each critical
section is one action; what `read`, `write` and `delete` do to the cache after
the unlock waits in `pending` for `Complete`. Storages have the kinds the code's
predicates tell apart: plain values, objects (also sockets: compared by
identity), strings by pointer with their owner, persistent strings. Closures,
which other threads get a copy of that no sync keeps, are not a kind of their
own. `Restore`
is `pthreads_store_restore_zval`: a thread gets the very string back if it owns
it and a copy otherwise. Resources and enums, which are never cached, fold into
`"long"`. Merging from an array or a plain object is a series of `Write`s.
Insertion order is not kept, so `shift`, `pop` and `chunk` take any key or keys
(`Take`); `Iteration` has the order.

### `Pool`

The PHP thread that owns the Pool, and Workers reduced to counts of queued,
running and finished tasks (`Worker` has the rest). The loops of `collect()`,
`resize()` and `shutdown()` advance one Worker per step, and a step that joins a
Worker waits until the Worker is `Idle`. When `start()` throws, the pending
exception keeps `stack()` from running, but the Worker stays in `$workers`
(`SubmitStartFails`). Joining such a Worker throws. `resize()` goes on with the
exception pending (`ResizeStep`); `shutdown()` sets `EG(current_execute_data)` to
NULL for the call, so that the engine takes the exception for an uncaught one and
ends the script before the other Workers are visited (`ShutdownFails`). The constant `Reuse` separates programs that discard a
Pool after `shutdown()` and do not grow it while `$last`, after a shrinking
`resize()`, is beyond its Workers, from those that do either.

### `Registry`

Several objects, threads, addresses and slots. A shared structure (`ts_obj`) has
a number that is never reused; the PHP objects that threads have for it are at
addresses that are. Registration precedes construction and deregistration
precedes the release of memory, so each is a step of its own, as is the use of
an address after `pthreads_globals_object_valid` has said yes. Slots stand for
stored properties and for serialised objects. `freedoms` says what the program
and the allocator do: drop an original that is still named elsewhere
(`"outlive"`), reuse an address that is still stored (`"reuse"`).

### `Locking`

Each operation of the extension is the list of what it acquires, releases and
waits for, in the code's order (`read` takes a monitor and the globals lock
inside it, `base_free` the other way round, shutdown holds the globals lock
around everything). The threads form a tree. `NoDeadlock` looks for a circle in
who waits for whom: it is stronger than TLC's deadlock check, which a single
running thread hides. A program's `habits`, `globals` and `merges` are what it
may do that makes a circle possible; `Disciplined` programs do none of it.

### `InsertionOrder` and `Iteration`

`Iteration` has the engine's bucket array with holes, compaction and growth
(external, modelled from how `store.c` uses it) and the four calls of an
iterator, each a critical section. `InsertionOrder` is the sequence that a
program sees; `Iteration` maps to it by dropping the holes. Only string keys:
with integer keys the engine may use a packed array, where a position is a key.

### `TaskLists` and `LinkedQueue`

The lists of `queue.c` with their links, heads, tails and sizes, and items whose
memory is reused; `collect()` as the loop that it is, with the position it keeps
while the collector runs. `TaskLists` are the plain sequences. `unshift` has no
caller and is left out.

### `Runnable`

`pthreads_routine_run_function` for one task on several Workers, one action per
access to the task's monitor: the test of ERROR, RUNNING, the `worker` property,
`run()`, the end. Two history variables remember who has failed and whether an
execution began afterwards.

### `Monitor`

`wait`, `notify`, `notifyOne` and `synchronized` on one object, with the split
of a time-out into seconds and microseconds over a clock whose second has `Base`
microseconds, and unasked wake-ups. Consumers and a producer follow the pattern
of the documentation (wait in a loop inside `synchronized`).

### `Prepare`

Programs are all the ways in which a few classes can extend one another,
implement interfaces, use traits, be immutable, be anonymous and hold objects of
one another in static members. `todo` is the recursion of
`pthreads_prepare_single_class` and `pthreads_create_entry` as a stack of calls.
An entry is a class and the number of the copy, 0 for the creator's own.
Left out: constants, ini settings, the list of included files; static members
that cannot be copied; classes that are anonymous and immutable at once; the
differences of PHP 8.0.

### `FunctionCache`

`pthreads_copy_function` with its cache by address and the reference counts that
inherited methods and closures share. A class that its own copying leads back to is
copied twice (`CopyAgain`): the second copy takes references from the cache, and the
one it replaces in the class table gives its own back (`ReplaceClass`). The loop that
follows each copied class and files the owner's closures here is `PrepareClosure`, one
closure at a time. Functions in
opcache's shared memory, which have no count, are the "immutable" kind.

### `Values` and `Opcodes`

Pure algorithms, one step per input (`Values`) or per opline (`Opcodes`).
`Values` computes the size of a constant expression and the block that is filled
as the two walks of the code do, reads the block back, and compares; it is the
one module with RECURSIVE operators and no theorem can be about it. Strings are
copied as in PHP 8.1 and later. Closures inside values are in `FunctionCache`.
`Opcodes` has operands as numbers in memory, offsets modulo `Word` or addresses.
The code also provides for functions that have not been through `pass_two`; none
is ever in a table that a thread copies, so they are left out.

### `Resources`

`resource` has the owner, the handle, the reference count, and who closed and
who freed each resource; `list` and `kept` are the two tables of each thread. An
update of a reference count is a load and a store, because no lock guards it, and
any number of threads may be inside one: updates get lost, and counts become too
small, too large or negative (where the code's wrap). `givenUp` records the
resources of which the owner has begun to drop a variable. A thread that would use
a freed resource takes no further step with it. The end of a started thread is the
clean-up of its list, the program's shutdown functions and destructors, the closing
of the list (`CloseList`), the dropping of the variables one by one, and the
destruction of the list (`DestroyList`). The engine's `zend_list_free`, `zend_close_rsrc_list` and destructors are external.

### `Sockets`

Descriptors, the Socket objects of each thread, the cached one, the storage, and
the set of shared descriptors. `synced` stands for the comparison of modcounts.

## 3. Runs

| Run | Bounds | Shows |
|---|---|---|
| `worker_safety` | 2 tasks, 4 stackings, both bailouts | `CacheMatchesGc`, `CollectableReadable`, `NoLostWakeup`, `SyncWhileThreadQuiet`, and the inductive `Invariants` |
| `worker_promise` | 2 tasks, 3 stackings, no bailouts | `JoinRunsAll`, `NoActiveTaskOnFree`, the refinement `ImplementsTaskQueue`, liveness `StackedIsTaken`, `CallsReturn` |
| `worker_bailout` | 2 stackings, bailout in task set-up | violation of `NoActiveTaskOnFree` |
| `store` | 3 connections on 2 threads, up to 2 keys, 2 objects, 2 strings, modcount up to 2; three families of programs | `ReadsAreCurrent`, `NoDanglingString` |
| `store_overwrite` | 2 keys, an object replaced by a plain value | violation of `EveryReadIsCurrent` |
| `pool_once` | sizes 1 to 3, 4 submissions, `start()` may fail, `Reuse = FALSE` | `WorkersWithinSize` with `NoHoles`, `CollectZeroMeansIdle`, liveness `PoolCallsReturn` |
| `registry` | 2 threads, 3 addresses, 3 structures, 1 slot; with and without a chain of ownership, with and without reuse | `ConnectionsExact` always, `ReadGetsStored` without reuse, `StoredIsReadable` with a chain of ownership |
| `locking` | 3 threads in a chain or as siblings, 2 objects, one call of each thread | `NoDeadlock` and liveness `OperationsEnd` for disciplined programs, `CreatorStandsStill` for all |
| `iteration` | 3 keys, 4 insertions, a table of 2 that grows | the refinement `ImplementsInsertionOrder`, `LoopMeetsAll`, `PairMatches` |
| `primitives` | 4 list items; 3 Workers and 4 executions; 2 consumers, a second of 3 microseconds, time up to 4 | `ListsSound`, the refinement `ImplementsTaskLists`, `FlagsTell`, `WaitReturnsRight`, liveness `WaitsEnd` |
| `prepare` | every program of 3 classes in six families, up to 3 copies of a class | `PointersOwn`, `InstancesRight`, `StaticsRight`, liveness `PreparationEnds` |
| `crossing` | 3 functions, 4 copies; values nested twice and expressions of 3 levels; 2 oplines; 3 threads with 2 resources in all and 3 references taken; 2 descriptors, 2 sockets | `CopiesSound`, `AstFits`, `CopyRight`, `OperandsRight`, `OnlyOwnerDestroys`, `PointersRight`, `DescriptorsRight` |

Why the bounds suffice for the interesting cases.

* Worker: four stackings let a task be collected and not yet dropped, one be in
  `gc`, one be running and one be queued at once, and let two `collect()` calls
  pass before the thread looks.
* Store: two connections on one thread and one on another distinguish "own
  string", "same thread, other connection" and "other thread"; a modcount of 2
  lets a connection be out of date by more than one change and lets `tohash`
  mark a table one behind. The operations have no history beyond that. The
  families are `Fresh` (objects and pointer strings overwritten at will),
  `TwoKeys` (two properties under one modcount) and `Lifetime` (all kinds of
  strings, connections freed and made again). In `Lifetime` freshness is
  claimed of objects only.
* Pool: three Workers and four submissions wrap the round-robin index and leave
  one Worker with two tasks.
* Registry: three addresses and structures are an original, a connection and
  another object at once; the third also is what an address is reused for.
* Locking: three threads are the smallest tree with a grandchild and with
  siblings. Each thread makes one call, of any kind, beside starting and
  joining its children, in every interleaving; a circle needs one blocked call
  per thread.
* Iteration: a table of two that grows to four meets every combination of a full
  table, holes before, at and behind a position, and compaction.
* Primitives: three items make a list with a head, a middle and a tail, the
  fourth is in the other list; three Workers let two overlap while a third
  begins; time-outs are chosen around the end of a second, negative ones included.
* Prepare: three classes are a class, its parent and its grandparent, or a class
  with a parent and an object of a third. The families are whole class tables
  (`All`), only what is needed (`Needed`), classes declared or linked after the
  start (`Later`), classes whose property types lead back to them (`TypeCycles`),
  property types with a static member of their own or of a parent (`HeldTypes`) and
  traits (`Traits`).
* Crossing: two users of one copy besides its owner, a closure and its name,
  both directions of every jump, both sizes of pointers, a write and two reads of a
  resource, whose counts and later drops overlap in every way, and the descriptor of
  a closed socket given to a second one.

Fairness. `Worker` assumes strong fairness of the thread and of the creator
while it is inside a call: the operating system runs both, a blocked
`pthread_mutex_lock` is not passed over for ever (`SF`, as the lock is taken and
released in between), and PHP code (tasks, collectors) returns. The creator is
never forced to make a call, in particular not to join. `Pool` assumes weak
fairness of each Worker and of the call in progress. `Locking` assumes strong
fairness of each step of an operation, for the same reason, and weak fairness of
`run()` returning and of a started thread joining the children it keeps in local
variables, which go out of scope when `run()` returns. `Monitor` assumes
that time passes (`WF` of `Tick`), that the producer, which sets the property
with the mutex (`SF`), then notifies (`WF`), and that consumers are scheduled
(`SF`, they need the mutex). `Prepare` is sequential: weak fairness of its steps.
The other modules have safety properties only. `MCPrimitives` has the fairness of
`Monitor`.

Deadlock is checked except in two runs: in `locking` threads may be
blocked for ever by programs that are not disciplined, and `NoDeadlock` says
more than TLC's check; in `crossing` the pure algorithms stop when they are
done and threads stop when they have ended. In the others, states after
destruction have an explicit self-loop (`Terminated`, `Destroyed`, `Closed`).

## 4. Findings

Two runs end in a counterexample; the lines they contradict are quoted in
`PROJECT.json`.

1. `worker_bailout`: a fatal error while the thread builds its copy of a task
   skips `add_garbage`; `running` stays set, queued tasks are never run, and the
   assertion of `pthreads_worker_data_free` fails.
2. `store_overwrite`: a connection in sync that overwrites its cached object with
   null or a number keeps reading the object: bumping its own counter makes the
   sync that follows return at once, and the new value is not cached.

The conditions in the properties are there for a reason. Each of the following is
a behaviour of the model, and of the code, outside a condition; it is seen by
dropping the condition, or by the setting named, and checking again.

| Where | Condition or setting | What happens without it |
|---|---|---|
| `Store` | `WritesCacheable` | permanent and persisted strings are cached, but replacing them bumps no `modcount`: they are read after they have been overwritten |
| `Pool` | `Reuse = TRUE` | after `shutdown()`, or a shrinking and a growing `resize()`, `$last` keeps its value, Workers appear above a hole, `$size` is exceeded, and `resize()` deletes a missing index for ever |
| `Pool` | every Worker started, in `PoolCallsReturn` | `shutdown()` of a Pool with a Worker whose `start()` has thrown ends the script with a fatal error; Workers it has not reached are not joined there |
| `Registry` | `"reuse"` | an address given to another object is valid again: a read returns that object instead of throwing |
| `Registry` | `"outlive"` | the original goes between `pthreads_globals_object_valid` and the use of the address in a sync |
| `Locking` | an object shared with a second child | a thread that ends (globals lock, then monitor) against one that reads (monitor, then globals lock) |
| `Locking` | `merges` both ways | `$a->merge($b)` against `$b->merge($a)` |
| `Locking` | `globals` | `prepared_shutdown` joins a Thread kept in a global variable while it holds the globals lock that this thread needs to end |
| `Locking` | habits `"free"`, `"drop"`, `"bailout"` | an object is freed while others use it (globals lock, then monitor); a started Thread loses its last reference inside a critical section and is joined there; a fatal error inside one keeps the lock |
| `Iteration` | `Undisturbed` | an insertion that compacts the table moves elements left of the iterator; unsetting the current element skips the next; a key is paired with the value of another element unless the loop is inside `synchronized()` |
| `LinkedQueue` | habit `"reenter"` | a collector that calls `collect()` on its Worker: the outer loop reads a freed item and shifts the wrong task |
| `Runnable` | one user | the first of two executions to finish clears RUNNING for both; a fatal error in the write of `worker` leaves it set |
| `Monitor` | `Depths = {2}` | a wait below two `synchronized()` blocks keeps the object locked and never ends |
| `Prepare` | `HoldsDescendant` | what a class is derived from leads back to it, by a static member or by a property type of an immutable class, while it is being copied: a second copy is made and the first lives on in objects and children; an immutable class on the way keeps the default values |
| `Prepare` | `LoopNeedsMore` | the class of the thread is immutable and only what it needs is copied: the loop that binds the classes enters more of them, so the table it runs over may move, and objects are made of classes that are not bound |
| `Prepare` | `inheritAll` in `InstancesRight` | objects in static members are made before their class knows its number of properties |
| `Prepare` | `MayFollowChild` | an immutable class is entered before its parent; a subclass initialises it and it keeps the default values |
| `Prepare` | anonymous classes in `PointersOwn` | methods that a later linking brings from a trait keep the creator's class as their scope |
| `FunctionCache` | `Reuse = TRUE` | a function at the address of one that is gone is taken for it |
| `Resources` | `Sharers` beyond the main thread, `ShutdownReads` | resources freed with their thread are still pointed at; one read during shutdown is closed under its owner |
| `Resources` | `givenUp` in `PointersRight` | once its owner has dropped a variable with it, a lost update of the count frees a resource that others use |
| `Resources` | a started thread's own resources in `PointersRight` | a thread whose drop brings a wrong count to zero deletes the entry of its list under the handle of the other's resource, and with it its own resource there |
| `Resources` | open resources in `PointersRight` | a closed resource is found in place of any other closed one |
| `Sockets` | the conditions of `DescriptorsRight` on `socket_close()` | objects of other threads keep the number of a closed descriptor; a cached socket stands for a new one with the same number |

One more is plain: `Pool::collect()` returns what is left, not what was collected
(`PoolCollectEnd` sums the return values of `pthreads_worker_collect_tasks`), and the
stub calls it "the number of tasks collected from the pool".

## 5. Proofs

Eight modules hold theorems that TLAPS has checked, for every value of the
constants that the named assumptions of the modules allow: any sets of tasks,
threads, connections, addresses and sizes, any bounds. What a theorem assumes
beyond that is in its statement and in this table.

| Module | Theorem | Property | Extra assumption |
|---|---|---|---|
| `WorkerProofs` | `InvariantsHold`, `TypeCorrect`, `CacheAlwaysMatchesGc`, `NoWakeupIsLost`, `JoinSyncsQuietThread`, `CollectableIsReadable` | `Invariants`, `TypeOK`, `CacheMatchesGc`, `NoLostWakeup`, `SyncWhileThreadQuiet`, `CollectableReadable` | none, also with bailouts |
| | `JoinRunsEverything`, `NeverFreedWhileRunning`, `ImplementsPromise` | `JoinRunsAll`, `NoActiveTaskOnFree`, `ImplementsTaskQueue` | `BailoutPoints = {}` (finding 1) |
| | `CollectZeroIsIdle` | `CollectZeroMeansIdle` | none, also with reuse |
| | `WorkersStayWithinSize` | `WorkersWithinSize` | `~Reuse` (the Pool is not used after `shutdown()` nor grown while `$last` is beyond its Workers); sizes are positive |
| `StoreProofs` | `StringsNeverDangle` | `NoDanglingString` | none |
| | `ReadsAlwaysCurrent` | `ReadsAreCurrent` | no program writes plain values (finding 2) |
| `RegistryProofs` | `ConnectionsAlwaysExact`, `ReadAlwaysGetsStored`, `StoredAlwaysReadable` | `ConnectionsExact`, `ReadGetsStored`, `StoredIsReadable` | none; the freedoms are conditions of the properties |
| `PrimitivesProofs` | `FlagsAlwaysTell` | `FlagsTell` | none |
| | `WaitAlwaysReturnsRight` | `WaitReturnsRight` | none |
| | `ListsAlwaysSound`, `ImplementsLists` | `ListsSound`, `ImplementsTaskLists` | none, also with re-entrant collectors |
| `IterationProofs` | `LoopAlwaysMeetsAll`, `PairAlwaysMatches`, `ImplementsOrder` | `LoopMeetsAll`, `PairMatches`, `ImplementsInsertionOrder` | none; the habits are conditions of the properties |
| `LockingProofs` | `CreatorAlwaysStandsStill`, `UnlocksAreOwned` | `CreatorStandsStill`, `UnlocksOwned` (of the proofs) | none, for every program |
| | `NeverDeadlocked` | `NoDeadlock` | none; `Disciplined` is a condition of the property |
| `CrossingProofs` | `DescriptorsAlwaysRight` | `DescriptorsRight` | none |
| | `OperandsAlwaysRight` | `OperandsRight` | `ProgramsAssumption` of `Opcodes` |
| | `CopiesAlwaysSound` | `CopiesSound` | `~Reuse` |
| | `OnlyOwnerAlwaysDestroys` | `OnlyOwnerDestroys` | only the main thread's resources are stored; no reads in shutdown functions |
| | `PointersAlwaysRight` | `PointersRight` | as `OnlyOwnerAlwaysDestroys` |
| `PrepareProofs` | `PointersAlwaysOwn` | `PointersOwn` | none; `HoldsDescendant` and anonymous classes are conditions of the property |
| | `InstancesAlwaysRight` | `InstancesRight` | none; `HoldsDescendant`, `inheritAll` and `LoopNeedsMore` are conditions of the property |

Why the extra assumptions are needed is the table of section 4, with two
exceptions. A Pool's size is not checked by `pool.c`: with a size of 0 `submit()`
still makes a Worker. And `ProgramsAssumption` says what the compiler hands over:
targets of jumps are oplines of the function, and where operands are offsets a
function with its literals is smaller than half of what an offset reaches.

The inductive invariants were checked by TLC first, on the bounds of the runs.
Each proof has one step or lemma per action and below it one step per conjunct.

**Worker.** `CacheMatchesGc` counts: the thread's copies are
`tasksCollected + collected` dropped ones followed by `gc`. To be preserved by
`DropCollected` it needs that a count is never reported without its flag
(`WaiterInv`), by `CollectAccept` that `gc` is not empty in the collector and by
`CollectEnd` that nobody else held the mutex (`MutexInv`), and by `CachePush` that
the copy on the thread's stack is of the task just moved to `gc` (`CopyInv`).
That the creator copies from a silent thread needs the whole order of the two
program counters and the flags (`HandshakeInv`): AWAIT_JOIN holds exactly from
`exit_wait` on, EXIT only after JOINED and AWAIT_JOIN, and not before the copying
is over. `CollectableReadable` combines them: before the thread is gone its cache
covers `gc`, and once EXIT is set everything in `gc` has been synchronised.
`LoopInv` is relative to the first: `running` is set only inside the loop body,
and the loop is left for a join only with an empty queue.

`ImplementsPromise` is the refinement, step by step. `OrderInv` says that `gc`,
`running` and `queue`, one behind the other, are increasing positions: a task is
in one place at a time and what is ahead in the queue was stacked before. With it
each of `Stack`, `NextTask`, `AddGarbage`, `Unstack` and the collector's
acceptance changes the status of exactly one task, the one the promise names,
and every other action maps to a stutter.

**Store.** `ReadInv`: a connection whose `local_props_modcount` equals `modcount`
holds for each key nothing, or what is stored (`SyncInv`), where what a thread
still has to do to its table after the unlock counts as done; nobody is ahead of
the store (`ClockInv`). `StringInv`: the owner of a stored string has it in the
table of a live connection, or is about to put it there (`PtrInv`, `PendInv`).

**Pool.** `SumInv`: while `collect()` goes round, a sum of 0 means that the Workers
visited so far have nothing, and since only `submit()` gives a Worker something it
stays so. `SizeInv`: the indices are `0 .. n-1` except during `shutdown()`, and
`$last` is at most one beyond them or will be reset.

**Registry.** `StructureInv` adds to `ConnectionsExact` what the threads between two
critical sections rely on: two threads never make or free the same object
(`ArgInv`), what one connects to stays (`SourceInv`), an object being freed is in
no table of connections (`PrivateInv`), and the registry has exactly the addresses
that are in use (`ShapeInv`). On it rest `NameInv` (an address that is named and
registered stands for what was named) and `ChainInv` (what is named is an original
that nobody is making or freeing).

**Runnable and Monitor.** `FailuresInv`: a failure is still to be reported or is in
ERROR, which nothing clears; `SoleInv`: one Worker's RUNNING is its own. `WaitInv`:
the absolute time of a blocked wait, as seconds and microseconds, is the time it
was asked for; the arithmetic of `Timespec` for every base and every time-out,
negative ones included, is a lemma.

**Linked lists.** `QueueInv` names the sequence behind each list: there are two
sequences without repetition and without a common item such that head, tail, size
and the links in both directions are those of the sequences. That `Walk` along such
links gives the sequence back is the one induction, as a least counterexample
(`LeastNatural`, from `WellFoundedInduction`); then a push, a removal at either end or
in the middle, and the hand-over from one list to the other are facts about
sequences, and each action is a step of `TaskLists` or a stutter. A collector that
calls `collect()` again only adds faults, which the property allows.

**Iteration.** `TableInv`: the elements have increasing identities from left to right,
and the last place in use is not a hole. `Packed` is the table without its holes;
it is characterised as the one increasing enumeration of the places that are taken,
so that a removal, an insertion and a re-packing of the table are a removal, an
insertion and nothing on the sequence of `InsertionOrder`. `VisitInv`:
what is at the iterator's position or behind it is younger than all that the loop
has met. `MeetInv`: an undisturbed loop has met all that is before its position.
`PairInv`: inside `synchronized()` the element under the iterator stays from the read
of the value to that of the key.

**Locks.** Operations are lists of steps, and the invariants speak of what is left of
them. `LockInv` holds for every program: along the rest of an operation the number
of times a lock is held never goes below zero (`CoverInv`), a thread is created as
the last thing but one that `start()` does (`CodeInv`), so its creator stands in
`start()` (`StartInv`). That lists built by `Each` from a set have such properties is
shown once, for every property closed under concatenation (`FlattenWithin`).

`CalmInv` is what a disciplined program adds. No operation takes a lock that it has,
or waits for an event with a lock held; under the globals lock only monitors are
taken that nobody else uses then (`Nest`, in `TidyInv`); a lock is held exactly by
whoever is still to give it back (`HeldInv`); a thread that ends has a creator that
is about to go on (`ExitInv`) and no children left (`LateInv`); and threads are born
after their creators (`BornInv`). From it no group is stuck: who holds the monitor of
a thread another waits for goes on (`MonitorsFree`), who holds the globals lock waits
at most for someone who goes on (`GlobalsFree`), so in a stuck group everyone waits
for its creator, for a child, or for an object that it shares with one of these
(`EdgesAre`). In the smallest stuck group everyone is also waited for; the thread born
last waits for its creator and is waited for by it, and a thread and its creator do
not wait for each other (`NoPair`).

**Sockets and Opcodes.** `SocketsInv`: a descriptor that was never stored belongs to
one object of one thread (`Sole`), and while it is open that object exists.
`OpcodesInv`: the oplines before the current one are corrected and the others are
as encoded; that correcting a constant or a jump gives the encoding at the new
place is arithmetic modulo `Word`, a lemma each.

**Functions and resources.** `CopiesInv`: counts are exact, and what is cached is in
the table of a class, which nothing takes out. `OwnerInv`: an entry of a thread's
list is its own resource under its own handle, or a kept one of the main thread
while the thread runs; a resource that has not been freed is in the list of its
owner (`EntriesInv`). So the main thread never keeps anything, what a destructor
gets through a list is the thread's own, and `zend_list_free` through a handle of
another thread's resource hits an entry of the thread's own or a kept one, which
is left alone. None of this looks at the counts, so it holds whatever they come to.
`PointerInv` adds who may free what others have: a thread inside the drop of a
variable with its own resource has given the resource up and has not freed it
(`GivenUpInv`), so by `EntriesInv` what the main thread frees by count is under the
handle of what it has given up, and nothing else; and the end of the main thread,
after all others are gone, frees the rest (`FreedInv`). A resource of another thread
than the main one has no pointers in other threads at all (`VariablesInv`,
`EntriesInv`, `StoredInv`). `MeantInv` carries the second half: an open resource is
found in a list under its own pointer only.

**Class preparation.** The state is mostly the stack of calls that are still to be
made, so the invariant (`Inv`) is about `todo`. `CallsInv`: whatever is ahead of the
insertion of a class, or of what links it to its parent and interfaces, is a call for
a class that these lead to (`Order`, by `Under` and `Below`), and a link or an object
comes after the call that enters its class (`Kept`). So without `HoldsDescendant`
nothing ahead of an insertion is for the class itself: no class is entered twice, and
what a link finds in the class table stays there. `AptInv` says what each call
finds when its turn comes, `EntryInv` and `EntInv` that entries and copies are
numbered as they were made, `SupersInv` that a linked entry has or will get the
parent and interfaces of its class, `ScopeInv` and `TraitInv` that a foreign or
outdated scope is going to be repaired, `InstInv` that objects are of the entries in
the table. A step puts a list of calls in the place of the first one; that this keeps
order and turns is shown once (`OrderedTurns`, `KeptTurns`, `FrameStep`), for every
list that fits.

That objects are made of classes which know their size needs more (`SizeInv`), for a
thread that copies what it needs (`Selective`). `BoundInv`: a class in the table has
its late bindings, or they are the very next call, or it is the thread's own class,
the only one that is entered without them, and the call that makes them is still
ahead. `EarlyInv`: until that call has its turn, every call ahead of it is for the
class itself or for one that copying it leads to (`Waits`, by `Aside` and `Below`),
and when the loop of late bindings starts the table has no other classes. So without
`HoldsDescendant` no object of the thread's class is made before, and one of another
class finds that class bound. `SizeStep` shows once what a step has to satisfy for
this, and `PassSize` for the steps that enter no class.

Only model-checked, and why:

* Liveness (`StackedIsTaken`, `CallsReturn`, `PoolCallsReturn`, `OperationsEnd`, `WaitsEnd`,
  `PreparationEnds`): the prover has no fairness.
* `Values`: its walks are RECURSIVE operators, which no module with a theorem may
  reach.
* `StaticsRight` of `Prepare`: where a static member lives (`Home`, `Lineage`) is a
  recursion along the parents, and what it computes needs induction over data.

## 6. Not modelled

* Packed arrays: lists with integer keys, where a position is a key.
* `pthreads_queue_unshift`: it has no caller.
* A fatal error in a thread that has started threads of its own.
* In preparation: constants, ini settings, included files, attributes, argument
  types, static members that cannot be copied, classes that are anonymous and
  immutable at once, functions and classes in opcache's shared memory beyond
  their missing counts, the differences of PHP 8.0. These are deep copies of
  engine structures without an order or state that could go wrong between steps.
* The lifetime of a stored closure: the source says itself (`store.c`, the TODO
  above line 873) that it is not guarded.
* Arrays that contain themselves by reference: the copy follows them until the
  stack ends, and the source makes no promise.
* The table of interned strings (`globals.c`): write-once strings under the
  globals lock.
* Module start-up (`php_pthreads.c`): registration with the engine.
* Windows thread creation: other calls, same protocol.
* Sockets made from streams, which cannot be stored.
* What a thread reads from the class and function tables of another that changes
  them at the same time (`prepare.c:636`): a data race inside the engine's hash
  table. During `start()` the creator stands still, which is `CreatorStandsStill`
  of `Locking`.

## 7. Plan

The parts of the system that have state of their own are modelled, and the safety
properties of fourteen of the modules are proved. What is left are `StaticsRight` of
`Prepare` and the walks of `Values`, for the reasons above.

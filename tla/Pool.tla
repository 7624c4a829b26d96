-------------------------------- MODULE Pool --------------------------------
(***************************************************************************)
(* Pool: round-robin submission to Workers created on demand, collecting   *)
(* across them, resizing and shutting down.  One PHP thread calls the      *)
(* Pool; the Workers make progress meanwhile.  A Worker is reduced to the  *)
(* number of its tasks in each stage (module Worker has the rest of it).   *)
(* The loops of collect(), resize() and shutdown() take one Worker at a    *)
(* time; joining a Worker waits until it has run everything, and throws    *)
(* for a Worker whose start() has thrown.                                  *)
(***************************************************************************)
EXTENDS Integers, FiniteSets, Functions

CONSTANTS
  Sizes,       \* arguments of the constructor and of resize()
  MaxSubmit,   \* bound on the number of tasks submitted
  Reuse,       \* the program goes on after shutdown() and grows a Pool just shrunk
  StartFails   \* Worker::start() may throw

ASSUME SizesAssumption == Sizes \subseteq Nat
ASSUME MaxSubmitAssumption == MaxSubmit \in Nat
ASSUME UsageAssumption == Reuse \in BOOLEAN /\ StartFails \in BOOLEAN

VARIABLES
  size, last,   \* the properties $size and $last
  workers,      \* the property $workers: index -> Worker
  pc,           \* the call in progress
  newsize,      \* resize()'s argument
  todo,         \* Workers collect() or shutdown() has not visited yet
  collectable,  \* collect()'s sum, and its result once it has returned
  submitted     \* history: tasks handed to a Worker so far

poolVars == <<size, last, workers, pc, newsize, todo, collectable, submitted>>

MaxIndex == CHOOSE n \in Sizes \cup {0} : \A m \in Sizes : m <= n
Indices == 0 .. MaxIndex

WorkerState ==
  [started : BOOLEAN, queued : Nat, running : BOOLEAN, done : Nat]

\* The type invariant.
PoolTypeOK ==
  /\ size \in Nat /\ last \in Nat
  /\ DOMAIN workers \subseteq Nat
  /\ \A i \in DOMAIN workers : workers[i] \in WorkerState
  /\ pc \in {"idle", "collect", "resize", "shutdown", "closed", "fatal"}
  /\ newsize \in Nat
  /\ todo \subseteq Nat
  /\ collectable \in Int /\ submitted \in Nat

PoolInit ==
  /\ size \in Sizes
  /\ last = 0
  /\ workers = << >>
  /\ pc = "idle" /\ newsize = 0 /\ todo = {}
  /\ collectable = -1 /\ submitted = 0

Count == Cardinality(DOMAIN workers)

\* Everything a Worker still has: what collect_tasks adds up.
Held(w) == w.queued + w.done + (IF w.running THEN 1 ELSE 0)

\* A started Worker has run everything: a join of it returns.
Idle(w) == w.queued = 0 /\ ~w.running

\* $last as submit() uses it.
Selected == IF last >= size THEN 0 ELSE last

Put(i, w) == [j \in DOMAIN workers \cup {i} |-> IF j = i THEN w ELSE workers[j]]
Without(i) == Restrict(workers, DOMAIN workers \ {i})

-----------------------------------------------------------------------------
\* A submit() that never wraps round.
SubmitUnwrapped ==
  /\ pc = "idle" /\ submitted < MaxSubmit
  /\ workers' = Put(last, IF last \in DOMAIN workers
                            THEN [workers[last] EXCEPT !.queued = @ + 1]
                            ELSE [started |-> TRUE, queued |-> 1, running |-> FALSE, done |-> 0])
  /\ last' = last + 1
  /\ submitted' = submitted + 1
  /\ collectable' = -1
  /\ UNCHANGED <<size, pc, newsize, todo>>

\* Pool::submit: reuse or create and start the selected Worker, stack, advance.
Submit ==
  /\ pc = "idle" /\ submitted < MaxSubmit
  /\ workers' = Put(Selected, IF Selected \in DOMAIN workers
                     THEN [workers[Selected] EXCEPT !.queued = @ + 1]
                     ELSE [started |-> TRUE, queued |-> 1, running |-> FALSE, done |-> 0])
  /\ last' = Selected + 1
  /\ submitted' = submitted + 1
  /\ collectable' = -1
  /\ UNCHANGED <<size, pc, newsize, todo>>

\* start() throws: the Worker is kept, the task is not stacked, $last advances.
SubmitStartFails ==
  /\ StartFails
  /\ pc = "idle" /\ Selected \notin DOMAIN workers
  /\ workers' = Put(Selected, [started |-> FALSE, queued |-> 0, running |-> FALSE, done |-> 0])
  /\ last' = Selected + 1
  /\ UNCHANGED <<size, pc, newsize, todo, collectable, submitted>>

\* Pool::submitTo; an unknown index throws.
SubmitTo(i) ==
  /\ pc = "idle" /\ submitted < MaxSubmit
  /\ i \in DOMAIN workers
  /\ workers' = [workers EXCEPT ![i].queued = @ + 1]
  /\ submitted' = submitted + 1
  /\ collectable' = -1
  /\ UNCHANGED <<size, last, pc, newsize, todo>>

\* Pool::collect visits every Worker ...
PoolCollectBegin ==
  /\ pc = "idle"
  /\ pc' = "collect"
  /\ todo' = DOMAIN workers
  /\ collectable' = 0
  /\ UNCHANGED <<size, last, workers, newsize, submitted>>

\* ... whose collector takes a prefix of the finished tasks, counting only
\* the tasks that are finished or waiting.
CollectWorkerWaiting(i, n) ==
  /\ pc = "collect" /\ i \in todo
  /\ n <= workers[i].done
  /\ workers' = [workers EXCEPT ![i].done = @ - n]
  /\ collectable' = collectable + workers[i].queued + workers[i].done - n
  /\ todo' = todo \ {i}
  /\ UNCHANGED <<size, last, pc, newsize, submitted>>

\* ... whose collector takes a prefix of the finished tasks.
CollectWorker(i, n) ==
  /\ pc = "collect" /\ i \in todo
  /\ n <= workers[i].done
  /\ workers' = [workers EXCEPT ![i].done = @ - n]
  /\ collectable' = collectable + Held(workers[i]) - n
  /\ todo' = todo \ {i}
  /\ UNCHANGED <<size, last, pc, newsize, submitted>>

PoolCollectEnd ==
  /\ pc = "collect" /\ todo = {}
  /\ pc' = "idle"
  /\ UNCHANGED <<size, last, workers, newsize, todo, collectable, submitted>>

\* Pool::resize: only a Pool with more Workers than asked for enters the loop.
\* Without Reuse it is grown only while $last names a Worker or the next one, as
\* it does unless the Pool was shrunk since submit() last went round.
ResizeBegin(n) ==
  /\ pc = "idle" /\ (Reuse \/ n <= size \/ last <= Count)
  /\ newsize' = n
  /\ IF n < Count
       THEN pc' = "resize" /\ UNCHANGED size
       ELSE size' = n /\ UNCHANGED pc
  /\ UNCHANGED <<last, workers, todo, collectable, submitted>>

\* The loop body starting one index too high.
ResizeStepTop ==
  LET top == Count IN
  /\ pc = "resize"
  /\ top \in DOMAIN workers /\ workers[top].started => Idle(workers[top])
  /\ workers' = Without(top)
  /\ IF Cardinality(DOMAIN workers') = newsize
       THEN pc' = "idle" /\ size' = newsize
       ELSE UNCHANGED <<pc, size>>
  /\ UNCHANGED <<last, newsize, todo, collectable, submitted>>

\* One iteration of the do-while: join and drop the Worker at count - 1, if
\* there is one.  A join of one that was not started throws at once; resize()
\* goes on with the exception pending, and throws it when it returns: the join
\* of a later Worker is then left to the Worker's destructor.
ResizeStep ==
  LET top == Count IN
  /\ pc = "resize"
  /\ top - 1 \in DOMAIN workers /\ workers[top - 1].started => Idle(workers[top - 1])
  /\ workers' = Without(top - 1)
  /\ IF Cardinality(DOMAIN workers') = newsize
       THEN pc' = "idle" /\ size' = newsize
       ELSE UNCHANGED <<pc, size>>
  /\ UNCHANGED <<last, newsize, todo, collectable, submitted>>

\* Pool::shutdown; $last keeps its value.
ShutdownBegin ==
  /\ pc = "idle"
  /\ pc' = "shutdown"
  /\ todo' = DOMAIN workers
  /\ UNCHANGED <<size, last, workers, newsize, collectable, submitted>>

ShutdownWorker(i) ==
  /\ pc = "shutdown" /\ i \in todo
  /\ workers[i].started /\ Idle(workers[i])
  /\ workers' = Without(i)
  /\ todo' = todo \ {i}
  /\ UNCHANGED <<size, last, pc, newsize, collectable, submitted>>

\* No frame is current during the join: what it throws for a Worker that was
\* not started is an uncaught error, which ends the script there and then.
ShutdownFails(i) ==
  /\ pc = "shutdown" /\ i \in todo
  /\ ~workers[i].started
  /\ pc' = "fatal"
  /\ UNCHANGED <<size, last, workers, newsize, todo, collectable, submitted>>

ShutdownEnd ==
  /\ pc = "shutdown" /\ todo = {}
  /\ pc' = IF Reuse THEN "idle" ELSE "closed"
  /\ UNCHANGED <<size, last, workers, newsize, todo, collectable, submitted>>

\* A Worker takes and finishes its next task.
WorkerTake(i) ==
  /\ i \in DOMAIN workers /\ workers[i].started
  /\ ~workers[i].running /\ workers[i].queued > 0
  /\ workers' = [workers EXCEPT ![i].running = TRUE, ![i].queued = @ - 1]
  /\ UNCHANGED <<size, last, pc, newsize, todo, collectable, submitted>>

WorkerFinish(i) ==
  /\ i \in DOMAIN workers /\ workers[i].running
  /\ workers' = [workers EXCEPT ![i].running = FALSE, ![i].done = @ + 1]
  /\ UNCHANGED <<size, last, pc, newsize, todo, collectable, submitted>>

Closed == pc \in {"closed", "fatal"} /\ UNCHANGED poolVars

-----------------------------------------------------------------------------
PoolStep ==
  \/ Submit \/ SubmitStartFails \/ \E i \in Indices : SubmitTo(i)
  \/ PoolCollectBegin \/ PoolCollectEnd
  \/ \E i \in Indices, n \in 0 .. MaxSubmit : CollectWorker(i, n)
  \/ \E n \in Sizes : ResizeBegin(n)
  \/ ResizeStep
  \/ ShutdownBegin \/ ShutdownEnd
  \/ \E i \in Indices : ShutdownWorker(i) \/ ShutdownFails(i)

WorkerStep(i) == WorkerTake(i) \/ WorkerFinish(i)

PoolNext == PoolStep \/ (\E i \in Indices : WorkerStep(i)) \/ Closed

\* Workers run, and the caller finishes the call it is in; it need not call.
PoolFairness ==
  /\ \A i \in Indices : WF_poolVars(WorkerStep(i))
  /\ WF_poolVars(PoolStep /\ pc \in {"collect", "resize", "shutdown"})

PoolSpec == PoolInit /\ [][PoolNext]_poolVars /\ PoolFairness

-----------------------------------------------------------------------------
(* Properties.                                                             *)

\* Worker indices are contiguous, which resize() relies on: it takes the number
\* of Workers minus one for the index of the last of them.
NoHoles == pc \notin {"shutdown", "fatal"} => DOMAIN workers = 0 .. Count - 1

\* "The maximum number of Worker threads allowed in this Pool": outside of a
\* resize() that is under way there are never more Workers than $size, and they
\* have contiguous indices.
WorkersWithinSize ==
  /\ PoolTypeOK
  /\ NoHoles
  /\ pc # "resize" => Count <= size

\* The loop  while ($pool->collect());  is sound: when collect() has returned 0
\* and nothing was submitted since, every task submitted has been run and
\* collected, although the Workers were visited one after the other while they
\* were running.
CollectZeroMeansIdle ==
  (pc = "idle" /\ collectable = 0) => \A i \in DOMAIN workers : Held(workers[i]) = 0

\* collect() and resize() return, also with a Worker whose start() has thrown:
\* "the last workers started will be shutdown until the pool is the requested
\* size".  shutdown() returns when every Worker was started; with one that was
\* not it does not wait for ever either, but ends the script.
PoolCallsReturn ==
  /\ pc \in {"collect", "resize"} ~> pc = "idle"
  /\ pc = "shutdown" ~> pc # "shutdown"
  /\ (pc = "shutdown" /\ \A i \in DOMAIN workers : workers[i].started)
       ~> pc \in {"idle", "closed"}
=============================================================================

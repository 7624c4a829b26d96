------------------------------- MODULE Worker -------------------------------
(***************************************************************************)
(* A pthreads Thread or Worker from construction to destruction: the       *)
(* creator's calls (start, stack, unstack, collect, join, destruction) and *)
(* the routine of the thread it starts, over the monitor they share.       *)
(*                                                                         *)
(* A critical section of the monitor is one step, guarded by the mutex     *)
(* being available, except where the code gives the mutex up in the middle *)
(* (pthread_cond_wait) or calls back into PHP while it holds it (the       *)
(* collector).  A stacked task is known by the position i at which it was  *)
(* stacked; items[i] is the ThreadedRunnable stacked there, and one object *)
(* may be stacked more than once.                                          *)
(***************************************************************************)
EXTENDS Integers, Sequences, Functions

CONSTANTS
  Tasks,          \* the ThreadedRunnable objects the creator owns
  MaxStacked,     \* bound on the number of calls of Worker::stack
  BailoutPoints   \* where zend_bailout may leave the routine's outer zend_try

ASSUME MaxStackedAssumption == MaxStacked \in Nat
ASSUME BailoutAssumption == BailoutPoints \subseteq {"this", "task"}

VARIABLES
  isWorker,        \* a Worker (TRUE) or a plain Thread (FALSE)
  flags,           \* monitor.state
  holder,          \* owner of monitor.mutex across several steps
  waiters,         \* threads blocked in pthread_cond_wait on monitor.cond
  ready,           \* the READY monitor on the creator's stack during start()
  queue, gc,       \* worker_data: tasks to run, tasks run and not collected
  running,         \* worker_data: the task being run
  tasksCollected,  \* worker_data: collected since the thread last looked
  done,            \* done_tasks_cache: the thread's own copies of run tasks
  doneInit,        \* done_tasks_cache has been memset
  that,            \* the thread's own copy of the task it is running
  items,           \* what was stacked, in order
  taskFlags,       \* monitor.state of each task
  collected,       \* collect()'s local count
  cpc, wpc,        \* program counters of the creator and of the thread
  synced           \* history: tasks whose properties the creator has copied

monitorVars == <<flags, holder, waiters>>
dataVars == <<queue, gc, running, tasksCollected>>
threadVars == <<done, doneInit, that>>
taskVars == <<items, taskFlags>>
vars == <<isWorker, monitorVars, ready, dataVars, threadVars, taskVars,
          collected, cpc, wpc, synced>>

Creator == "creator"
Thread == "thread"
None == "none"
NULL == 0           \* no queue item: items are numbered from 1

Ids == 1 .. MaxStacked
MonitorFlags == {"STARTED", "RUNNING", "JOINED", "ERROR", "COLLECT_GARBAGE",
                 "EXIT", "AWAIT_JOIN"}

CreatorPcs == {"idle", "create", "ready_wait", "collect", "collector",
               "collect_end", "join_wait", "join_sync", "join_exit",
               "pthread_join", "freed"}
ThreadPcs == {"none", "startup", "this", "this_run", "this_leave", "next",
              "setup", "enter", "run", "leave", "garbage", "cache", "await",
              "exit_wait", "clean", "shutdown", "dead", "crashed"}

\* The type invariant.
TypeOK ==
  /\ isWorker \in BOOLEAN
  /\ flags \in SUBSET MonitorFlags
  /\ holder \in {None, Creator}
  /\ waiters \in SUBSET {Creator, Thread}
  /\ ready \in {"none", "init", "ready"}
  /\ queue \in Seq(Nat) /\ gc \in Seq(Nat) /\ done \in Seq(Nat)
  /\ running \in Nat /\ that \in Nat
  /\ tasksCollected \in Nat /\ collected \in Nat
  /\ doneInit \in BOOLEAN
  /\ items \in Seq(Tasks)
  /\ taskFlags \in [Tasks -> SUBSET {"RUNNING", "ERROR"}]
  /\ cpc \in CreatorPcs /\ wpc \in ThreadPcs
  /\ synced \in SUBSET Nat

Init ==
  /\ isWorker \in BOOLEAN
  /\ flags = {} /\ holder = None /\ waiters = {} /\ ready = "none"
  /\ queue = << >> /\ gc = << >> /\ running = NULL /\ tasksCollected = 0
  /\ done = << >> /\ doneInit = FALSE /\ that = NULL
  /\ items = << >> /\ taskFlags = [t \in Tasks |-> {}]
  /\ collected = 0 /\ cpc = "idle" /\ wpc = "none"
  /\ synced = {}

-----------------------------------------------------------------------------
(* The monitor.                                                            *)

\* p can take the (recursive) mutex and is not asleep on the condition.
CanLock(p) == holder \in {None, p} /\ p \notin waiters

\* The bit is set but nobody is woken.
MonitorAddSilent(f) ==
  /\ flags' = flags \cup {f}
  /\ UNCHANGED <<waiters, holder>>

\* pthreads_monitor_add: set the bit, wake every waiter.
MonitorAdd(f) ==
  /\ flags' = flags \cup {f}
  /\ waiters' = {}
  /\ UNCHANGED holder

\* pthreads_monitor_remove.
MonitorRemove(f) ==
  /\ flags' = flags \ {f}
  /\ waiters' = {}
  /\ UNCHANGED holder

\* pthread_cond_wait: give up the mutex and sleep.
CondWait(p) ==
  /\ waiters' = waiters \cup {p}
  /\ UNCHANGED <<flags, holder>>

\* pthread_cond_wait may return unasked; ThreadedBase::notify() on the
\* Worker object has the same effect.
SpuriousWake(p) ==
  /\ p \in waiters
  /\ waiters' = waiters \ {p}
  /\ UNCHANGED <<isWorker, flags, holder, ready, dataVars, threadVars,
                 taskVars, collected, cpc, wpc, synced>>

-----------------------------------------------------------------------------
(* The creator.                                                            *)

\* Thread::start up to pthread_create; a second start() throws.
Start ==
  /\ cpc = "idle" /\ CanLock(Creator)
  /\ "STARTED" \notin flags
  /\ MonitorAdd("STARTED")
  /\ ready' = "init"
  /\ cpc' = "create"
  /\ UNCHANGED <<isWorker, dataVars, threadVars, taskVars, collected, wpc, synced>>

CreateSuccess ==
  /\ cpc = "create"
  /\ wpc' = "startup"
  /\ cpc' = "ready_wait"
  /\ UNCHANGED <<isWorker, monitorVars, ready, dataVars, threadVars, taskVars,
                 collected, synced>>

\* EAGAIN and every other error: pthreads_routine_free undoes STARTED.
CreateFailure ==
  /\ cpc = "create" /\ CanLock(Creator)
  /\ MonitorRemove("STARTED")
  /\ ready' = "none"
  /\ cpc' = "idle"
  /\ UNCHANGED <<isWorker, dataVars, threadVars, taskVars, collected, wpc, synced>>

\* pthreads_routine_wait.
StartReturn ==
  /\ cpc = "ready_wait" /\ ready = "ready"
  /\ ready' = "none"
  /\ cpc' = "idle"
  /\ UNCHANGED <<isWorker, monitorVars, dataVars, threadVars, taskVars,
                 collected, wpc, synced>>

\* Worker::stack.  A wake-up that is lost: nobody is ever notified.
StackUnnotified(t) ==
  /\ isWorker /\ cpc \in {"idle", "collector"} /\ CanLock(Creator)
  /\ Len(items) < MaxStacked
  /\ items' = Append(items, t)
  /\ queue' = Append(queue, Len(items) + 1)
  /\ UNCHANGED <<isWorker, monitorVars, ready, gc, running, tasksCollected,
                 threadVars, taskFlags, collected, cpc, wpc, synced>>

\* Worker::stack, from the creator's code or from its collector callback.
\* Only a push onto an empty queue notifies.
Stack(t) ==
  /\ isWorker /\ cpc \in {"idle", "collector"} /\ CanLock(Creator)
  /\ Len(items) < MaxStacked
  /\ items' = Append(items, t)
  /\ queue' = Append(queue, Len(items) + 1)
  /\ waiters' = IF queue = << >> THEN {} ELSE waiters
  /\ UNCHANGED <<isWorker, flags, holder, ready, gc, running, tasksCollected,
                 threadVars, taskFlags, collected, cpc, wpc, synced>>

\* Worker::unstack taking the wrong end of the queue.
UnstackNewest ==
  /\ isWorker /\ cpc \in {"idle", "collector"} /\ CanLock(Creator)
  /\ queue # << >>
  /\ queue' = SubSeq(queue, 1, Len(queue) - 1)
  /\ UNCHANGED <<isWorker, monitorVars, ready, gc, running, tasksCollected,
                 threadVars, taskVars, collected, cpc, wpc, synced>>

\* Worker::unstack; on an empty queue it returns null and changes nothing.
Unstack ==
  /\ isWorker /\ cpc \in {"idle", "collector"} /\ CanLock(Creator)
  /\ queue # << >>
  /\ queue' = Tail(queue)
  /\ UNCHANGED <<isWorker, monitorVars, ready, gc, running, tasksCollected,
                 threadVars, taskVars, collected, cpc, wpc, synced>>

\* Worker::collect: take the mutex and keep it across the callbacks.
CollectBegin ==
  /\ isWorker /\ cpc = "idle" /\ CanLock(Creator)
  /\ holder' = Creator
  /\ collected' = 0
  /\ cpc' = "collect"
  /\ UNCHANGED <<isWorker, flags, waiters, ready, dataVars, threadVars,
                 taskVars, wpc, synced>>

\* The head of gc is synchronised and handed to the collector.
CollectCall ==
  /\ cpc = "collect" /\ gc # << >>
  /\ synced' = synced \cup {Head(gc)}
  /\ cpc' = "collector"
  /\ UNCHANGED <<isWorker, monitorVars, ready, dataVars, threadVars, taskVars,
                 collected, wpc>>

\* The collector returned true.
CollectAccept ==
  /\ cpc = "collector"
  /\ gc' = Tail(gc)
  /\ collected' = collected + 1
  /\ cpc' = "collect"
  /\ UNCHANGED <<isWorker, monitorVars, ready, queue, running, tasksCollected,
                 threadVars, taskVars, wpc, synced>>

\* The collector returned false: nothing behind the refused task is tried.
CollectRefuse ==
  /\ cpc = "collector"
  /\ cpc' = "collect_end"
  /\ UNCHANGED <<isWorker, monitorVars, ready, dataVars, threadVars, taskVars,
                 collected, wpc, synced>>

\* A count that overwrites the one the thread has not seen yet.
CollectEndOverwrite ==
  /\ cpc = "collect_end" \/ (cpc = "collect" /\ gc = << >>)
  /\ IF collected > 0
       THEN /\ tasksCollected' = collected
            /\ flags' = flags \cup {"COLLECT_GARBAGE"}
            /\ waiters' = {}
       ELSE UNCHANGED <<tasksCollected, flags, waiters>>
  /\ holder' = None
  /\ collected' = 0
  /\ cpc' = "idle"
  /\ UNCHANGED <<isWorker, ready, queue, gc, running, threadVars, taskVars,
                 wpc, synced>>

\* Report the collected tasks to the thread and release the mutex.
CollectEnd ==
  /\ cpc = "collect_end" \/ (cpc = "collect" /\ gc = << >>)
  /\ IF collected > 0
       THEN /\ tasksCollected' = tasksCollected + collected
            /\ flags' = flags \cup {"COLLECT_GARBAGE"}
            /\ waiters' = {}
       ELSE UNCHANGED <<tasksCollected, flags, waiters>>
  /\ holder' = None
  /\ collected' = 0
  /\ cpc' = "idle"
  /\ UNCHANGED <<isWorker, ready, queue, gc, running, threadVars, taskVars,
                 wpc, synced>>

\* Thread::join, or the destructor's implicit one; it throws unless the
\* thread is started and not yet joined.
JoinBegin ==
  /\ cpc = "idle" /\ CanLock(Creator)
  /\ "STARTED" \in flags /\ "JOINED" \notin flags
  /\ MonitorAdd("JOINED")
  /\ cpc' = "join_wait"
  /\ UNCHANGED <<isWorker, ready, dataVars, threadVars, taskVars, collected,
                 wpc, synced>>

\* pthreads_monitor_wait_until(AWAIT_JOIN).
JoinWait ==
  /\ cpc = "join_wait" /\ CanLock(Creator)
  /\ IF "AWAIT_JOIN" \in flags
       THEN cpc' = "join_sync" /\ UNCHANGED monitorVars
       ELSE CondWait(Creator) /\ UNCHANGED cpc
  /\ UNCHANGED <<isWorker, ready, dataVars, threadVars, taskVars, collected,
                 wpc, synced>>

\* Copying only the task at the head of gc.
JoinSyncHead ==
  /\ cpc = "join_sync" /\ CanLock(Creator)
  /\ synced' = IF gc = << >> THEN synced ELSE synced \cup {Head(gc)}
  /\ cpc' = "join_exit"
  /\ UNCHANGED <<isWorker, monitorVars, ready, dataVars, threadVars, taskVars,
                 collected, wpc>>

\* Copy the properties of the thread object and of every task in gc while
\* the thread that owns them is alive and runs no PHP.
JoinSync ==
  /\ cpc = "join_sync" /\ CanLock(Creator)
  /\ synced' = synced \cup Range(gc)
  /\ cpc' = "join_exit"
  /\ UNCHANGED <<isWorker, monitorVars, ready, dataVars, threadVars, taskVars,
                 collected, wpc>>

JoinExit ==
  /\ cpc = "join_exit" /\ CanLock(Creator)
  /\ MonitorAdd("EXIT")
  /\ cpc' = "pthread_join"
  /\ UNCHANGED <<isWorker, ready, dataVars, threadVars, taskVars, collected,
                 wpc, synced>>

JoinReturn ==
  /\ cpc = "pthread_join" /\ wpc = "dead"
  /\ cpc' = "idle"
  /\ UNCHANGED <<isWorker, monitorVars, ready, dataVars, threadVars, taskVars,
                 collected, wpc, synced>>

\* The last reference goes away: base_dtor has joined a started thread, and
\* base_free releases worker_data and its two queues.
Free ==
  /\ cpc = "idle" /\ CanLock(Creator)
  /\ ("STARTED" \in flags) => ("JOINED" \in flags)
  /\ queue' = << >> /\ gc' = << >>
  /\ cpc' = "freed"
  /\ UNCHANGED <<isWorker, monitorVars, ready, running, tasksCollected,
                 threadVars, taskVars, collected, wpc, synced>>

-----------------------------------------------------------------------------
(* The thread: pthreads_routine.                                           *)

\* pthreads_prepared_startup ends by releasing the creator from start().
TStartup ==
  /\ wpc = "startup"
  /\ ready' = "ready"
  /\ wpc' = "this"
  /\ UNCHANGED <<isWorker, monitorVars, dataVars, threadVars, taskVars,
                 collected, cpc, synced>>

\* Building the thread's own object fails fatally, before done_tasks_cache is
\* initialised.
TThisBailout ==
  /\ wpc = "this" /\ "this" \in BailoutPoints
  /\ wpc' = "await"
  /\ UNCHANGED <<isWorker, monitorVars, ready, dataVars, threadVars, taskVars,
                 collected, cpc, synced>>

\* pthreads_routine_run_function on the thread object itself.
TRunBegin ==
  /\ wpc = "this" /\ CanLock(Thread)
  /\ MonitorAdd("RUNNING")
  /\ wpc' = "this_run"
  /\ UNCHANGED <<isWorker, ready, dataVars, threadVars, taskVars, collected,
                 cpc, synced>>

TRunReturn ==
  /\ wpc = "this_run"
  /\ wpc' = "this_leave"
  /\ UNCHANGED <<isWorker, monitorVars, ready, dataVars, threadVars, taskVars,
                 collected, cpc, synced>>

\* An uncaught exception or a bailout inside run().
TRunError ==
  /\ wpc = "this_run" /\ CanLock(Thread)
  /\ MonitorAdd("ERROR")
  /\ wpc' = "this_leave"
  /\ UNCHANGED <<isWorker, ready, dataVars, threadVars, taskVars, collected,
                 cpc, synced>>

\* run() is over; only a Worker clears its cache and enters the task loop.
TRunLeave ==
  /\ wpc = "this_leave" /\ CanLock(Thread)
  /\ MonitorRemove("RUNNING")
  /\ doneInit' = isWorker
  /\ wpc' = IF isWorker THEN "next" ELSE "await"
  /\ UNCHANGED <<isWorker, ready, dataVars, done, that, taskVars, collected,
                 cpc, synced>>

\* next_task first forgets as many copies as the creator has collected.
DropCollected ==
  IF "COLLECT_GARBAGE" \in flags
    THEN /\ done' = SubSeq(done, tasksCollected + 1, Len(done))
         /\ tasksCollected' = 0
         /\ flags' = flags \ {"COLLECT_GARBAGE"}
    ELSE UNCHANGED <<done, tasksCollected, flags>>

\* The waiters once DropCollected's monitor_remove has broadcast.
WaitersAfterDrop == IF "COLLECT_GARBAGE" \in flags THEN {} ELSE waiters

NextTask ==
  /\ wpc = "next" /\ CanLock(Thread)
  /\ DropCollected
  /\ queue # << >>
  /\ running' = Head(queue)
  /\ queue' = Tail(queue)
  /\ waiters' = WaitersAfterDrop
  /\ wpc' = "setup"
  /\ UNCHANGED <<isWorker, holder, ready, gc, doneInit, that, taskVars,
                 collected, cpc, synced>>

\* Leaving the loop with tasks still queued.
NextTaskJoinedEarly ==
  /\ wpc = "next" /\ CanLock(Thread)
  /\ DropCollected
  /\ "JOINED" \in flags
  /\ waiters' = WaitersAfterDrop
  /\ wpc' = "await"
  /\ UNCHANGED <<isWorker, holder, ready, queue, gc, running, doneInit, that,
                 taskVars, collected, cpc, synced>>

\* JOINED ends the loop only once the queue is empty.
NextTaskJoined ==
  /\ wpc = "next" /\ CanLock(Thread)
  /\ DropCollected
  /\ queue = << >> /\ "JOINED" \in flags
  /\ waiters' = WaitersAfterDrop
  /\ wpc' = "await"
  /\ UNCHANGED <<isWorker, holder, ready, queue, gc, running, doneInit, that,
                 taskVars, collected, cpc, synced>>

NextTaskWait ==
  /\ wpc = "next" /\ CanLock(Thread)
  /\ DropCollected
  /\ queue = << >> /\ "JOINED" \notin flags
  /\ waiters' = WaitersAfterDrop \cup {Thread}
  /\ UNCHANGED <<isWorker, holder, ready, queue, gc, running, doneInit, that,
                 taskVars, collected, cpc, wpc, synced>>

\* Copy the task's class and create the thread's own object for it.
TaskSetup ==
  /\ wpc = "setup"
  /\ that' = running
  /\ wpc' = "enter"
  /\ UNCHANGED <<isWorker, monitorVars, ready, dataVars, done, doneInit,
                 taskVars, collected, cpc, synced>>

\* ... which may fail fatally outside the zend_try of run_function.
TaskSetupBailout ==
  /\ wpc = "setup" /\ "task" \in BailoutPoints
  /\ wpc' = "await"
  /\ UNCHANGED <<isWorker, monitorVars, ready, dataVars, threadVars, taskVars,
                 collected, cpc, synced>>

\* A task that failed on an earlier stacking is not run again.
TaskSkip ==
  /\ wpc = "enter" /\ "ERROR" \in taskFlags[items[that]]
  /\ wpc' = "garbage"
  /\ UNCHANGED <<isWorker, monitorVars, ready, dataVars, threadVars, taskVars,
                 collected, cpc, synced>>

SetTaskFlags(pcFrom, pcTo, fs) ==
  /\ wpc = pcFrom
  /\ taskFlags' = [taskFlags EXCEPT ![items[that]] = fs]
  /\ wpc' = pcTo
  /\ UNCHANGED <<isWorker, monitorVars, ready, dataVars, threadVars, items,
                 collected, cpc, synced>>

TaskBegin ==
  /\ wpc = "enter" /\ "ERROR" \notin taskFlags[items[that]]
  /\ SetTaskFlags("enter", "run", taskFlags[items[that]] \cup {"RUNNING"})

TaskReturn ==
  /\ wpc = "run"
  /\ SetTaskFlags("run", "leave", taskFlags[items[that]])

TaskError ==
  /\ wpc = "run"
  /\ SetTaskFlags("run", "leave", taskFlags[items[that]] \cup {"ERROR"})

TaskLeave ==
  /\ wpc = "leave"
  /\ SetTaskFlags("leave", "garbage", taskFlags[items[that]] \ {"RUNNING"})

\* worker_data->running is never reset.
AddGarbageKeepsRunning ==
  /\ wpc = "garbage" /\ CanLock(Thread)
  /\ gc' = Append(gc, running)
  /\ wpc' = "cache"
  /\ UNCHANGED <<isWorker, monitorVars, ready, queue, running, tasksCollected,
                 threadVars, taskVars, collected, cpc, synced>>

\* pthreads_worker_add_garbage, first half: under the mutex.
AddGarbage ==
  /\ wpc = "garbage" /\ CanLock(Thread)
  /\ gc' = Append(gc, running)
  /\ running' = NULL
  /\ wpc' = "cache"
  /\ UNCHANGED <<isWorker, monitorVars, ready, queue, tasksCollected,
                 threadVars, taskVars, collected, cpc, synced>>

\* The copy is released with the local variable and never cached.
CachePushForgotten ==
  /\ wpc = "cache"
  /\ that' = NULL
  /\ wpc' = "next"
  /\ UNCHANGED <<isWorker, monitorVars, ready, dataVars, done, doneInit,
                 taskVars, collected, cpc, synced>>

\* Second half: after the unlock, keep the thread's copy alive.
CachePush ==
  /\ wpc = "cache"
  /\ done' = Append(done, that)
  /\ that' = NULL
  /\ wpc' = "next"
  /\ UNCHANGED <<isWorker, monitorVars, ready, dataVars, doneInit, taskVars,
                 collected, cpc, synced>>

\* The creator is told that no PHP runs here any more.
TAwaitJoin ==
  /\ wpc = "await" /\ CanLock(Thread)
  /\ MonitorAdd("AWAIT_JOIN")
  /\ wpc' = "exit_wait"
  /\ UNCHANGED <<isWorker, ready, dataVars, threadVars, taskVars, collected,
                 cpc, synced>>

\* Leaving as soon as join() has been called.
TExitOnJoined ==
  /\ wpc = "exit_wait" /\ CanLock(Thread)
  /\ IF "JOINED" \in flags
       THEN wpc' = "clean" /\ UNCHANGED monitorVars
       ELSE CondWait(Thread) /\ UNCHANGED wpc
  /\ UNCHANGED <<isWorker, ready, dataVars, threadVars, taskVars, collected,
                 cpc, synced>>

\* pthreads_monitor_wait_until(EXIT).
TExitWait ==
  /\ wpc = "exit_wait" /\ CanLock(Thread)
  /\ IF "EXIT" \in flags
       THEN wpc' = "clean" /\ UNCHANGED monitorVars
       ELSE CondWait(Thread) /\ UNCHANGED wpc
  /\ UNCHANGED <<isWorker, ready, dataVars, threadVars, taskVars, collected,
                 cpc, synced>>

\* Release the thread's objects.  A cache that was never memset is whatever
\* the stack held: empty by luck, or a crash.
TClean ==
  /\ wpc = "clean"
  /\ done' = << >>
  /\ that' = NULL
  /\ \/ wpc' = "shutdown"
     \/ isWorker /\ ~doneInit /\ wpc' = "crashed"
  /\ UNCHANGED <<isWorker, monitorVars, ready, dataVars, doneInit, taskVars,
                 collected, cpc, synced>>

\* pthreads_prepared_shutdown, then pthread_exit.
TShutdown ==
  /\ wpc = "shutdown"
  /\ wpc' = "dead"
  /\ UNCHANGED <<isWorker, monitorVars, ready, dataVars, threadVars, taskVars,
                 collected, cpc, synced>>

-----------------------------------------------------------------------------
CreatorStep ==
  \/ Start \/ CreateSuccess \/ CreateFailure \/ StartReturn
  \/ (\E t \in Tasks : Stack(t)) \/ Unstack
  \/ CollectBegin \/ CollectCall \/ CollectAccept \/ CollectRefuse \/ CollectEnd
  \/ JoinBegin \/ JoinWait \/ JoinSync \/ JoinExit \/ JoinReturn \/ Free

ThreadStep ==
  \/ TStartup \/ TThisBailout \/ TRunBegin \/ TRunReturn \/ TRunError \/ TRunLeave
  \/ NextTask \/ NextTaskJoined \/ NextTaskWait
  \/ TaskSetup \/ TaskSetupBailout \/ TaskSkip
  \/ TaskBegin \/ TaskReturn \/ TaskError \/ TaskLeave
  \/ AddGarbage \/ CachePush
  \/ TAwaitJoin \/ TExitWait \/ TClean \/ TShutdown

\* Nothing is left to do; also the end of a crashed process.
Terminated ==
  /\ cpc = "freed" \/ wpc = "crashed"
  /\ UNCHANGED vars

Next ==
  \/ CreatorStep \/ ThreadStep
  \/ \E p \in {Creator, Thread} : SpuriousWake(p)
  \/ Terminated

Spec == Init /\ [][Next]_vars

\* The scheduler runs both threads, a blocked pthread_mutex_lock is not passed
\* over for ever, the PHP code of tasks and collectors returns, and the creator
\* finishes a call it has begun.  It is never forced to make one.
Fairness ==
  /\ SF_vars(ThreadStep)
  /\ SF_vars(CreatorStep /\ cpc \notin {"idle", "freed"})

FairSpec == Spec /\ Fairness

-----------------------------------------------------------------------------
(* Properties.                                                             *)

\* The copies the thread keeps alive, the one still on its stack included.
Cached == IF wpc = "cache" THEN Append(done, that) ELSE done

ThreadGone == wpc \in {"shutdown", "dead", "crashed"}

\* done_tasks_cache and gc are two queues kept by two threads, one of them
\* outside the lock; next_task drops copies by count alone.  The copies kept are
\* always those of the tasks collected but not yet dropped, followed by those of
\* exactly the tasks in gc, in gc's order, even when collect() runs between the
\* two halves of add_garbage.
CacheMatchesGc ==
  ~ThreadGone =>
    LET dropped == tasksCollected + collected IN
    /\ Len(Cached) = dropped + Len(gc)
    /\ \A i \in 1 .. Len(gc) : Cached[dropped + i] = gc[i]

\* A property a task wrote lives in the thread that ran it.  As long as the
\* creator can still find the task in gc, that thread holds its copy, or the
\* creator has taken the properties over (full_sync in collect() and join()).
CollectableReadable ==
  \A i \in Range(gc) : i \in synced \/ i \in Range(Cached)

\* Nobody sleeps on the condition although what it waits for has happened:
\* stack() notifies only on an empty queue, every flag change broadcasts.
NoLostWakeup ==
  /\ (Thread \in waiters /\ wpc = "next") =>
       queue = << >> /\ "JOINED" \notin flags /\ tasksCollected = 0
  /\ (Thread \in waiters /\ wpc = "exit_wait") => "EXIT" \notin flags
  /\ (Creator \in waiters) => cpc = "join_wait" /\ "AWAIT_JOIN" \notin flags

\* While join() copies the thread's properties the thread is past its last PHP
\* instruction and has not begun to release its objects (AWAIT_JOIN and EXIT).
SyncWhileThreadQuiet ==
  cpc \in {"join_sync", "join_exit"} => wpc = "exit_wait"

-----------------------------------------------------------------------------
(* The parts of the inductive invariants that the proofs rest on.          *)

Collecting == cpc \in {"collect", "collector", "collect_end"}
Joining == cpc \in {"join_wait", "join_sync", "join_exit", "pthread_join"}

MutexInv ==
  /\ (holder = Creator) <=> Collecting
  /\ (cpc = "collector") => (gc # << >>)
  /\ ~Collecting => (collected = 0)

\* How the flags tie the two program counters together.
HandshakeInv ==
  /\ ("STARTED" \notin flags \/ cpc = "create") => (wpc = "none")
  /\ (cpc = "create" \/ Joining) => ("STARTED" \in flags)
  /\ Joining => ("JOINED" \in flags)
  /\ ("JOINED" \in flags /\ ~Joining) => (wpc = "dead")
  /\ (cpc = "freed" /\ "STARTED" \in flags) => ("JOINED" \in flags)
  /\ ("AWAIT_JOIN" \in flags) <=> (wpc \in {"exit_wait", "clean"} \/ ThreadGone)
  /\ (wpc = "clean" \/ ThreadGone) => ("EXIT" \in flags)
  /\ ("EXIT" \in flags) => ("JOINED" \in flags /\ "AWAIT_JOIN" \in flags)
  /\ (cpc \in {"join_wait", "join_sync", "join_exit"}) => ("EXIT" \notin flags)
  /\ (cpc \in {"join_sync", "join_exit"}) => ("AWAIT_JOIN" \in flags)
  /\ (cpc = "pthread_join") => ("EXIT" \in flags)

\* What join() has copied, and which task the thread's own copy is of.
CopyInv ==
  /\ (cpc = "join_exit" \/ "EXIT" \in flags) => (Range(gc) \subseteq synced)
  /\ (wpc \in {"enter", "run", "leave", "garbage"}) => (that = running)
  /\ (wpc = "none") => (gc = << >>)

\* Who may be asleep, and that a count is always announced by its flag.
WaiterInv ==
  /\ (Thread \in waiters) => (wpc \in {"next", "exit_wait"})
  /\ ("COLLECT_GARBAGE" \notin flags) => (tasksCollected = 0)

\* Everything at once: inductive, and it implies the four safety properties of
\* two threads that share a queue, a flag word and a condition variable.
Invariants ==
  /\ TypeOK /\ MutexInv /\ HandshakeInv /\ CopyInv
  /\ CacheMatchesGc /\ WaiterInv /\ NoLostWakeup

-----------------------------------------------------------------------------
LoopLeft ==
  wpc \in {"await", "exit_wait", "clean"} \/ ThreadGone

\* With no bailout outside run_function: a task is marked as running only inside
\* the loop body, and the loop is left only with an empty queue.
LoopInv ==
  /\ (running # NULL) => (wpc \in {"setup", "enter", "run", "leave", "garbage"})
  /\ ~isWorker => (queue = << >>)
  /\ (LoopLeft /\ isWorker) => ("JOINED" \in flags)
  /\ (LoopLeft /\ Joining) => (queue = << >>)

\* join() takes effect only after every task stacked before it has been run and
\* handed over ("after executing all the threaded tasks previously stacked").
JoinRunsAll ==
  cpc \in {"join_sync", "join_exit", "pthread_join"} =>
    queue = << >> /\ running = NULL

\* worker.c: "we should never be freeing worker_data for a worker with active
\* tasks".
NoActiveTaskOnFree == cpc = "freed" => running = NULL

\* Where the i-th stacked task is, seen by the abstract specification.
StatusOf(i) ==
  CASE i \in Range(queue) -> "queued"
    [] i = running -> "running"
    [] i \in Range(gc) -> "finished"
    [] OTHER -> "gone"

Promise == INSTANCE TaskQueue WITH
  status <- [i \in 1 .. Len(items) |-> StatusOf(i)],
  closed <- LoopLeft

\* The two queues, the running slot and the condition variable implement the
\* FIFO promise of TaskQueue: in stacking order, one at a time, each task
\* exactly once, collected in finishing order, closed only when all have run.
ImplementsTaskQueue == Promise!Spec

\* A task that is stacked on a thread inside its task loop leaves the queue:
\* it is run or unstacked.
StackedIsTaken ==
  \A i \in Ids :
    (i \in Range(queue) /\ wpc \notin {"none", "startup"} /\ ~LoopLeft)
      ~> i \notin Range(queue)

\* Every call the creator makes returns: start() is released by READY, collect()
\* gives the mutex back, join() sees the thread out.
CallsReturn == (cpc \notin {"idle", "freed"}) ~> (cpc = "idle")
=============================================================================

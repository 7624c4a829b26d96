---------------------------- MODULE WorkerProofs ----------------------------
(***************************************************************************)
(* Theorems about Worker, for every set of tasks, every bound and every    *)
(* set of bailout points unless the theorem says otherwise, and about the  *)
(* Pool that owns Workers, for every set of sizes, any number of           *)
(* submissions and any progress of the Workers.                            *)
(***************************************************************************)
EXTENDS Worker, Pool, FiniteSetTheorems, SequenceTheorems, TLAPS

-----------------------------------------------------------------------------
(* Facts about queues of task numbers.                                     *)

\* Dropping the first n items of a queue, as next_task does with its cache.
LEMMA DropFacts ==
  ASSUME NEW s \in Seq(Nat), NEW n \in Nat
  PROVE  LET d == SubSeq(s, n + 1, Len(s)) IN
         /\ d \in Seq(Nat)
         /\ n <= Len(s) => Len(d) = Len(s) - n
         /\ \A i \in 1 .. Len(s) - n : d[i] = s[n + i]
<1>1. Len(s) \in Nat
  BY LenProperties
<1>2. \A i \in n + 1 .. Len(s) : s[i] \in Nat
  BY <1>1, ElementOfSeq
<1>3. /\ SubSeq(s, n + 1, Len(s)) \in Seq(Nat)
      /\ Len(SubSeq(s, n + 1, Len(s)))
           = IF n + 1 <= Len(s) THEN Len(s) - (n + 1) + 1 ELSE 0
      /\ \A i \in 1 .. Len(s) - (n + 1) + 1 :
           SubSeq(s, n + 1, Len(s))[i] = s[(n + 1) + i - 1]
  BY <1>1, <1>2, SubSeqProperties
<1> QED
  BY <1>1, <1>3

\* What Tail does to the queue of tasks to collect.
LEMMA TailFacts ==
  ASSUME NEW s \in Seq(Nat), s # << >>
  PROVE  /\ Tail(s) \in Seq(Nat) /\ Head(s) \in Nat
         /\ Len(s) \in Nat \ {0}
         /\ Len(Tail(s)) = Len(s) - 1
         /\ \A i \in 1 .. Len(s) - 1 : Tail(s)[i] = s[i + 1]
         /\ Range(Tail(s)) \subseteq Range(s)
<1>1. /\ Tail(s) \in Seq(Nat) /\ Head(s) \in Nat
      /\ Len(Tail(s)) = Len(s) - 1
      /\ \A i \in 1 .. Len(Tail(s)) : Tail(s)[i] = s[i + 1]
  BY HeadTailProperties
<1>2. Len(s) \in Nat \ {0}
  BY EmptySeq
<1>3. Range(Tail(s)) \subseteq Range(s)
  <2>1. Range(Tail(s)) = {Tail(s)[i] : i \in 1 .. Len(Tail(s))}
    BY <1>1, RangeEquality
  <2>2. Range(s) = {s[i] : i \in 1 .. Len(s)}
    BY RangeEquality
  <2> QED
    BY <1>1, <1>2, <2>1, <2>2
<1> QED
  BY <1>1, <1>2, <1>3

\* What add_garbage does to gc and to the cache.
LEMMA AppendFacts ==
  ASSUME NEW s \in Seq(Nat), NEW n \in Nat
  PROVE  /\ Append(s, n) \in Seq(Nat)
         /\ Append(s, n) # << >>
         /\ Len(s) \in Nat
         /\ Len(Append(s, n)) = Len(s) + 1
         /\ \A i \in 1 .. Len(s) : Append(s, n)[i] = s[i]
         /\ Append(s, n)[Len(s) + 1] = n
<1>1. Len(s) \in Nat
  BY LenProperties
<1>2. /\ Append(s, n) \in Seq(Nat)
      /\ Len(Append(s, n)) = Len(s) + 1
      /\ \A i \in 1 .. Len(s) : Append(s, n)[i] = s[i]
      /\ Append(s, n)[Len(s) + 1] = n
  BY <1>1, AppendProperties
<1>3. Append(s, n) # << >>
  <2>1. Len(<< >>) = 0
    BY EmptySeq
  <2> QED
    BY <1>1, <1>2, <2>1
<1> QED
  BY <1>1, <1>2, <1>3

\* The thread's drop of collected copies has the right types.
LEMMA DropTyped ==
  ASSUME TypeOK, DropCollected
  PROVE  /\ done' \in Seq(Nat) /\ tasksCollected' \in Nat
         /\ flags' \in SUBSET MonitorFlags
<1>1. done \in Seq(Nat) /\ tasksCollected \in Nat /\ flags \in SUBSET MonitorFlags
  BY DEF TypeOK
<1>2. SubSeq(done, tasksCollected + 1, Len(done)) \in Seq(Nat)
  BY <1>1, DropFacts
<1>3. CASE "COLLECT_GARBAGE" \in flags
  <2>1. flags' = flags \ {"COLLECT_GARBAGE"} /\ tasksCollected' = 0
    BY <1>3 DEF DropCollected
  <2>2. done' = SubSeq(done, tasksCollected + 1, Len(done))
    BY <1>3 DEF DropCollected
  <2> QED
    BY <1>1, <1>2, <2>1, <2>2
<1>4. CASE "COLLECT_GARBAGE" \notin flags
  BY <1>1, <1>4 DEF DropCollected
<1> QED
  BY <1>3, <1>4

\* A task's flag word keeps its type when one bit of it changes.
LEMMA TaskFlagsTyped ==
  ASSUME TypeOK, NEW fs,
         fs \in {taskFlags[items[that]], taskFlags[items[that]] \cup {"RUNNING"},
                 taskFlags[items[that]] \cup {"ERROR"},
                 taskFlags[items[that]] \ {"RUNNING"}}
  PROVE  [taskFlags EXCEPT ![items[that]] = fs]
           \in [Tasks -> SUBSET {"RUNNING", "ERROR"}]
<1>1. taskFlags \in [Tasks -> SUBSET {"RUNNING", "ERROR"}]
  BY DEF TypeOK
<1>2. CASE items[that] \in Tasks
  <2>1. fs \in SUBSET {"RUNNING", "ERROR"}
    BY <1>1, <1>2
  <2> QED
    BY <1>1, <1>2, <2>1
<1>3. CASE items[that] \notin Tasks
  BY <1>1, <1>3
<1> QED
  BY <1>2, <1>3

-----------------------------------------------------------------------------
(* Type correctness.                                                       *)

\* Every step keeps the type invariant; MutexInv is needed because the collector
\* is only called with a task in gc.
LEMMA TypeStep == TypeOK /\ MutexInv /\ [Next]_vars => TypeOK'
<1> SUFFICES ASSUME TypeOK, MutexInv, [Next]_vars PROVE TypeOK'
  OBVIOUS
<1> USE DEF monitorVars, dataVars, threadVars, taskVars, Creator, Thread, None, NULL
<1>0. << >> \in Seq(Nat)
  BY EmptySeq
<1>1. CASE UNCHANGED vars
  BY <1>1 DEF TypeOK, vars
<1>2. CASE CreatorStep
  <2>1. CASE Start \/ CreateSuccess \/ CreateFailure \/ StartReturn
    BY <2>1 DEF TypeOK, Start, CreateSuccess, CreateFailure, StartReturn,
         MonitorAdd, MonitorRemove, MonitorFlags, CreatorPcs, ThreadPcs
  <2>2. ASSUME NEW t \in Tasks, Stack(t) PROVE TypeOK'
    <3>1. items' \in Seq(Tasks)
      BY <2>2, AppendProperties DEF TypeOK, Stack
    <3>2. Len(items) + 1 \in Nat
      BY LenProperties DEF TypeOK
    <3>3. queue' \in Seq(Nat)
      BY <2>2, <3>2, AppendProperties DEF TypeOK, Stack
    <3> QED
      BY <2>2, <3>1, <3>3 DEF TypeOK, Stack
  <2>3. CASE Unstack
    <3>1. Tail(queue) \in Seq(Nat)
      BY <2>3, TailFacts DEF TypeOK, Unstack
    <3> QED
      BY <2>3, <3>1 DEF TypeOK, Unstack
  <2>4. CASE CollectBegin
    BY <2>4 DEF TypeOK, CollectBegin, CreatorPcs
  <2>11. CASE CollectRefuse
    BY <2>11 DEF TypeOK, CollectRefuse, CreatorPcs
  <2>5. CASE CollectCall
    <3>1. Head(gc) \in Nat
      BY <2>5, TailFacts DEF TypeOK, CollectCall
    <3> QED
      BY <2>5, <3>1 DEF TypeOK, CollectCall, CreatorPcs
  <2>6. CASE CollectAccept
    <3>1. Tail(gc) \in Seq(Nat)
      BY <2>6, TailFacts DEF TypeOK, MutexInv, CollectAccept
    <3> QED
      BY <2>6, <3>1 DEF TypeOK, CollectAccept, CreatorPcs
  <2>7. CASE CollectEnd
    <3>1. /\ UNCHANGED flags \/ flags' = flags \cup {"COLLECT_GARBAGE"}
          /\ UNCHANGED waiters \/ waiters' = {}
          /\ UNCHANGED tasksCollected \/ tasksCollected' = tasksCollected + collected
      BY <2>7 DEF CollectEnd
    <3>2. flags' \in SUBSET MonitorFlags /\ waiters' \in SUBSET {Creator, Thread}
      BY <3>1 DEF TypeOK, MonitorFlags
    <3>3. tasksCollected' \in Nat
      BY <3>1 DEF TypeOK
    <3> QED
      BY <2>7, <3>2, <3>3 DEF TypeOK, CollectEnd, CreatorPcs
  <2>8. CASE JoinBegin \/ JoinWait \/ JoinExit \/ JoinReturn
    BY <2>8 DEF TypeOK, JoinBegin, JoinWait, JoinExit, JoinReturn, CondWait,
         MonitorAdd, MonitorFlags, CreatorPcs
  <2>9. CASE JoinSync
    <3>1. Range(gc) \in SUBSET Nat
      BY RangeOfSeq DEF TypeOK
    <3> QED
      BY <2>9, <3>1 DEF TypeOK, JoinSync, CreatorPcs
  <2>10. CASE Free
    BY <1>0, <2>10 DEF TypeOK, Free, CreatorPcs
  <2> QED
    BY <1>2, <2>1, <2>2, <2>3, <2>4, <2>5, <2>6, <2>7, <2>8, <2>9, <2>10, <2>11
       DEF CreatorStep
<1>3. CASE ThreadStep
  <2>1. CASE TStartup \/ TThisBailout \/ TRunBegin \/ TRunReturn \/ TRunError \/ TRunLeave
    BY <2>1 DEF TypeOK, TStartup, TThisBailout, TRunBegin, TRunReturn, TRunError,
         TRunLeave, MonitorAdd, MonitorRemove, MonitorFlags, ThreadPcs
  <2>2. CASE NextTask
    <3>1. Head(queue) \in Nat /\ Tail(queue) \in Seq(Nat)
      BY <2>2, TailFacts DEF TypeOK, NextTask
    <3> QED
      BY <2>2, <3>1, DropTyped DEF TypeOK, NextTask, WaitersAfterDrop, ThreadPcs
  <2>3. CASE NextTaskJoined \/ NextTaskWait
    BY <2>3, DropTyped DEF TypeOK, NextTaskJoined, NextTaskWait,
         WaitersAfterDrop, ThreadPcs
  <2>4. CASE TaskSetup \/ TaskSetupBailout \/ TaskSkip
    BY <2>4 DEF TypeOK, TaskSetup, TaskSetupBailout, TaskSkip, ThreadPcs
  <2>5. CASE TaskBegin \/ TaskReturn \/ TaskError \/ TaskLeave
    <3>1. taskFlags' \in [Tasks -> SUBSET {"RUNNING", "ERROR"}]
      BY <2>5, TaskFlagsTyped DEF TaskBegin, TaskReturn, TaskError, TaskLeave,
           SetTaskFlags
    <3> QED
      BY <2>5, <3>1 DEF TypeOK, TaskBegin, TaskReturn, TaskError, TaskLeave,
           SetTaskFlags, ThreadPcs
  <2>6. CASE AddGarbage
    <3>1. Append(gc, running) \in Seq(Nat)
      BY AppendProperties DEF TypeOK
    <3> QED
      BY <2>6, <3>1 DEF TypeOK, AddGarbage, ThreadPcs
  <2>7. CASE CachePush
    <3>1. Append(done, that) \in Seq(Nat)
      BY AppendProperties DEF TypeOK
    <3> QED
      BY <2>7, <3>1 DEF TypeOK, CachePush, ThreadPcs
  <2>8. CASE TAwaitJoin \/ TExitWait \/ TShutdown
    BY <2>8 DEF TypeOK, TAwaitJoin, TExitWait, TShutdown, CondWait,
         MonitorAdd, MonitorFlags, ThreadPcs
  <2>9. CASE TClean
    BY <1>0, <2>9 DEF TypeOK, TClean, ThreadPcs
  <2> QED
    BY <1>3, <2>1, <2>2, <2>3, <2>4, <2>5, <2>6, <2>7, <2>8, <2>9 DEF ThreadStep
<1>4. ASSUME NEW p \in {Creator, Thread}, SpuriousWake(p) PROVE TypeOK'
  BY <1>4 DEF TypeOK, SpuriousWake
<1>5. CASE Terminated
  BY <1>5 DEF TypeOK, Terminated, vars
<1> QED
  BY <1>1, <1>2, <1>3, <1>4, <1>5 DEF Next

-----------------------------------------------------------------------------
(* Mutual exclusion and the join handshake.                                *)

\* The creator holds the mutex exactly while it is inside collect().
LEMMA MutexStep == TypeOK /\ MutexInv /\ [Next]_vars => MutexInv'
<1> SUFFICES ASSUME TypeOK, MutexInv, [Next]_vars PROVE MutexInv'
  OBVIOUS
<1> USE DEF monitorVars, dataVars, threadVars, taskVars, Creator, Thread, None,
            MutexInv, Collecting
<1>1. CASE UNCHANGED vars
  BY <1>1 DEF vars
<1>2. CASE CreatorStep
  <2>1. CASE Start \/ CreateSuccess \/ CreateFailure \/ StartReturn \/ Unstack
             \/ \E t \in Tasks : Stack(t)
    BY <2>1 DEF Start, CreateSuccess, CreateFailure, StartReturn, Unstack, Stack,
         MonitorAdd, MonitorRemove
  <2>2. CASE CollectBegin \/ CollectCall \/ CollectAccept \/ CollectRefuse
    BY <2>2 DEF CollectBegin, CollectCall, CollectAccept, CollectRefuse
  <2>3. CASE CollectEnd
    BY <2>3 DEF CollectEnd
  <2>4. CASE JoinBegin \/ JoinWait \/ JoinSync \/ JoinExit \/ JoinReturn \/ Free
    BY <2>4 DEF JoinBegin, JoinWait, JoinSync, JoinExit, JoinReturn, Free, CondWait,
         MonitorAdd
  <2> QED
    BY <1>2, <2>1, <2>2, <2>3, <2>4 DEF CreatorStep
<1>3. CASE ThreadStep
  <2>1. UNCHANGED <<holder, cpc, collected>>
    BY <1>3 DEF ThreadStep, TStartup, TThisBailout, TRunBegin, TRunReturn, TRunError,
         TRunLeave, NextTask, NextTaskJoined, NextTaskWait, TaskSetup,
         TaskSetupBailout, TaskSkip, TaskBegin, TaskReturn, TaskError, TaskLeave,
         SetTaskFlags, AddGarbage, CachePush, TAwaitJoin, TExitWait, TClean,
         TShutdown, MonitorAdd, MonitorRemove, CondWait
  <2>2. gc' = gc \/ gc' = Append(gc, running)
    BY <1>3 DEF ThreadStep, TStartup, TThisBailout, TRunBegin, TRunReturn, TRunError,
         TRunLeave, NextTask, NextTaskJoined, NextTaskWait, TaskSetup,
         TaskSetupBailout, TaskSkip, TaskBegin, TaskReturn, TaskError, TaskLeave,
         SetTaskFlags, AddGarbage, CachePush, TAwaitJoin, TExitWait, TClean, TShutdown
  <2>3. Append(gc, running) # << >>
    <3>1. gc \in Seq(Nat) /\ running \in Nat
      BY DEF TypeOK
    <3> QED
      BY <3>1, AppendFacts, Zenon
  <2>4. (gc # << >>) => (gc' # << >>)
    BY <2>2, <2>3
  <2> QED
    BY <2>1, <2>4
<1>4. ASSUME NEW p \in {Creator, Thread}, SpuriousWake(p) PROVE MutexInv'
  BY <1>4 DEF SpuriousWake
<1>5. CASE Terminated
  BY <1>5 DEF Terminated, vars
<1> QED
  BY <1>1, <1>2, <1>3, <1>4, <1>5 DEF Next

\* The flags and the two program counters stay tied together.
LEMMA HandshakeStep == TypeOK /\ HandshakeInv /\ [Next]_vars => HandshakeInv'
<1> SUFFICES ASSUME TypeOK, HandshakeInv, [Next]_vars PROVE HandshakeInv'
  OBVIOUS
<1> USE DEF monitorVars, dataVars, threadVars, taskVars, HandshakeInv, Joining,
            ThreadGone
<1>1. CASE UNCHANGED vars
  BY <1>1 DEF vars
<1>2. CASE CreatorStep
  <2>1. CASE Start \/ CreateSuccess
    BY <2>1 DEF Start, CreateSuccess, MonitorAdd
  <2>2. CASE CreateFailure \/ StartReturn
    BY <2>2 DEF CreateFailure, StartReturn, MonitorRemove
  <2>3. CASE Unstack \/ \E t \in Tasks : Stack(t)
    BY <2>3 DEF Unstack, Stack
  <2>4. CASE CollectBegin \/ CollectCall \/ CollectAccept \/ CollectRefuse
    BY <2>4 DEF CollectBegin, CollectCall, CollectAccept, CollectRefuse
  <2>5. CASE CollectEnd
    <3>1. flags' = flags \/ flags' = flags \cup {"COLLECT_GARBAGE"}
      BY <2>5 DEF CollectEnd
    <3> QED
      BY <2>5, <3>1 DEF CollectEnd
  <2>6. CASE JoinBegin \/ JoinExit
    BY <2>6 DEF JoinBegin, JoinExit, MonitorAdd
  <2>7. CASE JoinWait \/ JoinSync \/ JoinReturn \/ Free
    BY <2>7 DEF JoinWait, JoinSync, JoinReturn, Free, CondWait
  <2> QED
    BY <1>2, <2>1, <2>2, <2>3, <2>4, <2>5, <2>6, <2>7 DEF CreatorStep
<1>3. CASE ThreadStep
  <2>1. CASE TStartup \/ TThisBailout \/ TRunReturn
    BY <2>1 DEF TStartup, TThisBailout, TRunReturn
  <2>2. CASE TRunBegin \/ TRunError \/ TRunLeave
    BY <2>2 DEF TRunBegin, TRunError, TRunLeave, MonitorAdd, MonitorRemove
  <2>3. CASE NextTask \/ NextTaskJoined \/ NextTaskWait
    <3>1. flags' = flags \/ flags' = flags \ {"COLLECT_GARBAGE"}
      BY <2>3 DEF NextTask, NextTaskJoined, NextTaskWait, DropCollected
    <3> QED
      BY <2>3, <3>1 DEF NextTask, NextTaskJoined, NextTaskWait
  <2>4. CASE TaskSetup \/ TaskSetupBailout \/ TaskSkip
    BY <2>4 DEF TaskSetup, TaskSetupBailout, TaskSkip
  <2>5. CASE TaskBegin \/ TaskReturn \/ TaskError \/ TaskLeave
    BY <2>5 DEF TaskBegin, TaskReturn, TaskError, TaskLeave, SetTaskFlags
  <2>6. CASE AddGarbage \/ CachePush
    BY <2>6 DEF AddGarbage, CachePush
  <2>7. CASE TAwaitJoin \/ TExitWait
    BY <2>7 DEF TAwaitJoin, TExitWait, MonitorAdd, CondWait
  <2>8. CASE TClean \/ TShutdown
    BY <2>8 DEF TClean, TShutdown
  <2> QED
    BY <1>3, <2>1, <2>2, <2>3, <2>4, <2>5, <2>6, <2>7, <2>8 DEF ThreadStep
<1>4. ASSUME NEW p \in {Creator, Thread}, SpuriousWake(p) PROVE HandshakeInv'
  BY <1>4 DEF SpuriousWake
<1>5. CASE Terminated
  BY <1>5 DEF Terminated, vars
<1> QED
  BY <1>1, <1>2, <1>3, <1>4, <1>5 DEF Next

\* What join() has copied stays copied, and the thread runs its own copy of the
\* task that worker_data calls running.
LEMMA CopyStep ==
  TypeOK /\ MutexInv /\ HandshakeInv /\ CopyInv /\ [Next]_vars => CopyInv'
<1> SUFFICES ASSUME TypeOK, MutexInv, HandshakeInv, CopyInv, [Next]_vars
             PROVE  CopyInv'
  OBVIOUS
<1> USE DEF monitorVars, dataVars, threadVars, taskVars, CopyInv
<1>1. CASE UNCHANGED vars
  BY <1>1 DEF vars
<1>2. CASE CreatorStep
  <2>1. CASE Start \/ CreateSuccess \/ CreateFailure \/ StartReturn
    BY <2>1 DEF Start, CreateSuccess, CreateFailure, StartReturn, MonitorAdd,
         MonitorRemove
  <2>2. CASE Unstack \/ \E t \in Tasks : Stack(t)
    BY <2>2 DEF Unstack, Stack
  <2>3. CASE CollectBegin \/ CollectCall \/ CollectRefuse
    BY <2>3 DEF CollectBegin, CollectCall, CollectRefuse
  <2>4. CASE CollectAccept
    <3>1. gc \in Seq(Nat) /\ gc # << >>
      BY <2>4 DEF TypeOK, MutexInv, CollectAccept
    <3>2. Range(gc') \subseteq Range(gc)
      BY <2>4, <3>1, TailFacts DEF CollectAccept
    <3>3. gc # << >> /\ wpc # "none"
      BY <3>1
    <3> QED
      BY <2>4, <3>2, <3>3 DEF CollectAccept
  <2>5. CASE CollectEnd
    <3>1. flags' = flags \/ flags' = flags \cup {"COLLECT_GARBAGE"}
      BY <2>5 DEF CollectEnd
    <3> QED
      BY <2>5, <3>1 DEF CollectEnd
  <2>6. CASE JoinBegin \/ JoinExit
    BY <2>6 DEF JoinBegin, JoinExit, MonitorAdd
  <2>7. CASE JoinWait \/ JoinSync \/ JoinReturn
    BY <2>7 DEF JoinWait, JoinSync, JoinReturn, CondWait
  <2>8. CASE Free
    <3>1. Range(<< >>) = {}
      BY DEF Range
    <3> QED
      BY <2>8, <3>1 DEF Free
  <2> QED
    BY <1>2, <2>1, <2>2, <2>3, <2>4, <2>5, <2>6, <2>7, <2>8 DEF CreatorStep
<1>3. CASE ThreadStep
  <2>1. CASE TStartup \/ TThisBailout \/ TRunReturn
    BY <2>1 DEF TStartup, TThisBailout, TRunReturn
  <2>2. CASE TRunBegin \/ TRunError \/ TRunLeave
    BY <2>2 DEF TRunBegin, TRunError, TRunLeave, MonitorAdd, MonitorRemove
  <2>3. CASE NextTask \/ NextTaskJoined \/ NextTaskWait
    <3>1. flags' = flags \/ flags' = flags \ {"COLLECT_GARBAGE"}
      BY <2>3 DEF NextTask, NextTaskJoined, NextTaskWait, DropCollected
    <3> QED
      BY <2>3, <3>1 DEF NextTask, NextTaskJoined, NextTaskWait
  <2>4. CASE TaskSetup \/ TaskSetupBailout \/ TaskSkip
    BY <2>4 DEF TaskSetup, TaskSetupBailout, TaskSkip
  <2>5. CASE TaskBegin \/ TaskReturn \/ TaskError \/ TaskLeave
    BY <2>5 DEF TaskBegin, TaskReturn, TaskError, TaskLeave, SetTaskFlags
  <2>6. CASE AddGarbage
    <3>1. "AWAIT_JOIN" \notin flags /\ "EXIT" \notin flags /\ cpc # "join_exit"
      BY <2>6 DEF AddGarbage, HandshakeInv, ThreadGone
    <3> QED
      BY <2>6, <3>1 DEF AddGarbage
  <2>7. CASE CachePush
    BY <2>7 DEF CachePush
  <2>8. CASE TAwaitJoin \/ TExitWait
    BY <2>8 DEF TAwaitJoin, TExitWait, MonitorAdd, CondWait
  <2>9. CASE TClean \/ TShutdown
    BY <2>9 DEF TClean, TShutdown
  <2> QED
    BY <1>3, <2>1, <2>2, <2>3, <2>4, <2>5, <2>6, <2>7, <2>8, <2>9 DEF ThreadStep
<1>4. ASSUME NEW p \in {Creator, Thread}, SpuriousWake(p) PROVE CopyInv'
  BY <1>4 DEF SpuriousWake
<1>5. CASE Terminated
  BY <1>5 DEF Terminated, vars
<1> QED
  BY <1>1, <1>2, <1>3, <1>4, <1>5 DEF Next

-----------------------------------------------------------------------------
(* Wake-ups.                                                               *)

\* No step leaves a thread asleep on a condition that has come true.
LEMMA WakeupStep ==
  TypeOK /\ HandshakeInv /\ WaiterInv /\ NoLostWakeup /\ [Next]_vars
    => WaiterInv' /\ NoLostWakeup'
<1> SUFFICES ASSUME TypeOK, HandshakeInv, WaiterInv, NoLostWakeup, [Next]_vars
             PROVE  WaiterInv' /\ NoLostWakeup'
  OBVIOUS
<1> USE DEF monitorVars, dataVars, threadVars, taskVars, WaiterInv, NoLostWakeup,
            Creator, Thread
<1>1. CASE UNCHANGED vars
  BY <1>1 DEF vars
<1>2. CASE CreatorStep
  <2>1. CASE Start \/ CreateSuccess \/ CreateFailure \/ StartReturn
    BY <2>1 DEF Start, CreateSuccess, CreateFailure, StartReturn, MonitorAdd,
         MonitorRemove, HandshakeInv
  <2>2. ASSUME NEW t \in Tasks, Stack(t) PROVE WaiterInv' /\ NoLostWakeup'
    BY <2>2 DEF Stack
  <2>3. CASE Unstack
    BY <2>3 DEF Unstack
  <2>4. CASE CollectBegin \/ CollectCall \/ CollectAccept \/ CollectRefuse
    BY <2>4 DEF CollectBegin, CollectCall, CollectAccept, CollectRefuse
  <2>5. CASE CollectEnd
    <3>1. CASE collected > 0
      BY <2>5, <3>1 DEF CollectEnd
    <3>2. CASE ~(collected > 0)
      BY <2>5, <3>2 DEF CollectEnd
    <3> QED
      BY <3>1, <3>2
  <2>6. CASE JoinBegin \/ JoinExit
    BY <2>6 DEF JoinBegin, JoinExit, MonitorAdd
  <2>7. CASE JoinWait \/ JoinSync \/ JoinReturn \/ Free
    BY <2>7 DEF JoinWait, JoinSync, JoinReturn, Free, CondWait
  <2> QED
    BY <1>2, <2>1, <2>2, <2>3, <2>4, <2>5, <2>6, <2>7 DEF CreatorStep
<1>3. CASE ThreadStep
  <2>1. CASE TStartup \/ TThisBailout \/ TRunReturn
    BY <2>1 DEF TStartup, TThisBailout, TRunReturn
  <2>2. CASE TRunBegin \/ TRunError \/ TRunLeave
    BY <2>2 DEF TRunBegin, TRunError, TRunLeave, MonitorAdd, MonitorRemove
  <2>3. CASE NextTask \/ NextTaskJoined \/ NextTaskWait
    <3>1. /\ tasksCollected' = 0
          /\ flags' = flags \/ flags' = flags \ {"COLLECT_GARBAGE"}
      BY <2>3 DEF NextTask, NextTaskJoined, NextTaskWait, DropCollected
    <3>2. Thread \notin waiters /\ WaitersAfterDrop \subseteq waiters
      BY <2>3 DEF NextTask, NextTaskJoined, NextTaskWait, WaitersAfterDrop, CanLock
    <3> QED
      BY <2>3, <3>1, <3>2 DEF NextTask, NextTaskJoined, NextTaskWait
  <2>4. CASE TaskSetup \/ TaskSetupBailout \/ TaskSkip
    BY <2>4 DEF TaskSetup, TaskSetupBailout, TaskSkip
  <2>5. CASE TaskBegin \/ TaskReturn \/ TaskError \/ TaskLeave
    BY <2>5 DEF TaskBegin, TaskReturn, TaskError, TaskLeave, SetTaskFlags
  <2>6. CASE AddGarbage \/ CachePush
    BY <2>6 DEF AddGarbage, CachePush
  <2>7. CASE TAwaitJoin \/ TExitWait
    BY <2>7 DEF TAwaitJoin, TExitWait, MonitorAdd, CondWait, CanLock
  <2>8. CASE TClean \/ TShutdown
    BY <2>8 DEF TClean, TShutdown
  <2> QED
    BY <1>3, <2>1, <2>2, <2>3, <2>4, <2>5, <2>6, <2>7, <2>8 DEF ThreadStep
<1>4. ASSUME NEW p \in {Creator, Thread}, SpuriousWake(p)
      PROVE  WaiterInv' /\ NoLostWakeup'
  BY <1>4 DEF SpuriousWake
<1>5. CASE Terminated
  BY <1>5 DEF Terminated, vars
<1> QED
  BY <1>1, <1>2, <1>3, <1>4, <1>5 DEF Next

-----------------------------------------------------------------------------
(* The two queues of finished tasks.                                       *)

\* A step that touches neither queue and neither count keeps them matched.
LEMMA CacheFrame ==
  ASSUME CacheMatchesGc, UNCHANGED <<done, gc, tasksCollected, collected>>,
         ThreadGone => ThreadGone',
         (wpc = "cache" /\ UNCHANGED <<wpc, that>>) \/ (wpc # "cache" /\ wpc' # "cache")
  PROVE  CacheMatchesGc'
<1>1. Cached' = Cached
  BY DEF Cached
<1> QED
  BY <1>1 DEF CacheMatchesGc

\* done_tasks_cache and gc stay matched whatever the creator and the thread do.
LEMMA CacheStep ==
  TypeOK /\ MutexInv /\ HandshakeInv /\ CopyInv /\ WaiterInv /\ CacheMatchesGc
    /\ [Next]_vars => CacheMatchesGc'
<1> SUFFICES ASSUME TypeOK, MutexInv, HandshakeInv, CopyInv, WaiterInv,
                    CacheMatchesGc, [Next]_vars
             PROVE  CacheMatchesGc'
  OBVIOUS
<1> USE DEF monitorVars, dataVars, threadVars, taskVars, Creator, Thread, None
<1>0. /\ gc \in Seq(Nat) /\ done \in Seq(Nat) /\ that \in Nat /\ running \in Nat
      /\ tasksCollected \in Nat /\ collected \in Nat
      /\ Len(gc) \in Nat /\ Len(done) \in Nat
  <2>1. /\ gc \in Seq(Nat) /\ done \in Seq(Nat) /\ that \in Nat /\ running \in Nat
        /\ tasksCollected \in Nat /\ collected \in Nat
    BY DEF TypeOK
  <2> QED
    BY <2>1, LenProperties
<1>1. CASE UNCHANGED vars
  BY <1>1, CacheFrame DEF vars, ThreadGone
<1>2. CASE CreatorStep
  <2>1. CASE Start \/ CreateFailure \/ StartReturn \/ Unstack
             \/ \E t \in Tasks : Stack(t)
    BY <2>1, CacheFrame DEF Start, CreateFailure, StartReturn, Unstack, Stack,
         ThreadGone
  <2>2. CASE CreateSuccess
    <3>1. wpc = "none"
      BY <2>2 DEF CreateSuccess, HandshakeInv
    <3> QED
      BY <2>2, <3>1, CacheFrame DEF CreateSuccess, ThreadGone
  <2>3. CASE CollectBegin
    <3>1. collected' = collected
      BY <2>3 DEF CollectBegin, MutexInv, Collecting
    <3> QED
      BY <2>3, <3>1, CacheFrame DEF CollectBegin, ThreadGone
  <2>4. CASE CollectCall \/ CollectRefuse
    BY <2>4, CacheFrame DEF CollectCall, CollectRefuse, ThreadGone
  <2>5. CASE CollectAccept
    <3> SUFFICES ASSUME ~ThreadGone PROVE CacheMatchesGc'
      BY <2>5 DEF CollectAccept, CacheMatchesGc, ThreadGone
    <3>1. gc # << >>
      BY <2>5 DEF CollectAccept, MutexInv
    <3>2. /\ Len(gc) \in Nat \ {0} /\ Len(gc') = Len(gc) - 1
          /\ \A i \in 1 .. Len(gc) - 1 : gc'[i] = gc[i + 1]
      BY <1>0, <2>5, <3>1, TailFacts DEF CollectAccept
    <3>3. /\ Cached' = Cached /\ tasksCollected' = tasksCollected
          /\ collected' = collected + 1
      BY <2>5 DEF CollectAccept, Cached
    <3>4. /\ Len(Cached) = tasksCollected + collected + Len(gc)
          /\ \A i \in 1 .. Len(gc) : Cached[tasksCollected + collected + i] = gc[i]
      BY DEF CacheMatchesGc
    <3>5. Len(Cached') = tasksCollected' + collected' + Len(gc')
      BY <1>0, <3>2, <3>3, <3>4
    <3>6. ASSUME NEW i \in 1 .. Len(gc')
          PROVE  Cached'[tasksCollected' + collected' + i] = gc'[i]
      <4>1. i + 1 \in 1 .. Len(gc) /\ gc'[i] = gc[i + 1]
        BY <3>2, <3>6
      <4>2. tasksCollected + (collected + 1) + i = tasksCollected + collected + (i + 1)
        BY <1>0, <3>2, <3>6
      <4> QED
        BY <3>3, <3>4, <4>1, <4>2
    <3> QED
      BY <3>5, <3>6 DEF CacheMatchesGc
  <2>6. CASE CollectEnd
    <3> SUFFICES ASSUME ~ThreadGone PROVE CacheMatchesGc'
      BY <2>6 DEF CollectEnd, CacheMatchesGc, ThreadGone
    <3>1. tasksCollected' + collected' = tasksCollected + collected
      BY <1>0, <2>6 DEF CollectEnd
    <3>2. Cached' = Cached /\ gc' = gc
      BY <2>6 DEF CollectEnd, Cached
    <3> QED
      BY <3>1, <3>2 DEF CacheMatchesGc
  <2>7. CASE JoinBegin \/ JoinWait \/ JoinSync \/ JoinExit \/ JoinReturn
    BY <2>7, CacheFrame DEF JoinBegin, JoinWait, JoinSync, JoinExit, JoinReturn,
         ThreadGone
  <2>8. CASE Free
    <3>1. wpc = "none" \/ wpc = "dead"
      BY <2>8 DEF Free, HandshakeInv, Joining
    <3>2. CASE wpc = "none"
      <4>1. gc' = gc
        BY <2>8, <3>2 DEF Free, CopyInv
      <4> QED
        BY <2>8, <4>1, CacheFrame DEF Free, ThreadGone
    <3>3. CASE wpc = "dead"
      BY <2>8, <3>3 DEF Free, CacheMatchesGc, ThreadGone
    <3> QED
      BY <3>1, <3>2, <3>3
  <2> QED
    BY <1>2, <2>1, <2>2, <2>3, <2>4, <2>5, <2>6, <2>7, <2>8 DEF CreatorStep
<1>3. CASE ThreadStep
  <2>1. CASE TStartup \/ TThisBailout \/ TRunBegin \/ TRunReturn \/ TRunError \/ TRunLeave
    BY <2>1, CacheFrame DEF TStartup, TThisBailout, TRunBegin, TRunReturn, TRunError,
         TRunLeave, ThreadGone
  <2>2. CASE NextTask \/ NextTaskJoined \/ NextTaskWait
    <3>1. /\ wpc = "next" /\ wpc' # "cache" /\ ~ThreadGone
          /\ gc' = gc /\ collected' = collected /\ DropCollected /\ CanLock(Thread)
      BY <2>2 DEF NextTask, NextTaskJoined, NextTaskWait, ThreadGone
    <3>2. collected = 0
      BY <3>1 DEF CanLock, MutexInv, TypeOK
    <3>3. /\ Len(done) = tasksCollected + Len(gc)
          /\ \A i \in 1 .. Len(gc) : done[tasksCollected + i] = gc[i]
      BY <1>0, <3>1, <3>2 DEF CacheMatchesGc, Cached
    <3>4. /\ tasksCollected' = 0
          /\ "COLLECT_GARBAGE" \notin flags => tasksCollected = 0 /\ done' = done
          /\ "COLLECT_GARBAGE" \in flags =>
               done' = SubSeq(done, tasksCollected + 1, Len(done))
      BY <3>1 DEF DropCollected, WaiterInv
    <3>5. Len(done') = Len(gc) /\ \A i \in 1 .. Len(gc) : done'[i] = gc[i]
      <4>1. CASE "COLLECT_GARBAGE" \in flags
        <5>1. /\ Len(done') = Len(done) - tasksCollected
              /\ \A i \in 1 .. Len(done) - tasksCollected :
                   done'[i] = done[tasksCollected + i]
          <6>1. tasksCollected <= Len(done)
            BY <1>0, <3>3
          <6>2. done' = SubSeq(done, tasksCollected + 1, Len(done))
            BY <3>4, <4>1
          <6>3. /\ Len(SubSeq(done, tasksCollected + 1, Len(done)))
                     = Len(done) - tasksCollected
                /\ \A i \in 1 .. Len(done) - tasksCollected :
                     SubSeq(done, tasksCollected + 1, Len(done))[i]
                       = done[tasksCollected + i]
            BY <1>0, <6>1, DropFacts
          <6> QED
            BY <6>2, <6>3
        <5> QED
          BY <1>0, <3>3, <5>1
      <4>2. CASE "COLLECT_GARBAGE" \notin flags
        BY <1>0, <3>3, <3>4, <4>2
      <4> QED
        BY <4>1, <4>2
    <3>6. Cached' = done'
      BY <3>1 DEF Cached
    <3>7. tasksCollected' + collected' = 0
      BY <3>1, <3>2, <3>4
    <3>8. Len(Cached') = 0 + Len(gc')
      BY <1>0, <3>1, <3>5, <3>6
    <3>9. ASSUME NEW i \in 1 .. Len(gc')
          PROVE  Cached'[0 + i] = gc'[i]
      <4>1. i \in 1 .. Len(gc) /\ 0 + i = i
        BY <3>1
      <4> QED
        BY <3>1, <3>5, <3>6, <4>1
    <3> QED
      BY <3>7, <3>8, <3>9 DEF CacheMatchesGc
  <2>3. CASE TaskSetup \/ TaskSetupBailout \/ TaskSkip
    BY <2>3, CacheFrame DEF TaskSetup, TaskSetupBailout, TaskSkip, ThreadGone
  <2>4. CASE TaskBegin \/ TaskReturn \/ TaskError \/ TaskLeave
    BY <2>4, CacheFrame DEF TaskBegin, TaskReturn, TaskError, TaskLeave, SetTaskFlags,
         ThreadGone
  <2>5. CASE AddGarbage
    <3>1. /\ ~ThreadGone /\ Cached = done /\ Cached' = Append(done, running)
          /\ gc' = Append(gc, running)
          /\ UNCHANGED <<tasksCollected, collected>>
      BY <2>5 DEF AddGarbage, ThreadGone, Cached, CopyInv
    <3>2. collected = 0
      BY <2>5 DEF AddGarbage, CanLock, MutexInv, TypeOK
    <3>3. /\ Len(done) = tasksCollected + Len(gc)
          /\ \A i \in 1 .. Len(gc) : done[tasksCollected + i] = gc[i]
      BY <1>0, <3>1, <3>2 DEF CacheMatchesGc
    <3>4. /\ Len(Cached') = Len(done) + 1
          /\ \A i \in 1 .. Len(done) : Cached'[i] = done[i]
          /\ Cached'[Len(done) + 1] = running
      BY <1>0, <3>1, AppendFacts
    <3>5. /\ Len(gc') = Len(gc) + 1
          /\ \A i \in 1 .. Len(gc) : gc'[i] = gc[i]
          /\ gc'[Len(gc) + 1] = running
      BY <1>0, <3>1, AppendFacts
    <3>6. ASSUME NEW i \in 1 .. Len(gc')
          PROVE  Cached'[tasksCollected + i] = gc'[i]
      <4>1. CASE i \in 1 .. Len(gc)
        <5>1. tasksCollected + i \in 1 .. Len(done)
          BY <1>0, <3>3, <4>1
        <5> QED
          BY <3>3, <3>4, <3>5, <4>1, <5>1
      <4>2. CASE i = Len(gc) + 1
        <5>1. tasksCollected + i = Len(done) + 1
          BY <1>0, <3>3, <4>2
        <5> QED
          BY <3>4, <3>5, <4>2, <5>1
      <4>3. i \in 1 .. Len(gc) + 1
        BY <3>5, <3>6
      <4> QED
        BY <1>0, <4>1, <4>2, <4>3
    <3>7. Len(Cached') = tasksCollected + Len(gc')
      BY <1>0, <3>3, <3>4, <3>5
    <3>8. tasksCollected' + collected' = tasksCollected
      BY <1>0, <3>1, <3>2
    <3> QED
      BY <3>6, <3>7, <3>8 DEF CacheMatchesGc
  <2>6. CASE CachePush
    <3>1. Cached' = Cached /\ ~ThreadGone
      BY <2>6 DEF CachePush, Cached, ThreadGone
    <3> QED
      BY <2>6, <3>1 DEF CachePush, CacheMatchesGc
  <2>7. CASE TAwaitJoin \/ TExitWait
    BY <2>7, CacheFrame DEF TAwaitJoin, TExitWait, ThreadGone
  <2>8. CASE TClean \/ TShutdown
    BY <2>8 DEF TClean, TShutdown, CacheMatchesGc, ThreadGone
  <2> QED
    BY <1>3, <2>1, <2>2, <2>3, <2>4, <2>5, <2>6, <2>7, <2>8 DEF ThreadStep
<1>4. ASSUME NEW p \in {Creator, Thread}, SpuriousWake(p) PROVE CacheMatchesGc'
  BY <1>4, CacheFrame DEF SpuriousWake, ThreadGone
<1>5. CASE Terminated
  BY <1>5, CacheFrame DEF Terminated, vars, ThreadGone
<1> QED
  BY <1>1, <1>2, <1>3, <1>4, <1>5 DEF Next

-----------------------------------------------------------------------------
(* The theorems.                                                           *)

\* A fresh object satisfies the whole invariant.
LEMMA InvariantsInit == Init => Invariants
<1> SUFFICES ASSUME Init PROVE Invariants
  OBVIOUS
<1>1. TypeOK
  <2>1. << >> \in Seq(Nat) /\ << >> \in Seq(Tasks)
    BY EmptySeq
  <2> QED
    BY <2>1 DEF Init, TypeOK, None, NULL, MonitorFlags, CreatorPcs, ThreadPcs
<1>2. MutexInv /\ HandshakeInv /\ WaiterInv /\ NoLostWakeup
  BY DEF Init, MutexInv, HandshakeInv, WaiterInv, NoLostWakeup, Collecting, Joining,
       ThreadGone, Creator, Thread, None
<1>3. CopyInv
  BY DEF Init, CopyInv
<1>4. CacheMatchesGc
  <2>1. Len(<< >>) = 0
    BY EmptySeq
  <2>2. Cached = << >>
    BY DEF Init, Cached
  <2> QED
    BY <2>1, <2>2 DEF Init, CacheMatchesGc
<1> QED
  BY <1>1, <1>2, <1>3, <1>4 DEF Invariants

\* The inductive invariant of a Thread or Worker and its creator: every state the
\* two threads reach by any interleaving satisfies all of Invariants.
THEOREM InvariantsHold == Spec => []Invariants
<1>1. Invariants /\ [Next]_vars => Invariants'
  BY TypeStep, MutexStep, HandshakeStep, CopyStep, CacheStep, WakeupStep
     DEF Invariants
<1> QED
  BY <1>1, InvariantsInit, PTL DEF Spec

\* The variables of a Thread or Worker always have their declared types.
THEOREM TypeCorrect == Spec => []TypeOK
<1>1. Invariants => TypeOK
  BY DEF Invariants
<1> QED
  BY <1>1, InvariantsHold, PTL

\* worker.c's two queues of finished tasks, one of them kept outside the lock,
\* hold the same tasks in the same order, so dropping copies by count is right.
THEOREM CacheAlwaysMatchesGc == Spec => []CacheMatchesGc
<1>1. Invariants => CacheMatchesGc
  BY DEF Invariants
<1> QED
  BY <1>1, InvariantsHold, PTL

\* Nobody sleeps in pthread_cond_wait past the event it waits for, although
\* add_task notifies only when the queue was empty.
THEOREM NoWakeupIsLost == Spec => []NoLostWakeup
<1>1. Invariants => NoLostWakeup
  BY DEF Invariants
<1> QED
  BY <1>1, InvariantsHold, PTL

\* join() copies properties only while the thread is parked between AWAIT_JOIN
\* and EXIT.
THEOREM JoinSyncsQuietThread == Spec => []SyncWhileThreadQuiet
<1>1. Invariants => SyncWhileThreadQuiet
  <2> SUFFICES ASSUME Invariants, cpc \in {"join_sync", "join_exit"}
               PROVE  wpc = "exit_wait"
    BY DEF SyncWhileThreadQuiet
  <2>1. "AWAIT_JOIN" \in flags /\ "EXIT" \notin flags
    BY DEF Invariants, HandshakeInv
  <2> QED
    BY <2>1 DEF Invariants, HandshakeInv
<1> QED
  BY <1>1, InvariantsHold, PTL

\* A task the creator can still collect can always be read: its thread keeps its
\* copy of it, or the creator has synchronised it.
THEOREM CollectableIsReadable == Spec => []CollectableReadable
<1>1. Invariants => CollectableReadable
  <2> SUFFICES ASSUME Invariants, NEW i \in Range(gc)
               PROVE  i \in synced \/ i \in Range(Cached)
    BY DEF CollectableReadable
  <2>1. CASE ThreadGone
    <3>1. "EXIT" \in flags
      BY <2>1 DEF Invariants, HandshakeInv
    <3> QED
      BY <3>1 DEF Invariants, CopyInv
  <2>2. CASE ~ThreadGone
    <3>1. /\ gc \in Seq(Nat) /\ done \in Seq(Nat) /\ that \in Nat
          /\ tasksCollected \in Nat /\ collected \in Nat
      BY DEF Invariants, TypeOK
    <3>2. Cached \in Seq(Nat)
      BY <3>1, AppendFacts DEF Cached
    <3>3. PICK n \in 1 .. Len(gc) : i = gc[n]
      BY <3>1, RangeEquality
    <3>4. /\ Len(Cached) = tasksCollected + collected + Len(gc)
          /\ Cached[tasksCollected + collected + n] = gc[n]
      BY <2>2 DEF Invariants, CacheMatchesGc
    <3>5. tasksCollected + collected + n \in 1 .. Len(Cached)
      <4>1. Len(gc) \in Nat
        BY <3>1, LenProperties
      <4> QED
        BY <3>1, <3>4, <4>1
    <3> QED
      BY <3>2, <3>3, <3>4, <3>5, RangeEquality
  <2> QED
    BY <2>1, <2>2
<1> QED
  BY <1>1, InvariantsHold, PTL

-----------------------------------------------------------------------------
(* Threads whose routine never bails out outside run_function.             *)

\* The task loop is left only with nothing queued and nothing running.
LEMMA LoopStep ==
  ASSUME BailoutPoints = {}
  PROVE  TypeOK /\ MutexInv /\ HandshakeInv /\ LoopInv /\ [Next]_vars => LoopInv'
<1> SUFFICES ASSUME TypeOK, MutexInv, HandshakeInv, LoopInv, [Next]_vars
             PROVE  LoopInv'
  OBVIOUS
<1> USE DEF monitorVars, dataVars, threadVars, taskVars, LoopInv, LoopLeft,
            ThreadGone, Joining
<1>1. CASE UNCHANGED vars
  BY <1>1 DEF vars
<1>2. CASE CreatorStep
  <2>1. CASE Start \/ CreateSuccess \/ CreateFailure \/ StartReturn
    BY <2>1 DEF Start, CreateSuccess, CreateFailure, StartReturn, MonitorAdd,
         MonitorRemove, HandshakeInv
  <2>2. ASSUME NEW t \in Tasks, Stack(t) PROVE LoopInv'
    BY <2>2 DEF Stack
  <2>3. CASE Unstack
    BY <2>3 DEF Unstack
  <2>4. CASE CollectBegin \/ CollectCall \/ CollectAccept \/ CollectRefuse
    BY <2>4 DEF CollectBegin, CollectCall, CollectAccept, CollectRefuse
  <2>5. CASE CollectEnd
    <3>1. flags' = flags \/ flags' = flags \cup {"COLLECT_GARBAGE"}
      BY <2>5 DEF CollectEnd
    <3> QED
      BY <2>5, <3>1 DEF CollectEnd
  <2>6. CASE JoinBegin \/ JoinExit
    BY <2>6 DEF JoinBegin, JoinExit, MonitorAdd
  <2>7. CASE JoinWait \/ JoinSync \/ JoinReturn \/ Free
    BY <2>7 DEF JoinWait, JoinSync, JoinReturn, Free, CondWait
  <2> QED
    BY <1>2, <2>1, <2>2, <2>3, <2>4, <2>5, <2>6, <2>7 DEF CreatorStep
<1>3. CASE ThreadStep
  <2>1. CASE TStartup \/ TThisBailout \/ TRunReturn
    BY <2>1 DEF TStartup, TThisBailout, TRunReturn
  <2>2. CASE TRunBegin \/ TRunError \/ TRunLeave
    BY <2>2 DEF TRunBegin, TRunError, TRunLeave, MonitorAdd, MonitorRemove
  <2>3. CASE NextTask
    <3>1. flags' = flags \/ flags' = flags \ {"COLLECT_GARBAGE"}
      BY <2>3 DEF NextTask, DropCollected
    <3>2. isWorker
      BY <2>3 DEF NextTask
    <3> QED
      BY <2>3, <3>1, <3>2 DEF NextTask
  <2>4. CASE NextTaskJoined \/ NextTaskWait
    <3>1. flags' = flags \/ flags' = flags \ {"COLLECT_GARBAGE"}
      BY <2>4 DEF NextTaskJoined, NextTaskWait, DropCollected
    <3> QED
      BY <2>4, <3>1 DEF NextTaskJoined, NextTaskWait
  <2>5. CASE TaskSetup \/ TaskSetupBailout \/ TaskSkip
    BY <2>5 DEF TaskSetup, TaskSetupBailout, TaskSkip
  <2>6. CASE TaskBegin \/ TaskReturn \/ TaskError \/ TaskLeave
    BY <2>6 DEF TaskBegin, TaskReturn, TaskError, TaskLeave, SetTaskFlags
  <2>7. CASE AddGarbage \/ CachePush
    BY <2>7 DEF AddGarbage, CachePush
  <2>8. CASE TAwaitJoin \/ TExitWait
    BY <2>8 DEF TAwaitJoin, TExitWait, MonitorAdd, CondWait
  <2>9. CASE TClean \/ TShutdown
    BY <2>9 DEF TClean, TShutdown
  <2> QED
    BY <1>3, <2>1, <2>2, <2>3, <2>4, <2>5, <2>6, <2>7, <2>8, <2>9 DEF ThreadStep
<1>4. ASSUME NEW p \in {Creator, Thread}, SpuriousWake(p) PROVE LoopInv'
  BY <1>4 DEF SpuriousWake
<1>5. CASE Terminated
  BY <1>5 DEF Terminated, vars
<1> QED
  BY <1>1, <1>2, <1>3, <1>4, <1>5 DEF Next

\* LoopInv holds in every reachable state.
LEMMA LoopHolds ==
  ASSUME BailoutPoints = {} PROVE Spec => [](Invariants /\ LoopInv)
<1>1. Init => LoopInv
  BY DEF Init, LoopInv, LoopLeft, ThreadGone, Joining, NULL
<1>2. Invariants /\ LoopInv /\ [Next]_vars => LoopInv'
  BY LoopStep DEF Invariants
<1> QED
  BY <1>1, <1>2, InvariantsHold, PTL DEF Spec

\* join() is answered only after every stacked task has been run and handed over.
THEOREM JoinRunsEverything ==
  ASSUME BailoutPoints = {} PROVE Spec => []JoinRunsAll
<1>1. Invariants /\ LoopInv => JoinRunsAll
  <2> SUFFICES ASSUME Invariants, LoopInv,
                      cpc \in {"join_sync", "join_exit", "pthread_join"}
               PROVE  queue = << >> /\ running = NULL
    BY DEF JoinRunsAll
  <2>1. "AWAIT_JOIN" \in flags
    BY DEF Invariants, HandshakeInv
  <2>2. wpc \in {"exit_wait", "clean"} \/ ThreadGone
    BY <2>1 DEF Invariants, HandshakeInv
  <2> QED
    BY <2>2 DEF LoopInv, LoopLeft, Joining, ThreadGone
<1> QED
  BY <1>1, LoopHolds, PTL

\* worker.c's assertion: worker_data is never freed with a task running.
THEOREM NeverFreedWhileRunning ==
  ASSUME BailoutPoints = {} PROVE Spec => []NoActiveTaskOnFree
<1>1. Invariants /\ LoopInv => NoActiveTaskOnFree
  BY DEF Invariants, HandshakeInv, LoopInv, NoActiveTaskOnFree, Joining
<1> QED
  BY <1>1, LoopHolds, PTL

-----------------------------------------------------------------------------
(* The refinement of TaskQueue: the order of tasks in gc, running and queue. *)

Among(s, x) == \E j \in 1 .. Len(s) : s[j] = x
Increasing(s) == \A i, j \in 1 .. Len(s) : i < j => s[i] < s[j]

\* Of n stacked tasks those in gc come before the one that is running, and that
\* one before those in the queue.
Ordered(q, r, g, n) ==
  /\ Increasing(q) /\ Increasing(g)
  /\ \A x : Among(q, x) \/ Among(g, x) => x \in 1 .. n
  /\ \A x, y : Among(g, x) /\ Among(q, y) => x < y
  /\ r \in 0 .. n
  /\ r # 0 => /\ \A x : Among(g, x) => x < r
              /\ \A y : Among(q, y) => r < y

Loaded == {"setup", "enter", "run", "leave", "garbage"}

OrderInv ==
  /\ Ordered(queue, running, gc, Len(items))
  /\ wpc \in Loaded => running # 0

LEMMA AmongAppend ==
  ASSUME NEW s \in Seq(Nat), NEW n \in Nat
  PROVE  /\ \A x : Among(Append(s, n), x) <=> Among(s, x) \/ x = n
         /\ Increasing(s) /\ (\A x : Among(s, x) => x < n) => Increasing(Append(s, n))
<1> DEFINE a == Append(s, n)
<1>1. /\ a \in Seq(Nat) /\ Len(s) \in Nat /\ Len(a) = Len(s) + 1
      /\ \A i \in 1 .. Len(s) : a[i] = s[i]
      /\ a[Len(s) + 1] = n
  BY AppendFacts
<1> HIDE DEF a
<1>2. ASSUME NEW x PROVE Among(a, x) <=> Among(s, x) \/ x = n
  <2>1. ASSUME Among(a, x) PROVE Among(s, x) \/ x = n
    <3>1. PICK j \in 1 .. Len(a) : a[j] = x
      BY <2>1 DEF Among
    <3>2. j \in 1 .. Len(s) \/ j = Len(s) + 1
      BY <1>1
    <3> QED
      BY <1>1, <3>1, <3>2 DEF Among
  <2>2. ASSUME Among(s, x) PROVE Among(a, x)
    <3>1. PICK j \in 1 .. Len(s) : s[j] = x
      BY <2>2 DEF Among
    <3>2. j \in 1 .. Len(a) /\ a[j] = x
      BY <1>1, <3>1
    <3> QED
      BY <3>2 DEF Among
  <2>3. Among(a, n)
    <3>1. Len(s) + 1 \in 1 .. Len(a)
      BY <1>1
    <3> QED
      BY <1>1, <3>1 DEF Among
  <2> QED
    BY <2>1, <2>2, <2>3
<1>3. ASSUME Increasing(s), \A x : Among(s, x) => x < n PROVE Increasing(a)
  <2> SUFFICES ASSUME NEW i \in 1 .. Len(a), NEW j \in 1 .. Len(a), i < j PROVE a[i] < a[j]
    BY DEF Increasing
  <2>1. i \in 1 .. Len(s) /\ a[i] = s[i]
    BY <1>1
  <2>2. CASE j \in 1 .. Len(s)
    BY <1>1, <1>3, <2>1, <2>2 DEF Increasing
  <2>3. CASE j = Len(s) + 1
    <3>1. Among(s, s[i])
      BY <2>1 DEF Among
    <3> QED
      BY <1>1, <1>3, <2>1, <2>3, <3>1
  <2>4. j \in 1 .. Len(s) \/ j = Len(s) + 1
    BY <1>1
  <2> QED
    BY <2>2, <2>3, <2>4
<1> QED
  BY <1>2, <1>3 DEF a

LEMMA AmongTail ==
  ASSUME NEW s \in Seq(Nat), s # << >>, Increasing(s)
  PROVE  /\ Head(s) \in Nat /\ Among(s, Head(s)) /\ Increasing(Tail(s))
         /\ \A x : Among(s, x) <=> x = Head(s) \/ Among(Tail(s), x)
         /\ \A x : Among(Tail(s), x) => x \in Nat /\ Head(s) < x
<1> DEFINE a == Tail(s)
           h == Head(s)
<1>1. /\ a \in Seq(Nat) /\ h \in Nat /\ Len(s) \in Nat \ {0} /\ Len(a) = Len(s) - 1
      /\ \A i \in 1 .. Len(s) - 1 : a[i] = s[i + 1]
  BY TailFacts
<1>2. h = s[1]
  OBVIOUS
<1> HIDE DEF a, h
<1>3. Among(s, h)
  BY <1>1, <1>2 DEF Among
<1>4. Increasing(a)
  <2> SUFFICES ASSUME NEW i \in 1 .. Len(a), NEW j \in 1 .. Len(a), i < j PROVE a[i] < a[j]
    BY DEF Increasing
  <2>1. a[i] = s[i + 1] /\ a[j] = s[j + 1] /\ i + 1 < j + 1
    BY <1>1
  <2>2. i + 1 \in 1 .. Len(s) /\ j + 1 \in 1 .. Len(s)
    BY <1>1
  <2> QED
    BY <2>1, <2>2 DEF Increasing
<1>5. ASSUME NEW x, Among(a, x) PROVE Among(s, x) /\ x \in Nat /\ h < x
  <2>1. PICK j \in 1 .. Len(a) : a[j] = x
    BY <1>5 DEF Among
  <2>2. j + 1 \in 1 .. Len(s) /\ 1 \in 1 .. Len(s) /\ 1 < j + 1 /\ s[j + 1] = x
    BY <1>1, <2>1
  <2>3. s[1] < s[j + 1]
    BY <2>2 DEF Increasing
  <2>4. x \in Nat
    BY <1>1, <2>1, ElementOfSeq
  <2> QED
    BY <1>2, <2>2, <2>3, <2>4 DEF Among
<1>6. ASSUME NEW x, Among(s, x) PROVE x = h \/ Among(a, x)
  <2>1. PICK j \in 1 .. Len(s) : s[j] = x
    BY <1>6 DEF Among
  <2>2. CASE j = 1
    BY <1>2, <2>1, <2>2
  <2>3. CASE j # 1
    <3>1. j - 1 \in 1 .. Len(s) - 1 /\ (j - 1) + 1 = j
      BY <1>1, <2>3
    <3>2. a[j - 1] = s[j] /\ j - 1 \in 1 .. Len(a)
      BY <1>1, <3>1
    <3> QED
      BY <2>1, <3>2 DEF Among
  <2> QED
    BY <2>2, <2>3
<1> QED
  BY <1>1, <1>3, <1>4, <1>5, <1>6 DEF a, h

LEMMA AmongEmpty ==
  /\ \A x : ~Among(<< >>, x)
  /\ Increasing(<< >>)
<1>1. Len(<< >>) = 0
  BY EmptySeq
<1> QED
  BY <1>1 DEF Among, Increasing

\* What the steps of the two threads do to the life of tasks.
Pushes ==
  /\ \E t \in Tasks : items' = Append(items, t)
  /\ queue' = Append(queue, Len(items) + 1)
  /\ UNCHANGED <<running, gc, wpc>>
Unstacks == queue # << >> /\ queue' = Tail(queue) /\ UNCHANGED <<items, running, gc, wpc>>
Begins ==
  /\ wpc = "next" /\ wpc' = "setup"
  /\ queue # << >> /\ running' = Head(queue) /\ queue' = Tail(queue)
  /\ UNCHANGED <<items, gc>>
Finishes ==
  /\ wpc = "garbage" /\ wpc' = "cache"
  /\ gc' = Append(gc, running) /\ running' = 0
  /\ UNCHANGED <<items, queue>>
Collects == gc # << >> /\ gc' = Tail(gc) /\ UNCHANGED <<items, running, queue, wpc>>
Closes ==
  /\ queue = << >> /\ wpc \in {"next", "this_leave"} /\ wpc' = "await"
  /\ UNCHANGED <<items, queue, running, gc>>
Frees ==
  /\ queue' = << >> /\ gc' = << >> /\ wpc \notin Loaded
  /\ UNCHANGED <<items, running, wpc>>
KeepsTasks ==
  /\ UNCHANGED <<items, queue, running, gc>>
  /\ LoopLeft' <=> LoopLeft
  /\ wpc' \in Loaded => wpc \in Loaded

LEMMA Effects ==
  ASSUME BailoutPoints = {}, Invariants, LoopInv, [Next]_vars
  PROVE  \/ Pushes \/ Unstacks \/ Begins \/ Finishes \/ Collects \/ Closes \/ Frees
         \/ KeepsTasks
<1> USE DEF monitorVars, dataVars, threadVars, taskVars, NULL
<1>1. CASE UNCHANGED vars
  BY <1>1 DEF vars, KeepsTasks, LoopLeft, ThreadGone
<1>2. CASE CreatorStep
  <2>1. CASE Start \/ CreateSuccess \/ CreateFailure \/ StartReturn
    BY <2>1 DEF Start, CreateSuccess, CreateFailure, StartReturn, KeepsTasks, LoopLeft,
         ThreadGone, Loaded, Invariants, HandshakeInv
  <2>2. ASSUME NEW t \in Tasks, Stack(t) PROVE Pushes
    BY <2>2 DEF Stack, Pushes
  <2>3. CASE Unstack
    BY <2>3 DEF Unstack, Unstacks
  <2>4. CASE CollectAccept
    BY <2>4 DEF CollectAccept, Collects, Invariants, MutexInv
  <2>5. CASE CollectBegin \/ CollectCall \/ CollectRefuse
    BY <2>5 DEF CollectBegin, CollectCall, CollectRefuse, KeepsTasks, LoopLeft, ThreadGone
  <2>6. CASE CollectEnd
    BY <2>6 DEF CollectEnd, KeepsTasks, LoopLeft, ThreadGone
  <2>7. CASE JoinBegin \/ JoinWait \/ JoinSync \/ JoinExit \/ JoinReturn
    BY <2>7 DEF JoinBegin, JoinWait, JoinSync, JoinExit, JoinReturn, KeepsTasks, LoopLeft,
         ThreadGone
  <2>8. CASE Free
    <3>1. wpc \in {"none", "dead"}
      BY <2>8 DEF Free, Invariants, HandshakeInv, Joining
    <3> QED
      BY <2>8, <3>1 DEF Free, Frees, Loaded
  <2> QED
    BY <1>2, <2>1, <2>2, <2>3, <2>4, <2>5, <2>6, <2>7, <2>8 DEF CreatorStep
<1>3. CASE ThreadStep
  <2>1. CASE TStartup \/ TRunReturn \/ TRunBegin \/ TRunError
    BY <2>1 DEF TStartup, TRunReturn, TRunBegin, TRunError, KeepsTasks, LoopLeft,
         ThreadGone, Loaded
  <2>2. CASE TThisBailout \/ TaskSetupBailout
    BY <2>2 DEF TThisBailout, TaskSetupBailout
  <2>3. CASE TRunLeave
    <3>1. CASE isWorker
      BY <2>3, <3>1 DEF TRunLeave, KeepsTasks, LoopLeft, ThreadGone, Loaded
    <3>2. CASE ~isWorker
      BY <2>3, <3>2 DEF TRunLeave, Closes, LoopInv
    <3> QED
      BY <3>1, <3>2
  <2>4. CASE NextTask
    BY <2>4 DEF NextTask, Begins
  <2>5. CASE NextTaskJoined
    BY <2>5 DEF NextTaskJoined, Closes
  <2>6. CASE NextTaskWait
    BY <2>6 DEF NextTaskWait, KeepsTasks, LoopLeft, ThreadGone
  <2>7. CASE TaskSetup \/ TaskSkip
    BY <2>7 DEF TaskSetup, TaskSkip, KeepsTasks, LoopLeft, ThreadGone, Loaded
  <2>8. CASE TaskBegin \/ TaskReturn \/ TaskError \/ TaskLeave
    BY <2>8 DEF TaskBegin, TaskReturn, TaskError, TaskLeave, SetTaskFlags, KeepsTasks,
         LoopLeft, ThreadGone, Loaded
  <2>9. CASE AddGarbage
    BY <2>9 DEF AddGarbage, Finishes
  <2>10. CASE CachePush \/ TAwaitJoin
    BY <2>10 DEF CachePush, TAwaitJoin, KeepsTasks, LoopLeft, ThreadGone, Loaded
  <2>11. CASE TExitWait \/ TClean \/ TShutdown
    BY <2>11 DEF TExitWait, TClean, TShutdown, KeepsTasks, LoopLeft, ThreadGone, Loaded
  <2> QED
    BY <1>3, <2>1, <2>2, <2>3, <2>4, <2>5, <2>6, <2>7, <2>8, <2>9, <2>10, <2>11
       DEF ThreadStep
<1>4. ASSUME NEW p \in {Creator, Thread}, SpuriousWake(p) PROVE KeepsTasks
  BY <1>4 DEF SpuriousWake, KeepsTasks, LoopLeft, ThreadGone
<1>5. CASE Terminated
  BY <1>1, <1>5 DEF Terminated
<1> QED
  BY <1>1, <1>2, <1>3, <1>4, <1>5 DEF Next

\* The order survives every one of these effects.
LEMMA OrderedSteps ==
  ASSUME NEW q \in Seq(Nat), NEW g \in Seq(Nat), NEW n \in Nat, NEW r \in Nat, Ordered(q, r, g, n)
  PROVE  /\ Ordered(Append(q, n + 1), r, g, n + 1)
         /\ q # << >> => Ordered(Tail(q), r, g, n)
         /\ q # << >> /\ r = 0 => Ordered(Tail(q), Head(q), g, n) /\ Head(q) \in 1 .. n
         /\ r # 0 => Ordered(q, 0, Append(g, r), n)
         /\ g # << >> => Ordered(q, r, Tail(g), n)
         /\ r = 0 => Ordered(<< >>, r, << >>, n)
<1>1. Ordered(Append(q, n + 1), r, g, n + 1)
  <2>1. \A x : Among(q, x) => x < n + 1
    BY DEF Ordered
  <2>2. Increasing(Append(q, n + 1)) /\ \A x : Among(Append(q, n + 1), x) <=> Among(q, x) \/ x = n + 1
    BY <2>1, AmongAppend DEF Ordered
  <2>3. \A x : x \in 1 .. n => x \in 1 .. n + 1 /\ x < n + 1
    OBVIOUS
  <2>4. r \in 0 .. n + 1 /\ r < n + 1
    BY DEF Ordered
  <2>5. n + 1 \in 1 .. n + 1
    OBVIOUS
  <2> QED
    BY <2>2, <2>3, <2>4, <2>5, Zenon DEF Ordered
<1>2. ASSUME q # << >> PROVE Ordered(Tail(q), r, g, n)
  <2>1. Increasing(Tail(q)) /\ \A x : Among(Tail(q), x) => Among(q, x)
    BY <1>2, AmongTail DEF Ordered
  <2> QED
    BY <2>1, Zenon DEF Ordered
<1>3. ASSUME q # << >>, r = 0 PROVE Ordered(Tail(q), Head(q), g, n) /\ Head(q) \in 1 .. n
  <2>1. /\ Increasing(Tail(q)) /\ Among(q, Head(q))
        /\ \A x : Among(Tail(q), x) => Among(q, x) /\ Head(q) < x
    BY <1>3, AmongTail DEF Ordered
  <2>2. Head(q) \in 1 .. n
    BY <2>1, Zenon DEF Ordered
  <2>3. Head(q) \in 0 .. n
    BY <2>2
  <2> QED
    BY <2>1, <2>2, <2>3, Zenon DEF Ordered
<1>4. ASSUME r # 0 PROVE Ordered(q, 0, Append(g, r), n)
  <2>1. Increasing(Append(g, r)) /\ \A x : Among(Append(g, r), x) <=> Among(g, x) \/ x = r
    BY <1>4, AmongAppend DEF Ordered
  <2>2. r \in 1 .. n /\ 0 \in 0 .. n
    BY <1>4 DEF Ordered
  <2> QED
    BY <1>4, <2>1, <2>2, Zenon DEF Ordered
<1>5. ASSUME g # << >> PROVE Ordered(q, r, Tail(g), n)
  <2>1. Increasing(Tail(g)) /\ \A x : Among(Tail(g), x) => Among(g, x)
    BY <1>5, AmongTail DEF Ordered
  <2> QED
    BY <2>1, Zenon DEF Ordered
<1>6. ASSUME r = 0 PROVE Ordered(<< >>, r, << >>, n)
  BY <1>6, AmongEmpty, Zenon DEF Ordered
<1> QED
  BY <1>1, <1>2, <1>3, <1>4, <1>5, <1>6

LEMMA OrderStep ==
  ASSUME BailoutPoints = {}, Invariants, LoopInv, OrderInv, [Next]_vars
  PROVE  OrderInv'
<1> DEFINE n == Len(items)
<1>1. /\ queue \in Seq(Nat) /\ gc \in Seq(Nat) /\ n \in Nat /\ running \in Nat
      /\ Ordered(queue, running, gc, n) /\ (wpc \in Loaded => running # 0)
  BY LenProperties DEF Invariants, TypeOK, OrderInv
<1>2. wpc \notin Loaded => running = 0
  BY DEF LoopInv, Loaded, NULL
<1>3. CASE Pushes
  <2>1. Len(items') = n + 1
    BY <1>3, AppendProperties DEF Pushes, Invariants, TypeOK
  <2> QED
    BY <1>1, <1>3, <2>1, OrderedSteps DEF Pushes, OrderInv
<1>4. CASE Unstacks
  BY <1>1, <1>4, OrderedSteps DEF Unstacks, OrderInv
<1>5. CASE Begins
  <2>1. running = 0
    BY <1>2, <1>5 DEF Begins, Loaded
  <2>2. Ordered(queue', running', gc', n) /\ running' \in 1 .. n
    BY <1>1, <1>5, <2>1, OrderedSteps DEF Begins
  <2> QED
    BY <1>5, <2>2 DEF Begins, OrderInv
<1>6. CASE Finishes
  <2>1. running # 0
    BY <1>1, <1>6 DEF Finishes, Loaded
  <2>2. Ordered(queue', running', gc', n)
    BY <1>1, <1>6, <2>1, OrderedSteps DEF Finishes
  <2> QED
    BY <1>6, <2>2 DEF Finishes, OrderInv, Loaded
<1>7. CASE Collects
  BY <1>1, <1>7, OrderedSteps DEF Collects, OrderInv
<1>8. CASE Closes
  BY <1>1, <1>8 DEF Closes, OrderInv, Loaded
<1>9. CASE Frees
  <2>1. Ordered(queue', running', gc', n)
    BY <1>1, <1>2, <1>9, OrderedSteps DEF Frees
  <2> QED
    BY <1>9, <2>1 DEF Frees, OrderInv
<1>10. CASE KeepsTasks
  BY <1>1, <1>10 DEF KeepsTasks, OrderInv
<1> QED
  BY <1>3, <1>4, <1>5, <1>6, <1>7, <1>8, <1>9, <1>10, Effects

LEMMA OrderHolds ==
  ASSUME BailoutPoints = {} PROVE Spec => [](Invariants /\ LoopInv /\ OrderInv)
<1>1. Init => OrderInv
  BY AmongEmpty, EmptySeq DEF Init, OrderInv, Ordered, Loaded, NULL
<1>2. Invariants /\ LoopInv /\ OrderInv /\ [Next]_vars => OrderInv'
  BY OrderStep
<1> QED
  BY <1>1, <1>2, LoopHolds, PTL DEF Spec

\* The life of n tasks as it follows from the queues: StatusOf, for any queues.
Place(q, r, g, i) ==
  IF Among(q, i) THEN "queued"
  ELSE IF i = r THEN "running"
  ELSE IF Among(g, i) THEN "finished" ELSE "gone"

Life(q, r, g, n) == [i \in 1 .. n |-> Place(q, r, g, i)]

\* i is the first task of the life L in status s.
First(L, n, i, s) == i \in 1 .. n /\ L[i] = s /\ \A j \in 1 .. i - 1 : L[j] # s

LEMMA RangeAmong ==
  ASSUME NEW s \in Seq(Nat) PROVE \A x : x \in Range(s) <=> Among(s, x)
<1>1. DOMAIN s = 1 .. Len(s)
  OBVIOUS
<1> QED
  BY <1>1 DEF Range, Among

\* How each effect looks in the life of the tasks.
LEMMA LifePush ==
  ASSUME NEW q \in Seq(Nat), NEW g \in Seq(Nat), NEW n \in Nat, NEW r \in Nat, Ordered(q, r, g, n)
  PROVE  Life(Append(q, n + 1), r, g, n + 1) = Append(Life(q, r, g, n), "queued")
<1> DEFINE L == Life(q, r, g, n)
           M == Life(Append(q, n + 1), r, g, n + 1)
           S == {"queued", "running", "finished", "gone"}
<1>1. \A x : Among(Append(q, n + 1), x) <=> Among(q, x) \/ x = n + 1
  BY AmongAppend
<1>2. \A i : Place(q, r, g, i) \in S /\ Place(Append(q, n + 1), r, g, i) \in S
  BY Zenon DEF Place
<1>3. L \in [1 .. n -> S] /\ M \in [1 .. n + 1 -> S]
  BY <1>2 DEF Life
<1>4. L \in Seq(S) /\ M \in Seq(S) /\ Len(L) = n /\ Len(M) = n + 1
  BY <1>3, SeqDef, LenProperties
<1>5. \A i \in 1 .. n : M[i] = L[i]
  <2> SUFFICES ASSUME NEW i \in 1 .. n PROVE M[i] = L[i]
    OBVIOUS
  <2>1. i \in 1 .. n + 1 /\ i # n + 1
    OBVIOUS
  <2>2. M[i] = Place(Append(q, n + 1), r, g, i) /\ L[i] = Place(q, r, g, i)
    BY <2>1 DEF Life
  <2>3. Among(Append(q, n + 1), i) <=> Among(q, i)
    BY <1>1, <2>1
  <2> QED
    BY <2>2, <2>3 DEF Place
<1>6. M[n + 1] = "queued"
  <2>1. n + 1 \in 1 .. n + 1 /\ Among(Append(q, n + 1), n + 1)
    BY <1>1
  <2> QED
    BY <2>1 DEF Life, Place
<1> HIDE DEF L, M, S
<1>7. /\ Append(L, "queued") \in Seq(S) /\ Len(Append(L, "queued")) = n + 1
      /\ \A i \in 1 .. n : Append(L, "queued")[i] = L[i]
      /\ Append(L, "queued")[n + 1] = "queued"
  <2>1. "queued" \in S
    BY DEF S
  <2> QED
    BY <1>4, <2>1, AppendProperties
<1>8. \A i \in 1 .. n + 1 : Append(L, "queued")[i] = M[i]
  <2> SUFFICES ASSUME NEW i \in 1 .. n + 1 PROVE Append(L, "queued")[i] = M[i]
    OBVIOUS
  <2>1. i \in 1 .. n \/ i = n + 1
    OBVIOUS
  <2> QED
    BY <1>5, <1>6, <1>7, <2>1
<1>9. M = Append(L, "queued")
  BY <1>4, <1>7, <1>8, SeqEqual
<1> QED
  BY <1>9 DEF L, M

LEMMA LifeTake ==
  ASSUME NEW q \in Seq(Nat), NEW g \in Seq(Nat), NEW n \in Nat, NEW r \in Nat, Ordered(q, r, g, n),
         q # << >>
  PROVE  LET h == Head(q) L == Life(q, r, g, n) IN
         /\ First(L, n, h, "queued")
         /\ Life(Tail(q), r, g, n) = [L EXCEPT ![h] = "gone"]
         /\ r = 0 => Life(Tail(q), h, g, n) = [L EXCEPT ![h] = "running"]
<1> DEFINE h == Head(q)
           t == Tail(q)
           L == Life(q, r, g, n)
<1>1. /\ h \in Nat /\ Among(q, h)
      /\ \A x : Among(q, x) <=> x = h \/ Among(t, x)
      /\ \A x : Among(t, x) => x \in Nat /\ h < x
  BY AmongTail DEF Ordered
<1> HIDE DEF h, t
<1>2. h \in 1 .. n /\ ~Among(g, h) /\ (r # 0 => r < h) /\ ~Among(t, h)
  <2>1. h \in 1 .. n /\ (Among(g, h) => h < h) /\ (r # 0 => r < h)
    BY <1>1, Zenon DEF Ordered
  <2> QED
    BY <1>1, <2>1
<1>3. L[h] = "queued"
  BY <1>1, <1>2 DEF Life, Place
<1>4. \A j \in 1 .. h - 1 : L[j] # "queued"
  <2> SUFFICES ASSUME NEW j \in 1 .. h - 1 PROVE L[j] # "queued"
    OBVIOUS
  <2>1. j \in 1 .. n /\ ~(h < j) /\ j # h
    BY <1>1, <1>2
  <2>2. ~Among(q, j)
    BY <1>1, <2>1
  <2> QED
    BY <2>1, <2>2 DEF Life, Place
<1>5. h # r
  BY <1>1, <1>2
<1>6. \A i \in 1 .. n : Place(t, r, g, i) = IF i = h THEN "gone" ELSE Place(q, r, g, i)
  BY <1>1, <1>2, <1>5, Zenon DEF Place
<1>7. Life(t, r, g, n) = [L EXCEPT ![h] = "gone"]
  BY <1>6 DEF Life
<1>8. ASSUME r = 0 PROVE Life(t, h, g, n) = [L EXCEPT ![h] = "running"]
  <2>1. \A i \in 1 .. n : i # r
    BY <1>8
  <2>2. \A i \in 1 .. n : Place(t, h, g, i) = IF i = h THEN "running" ELSE Place(q, r, g, i)
    BY <1>1, <1>2, <2>1, Zenon DEF Place
  <2> QED
    BY <2>2 DEF Life
<1>9. First(L, n, h, "queued")
  BY <1>2, <1>3, <1>4 DEF First
<1> QED
  BY <1>7, <1>8, <1>9 DEF h, t

LEMMA LifeFinish ==
  ASSUME NEW q \in Seq(Nat), NEW g \in Seq(Nat), NEW n \in Nat, NEW r \in Nat, Ordered(q, r, g, n),
         r # 0
  PROVE  LET L == Life(q, r, g, n) IN
         /\ First(L, n, r, "running")
         /\ Life(q, 0, Append(g, r), n) = [L EXCEPT ![r] = "finished"]
<1> DEFINE L == Life(q, r, g, n)
           a == Append(g, r)
<1>1. \A x : Among(a, x) <=> Among(g, x) \/ x = r
  BY AmongAppend
<1> HIDE DEF a
<1>2. r \in 1 .. n /\ ~Among(q, r)
  <2>1. r \in 0 .. n /\ (Among(q, r) => r < r)
    BY DEF Ordered
  <2> QED
    BY <2>1
<1>3. L[r] = "running"
  BY <1>2 DEF Life, Place
<1>4. \A j \in 1 .. r - 1 : L[j] # "running"
  <2> SUFFICES ASSUME NEW j \in 1 .. r - 1 PROVE L[j] # "running"
    OBVIOUS
  <2>1. j \in 1 .. n /\ j # r
    BY <1>2
  <2> QED
    BY <2>1 DEF Life, Place
<1>5. \A i \in 1 .. n : i # 0
  OBVIOUS
<1>6. \A i \in 1 .. n : Place(q, 0, a, i) = IF i = r THEN "finished" ELSE Place(q, r, g, i)
  BY <1>1, <1>2, <1>5, Zenon DEF Place
<1>7. Life(q, 0, a, n) = [L EXCEPT ![r] = "finished"]
  BY <1>6 DEF Life
<1> QED
  BY <1>2, <1>3, <1>4, <1>7 DEF First, a

LEMMA LifeCollect ==
  ASSUME NEW q \in Seq(Nat), NEW g \in Seq(Nat), NEW n \in Nat, NEW r \in Nat, Ordered(q, r, g, n),
         g # << >>
  PROVE  LET h == Head(g) L == Life(q, r, g, n) IN
         /\ First(L, n, h, "finished")
         /\ Life(q, r, Tail(g), n) = [L EXCEPT ![h] = "gone"]
<1> DEFINE h == Head(g)
           t == Tail(g)
           L == Life(q, r, g, n)
<1>1. /\ h \in Nat /\ Among(g, h)
      /\ \A x : Among(g, x) <=> x = h \/ Among(t, x)
      /\ \A x : Among(t, x) => x \in Nat /\ h < x
  BY AmongTail DEF Ordered
<1> HIDE DEF h, t
<1>2. h \in 1 .. n /\ ~Among(q, h) /\ ~Among(t, h) /\ h # r
  <2>1. h \in 1 .. n /\ (Among(q, h) => h < h) /\ (r # 0 => h < r)
    BY <1>1, Zenon DEF Ordered
  <2> QED
    BY <1>1, <2>1
<1>3. L[h] = "finished"
  BY <1>1, <1>2 DEF Life, Place
<1>4. \A j \in 1 .. h - 1 : L[j] # "finished"
  <2> SUFFICES ASSUME NEW j \in 1 .. h - 1 PROVE L[j] # "finished"
    OBVIOUS
  <2>1. j \in 1 .. n /\ ~(h < j) /\ j # h
    BY <1>1, <1>2
  <2>2. ~Among(g, j)
    BY <1>1, <2>1
  <2> QED
    BY <2>1, <2>2 DEF Life, Place
<1>5. \A i \in 1 .. n : Place(q, r, t, i) = IF i = h THEN "gone" ELSE Place(q, r, g, i)
  BY <1>1, <1>2, Zenon DEF Place
<1>6. Life(q, r, t, n) = [L EXCEPT ![h] = "gone"]
  BY <1>5 DEF Life
<1> QED
  BY <1>2, <1>3, <1>4, <1>6 DEF First, h, t

\* The three places of a task exclude each other.
LEMMA PlacesDisjoint ==
  ASSUME NEW q \in Seq(Nat), NEW g \in Seq(Nat), NEW n \in Nat, NEW r \in Nat, Ordered(q, r, g, n),
         NEW i
  PROVE  /\ ~(Among(q, i) /\ Among(g, i))
         /\ ~(i = r /\ (Among(q, i) \/ Among(g, i)))
<1>1. Among(q, i) \/ Among(g, i) => i \in 1 .. n
  BY Zenon DEF Ordered
<1>2. Among(q, i) /\ Among(g, i) => i < i
  BY Zenon DEF Ordered
<1>3. r # 0 /\ (Among(q, r) \/ Among(g, r)) => r < r
  BY Zenon DEF Ordered
<1> QED
  BY <1>1, <1>2, <1>3

\* Every step of Worker is a step of TaskQueue or leaves its variables alone.
LEMMA Simulates ==
  ASSUME BailoutPoints = {}, Invariants, LoopInv, OrderInv, TypeOK', OrderInv', [Next]_vars
  PROVE  [Promise!Next]_(Promise!vars)
<1> DEFINE n == Len(items)
           m == Len(items)'
           st == [i \in 1 .. n |-> StatusOf(i)]
           L == Life(queue, running, gc, n)
           M == Life(queue', running', gc', m)
<1>1. /\ queue \in Seq(Nat) /\ gc \in Seq(Nat) /\ n \in Nat /\ running \in Nat
      /\ Ordered(queue, running, gc, n) /\ (wpc \in Loaded => running # 0)
  BY LenProperties DEF Invariants, TypeOK, OrderInv
<1>2. wpc \notin Loaded => running = 0
  BY DEF LoopInv, Loaded, NULL
<1>3. st = L
  <2>1. ASSUME NEW i PROVE StatusOf(i) = Place(queue, running, gc, i)
    <3>1. /\ i \in Range(queue) <=> Among(queue, i)
          /\ i \in Range(gc) <=> Among(gc, i)
      BY <1>1, RangeAmong
    <3>2. /\ ~(Among(queue, i) /\ Among(gc, i))
          /\ ~(i = running /\ (Among(queue, i) \/ Among(gc, i)))
      BY <1>1, PlacesDisjoint
    <3> QED
      BY <3>1, <3>2 DEF StatusOf, Place
  <2> QED
    BY <2>1 DEF Life
<1>4. st' = M
  <2>1. /\ queue' \in Seq(Nat) /\ gc' \in Seq(Nat) /\ m \in Nat /\ running' \in Nat
        /\ Ordered(queue', running', gc', m)
    BY LenProperties DEF TypeOK, OrderInv
  <2>2. ASSUME NEW i PROVE StatusOf(i)' = Place(queue', running', gc', i)
    <3>1. /\ i \in Range(queue') <=> Among(queue', i)
          /\ i \in Range(gc') <=> Among(gc', i)
      BY <2>1, RangeAmong
    <3>2. /\ ~(Among(queue', i) /\ Among(gc', i))
          /\ ~(i = running' /\ (Among(queue', i) \/ Among(gc', i)))
      BY <2>1, PlacesDisjoint
    <3> QED
      BY <3>1, <3>2 DEF StatusOf, Place
  <2> QED
    BY <2>2 DEF Life
<1>5. DOMAIN L = 1 .. n
  BY DEF Life
<1>6. ASSUME running = 0, NEW i \in 1 .. n PROVE L[i] # "running"
  BY <1>6 DEF Life, Place
<1>7. ASSUME queue = << >>, NEW i \in 1 .. n PROVE L[i] # "queued"
  BY <1>7, AmongEmpty DEF Life, Place
<1> HIDE DEF st, L, M, n, m
<1>8. CASE Pushes
  <2>1. m = n + 1
    BY <1>8, AppendProperties DEF Pushes, Invariants, TypeOK, n, m
  <2>2. M = Append(L, "queued")
    BY <1>1, <1>8, <2>1, LifePush DEF Pushes, L, M, n
  <2>3. LoopLeft' <=> LoopLeft
    BY <1>8 DEF Pushes, LoopLeft, ThreadGone
  <2> QED
    BY <1>3, <1>4, <2>2, <2>3 DEF st, n, Promise!Next, Promise!Stack
<1>9. CASE Unstacks
  <2>1. First(L, n, Head(queue), "queued") /\ M = [L EXCEPT ![Head(queue)] = "gone"]
    BY <1>1, <1>9, LifeTake DEF Unstacks, L, M, n, m
  <2>2. LoopLeft' <=> LoopLeft
    BY <1>9 DEF Unstacks, LoopLeft, ThreadGone
  <2> QED
    BY <1>3, <1>4, <1>5, <2>1, <2>2
       DEF st, n, First, Promise!Next, Promise!Unstack, Promise!Oldest, Promise!Move
<1>10. CASE Begins
  <2>1. running = 0
    BY <1>2, <1>10 DEF Begins, Loaded
  <2>2. First(L, n, Head(queue), "queued") /\ M = [L EXCEPT ![Head(queue)] = "running"]
    BY <1>1, <1>10, <2>1, LifeTake DEF Begins, L, M, n, m
  <2>3. ~LoopLeft /\ ~LoopLeft'
    BY <1>10 DEF Begins, LoopLeft, ThreadGone
  <2>4. \A i \in 1 .. n : L[i] # "running"
    BY <1>6, <2>1
  <2>5. Promise!Nobody("running")
    BY <1>3, <1>5, <2>4 DEF st, n, Promise!Nobody
  <2>6. \E i \in 1 .. n : Promise!Oldest(i, "queued") /\ Promise!Move(i, "running")
    BY <1>3, <1>4, <1>5, <2>2 DEF st, n, First, Promise!Oldest, Promise!Move
  <2>7. LoopLeft' = LoopLeft
    BY <2>3, Zenon DEF LoopLeft
  <2> QED
    BY <1>3, <1>5, <2>3, <2>5, <2>6, <2>7 DEF st, n, Promise!Next, Promise!Begin
<1>11. CASE Finishes
  <2>1. running # 0
    BY <1>1, <1>11 DEF Finishes, Loaded
  <2>2. First(L, n, running, "running") /\ M = [L EXCEPT ![running] = "finished"]
    BY <1>1, <1>11, <2>1, LifeFinish DEF Finishes, L, M, n, m
  <2>3. LoopLeft' <=> LoopLeft
    BY <1>11 DEF Finishes, LoopLeft, ThreadGone
  <2> QED
    BY <1>3, <1>4, <1>5, <2>2, <2>3
       DEF st, n, First, Promise!Next, Promise!Finish, Promise!Oldest, Promise!Move
<1>12. CASE Collects
  <2>1. First(L, n, Head(gc), "finished") /\ M = [L EXCEPT ![Head(gc)] = "gone"]
    BY <1>1, <1>12, LifeCollect DEF Collects, L, M, n, m
  <2>2. LoopLeft' <=> LoopLeft
    BY <1>12 DEF Collects, LoopLeft, ThreadGone
  <2> QED
    BY <1>3, <1>4, <1>5, <2>1, <2>2
       DEF st, n, First, Promise!Next, Promise!Collect, Promise!Oldest, Promise!Move
<1>13. CASE Closes
  <2>1. \A i \in 1 .. n : L[i] # "running" /\ L[i] # "queued"
    BY <1>2, <1>6, <1>7, <1>13 DEF Closes, Loaded
  <2>2. M = L
    BY <1>13 DEF Closes, L, M, n, m
  <2>3. LoopLeft'
    BY <1>13 DEF Closes, LoopLeft
  <2> QED
    BY <1>3, <1>4, <1>5, <2>1, <2>2, <2>3 DEF st, n, Promise!Next, Promise!Close, Promise!Nobody
<1>14. CASE Frees
  <2>1. running = 0 /\ \A i \in 1 .. n : L[i] # "running"
    BY <1>2, <1>6, <1>14 DEF Frees
  <2>2. \A i \in 1 .. n : Place(<< >>, 0, << >>, i) = "gone"
    <3>1. \A i \in 1 .. n : i # 0
      BY <1>1
    <3> QED
      BY <3>1, AmongEmpty DEF Place
  <2>3. M = [i \in 1 .. n |-> "gone"]
    BY <1>14, <2>1, <2>2 DEF Frees, M, Life, n, m
  <2>4. LoopLeft' <=> LoopLeft
    BY <1>14 DEF Frees, LoopLeft, ThreadGone
  <2> QED
    BY <1>3, <1>4, <1>5, <2>1, <2>3, <2>4 DEF st, n, Promise!Next, Promise!Free, Promise!Nobody
<1>15. CASE KeepsTasks
  <2>1. M = L
    BY <1>15 DEF KeepsTasks, L, M, n, m
  <2>2. LoopLeft' = LoopLeft
    BY <1>15, Zenon DEF KeepsTasks, LoopLeft
  <2> QED
    BY <1>3, <1>4, <2>1, <2>2 DEF st, n, Promise!vars
<1> QED
  BY <1>8, <1>9, <1>10, <1>11, <1>12, <1>13, <1>14, <1>15, Effects

\* ImplementsTaskQueue: what two threads do to two queues, a slot and a flag word
\* under one mutex is, step by step, the FIFO promise of TaskQueue, for any number
\* of tasks and any interleaving of stack, unstack, collect, join and the task
\* loop.  A bailout outside run_function breaks the promise (worker_bailout).
THEOREM ImplementsPromise ==
  ASSUME BailoutPoints = {} PROVE Spec => ImplementsTaskQueue
<1>1. Init => Promise!Init
  <2> SUFFICES ASSUME Init PROVE Promise!Init
    OBVIOUS
  <2>1. Len(items) = 0 /\ ~LoopLeft
    BY EmptySeq DEF Init, LoopLeft, ThreadGone
  <2>2. [i \in 1 .. Len(items) |-> StatusOf(i)] = << >>
    BY <2>1
  <2> QED
    BY <2>1, <2>2 DEF Promise!Init
<1>2. /\ Invariants /\ LoopInv /\ OrderInv
      /\ (Invariants /\ LoopInv /\ OrderInv)' /\ [Next]_vars
      => [Promise!Next]_(Promise!vars)
  BY Simulates DEF Invariants
<1> QED
  BY <1>1, <1>2, OrderHolds, PTL DEF Spec, ImplementsTaskQueue, Promise!Spec

-----------------------------------------------------------------------------
(* Pool: the property $workers.                                            *)

LEMMA PutFacts ==
  ASSUME NEW i \in Nat, NEW w \in WorkerState,
         workers \in [DOMAIN workers -> WorkerState]
  PROVE  /\ DOMAIN Put(i, w) = DOMAIN workers \cup {i}
         /\ Put(i, w) \in [DOMAIN Put(i, w) -> WorkerState]
         /\ Put(i, w)[i] = w
         /\ \A j \in DOMAIN workers \ {i} : Put(i, w)[j] = workers[j]
<1>1. Put(i, w) = [j \in DOMAIN workers \cup {i} |-> IF j = i THEN w ELSE workers[j]]
  BY DEF Put
<1> QED
  BY <1>1

LEMMA WithoutFacts ==
  ASSUME NEW i, workers \in [DOMAIN workers -> WorkerState]
  PROVE  /\ DOMAIN Without(i) = DOMAIN workers \ {i}
         /\ Without(i) \in [DOMAIN Without(i) -> WorkerState]
         /\ \A j \in DOMAIN workers \ {i} : Without(i)[j] = workers[j]
<1>1. Without(i) = [j \in DOMAIN workers \ {i} |-> workers[j]]
  BY DEF Without, Restrict
<1> QED
  BY <1>1

\* What the steps that change one Worker in place make of it.
LEMMA WorkerFacts ==
  ASSUME NEW w \in WorkerState
  PROVE  /\ [w EXCEPT !.queued = @ + 1] \in WorkerState
         /\ \A n \in 0 .. w.done :
              /\ [w EXCEPT !.done = @ - n] \in WorkerState
              /\ Held([w EXCEPT !.done = @ - n]) = Held(w) - n
         /\ ~w.running /\ w.queued > 0 =>
              /\ [w EXCEPT !.running = TRUE, !.queued = @ - 1] \in WorkerState
              /\ Held([w EXCEPT !.running = TRUE, !.queued = @ - 1]) = Held(w)
         /\ w.running =>
              /\ [w EXCEPT !.running = FALSE, !.done = @ + 1] \in WorkerState
              /\ Held([w EXCEPT !.running = FALSE, !.done = @ + 1]) = Held(w)
         /\ Held(w) \in Nat /\ Held(w) >= w.done
<1>1. /\ w.started \in BOOLEAN /\ w.running \in BOOLEAN
      /\ w.queued \in Nat /\ w.done \in Nat
  BY DEF WorkerState
<1>2. [w EXCEPT !.queued = @ + 1] \in WorkerState
  BY DEF WorkerState
<1>3. ASSUME NEW n \in 0 .. w.done
      PROVE  /\ [w EXCEPT !.done = @ - n] \in WorkerState
             /\ Held([w EXCEPT !.done = @ - n]) = Held(w) - n
  <2>1. w.done - n \in Nat
    BY <1>1
  <2>2. [w EXCEPT !.done = @ - n] \in WorkerState
    BY <2>1 DEF WorkerState
  <2>3. Held([w EXCEPT !.done = @ - n]) = w.queued + (w.done - n) + (IF w.running THEN 1 ELSE 0)
    BY DEF Held, WorkerState
  <2> QED
    BY <1>1, <2>2, <2>3 DEF Held
<1>4. ASSUME ~w.running, w.queued > 0
      PROVE  /\ [w EXCEPT !.running = TRUE, !.queued = @ - 1] \in WorkerState
             /\ Held([w EXCEPT !.running = TRUE, !.queued = @ - 1]) = Held(w)
  <2>1. w.queued - 1 \in Nat
    BY <1>1, <1>4
  <2>2. [w EXCEPT !.running = TRUE, !.queued = @ - 1] \in WorkerState
    BY <2>1 DEF WorkerState
  <2>3. Held([w EXCEPT !.running = TRUE, !.queued = @ - 1]) = (w.queued - 1) + w.done + 1
    BY DEF Held, WorkerState
  <2> QED
    BY <1>1, <1>4, <2>2, <2>3 DEF Held
<1>5. ASSUME w.running
      PROVE  /\ [w EXCEPT !.running = FALSE, !.done = @ + 1] \in WorkerState
             /\ Held([w EXCEPT !.running = FALSE, !.done = @ + 1]) = Held(w)
  <2>0. w.done + 1 \in Nat
    BY <1>1
  <2>1. [w EXCEPT !.running = FALSE, !.done = @ + 1] \in WorkerState
    BY <2>0 DEF WorkerState
  <2>2. Held([w EXCEPT !.running = FALSE, !.done = @ + 1]) = w.queued + (w.done + 1) + 0
    BY DEF Held, WorkerState
  <2> QED
    BY <1>1, <1>5, <2>1, <2>2 DEF Held
<1>6. Held(w) \in Nat /\ Held(w) >= w.done
  BY <1>1 DEF Held
<1> QED
  BY <1>2, <1>3, <1>4, <1>5, <1>6

-----------------------------------------------------------------------------
(* The shape of the state.                                                 *)

Shape ==
  /\ size \in Sizes /\ last \in Nat
  /\ DOMAIN workers \subseteq Nat
  /\ workers \in [DOMAIN workers -> WorkerState]
  /\ pc \in {"idle", "collect", "resize", "shutdown", "closed", "fatal"}
  /\ newsize \in Nat
  /\ pc = "resize" => newsize \in Sizes
  /\ todo \subseteq Nat
  /\ pc = "collect" => todo \subseteq DOMAIN workers
  /\ pc = "shutdown" => todo = DOMAIN workers
  /\ collectable \in Int /\ submitted \in Nat

LEMMA ShapeInit == PoolInit => Shape
<1> SUFFICES ASSUME PoolInit PROVE Shape
  OBVIOUS
<1>1. DOMAIN workers = {} /\ workers \in [{} -> WorkerState]
  BY DEF PoolInit
<1>2. /\ size \in Sizes /\ last \in Nat /\ pc = "idle" /\ newsize \in Nat /\ todo = {}
      /\ collectable \in Int /\ submitted \in Nat
  BY DEF PoolInit
<1> QED
  BY <1>1, <1>2 DEF Shape

LEMMA SubmitWorker ==
  ASSUME Shape, Submit
  PROVE  /\ Selected \in Nat /\ last' = Selected + 1
         /\ DOMAIN workers' = DOMAIN workers \cup {Selected}
         /\ workers' \in [DOMAIN workers' -> WorkerState]
<1> DEFINE w == IF Selected \in DOMAIN workers
                  THEN [workers[Selected] EXCEPT !.queued = @ + 1]
                  ELSE [started |-> TRUE, queued |-> 1, running |-> FALSE, done |-> 0]
<1>1. Selected \in Nat
  BY DEF Shape, Selected
<1>2. w \in WorkerState
  <2>1. CASE Selected \in DOMAIN workers
    <3>1. workers[Selected] \in WorkerState
      BY <2>1 DEF Shape
    <3> QED
      BY <2>1, <3>1, WorkerFacts
  <2>2. CASE Selected \notin DOMAIN workers
    BY <2>2 DEF WorkerState
  <2> QED
    BY <2>1, <2>2
<1>3. workers' = Put(Selected, w) /\ last' = Selected + 1
  BY DEF Submit
<1> QED
  BY <1>1, <1>2, <1>3, PutFacts DEF Shape

LEMMA SubmitStartFailsWorker ==
  ASSUME Shape, SubmitStartFails
  PROVE  /\ Selected \in Nat /\ last' = Selected + 1
         /\ DOMAIN workers' = DOMAIN workers \cup {Selected}
         /\ workers' \in [DOMAIN workers' -> WorkerState]
         /\ Held(workers'[Selected]) = 0
         /\ \A j \in DOMAIN workers : workers'[j] = workers[j]
<1> DEFINE w == [started |-> FALSE, queued |-> 0, running |-> FALSE, done |-> 0]
<1>1. Selected \in Nat
  BY DEF Shape, Selected
<1>2. w \in WorkerState /\ Held(w) = 0
  BY DEF WorkerState, Held
<1>3. workers' = Put(Selected, w) /\ last' = Selected + 1 /\ Selected \notin DOMAIN workers
  BY DEF SubmitStartFails
<1> HIDE DEF w
<1>4. workers \in [DOMAIN workers -> WorkerState]
  BY DEF Shape
<1>5. /\ DOMAIN Put(Selected, w) = DOMAIN workers \cup {Selected}
      /\ Put(Selected, w) \in [DOMAIN Put(Selected, w) -> WorkerState]
      /\ Put(Selected, w)[Selected] = w
      /\ \A j \in DOMAIN workers \ {Selected} : Put(Selected, w)[j] = workers[j]
  BY <1>1, <1>2, <1>4, PutFacts
<1> QED
  BY <1>1, <1>2, <1>3, <1>5

\* Changing a Worker in place keeps the other Workers and the indices.
LEMMA InPlace ==
  ASSUME Shape, NEW i \in DOMAIN workers, NEW w \in WorkerState,
         workers' = [workers EXCEPT ![i] = w]
  PROVE  /\ DOMAIN workers' = DOMAIN workers
         /\ workers' \in [DOMAIN workers' -> WorkerState]
         /\ workers'[i] = w
         /\ \A j \in DOMAIN workers \ {i} : workers'[j] = workers[j]
BY DEF Shape

LEMMA SubmitToWorker ==
  ASSUME Shape, NEW i, SubmitTo(i)
  PROVE  /\ i \in DOMAIN workers /\ DOMAIN workers' = DOMAIN workers
         /\ workers' \in [DOMAIN workers' -> WorkerState]
<1> DEFINE w == [workers[i] EXCEPT !.queued = @ + 1]
<1>1. i \in DOMAIN workers /\ workers' = [workers EXCEPT ![i] = w]
  BY DEF SubmitTo
<1>2. workers[i] \in WorkerState
  BY <1>1 DEF Shape
<1>3. w \in WorkerState
  BY <1>2, WorkerFacts
<1> HIDE DEF w
<1> QED
  BY <1>1, <1>3, InPlace

\* The collector takes n of the tasks the Worker has.
LEMMA CollectWorkerFacts ==
  ASSUME Shape, NEW i, NEW n \in Nat, CollectWorker(i, n)
  PROVE  /\ i \in todo /\ i \in DOMAIN workers /\ DOMAIN workers' = DOMAIN workers
         /\ workers' \in [DOMAIN workers' -> WorkerState]
         /\ Held(workers[i]) - n \in Nat
         /\ Held(workers'[i]) = Held(workers[i]) - n
         /\ \A j \in DOMAIN workers \ {i} : workers'[j] = workers[j]
<1> DEFINE w == [workers[i] EXCEPT !.done = @ - n]
<1>1. /\ i \in DOMAIN workers /\ i \in todo
      /\ workers' = [workers EXCEPT ![i] = w]
      /\ n <= workers[i].done
  BY DEF CollectWorker, Shape
<1>2. workers[i] \in WorkerState
  BY <1>1 DEF Shape
<1>3. n \in 0 .. workers[i].done
  BY <1>1, <1>2 DEF WorkerState
<1>4. w \in WorkerState /\ Held(w) = Held(workers[i]) - n
  BY <1>2, <1>3, WorkerFacts
<1>5. Held(workers[i]) \in Nat /\ Held(workers[i]) >= workers[i].done
  BY <1>2, WorkerFacts
<1>6. Held(workers[i]) - n \in Nat
  BY <1>1, <1>2, <1>5 DEF WorkerState
<1> HIDE DEF w
<1> QED
  BY <1>1, <1>4, <1>6, InPlace

\* A Worker's own progress changes the stage of its tasks, not their number.
LEMMA WorkerStepFacts ==
  ASSUME Shape, NEW i, WorkerStep(i)
  PROVE  /\ i \in DOMAIN workers /\ DOMAIN workers' = DOMAIN workers
         /\ workers' \in [DOMAIN workers' -> WorkerState]
         /\ \A j \in DOMAIN workers : Held(workers'[j]) = Held(workers[j])
         /\ UNCHANGED <<size, last, pc, newsize, todo, collectable, submitted>>
<1>1. CASE WorkerTake(i)
  <2> DEFINE w == [workers[i] EXCEPT !.running = TRUE, !.queued = @ - 1]
  <2>1. /\ i \in DOMAIN workers /\ workers' = [workers EXCEPT ![i] = w]
        /\ ~workers[i].running /\ workers[i].queued > 0
        /\ UNCHANGED <<size, last, pc, newsize, todo, collectable, submitted>>
    BY <1>1 DEF WorkerTake
  <2>2. workers[i] \in WorkerState
    BY <2>1 DEF Shape
  <2>3. w \in WorkerState /\ Held(w) = Held(workers[i])
    BY <2>1, <2>2, WorkerFacts
  <2> HIDE DEF w
  <2> QED
    BY <2>1, <2>3, InPlace
<1>2. CASE WorkerFinish(i)
  <2> DEFINE w == [workers[i] EXCEPT !.running = FALSE, !.done = @ + 1]
  <2>1. /\ i \in DOMAIN workers /\ workers' = [workers EXCEPT ![i] = w]
        /\ workers[i].running
        /\ UNCHANGED <<size, last, pc, newsize, todo, collectable, submitted>>
    BY <1>2 DEF WorkerFinish
  <2>2. workers[i] \in WorkerState
    BY <2>1 DEF Shape
  <2>3. w \in WorkerState /\ Held(w) = Held(workers[i])
    BY <2>1, <2>2, WorkerFacts
  <2> HIDE DEF w
  <2> QED
    BY <2>1, <2>3, InPlace
<1> QED
  BY <1>1, <1>2 DEF WorkerStep

LEMMA ShapeNext == Shape /\ [PoolNext]_poolVars => Shape'
<1> SUFFICES ASSUME Shape, [PoolNext]_poolVars PROVE Shape'
  OBVIOUS
<1>1. CASE Submit
  <2>1. /\ DOMAIN workers' \subseteq Nat /\ last' \in Nat
        /\ workers' \in [DOMAIN workers' -> WorkerState]
    BY <1>1, SubmitWorker DEF Shape
  <2>2. /\ submitted' \in Nat /\ collectable' \in Int /\ pc = "idle"
        /\ UNCHANGED <<size, pc, newsize, todo>>
    BY <1>1 DEF Submit, Shape
  <2> QED
    BY <2>1, <2>2 DEF Shape
<1>2. CASE SubmitStartFails
  <2>1. /\ DOMAIN workers' \subseteq Nat /\ last' \in Nat
        /\ workers' \in [DOMAIN workers' -> WorkerState]
    BY <1>2, SubmitStartFailsWorker DEF Shape
  <2>2. pc = "idle" /\ UNCHANGED <<size, pc, newsize, todo, collectable, submitted>>
    BY <1>2 DEF SubmitStartFails
  <2> QED
    BY <2>1, <2>2 DEF Shape
<1>3. CASE \E i \in Indices : SubmitTo(i)
  <2>1. PICK i \in Indices : SubmitTo(i)
    BY <1>3
  <2>2. DOMAIN workers' = DOMAIN workers /\ workers' \in [DOMAIN workers' -> WorkerState]
    BY <2>1, SubmitToWorker
  <2>3. /\ submitted' \in Nat /\ collectable' \in Int /\ pc = "idle"
        /\ UNCHANGED <<size, last, pc, newsize, todo>>
    BY <2>1 DEF SubmitTo, Shape
  <2> QED
    BY <2>2, <2>3 DEF Shape
<1>4. CASE PoolCollectBegin
  BY <1>4 DEF PoolCollectBegin, Shape
<1>5. CASE PoolCollectEnd
  BY <1>5 DEF PoolCollectEnd, Shape
<1>6. CASE \E i \in Indices, n \in 0 .. MaxSubmit : CollectWorker(i, n)
  <2>1. PICK i \in Indices, n \in 0 .. MaxSubmit : CollectWorker(i, n)
    BY <1>6
  <2>2. n \in Nat
    BY MaxSubmitAssumption
  <2>3. /\ DOMAIN workers' = DOMAIN workers /\ workers' \in [DOMAIN workers' -> WorkerState]
        /\ Held(workers[i]) - n \in Nat
        /\ i \in DOMAIN workers
    BY <2>1, <2>2, CollectWorkerFacts
  <2>4. Held(workers[i]) \in Int
    <3>0. i \in DOMAIN workers
      BY <2>3
    <3>1. workers[i] \in WorkerState
      BY <3>0 DEF Shape
    <3>2. Held(workers[i]) \in Nat
      BY <3>1, WorkerFacts
    <3> QED
      BY <3>2
  <2>5. collectable' = collectable + Held(workers[i]) - n
    BY <2>1 DEF CollectWorker
  <2>6. collectable' \in Int
    BY <2>2, <2>4, <2>5 DEF Shape
  <2>7. /\ pc = "collect" /\ todo' = todo \ {i}
        /\ UNCHANGED <<size, last, pc, newsize, submitted>>
    BY <2>1 DEF CollectWorker
  <2> QED
    BY <2>3, <2>6, <2>7 DEF Shape
<1>7. CASE \E n \in Sizes : ResizeBegin(n)
  <2>1. PICK n \in Sizes : ResizeBegin(n)
    BY <1>7
  <2>2. n \in Nat
    BY SizesAssumption
  <2>3. CASE n < Count
    BY <2>1, <2>2, <2>3 DEF ResizeBegin, Shape
  <2>4. CASE ~(n < Count)
    BY <2>1, <2>2, <2>4 DEF ResizeBegin, Shape
  <2> QED
    BY <2>3, <2>4
<1>8. CASE ResizeStep
  <2>1. /\ DOMAIN workers' \subseteq DOMAIN workers
        /\ workers' \in [DOMAIN workers' -> WorkerState]
    BY <1>8, WithoutFacts DEF ResizeStep, Shape
  <2>2. /\ pc = "resize"
        /\ (pc' = "idle" /\ size' = newsize) \/ UNCHANGED <<pc, size>>
        /\ UNCHANGED <<last, newsize, todo, collectable, submitted>>
    BY <1>8 DEF ResizeStep
  <2> QED
    BY <2>1, <2>2 DEF Shape
<1>9. CASE ShutdownBegin
  BY <1>9 DEF ShutdownBegin, Shape
<1>10. CASE ShutdownEnd
  BY <1>10 DEF ShutdownEnd, Shape
<1>11. CASE \E i \in Indices : ShutdownWorker(i)
  <2>1. PICK i \in Indices : ShutdownWorker(i)
    BY <1>11
  <2>2. /\ DOMAIN workers' = DOMAIN workers \ {i}
        /\ workers' \in [DOMAIN workers' -> WorkerState]
    BY <2>1, WithoutFacts DEF ShutdownWorker, Shape
  <2>3. /\ pc = "shutdown" /\ todo' = todo \ {i}
        /\ UNCHANGED <<size, last, pc, newsize, collectable, submitted>>
    BY <2>1 DEF ShutdownWorker
  <2> QED
    BY <2>2, <2>3 DEF Shape
<1>12. CASE \E i \in Indices : WorkerStep(i)
  <2>1. PICK i \in Indices : WorkerStep(i)
    BY <1>12
  <2>2. /\ DOMAIN workers' = DOMAIN workers /\ workers' \in [DOMAIN workers' -> WorkerState]
        /\ UNCHANGED <<size, last, pc, newsize, todo, collectable, submitted>>
    BY <2>1, WorkerStepFacts
  <2> QED
    BY <2>2 DEF Shape
<1>13. CASE \E i \in Indices : ShutdownFails(i)
  BY <1>13 DEF ShutdownFails, Shape
<1>14. CASE UNCHANGED poolVars
  BY <1>14 DEF poolVars, Shape
<1> QED
  BY <1>1, <1>2, <1>3, <1>4, <1>5, <1>6, <1>7, <1>8, <1>9, <1>10, <1>11, <1>12, <1>13, <1>14
     DEF PoolNext, PoolStep, Closed

-----------------------------------------------------------------------------
(* CollectZeroMeansIdle.                                                   *)

\* Inside collect() the sum never shrinks below zero, and while it is zero every
\* Worker that was visited has nothing, whatever ran since the visit.
SumInv ==
  /\ Shape
  /\ pc = "collect" => collectable >= 0
  /\ collectable = 0 =>
       \A i \in DOMAIN workers : (pc = "collect" /\ i \in todo) \/ Held(workers[i]) = 0

LEMMA SumInvInit == PoolInit => SumInv
<1> SUFFICES ASSUME PoolInit PROVE SumInv
  OBVIOUS
<1>1. collectable # 0 /\ pc # "collect"
  BY DEF PoolInit
<1> QED
  BY <1>1, ShapeInit DEF SumInv

LEMMA SumInvNext == SumInv /\ [PoolNext]_poolVars => SumInv'
<1> SUFFICES ASSUME SumInv, [PoolNext]_poolVars PROVE SumInv'
  OBVIOUS
<1>0. Shape /\ Shape'
  BY ShapeNext DEF SumInv
<1>1. CASE Submit
  BY <1>0, <1>1 DEF Submit, SumInv
<1>2. CASE SubmitStartFails
  <2>1. /\ DOMAIN workers' = DOMAIN workers \cup {Selected}
        /\ Held(workers'[Selected]) = 0
        /\ \A j \in DOMAIN workers : workers'[j] = workers[j]
    BY <1>0, <1>2, SubmitStartFailsWorker
  <2>2. pc = "idle" /\ UNCHANGED <<pc, todo, collectable>>
    BY <1>2 DEF SubmitStartFails
  <2> QED
    BY <1>0, <2>1, <2>2 DEF SumInv
<1>3. CASE \E i \in Indices : SubmitTo(i)
  BY <1>0, <1>3 DEF SubmitTo, SumInv
<1>4. CASE PoolCollectBegin
  BY <1>0, <1>4 DEF PoolCollectBegin, SumInv
<1>5. CASE PoolCollectEnd
  BY <1>0, <1>5 DEF PoolCollectEnd, SumInv
<1>6. CASE \E i \in Indices, n \in 0 .. MaxSubmit : CollectWorker(i, n)
  <2>1. PICK i \in Indices, n \in 0 .. MaxSubmit : CollectWorker(i, n)
    BY <1>6
  <2>2. n \in Nat
    BY MaxSubmitAssumption
  <2>3. /\ i \in todo /\ DOMAIN workers' = DOMAIN workers
        /\ Held(workers[i]) - n \in Nat
        /\ Held(workers'[i]) = Held(workers[i]) - n
        /\ \A j \in DOMAIN workers \ {i} : workers'[j] = workers[j]
    BY <1>0, <2>1, <2>2, CollectWorkerFacts
  <2>4. /\ pc = "collect" /\ pc' = "collect" /\ todo' = todo \ {i}
        /\ collectable' = collectable + Held(workers[i]) - n
    BY <2>1 DEF CollectWorker
  <2>5. workers[i] \in WorkerState
    BY <1>0, <2>3, <2>4 DEF Shape
  <2>6. Held(workers[i]) \in Nat /\ collectable \in Nat
    <3>1. Held(workers[i]) \in Nat
      BY <2>5, WorkerFacts
    <3>2. collectable \in Int /\ collectable >= 0
      BY <1>0, <2>4 DEF SumInv, Shape
    <3> QED
      BY <3>1, <3>2
  <2>7. collectable' >= 0
    BY <2>2, <2>3, <2>4, <2>6
  <2>8. collectable' = 0 => collectable = 0 /\ Held(workers'[i]) = 0
    BY <2>2, <2>3, <2>4, <2>6
  <2>9. collectable' = 0 =>
          \A j \in DOMAIN workers' : j \in todo' \/ Held(workers'[j]) = 0
    BY <2>3, <2>4, <2>8 DEF SumInv
  <2> QED
    BY <1>0, <2>4, <2>7, <2>9 DEF SumInv
<1>7. CASE \E n \in Sizes : ResizeBegin(n)
  <2>1. pc = "idle" /\ pc' # "collect" /\ UNCHANGED <<workers, todo, collectable>>
    BY <1>7 DEF ResizeBegin
  <2> QED
    BY <1>0, <2>1 DEF SumInv
<1>8. CASE ResizeStep
  <2>1. /\ DOMAIN workers' \subseteq DOMAIN workers
        /\ \A j \in DOMAIN workers' : workers'[j] = workers[j]
    BY <1>0, <1>8, WithoutFacts DEF ResizeStep, Shape
  <2>2. pc = "resize" /\ pc' # "collect" /\ UNCHANGED <<todo, collectable>>
    BY <1>8 DEF ResizeStep
  <2> QED
    BY <1>0, <2>1, <2>2 DEF SumInv
<1>9. CASE ShutdownBegin
  BY <1>0, <1>9 DEF ShutdownBegin, SumInv
<1>10. CASE ShutdownEnd
  BY <1>0, <1>10 DEF ShutdownEnd, SumInv
<1>11. CASE \E i \in Indices : ShutdownWorker(i)
  <2>1. PICK i \in Indices : ShutdownWorker(i)
    BY <1>11
  <2>2. /\ DOMAIN workers' \subseteq DOMAIN workers
        /\ \A j \in DOMAIN workers' : workers'[j] = workers[j]
    BY <1>0, <2>1, WithoutFacts DEF ShutdownWorker, Shape
  <2>3. pc = "shutdown" /\ UNCHANGED <<pc, collectable>>
    BY <2>1 DEF ShutdownWorker
  <2> QED
    BY <1>0, <2>2, <2>3 DEF SumInv
<1>12. CASE \E i \in Indices : WorkerStep(i)
  <2>1. PICK i \in Indices : WorkerStep(i)
    BY <1>12
  <2>2. /\ DOMAIN workers' = DOMAIN workers
        /\ \A j \in DOMAIN workers : Held(workers'[j]) = Held(workers[j])
        /\ UNCHANGED <<pc, todo, collectable>>
    BY <1>0, <2>1, WorkerStepFacts
  <2> QED
    BY <1>0, <2>2 DEF SumInv
<1>13. CASE \E i \in Indices : ShutdownFails(i)
  BY <1>0, <1>13 DEF ShutdownFails, SumInv
<1>14. CASE UNCHANGED poolVars
  BY <1>0, <1>14 DEF poolVars, SumInv
<1> QED
  BY <1>1, <1>2, <1>3, <1>4, <1>5, <1>6, <1>7, <1>8, <1>9, <1>10, <1>11, <1>12, <1>13, <1>14
     DEF PoolNext, PoolStep, Closed

\* while ($pool->collect()); leaves nothing behind: when Pool::collect has
\* returned 0 every task submitted before has been run and collected, for any
\* number of Workers that run on while they are visited, and also when the Pool
\* is used again after shutdown().
THEOREM CollectZeroIsIdle == PoolSpec => []CollectZeroMeansIdle
<1>1. PoolInit => SumInv
  BY SumInvInit
<1>2. SumInv /\ [PoolNext]_poolVars => SumInv'
  BY SumInvNext
<1>3. SumInv => CollectZeroMeansIdle
  BY DEF SumInv, CollectZeroMeansIdle
<1> QED
  BY <1>1, <1>2, <1>3, PTL DEF PoolSpec

-----------------------------------------------------------------------------
(* WorkersWithinSize.                                                      *)

\* The Workers have the indices 0 .. n-1.
Contiguous(n) == DOMAIN workers = 0 .. n - 1

\* resize() takes a Worker off the end, submit() adds one at the end or takes
\* one that is there: $last is at most one beyond them unless it will be reset
\* to 0.  shutdown() leaves gaps, so only the number is bounded from then on.
SizeInv ==
  /\ Shape
  /\ IsFiniteSet(DOMAIN workers)
  /\ pc \notin {"shutdown", "fatal"} => \E n \in Nat : Contiguous(n)
  /\ pc # "resize" => Count <= size
  /\ pc = "resize" => newsize < Count
  /\ pc \in {"idle", "collect"} => last <= Count \/ last >= size

LEMMA ContiguousCount ==
  ASSUME NEW n \in Nat, DOMAIN workers = 0 .. n - 1
  PROVE  Count = n /\ IsFiniteSet(DOMAIN workers)
<1>1. Cardinality(0 .. n - 1) = (IF 0 > n - 1 THEN 0 ELSE (n - 1) - 0 + 1) /\ IsFiniteSet(0 .. n - 1)
  BY FS_Interval
<1> QED
  BY <1>1 DEF Count

LEMMA SizeInvInit == PoolInit => SizeInv
<1> SUFFICES ASSUME PoolInit PROVE SizeInv
  OBVIOUS
<1>1. DOMAIN workers = {}
  BY DEF PoolInit
<1>2. DOMAIN workers = 0 .. 0 - 1
  BY <1>1
<1>3. Count = 0 /\ IsFiniteSet(DOMAIN workers)
  BY <1>2, ContiguousCount
<1>4. size \in Nat /\ last = 0 /\ pc = "idle"
  BY SizesAssumption DEF PoolInit
<1> QED
  BY <1>2, <1>3, <1>4, ShapeInit DEF SizeInv, Contiguous

\* Pool::submit, with or without a start() that throws: the selected Worker is
\* there or is the next one, which the size allows.
LEMMA SubmitKeepsSize ==
  ASSUME SizeInv, Shape', 0 \notin Sizes, pc = "idle", UNCHANGED <<pc, size>>,
         DOMAIN workers' = DOMAIN workers \cup {Selected}, last' = Selected + 1
  PROVE  SizeInv'
<1>1. PICK n \in Nat : DOMAIN workers = 0 .. n - 1
  BY DEF SizeInv, Contiguous
<1>2. Count = n
  BY <1>1, ContiguousCount
<1>3. size \in Nat \ {0} /\ last \in Nat
  BY SizesAssumption DEF SizeInv, Shape
<1>4. n <= size /\ (last <= n \/ last >= size)
  BY <1>2 DEF SizeInv
<1> DEFINE s == Selected
<1>5. s \in 0 .. n /\ (s = n => n < size)
  BY <1>3, <1>4 DEF Selected
<1> HIDE DEF s
<1> DEFINE m == IF s = n THEN n + 1 ELSE n
<1>6. m \in Nat /\ m <= size /\ s + 1 <= m
  BY <1>3, <1>4, <1>5
<1>7. DOMAIN workers' = 0 .. m - 1
  <2>1. DOMAIN workers' = (0 .. n - 1) \cup {s}
    BY <1>1 DEF s
  <2>2. CASE s = n
    <3>1. (0 .. n - 1) \cup {n} = 0 .. (n + 1) - 1
      OBVIOUS
    <3> QED
      BY <2>1, <2>2, <3>1
  <2>3. CASE s # n
    <3>1. s \in 0 .. n - 1
      BY <1>5, <2>3
    <3> QED
      BY <2>1, <2>3, <3>1
  <2> QED
    BY <2>2, <2>3
<1>8. Count' = m /\ IsFiniteSet(DOMAIN workers')
  <2>1. /\ Cardinality(0 .. m - 1) = IF 0 > m - 1 THEN 0 ELSE (m - 1) - 0 + 1
        /\ IsFiniteSet(0 .. m - 1)
    BY <1>6, FS_Interval
  <2> QED
    BY <1>6, <1>7, <2>1 DEF Count
<1>9. last' = s + 1
  BY DEF s
<1>10. \E k \in Nat : DOMAIN workers' = 0 .. k - 1
  BY <1>6, <1>7
<1> QED
  BY <1>6, <1>8, <1>9, <1>10 DEF SizeInv, Contiguous

\* A step that keeps the indices and $last, $size and the call in progress.
LEMMA SameIndicesKeepSize ==
  ASSUME SizeInv, Shape', DOMAIN workers' = DOMAIN workers,
         UNCHANGED <<size, last, newsize, pc>>
  PROVE  SizeInv'
BY DEF SizeInv, Contiguous, Count

\* One iteration of resize()'s loop takes the last Worker.
LEMMA ResizeStepKeepsSize ==
  ASSUME SizeInv, Shape', ResizeStep
  PROVE  SizeInv'
<1>1. PICK n \in Nat : DOMAIN workers = 0 .. n - 1
  BY DEF SizeInv, Contiguous, ResizeStep
<1>2. Count = n /\ pc = "resize" /\ newsize \in Nat /\ newsize < n /\ last \in Nat
  BY <1>1, ContiguousCount DEF SizeInv, Shape, ResizeStep
<1>3. DOMAIN workers' = DOMAIN workers \ {n - 1}
  BY <1>2, WithoutFacts DEF ResizeStep, SizeInv, Shape
<1>4. n - 1 \in Nat /\ DOMAIN workers' = 0 .. (n - 1) - 1
  BY <1>1, <1>2, <1>3
<1>5. Cardinality(DOMAIN workers') = n - 1 /\ IsFiniteSet(DOMAIN workers')
  <2>1. /\ Cardinality(0 .. (n - 1) - 1) = IF 0 > (n - 1) - 1 THEN 0 ELSE ((n - 1) - 1) - 0 + 1
        /\ IsFiniteSet(0 .. (n - 1) - 1)
    BY FS_Interval
  <2> QED
    BY <1>4, <2>1
<1>6. /\ IF n - 1 = newsize THEN pc' = "idle" /\ size' = newsize ELSE UNCHANGED <<pc, size>>
      /\ UNCHANGED <<last, newsize>>
  BY <1>5 DEF ResizeStep
<1>7. Count' = n - 1
  BY <1>5 DEF Count
<1>8. \E k \in Nat : DOMAIN workers' = 0 .. k - 1
  BY <1>4
<1>9. CASE n - 1 = newsize
  BY <1>2, <1>5, <1>6, <1>7, <1>8, <1>9 DEF SizeInv, Contiguous
<1>10. CASE n - 1 # newsize
  BY <1>2, <1>5, <1>6, <1>7, <1>8, <1>10 DEF SizeInv, Contiguous
<1> QED
  BY <1>9, <1>10

LEMMA SizeInvNext ==
  ASSUME ~Reuse, 0 \notin Sizes, SizeInv, [PoolNext]_poolVars
  PROVE  SizeInv'
<1>0. Shape /\ Shape'
  BY ShapeNext DEF SizeInv
<1>1. CASE Submit
  BY <1>0, <1>1, SubmitWorker, SubmitKeepsSize DEF Submit
<1>2. CASE SubmitStartFails
  BY <1>0, <1>2, SubmitStartFailsWorker, SubmitKeepsSize DEF SubmitStartFails
<1>3. CASE \E i \in Indices : SubmitTo(i)
  BY <1>0, <1>3, SubmitToWorker, SameIndicesKeepSize DEF SubmitTo
<1>4. CASE PoolCollectBegin
  BY <1>0, <1>4 DEF PoolCollectBegin, SizeInv, Contiguous, Count
<1>5. CASE PoolCollectEnd
  BY <1>0, <1>5 DEF PoolCollectEnd, SizeInv, Contiguous, Count
<1>6. CASE \E i \in Indices, n \in 0 .. MaxSubmit : CollectWorker(i, n)
  <2>1. PICK i \in Indices, n \in 0 .. MaxSubmit : CollectWorker(i, n)
    BY <1>6
  <2>2. n \in Nat
    BY MaxSubmitAssumption
  <2>3. DOMAIN workers' = DOMAIN workers
    BY <1>0, <2>1, <2>2, CollectWorkerFacts
  <2>4. UNCHANGED <<size, last, newsize, pc>>
    BY <2>1 DEF CollectWorker
  <2> QED
    BY <1>0, <2>3, <2>4, SameIndicesKeepSize
<1>7. CASE \E n \in Sizes : ResizeBegin(n)
  <2>1. PICK n \in Sizes : ResizeBegin(n)
    BY <1>7
  <2>2. /\ n \in Nat /\ size \in Nat /\ last \in Nat /\ pc = "idle"
        /\ n <= size \/ last <= Count
    BY <1>0, <2>1, SizesAssumption DEF ResizeBegin, Shape
  <2>3. Count \in Nat /\ Count' = Count
    BY <2>1, FS_CardinalityType DEF SizeInv, Count, ResizeBegin
  <2>4. CASE n < Count
    BY <1>0, <2>1, <2>2, <2>3, <2>4 DEF ResizeBegin, SizeInv, Contiguous
  <2>5. CASE ~(n < Count)
    BY <1>0, <2>1, <2>2, <2>3, <2>5 DEF ResizeBegin, SizeInv, Contiguous
  <2> QED
    BY <2>4, <2>5
<1>8. CASE ResizeStep
  BY <1>0, <1>8, ResizeStepKeepsSize
<1>9. CASE ShutdownBegin
  BY <1>0, <1>9 DEF ShutdownBegin, SizeInv, Contiguous, Count
<1>10. CASE ShutdownEnd
  <2>1. /\ pc = "shutdown" /\ pc' = "closed" /\ DOMAIN workers = {}
        /\ UNCHANGED <<size, last, workers, newsize>>
    BY <1>0, <1>10 DEF ShutdownEnd, Shape
  <2>2. DOMAIN workers' = 0 .. 0 - 1
    BY <2>1
  <2> QED
    BY <1>0, <2>1, <2>2 DEF SizeInv, Contiguous, Count
<1>11. CASE \E i \in Indices : ShutdownWorker(i)
  <2>1. PICK i \in Indices : ShutdownWorker(i)
    BY <1>11
  <2>2. DOMAIN workers' = DOMAIN workers \ {i}
    BY <1>0, <2>1, WithoutFacts DEF ShutdownWorker, Shape
  <2>3. pc = "shutdown" /\ UNCHANGED <<size, pc>>
    BY <2>1 DEF ShutdownWorker
  <2>4. IsFiniteSet(DOMAIN workers') /\ Count' <= Count /\ Count \in Nat /\ Count' \in Nat
    <3>1. IsFiniteSet(DOMAIN workers)
      BY DEF SizeInv
    <3>2. DOMAIN workers' \in SUBSET DOMAIN workers
      BY <2>2
    <3>3. /\ IsFiniteSet(DOMAIN workers')
          /\ Cardinality(DOMAIN workers') <= Cardinality(DOMAIN workers)
      BY <3>1, <3>2, FS_Subset
    <3> QED
      BY <3>1, <3>3, FS_CardinalityType DEF Count
  <2>5. size \in Nat
    BY <1>0, SizesAssumption DEF Shape
  <2> QED
    BY <1>0, <2>3, <2>4, <2>5 DEF SizeInv
<1>12. CASE \E i \in Indices : WorkerStep(i)
  BY <1>0, <1>12, WorkerStepFacts, SameIndicesKeepSize
<1>13. CASE \E i \in Indices : ShutdownFails(i)
  BY <1>0, <1>13 DEF ShutdownFails, SizeInv, Contiguous, Count
<1>14. CASE UNCHANGED poolVars
  BY <1>0, <1>14 DEF poolVars, SizeInv, Contiguous, Count
<1> QED
  BY <1>1, <1>2, <1>3, <1>4, <1>5, <1>6, <1>7, <1>8, <1>9, <1>10, <1>11, <1>12, <1>13, <1>14
     DEF PoolNext, PoolStep, Closed

LEMMA SizeInvMeans == SizeInv => WorkersWithinSize
<1> SUFFICES ASSUME SizeInv PROVE WorkersWithinSize
  OBVIOUS
<1>1. PoolTypeOK
  BY SizesAssumption DEF SizeInv, Shape, PoolTypeOK
<1>2. NoHoles
  BY ContiguousCount DEF SizeInv, Contiguous, NoHoles
<1> QED
  BY <1>1, <1>2 DEF SizeInv, WorkersWithinSize

\* A Pool that is not used after shutdown(), and not grown between a shrinking
\* resize() and the wrap of $last, never has more Workers than $size, and they
\* have contiguous indices, for every positive size, any mixture of submit(),
\* submitTo(), collect() and resize(), and a Worker::start() that may throw.
THEOREM WorkersStayWithinSize ==
  ASSUME ~Reuse, 0 \notin Sizes
  PROVE  PoolSpec => []WorkersWithinSize
<1>1. PoolInit => SizeInv
  BY SizeInvInit
<1>2. SizeInv /\ [PoolNext]_poolVars => SizeInv'
  BY SizeInvNext
<1>3. SizeInv => WorkersWithinSize
  BY SizeInvMeans
<1> QED
  BY <1>1, <1>2, <1>3, PTL DEF PoolSpec
====

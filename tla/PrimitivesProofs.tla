-------------------------- MODULE PrimitivesProofs --------------------------
(***************************************************************************)
(* Theorems about Runnable (the state bits every execution sets and clears *)
(* for itself), Monitor (wait() and its time-out) and LinkedQueue (the     *)
(* pointers of the task lists), for every set of threads and items, every  *)
(* bound and every time-out.                                               *)
(***************************************************************************)
EXTENDS LinkedQueue, Runnable, Monitor, FiniteSetTheorems, SequenceTheorems,
        WellFoundedInduction, TLAPS

-----------------------------------------------------------------------------
(* Runnable: FlagsTell.                                                    *)

\* What pthreads_routine_run_function maintains between its monitor calls: a
\* Worker the object is not stacked on does nothing, and a failure is either
\* still to be reported (or never will be, the Worker being dead) or is in
\* ERROR, which nothing clears.
FailuresInv ==
  /\ RunnableTypeOK
  /\ users # {}
  /\ failed \subseteq users
  /\ \A w \in Workers \ users : at[w] = "idle"
  /\ \A w \in failed : at[w] \in {"error", "dead"} \/ "ERROR" \in flags

\* With one Worker no other execution clears RUNNING under it, and ERROR
\* cannot be set between its check and its start.
SoleInv(w) ==
  /\ at[w] \in {"write", "run", "error", "remove", "dead"} => "RUNNING" \in flags
  /\ at[w] = "add" => "ERROR" \notin flags
  /\ ~late

RunnableInv ==
  /\ FailuresInv
  /\ \A w \in Workers : users = {w} => SoleInv(w)

LEMMA RunnableInvInit == RunnableInit => RunnableInv
<1> SUFFICES ASSUME RunnableInit PROVE RunnableInv
  OBVIOUS
<1>1. FailuresInv
  <2>1. users \subseteq Workers /\ users # {} /\ failed = {}
    BY DEF RunnableInit
  <2>2. 0 \in 0 .. MaxRuns
    BY MaxRunsAssumption
  <2>3. RunnableTypeOK
    BY <2>1, <2>2 DEF RunnableInit, RunnableTypeOK
  <2>4. \A w \in Workers : at[w] = "idle"
    BY DEF RunnableInit
  <2> QED
    BY <2>1, <2>3, <2>4 DEF FailuresInv
<1>2. \A w \in Workers : SoleInv(w)
  BY DEF RunnableInit, SoleInv
<1> QED
  BY <1>1, <1>2 DEF RunnableInv

\* One execution keeps the account of failures, whatever the others do.
LEMMA ExecutionKeepsFailures ==
  ASSUME FailuresInv, NEW w \in users, Execution(w), UNCHANGED users
  PROVE  FailuresInv'
<1> USE DEF FailuresInv, RunnableTypeOK, Move
<1>1. CASE Take(w)
  BY <1>1, MaxRunsAssumption DEF Take
<1>2. CASE CheckError(w)
  BY <1>2 DEF CheckError
<1>3. CASE AddRunning(w)
  BY <1>3 DEF AddRunning
<1>4. CASE WriteWorker(w)
  BY <1>4 DEF WriteWorker
<1>5. CASE WriteBailout(w)
  BY <1>5 DEF WriteBailout
<1>6. CASE RunReturns(w)
  BY <1>6 DEF RunReturns
<1>7. CASE RunFails(w)
  BY <1>7 DEF RunFails
<1>8. CASE AddError(w)
  BY <1>8 DEF AddError
<1>9. CASE RemoveRunning(w)
  BY <1>9 DEF RemoveRunning
<1> QED
  BY <1>1, <1>2, <1>3, <1>4, <1>5, <1>6, <1>7, <1>8, <1>9 DEF Execution

\* The only Worker of an object keeps what its flags say of it.
LEMMA ExecutionKeepsSole ==
  ASSUME FailuresInv, NEW w \in Workers, users = {w}, SoleInv(w), Execution(w)
  PROVE  SoleInv(w)'
<1> USE DEF FailuresInv, RunnableTypeOK, Move, SoleInv
<1>1. CASE Take(w)
  BY <1>1 DEF Take
<1>2. CASE CheckError(w)
  BY <1>2 DEF CheckError
<1>3. CASE AddRunning(w)
  BY <1>3 DEF AddRunning
<1>4. CASE WriteWorker(w)
  BY <1>4 DEF WriteWorker
<1>5. CASE WriteBailout(w)
  BY <1>5 DEF WriteBailout
<1>6. CASE RunReturns(w)
  BY <1>6 DEF RunReturns
<1>7. CASE RunFails(w)
  BY <1>7 DEF RunFails
<1>8. CASE AddError(w)
  BY <1>8 DEF AddError
<1>9. CASE RemoveRunning(w)
  BY <1>9 DEF RemoveRunning
<1> QED
  BY <1>1, <1>2, <1>3, <1>4, <1>5, <1>6, <1>7, <1>8, <1>9 DEF Execution

LEMMA RunnableInvNext == RunnableInv /\ [RunnableNext]_runnableVars => RunnableInv'
<1> SUFFICES ASSUME RunnableInv, [RunnableNext]_runnableVars PROVE RunnableInv'
  OBVIOUS
<1>1. CASE UNCHANGED runnableVars
  BY <1>1 DEF RunnableInv, FailuresInv, RunnableTypeOK, SoleInv, runnableVars
<1>2. CASE Idle
  BY <1>1, <1>2 DEF Idle
<1>3. CASE (\E w \in users : Execution(w)) /\ UNCHANGED users
  <2>1. PICK w \in users : Execution(w)
    BY <1>3
  <2>2. FailuresInv'
    BY <1>3, <2>1, ExecutionKeepsFailures DEF RunnableInv
  <2>3. ASSUME NEW v \in Workers, users' = {v} PROVE SoleInv(v)'
    <3>1. w = v /\ users = {v}
      BY <1>3, <2>1, <2>3
    <3> QED
      BY <2>1, <3>1, ExecutionKeepsSole DEF RunnableInv
  <2> QED
    BY <2>2, <2>3 DEF RunnableInv
<1> QED
  BY <1>1, <1>2, <1>3 DEF RunnableNext

LEMMA RunnableInvTells == RunnableInv => FlagsTell
<1> SUFFICES ASSUME RunnableInv PROVE FlagsTell
  OBVIOUS
<1>1. RunnableTypeOK /\ ErrorsKept
  BY DEF RunnableInv, FailuresInv, RunnableTypeOK, ErrorsKept
<1>2. ASSUME Cardinality(users) = 1
      PROVE  /\ Executing # {} => "RUNNING" \in flags
             /\ failed # {} /\ "RUNNING" \notin flags => "ERROR" \in flags
             /\ ~late
  <2>1. IsFiniteSet(users)
    BY WorkersAssumption, FS_Subset DEF RunnableInv, FailuresInv, RunnableTypeOK
  <2>2. PICK w : users = {w}
    BY <1>2, <2>1, FS_Singleton
  <2>3. w \in Workers /\ SoleInv(w)
    BY <2>2 DEF RunnableInv, FailuresInv, RunnableTypeOK
  <2>4. Executing \subseteq {w} /\ failed \subseteq {w}
    BY <2>2 DEF RunnableInv, FailuresInv, Executing
  <2> QED
    BY <2>3, <2>4 DEF SoleInv, RunnableInv, FailuresInv, Executing
<1> QED
  BY <1>1, <1>2 DEF FlagsTell

\* isRunning() and isTerminated() tell the truth about a task: an ERROR set by
\* one execution of pthreads_routine_run_function is never lost to another,
\* and on one Worker RUNNING covers run() and nothing begins after a failure.
THEOREM FlagsAlwaysTell == RunnableSpec => []FlagsTell
<1>1. RunnableInit => RunnableInv
  BY RunnableInvInit
<1>2. RunnableInv /\ [RunnableNext]_runnableVars => RunnableInv'
  BY RunnableInvNext
<1>3. RunnableInv => FlagsTell
  BY RunnableInvTells
<1> QED
  BY <1>1, <1>2, <1>3, PTL DEF RunnableSpec

-----------------------------------------------------------------------------
(* Monitor: the arithmetic of pthreads_monitor_wait.                       *)

\* C's remainder has the sign of the dividend.
LEMMA RemFacts ==
  ASSUME NEW a \in Int, NEW b \in Nat \ {0}
  PROVE  /\ Quot(a, b) \in Int /\ Rem(a, b) \in Int
         /\ a = b * Quot(a, b) + Rem(a, b)
         /\ a >= 0 => Rem(a, b) >= 0
         /\ Rem(a, b) < b
<1>1. ASSUME NEW n \in Nat
      PROVE  n \div b \in Nat /\ n - b * (n \div b) >= 0 /\ n - b * (n \div b) < b
  OBVIOUS
<1>2. CASE a >= 0
  <2>1. a \in Nat /\ Quot(a, b) = a \div b
    BY <1>2 DEF Quot
  <2> QED
    BY <1>1, <1>2, <2>1 DEF Rem
<1>3. CASE a < 0
  <2> DEFINE n == -a
  <2>1. n \in Nat /\ Quot(a, b) = -(n \div b)
    BY <1>3 DEF Quot
  <2>2. b * Quot(a, b) = -(b * (n \div b))
    BY <1>1, <2>1
  <2>3. Rem(a, b) = -(n - b * (n \div b))
    BY <1>1, <2>1, <2>2 DEF Rem
  <2> QED
    BY <1>1, <1>3, <2>1, <2>2, <2>3
<1> QED
  BY <1>2, <1>3

\* The struct timespec is the time of day plus the time-out, carried into the
\* seconds; the system rejects it only when the time-out is negative.
LEMMA TimespecFacts ==
  ASSUME NEW time \in Nat, NEW timeout \in Int
  PROVE  /\ Timespec(time, timeout) \in [sec : Int, usec : Int]
         /\ Micros(Timespec(time, timeout)) = time + timeout
         /\ ~ValidTimespec(Timespec(time, timeout)) => timeout < 0
<1> DEFINE s == time \div Base
           u == time % Base
           q == Quot(timeout, Base)
           r == Rem(timeout, Base)
           sum == u + r
           q2 == Quot(sum, Base)
           r2 == Rem(sum, Base)
<1>1. Base \in Nat \ {0}
  BY BaseAssumption
<1>2. s \in Nat /\ u \in Nat /\ time = Base * s + u
  BY <1>1
<1>3. /\ q \in Int /\ r \in Int
      /\ timeout = Base * q + r
      /\ timeout >= 0 => r >= 0
  BY <1>1, RemFacts
<1>4. sum \in Int
  BY <1>2, <1>3
<1>5. /\ q2 \in Int /\ r2 \in Int
      /\ sum = Base * q2 + r2
      /\ sum >= 0 => r2 >= 0
      /\ r2 < Base
  BY <1>1, <1>4, RemFacts
<1>6. Timespec(time, timeout) = [sec |-> s + q + q2, usec |-> r2]
  BY DEF Timespec
<1> HIDE DEF s, u, q, r, q2, r2
<1>7. (s + q + q2) * Base = Base * s + Base * q + Base * q2
  BY <1>1, <1>2, <1>3, <1>5
<1>8. (s + q + q2) * Base + r2 = time + timeout
  <2> DEFINE x == Base * s
             y == Base * q
             z == Base * q2
  <2>1. x \in Int /\ y \in Int /\ z \in Int
    BY <1>1, <1>2, <1>3, <1>5
  <2>2. (s + q + q2) * Base = x + y + z
    BY <1>7
  <2>3. time = x + u /\ timeout = y + r /\ u + r = z + r2
    BY <1>2, <1>3, <1>5
  <2> HIDE DEF x, y, z
  <2> QED
    BY <1>2, <1>3, <1>5, <2>1, <2>2, <2>3
<1>9. timeout >= 0 => r2 >= 0
  BY <1>2, <1>3, <1>5
<1> QED
  BY <1>2, <1>3, <1>5, <1>6, <1>8, <1>9 DEF Micros, ValidTimespec

-----------------------------------------------------------------------------
(* Monitor: WaitReturnsRight.                                              *)

\* The shape of the variables, independent of what a wait means.
MonitorShape ==
  /\ notifyAll \in BOOLEAN
  /\ now \in 0 .. MaxTime
  /\ holder \in Consumers \cup {None}
  /\ depth \in Nat /\ (depth = 0 <=> holder = None)
  /\ pc \in [Consumers -> {"out", "in", "blocked", "woken", "gone"}]
  /\ asked \in [Consumers -> Timeouts \cup {0}]
  /\ since \in [Consumers -> 0 .. MaxTime]
  /\ spec \in [Consumers -> [sec : Int, usec : Int]]
  /\ result \in [Consumers -> BOOLEAN]
  /\ set \in BOOLEAN
  /\ producer \in {"idle", "set", "done"}

\* The thread inside its blocks owns the mutex.
OwnsInside == \A c \in Consumers : pc[c] = "in" => holder = c

\* A limited wait that is blocked ends at the time it was asked to, whatever
\* the clock has done since; one that returned false has reached it.
WaitInv ==
  \A c \in Consumers :
    /\ pc[c] = "blocked" /\ asked[c] # 0 =>
         ValidTimespec(spec[c]) /\ Micros(spec[c]) = since[c] + asked[c]
    /\ ~result[c] => now >= since[c] + asked[c]

MonitorInv == MonitorShape /\ OwnsInside /\ WaitInv

LEMMA MonitorInvInit == MonitorInit => MonitorInv
<1> SUFFICES ASSUME MonitorInit PROVE MonitorInv
  OBVIOUS
<1>1. 0 \in 0 .. MaxTime
  BY MaxTimeAssumption
<1>2. MonitorShape
  <2>1. spec \in [Consumers -> [sec : Int, usec : Int]]
    BY DEF MonitorInit
  <2>2. /\ asked \in [Consumers -> Timeouts \cup {0}]
        /\ since \in [Consumers -> 0 .. MaxTime]
    BY <1>1 DEF MonitorInit
  <2>3. /\ pc \in [Consumers -> {"out", "in", "blocked", "woken", "gone"}]
        /\ result \in [Consumers -> BOOLEAN]
    BY DEF MonitorInit
  <2>4. /\ notifyAll \in BOOLEAN /\ set \in BOOLEAN
        /\ producer \in {"idle", "set", "done"}
    BY DEF MonitorInit
  <2>5. /\ now \in 0 .. MaxTime /\ holder \in Consumers \cup {None}
        /\ depth \in Nat /\ (depth = 0 <=> holder = None)
    BY <1>1 DEF MonitorInit
  <2> QED
    BY <2>1, <2>2, <2>3, <2>4, <2>5 DEF MonitorShape
<1>3. OwnsInside
  BY DEF MonitorInit, OwnsInside
<1>4. WaitInv
  BY DEF MonitorInit, WaitInv
<1> QED
  BY <1>2, <1>3, <1>4 DEF MonitorInv

\* pthreads_monitor_wait: the arithmetic establishes the invariant for the
\* caller and leaves the other waits alone.
LEMMA WaitKeeps ==
  ASSUME MonitorInv, NEW c \in Consumers, NEW t \in Timeouts, Wait(c, t),
         UNCHANGED notifyAll
  PROVE  MonitorInv'
<1> DEFINE ts == Timespec(now, t)
<1>1. now \in Nat /\ t \in Int
  BY TimeoutsAssumption, MaxTimeAssumption DEF MonitorInv, MonitorShape
<1>2. /\ ts \in [sec : Int, usec : Int]
      /\ Micros(ts) = now + t
      /\ ~ValidTimespec(ts) => t < 0
  BY <1>1, TimespecFacts
<1>3. /\ asked' = [asked EXCEPT ![c] = t]
      /\ since' = [since EXCEPT ![c] = now]
      /\ spec' = [spec EXCEPT ![c] = ts]
      /\ UNCHANGED <<now, set, producer, notifyAll>>
      /\ result[c] /\ pc[c] = "in"
  BY DEF Wait
<1> HIDE DEF ts
<1>4. CASE t # 0 /\ ~ValidTimespec(ts)
  <2>1. result' = [result EXCEPT ![c] = FALSE] /\ UNCHANGED <<pc, holder, depth>>
    BY <1>4 DEF Wait, ts
  <2>2. MonitorShape'
    BY <1>2, <1>3, <2>1 DEF MonitorInv, MonitorShape
  <2>3. OwnsInside'
    BY <2>1 DEF MonitorInv, OwnsInside
  <2>4. WaitInv'
    BY <1>1, <1>2, <1>3, <1>4, <2>1 DEF MonitorInv, MonitorShape, WaitInv
  <2> QED
    BY <2>2, <2>3, <2>4 DEF MonitorInv
<1>5. CASE ~(t # 0 /\ ~ValidTimespec(ts))
  <2>1. /\ pc' = [pc EXCEPT ![c] = "blocked"]
        /\ depth' = depth - 1
        /\ holder' = IF depth = 1 THEN None ELSE c
        /\ UNCHANGED result
    BY <1>5 DEF Wait, ts, Goto, GiveUpOnce
  <2>2. holder = c /\ depth \in Nat \ {0} /\ c # None
    BY <1>3, ConsumersAssumption DEF MonitorInv, MonitorShape, OwnsInside
  <2>3. MonitorShape'
    BY <1>2, <1>3, <2>1, <2>2 DEF MonitorInv, MonitorShape
  <2>4. OwnsInside'
    BY <2>1, <2>2 DEF MonitorInv, MonitorShape, OwnsInside
  <2>5. WaitInv'
    BY <1>1, <1>2, <1>3, <1>5, <2>1 DEF MonitorInv, MonitorShape, WaitInv
  <2> QED
    BY <2>3, <2>4, <2>5 DEF MonitorInv
<1> QED
  BY <1>4, <1>5

LEMMA ConsumerStepKeeps ==
  ASSUME MonitorInv, NEW c \in Consumers, ConsumerStep(c) \/ WakeUp(c),
         UNCHANGED notifyAll
  PROVE  MonitorInv'
<1> USE DEF Goto
<1>0. \A d \in Consumers : d # None
  BY ConsumersAssumption
<1>1. CASE \E d \in Depths : Enter(c, d)
  <2>1. PICK d \in Depths : Enter(c, d)
    BY <1>1
  <2>2. d \in Nat \ {0}
    BY DepthsAssumption
  <2> QED
    BY <1>0, <2>1, <2>2 DEF Enter, waitVars, MonitorInv, MonitorShape, OwnsInside, WaitInv
<1>2. CASE \E t \in Timeouts : Wait(c, t)
  BY <1>2, WaitKeeps
<1>3. CASE TimeOut(c)
  BY <1>3 DEF TimeOut, MonitorInv, MonitorShape, OwnsInside, WaitInv
<1>4. CASE Relock(c)
  BY <1>0, <1>4 DEF Relock, waitVars, MonitorInv, MonitorShape, OwnsInside, WaitInv
<1>5. CASE Leave(c)
  BY <1>5 DEF Leave, waitVars, MonitorInv, MonitorShape, OwnsInside, WaitInv
<1>6. CASE WakeUp(c)
  BY <1>6 DEF WakeUp, waitVars, MonitorInv, MonitorShape, OwnsInside, WaitInv
<1> QED
  BY <1>1, <1>2, <1>3, <1>4, <1>5, <1>6 DEF ConsumerStep

LEMMA MonitorInvNext == MonitorInv /\ [MonitorNext]_monitorVars => MonitorInv'
<1> SUFFICES ASSUME MonitorInv, [MonitorNext]_monitorVars PROVE MonitorInv'
  OBVIOUS
<1> USE DEF MonitorInv, MonitorShape, OwnsInside, WaitInv, waitVars
<1>1. CASE UNCHANGED monitorVars
  BY <1>1 DEF monitorVars
<1>2. CASE AllGone
  BY <1>1, <1>2 DEF AllGone
<1>3. CASE Tick /\ UNCHANGED notifyAll
  <2>1. now \in Int /\ now' = now + 1 /\ now' \in 0 .. MaxTime
    BY <1>3, MaxTimeAssumption DEF Tick
  <2>2. ASSUME NEW c \in Consumers PROVE since[c] + asked[c] \in Int
    <3>1. since[c] \in 0 .. MaxTime /\ asked[c] \in Timeouts \cup {0}
      OBVIOUS
    <3>2. asked[c] \in Int
      <4>1. Timeouts \cup {0} \subseteq Int
        BY ONLY TimeoutsAssumption
      <4> QED
        BY ONLY <3>1, <4>1, Zenon
    <3>3. since[c] \in Int
      BY ONLY <3>1, MaxTimeAssumption
    <3> QED
      BY ONLY <3>2, <3>3
  <2> QED
    BY <1>3, <2>1, <2>2 DEF Tick
<1>4. CASE Produce /\ UNCHANGED notifyAll
  BY <1>4 DEF Produce
<1>5. CASE Notify /\ UNCHANGED notifyAll
  BY <1>5 DEF Notify, Blocked
<1>6. CASE \E c \in Consumers : (ConsumerStep(c) \/ WakeUp(c)) /\ UNCHANGED notifyAll
  BY <1>6, ConsumerStepKeeps
<1> QED
  BY <1>1, <1>2, <1>3, <1>4, <1>5, <1>6 DEF MonitorNext

\* wait() returns false only at or after the end of its time-out, whatever the
\* time of day, the time-out (negative ones included) and the number of
\* threads, and always with the mutex owned (pthreads_monitor_wait).
THEOREM WaitAlwaysReturnsRight == MonitorSpec => []WaitReturnsRight
<1>1. MonitorInit => MonitorInv
  BY MonitorInvInit
<1>2. MonitorInv /\ [MonitorNext]_monitorVars => MonitorInv'
  BY MonitorInvNext
<1>3. MonitorInv => WaitReturnsRight
  BY DEF MonitorInv, MonitorShape, OwnsInside, WaitInv, WaitReturnsRight, MonitorTypeOK
<1> QED
  BY <1>1, <1>2, <1>3, PTL DEF MonitorSpec
-----------------------------------------------------------------------------
(* LinkedQueue: what induction over the naturals gives.                    *)

LEMMA LeastNatural ==
  ASSUME NEW T \in SUBSET Nat, T # {}
  PROVE  \E m \in T : \A k \in T : m <= k
<1>1. PICK m \in T : \A k \in T : <<k, m>> \notin OpToRel(<, Nat)
  BY WFMin, NatLessThanWellFounded, Zenon
<1>2. \A k \in T : ~(k < m)
  BY <1>1, Zenon DEF OpToRel
<1> QED
  BY <1>2

\* Following the links from the first item of s gives s.
LEMMA WalkIs ==
  ASSUME NEW s \in Seq(Items), NEW first, NEW links,
         Len(s) > 0 => first = s[1],
         \A k \in 1 .. Len(s) - 1 : links[s[k]] = s[k + 1]
  PROVE  Walk(first, links, Len(s)) = s
<1> DEFINE Nth == CHOOSE Nth : Nth = [k \in 1 .. Len(s) |->
                    IF k = 1 THEN first
                    ELSE IF Nth[k - 1] = NULL THEN NULL ELSE links[Nth[k - 1]]]
<1>1. Len(s) \in Nat /\ s = [k \in 1 .. Len(s) |-> s[k]] /\ \A k \in 1 .. Len(s) : s[k] \in Items
  BY LenProperties, ElementOfSeq
<1>2. \A k \in 1 .. Len(s) : k # 1 => /\ k - 1 \in 1 .. Len(s) - 1 /\ k - 1 \in 1 .. Len(s)
                                       /\ (k - 1) + 1 = k
  BY <1>1
<1>3. \A k \in 1 .. Len(s) : k # 1 => s[k - 1] # NULL /\ links[s[k - 1]] = s[k]
  BY <1>1, <1>2, NullAssumption
<1>4. \A k \in 1 .. Len(s) :
        s[k] = IF k = 1 THEN first ELSE IF s[k - 1] = NULL THEN NULL ELSE links[s[k - 1]]
  BY <1>1, <1>3
<1>5. s = [k \in 1 .. Len(s) |->
             IF k = 1 THEN first ELSE IF s[k - 1] = NULL THEN NULL ELSE links[s[k - 1]]]
  BY <1>1, <1>4
<1>6. Nth = [k \in 1 .. Len(s) |->
               IF k = 1 THEN first ELSE IF Nth[k - 1] = NULL THEN NULL ELSE links[Nth[k - 1]]]
  BY <1>5
<1>7. Walk(first, links, Len(s)) = [k \in 1 .. Len(s) |-> Nth[k]]
  BY DEF Walk
<1> HIDE DEF Nth
<1>8. \A k \in 1 .. Len(s) : Nth[k] = s[k]
  <2> DEFINE T == {k \in 1 .. Len(s) : Nth[k] # s[k]}
  <2> SUFFICES ASSUME T # {} PROVE FALSE
    OBVIOUS
  <2>1. T \in SUBSET Nat
    BY <1>1
  <2> HIDE DEF T
  <2>2. PICK m \in T : \A k \in T : m <= k
    BY <2>1, LeastNatural
  <2>3. m \in 1 .. Len(s) /\ Nth[m] # s[m]
    BY <2>2 DEF T
  <2>4. CASE m = 1
    BY <1>4, <1>6, <2>3, <2>4
  <2>5. CASE m # 1
    <3>1. m - 1 \in 1 .. Len(s) /\ ~(m <= m - 1)
      BY <1>1, <1>2, <2>3, <2>5
    <3>2. Nth[m - 1] = s[m - 1]
      BY <2>2, <3>1 DEF T
    <3> QED
      BY <1>4, <1>6, <2>3, <2>5, <3>2
  <2> QED
    BY <2>4, <2>5
<1> QED
  BY <1>1, <1>7, <1>8

-----------------------------------------------------------------------------
(* LinkedQueue: lists.                                                     *)

\* The links hold the sequence s: forwards, backwards and at both ends.
ChainOf(s, first, last, links, backs) ==
  /\ s \in Seq(Items)
  /\ \A i, j \in 1 .. Len(s) : s[i] = s[j] => i = j
  /\ Len(s) = 0 => first = NULL /\ last = NULL
  /\ Len(s) > 0 => /\ first = s[1] /\ backs[s[1]] = NULL
                   /\ last = s[Len(s)] /\ links[s[Len(s)]] = NULL
  /\ \A k \in 1 .. Len(s) - 1 : links[s[k]] = s[k + 1] /\ backs[s[k + 1]] = s[k]

Holds(l, s) == ChainOf(s, head[l], tail[l], next, prev) /\ size[l] = Len(s)

LinkTypes ==
  /\ next \in [Items -> Pointers] /\ prev \in [Items -> Pointers]
  /\ head \in [Lists -> Pointers] /\ tail \in [Lists -> Pointers]
  /\ size \in [Lists -> Nat]

Disjoint(s, r) == \A i \in 1 .. Len(s), j \in 1 .. Len(r) : s[i] # r[j]

LEMMA ChainFacts ==
  ASSUME NEW s, NEW first, NEW last, NEW links, NEW backs, ChainOf(s, first, last, links, backs)
  PROVE  /\ s \in Seq(Items) /\ Len(s) \in Nat /\ DOMAIN s = 1 .. Len(s)
         /\ \A k \in 1 .. Len(s) : s[k] \in Items /\ s[k] # NULL
         /\ first = NULL <=> Len(s) = 0
         /\ last = NULL <=> Len(s) = 0
<1>1. s \in Seq(Items) /\ Len(s) \in Nat /\ DOMAIN s = 1 .. Len(s)
  BY LenProperties DEF ChainOf
<1>2. \A k \in 1 .. Len(s) : s[k] \in Items /\ s[k] # NULL
  BY <1>1, ElementOfSeq, NullAssumption
<1>3. Len(s) > 0 => 1 \in 1 .. Len(s) /\ Len(s) \in 1 .. Len(s)
  BY <1>1
<1>4. (first = NULL <=> Len(s) = 0) /\ (last = NULL <=> Len(s) = 0)
  <2>1. CASE Len(s) = 0
    BY <2>1 DEF ChainOf
  <2>2. CASE Len(s) > 0
    BY <1>2, <1>3, <2>2 DEF ChainOf
  <2> QED
    BY <1>1, <2>1, <2>2
<1> QED
  BY <1>1, <1>2, <1>4

\* Links of other items do not matter.
LEMMA ChainElsewhere ==
  ASSUME NEW s, NEW first, NEW last, NEW links, NEW backs, NEW ls, NEW bs,
         ChainOf(s, first, last, links, backs),
         \A k \in 1 .. Len(s) : ls[s[k]] = links[s[k]] /\ bs[s[k]] = backs[s[k]]
  PROVE  ChainOf(s, first, last, ls, bs)
<1>1. Len(s) \in Nat
  BY ChainFacts
<1>2. \A k \in 1 .. Len(s) - 1 : k \in 1 .. Len(s) /\ k + 1 \in 1 .. Len(s)
  BY <1>1
<1>3. Len(s) > 0 => 1 \in 1 .. Len(s) /\ Len(s) \in 1 .. Len(s)
  BY <1>1
<1> QED
  BY <1>1, <1>2, <1>3 DEF ChainOf

\* The links after pthreads_queue_push of i.
Pushed(i, f, first, last, ls, links, bs, backs) ==
  /\ ls[i] = NULL /\ bs[i] = last
  /\ last = NULL => f = i
  /\ last # NULL => f = first /\ ls[last] = i
  /\ \A j \in Items : j # i /\ j # last => ls[j] = links[j]
  /\ \A j \in Items : j # i => bs[j] = backs[j]

LEMMA ChainPush ==
  ASSUME NEW s, NEW first, NEW last, NEW links, NEW backs, NEW ls, NEW bs, NEW f, NEW i \in Items,
         ChainOf(s, first, last, links, backs), \A k \in 1 .. Len(s) : s[k] # i,
         Pushed(i, f, first, last, ls, links, bs, backs)
  PROVE  ChainOf(Append(s, i), f, i, ls, bs)
<1>0. /\ ls[i] = NULL /\ bs[i] = last
      /\ last = NULL => f = i
      /\ last # NULL => f = first /\ ls[last] = i
      /\ \A j \in Items : j # i /\ j # last => ls[j] = links[j]
      /\ \A j \in Items : j # i => bs[j] = backs[j]
  BY DEF Pushed
<1>1. /\ s \in Seq(Items) /\ Len(s) \in Nat /\ \A k \in 1 .. Len(s) : s[k] \in Items
      /\ last = NULL <=> Len(s) = 0
  BY ChainFacts
<1>2. PICK t : t = Append(s, i)
  OBVIOUS
<1>3. /\ t \in Seq(Items) /\ Len(t) = Len(s) + 1 /\ t[Len(s) + 1] = i
      /\ \A k \in 1 .. Len(s) : t[k] = s[k]
  BY <1>1, <1>2, AppendProperties
<1>4. \A k \in 1 .. Len(t) : k \in 1 .. Len(s) \/ k = Len(s) + 1
  BY <1>1, <1>3
<1>5. \A j, k \in 1 .. Len(t) : t[j] = t[k] => j = k
  BY <1>3, <1>4 DEF ChainOf
<1>6. f = t[1] /\ bs[t[1]] = NULL
  <2>1. CASE Len(s) = 0
    BY <1>0, <1>1, <1>3, <2>1
  <2>2. CASE Len(s) > 0
    <3>1. 1 \in 1 .. Len(s) /\ last # NULL
      BY <1>1, <2>2
    <3> QED
      BY <1>0, <1>1, <1>3, <2>2, <3>1 DEF ChainOf
  <2> QED
    BY <1>1, <2>1, <2>2
<1>7. ASSUME NEW k \in 1 .. Len(t) - 1
      PROVE  ls[t[k]] = t[k + 1] /\ bs[t[k + 1]] = t[k]
  <2>1. k \in 1 .. Len(s) /\ t[k] = s[k] /\ last # NULL /\ last = s[Len(s)]
    BY <1>1, <1>3 DEF ChainOf
  <2>2. CASE k = Len(s)
    BY <1>0, <1>3, <2>1, <2>2
  <2>3. CASE k # Len(s)
    <3>1. k \in 1 .. Len(s) - 1 /\ k + 1 \in 1 .. Len(s) /\ Len(s) \in 1 .. Len(s)
      BY <1>1, <2>1, <2>3
    <3>2. s[k] # last /\ s[k] # i /\ s[k + 1] # i
      BY <2>1, <2>3, <3>1 DEF ChainOf
    <3> QED
      BY <1>0, <1>1, <1>3, <2>1, <3>1, <3>2 DEF ChainOf
  <2> QED
    BY <2>2, <2>3
<1>8. Len(t) # 0 /\ t[Len(t)] = i
  BY <1>1, <1>3
<1> QED
  BY <1>0, <1>2, <1>3, <1>5, <1>6, <1>7, <1>8 DEF ChainOf

LEMMA RemoveAtIs ==
  ASSUME NEW S, NEW s \in Seq(S), NEW k \in 1 .. Len(s)
  PROVE  /\ RemoveAt(s, k) \in Seq(S) /\ Len(RemoveAt(s, k)) = Len(s) - 1
         /\ \A n \in 1 .. Len(s) - 1 : RemoveAt(s, k)[n] = IF n < k THEN s[n] ELSE s[n + 1]
<1>1. Len(s) \in Nat /\ k \in Nat /\ \A n \in 1 .. Len(s) : s[n] \in S
  BY LenProperties, ElementOfSeq
<1>2. PICK a, b : a = SubSeq(s, 1, k - 1) /\ b = SubSeq(s, k + 1, Len(s))
  OBVIOUS
<1>3. k - 1 \in Int /\ k + 1 \in Int /\ Len(s) \in Int
      /\ (\A n \in 1 .. k - 1 : n \in 1 .. Len(s)) /\ (\A n \in k + 1 .. Len(s) : n \in 1 .. Len(s))
  BY <1>1
<1>4. /\ a \in Seq(S) /\ Len(a) = k - 1
      /\ \A n \in 1 .. k - 1 : a[n] = s[n]
  <2>1. /\ a \in Seq(S) /\ Len(a) = (IF 1 <= k - 1 THEN (k - 1) - 1 + 1 ELSE 0)
        /\ \A n \in 1 .. (k - 1) - 1 + 1 : a[n] = s[1 + n - 1]
    BY <1>1, <1>2, <1>3, SubSeqProperties
  <2> QED
    BY <1>1, <2>1
<1>5. /\ b \in Seq(S) /\ Len(b) = Len(s) - k
      /\ \A n \in 1 .. Len(s) - k : b[n] = s[k + n]
  <2>1. /\ b \in Seq(S) /\ Len(b) = (IF k + 1 <= Len(s) THEN Len(s) - (k + 1) + 1 ELSE 0)
        /\ \A n \in 1 .. Len(s) - (k + 1) + 1 : b[n] = s[(k + 1) + n - 1]
    BY <1>1, <1>2, <1>3, SubSeqProperties
  <2> QED
    BY <1>1, <2>1
<1>6. RemoveAt(s, k) = a \o b
  BY <1>2 DEF RemoveAt
<1>7. /\ a \o b \in Seq(S) /\ Len(a \o b) = Len(a) + Len(b)
      /\ \A n \in 1 .. Len(a) + Len(b) : (a \o b)[n] = IF n <= Len(a) THEN a[n] ELSE b[n - Len(a)]
  BY <1>4, <1>5, ConcatProperties
<1>8. ASSUME NEW n \in 1 .. Len(s) - 1
      PROVE  (a \o b)[n] = IF n < k THEN s[n] ELSE s[n + 1]
  <2>1. n \in 1 .. Len(a) + Len(b)
    BY <1>1, <1>4, <1>5
  <2>2. CASE n < k
    BY <1>1, <1>4, <1>7, <2>1, <2>2
  <2>3. CASE ~(n < k)
    <3>1. n - Len(a) \in 1 .. Len(s) - k /\ k + (n - Len(a)) = n + 1 /\ ~(n <= Len(a))
      BY <1>1, <1>4, <2>3
    <3> QED
      BY <1>5, <1>7, <2>1, <2>3, <3>1
  <2> QED
    BY <2>2, <2>3
<1> QED
  BY <1>1, <1>4, <1>5, <1>6, <1>7, <1>8

\* The items before and after the k-th one, NULL at the ends.
Before(s, k) == IF k = 1 THEN NULL ELSE s[k - 1]
After(s, k) == IF k = Len(s) THEN NULL ELSE s[k + 1]

\* The links after pthreads_queue_remove of the item between p and n.
Removed(p, n, f, first, z, last, ls, links, bs, backs) ==
  /\ f = (IF p = NULL THEN n ELSE first)
  /\ z = (IF n = NULL THEN p ELSE last)
  /\ p # NULL => ls[p] = n
  /\ n # NULL => bs[n] = p
  /\ \A j \in Items : j # p => ls[j] = links[j]
  /\ \A j \in Items : j # n => bs[j] = backs[j]

LEMMA ChainRemove ==
  ASSUME NEW s, NEW first, NEW last, NEW links, NEW backs, NEW ls, NEW bs, NEW f, NEW z,
         NEW k \in 1 .. Len(s), ChainOf(s, first, last, links, backs),
         Removed(Before(s, k), After(s, k), f, first, z, last, ls, links, bs, backs)
  PROVE  ChainOf(RemoveAt(s, k), f, z, ls, bs)
<1>1. /\ s \in Seq(Items) /\ Len(s) \in Nat /\ k \in Nat
      /\ \A m \in 1 .. Len(s) : s[m] \in Items /\ s[m] # NULL
  BY ChainFacts
<1>2. PICK p, n : p = Before(s, k) /\ n = After(s, k)
  OBVIOUS
<1>3. /\ k = 1 => p = NULL
      /\ k # 1 => p = s[k - 1] /\ p # NULL
      /\ k = Len(s) => n = NULL
      /\ k # Len(s) => n = s[k + 1] /\ n # NULL
  <2>1. (k # 1 => k - 1 \in 1 .. Len(s)) /\ (k # Len(s) => k + 1 \in 1 .. Len(s))
    BY <1>1
  <2> QED
    BY <1>1, <1>2, <2>1 DEF Before, After
<1>4. /\ k = 1 => p = NULL /\ f = n
      /\ k # 1 => p = s[k - 1] /\ f = first /\ ls[p] = n
      /\ k = Len(s) => n = NULL /\ z = p
      /\ k # Len(s) => n = s[k + 1] /\ z = last /\ bs[n] = p
      /\ \A j \in Items : j # p => ls[j] = links[j]
      /\ \A j \in Items : j # n => bs[j] = backs[j]
  <2>1. Removed(p, n, f, first, z, last, ls, links, bs, backs)
    BY <1>2
  <2>2. /\ f = (IF p = NULL THEN n ELSE first) /\ z = (IF n = NULL THEN p ELSE last)
        /\ p # NULL => ls[p] = n
        /\ n # NULL => bs[n] = p
        /\ \A j \in Items : j # p => ls[j] = links[j]
        /\ \A j \in Items : j # n => bs[j] = backs[j]
    BY <2>1 DEF Removed
  <2> QED
    BY <1>3, <2>2
<1>5. PICK t : t = RemoveAt(s, k)
  OBVIOUS
<1>6. /\ t \in Seq(Items) /\ Len(t) = Len(s) - 1
      /\ \A m \in 1 .. Len(s) - 1 : t[m] = IF m < k THEN s[m] ELSE s[m + 1]
  BY <1>1, <1>5, RemoveAtIs
<1>7. \A a, b \in 1 .. Len(t) : t[a] = t[b] => a = b
  <2> SUFFICES ASSUME NEW a \in 1 .. Len(t), NEW b \in 1 .. Len(t), t[a] = t[b] PROVE a = b
    OBVIOUS
  <2>1. PICK c \in 1 .. Len(s) : t[a] = s[c] /\ c = IF a < k THEN a ELSE a + 1
    BY <1>1, <1>6
  <2>2. PICK d \in 1 .. Len(s) : t[b] = s[d] /\ d = IF b < k THEN b ELSE b + 1
    BY <1>1, <1>6
  <2>3. \A x, y \in 1 .. Len(s) : s[x] = s[y] => x = y
    BY DEF ChainOf
  <2>4. c = d
    BY <2>1, <2>2, <2>3
  <2> QED
    BY <1>1, <2>1, <2>2, <2>4
<1>8. ASSUME NEW m \in 1 .. Len(t) - 1
      PROVE  ls[t[m]] = t[m + 1] /\ bs[t[m + 1]] = t[m]
  <2>1. /\ m \in 1 .. Len(s) - 1 /\ m + 1 \in 1 .. Len(s) - 1 /\ m \in 1 .. Len(s)
        /\ m + 1 \in 1 .. Len(s) /\ (m + 1) + 1 \in 1 .. Len(s)
    BY <1>1, <1>4, <1>6
  <2>2. CASE m + 1 < k
    <3>1. t[m] = s[m] /\ t[m + 1] = s[m + 1] /\ k # 1 /\ k - 1 \in 1 .. Len(s) /\ m # k - 1
      BY <1>1, <1>4, <1>6, <2>1, <2>2
    <3>2. s[m] # p
      BY <1>4, <2>1, <3>1 DEF ChainOf
    <3>3. s[m + 1] # n
      <4>1. CASE k = Len(s)
        BY <1>1, <1>4, <2>1, <4>1
      <4>2. CASE k # Len(s)
        <5>1. k + 1 \in 1 .. Len(s) /\ m + 1 # k + 1
          BY <1>1, <1>4, <2>2, <4>2
        <5> QED
          BY <1>4, <2>1, <4>2, <5>1 DEF ChainOf
      <4> QED
        BY <1>4, <4>1, <4>2
    <3> QED
      BY <1>1, <1>4, <2>1, <3>1, <3>2, <3>3 DEF ChainOf
  <2>3. CASE m + 1 = k
    <3>1. t[m] = s[m] /\ t[m + 1] = s[k + 1] /\ k # 1 /\ k # Len(s) /\ k - 1 = m
      BY <1>1, <1>4, <1>6, <2>1, <2>3
    <3> QED
      BY <1>4, <3>1
  <2>4. CASE m + 1 > k
    <3>1. t[m] = s[m + 1] /\ t[m + 1] = s[(m + 1) + 1] /\ k # Len(s) /\ k + 1 \in 1 .. Len(s)
          /\ k + 1 # (m + 1) + 1
      BY <1>1, <1>4, <1>6, <2>1, <2>4
    <3>2. s[(m + 1) + 1] # n
      BY <1>4, <2>1, <3>1 DEF ChainOf
    <3>3. s[m + 1] # p
      <4>1. CASE k = 1
        BY <1>1, <1>4, <2>1, <4>1
      <4>2. CASE k # 1
        <5>1. k - 1 \in 1 .. Len(s) /\ m + 1 # k - 1
          BY <1>1, <1>4, <2>4, <4>2
        <5> QED
          BY <1>4, <2>1, <4>2, <5>1 DEF ChainOf
      <4> QED
        BY <1>4, <4>1, <4>2
    <3> QED
      BY <1>1, <1>4, <2>1, <3>1, <3>2, <3>3 DEF ChainOf
  <2> QED
    BY <1>1, <1>4, <2>1, <2>2, <2>3, <2>4
<1>9. ASSUME Len(t) = 0 PROVE f = NULL /\ z = NULL
  <2>1. Len(s) = 1
    BY <1>1, <1>4, <1>6, <1>9
  <2>2. k = 1 /\ k = Len(s)
    BY <1>1, <1>4, <2>1
  <2> QED
    BY <1>4, <2>2
<1>10. ASSUME Len(t) > 0 PROVE f = t[1] /\ bs[t[1]] = NULL
  <2>1. 1 \in 1 .. Len(s) - 1 /\ 1 \in 1 .. Len(s) /\ 2 \in 1 .. Len(s)
    BY <1>1, <1>4, <1>6, <1>10
  <2>2. CASE k = 1
    BY <1>1, <1>4, <1>6, <1>10, <2>1, <2>2
  <2>3. CASE k # 1
    <3>1. t[1] = s[1] /\ f = s[1] /\ backs[s[1]] = NULL
      BY <1>1, <1>4, <1>6, <2>1, <2>3 DEF ChainOf
    <3>2. s[1] # n
      <4>1. CASE k = Len(s)
        BY <1>1, <1>4, <2>1, <4>1
      <4>2. CASE k # Len(s)
        <5>1. k + 1 \in 1 .. Len(s) /\ k + 1 # 1
          BY <1>1, <1>4, <4>2
        <5> QED
          BY <1>4, <2>1, <4>2, <5>1 DEF ChainOf
      <4> QED
        BY <1>4, <4>1, <4>2
    <3> QED
      BY <1>1, <1>4, <2>1, <3>1, <3>2
  <2> QED
    BY <1>4, <2>2, <2>3
<1>11. ASSUME Len(t) > 0 PROVE z = t[Len(t)] /\ ls[t[Len(t)]] = NULL
  <2>1. /\ Len(t) \in 1 .. Len(s) - 1 /\ Len(s) \in 1 .. Len(s) /\ Len(t) \in 1 .. Len(s)
        /\ Len(t) + 1 = Len(s)
    BY <1>1, <1>4, <1>6, <1>11
  <2>2. CASE k = Len(s)
    <3>1. k # 1 /\ k - 1 = Len(t) /\ t[Len(t)] = s[Len(t)]
      BY <1>1, <1>4, <1>6, <2>1, <2>2
    <3> QED
      BY <1>4, <2>2, <3>1
  <2>3. CASE k # Len(s)
    <3>1. t[Len(t)] = s[Len(s)] /\ z = s[Len(s)] /\ links[s[Len(s)]] = NULL
      BY <1>1, <1>4, <1>6, <2>1, <2>3 DEF ChainOf
    <3>2. s[Len(s)] # p
      <4>1. CASE k = 1
        BY <1>1, <1>4, <2>1, <4>1
      <4>2. CASE k # 1
        <5>1. k - 1 \in 1 .. Len(s) /\ k - 1 # Len(s)
          BY <1>1, <1>4, <4>2
        <5> QED
          BY <1>4, <2>1, <4>2, <5>1 DEF ChainOf
      <4> QED
        BY <1>4, <4>1, <4>2
    <3> QED
      BY <1>1, <1>4, <2>1, <3>1, <3>2
  <2> QED
    BY <1>4, <2>2, <2>3
<1> QED
  BY <1>4, <1>5, <1>6, <1>7, <1>8, <1>9, <1>10, <1>11 DEF ChainOf

\* pthreads_queue_push: the item is the last of its list, and the other list
\* does not notice.
LEMMA PushHolds ==
  ASSUME LinkTypes, NEW l \in Lists, NEW o \in Lists, o # l, NEW s, NEW r, NEW i \in Items,
         Holds(l, s), Holds(o, r), Disjoint(s, r),
         \A k \in 1 .. Len(s) : s[k] # i, \A k \in 1 .. Len(r) : r[k] # i,
         QueuePush(l, i)
  PROVE  LinkTypes' /\ Holds(l, Append(s, i))' /\ Holds(o, r)'
<1>1. ChainOf(s, head[l], tail[l], next, prev) /\ ChainOf(r, head[o], tail[o], next, prev)
      /\ size[l] = Len(s) /\ size[o] = Len(r)
  BY DEF Holds
<1>2. /\ Len(s) \in Nat /\ \A k \in 1 .. Len(s) : s[k] \in Items
      /\ Len(r) \in Nat /\ \A k \in 1 .. Len(r) : r[k] \in Items
      /\ tail[l] = NULL <=> Len(s) = 0
  BY <1>1, ChainFacts
<1>3. tail[l] # NULL => tail[l] \in Items /\ Len(s) \in 1 .. Len(s) /\ tail[l] = s[Len(s)]
  BY <1>1, <1>2 DEF ChainOf
<1>4. /\ next' \in [Items -> Pointers] /\ next'[i] = NULL
      /\ tail[l] # NULL => next'[tail[l]] = i
      /\ \A j \in Items : j # i /\ j # tail[l] => next'[j] = next[j]
  <2>1. CASE tail[l] = NULL
    BY <2>1 DEF QueuePush, LinkTypes, Pointers
  <2>2. CASE tail[l] # NULL
    <3>1. next' = [next EXCEPT ![tail[l]] = i, ![i] = NULL] /\ tail[l] # i
      BY <1>2, <1>3, <2>2 DEF QueuePush
    <3> QED
      BY <1>3, <2>2, <3>1 DEF LinkTypes, Pointers
  <2> QED
    BY <2>1, <2>2
<1>5. /\ prev' \in [Items -> Pointers] /\ prev'[i] = tail[l]
      /\ \A j \in Items : j # i => prev'[j] = prev[j]
  BY DEF QueuePush, LinkTypes, Pointers
<1>6. /\ head' \in [Lists -> Pointers] /\ head'[o] = head[o]
      /\ tail[l] = NULL => head'[l] = i
      /\ tail[l] # NULL => head'[l] = head[l]
      /\ tail' \in [Lists -> Pointers] /\ tail'[o] = tail[o] /\ tail'[l] = i
      /\ size' \in [Lists -> Nat] /\ size'[o] = size[o] /\ size'[l] = size[l] + 1
  <2>1. /\ head' \in [Lists -> Pointers] /\ head'[o] = head[o]
        /\ tail[l] = NULL => head'[l] = i
        /\ tail[l] # NULL => head'[l] = head[l]
    <3>1. CASE tail[l] = NULL
      BY <3>1 DEF QueuePush, LinkTypes, Pointers
    <3>2. CASE tail[l] # NULL
      BY <3>2 DEF QueuePush, LinkTypes
    <3> QED
      BY <3>1, <3>2
  <2>2. tail' \in [Lists -> Pointers] /\ tail'[o] = tail[o] /\ tail'[l] = i
    BY DEF QueuePush, LinkTypes, Pointers
  <2>3. size' \in [Lists -> Nat] /\ size'[o] = size[o] /\ size'[l] = size[l] + 1
    BY DEF QueuePush, LinkTypes
  <2> QED
    BY <2>1, <2>2, <2>3
<1>7. ChainOf(Append(s, i), head'[l], tail'[l], next', prev')
  <2>1. Pushed(i, head'[l], head[l], tail[l], next', next, prev', prev)
    BY <1>4, <1>5, <1>6 DEF Pushed
  <2>3. ChainOf(Append(s, i), head'[l], i, next', prev')
    BY <1>1, <2>1, ChainPush
  <2> QED
    BY <1>6, <2>3
<1>8. \A k \in 1 .. Len(r) : next'[r[k]] = next[r[k]] /\ prev'[r[k]] = prev[r[k]]
  <2> SUFFICES ASSUME NEW k \in 1 .. Len(r)
               PROVE  next'[r[k]] = next[r[k]] /\ prev'[r[k]] = prev[r[k]]
    OBVIOUS
  <2>1. r[k] \in Items /\ r[k] # i
    BY <1>2
  <2>2. r[k] # tail[l]
    <3>1. CASE tail[l] = NULL
      BY <2>1, <3>1, NullAssumption
    <3>2. CASE tail[l] # NULL
      BY <1>3, <3>2 DEF Disjoint
    <3> QED
      BY <3>1, <3>2
  <2> QED
    BY <1>4, <1>5, <2>1, <2>2
<1>9. ChainOf(r, head'[o], tail'[o], next', prev')
  <2>1. ChainOf(r, head[o], tail[o], next', prev')
    BY <1>1, <1>8, ChainElsewhere, Zenon
  <2> QED
    BY <1>6, <2>1
<1>10. Len(Append(s, i)) = Len(s) + 1
  BY <1>1, AppendProperties DEF ChainOf
<1> QED
  BY <1>1, <1>4, <1>5, <1>6, <1>7, <1>9, <1>10 DEF Holds, LinkTypes

\* pthreads_queue_remove: the item is gone from its list, and the other list
\* does not notice.
LEMMA RemoveHolds ==
  ASSUME LinkTypes, NEW l \in Lists, NEW o \in Lists, o # l, NEW s, NEW r,
         Holds(l, s), Holds(o, r), Disjoint(s, r),
         NEW k \in 1 .. Len(s), QueueRemove(l, s[k])
  PROVE  LinkTypes' /\ Holds(l, RemoveAt(s, k))' /\ Holds(o, r)'
<1>1. ChainOf(s, head[l], tail[l], next, prev) /\ ChainOf(r, head[o], tail[o], next, prev)
      /\ size[l] = Len(s) /\ size[o] = Len(r)
  BY DEF Holds
<1>2. /\ Len(s) \in Nat /\ s \in Seq(Items)
      /\ \A m \in 1 .. Len(s) : s[m] \in Items /\ s[m] # NULL
      /\ Len(r) \in Nat /\ \A m \in 1 .. Len(r) : r[m] \in Items
  BY <1>1, ChainFacts
<1>3. PICK p, n, i : p = Before(s, k) /\ n = After(s, k) /\ i = s[k]
  OBVIOUS
<1>4. /\ k # 1 => k - 1 \in 1 .. Len(s) /\ k - 1 \in 1 .. Len(s) - 1 /\ (k - 1) + 1 = k
      /\ k # Len(s) => k + 1 \in 1 .. Len(s) /\ k \in 1 .. Len(s) - 1
      /\ 1 \in 1 .. Len(s) /\ Len(s) \in 1 .. Len(s) /\ Len(s) > 0
  BY <1>2
<1>5. /\ i \in Items /\ next[i] = n /\ prev[i] = p
      /\ p = NULL <=> k = 1
      /\ n = NULL <=> k = Len(s)
      /\ p # NULL => p \in Items /\ p = s[k - 1]
      /\ n # NULL => n \in Items /\ n = s[k + 1]
  <2>1. prev[i] = p /\ (p = NULL <=> k = 1) /\ (p # NULL => p \in Items /\ p = s[k - 1])
    BY <1>1, <1>2, <1>3, <1>4 DEF Before, ChainOf
  <2>2. next[i] = n /\ (n = NULL <=> k = Len(s)) /\ (n # NULL => n \in Items /\ n = s[k + 1])
    BY <1>1, <1>2, <1>3, <1>4 DEF After, ChainOf
  <2> QED
    BY <1>2, <1>3, <2>1, <2>2
<1>6. (head[l] = i <=> p = NULL) /\ (tail[l] = i <=> n = NULL)
  <2>1. /\ head[l] = s[1] /\ tail[l] = s[Len(s)]
        /\ \A a, b \in 1 .. Len(s) : s[a] = s[b] => a = b
    BY <1>1, <1>4 DEF ChainOf
  <2> QED
    BY <1>3, <1>4, <1>5, <2>1
<1>7. /\ next' \in [Items -> Pointers] /\ (p # NULL => next'[p] = n)
      /\ \A j \in Items : j # p => next'[j] = next[j]
      /\ prev' \in [Items -> Pointers] /\ (n # NULL => prev'[n] = p)
      /\ \A j \in Items : j # n => prev'[j] = prev[j]
      /\ head' = [head EXCEPT ![l] = IF p = NULL THEN n ELSE head[l]]
      /\ tail' = [tail EXCEPT ![l] = IF n = NULL THEN p ELSE tail[l]]
  <2>0. /\ next \in [Items -> Pointers] /\ prev \in [Items -> Pointers]
        /\ p \in Pointers /\ n \in Pointers
        /\ head = [head EXCEPT ![l] = head[l]] /\ tail = [tail EXCEPT ![l] = tail[l]]
    BY <1>5 DEF LinkTypes, Pointers
  <2>1. CASE p = NULL /\ n = NULL
    <3>1. /\ head' = [head EXCEPT ![l] = NULL] /\ tail' = [tail EXCEPT ![l] = NULL]
          /\ next' = next /\ prev' = prev
      BY <1>3, <1>6, <2>1 DEF QueueRemove
    <3> QED
      BY <2>0, <2>1, <3>1
  <2>2. CASE p = NULL /\ n # NULL
    <3>1. /\ head' = [head EXCEPT ![l] = n] /\ prev' = [prev EXCEPT ![n] = NULL]
          /\ next' = next /\ tail' = tail
      BY <1>3, <1>5, <1>6, <2>2 DEF QueueRemove
    <3> QED
      BY <1>5, <2>0, <2>2, <3>1
  <2>3. CASE p # NULL /\ n = NULL
    <3>1. /\ tail' = [tail EXCEPT ![l] = p] /\ next' = [next EXCEPT ![p] = NULL]
          /\ prev' = prev /\ head' = head
      BY <1>3, <1>5, <1>6, <2>3 DEF QueueRemove
    <3> QED
      BY <1>5, <2>0, <2>3, <3>1
  <2>4. CASE p # NULL /\ n # NULL
    <3>1. /\ prev' = [prev EXCEPT ![n] = p] /\ next' = [next EXCEPT ![p] = n]
          /\ head' = head /\ tail' = tail
      BY <1>3, <1>5, <1>6, <2>4 DEF QueueRemove
    <3> QED
      BY <1>5, <2>0, <2>4, <3>1
  <2> QED
    BY <2>1, <2>2, <2>3, <2>4
<1>8. /\ head' \in [Lists -> Pointers] /\ head'[o] = head[o]
      /\ head'[l] = (IF p = NULL THEN n ELSE head[l])
      /\ tail' \in [Lists -> Pointers] /\ tail'[o] = tail[o]
      /\ tail'[l] = (IF n = NULL THEN p ELSE tail[l])
  <2>1. /\ head \in [Lists -> Pointers] /\ tail \in [Lists -> Pointers]
        /\ p \in Pointers /\ n \in Pointers /\ head[l] \in Pointers /\ tail[l] \in Pointers
    BY <1>5 DEF LinkTypes, Pointers
  <2> QED
    BY <1>7, <2>1
<1>9. size' \in [Lists -> Nat] /\ size'[o] = size[o] /\ size'[l] = Len(s) - 1
  <2>1. size' = [size EXCEPT ![l] = size[l] - 1] /\ size[l] - 1 \in Nat
    BY <1>1, <1>2, <1>4 DEF QueueRemove
  <2> QED
    BY <1>1, <2>1 DEF LinkTypes
<1>10. ChainOf(RemoveAt(s, k), head'[l], tail'[l], next', prev')
  <2>1. Removed(p, n, head'[l], head[l], tail'[l], tail[l], next', next, prev', prev)
    BY <1>7, <1>8 DEF Removed
  <2>2. Removed(Before(s, k), After(s, k), head'[l], head[l], tail'[l], tail[l],
                next', next, prev', prev)
    BY <1>3, <2>1
  <2> QED
    BY <1>1, <2>2, ChainRemove
<1>11. \A m \in 1 .. Len(r) : next'[r[m]] = next[r[m]] /\ prev'[r[m]] = prev[r[m]]
  <2> SUFFICES ASSUME NEW m \in 1 .. Len(r)
               PROVE  next'[r[m]] = next[r[m]] /\ prev'[r[m]] = prev[r[m]]
    OBVIOUS
  <2>1. r[m] \in Items /\ \A j \in 1 .. Len(s) : s[j] # r[m]
    BY <1>2 DEF Disjoint
  <2>2. r[m] # p /\ r[m] # n
    BY <1>4, <1>5, <2>1, NullAssumption
  <2> QED
    BY <1>7, <2>1, <2>2
<1>12. ChainOf(r, head'[o], tail'[o], next', prev')
  <2>1. ChainOf(r, head[o], tail[o], next', prev')
    BY <1>1, <1>11, ChainElsewhere, Zenon
  <2> QED
    BY <1>8, <2>1
<1>13. Len(RemoveAt(s, k)) = Len(s) - 1
  BY <1>2, RemoveAtIs
<1> QED
  BY <1>1, <1>7, <1>8, <1>9, <1>10, <1>12, <1>13 DEF Holds, LinkTypes

-----------------------------------------------------------------------------
(* LinkedQueue: ListsSound and ImplementsTaskLists.                        *)

LEMMA ContentsIs ==
  ASSUME NEW l, NEW s
  PROVE  /\ Holds(l, s) => Contents(l) = s
         /\ Holds(l, s)' => Contents(l)' = s
<1>1. ASSUME Holds(l, s) PROVE Contents(l) = s
  <2>1. /\ s \in Seq(Items) /\ size[l] = Len(s) /\ (Len(s) > 0 => head[l] = s[1])
        /\ \A k \in 1 .. Len(s) - 1 : next[s[k]] = s[k + 1]
    BY <1>1 DEF Holds, ChainOf
  <2> QED
    BY <2>1, WalkIs DEF Contents
<1>2. ASSUME Holds(l, s)' PROVE Contents(l)' = s
  <2>1. /\ s \in Seq(Items) /\ size'[l] = Len(s) /\ (Len(s) > 0 => head'[l] = s[1])
        /\ \A k \in 1 .. Len(s) - 1 : next'[s[k]] = s[k + 1]
    BY <1>2 DEF Holds, ChainOf
  <2>2. Walk(head'[l], next', Len(s)) = s
    BY <2>1, WalkIs
  <2> QED
    BY <2>1, <2>2 DEF Contents
<1> QED
  BY <1>1, <1>2

LEMMA SetOfAppend ==
  ASSUME NEW s \in Seq(Items), NEW i \in Items
  PROVE  ToSet(Append(s, i)) = ToSet(s) \cup {i}
<1>1. Len(s) \in Nat /\ DOMAIN s = 1 .. Len(s)
  BY LenProperties
<1>2. PICK t : t = Append(s, i)
  OBVIOUS
<1>3. /\ t \in Seq(Items) /\ Len(t) = Len(s) + 1 /\ t[Len(s) + 1] = i
      /\ \A k \in 1 .. Len(s) : t[k] = s[k]
  BY <1>1, <1>2, AppendProperties
<1>4. DOMAIN t = 1 .. Len(s) + 1
  BY <1>3, LenProperties
<1>5. 1 .. Len(s) + 1 = (1 .. Len(s)) \cup {Len(s) + 1}
  BY <1>1
<1> QED
  BY <1>1, <1>2, <1>3, <1>4, <1>5 DEF ToSet

LEMMA SetOfRemoveAt ==
  ASSUME NEW s \in Seq(Items), \A i, j \in 1 .. Len(s) : s[i] = s[j] => i = j,
         NEW k \in 1 .. Len(s)
  PROVE  ToSet(RemoveAt(s, k)) = ToSet(s) \ {s[k]}
<1>1. Len(s) \in Nat /\ DOMAIN s = 1 .. Len(s) /\ k \in Nat
  BY LenProperties
<1>2. PICK t : t = RemoveAt(s, k)
  OBVIOUS
<1>3. /\ t \in Seq(Items) /\ Len(t) = Len(s) - 1
      /\ \A n \in 1 .. Len(s) - 1 : t[n] = IF n < k THEN s[n] ELSE s[n + 1]
  BY <1>2, RemoveAtIs
<1>4. DOMAIN t = 1 .. Len(s) - 1
  BY <1>3, LenProperties
<1>5. ASSUME NEW x \in ToSet(t) PROVE x \in ToSet(s) \ {s[k]}
  <2>1. PICK n \in 1 .. Len(s) - 1 : x = t[n]
    BY <1>4 DEF ToSet
  <2>2. PICK m \in 1 .. Len(s) : m # k /\ x = s[m]
    <3>1. CASE n < k
      BY <1>1, <1>3, <2>1, <3>1
    <3>2. CASE ~(n < k)
      <4>1. n + 1 \in 1 .. Len(s) /\ n + 1 # k
        BY <1>1, <3>2
      <4> QED
        BY <1>3, <2>1, <3>2, <4>1
    <3> QED
      BY <3>1, <3>2
  <2> QED
    BY <1>1, <2>2 DEF ToSet
<1>6. ASSUME NEW x \in ToSet(s) \ {s[k]} PROVE x \in ToSet(t)
  <2>1. PICK m \in 1 .. Len(s) : m # k /\ x = s[m]
    BY <1>1 DEF ToSet
  <2>2. CASE m < k
    <3>1. m \in 1 .. Len(s) - 1
      BY <1>1, <2>2
    <3> QED
      BY <1>3, <1>4, <2>1, <2>2, <3>1 DEF ToSet
  <2>3. CASE ~(m < k)
    <3>1. m - 1 \in 1 .. Len(s) - 1 /\ ~(m - 1 < k) /\ (m - 1) + 1 = m
      BY <1>1, <2>1, <2>3
    <3>2. t[m - 1] = s[m]
      BY <1>3, <3>1
    <3> QED
      BY <1>4, <2>1, <3>1, <3>2 DEF ToSet
  <2> QED
    BY <2>2, <2>3
<1> QED
  BY <1>2, <1>5, <1>6

\* The links hold the sequences q and g, which share no item with each other or
\* with running, and with it are all there is.
TheyAre(q, g) ==
  /\ Holds("queue", q) /\ Holds("gc", g) /\ Disjoint(q, g)
  /\ alive = ToSet(q) \cup ToSet(g) \cup ({running} \ {NULL})
  /\ running \notin ToSet(q) \cup ToSet(g)

\* A collector is called with an item, and unless it calls collect() again the
\* item is the first of gc.
FrameInv ==
  /\ frames \in Seq([item : Pointers, calling : BOOLEAN])
  /\ \A k \in 1 .. Len(frames) : frames[k].calling => frames[k].item # NULL
  /\ "reenter" \notin Habits =>
       Len(frames) <= 1 /\ (~freed /\ Len(frames) = 1 => frames[1].item = head["gc"])

QueueInv ==
  /\ LinkTypes /\ running \in Pointers /\ freed \in BOOLEAN
  /\ faults \subseteq {"dangling", "wrong item"}
  /\ "reenter" \notin Habits => faults = {}
  /\ FrameInv
  /\ freed => alive = {}
  /\ ~freed => \E q, g : TheyAre(q, g)

LEMMA TheyAreFacts ==
  ASSUME NEW q, NEW g, TheyAre(q, g)
  PROVE  /\ q \in Seq(Items) /\ Len(q) \in Nat /\ DOMAIN q = 1 .. Len(q)
         /\ g \in Seq(Items) /\ Len(g) \in Nat /\ DOMAIN g = 1 .. Len(g)
         /\ \A k \in 1 .. Len(q) : q[k] \in Items /\ q[k] \in ToSet(q)
         /\ \A k \in 1 .. Len(g) : g[k] \in Items /\ g[k] \in ToSet(g)
         /\ \A i, j \in 1 .. Len(q) : q[i] = q[j] => i = j
         /\ \A i, j \in 1 .. Len(g) : g[i] = g[j] => i = j
         /\ head["queue"] # NULL <=> Len(q) > 0
         /\ Len(q) > 0 => head["queue"] = q[1]
         /\ head["gc"] # NULL <=> Len(g) > 0
         /\ Len(g) > 0 => head["gc"] = g[1]
         /\ Disjoint(q, g) /\ Disjoint(g, q)
         /\ ToSet(q) \cap ToSet(g) = {}
         /\ ToSet(q) \subseteq Items /\ ToSet(g) \subseteq Items
<1>1. ChainOf(q, head["queue"], tail["queue"], next, prev)
      /\ ChainOf(g, head["gc"], tail["gc"], next, prev)
      /\ Disjoint(q, g)
  BY DEF TheyAre, Holds
<1>2. /\ q \in Seq(Items) /\ Len(q) \in Nat /\ DOMAIN q = 1 .. Len(q)
      /\ g \in Seq(Items) /\ Len(g) \in Nat /\ DOMAIN g = 1 .. Len(g)
      /\ \A k \in 1 .. Len(q) : q[k] \in Items
      /\ \A k \in 1 .. Len(g) : g[k] \in Items
      /\ head["queue"] = NULL <=> Len(q) = 0
      /\ head["gc"] = NULL <=> Len(g) = 0
  BY <1>1, ChainFacts
<1>3. /\ \A i, j \in 1 .. Len(q) : q[i] = q[j] => i = j
      /\ \A i, j \in 1 .. Len(g) : g[i] = g[j] => i = j
      /\ Len(q) > 0 => head["queue"] = q[1]
      /\ Len(g) > 0 => head["gc"] = g[1]
  BY <1>1 DEF ChainOf
<1>4. /\ head["queue"] # NULL <=> Len(q) > 0
      /\ head["gc"] # NULL <=> Len(g) > 0
  BY <1>2
<1>5. /\ Disjoint(g, q) /\ ToSet(q) \cap ToSet(g) = {}
      /\ ToSet(q) \subseteq Items /\ ToSet(g) \subseteq Items
      /\ \A k \in 1 .. Len(q) : q[k] \in ToSet(q)
      /\ \A k \in 1 .. Len(g) : g[k] \in ToSet(g)
  BY <1>1, <1>2 DEF Disjoint, ToSet
<1> QED
  BY <1>1, <1>2, <1>3, <1>4, <1>5

\* What is known before a step, and after it.
HoldNow(q, g) == LinkTypes /\ running \in Pointers /\ TheyAre(q, g)

LEMMA AddTaskHolds ==
  ASSUME NEW q, NEW g, HoldNow(q, g), NEW i \in Items, AddTask(i)
  PROVE  HoldNow(Append(q, i), g)' /\ head'["gc"] = head["gc"]
<1> USE DEF Lists
<1>1. LinkTypes /\ running \in Pointers /\ TheyAre(q, g)
  BY DEF HoldNow
<1>2. /\ Holds("queue", q) /\ Holds("gc", g) /\ Disjoint(q, g)
      /\ alive = ToSet(q) \cup ToSet(g) \cup ({running} \ {NULL})
      /\ running \notin ToSet(q) \cup ToSet(g)
  BY <1>1 DEF TheyAre
<1>3. /\ q \in Seq(Items) /\ Len(q) \in Nat /\ g \in Seq(Items)
      /\ \A k \in 1 .. Len(q) : q[k] \in Items /\ q[k] \in ToSet(q)
      /\ \A k \in 1 .. Len(g) : g[k] \in Items /\ g[k] \in ToSet(g)
  BY <1>1, TheyAreFacts
<1>4. i \notin alive /\ QueuePush("queue", i) /\ alive' = alive \cup {i} /\ running' = running
  BY DEF AddTask
<1>5. (\A k \in 1 .. Len(q) : q[k] # i) /\ (\A k \in 1 .. Len(g) : g[k] # i)
  BY <1>2, <1>3, <1>4
<1>6. LinkTypes' /\ Holds("queue", Append(q, i))' /\ Holds("gc", g)'
  BY <1>1, <1>2, <1>4, <1>5, PushHolds
<1>7. ToSet(Append(q, i)) = ToSet(q) \cup {i}
  BY <1>3, SetOfAppend
<1>8. Disjoint(Append(q, i), g)
  <2>1. PICK t : t = Append(q, i)
    OBVIOUS
  <2>2. Len(t) = Len(q) + 1 /\ t[Len(q) + 1] = i /\ \A k \in 1 .. Len(q) : t[k] = q[k]
    BY <1>3, <2>1, AppendProperties
  <2>3. \A k \in 1 .. Len(t) : k \in 1 .. Len(q) \/ k = Len(q) + 1
    BY <1>3, <2>2
  <2>4. Disjoint(t, g)
    BY <1>2, <1>5, <2>2, <2>3 DEF Disjoint
  <2> QED
    BY <2>1, <2>4
<1>9. /\ alive' = ToSet(Append(q, i)) \cup ToSet(g) \cup ({running'} \ {NULL})
      /\ running' \notin ToSet(Append(q, i)) \cup ToSet(g)
  BY <1>2, <1>4, <1>7, NullAssumption
<1>10. head'["gc"] = head["gc"]
  BY <1>1, <1>4 DEF QueuePush, LinkTypes
<1> QED
  BY <1>1, <1>4, <1>6, <1>8, <1>9, <1>10 DEF HoldNow, TheyAre

\* What is left of two sequences that share no item.
LEMMA RemoveDisjoint ==
  ASSUME NEW q, NEW g, NEW k \in 1 .. Len(q), q \in Seq(Items), Disjoint(q, g)
  PROVE  Disjoint(RemoveAt(q, k), g)
<1>1. Len(q) \in Nat
  BY LenProperties
<1>2. PICK t : t = RemoveAt(q, k)
  OBVIOUS
<1>3. /\ Len(t) = Len(q) - 1
      /\ \A n \in 1 .. Len(q) - 1 : t[n] = IF n < k THEN q[n] ELSE q[n + 1]
  BY <1>2, RemoveAtIs
<1>4. ASSUME NEW n \in 1 .. Len(t) PROVE \E m \in 1 .. Len(q) : t[n] = q[m]
  <2>1. n \in 1 .. Len(q) /\ n + 1 \in 1 .. Len(q) /\ n \in 1 .. Len(q) - 1
    BY <1>1, <1>3
  <2> QED
    BY <1>3, <2>1
<1>5. Disjoint(t, g)
  BY <1>4 DEF Disjoint
<1> QED
  BY <1>2, <1>5

\* An item leaves the list of tasks.
LEMMA TaskLeaves ==
  ASSUME NEW q, NEW g, HoldNow(q, g), NEW k \in 1 .. Len(q), QueueRemove("queue", q[k])
  PROVE  /\ LinkTypes' /\ Holds("queue", RemoveAt(q, k))' /\ Holds("gc", g)'
         /\ Disjoint(RemoveAt(q, k), g) /\ ToSet(RemoveAt(q, k)) = ToSet(q) \ {q[k]}
         /\ q[k] \in Items /\ q[k] \in alive /\ q[k] \notin ToSet(g) /\ q[k] # running
         /\ head'["gc"] = head["gc"]
<1> USE DEF Lists
<1>1. LinkTypes /\ running \in Pointers /\ TheyAre(q, g)
  BY DEF HoldNow
<1>2. /\ Holds("queue", q) /\ Holds("gc", g) /\ Disjoint(q, g)
      /\ alive = ToSet(q) \cup ToSet(g) \cup ({running} \ {NULL})
      /\ running \notin ToSet(q) \cup ToSet(g)
  BY <1>1 DEF TheyAre
<1>3. /\ q \in Seq(Items) /\ \A n \in 1 .. Len(q) : q[n] \in Items /\ q[n] \in ToSet(q)
      /\ \A i, j \in 1 .. Len(q) : q[i] = q[j] => i = j
      /\ ToSet(q) \cap ToSet(g) = {}
  BY <1>1, TheyAreFacts
<1>4. LinkTypes' /\ Holds("queue", RemoveAt(q, k))' /\ Holds("gc", g)'
  BY <1>1, <1>2, RemoveHolds
<1>5. Disjoint(RemoveAt(q, k), g)
  BY <1>2, <1>3, RemoveDisjoint
<1>6. ToSet(RemoveAt(q, k)) = ToSet(q) \ {q[k]}
  BY <1>3, SetOfRemoveAt
<1>7. head'["gc"] = head["gc"]
  BY <1>1 DEF QueueRemove, LinkTypes
<1> QED
  BY <1>2, <1>3, <1>4, <1>5, <1>6, <1>7

LEMMA UnstackHolds ==
  ASSUME NEW q, NEW g, HoldNow(q, g), NEW k \in 1 .. Len(q), QueueRemove("queue", q[k]),
         alive' = alive \ {q[k]}, running' = running
  PROVE  HoldNow(RemoveAt(q, k), g)' /\ head'["gc"] = head["gc"]
<1>1. running \in Pointers
      /\ alive = ToSet(q) \cup ToSet(g) \cup ({running} \ {NULL})
      /\ running \notin ToSet(q) \cup ToSet(g)
  BY DEF HoldNow, TheyAre
<1>2. PICK t, i : t = RemoveAt(q, k) /\ i = q[k]
  OBVIOUS
<1>3. /\ LinkTypes' /\ Holds("queue", t)' /\ Holds("gc", g)'
      /\ Disjoint(t, g) /\ ToSet(t) = ToSet(q) \ {i}
      /\ i \notin ToSet(g) /\ i # running /\ head'["gc"] = head["gc"]
  BY <1>2, TaskLeaves
<1>4. /\ alive' = ToSet(t) \cup ToSet(g) \cup ({running'} \ {NULL})
      /\ running' \notin ToSet(t) \cup ToSet(g)
  BY <1>1, <1>2, <1>3
<1>5. HoldNow(t, g)'
  BY <1>1, <1>3, <1>4 DEF HoldNow, TheyAre
<1> QED
  BY <1>2, <1>3, <1>5

LEMMA TakeHolds ==
  ASSUME NEW q, NEW g, HoldNow(q, g), Len(q) > 0, QueueRemove("queue", q[1]),
         running = NULL, alive' = alive, running' = q[1]
  PROVE  HoldNow(RemoveAt(q, 1), g)' /\ head'["gc"] = head["gc"]
<1>1. TheyAre(q, g)
      /\ alive = ToSet(q) \cup ToSet(g) \cup ({running} \ {NULL})
      /\ running \notin ToSet(q) \cup ToSet(g)
  BY DEF HoldNow, TheyAre
<1>2. Len(q) \in Nat
  BY <1>1, TheyAreFacts
<1>3. 1 \in 1 .. Len(q)
  BY <1>2
<1>4. PICK t, i : t = RemoveAt(q, 1) /\ i = q[1]
  OBVIOUS
<1>5. /\ LinkTypes' /\ Holds("queue", t)' /\ Holds("gc", g)'
      /\ Disjoint(t, g) /\ ToSet(t) = ToSet(q) \ {i}
      /\ i \in Items /\ i \in alive /\ i \notin ToSet(g) /\ i # running /\ head'["gc"] = head["gc"]
  BY <1>3, <1>4, TaskLeaves
<1>6. /\ alive' = ToSet(t) \cup ToSet(g) \cup ({running'} \ {NULL})
      /\ running' \notin ToSet(t) \cup ToSet(g) /\ running' \in Pointers
  BY <1>1, <1>4, <1>5, NullAssumption DEF Pointers
<1>7. HoldNow(t, g)'
  BY <1>5, <1>6 DEF HoldNow, TheyAre
<1> QED
  BY <1>4, <1>5, <1>7

LEMMA AddGarbageHolds ==
  ASSUME NEW q, NEW g, HoldNow(q, g), AddGarbage, NEW i, i = running
  PROVE  HoldNow(q, Append(g, i))' /\ i \in Items
<1> USE DEF Lists
<1>1. LinkTypes /\ running \in Pointers /\ TheyAre(q, g)
  BY DEF HoldNow
<1>2. /\ Holds("queue", q) /\ Holds("gc", g) /\ Disjoint(q, g)
      /\ alive = ToSet(q) \cup ToSet(g) \cup ({running} \ {NULL})
      /\ running \notin ToSet(q) \cup ToSet(g)
  BY <1>1 DEF TheyAre
<1>3. /\ q \in Seq(Items) /\ Len(g) \in Nat /\ g \in Seq(Items)
      /\ \A k \in 1 .. Len(q) : q[k] \in Items /\ q[k] \in ToSet(q)
      /\ \A k \in 1 .. Len(g) : g[k] \in Items /\ g[k] \in ToSet(g)
      /\ Disjoint(g, q) /\ ToSet(q) \subseteq Items /\ ToSet(g) \subseteq Items
  BY <1>1, TheyAreFacts
<1>5. i \in Items /\ QueuePush("gc", i) /\ alive' = alive /\ running' = NULL
  BY <1>1 DEF AddGarbage, Pointers
<1>6. (\A k \in 1 .. Len(q) : q[k] # i) /\ (\A k \in 1 .. Len(g) : g[k] # i)
  BY <1>2, <1>3
<1>7. LinkTypes' /\ Holds("gc", Append(g, i))' /\ Holds("queue", q)'
  BY <1>1, <1>2, <1>3, <1>5, <1>6, PushHolds
<1>8. PICK t : t = Append(g, i)
  OBVIOUS
<1>9. ToSet(t) = ToSet(g) \cup {i}
  BY <1>3, <1>5, <1>8, SetOfAppend
<1>10. Disjoint(q, t)
  <2>1. Len(t) = Len(g) + 1 /\ t[Len(g) + 1] = i /\ \A k \in 1 .. Len(g) : t[k] = g[k]
    BY <1>3, <1>5, <1>8, AppendProperties
  <2>2. \A k \in 1 .. Len(t) : k \in 1 .. Len(g) \/ k = Len(g) + 1
    BY <1>3, <2>1
  <2> QED
    BY <1>2, <1>6, <2>1, <2>2 DEF Disjoint
<1>11. /\ alive' = ToSet(q) \cup ToSet(t) \cup ({running'} \ {NULL})
       /\ running' \notin ToSet(q) \cup ToSet(t) /\ running' \in Pointers
  BY <1>2, <1>3, <1>5, <1>9, NullAssumption DEF Pointers
<1>12. HoldNow(q, t)'
  BY <1>7, <1>8, <1>11, <1>10 DEF HoldNow, TheyAre
<1> QED
  BY <1>5, <1>8, <1>12

\* The first item of gc is removed, and the one after it is now the first.
LEMMA CollectHolds ==
  ASSUME NEW q, NEW g, HoldNow(q, g), Len(g) > 0, QueueRemove("gc", g[1]),
         alive' = alive \ {g[1]}, running' = running
  PROVE  HoldNow(q, RemoveAt(g, 1))' /\ head'["gc"] = next[g[1]]
<1> USE DEF Lists
<1>1. LinkTypes /\ running \in Pointers /\ TheyAre(q, g)
  BY DEF HoldNow
<1>2. /\ Holds("queue", q) /\ Holds("gc", g) /\ Disjoint(q, g)
      /\ alive = ToSet(q) \cup ToSet(g) \cup ({running} \ {NULL})
      /\ running \notin ToSet(q) \cup ToSet(g)
  BY <1>1 DEF TheyAre
<1>3. /\ Len(g) \in Nat /\ g \in Seq(Items) /\ head["gc"] = g[1]
      /\ \A k \in 1 .. Len(g) : g[k] \in Items /\ g[k] \in ToSet(g)
      /\ \A i, j \in 1 .. Len(g) : g[i] = g[j] => i = j
      /\ Disjoint(g, q) /\ ToSet(q) \cap ToSet(g) = {}
  BY <1>1, TheyAreFacts
<1>4. 1 \in 1 .. Len(g)
  BY <1>3
<1>5. PICK t, i : t = RemoveAt(g, 1) /\ i = g[1]
  OBVIOUS
<1>6. LinkTypes' /\ Holds("gc", t)' /\ Holds("queue", q)'
  BY <1>1, <1>2, <1>3, <1>4, <1>5, RemoveHolds
<1>7. Disjoint(q, t)
  <2>1. Disjoint(t, q)
    BY <1>3, <1>4, <1>5, RemoveDisjoint
  <2> QED
    BY <2>1 DEF Disjoint
<1>8. ToSet(t) = ToSet(g) \ {i}
  BY <1>3, <1>4, <1>5, SetOfRemoveAt
<1>9. /\ alive' = ToSet(q) \cup ToSet(t) \cup ({running'} \ {NULL})
      /\ running' \notin ToSet(q) \cup ToSet(t)
  BY <1>2, <1>3, <1>4, <1>5, <1>8
<1>10. HoldNow(q, t)'
  BY <1>1, <1>6, <1>7, <1>9 DEF HoldNow, TheyAre
<1>11. head'["gc"] = next[i]
  <2>1. head["gc"] = i /\ QueueRemove("gc", i) /\ head \in [Lists -> Pointers]
    BY <1>1, <1>3, <1>5 DEF LinkTypes
  <2>2. CASE tail["gc"] = i
    <3>1. head' = [head EXCEPT !["gc"] = NULL]
      BY <2>1, <2>2 DEF QueueRemove
    <3>2. i = g[Len(g)] /\ next[i] = NULL
      <4>1. Len(g) > 0 => tail["gc"] = g[Len(g)] /\ next[g[Len(g)]] = NULL
        BY <1>2 DEF Holds, ChainOf
      <4> QED
        BY <2>2, <4>1
    <3> QED
      BY <2>1, <3>1, <3>2
  <2>3. CASE tail["gc"] # i
    <3>1. head' = [head EXCEPT !["gc"] = next[i]]
      BY <2>1, <2>3 DEF QueueRemove
    <3> QED
      BY <2>1, <3>1
  <2> QED
    BY <2>2, <2>3
<1> QED
  BY <1>5, <1>10, <1>11

LEMMA HoldsStays ==
  ASSUME NEW q, NEW g, HoldNow(q, g), alive' = alive, linkVars' = linkVars, running' = running
  PROVE  HoldNow(q, g)' /\ head'["gc"] = head["gc"]
  BY DEF HoldNow, TheyAre, Holds, LinkTypes, linkVars

LEMMA FramesStay ==
  ASSUME FrameInv, frames' = frames, freed' = freed,
         frames = << >> \/ head'["gc"] = head["gc"]
  PROVE  FrameInv'
<1>1. CASE head'["gc"] = head["gc"]
  BY <1>1 DEF FrameInv
<1>2. CASE frames = << >>
  BY <1>2 DEF FrameInv
<1> QED
  BY <1>1, <1>2

Frame == [item : Pointers, calling : BOOLEAN]

LEMMA FrontIs ==
  ASSUME NEW s \in Seq(Frame), s # << >>
  PROVE  /\ Front(s) \in Seq(Frame) /\ Len(Front(s)) = Len(s) - 1
         /\ \A k \in 1 .. Len(s) - 1 : Front(s)[k] = s[k]
         /\ Len(s) \in Nat \ {0} /\ Last(s) = s[Len(s)] /\ Last(s) \in Frame
<1>1. Len(s) \in Nat \ {0} /\ Last(s) = s[Len(s)]
  BY EmptySeq, LenProperties DEF Last
<1>2. Last(s) \in Frame
  BY <1>1, ElementOfSeq
<1>3. Front(s) \in Seq(Frame) /\ Len(Front(s)) = Len(s) - 1
      /\ \A k \in 1 .. Len(s) - 1 : Front(s)[k] = s[k]
  <2>1. 1 \in Int /\ Len(s) - 1 \in Int /\ \A k \in 1 .. Len(s) - 1 : k \in 1 .. Len(s)
    BY <1>1
  <2>2. \A k \in 1 .. Len(s) - 1 : s[k] \in Frame
    BY <2>1, ElementOfSeq
  <2>3. PICK t : t = SubSeq(s, 1, Len(s) - 1)
    OBVIOUS
  <2>4. /\ t \in Seq(Frame) /\ Len(t) = (IF 1 <= Len(s) - 1 THEN (Len(s) - 1) - 1 + 1 ELSE 0)
        /\ \A k \in 1 .. (Len(s) - 1) - 1 + 1 : t[k] = s[1 + k - 1]
    BY <2>1, <2>2, <2>3, SubSeqProperties
  <2>5. Front(s) = t
    BY <2>3 DEF Front
  <2> QED
    BY <1>1, <2>4, <2>5
<1> QED
  BY <1>1, <1>2, <1>3

\* The innermost frame is replaced.
LEMMA TopReplaced ==
  ASSUME FrameInv, Collecting, NEW f \in Frame, SetTop(f), f.calling => f.item # NULL,
         "reenter" \notin Habits => f.item = head'["gc"]
  PROVE  FrameInv'
<1>1. /\ frames \in Seq(Frame) /\ frames # << >>
      /\ \A k \in 1 .. Len(frames) : frames[k].calling => frames[k].item # NULL
      /\ "reenter" \notin Habits => Len(frames) <= 1
  BY DEF FrameInv, Frame, Collecting
<1>2. PICK s : s = Front(frames)
  OBVIOUS
<1>3. /\ s \in Seq(Frame) /\ Len(s) = Len(frames) - 1
      /\ \A k \in 1 .. Len(frames) - 1 : s[k] = frames[k]
      /\ Len(frames) \in Nat \ {0}
  BY <1>1, <1>2, FrontIs
<1>4. frames' = Append(s, f)
  BY <1>2 DEF SetTop
<1>5. PICK t : t = Append(s, f)
  OBVIOUS
<1>6. /\ t \in Seq(Frame) /\ Len(t) = Len(frames) /\ t[Len(frames)] = f
      /\ \A k \in 1 .. Len(frames) - 1 : t[k] = frames[k]
  <2>1. /\ t \in Seq(Frame) /\ Len(t) = Len(s) + 1 /\ t[Len(s) + 1] = f
        /\ \A k \in 1 .. Len(s) : t[k] = s[k]
    BY <1>3, <1>5, AppendProperties
  <2> QED
    BY <1>3, <2>1
<1>7. \A k \in 1 .. Len(t) : t[k].calling => t[k].item # NULL
  <2> SUFFICES ASSUME NEW k \in 1 .. Len(t), t[k].calling PROVE t[k].item # NULL
    OBVIOUS
  <2>1. CASE k = Len(frames)
    BY <1>6, <2>1
  <2>2. CASE k # Len(frames)
    <3>1. k \in 1 .. Len(frames) - 1 /\ k \in 1 .. Len(frames)
      BY <1>3, <1>6, <2>2
    <3> QED
      BY <1>1, <1>6, <3>1
  <2> QED
    BY <2>1, <2>2
<1>8. frames' = t
  BY <1>4, <1>5
<1> QED
  BY <1>1, <1>3, <1>6, <1>7, <1>8 DEF FrameInv, Frame

\* How a step changes the sequences q and g, into p and h.
SeqStep(q, g, p, h) ==
  \/ p = q /\ h = g /\ running' = running
  \/ (\E i \in Items : p = Append(q, i)) /\ h = g /\ running' = running
  \/ (\E k \in 1 .. Len(q) : p = RemoveAt(q, k)) /\ h = g /\ running' = running
  \/ Len(q) > 0 /\ running = NULL /\ running' = q[1] /\ p = RemoveAt(q, 1) /\ h = g
  \/ running # NULL /\ running' = NULL /\ p = q /\ h = Append(g, running)
  \/ Len(g) > 0 /\ p = q /\ h = RemoveAt(g, 1) /\ running' = running

\* The same lists, or others that one step makes of them.
SeqNext(q, g) ==
  \/ freed' /\ running = NULL /\ running' = NULL
  \/ ~freed' /\ \E p, h : TheyAre(p, h)' /\ SeqStep(q, g, p, h)

LEMMA QueueInvInit == Init => QueueInv
<1> SUFFICES ASSUME Init PROVE QueueInv
  OBVIOUS
<1> USE DEF Lists
<1>1. LinkTypes
  BY DEF Init, LinkTypes, Pointers
<1>2. << >> \in Seq(Items) /\ Len(<< >>) = 0 /\ << >> \in Seq([item : Pointers, calling : BOOLEAN])
  BY EmptySeq
<1>3. Holds("queue", << >>) /\ Holds("gc", << >>)
  BY <1>2 DEF Init, Holds, ChainOf
<1>4. ToSet(<< >>) = {}
  BY DEF ToSet
<1>5. TheyAre(<< >>, << >>)
  BY <1>2, <1>3, <1>4 DEF Init, TheyAre, Disjoint
<1>6. FrameInv
  BY <1>2 DEF Init, FrameInv
<1> QED
  BY <1>1, <1>5, <1>6 DEF Init, QueueInv, Pointers

\* The parts of QueueInv, with the lists named.
LEMMA QueueInvIntro ==
  ASSUME NEW q, NEW g, NEW p, NEW h,
         HoldNow(p, h)', FrameInv', ~freed', freed' \in BOOLEAN,
         faults' \subseteq {"dangling", "wrong item"}, "reenter" \notin Habits => faults' = {},
         SeqStep(q, g, p, h)
  PROVE  QueueInv' /\ SeqNext(q, g)
<1>1. LinkTypes' /\ (running \in Pointers)' /\ TheyAre(p, h)'
  BY DEF HoldNow
<1>2. \E x, y : TheyAre(x, y)'
  BY <1>1
<1>3. SeqNext(q, g)
  BY <1>1 DEF SeqNext
<1>4. QueueInv'
  BY <1>1, <1>2 DEF QueueInv
<1> QED
  BY <1>3, <1>4

\* A step that leaves the lists alone.
LEMMA QueueStays ==
  ASSUME NEW q, NEW g, HoldNow(q, g), alive' = alive, linkVars' = linkVars, running' = running,
         FrameInv', ~freed, freed \in BOOLEAN, freed' = freed,
         faults' \subseteq {"dangling", "wrong item"}, "reenter" \notin Habits => faults' = {}
  PROVE  QueueInv' /\ SeqNext(q, g)
<1>1. HoldNow(q, g)'
  BY HoldsStays
<1>2. SeqStep(q, g, q, g)
  BY DEF SeqStep
<1> QED
  BY <1>1, <1>2, QueueInvIntro

LEMMA QueueStep ==
  ASSUME QueueInv, ~freed, NEW q, NEW g, TheyAre(q, g), Next
  PROVE  QueueInv' /\ SeqNext(q, g)
<1>1. /\ LinkTypes /\ running \in Pointers /\ freed \in BOOLEAN
      /\ faults \subseteq {"dangling", "wrong item"}
      /\ "reenter" \notin Habits => faults = {}
      /\ FrameInv
  BY DEF QueueInv
<1>2. HoldNow(q, g)
  BY <1>1 DEF HoldNow
<1>3. /\ q \in Seq(Items) /\ Len(q) \in Nat /\ DOMAIN q = 1 .. Len(q)
      /\ g \in Seq(Items) /\ Len(g) \in Nat /\ DOMAIN g = 1 .. Len(g)
      /\ \A k \in 1 .. Len(g) : g[k] \in Items /\ g[k] \in ToSet(g)
      /\ head["queue"] # NULL <=> Len(q) > 0
      /\ Len(q) > 0 => head["queue"] = q[1]
      /\ head["gc"] # NULL <=> Len(g) > 0
      /\ Len(g) > 0 => head["gc"] = g[1]
  BY TheyAreFacts
<1>4. Contents("queue") = q /\ Contents("gc") = g
  BY ContentsIs DEF TheyAre
<1>5. ASSUME NEW i \in Items, AddTask(i) PROVE QueueInv' /\ SeqNext(q, g)
  <2>1. HoldNow(Append(q, i), g)' /\ head'["gc"] = head["gc"]
    BY <1>2, <1>5, AddTaskHolds
  <2>2. running' = running /\ frames' = frames /\ freed' = freed /\ faults' = faults
    BY <1>5 DEF AddTask
  <2>3. FrameInv'
    BY <1>1, <2>1, <2>2, FramesStay
  <2>4. SeqStep(q, g, Append(q, i), g)
    BY <2>2 DEF SeqStep
  <2> QED
    BY <1>1, <2>1, <2>2, <2>3, <2>4, QueueInvIntro
<1>6. ASSUME NEW k \in 1 .. Len(q), QueueRemove("queue", q[k]), alive' = alive \ {q[k]},
             UNCHANGED <<running, frames, freed, faults>>
      PROVE  QueueInv' /\ SeqNext(q, g)
  <2>1. HoldNow(RemoveAt(q, k), g)' /\ head'["gc"] = head["gc"]
    BY <1>2, <1>6, UnstackHolds
  <2>2. running' = running /\ frames' = frames /\ freed' = freed /\ faults' = faults
    BY <1>6
  <2>3. FrameInv'
    BY <1>1, <2>1, <2>2, FramesStay
  <2>4. SeqStep(q, g, RemoveAt(q, k), g)
    BY <2>2 DEF SeqStep
  <2> QED
    BY <1>1, <2>1, <2>2, <2>3, <2>4, QueueInvIntro
<1>7. ASSUME NEW i \in Items, RemoveAny(i) PROVE QueueInv' /\ SeqNext(q, g)
  <2>1. PICK k \in 1 .. Len(q) : i = q[k]
    BY <1>3, <1>4, <1>7 DEF RemoveAny, ToSet
  <2> QED
    BY <1>6, <1>7, <2>1 DEF RemoveAny
<1>8. CASE DequeueTask
  <2>1. 1 \in 1 .. Len(q) /\ head["queue"] = q[1]
    BY <1>3, <1>8 DEF DequeueTask
  <2> QED
    BY <1>6, <1>8, <2>1 DEF DequeueTask
<1>9. CASE NextTask
  <2>1. /\ Len(q) > 0 /\ running = NULL /\ running' = q[1] /\ QueueRemove("queue", q[1])
        /\ alive' = alive /\ frames' = frames /\ freed' = freed /\ faults' = faults
    BY <1>3, <1>9 DEF NextTask
  <2>2. HoldNow(RemoveAt(q, 1), g)' /\ head'["gc"] = head["gc"]
    BY <1>2, <2>1, TakeHolds
  <2>3. FrameInv'
    BY <1>1, <2>1, <2>2, FramesStay
  <2>4. SeqStep(q, g, RemoveAt(q, 1), g)
    BY <2>1 DEF SeqStep
  <2> QED
    BY <1>1, <2>1, <2>2, <2>3, <2>4, QueueInvIntro
<1>10. CASE AddGarbage
  <2>1. PICK i : i = running
    OBVIOUS
  <2>2. HoldNow(q, Append(g, i))'
    BY <1>2, <1>10, <2>1, AddGarbageHolds
  <2>3. /\ running # NULL /\ running' = NULL /\ frames = << >>
        /\ frames' = frames /\ freed' = freed /\ faults' = faults
    BY <1>10 DEF AddGarbage, Collecting
  <2>4. FrameInv'
    BY <1>1, <2>3, FramesStay
  <2>5. SeqStep(q, g, q, Append(g, i))
    BY <2>1, <2>3 DEF SeqStep
  <2> QED
    BY <1>1, <2>2, <2>3, <2>4, <2>5, QueueInvIntro
<1>11. CASE CollectBegin
  <2>1. /\ alive' = alive /\ linkVars' = linkVars /\ running' = running
        /\ freed' = freed /\ faults' = faults /\ head' = head
        /\ Len(frames) < (IF "reenter" \in Habits THEN 2 ELSE 1)
        /\ frames' = Append(frames, [item |-> head["gc"], calling |-> FALSE])
    BY <1>11 DEF CollectBegin, linkVars
  <2>2. PICK f : f = [item |-> head["gc"], calling |-> FALSE]
    OBVIOUS
  <2>3. f \in Frame /\ f.calling = FALSE /\ f.item = head["gc"]
    BY <1>1, <2>2 DEF Frame, LinkTypes, Lists
  <2>4. frames \in Seq(Frame) /\ \A k \in 1 .. Len(frames) : frames[k].calling => frames[k].item # NULL
    BY <1>1 DEF FrameInv, Frame
  <2>5. PICK t : t = Append(frames, f)
    OBVIOUS
  <2>6. /\ t \in Seq(Frame) /\ Len(t) = Len(frames) + 1 /\ t[Len(frames) + 1] = f
        /\ \A k \in 1 .. Len(frames) : t[k] = frames[k]
        /\ Len(frames) \in Nat
    BY <2>3, <2>4, <2>5, AppendProperties, LenProperties
  <2>7. \A k \in 1 .. Len(t) : t[k].calling => t[k].item # NULL
    <3>1. \A k \in 1 .. Len(t) : k \in 1 .. Len(frames) \/ k = Len(frames) + 1
      BY <2>6
    <3> QED
      BY <2>3, <2>4, <2>6, <3>1
  <2>8. "reenter" \notin Habits => Len(t) = 1 /\ t[1].item = head["gc"]
    BY <2>1, <2>3, <2>6
  <2>9. FrameInv'
    <3>1. frames' = t
      BY <2>1, <2>2, <2>5
    <3>2. /\ frames' \in Seq([item : Pointers, calling : BOOLEAN])
          /\ \A k \in 1 .. Len(frames') : frames'[k].calling => frames'[k].item # NULL
      BY <2>6, <2>7, <3>1 DEF Frame
    <3>3. "reenter" \notin Habits => Len(frames') = 1 /\ frames'[1].item = head'["gc"]
      BY <2>1, <2>8, <3>1
    <3>4. Len(frames') = 1 => Len(frames') <= 1
      OBVIOUS
    <3> QED
      BY <3>2, <3>3, <3>4, Zenon DEF FrameInv
  <2> QED
    BY <1>1, <1>2, <2>1, <2>9, QueueStays
<1>12. ASSUME Collecting
       PROVE  /\ Top \in Frame /\ (Top.calling => Top.item # NULL)
              /\ "reenter" \notin Habits => Top.item = head["gc"]
  <2>1. /\ frames \in Seq(Frame) /\ frames # << >>
        /\ \A k \in 1 .. Len(frames) : frames[k].calling => frames[k].item # NULL
        /\ "reenter" \notin Habits =>
             Len(frames) <= 1 /\ (~freed /\ Len(frames) = 1 => frames[1].item = head["gc"])
    BY <1>1, <1>12 DEF FrameInv, Frame, Collecting
  <2>2. Len(frames) \in Nat \ {0} /\ Top = frames[Len(frames)] /\ Top \in Frame
    BY <2>1, FrontIs DEF Top
  <2>3. Len(frames) \in 1 .. Len(frames)
    BY <2>2
  <2>4. Top.calling => Top.item # NULL
    BY <2>1, <2>2, <2>3
  <2>5. "reenter" \notin Habits => Len(frames) = 1
    <3>1. "reenter" \notin Habits => Len(frames) <= 1
      BY <2>1, Zenon
    <3>2. PICK n \in Nat \ {0} : n = Len(frames)
      BY <2>2
    <3>3. n <= 1 => n = 1
      OBVIOUS
    <3> QED
      BY <3>1, <3>2, <3>3, Zenon
  <2> QED
    BY <2>1, <2>2, <2>4, <2>5
<1>13. CASE CollectCall
  <2>1. /\ alive' = alive /\ linkVars' = linkVars /\ running' = running
        /\ freed' = freed /\ faults' = faults /\ head' = head
        /\ Collecting /\ Top.item # NULL
    BY <1>13 DEF CollectCall, linkVars
  <2>2. PICK f : f = [Top EXCEPT !.calling = TRUE]
    OBVIOUS
  <2>3. f \in Frame /\ f.item = Top.item
    BY <1>12, <2>1, <2>2 DEF Frame
  <2>4. SetTop(f)
    BY <1>13, <2>2 DEF CollectCall
  <2>5. FrameInv'
    BY <1>1, <1>12, <2>1, <2>3, <2>4, TopReplaced
  <2> QED
    BY <1>1, <1>2, <2>1, <2>5, QueueStays
<1>14. CASE CollectAccept
  <2>1. /\ Collecting /\ Top.calling /\ freed' = freed /\ running' = running
        /\ SetTop([item |-> next[Top.item], calling |-> FALSE])
        /\ faults' = (IF Top.item \in alive THEN {} ELSE {"dangling"})
                 \cup (IF head["gc"] \in {Top.item, NULL} THEN {} ELSE {"wrong item"})
    BY <1>14 DEF CollectAccept
  <2>2. Top.item \in Items /\ ("reenter" \notin Habits => Top.item = head["gc"])
    BY <1>12, <2>1 DEF Frame, Pointers
  <2>3. PICK f : f = [item |-> next[Top.item], calling |-> FALSE]
    OBVIOUS
  <2>4. f \in Frame /\ f.calling = FALSE /\ f.item = next[Top.item] /\ SetTop(f)
    BY <1>1, <2>1, <2>2, <2>3 DEF Frame, LinkTypes
  <2>5. faults' \subseteq {"dangling", "wrong item"}
    BY <2>1
  <2>6. "reenter" \notin Habits => Len(g) > 0 /\ Top.item = g[1] /\ g[1] \in alive
    <3>1. ASSUME "reenter" \notin Habits PROVE Len(g) > 0 /\ Top.item = g[1] /\ g[1] \in alive
      <4>1. Len(g) > 0 /\ Top.item = g[1]
        BY <1>3, <2>2, <3>1, NullAssumption
      <4>2. 1 \in 1 .. Len(g)
        BY <1>3, <4>1
      <4> QED
        BY <1>3, <4>1, <4>2 DEF TheyAre
    <3> QED
      BY <3>1
  <2>7. "reenter" \notin Habits => faults' = {}
    BY <1>3, <2>1, <2>2, <2>6
  <2>8. CASE Len(g) > 0
    <3>1. /\ QueueRemove("gc", g[1]) /\ alive' = alive \ {g[1]}
      BY <1>3, <1>14, <2>8 DEF CollectAccept
    <3>2. HoldNow(q, RemoveAt(g, 1))' /\ head'["gc"] = next[g[1]]
      BY <1>2, <2>1, <2>8, <3>1, CollectHolds
    <3>3. FrameInv'
      BY <1>1, <2>1, <2>4, <2>6, <3>2, TopReplaced
    <3>4. SeqStep(q, g, q, RemoveAt(g, 1))
      BY <2>1, <2>8 DEF SeqStep
    <3> QED
      BY <1>1, <2>1, <2>5, <2>7, <3>2, <3>3, <3>4, QueueInvIntro
  <2>9. CASE ~(Len(g) > 0)
    <3>1. alive' = alive /\ linkVars' = linkVars
      BY <1>3, <1>14, <2>9 DEF CollectAccept
    <3>2. FrameInv'
      BY <1>1, <2>1, <2>4, <2>6, <2>9, TopReplaced
    <3> QED
      BY <1>1, <1>2, <2>1, <2>5, <2>7, <3>1, <3>2, QueueStays
  <2> QED
    BY <2>8, <2>9
<1>15. CASE CollectEnd
  <2>1. /\ alive' = alive /\ linkVars' = linkVars /\ running' = running
        /\ freed' = freed /\ faults' = faults /\ head' = head
        /\ frames # << >> /\ frames' = Front(frames)
    BY <1>15 DEF CollectEnd, linkVars, Collecting
  <2>2. /\ frames \in Seq(Frame)
        /\ \A k \in 1 .. Len(frames) : frames[k].calling => frames[k].item # NULL
        /\ "reenter" \notin Habits => Len(frames) <= 1
    BY <1>1 DEF FrameInv, Frame
  <2>3. PICK t : t = Front(frames)
    OBVIOUS
  <2>4. /\ t \in Seq(Frame) /\ Len(t) = Len(frames) - 1
        /\ \A k \in 1 .. Len(frames) - 1 : t[k] = frames[k]
        /\ Len(frames) \in Nat \ {0}
    BY <2>1, <2>2, <2>3, FrontIs
  <2>5. \A k \in 1 .. Len(t) : k \in 1 .. Len(frames) - 1 /\ k \in 1 .. Len(frames)
    BY <2>4
  <2>6. \A k \in 1 .. Len(t) : t[k].calling => t[k].item # NULL
    BY <2>2, <2>4, <2>5
  <2>7. "reenter" \notin Habits => Len(t) = 0
    BY <2>2, <2>4
  <2>8. FrameInv'
    BY <2>1, <2>3, <2>4, <2>6, <2>7 DEF FrameInv, Frame
  <2> QED
    BY <1>1, <1>2, <2>1, <2>8, QueueStays
<1>16. CASE DataFree
  <2>1. /\ freed' = TRUE /\ running = NULL /\ running' = running /\ linkVars' = linkVars
        /\ frames = << >> /\ frames' = frames /\ faults' = faults
        /\ alive' = alive \ (ToSet(q) \cup ToSet(g))
    BY <1>4, <1>16 DEF DataFree, Collecting
  <2>2. alive' = {}
    BY <2>1 DEF TheyAre
  <2>3. FrameInv'
    BY <1>1, <2>1 DEF FrameInv
  <2>4. LinkTypes'
    BY <1>1, <2>1 DEF LinkTypes, linkVars
  <2> QED
    BY <1>1, <2>1, <2>2, <2>3, <2>4 DEF QueueInv, SeqNext
<1>17. CASE Ended
  <2>1. UNCHANGED vars
    BY <1>17 DEF Ended
  <2>2. /\ alive' = alive /\ linkVars' = linkVars /\ running' = running /\ frames' = frames
        /\ freed' = freed /\ faults' = faults /\ head' = head
    BY <2>1 DEF vars, linkVars
  <2>3. FrameInv'
    BY <1>1, <2>2, FramesStay
  <2> QED
    BY <1>1, <1>2, <2>2, <2>3, QueueStays
<1> QED
  BY <1>5, <1>7, <1>8, <1>9, <1>10, <1>11, <1>13, <1>14, <1>15, <1>16, <1>17 DEF Next

LEMMA FreedStays ==
  ASSUME QueueInv, freed, Next
  PROVE  UNCHANGED vars
<1>1. ~Usable
  BY DEF Usable
<1> QED
  BY <1>1 DEF Next, AddTask, RemoveAny, DequeueTask, NextTask, AddGarbage, CollectBegin,
              CollectCall, CollectAccept, CollectEnd, DataFree, Ended

LEMMA QueueInvStutter ==
  ASSUME QueueInv, UNCHANGED vars
  PROVE  QueueInv'
<1>1. /\ alive' = alive /\ linkVars' = linkVars /\ running' = running /\ frames' = frames
      /\ freed' = freed /\ faults' = faults /\ head' = head /\ next' = next /\ prev' = prev
      /\ tail' = tail /\ size' = size
  BY DEF vars, linkVars
<1>2. LinkTypes' /\ FrameInv'
  BY <1>1 DEF QueueInv, LinkTypes, FrameInv
<1>3. ASSUME NEW q, NEW g, TheyAre(q, g) PROVE TheyAre(q, g)'
  BY <1>1, <1>3 DEF TheyAre, Holds
<1>4. ~freed' => \E q, g : TheyAre(q, g)'
  BY <1>1, <1>3 DEF QueueInv
<1> QED
  BY <1>1, <1>2, <1>4 DEF QueueInv

LEMMA QueueInvNext ==
  ASSUME QueueInv, [Next]_vars
  PROVE  QueueInv'
<1>1. CASE UNCHANGED vars
  BY <1>1, QueueInvStutter
<1>2. CASE Next /\ freed
  BY <1>2, FreedStays, QueueInvStutter
<1>3. CASE Next /\ ~freed
  <2>1. PICK q, g : TheyAre(q, g)
    BY <1>3 DEF QueueInv
  <2> QED
    BY <1>3, <2>1, QueueStep
<1> QED
  BY <1>1, <1>2, <1>3

LEMMA ManyItems ==
  ASSUME NEW s \in Seq(Items), \A i, j \in 1 .. Len(s) : s[i] = s[j] => i = j
  PROVE  Cardinality(ToSet(s)) = Len(s)
<1>1. Len(s) \in Nat /\ DOMAIN s = 1 .. Len(s) /\ s \in [1 .. Len(s) -> Items]
  BY LenProperties
<1>2. s \in [1 .. Len(s) -> ToSet(s)] /\ \A t \in ToSet(s) : \E k \in 1 .. Len(s) : s[k] = t
  BY <1>1 DEF ToSet
<1>3. s \in Surjection(1 .. Len(s), ToSet(s))
  BY <1>2 DEF Surjection
<1>4. s \in Injection(1 .. Len(s), ToSet(s))
  BY <1>1, <1>2 DEF Injection, IsInjective
<1>5. 1 \in Int /\ Len(s) \in Int
  BY <1>1
<1>6. IsFiniteSet(1 .. Len(s)) /\ Cardinality(1 .. Len(s)) = IF 1 > Len(s) THEN 0 ELSE Len(s) - 1 + 1
  BY <1>5, FS_Interval
<1>7. Cardinality(1 .. Len(s)) = Len(s)
  BY <1>1, <1>6
<1>8. Cardinality(ToSet(s)) = Cardinality(1 .. Len(s))
  BY <1>3, <1>4, <1>6, FS_Surjection, Zenon
<1> QED
  BY <1>7, <1>8

LEMMA HeldIsSound ==
  ASSUME NEW l, NEW s, Holds(l, s), ToSet(s) \subseteq alive \ {running}
  PROVE  ListSound(l)
<1>1. Contents(l) = s
  BY ContentsIs
<1>2. ChainOf(s, head[l], tail[l], next, prev) /\ size[l] = Len(s)
  BY DEF Holds
<1>3. s \in Seq(Items) /\ Len(s) \in Nat
  BY <1>2, ChainFacts
<1>4. \A i, j \in 1 .. Len(s) : s[i] = s[j] => i = j
  BY <1>2 DEF ChainOf
<1>5. Cardinality(ToSet(s)) = Len(s)
  BY <1>3, <1>4, ManyItems
<1>6. CASE Len(s) = 0
  <2>1. size[l] = 0 /\ head[l] = NULL /\ tail[l] = NULL
    BY <1>2, <1>6 DEF ChainOf
  <2> QED
    BY <2>1 DEF ListSound
<1>7. CASE Len(s) # 0
  <2>1. /\ s[Len(s)] = tail[l] /\ next[tail[l]] = NULL /\ prev[head[l]] = NULL
        /\ \A k \in 1 .. Len(s) - 1 : prev[s[k + 1]] = s[k]
    <3>1. Len(s) > 0
      BY <1>3, <1>7
    <3>2. /\ head[l] = s[1] /\ prev[s[1]] = NULL
          /\ tail[l] = s[Len(s)] /\ next[s[Len(s)]] = NULL
          /\ \A k \in 1 .. Len(s) - 1 : prev[s[k + 1]] = s[k]
      BY <1>2, <3>1, Zenon DEF ChainOf
    <3> QED
      BY <3>2
  <2> QED
    BY <1>1, <1>2, <1>5, <1>7, <2>1 DEF ListSound
<1> QED
  BY <1>6, <1>7

LEMMA QueueInvSound == QueueInv => ListsSound
<1> SUFFICES ASSUME QueueInv PROVE ListsSound
  OBVIOUS
<1>1. /\ LinkTypes /\ running \in Pointers /\ freed \in BOOLEAN
      /\ faults \subseteq {"dangling", "wrong item"}
      /\ "reenter" \notin Habits => faults = {}
      /\ frames \in Seq([item : Pointers, calling : BOOLEAN])
  BY DEF QueueInv, FrameInv
<1>2. CASE freed
  <2>1. alive = {}
    BY <1>2 DEF QueueInv
  <2>2. TypeOK
    BY <1>1, <2>1 DEF TypeOK, LinkTypes
  <2> QED
    BY <1>1, <1>2, <2>1, <2>2 DEF ListsSound, NoLeak
<1>3. CASE ~freed
  <2>1. PICK q, g : TheyAre(q, g)
    BY <1>3 DEF QueueInv
  <2>2. /\ Holds("queue", q) /\ Holds("gc", g)
        /\ alive = ToSet(q) \cup ToSet(g) \cup ({running} \ {NULL})
        /\ running \notin ToSet(q) \cup ToSet(g)
    BY <2>1 DEF TheyAre
  <2>3. ToSet(q) \cap ToSet(g) = {} /\ ToSet(q) \subseteq Items /\ ToSet(g) \subseteq Items
    BY <2>1, TheyAreFacts
  <2>4. Contents("queue") = q /\ Contents("gc") = g
    BY <2>2, ContentsIs
  <2>5. alive \subseteq Items
    BY <1>1, <2>2, <2>3 DEF Pointers
  <2>6. TypeOK
    BY <1>1, <2>5 DEF TypeOK, LinkTypes
  <2>7. ListSound("queue") /\ ListSound("gc")
    BY <2>2, HeldIsSound
  <2>8. NoLeak
    BY <1>3, <2>2, <2>4 DEF NoLeak
  <2> QED
    BY <1>1, <2>3, <2>4, <2>6, <2>7, <2>8 DEF ListsSound, Lists
<1> QED
  BY <1>2, <1>3

\* For any number of items and any sequence of calls: both lists of a Worker read
\* the same forwards and backwards, have as many items as size says, share none,
\* lose none and hold none that has been freed, and without a nested collect()
\* pthreads_worker_collect_tasks removes the task that was accepted (queue.c,
\* worker.c).
THEOREM ListsAlwaysSound == Spec => []ListsSound
<1>1. Init => QueueInv
  BY QueueInvInit
<1>2. QueueInv /\ [Next]_vars => QueueInv'
  BY QueueInvNext
<1>3. QueueInv => ListsSound
  BY QueueInvSound
<1> QED
  BY <1>1, <1>2, <1>3, PTL DEF Spec

LEMMA TailRemoves ==
  ASSUME NEW s \in Seq(Items), Len(s) > 0
  PROVE  s # << >> /\ Head(s) = s[1] /\ Tail(s) = RemoveAt(s, 1)
<1>1. Len(s) \in Nat
  BY LenProperties
<1>2. 1 \in 1 .. Len(s)
  BY <1>1
<1>3. s # << >>
  BY EmptySeq
<1>4. PICK a, b : a = Tail(s) /\ b = RemoveAt(s, 1)
  OBVIOUS
<1>5. /\ a \in Seq(Items) /\ Len(a) = Len(s) - 1
      /\ \A i \in 1 .. Len(a) : a[i] = s[i + 1]
  BY <1>3, <1>4, HeadTailProperties
<1>6. /\ b \in Seq(Items) /\ Len(b) = Len(s) - 1
      /\ \A n \in 1 .. Len(s) - 1 : b[n] = IF n < 1 THEN s[n] ELSE s[n + 1]
  BY <1>2, <1>4, RemoveAtIs
<1>7. \A i \in 1 .. Len(a) : a[i] = b[i]
  BY <1>1, <1>5, <1>6
<1>8. a = b
  BY <1>5, <1>6, <1>7, SeqEqual
<1> QED
  BY <1>3, <1>4, <1>8, HeadTailProperties

LEMMA AppendFront ==
  ASSUME NEW s \in Seq(Items), NEW i \in Items
  PROVE  Append(s, i) # << >> /\ Front(Append(s, i)) = s
<1>1. Len(s) \in Nat
  BY LenProperties
<1>2. PICK t, a : t = Append(s, i) /\ a = SubSeq(t, 1, Len(t) - 1)
  OBVIOUS
<1>3. /\ t \in Seq(Items) /\ t # << >> /\ Len(t) = Len(s) + 1
      /\ \A k \in 1 .. Len(s) : t[k] = s[k]
  BY <1>2, AppendProperties
<1>4. 1 \in Int /\ Len(t) - 1 \in Int /\ \A k \in 1 .. Len(t) - 1 : k \in 1 .. Len(t)
  BY <1>1, <1>3
<1>5. \A k \in 1 .. Len(t) - 1 : t[k] \in Items
  BY <1>3, <1>4, ElementOfSeq
<1>6. /\ a \in Seq(Items) /\ Len(a) = (IF 1 <= Len(t) - 1 THEN (Len(t) - 1) - 1 + 1 ELSE 0)
      /\ \A k \in 1 .. (Len(t) - 1) - 1 + 1 : a[k] = t[1 + k - 1]
  BY <1>2, <1>3, <1>4, <1>5, SubSeqProperties
<1>7. Len(a) = Len(s) /\ \A k \in 1 .. Len(a) : a[k] = s[k]
  BY <1>1, <1>3, <1>6
<1>8. a = s
  BY <1>6, <1>7, SeqEqual
<1>9. Front(t) = a
  BY <1>2 DEF Front
<1> QED
  BY <1>2, <1>3, <1>8, <1>9

\* What the links stand for: nothing once the Worker's data has been freed.
QueueNow == IF freed THEN << >> ELSE Contents("queue")
GcNow == IF freed THEN << >> ELSE Contents("gc")

LEMMA QueueSimulates ==
  ASSUME QueueInv, [Next]_vars
  PROVE  [AsSequences!Next]_<<QueueNow, running, GcNow>>
<1> USE DEF QueueNow, GcNow
<1>1. ASSUME UNCHANGED vars PROVE UNCHANGED <<QueueNow, running, GcNow>>
  BY <1>1 DEF vars, linkVars, Contents
<1>2. CASE Next /\ freed
  BY <1>1, <1>2, FreedStays
<1>3. ASSUME Next, ~freed PROVE [AsSequences!Next]_<<QueueNow, running, GcNow>>
  <2>1. PICK q, g : TheyAre(q, g)
    BY <1>3 DEF QueueInv
  <2>2. /\ q \in Seq(Items) /\ Len(q) \in Nat /\ DOMAIN q = 1 .. Len(q)
        /\ g \in Seq(Items) /\ Len(g) \in Nat
    BY <2>1, TheyAreFacts
  <2>3. QueueNow = q /\ GcNow = g
    BY <1>3, <2>1, ContentsIs DEF TheyAre
  <2>4. SeqNext(q, g)
    BY <1>3, <2>1, QueueStep
  <2>5. CASE freed' /\ running = NULL /\ running' = NULL
    <3>1. QueueNow' = << >> /\ GcNow' = << >>
      BY <2>5
    <3> QED
      BY <2>5, <3>1 DEF AsSequences!Next, AsSequences!Free
  <2>6. ASSUME ~freed', NEW p, NEW h, TheyAre(p, h)', SeqStep(q, g, p, h)
        PROVE  [AsSequences!Next]_<<QueueNow, running, GcNow>>
    <3>1. QueueNow' = p /\ GcNow' = h
      BY <2>6, ContentsIs DEF TheyAre
    <3> HIDE DEF QueueNow, GcNow
    <3>2. CASE p = q /\ h = g /\ running' = running
      BY <2>3, <3>1, <3>2
    <3>3. ASSUME NEW i \in Items, p = Append(q, i), h = g, running' = running
          PROVE  AsSequences!Stack
      <4>1. p # << >> /\ Front(p) = q
        BY <2>2, <3>3, AppendFront
      <4>2. QueueNow' # << >> /\ Front(QueueNow') = QueueNow /\ GcNow' = GcNow
        BY <2>3, <3>1, <3>3, <4>1
      <4> QED
        BY <3>3, <4>2 DEF AsSequences!Stack, AsSequences!Front, Front, QueueNow, GcNow
    <3>4. ASSUME NEW k \in 1 .. Len(q), p = RemoveAt(q, k), h = g, running' = running
          PROVE  AsSequences!Unstack
      <4>1. k \in DOMAIN QueueNow /\ QueueNow' = RemoveAt(QueueNow, k) /\ GcNow' = GcNow
        BY <2>2, <2>3, <3>1, <3>4
      <4> QED
        BY <3>4, <4>1 DEF AsSequences!Unstack, AsSequences!RemoveAt, RemoveAt, QueueNow, GcNow
    <3>5. ASSUME Len(q) > 0, running = NULL, running' = q[1], p = RemoveAt(q, 1), h = g
          PROVE  AsSequences!Take
      <4>1. q # << >> /\ Head(q) = q[1] /\ Tail(q) = p
        BY <2>2, <3>5, TailRemoves
      <4>2. /\ QueueNow # << >> /\ running' = Head(QueueNow) /\ QueueNow' = Tail(QueueNow)
            /\ GcNow' = GcNow
        BY <2>3, <3>1, <3>5, <4>1
      <4> QED
        BY <3>5, <4>2 DEF AsSequences!Take, QueueNow, GcNow
    <3>6. ASSUME running # NULL, running' = NULL, p = q, h = Append(g, running)
          PROVE  AsSequences!Finish
      <4>1. GcNow' = Append(GcNow, running) /\ QueueNow' = QueueNow
        BY <2>3, <3>1, <3>6
      <4> QED
        BY <3>6, <4>1 DEF AsSequences!Finish, QueueNow, GcNow
    <3>7. ASSUME Len(g) > 0, p = q, h = RemoveAt(g, 1), running' = running
          PROVE  AsSequences!Collect
      <4>1. g # << >> /\ Tail(g) = h
        BY <2>2, <3>7, TailRemoves
      <4>2. GcNow # << >> /\ GcNow' = Tail(GcNow) /\ QueueNow' = QueueNow
        BY <2>3, <3>1, <3>7, <4>1
      <4> QED
        BY <3>7, <4>2 DEF AsSequences!Collect, QueueNow, GcNow
    <3> QED
      BY <2>6, <3>2, <3>3, <3>4, <3>5, <3>6, <3>7 DEF SeqStep, AsSequences!Next
  <2> QED
    BY <2>4, <2>5, <2>6 DEF SeqNext
<1> QED
  BY <1>1, <1>2, <1>3

\* The doubly linked lists of queue.c are, step by step, the two sequences of
\* TaskLists, which is how module Worker treats them: a push appends, a removal
\* takes out that item and keeps the order of the others, for any number of items
\* and whatever collectors do.
THEOREM ImplementsLists == Spec => ImplementsTaskLists
<1>1. Init => AsSequences!Init
  <2> SUFFICES ASSUME Init PROVE AsSequences!Init
    OBVIOUS
  <2>1. running = NULL /\ freed = FALSE /\ size["queue"] = 0 /\ size["gc"] = 0
    BY DEF Init, Lists
  <2>2. << >> \in Seq(Items) /\ Len(<< >>) = 0
    BY EmptySeq
  <2>3. Holds("queue", << >>) /\ Holds("gc", << >>)
    BY <2>2 DEF Init, Holds, ChainOf, Lists
  <2>4. Contents("queue") = << >> /\ Contents("gc") = << >>
    BY <2>3, ContentsIs
  <2> QED
    BY <2>1, <2>4 DEF AsSequences!Init
<1>2. Init => QueueInv
  BY QueueInvInit
<1>3. QueueInv /\ [Next]_vars => QueueInv'
  BY QueueInvNext
<1>4. QueueInv /\ [Next]_vars => [AsSequences!Next]_<<QueueNow, running, GcNow>>
  BY QueueSimulates
<1> QED
  BY <1>1, <1>2, <1>3, <1>4, PTL DEF Spec, ImplementsTaskLists, AsSequences!Spec, QueueNow, GcNow

=============================================================================

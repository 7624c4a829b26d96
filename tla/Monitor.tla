------------------------------- MODULE Monitor -------------------------------
(***************************************************************************)
(* ThreadedBase::wait, notify, notifyOne and synchronized over one object: *)
(* the recursive mutex, the condition variable and the arithmetic of the   *)
(* time-out.  Consumers wait inside synchronized() until a property is     *)
(* set, and give up when wait() returns false; a producer sets it and      *)
(* notifies.  The mutex and the condition variable are those of POSIX      *)
(* (external); a wait gives a recursive mutex up once, as glibc does.      *)
(***************************************************************************)
EXTENDS Integers, FiniteSets

CONSTANTS
  Consumers,   \* threads that wait
  Base,        \* microseconds in a second (1000000)
  Timeouts,    \* what consumers pass to wait(); 0 waits without limit
  MaxTime,     \* bound on the clock, in microseconds
  Depths       \* how often consumers may have locked the object when they wait

ASSUME BaseAssumption == Base \in Nat \ {0}
ASSUME TimeoutsAssumption == Timeouts \subseteq Int
ASSUME MaxTimeAssumption == MaxTime \in Nat
ASSUME DepthsAssumption == Depths \subseteq Nat \ {0}

VARIABLES
  notifyAll,  \* the producer calls notify(), not notifyOne()
  now,        \* the clock
  holder,     \* owner of monitor.mutex
  depth,      \* how often it is locked
  pc,         \* per consumer: out, in, blocked, woken, gone
  asked,      \* per consumer: the time-out of its wait
  since,      \* per consumer: when it began to wait
  spec,       \* per consumer: the struct timespec, in seconds and microseconds
  result,     \* per consumer: what wait() returned
  set,        \* the property the consumers wait for
  producer    \* the producer: idle, set (it has still to notify), done

waitVars == <<asked, since, spec, result>>
monitorVars == <<notifyAll, now, holder, depth, pc, waitVars, set, producer>>

None == "none"

ASSUME ConsumersAssumption == None \notin Consumers

\* C's division, which rounds towards zero.
Quot(a, b) == IF a >= 0 THEN a \div b ELSE -((-a) \div b)
Rem(a, b) == a - b * Quot(a, b)

\* Mutant: the microseconds may overflow into a second nobody adds.
TimespecUncarried(time, timeout) ==
  [sec |-> time \div Base + Quot(timeout, Base),
   usec |-> Rem((time % Base) + Rem(timeout, Base), Base)]

\* pthreads_monitor_wait: the time-out is added to the time of day.
Timespec(time, timeout) ==
  LET tv_sec == time \div Base
      tv_usec == time % Base
      sum == tv_usec + Rem(timeout, Base)
  IN [sec |-> tv_sec + Quot(timeout, Base) + Quot(sum, Base), usec |-> Rem(sum, Base)]

\* What pthread_cond_timedwait makes of it.
ValidTimespec(ts) == ts.usec >= 0 /\ ts.usec < Base
Micros(ts) == ts.sec * Base + ts.usec

MonitorTypeOK ==
  /\ notifyAll \in BOOLEAN
  /\ now \in 0 .. MaxTime
  /\ holder \in Consumers \cup {None}
  /\ depth \in Nat /\ (depth = 0 <=> holder = None)
  /\ pc \in [Consumers -> {"out", "in", "blocked", "woken", "gone"}]
  /\ \A c \in Consumers : asked[c] \in Timeouts \cup {0} /\ since[c] \in 0 .. MaxTime
  /\ \A c \in Consumers : asked[c] # 0 /\ pc[c] = "blocked" => ValidTimespec(spec[c])
  /\ result \in [Consumers -> BOOLEAN]
  /\ set \in BOOLEAN
  /\ producer \in {"idle", "set", "done"}

MonitorInit ==
  /\ notifyAll \in BOOLEAN
  /\ now = 0 /\ holder = None /\ depth = 0
  /\ pc = [c \in Consumers |-> "out"]
  /\ asked = [c \in Consumers |-> 0] /\ since = [c \in Consumers |-> 0]
  /\ spec = [c \in Consumers |-> [sec |-> 0, usec |-> 0]]
  /\ result = [c \in Consumers |-> TRUE]
  /\ set = FALSE /\ producer = "idle"

Goto(c, from, to) == pc[c] = from /\ pc' = [pc EXCEPT ![c] = to]

Tick ==
  /\ now < MaxTime /\ now' = now + 1
  /\ UNCHANGED <<holder, depth, pc, waitVars, set, producer>>

\* synchronized(), d times nested.
Enter(c, d) ==
  /\ Goto(c, "out", "in") /\ holder = None
  /\ holder' = c /\ depth' = d
  /\ UNCHANGED <<now, waitVars, set, producer>>

GiveUpOnce(c) ==
  /\ depth' = depth - 1
  /\ holder' = IF depth = 1 THEN None ELSE c

\* wait(): false at once if the system rejects the time.
Wait(c, timeout) ==
  /\ ~set /\ result[c]
  /\ pc[c] = "in"
  /\ asked' = [asked EXCEPT ![c] = timeout]
  /\ since' = [since EXCEPT ![c] = now]
  /\ spec' = [spec EXCEPT ![c] = Timespec(now, timeout)]
  /\ IF timeout # 0 /\ ~ValidTimespec(Timespec(now, timeout))
     THEN result' = [result EXCEPT ![c] = FALSE] /\ UNCHANGED <<pc, holder, depth>>
     ELSE Goto(c, "in", "blocked") /\ GiveUpOnce(c) /\ UNCHANGED result
  /\ UNCHANGED <<now, set, producer>>

\* The time has come; ETIMEDOUT.
TimeOut(c) ==
  /\ asked[c] # 0 /\ Micros(spec[c]) <= now
  /\ Goto(c, "blocked", "woken")
  /\ result' = [result EXCEPT ![c] = FALSE]
  /\ UNCHANGED <<now, holder, depth, asked, since, spec, set, producer>>

\* A wait may end unasked.
WakeUp(c) ==
  /\ Goto(c, "blocked", "woken")
  /\ UNCHANGED <<now, holder, depth, waitVars, set, producer>>

\* wait() returns with the mutex locked again.
Relock(c) ==
  /\ holder \in {None, c}
  /\ Goto(c, "woken", "in")
  /\ holder' = c /\ depth' = depth + 1
  /\ UNCHANGED <<now, waitVars, set, producer>>

\* The property is set, or wait() has returned false: the blocks are left.
Leave(c) ==
  /\ set \/ ~result[c]
  /\ Goto(c, "in", "gone")
  /\ holder' = None /\ depth' = 0
  /\ UNCHANGED <<now, waitVars, set, producer>>

\* The producer writes the property, which takes the mutex ...
Produce ==
  /\ producer = "idle" /\ holder = None
  /\ set' = TRUE /\ producer' = "set"
  /\ UNCHANGED <<now, holder, depth, pc, waitVars>>

Blocked == {c \in Consumers : pc[c] = "blocked"}

\* Mutant: one thread is notified.
NotifySignal ==
  /\ producer = "set" /\ producer' = "done"
  /\ \/ Blocked = {} /\ UNCHANGED pc
     \/ \E c \in Blocked : pc' = [pc EXCEPT ![c] = "woken"]
  /\ UNCHANGED <<now, holder, depth, waitVars, set>>

\* ... and calls notify() or notifyOne(), which do not.
Notify ==
  /\ producer = "set" /\ producer' = "done"
  /\ \/ notifyAll /\ pc' = [c \in Consumers |-> IF c \in Blocked THEN "woken" ELSE pc[c]]
     \/ ~notifyAll /\ Blocked = {} /\ UNCHANGED pc
     \/ ~notifyAll /\ \E c \in Blocked : pc' = [pc EXCEPT ![c] = "woken"]
  /\ UNCHANGED <<now, holder, depth, waitVars, set>>

AllGone ==
  /\ \A c \in Consumers : pc[c] = "gone"
  /\ producer = "done" /\ now = MaxTime
  /\ UNCHANGED monitorVars

ConsumerStep(c) ==
  \/ \E d \in Depths : Enter(c, d)
  \/ \E t \in Timeouts : Wait(c, t)
  \/ TimeOut(c) \/ Relock(c) \/ Leave(c)

MonitorNext ==
  \/ /\ Tick \/ Produce \/ Notify \/ \E c \in Consumers : ConsumerStep(c) \/ WakeUp(c)
     /\ UNCHANGED notifyAll
  \/ AllGone

\* Threads run on, time passes, and the producer does its part.
MonitorFairness ==
  /\ WF_monitorVars(Tick /\ UNCHANGED notifyAll)
  /\ WF_monitorVars(Notify /\ UNCHANGED notifyAll)
  /\ SF_monitorVars(Produce /\ UNCHANGED notifyAll)
  /\ \A c \in Consumers : SF_monitorVars(ConsumerStep(c) /\ UNCHANGED notifyAll)

MonitorSpec == MonitorInit /\ [][MonitorNext]_monitorVars /\ MonitorFairness

-----------------------------------------------------------------------------
(* Properties.                                                             *)

\* wait() returns false only when the time-out has been reached, for negative
\* time-outs and across the end of a second as well, and every way out of
\* pthreads_monitor_wait returns with the object locked, as
\* ThreadedBase::synchronized needs it.
WaitReturnsRight ==
  /\ MonitorTypeOK
  /\ \A c \in Consumers :
       /\ result[c] \/ now >= since[c] + asked[c]
       /\ pc[c] = "in" => holder = c

\* Every wait ends after notify(), unless it is below two synchronized()
\* blocks: no notification falls between the test of the property and the
\* wait, although notify() does not take the mutex.
WaitsEnd ==
  \A c \in Consumers :
    (notifyAll /\ Depths = {1} /\ pc[c] # "gone") ~> (pc[c] = "gone")
====

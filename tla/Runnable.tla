------------------------------ MODULE Runnable ------------------------------
(***************************************************************************)
(* The state of one ThreadedRunnable as isRunning() and isTerminated()     *)
(* report it, while the threads it has been given to execute it.  RUNNING  *)
(* and ERROR are bits of the object's monitor, set and cleared by every    *)
(* execution for itself (pthreads_routine_run_function).                   *)
(***************************************************************************)
EXTENDS Integers, FiniteSets

CONSTANTS
  Workers,     \* Workers
  MaxRuns      \* bound on the stackings

ASSUME MaxRunsAssumption == MaxRuns \in Nat
ASSUME WorkersAssumption == IsFiniteSet(Workers)

VARIABLES
  users,     \* the Workers the object is stacked on
  flags,     \* RUNNING and ERROR in monitor.state
  at,        \* per Worker: where it is in pthreads_routine_run_function
  stacked,   \* executions begun so far
  failed,    \* history: Workers whose execution has failed
  late       \* history: an execution began after another was seen to fail

runnableVars == <<users, flags, at, stacked, failed, late>>

\* The Workers that are in run().
Executing == {w \in Workers : at[w] = "run"}

RunnableTypeOK ==
  /\ users \subseteq Workers
  /\ flags \subseteq {"RUNNING", "ERROR"}
  /\ at \in [Workers -> {"idle", "check", "add", "write", "run", "error", "remove", "dead"}]
  /\ stacked \in 0 .. MaxRuns
  /\ failed \subseteq Workers
  /\ late \in BOOLEAN

RunnableInit ==
  /\ users \in (SUBSET Workers) \ {{}}
  /\ flags = {} /\ at = [w \in Workers |-> "idle"]
  /\ stacked = 0 /\ failed = {} /\ late = FALSE

Move(w, from, to) == at[w] = from /\ at' = [at EXCEPT ![w] = to]

\* The Worker takes the task and connects to it.
Take(w) ==
  /\ stacked < MaxRuns /\ stacked' = stacked + 1
  /\ Move(w, "idle", "check")
  /\ UNCHANGED <<flags, failed, late>>

\* pthreads_monitor_check(ERROR), without the lock.
CheckError(w) ==
  /\ \/ "ERROR" \in flags /\ Move(w, "check", "idle")
     \/ "ERROR" \notin flags /\ Move(w, "check", "add")
  /\ UNCHANGED <<flags, stacked, failed, late>>

\* pthreads_monitor_add(RUNNING).
AddRunning(w) ==
  /\ Move(w, "add", "write")
  /\ flags' = flags \cup {"RUNNING"}
  /\ late' = (late \/ "ERROR" \in flags)
  /\ UNCHANGED <<stacked, failed>>

\* The Worker is written to the property "worker" of the task.
WriteWorker(w) ==
  /\ Move(w, "write", "run")
  /\ UNCHANGED <<flags, stacked, failed, late>>

\* A fatal error in that write leaves for the end of pthreads_routine: this
\* Worker executes nothing any more.
WriteBailout(w) ==
  /\ Move(w, "write", "dead")
  /\ failed' = failed \cup {w}
  /\ UNCHANGED <<flags, stacked, late>>

\* run() returns, or the user's exception handler has dealt with its exception.
RunReturns(w) ==
  /\ Move(w, "run", "remove")
  /\ UNCHANGED <<flags, stacked, failed, late>>

\* An uncaught exception or a fatal error.
RunFails(w) ==
  /\ Move(w, "run", "error")
  /\ failed' = failed \cup {w}
  /\ UNCHANGED <<flags, stacked, late>>

\* Mutant: RUNNING is cleared before ERROR is set.
AddErrorLate(w) ==
  /\ \/ /\ "RUNNING" \in flags /\ at[w] = "error"
        /\ flags' = flags \ {"RUNNING"} /\ UNCHANGED at
     \/ /\ "RUNNING" \notin flags /\ Move(w, "error", "remove")
        /\ flags' = flags \cup {"ERROR"}
  /\ UNCHANGED <<stacked, failed, late>>

\* pthreads_monitor_add(ERROR).
AddError(w) ==
  /\ Move(w, "error", "remove")
  /\ flags' = flags \cup {"ERROR"}
  /\ UNCHANGED <<stacked, failed, late>>

\* pthreads_monitor_remove(RUNNING).
RemoveRunning(w) ==
  /\ Move(w, "remove", "idle")
  /\ flags' = flags \ {"RUNNING"}
  /\ UNCHANGED <<stacked, failed, late>>

Execution(w) ==
  \/ Take(w) \/ CheckError(w) \/ AddRunning(w) \/ WriteWorker(w)
  \/ WriteBailout(w) \/ RunReturns(w) \/ RunFails(w) \/ AddError(w)
  \/ RemoveRunning(w)

\* Nothing is stacked any more.
Idle ==
  /\ \/ stacked = MaxRuns /\ \A w \in users : at[w] \in {"idle", "dead"}
     \/ \A w \in users : at[w] = "dead"
  /\ UNCHANGED runnableVars

RunnableNext == ((\E w \in users : Execution(w)) /\ UNCHANGED users) \/ Idle

RunnableSpec == RunnableInit /\ [][RunnableNext]_runnableVars

-----------------------------------------------------------------------------
(* Properties.                                                             *)

\* The history says whether isTerminated() was right for every execution
\* that has ended, however many Workers execute the object.
ErrorsKept == (\E w \in failed : at[w] \in {"idle", "remove"}) => "ERROR" \in flags

\* On one Worker isRunning() is true while the object is executing; when it
\* is false again an object that has failed is reported by isTerminated(), so
\* that whoever polls the one can ask the other; and nothing is executed after
\* a failure.  On any number of Workers, no execution clears the ERROR that
\* pthreads_routine_run_function has set for another.
FlagsTell ==
  /\ RunnableTypeOK
  /\ ErrorsKept
  /\ Cardinality(users) = 1 =>
       /\ Executing # {} => "RUNNING" \in flags
       /\ failed # {} /\ "RUNNING" \notin flags => "ERROR" \in flags
       /\ ~late
====

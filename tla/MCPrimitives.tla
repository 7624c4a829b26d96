---------------------------- MODULE MCPrimitives ----------------------------
(* What a Worker is built from: the linked lists of tasks, the flags of a  *)
(* task, the monitor.  They share no state, so each is examined while the  *)
(* others stand still (part).  The fairness is that of the monitor; about  *)
(* the others only safety is claimed, which needs none.                    *)
EXTENDS LinkedQueue, Runnable, Monitor, TLC

VARIABLE part

allVars == <<part, vars, runnableVars, monitorVars>>

PartsInit ==
  /\ part \in {"queue", "runnable", "monitor"}
  /\ Init /\ RunnableInit /\ MonitorInit
  /\ part # "runnable" => users = Workers
  /\ part # "monitor" => notifyAll

PartsNext ==
  /\ UNCHANGED part
  /\ \/ part = "queue" /\ Next /\ UNCHANGED <<runnableVars, monitorVars>>
     \/ part = "runnable" /\ RunnableNext /\ UNCHANGED <<vars, monitorVars>>
     \/ part = "monitor" /\ MonitorNext /\ UNCHANGED <<vars, runnableVars>>

PartsSpec == PartsInit /\ [][PartsNext]_allVars /\ MonitorFairness

\* Around a second of three microseconds: more than one back, without limit,
\* into the next one, beyond it.
MCTimeouts == {-4, 0, 2, 5}
====

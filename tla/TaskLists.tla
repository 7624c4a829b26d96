------------------------------ MODULE TaskLists ------------------------------
(* The lists of a Worker as sequences: the tasks to run, the one that is   *)
(* running and the ones to collect.  Any item can be taken out of a list,  *)
(* as queue.h offers.                                                      *)
EXTENDS Sequences, SequencesExt

CONSTANT NULL    \* nothing is running

VARIABLES queue, running, gc

Init == queue = << >> /\ running = NULL /\ gc = << >>

Stack ==
  /\ queue' # << >> /\ Front(queue') = queue
  /\ UNCHANGED <<running, gc>>

Unstack ==
  /\ \E i \in DOMAIN queue : queue' = RemoveAt(queue, i)
  /\ UNCHANGED <<running, gc>>

Take ==
  /\ queue # << >> /\ running = NULL
  /\ running' = Head(queue) /\ queue' = Tail(queue)
  /\ UNCHANGED gc

Finish ==
  /\ running # NULL
  /\ gc' = Append(gc, running) /\ running' = NULL
  /\ UNCHANGED queue

Collect == gc # << >> /\ gc' = Tail(gc) /\ UNCHANGED <<queue, running>>

Free == running = NULL /\ queue' = << >> /\ gc' = << >> /\ UNCHANGED running

Next == Stack \/ Unstack \/ Take \/ Finish \/ Collect \/ Free

Spec == Init /\ [][Next]_<<queue, running, gc>>
====

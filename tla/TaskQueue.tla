------------------------------ MODULE TaskQueue ------------------------------
(***************************************************************************)
(* What a pthreads Worker promises the thread that created it, without the *)
(* locks, the condition variable or the two queues that deliver it:        *)
(* every stacked task is started in the order of stacking, one at a time,  *)
(* and is collected in the order of finishing; the Worker closes only when *)
(* nothing that was stacked is left to run.                                *)
(***************************************************************************)
EXTENDS Naturals, Sequences

VARIABLES
  status,   \* status[i] is where the i-th stacked task is in its life
  closed    \* the Worker has left its task loop

vars == <<status, closed>>

Status == {"queued", "running", "finished", "gone"}

\* i is the first task in the given status.
Oldest(i, s) ==
  /\ i \in DOMAIN status
  /\ status[i] = s
  /\ \A j \in 1 .. i - 1 : status[j] # s

Nobody(s) == \A i \in DOMAIN status : status[i] # s

Move(i, s) == status' = [status EXCEPT ![i] = s]

Init ==
  /\ status = << >>
  /\ closed = FALSE

Stack == status' = Append(status, "queued") /\ UNCHANGED closed

Unstack ==
  \E i \in DOMAIN status : Oldest(i, "queued") /\ Move(i, "gone") /\ UNCHANGED closed

Begin ==
  /\ ~closed
  /\ Nobody("running")
  /\ \E i \in DOMAIN status : Oldest(i, "queued") /\ Move(i, "running")
  /\ UNCHANGED closed

Finish ==
  /\ \E i \in DOMAIN status : Oldest(i, "running") /\ Move(i, "finished")
  /\ UNCHANGED closed

Collect ==
  \E i \in DOMAIN status : Oldest(i, "finished") /\ Move(i, "gone") /\ UNCHANGED closed

Close ==
  /\ Nobody("queued") /\ Nobody("running")
  /\ closed' = TRUE
  /\ UNCHANGED status

Free ==
  /\ Nobody("running")
  /\ status' = [i \in DOMAIN status |-> "gone"]
  /\ UNCHANGED closed

Next == Stack \/ Unstack \/ Begin \/ Finish \/ Collect \/ Close \/ Free

Spec == Init /\ [][Next]_vars
=============================================================================

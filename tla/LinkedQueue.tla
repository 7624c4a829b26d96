----------------------------- MODULE LinkedQueue -----------------------------
(***************************************************************************)
(* The doubly linked lists of queue.c as a Worker uses them: tasks wait in *)
(* queue, the one taken is kept as running, and run ones wait in gc to be  *)
(* collected.  An item moves from list to list and is freed by the creator *)
(* only.  collect() walks gc and calls a PHP function in the middle of it. *)
(* Each action is a critical section of the Worker's monitor; module       *)
(* Worker has the locking and treats the lists as sequences.               *)
(***************************************************************************)
EXTENDS Integers, Sequences, SequencesExt, FiniteSets

CONSTANTS
  Items,     \* memory for pthreads_queue_item_t
  NULL,      \* the null pointer
  Habits     \* "reenter", a collector calls collect() on the same Worker;
             \* "remove", pthreads_queue_remove and _pop are called directly

ASSUME NullAssumption == NULL \notin Items
ASSUME HabitsAssumption == Habits \subseteq {"reenter", "remove"}

VARIABLES
  alive,        \* items allocated
  next, prev,   \* per item
  head, tail,   \* per list
  size,         \* per list
  running,      \* worker_data->running
  frames,       \* the calls of collect() in progress, innermost last
  freed,        \* worker_data has been freed
  faults        \* history: what collect() did wrong

linkVars == <<next, prev, head, tail, size>>
vars == <<alive, linkVars, running, frames, freed, faults>>

Lists == {"queue", "gc"}
Pointers == Items \cup {NULL}

TypeOK ==
  /\ alive \subseteq Items
  /\ next \in [Items -> Pointers] /\ prev \in [Items -> Pointers]
  /\ head \in [Lists -> Pointers] /\ tail \in [Lists -> Pointers]
  /\ size \in [Lists -> Nat]
  /\ running \in Pointers
  /\ frames \in Seq([item : Pointers, calling : BOOLEAN])
  /\ freed \in BOOLEAN
  /\ faults \subseteq {"dangling", "wrong item"}

\* What fresh memory holds is arbitrary; here it is whatever was there before.
Init ==
  /\ alive = {}
  /\ next = [i \in Items |-> NULL] /\ prev = [i \in Items |-> NULL]
  /\ head = [l \in Lists |-> NULL] /\ tail = [l \in Lists |-> NULL]
  /\ size = [l \in Lists |-> 0]
  /\ running = NULL /\ frames = << >> /\ freed = FALSE /\ faults = {}

-----------------------------------------------------------------------------
(* queue.c                                                                 *)

\* pthreads_queue_push.
QueuePush(l, i) ==
  /\ IF tail[l] = NULL
     THEN /\ head' = [head EXCEPT ![l] = i]
          /\ next' = [next EXCEPT ![i] = NULL]
          /\ prev' = [prev EXCEPT ![i] = NULL]
     ELSE /\ next' = [next EXCEPT ![tail[l]] = i, ![i] = NULL]
          /\ prev' = [prev EXCEPT ![i] = tail[l]]
          /\ UNCHANGED head
  /\ tail' = [tail EXCEPT ![l] = i]
  /\ size' = [size EXCEPT ![l] = @ + 1]

\* Mutant: the item before the last one still points to it.
QueueRemoveTailLinked(l, i) ==
  /\ size' = [size EXCEPT ![l] = @ - 1]
  /\ head' = [head EXCEPT ![l] = IF @ = i THEN next[i] ELSE @]
  /\ tail' = [tail EXCEPT ![l] = IF @ = i THEN prev[i] ELSE @]
  /\ next' = [j \in Items |-> IF j = prev[i] /\ tail[l] # i THEN next[i] ELSE next[j]]
  /\ prev' = [j \in Items |-> IF j = next[i] THEN prev[i] ELSE prev[j]]

\* pthreads_queue_remove of an item: the only one, the first, the last, or one
\* in between.
QueueRemove(l, i) ==
  /\ size' = [size EXCEPT ![l] = @ - 1]
  /\ CASE head[l] = i /\ tail[l] = i ->
            /\ head' = [head EXCEPT ![l] = NULL]
            /\ tail' = [tail EXCEPT ![l] = NULL]
            /\ UNCHANGED <<next, prev>>
       [] head[l] = i /\ tail[l] # i ->
            /\ head' = [head EXCEPT ![l] = next[i]]
            /\ prev' = [prev EXCEPT ![next[i]] = NULL]
            /\ UNCHANGED <<next, tail>>
       [] head[l] # i /\ tail[l] = i ->
            /\ tail' = [tail EXCEPT ![l] = prev[i]]
            /\ next' = [next EXCEPT ![prev[i]] = NULL]
            /\ UNCHANGED <<prev, head>>
       [] OTHER ->
            /\ prev' = [prev EXCEPT ![next[i]] = prev[i]]
            /\ next' = [next EXCEPT ![prev[i]] = next[i]]
            /\ UNCHANGED <<head, tail>>

\* The n items that follow one another from the first one on.
Walk(first, links, n) ==
  LET Nth[k \in 1 .. n] ==
        IF k = 1 THEN first
        ELSE IF Nth[k - 1] = NULL THEN NULL ELSE links[Nth[k - 1]]
  IN [k \in 1 .. n |-> Nth[k]]

\* The items of a list, from the head.
Contents(l) == Walk(head[l], next, size[l])

-----------------------------------------------------------------------------
(* worker.c                                                                *)

Usable == ~freed /\ faults = {}

\* The creator has the monitor while it collects; in between, the collector
\* may call other methods of the Worker.
Collecting == frames # << >>
Top == Last(frames)
InCollector == Collecting => Top.calling
SetTop(f) == frames' = Append(Front(frames), f)

\* pthreads_worker_add_task.
AddTask(i) ==
  /\ Usable /\ InCollector /\ i \notin alive
  /\ alive' = alive \cup {i}
  /\ QueuePush("queue", i)
  /\ UNCHANGED <<running, frames, freed, faults>>

\* pthreads_worker_dequeue_task.
DequeueTask ==
  /\ Usable /\ InCollector /\ head["queue"] # NULL
  /\ QueueRemove("queue", head["queue"])
  /\ alive' = alive \ {head["queue"]}
  /\ UNCHANGED <<running, frames, freed, faults>>

\* pthreads_worker_next_task, on the Worker's thread.
NextTask ==
  /\ Usable /\ ~Collecting /\ running = NULL /\ head["queue"] # NULL
  /\ running' = head["queue"]
  /\ QueueRemove("queue", head["queue"])
  /\ UNCHANGED <<alive, frames, freed, faults>>

\* pthreads_worker_add_garbage, on the Worker's thread.
AddGarbage ==
  /\ Usable /\ ~Collecting /\ running # NULL
  /\ QueuePush("gc", running)
  /\ running' = NULL
  /\ UNCHANGED <<alive, frames, freed, faults>>

\* pthreads_worker_collect_tasks; from within a collector if programs do so.
CollectBegin ==
  /\ Usable /\ InCollector
  /\ Len(frames) < (IF "reenter" \in Habits THEN 2 ELSE 1)
  /\ frames' = Append(frames, [item |-> head["gc"], calling |-> FALSE])
  /\ UNCHANGED <<alive, linkVars, running, freed, faults>>

CollectCall ==
  /\ Usable /\ Collecting /\ ~Top.calling /\ Top.item # NULL
  /\ SetTop([Top EXCEPT !.calling = TRUE])
  /\ UNCHANGED <<alive, linkVars, running, freed, faults>>

\* Mutant: the last item is removed.
CollectAcceptLast ==
  /\ Usable /\ Collecting /\ Top.calling
  /\ SetTop([item |-> next[Top.item], calling |-> FALSE])
  /\ faults' = IF tail["gc"] = Top.item THEN {} ELSE {"wrong item"}
  /\ QueueRemove("gc", tail["gc"])
  /\ alive' = alive \ {tail["gc"]}
  /\ UNCHANGED <<running, freed>>

\* The collector has returned true: on to the next item, and the first one of
\* the list is removed, if there is one.
CollectAccept ==
  /\ Usable /\ Collecting /\ Top.calling
  /\ SetTop([item |-> next[Top.item], calling |-> FALSE])
  /\ faults' = (IF Top.item \in alive THEN {} ELSE {"dangling"})
                 \cup (IF head["gc"] \in {Top.item, NULL} THEN {} ELSE {"wrong item"})
  /\ IF head["gc"] = NULL
     THEN UNCHANGED <<alive, linkVars>>
     ELSE /\ QueueRemove("gc", head["gc"])
          /\ alive' = alive \ {head["gc"]}
  /\ UNCHANGED <<running, freed>>

\* It has returned false, or there are no more items.
CollectEnd ==
  /\ Usable /\ Collecting
  /\ Top.calling \/ Top.item = NULL
  /\ frames' = Front(frames)
  /\ UNCHANGED <<alive, linkVars, running, freed, faults>>

\* pthreads_worker_data_free: both lists are walked and their items freed.
DataFree ==
  /\ Usable /\ ~Collecting /\ running = NULL
  /\ alive' = alive \ (ToSet(Contents("queue")) \cup ToSet(Contents("gc")))
  /\ freed' = TRUE
  /\ UNCHANGED <<linkVars, running, frames, faults>>

\* pthreads_queue_remove and pthreads_queue_pop as queue.h offers them.
RemoveAny(i) ==
  /\ "remove" \in Habits /\ Usable /\ ~Collecting
  /\ i \in ToSet(Contents("queue"))
  /\ QueueRemove("queue", i)
  /\ alive' = alive \ {i}
  /\ UNCHANGED <<running, frames, freed, faults>>

Ended == ~Usable /\ UNCHANGED vars

Next ==
  \/ \E i \in Items : AddTask(i) \/ RemoveAny(i)
  \/ DequeueTask \/ NextTask \/ AddGarbage
  \/ CollectBegin \/ CollectCall \/ CollectAccept \/ CollectEnd
  \/ DataFree \/ Ended

Spec == Init /\ [][Next]_vars

-----------------------------------------------------------------------------
(* Properties.                                                             *)

\* A list reads the same forwards by next and backwards by prev, has as many
\* items as size says, all of them allocated and none of them elsewhere.
ListSound(l) ==
  LET c == Contents(l)
      n == size[l]
  IN IF n = 0 THEN head[l] = NULL /\ tail[l] = NULL
     ELSE /\ c[n] = tail[l] /\ next[tail[l]] = NULL
          /\ prev[head[l]] = NULL
          /\ \A k \in 1 .. n - 1 : prev[c[k + 1]] = c[k]
          /\ ToSet(c) \subseteq alive \ {running}
          /\ Cardinality(ToSet(c)) = n

\* Every item that was ever allocated is in a list or running, and none is
\* left when pthreads_worker_data_free has run.
NoLeak ==
  alive = IF freed THEN {}
          ELSE ToSet(Contents("queue")) \cup ToSet(Contents("gc")) \cup ({running} \ {NULL})

\* Both lists are sound and have no item in common, items are neither lost
\* nor freed while in use, and unless a collector calls collect() again, the
\* outer loop of pthreads_worker_collect_tasks removes the very task that the
\* collector has accepted and reads no item that has been freed.
ListsSound ==
  /\ TypeOK /\ NoLeak
  /\ ~freed => /\ \A l \in Lists : ListSound(l)
               /\ ToSet(Contents("queue")) \cap ToSet(Contents("gc")) = {}
  /\ "reenter" \notin Habits => faults = {}

\* The links and counts implement plain sequences, which is how module Worker
\* treats them.
AsSequences == INSTANCE TaskLists WITH
  queue <- IF freed THEN << >> ELSE Contents("queue"),
  gc <- IF freed THEN << >> ELSE Contents("gc")
ImplementsTaskLists == AsSequences!Spec
====

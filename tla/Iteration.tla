------------------------------ MODULE Iteration ------------------------------
(***************************************************************************)
(* The order of the properties of a Threaded object, and foreach over it.  *)
(* The engine's hash table (external) is an array of buckets in insertion  *)
(* order; a removed one leaves a hole, and a full table with holes is      *)
(* compacted by the next insertion.  An iterator of pthreads keeps a plain *)
(* index into that array between its steps, each of which takes the        *)
(* monitor for itself: rewind, current_data, current_key, move_forward.    *)
(***************************************************************************)
EXTENDS Integers, Sequences, SequencesExt, FiniteSets, FiniteSetsExt

CONSTANTS
  Keys,         \* property names
  MinSize,      \* smallest table the engine allocates (8)
  MaxInserts,   \* bound on the insertions
  Habits        \* what programs may do: sets of habits, see below

(* Habits: "remove", elements are removed while no loop is running;        *)
(* "insertInLoop" and "removeInLoop", the table is changed during a loop;  *)
(* "synchronized", loops are inside synchronized(), so that only their own *)
(* bodies do.  A behaviour has one set of them.                            *)

ASSUME MinSizeAssumption == MinSize \in Nat \ {0}
ASSUME MaxInsertsAssumption == MaxInserts \in Nat
ASSUME HabitsAssumption ==
  Habits \subseteq SUBSET {"remove", "insertInLoop", "removeInLoop", "synchronized"}

VARIABLES
  habits,     \* what this program does
  hash,       \* the buckets in use: elements [key, id] and holes
  size,       \* nTableSize
  inserted,   \* how many elements have been inserted; the next one's id
  returned,   \* the last removing call and the elements it returned
  at,         \* where the loop is: out, fetch, key, body
  position,   \* the iterator's HashPosition
  data,       \* the element whose value the last current_data returned
  key,        \* the key the last current_key returned
  visited,    \* history: the elements this loop has had, in order
  missed      \* history: elements the last loop ended without

tableVars == <<hash, size, inserted, returned>>
iterVars == <<at, position, data, key>>
histVars == <<visited, missed>>
vars == <<habits, tableVars, iterVars, histVars>>

Hole == [key |-> "", id |-> 0]
HT_INVALID_IDX == 0
NullKey == "null"

ASSUME KeysAssumption == NullKey \notin Keys /\ "" \notin Keys

Elements == [key : Keys, id : 1 .. MaxInserts]

TypeOK ==
  /\ habits \in Habits
  /\ hash \in Seq(Elements \cup {Hole})
  /\ size \in Nat /\ Len(hash) <= size
  /\ inserted \in 0 .. MaxInserts
  /\ returned.call \in {"none", "unset", "shift", "pop", "chunk"}
  /\ returned.got \in Seq(Elements)
  /\ at \in {"out", "fetch", "key", "body"}
  /\ position \in Nat
  /\ data \in Elements \cup {Hole}
  /\ key \in Keys \cup {"", NullKey}
  /\ visited \in Seq(Elements)
  /\ missed \subseteq Elements

Init ==
  /\ habits \in Habits
  /\ hash = << >> /\ size = MinSize /\ inserted = 0
  /\ returned = [call |-> "none", got |-> << >>]
  /\ at = "out" /\ position = HT_INVALID_IDX /\ data = Hole /\ key = ""
  /\ visited = << >> /\ missed = {}

-----------------------------------------------------------------------------
(* The engine's hash table.                                                *)

\* The positions from p on that are in use.
Ahead(h, p) == {q \in p .. Len(h) : h[q] # Hole}

NumOfElements == Cardinality(Ahead(hash, 1))

\* Removing the last bucket gives back the holes before it too.
Without(h, p) ==
  LET holed == [h EXCEPT ![p] = Hole]
      kept == Ahead(holed, 1)
  IN SubSeq(holed, 1, IF kept = {} THEN 0 ELSE Max(kept))

\* The elements without the holes between them.
Packed(h) ==
  LET Kept[n \in 0 .. Len(h)] ==
        IF n = 0 THEN << >>
        ELSE IF h[n] = Hole THEN Kept[n - 1] ELSE Append(Kept[n - 1], h[n])
  IN Kept[Len(h)]

\* A full table is compacted if it has holes, otherwise enlarged.
Full == Len(hash) >= size
Holed == Len(hash) > NumOfElements + NumOfElements \div 32

-----------------------------------------------------------------------------
(* Changes to the table.                                                   *)

InLoop == at # "out"

\* The monitor is free, or the loop's own body is running.
MayEnter == "synchronized" \notin habits \/ at \in {"out", "body"}
MayInsert == MayEnter /\ (InLoop => "insertInLoop" \in habits)
MayRemove ==
  /\ MayEnter
  /\ IF InLoop THEN "removeInLoop" \in habits ELSE "remove" \in habits

\* pthreads_store_write of a new property.  (One that exists is replaced in
\* its place.)
Insert(k) ==
  /\ MayInsert
  /\ inserted < MaxInserts
  /\ \A p \in Ahead(hash, 1) : hash[p].key # k
  /\ LET new == [key |-> k, id |-> inserted + 1]
     IN \/ ~Full /\ hash' = Append(hash, new) /\ UNCHANGED size
        \/ Full /\ Holed /\ hash' = Append(Packed(hash), new) /\ UNCHANGED size
        \/ Full /\ ~Holed /\ hash' = Append(hash, new) /\ size' = 2 * size
  /\ inserted' = inserted + 1
  /\ UNCHANGED <<returned, iterVars, histVars>>

\* Elements are taken out and handed to the caller.
TakeOut(call, h, got) ==
  /\ MayRemove
  /\ hash' = h
  /\ returned' = [call |-> call, got |-> got]
  /\ UNCHANGED <<size, inserted, iterVars, histVars>>

\* pthreads_store_delete.
Delete(k) ==
  \E p \in Ahead(hash, 1) :
    hash[p].key = k /\ TakeOut("unset", Without(hash, p), << >>)

\* Mutant: the search for the first element starts at the second bucket.
ShiftSecond ==
  /\ Ahead(hash, 2) # {}
  /\ LET p == Min(Ahead(hash, 2))
     IN TakeOut("shift", Without(hash, p), <<hash[p]>>)

\* pthreads_store_shift.
Shift ==
  /\ Ahead(hash, 1) # {}
  /\ LET p == Min(Ahead(hash, 1))
     IN TakeOut("shift", Without(hash, p), <<hash[p]>>)

\* pthreads_store_pop.
Pop ==
  /\ Ahead(hash, 1) # {}
  /\ LET p == Max(Ahead(hash, 1))
     IN TakeOut("pop", Without(hash, p), <<hash[p]>>)

\* The first element is taken out of h, n times or until there is none left.
Taken(h, n) ==
  LET Round[i \in 0 .. n] ==
        IF i = 0 THEN [h |-> h, got |-> << >>]
        ELSE IF Round[i - 1].h = << >> THEN Round[i - 1]
        ELSE LET left == Round[i - 1].h
                 p == Min(Ahead(left, 1))
             IN [h |-> Without(left, p), got |-> Append(Round[i - 1].got, left[p])]
  IN Round[n]

\* pthreads_store_chunk.
Chunk(n) ==
  /\ Ahead(hash, 1) # {}
  /\ TakeOut("chunk", Taken(hash, n).h, Taken(hash, n).got)

-----------------------------------------------------------------------------
(* foreach.                                                                *)

FirstOf(S) == IF S = {} THEN HT_INVALID_IDX ELSE Min(S)

\* What is left when the loop ends there.
Ending(p) ==
  missed' = IF p = HT_INVALID_IDX
            THEN {hash[q] : q \in Ahead(hash, 1)} \ Range(visited)
            ELSE {}

\* pthreads_object_iterator_create and the rewind that follows it.
Rewind ==
  /\ at = "out"
  /\ position' = FirstOf(Ahead(hash, 1))
  /\ at' = "fetch" /\ visited' = << >> /\ missed' = {}
  /\ UNCHANGED <<tableVars, data, key>>

\* Mutant: the value fetched in the previous round is kept.
CurrentDataKept ==
  /\ at = "fetch" /\ position # HT_INVALID_IDX
  /\ data' = IF data # Hole \/ Ahead(hash, position) = {} THEN data
             ELSE hash[Min(Ahead(hash, position))]
  /\ visited' = IF data' = Hole THEN visited ELSE Append(visited, data')
  /\ at' = "key"
  /\ UNCHANGED <<tableVars, position, key, missed>>

\* pthreads_store_data: the first element from the position on; if there is
\* none any more, the property with the empty name is read.
CurrentData ==
  /\ at = "fetch" /\ position # HT_INVALID_IDX
  /\ LET rest == Ahead(hash, position)
     IN IF rest = {}
        THEN data' = Hole /\ UNCHANGED visited
        ELSE /\ data' = hash[Min(rest)]
             /\ visited' = Append(visited, data')
  /\ at' = "key"
  /\ UNCHANGED <<tableVars, position, key, missed>>

\* pthreads_store_key.
CurrentKey ==
  /\ at = "key"
  /\ LET rest == Ahead(hash, position)
     IN key' = IF rest = {} THEN NullKey ELSE hash[Min(rest)].key
  /\ at' = "body"
  /\ UNCHANGED <<tableVars, position, data, histVars>>

\* Mutant: a hole ends the loop.
MoveForwardToHole ==
  /\ at = "body"
  /\ position' = FirstOf(Ahead(hash, position + 1) \cap {position + 1})
  /\ at' = "fetch" /\ Ending(position')
  /\ UNCHANGED <<tableVars, data, key, visited>>

\* pthreads_store_forward: past the first element from the position on.
MoveForward ==
  /\ at = "body"
  /\ LET rest == Ahead(hash, position)
     IN position' = FirstOf(rest \ {FirstOf(rest)})
  /\ at' = "fetch" /\ Ending(position')
  /\ UNCHANGED <<tableVars, data, key, visited>>

\* pthreads_object_iterator_validate fails, and the iterator is destroyed.
Finish ==
  /\ at = "fetch" /\ position = HT_INVALID_IDX
  /\ at' = "out" /\ data' = Hole /\ key' = ""
  /\ UNCHANGED <<tableVars, position, histVars>>

Change ==
  \/ \E k \in Keys : Insert(k) \/ Delete(k)
  \/ Shift \/ Pop
  \/ \E n \in 1 .. Cardinality(Keys) : Chunk(n)

Loop == Rewind \/ CurrentData \/ CurrentKey \/ MoveForward \/ Finish

Next == (Change \/ Loop) /\ UNCHANGED habits

Spec == Init /\ [][Next]_vars

-----------------------------------------------------------------------------
(* Properties.                                                             *)

\* Whatever holes, compactions and enlargements there are, the table is the
\* sequence of its elements in insertion order: unset() takes any one of
\* them, shift() the oldest, pop() the newest, chunk() the oldest few.
Order == INSTANCE InsertionOrder WITH contents <- Packed(hash)
ImplementsInsertionOrder == Order!Spec

\* Elements are inserted during loops but none is ever removed, or the table
\* stands still while a loop is running.
Undisturbed ==
  /\ "removeInLoop" \notin habits
  /\ "insertInLoop" \in habits => "remove" \notin habits

\* A loop meets elements in the order of their insertion, and none of them
\* twice, whatever happens to the table between the critical sections of
\* pthreads_store_data and pthreads_store_forward; undisturbed, it ends only
\* when it has met every element of the table, across holes and
\* enlargements.
LoopMeetsAll ==
  /\ \A i, j \in DOMAIN visited : i < j => visited[i].id < visited[j].id
  /\ Undisturbed => missed = {}

\* The key and the value that one round of an undisturbed loop, or of one
\* inside synchronized(), gets from pthreads_store_key and pthreads_store_data
\* belong together.
PairMatches ==
  /\ TypeOK
  /\ (Undisturbed \/ "synchronized" \in habits) /\ at = "body" =>
       key = (IF data = Hole THEN NullKey ELSE data.key)
====

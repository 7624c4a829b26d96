--------------------------- MODULE InsertionOrder ---------------------------
(***************************************************************************)
(* What the property table of a ThreadedArray promises: its elements in    *)
(* the order of their insertion.  shift() takes the oldest, pop() the      *)
(* newest, chunk() the oldest few, unset() any.                            *)
(***************************************************************************)
EXTENDS Integers, Sequences, SequencesExt

VARIABLES
  contents,   \* a sequence of elements [key, id]
  returned    \* the last removing call and the elements it returned

Init == contents = << >> /\ returned = [call |-> "none", got |-> << >>]

\* A new element goes last; no other has its key.
Insert ==
  /\ contents' # << >> /\ Front(contents') = contents
  /\ \A i \in DOMAIN contents : contents[i].key # Last(contents').key
  /\ UNCHANGED returned

Unset ==
  /\ \E i \in DOMAIN contents : contents' = RemoveAt(contents, i)
  /\ returned' = [call |-> "unset", got |-> << >>]

Shift ==
  /\ contents # << >> /\ contents' = Tail(contents)
  /\ returned' = [call |-> "shift", got |-> <<Head(contents)>>]

Pop ==
  /\ contents # << >> /\ contents' = Front(contents)
  /\ returned' = [call |-> "pop", got |-> <<Last(contents)>>]

\* The call asked for at least as many as it got; fewer if there are no more.
Chunk ==
  \E n \in 1 .. Len(contents) :
    /\ contents' = SubSeq(contents, n + 1, Len(contents))
    /\ returned' = [call |-> "chunk", got |-> SubSeq(contents, 1, n)]

Next == Insert \/ Unset \/ Shift \/ Pop \/ Chunk

Spec == Init /\ [][Next]_<<contents, returned>>
====

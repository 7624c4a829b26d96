---------------------------- MODULE MCIteration ----------------------------
(* Keys are interchangeable.  Programs that change the table at any time,  *)
(* inside synchronized() or not, only insert, or do not change it during a *)
(* loop.                                                                   *)
EXTENDS Iteration, TLC

KeySymmetry == Permutations(Keys)

Anytime == {"remove", "insertInLoop", "removeInLoop"}

MCHabits == {Anytime, Anytime \cup {"synchronized"}, {"insertInLoop"}, {"remove"}}
====

----------------------------- MODULE MCLocking -----------------------------
(* Trees of three threads.                                                 *)
EXTENDS Locking, TLC

\* main starts a, a starts b.
Chain == "a" :> "main" @@ "b" :> "a"
\* main starts a and b.
Siblings == "a" :> "main" @@ "b" :> "main"

OneWay == {<<"o", "p">>}
BothWays == {<<"o", "p">>, <<"p", "o">>}

MCPrograms ==
  {\* an object between each thread and its creator, in both trees
   [creator |-> Chain, shares |-> "o" :> {"main", "a"} @@ "p" :> {"a", "b"},
    merges |-> OneWay, globals |-> {}, habits |-> {}],
   [creator |-> Siblings, shares |-> "o" :> {"main", "a"} @@ "p" :> {"main", "b"},
    merges |-> OneWay, globals |-> {}, habits |-> {}],
   \* everything that a program may do
   [creator |-> Chain, shares |-> "o" :> {"main", "a"} @@ "p" :> {"a", "b"},
    merges |-> BothWays, globals |-> {"b"}, habits |-> {"free", "drop", "bailout"}]}
====

----------------------------- MODULE MCPrepare ------------------------------
(* Programs of three classes, declared in the order a, b, c.               *)
EXTENDS Prepare

Order == <<"a", "b", "c">>
Position(c) == CHOOSE i \in 1 .. 3 : Order[i] = c

\* A parent is declared before its children.
Parents ==
  {f \in [Classes -> Classes \cup {None}] :
     \A c \in Classes : f[c] = None \/ Position(f[c]) < Position(c)}

No == [c \in Classes |-> <<>>]
Plain ==
  [parent |-> [c \in Classes |-> None], interfaces |-> No, types |-> No,
   held |-> [c \in Classes |-> None], statics |-> Classes, used |-> Classes,
   immutable |-> {}, anonymous |-> {}, traits |-> {}, order |-> Order, late |-> 0,
   thread |-> "c", inheritAll |-> TRUE]

Held == [Classes -> {None, "a", "c"}]

Closed(S, f) == \A c \in S : f[c] = None \/ f[c] \in S

\* Any hierarchy, any held objects, some classes immutable.
All ==
  {p \in {[Plain EXCEPT !.parent = f, !.held = h, !.used = u, !.immutable = i] :
            f \in Parents, h \in Held,
            u \in {Classes, {"a"}}, i \in {{}, {"a"}, {"a", "b"}, {"b"}}} :
     Closed(p.used, p.parent) /\ Closed(p.immutable, p.parent)}

\* As needed: any class may be the thread's.
Needed ==
  {p \in {[Plain EXCEPT !.parent = f, !.held = h, !.immutable = i, !.thread = t,
                        !.inheritAll = FALSE] :
            f \in Parents, h \in Held,
            i \in {{}, {"a"}, {"a", "b"}}, t \in Classes} :
     Closed(p.immutable, p.parent)}

\* Classes declared and linked after the thread has started, with interfaces.
Later ==
  {p \in {[Plain EXCEPT !.parent = f, !.held = h, !.late = l, !.anonymous = n,
                        !.interfaces = g, !.statics = Classes \ Range(g["c"])] :
            f \in {x \in Parents : x["a"] = None}, n \in {{}, {"b"}, {"c"}},
            h \in Held, l \in {0, 2},
            g \in {No, [No EXCEPT !["c"] = <<"a">>]}} :
     /\ \A c \in p.anonymous : \A d \in Classes : p.parent[d] # c /\ p.held[d] # c
     /\ p.interfaces # No => p.parent["c"] # "a" /\ p.parent["b"] = None}

\* Immutable classes whose properties have one another's types.
TypeCycles ==
  {p \in {[Plain EXCEPT !.parent = f, !.types = t, !.immutable = i, !.inheritAll = b] :
            f \in Parents, i \in {{"a", "b"}, Classes}, b \in BOOLEAN,
            t \in [Classes -> {<<>>, <<"a", "b">>, <<"b", "c">>, <<"c", "a">>}]} :
     Closed(p.immutable, p.parent)
       /\ \A c \in p.immutable : Range(p.types[c]) \subseteq p.immutable}

\* A property whose type is a class with a static member, or with a parent
\* that has one.
HeldTypes ==
  {p \in {[Plain EXCEPT !.parent = f, !.held = h, !.types["a"] = <<"b">>,
                        !.immutable = {"a", "b"}, !.inheritAll = b] :
            f \in Parents, h \in [Classes -> {None, "c"}], b \in BOOLEAN} :
     Closed(p.immutable, p.parent)}

\* An anonymous class with methods of a trait.
Traits ==
  {[Plain EXCEPT !.anonymous = {"c"}, !.traits = {"c"}, !.late = l] : l \in {0, 1}}

MCPrograms == All \cup Needed \cup Later \cup TypeCycles \cup HeldTypes \cup Traits
====

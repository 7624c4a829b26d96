---------------------------- MODULE FunctionCache ----------------------------
(***************************************************************************)
(* pthreads_copy_function: the copies that a thread makes of the functions *)
(* of another one, the owner.  Methods are cached by their address and     *)
(* shared between the classes that inherit them; closures are copied each  *)
(* time they are read, and the copy is filed under the address of the new  *)
(* closure object.  The owner may end and another thread take its place.   *)
(***************************************************************************)
EXTENDS Naturals, Sequences, FiniteSets

CONSTANTS
  Addresses,   \* where the owner's functions are
  Classes,     \* classes of the thread; each has one method of the owner
  Places,      \* where the thread's closure objects are
  Kinds,       \* kinds of functions that the owner declares
  Reuse,       \* a new owner's functions may be where those of the old one were
  MaxFunctions,
  MaxCopies

ASSUME KindsAssumption == Kinds \subseteq {"method", "closure", "immutable"}
ASSUME ReuseAssumption == Reuse \in BOOLEAN
ASSUME LimitsAssumption == MaxFunctions \in Nat /\ MaxCopies \in Nat
ASSUME FiniteAssumption == IsFiniteSet(Classes) /\ IsFiniteSet(Places)

VARIABLES
  text,      \* the function at each address, 0 if there is none
  kind,      \* the kind of each function
  resolve,   \* PTHREADS_ZG(resolve): the copy made of each address, or 0
  copies,    \* the copies: what they are copies of, and op_array.refcount
  method,    \* per class: the copy in its function table, 0 if it has none
  second,    \* per class: the same of a second copy of it being made, or 0
  wanted,    \* per class: the function that was to be copied
  named,     \* EG(function_table): the copy filed under Closure@place, or 0
  closure    \* the copy that the closure object at each place runs, or 0

owned == <<text, kind>>
vars == <<owned, resolve, copies, method, second, wanted, named, closure>>

Functions == 1 .. MaxFunctions

TypeOK ==
  /\ text \in [Addresses -> Functions \cup {0}]
  /\ kind \in Seq(Kinds) /\ Len(kind) <= MaxFunctions
  /\ copies \in Seq([of : Functions, refs : Nat]) /\ Len(copies) <= MaxCopies
  /\ resolve \in [Addresses -> 0 .. Len(copies)]
  /\ method \in [Classes -> 0 .. Len(copies)] /\ second \in [Classes -> 0 .. Len(copies)]
  /\ wanted \in [Classes -> 0 .. MaxFunctions]
  /\ named \in [Places -> 0 .. Len(copies)] /\ closure \in [Places -> 0 .. Len(copies)]

Init ==
  /\ text = [a \in Addresses |-> 0] /\ kind = <<>>
  /\ resolve = [a \in Addresses |-> 0] /\ copies = <<>>
  /\ method = [c \in Classes |-> 0] /\ second = [c \in Classes |-> 0]
  /\ wanted = [c \in Classes |-> 0]
  /\ named = [p \in Places |-> 0] /\ closure = [p \in Places |-> 0]

-----------------------------------------------------------------------------
(* The owner.                                                              *)

Declare(a, k) ==
  /\ text[a] = 0 /\ Len(kind) < MaxFunctions
  /\ Reuse \/ resolve[a] = 0
  /\ kind' = Append(kind, k)
  /\ text' = [text EXCEPT ![a] = Len(kind) + 1]
  /\ UNCHANGED <<resolve, copies, method, second, wanted, named, closure>>

\* The owner ends, and its memory with it.
OwnerEnds ==
  /\ text' = [a \in Addresses |-> 0]
  /\ UNCHANGED <<kind, resolve, copies, method, second, wanted, named, closure>>

-----------------------------------------------------------------------------
(* The thread.                                                             *)

Kind(a) == kind[text[a]]
New(a) == Append(copies, [of |-> text[a], refs |-> 1])
NextCopy == Len(copies) + 1
HasRoom == Len(copies) < MaxCopies

Unreferenced(cs, n) == IF n = 0 THEN cs ELSE [cs EXCEPT ![n].refs = @ - 1]

\* Mutant: a copy taken from the cache is not counted.
HitUncounted(a) == resolve[a] # 0 /\ copies' = copies /\ UNCHANGED resolve

\* A copy taken from the cache is one more reference ...
Hit(a) ==
  /\ resolve[a] # 0
  /\ copies' = [copies EXCEPT ![resolve[a]].refs = @ + 1]
  /\ UNCHANGED resolve

\* ... and a new one is put there.
Miss(a) ==
  /\ resolve[a] = 0 /\ HasRoom
  /\ copies' = New(a)
  /\ resolve' = [resolve EXCEPT ![a] = NextCopy]

\* prepare_class_function_table: c gets the method at a.
CopyMethod(c, a) ==
  /\ wanted[c] = 0 /\ text[a] # 0 /\ Kind(a) = "method"
  /\ Hit(a) \/ Miss(a)
  /\ method' = [method EXCEPT ![c] = resolve'[a]]
  /\ wanted' = [wanted EXCEPT ![c] = text[a]]
  /\ UNCHANGED <<owned, second, named, closure>>

\* An immutable function is used as it is.
ShareMethod(c, a) ==
  /\ wanted[c] = 0 /\ text[a] # 0 /\ Kind(a) = "immutable"
  /\ wanted' = [wanted EXCEPT ![c] = text[a]]
  /\ UNCHANGED <<owned, resolve, copies, method, second, named, closure>>

\* The copying of a class leads back to it: a second copy is made, whose method
\* comes from the cache, ...
CopyAgain(c, a) ==
  /\ method[c] # 0 /\ second[c] = 0 /\ text[a] # 0 /\ Kind(a) = "method"
  /\ resolve[a] = method[c] /\ Hit(a)
  /\ second' = [second EXCEPT ![c] = resolve[a]]
  /\ UNCHANGED <<owned, method, wanted, named, closure>>

\* ... and one of the two replaces the other in the class table, where
\* zend_hash_update_ptr destroys it.
ReplaceClass(c) ==
  /\ second[c] # 0
  /\ copies' = Unreferenced(copies, method[c])
  /\ method' = [method EXCEPT ![c] = second[c]]
  /\ second' = [second EXCEPT ![c] = 0]
  /\ UNCHANGED <<owned, resolve, wanted, named, closure>>

\* A closure is read: it is copied, zend_create_closure makes an object with a
\* reference of its own, and the copy is filed under the object's address in
\* place of what was there.
ReadClosure(p, a) ==
  /\ closure[p] = 0 /\ text[a] # 0 /\ Kind(a) = "closure" /\ HasRoom
  /\ copies' = Unreferenced([New(a) EXCEPT ![NextCopy].refs = @ + 1], named[p])
  /\ named' = [named EXCEPT ![p] = NextCopy]
  /\ closure' = [closure EXCEPT ![p] = NextCopy]
  /\ UNCHANGED <<owned, resolve, method, second, wanted>>

\* prepare_closures, after each class that was copied: a closure that the owner
\* has filed is copied under the same name, unless something has this name here.
PrepareClosure(p, a) ==
  /\ named[p] = 0 /\ text[a] # 0 /\ Kind(a) = "closure" /\ HasRoom
  /\ copies' = New(a)
  /\ named' = [named EXCEPT ![p] = NextCopy]
  /\ UNCHANGED <<owned, resolve, method, second, wanted, closure>>

\* The closure object is destroyed; what is filed stays.
FreeClosure(p) ==
  /\ closure[p] # 0
  /\ copies' = Unreferenced(copies, closure[p])
  /\ closure' = [closure EXCEPT ![p] = 0]
  /\ UNCHANGED <<owned, resolve, method, second, wanted, named>>

Next ==
  \/ OwnerEnds
  \/ \E a \in Addresses :
       \/ \E k \in Kinds : Declare(a, k)
       \/ \E c \in Classes : CopyMethod(c, a) \/ ShareMethod(c, a) \/ CopyAgain(c, a)
       \/ \E p \in Places : ReadClosure(p, a) \/ PrepareClosure(p, a)
  \/ \E c \in Classes : ReplaceClass(c)
  \/ \E p \in Places : FreeClosure(p)

Spec == Init /\ [][Next]_vars

-----------------------------------------------------------------------------
(* Properties.                                                             *)

Users(f, n) == Cardinality({x \in DOMAIN f : f[x] = n})

\* op_array.refcount counts the class tables, the function table and the
\* closure objects that use a copy.
RefsExact ==
  \A n \in DOMAIN copies :
    copies[n].refs = Users(method, n) + Users(second, n) + Users(named, n) + Users(closure, n)

\* Copied functions live exactly as long as they are used: every copy is
\* counted by its users, none of which, the cache of addresses included, can
\* reach one that was freed; a class has the method it was to have; and each
\* closure object has a copy, with its static variables, of its own.
CopiesSound ==
  /\ TypeOK
  /\ RefsExact
  /\ \A a \in Addresses : resolve[a] # 0 => copies[resolve[a]].refs > 0
  /\ \A c \in Classes : method[c] # 0 => copies[method[c]].of = wanted[c]
  /\ \A p, q \in Places : p # q /\ closure[p] # 0 => closure[p] # closure[q]
====

------------------------------- MODULE Prepare -------------------------------
(***************************************************************************)
(* The copying of classes from the creator of a thread to the thread, when *)
(* it starts and whenever it meets an object of a class it does not know   *)
(* (prepare.c, PHP 8.1).  create_entry calls itself through the parent,    *)
(* the interfaces and the values of static members; the calls that are     *)
(* still to be made are the sequence todo, the first one next.             *)
(*                                                                         *)
(* An entry is <<class, n>>: the n-th copy that the thread has made, or,   *)
(* with n = 0, the creator's own, which an immutable class shares.         *)
(***************************************************************************)
EXTENDS Naturals, Sequences, FiniteSets, SequencesExt

CONSTANTS
  Classes,
  Programs,    \* what the creator has declared: see IsProgram
  MaxCopies,   \* bound on the copies of a class
  Room         \* classes that the thread's class table takes before it is moved

None == "none"
NoEntry == <<"none", 0>>
Foreign == <<"foreign", 0>>
Wild == <<"wild", 0>>
ASSUME NamesAssumption == Classes \cap {None, "foreign", "wild"} = {}

\* parent[c], interfaces[c], types[c] (of the properties) and held[c] (the
\* class of the object in c's static member) refer to other classes; statics
\* are the classes with a static member, used those whose statics the creator
\* has initialised, order is the class table of the creator, with the classes
\* declared later at its end, late their number; thread is the class of the
\* thread, and inheritAll says whether it gets all classes at the start
\* (PTHREADS_INHERIT_CLASSES).
IsProgram(p) ==
  /\ p.parent \in [Classes -> Classes \cup {None}]
  /\ \A c \in Classes : /\ p.interfaces[c] \in Seq(Classes)
                        /\ p.types[c] \in Seq(Classes)
  /\ p.held \in [Classes -> Classes \cup {None}]
  /\ p.statics \subseteq Classes /\ p.used \subseteq Classes
  /\ p.immutable \subseteq Classes /\ p.anonymous \subseteq Classes \ p.immutable
  /\ p.traits \subseteq Classes
  /\ p.order \in Seq(Classes) /\ p.late \in 0 .. Len(p.order)
  /\ p.thread \in Classes /\ p.inheritAll \in BOOLEAN

ASSUME ProgramsAssumption == \A p \in Programs : IsProgram(p)
ASSUME BoundsAssumption == {MaxCopies, Room} \subseteq Nat

VARIABLES
  prog,     \* the program
  source,   \* the creator's class table
  linked,   \* classes that the creator has linked
  running,  \* the thread is READY, and the creator runs too
  todo,     \* calls to be made
  table,    \* EG(class_table), in its order ...
  entry,    \* ... and the entry of each class
  copies,   \* copies made of each class
  ent,      \* the fields of the entries
  scope,    \* per class: the scope of the thread's copy of its methods,
  traited,  \*   and of those it has from a trait
  objects   \* objects made of the entries

sourceVars == <<prog, source, linked, running>>
classVars == <<table, entry, copies>>
scopeVars == <<scope, traited>>
vars == <<sourceVars, todo, classVars, ent, scopeVars, objects>>

Entries == Classes \X (0 .. MaxCopies)
ClassOf(e) == e[1]
IsShared(e) == e[2] = 0

-----------------------------------------------------------------------------
(* The class hierarchy.                                                    *)

Ancestors[c \in Classes] ==
  IF prog.parent[c] = None THEN {} ELSE {prog.parent[c]} \cup Ancestors[prog.parent[c]]

Supers(c) ==
  IF c \notin linked THEN <<>>
  ELSE (IF prog.parent[c] = None THEN <<>> ELSE <<prog.parent[c]>>) \o prog.interfaces[c]

\* Inherited methods are in the function table once the class is linked.
Methods(c) == IF c \in linked THEN {c} \cup Ancestors[c] ELSE {c}
Inherited(c) == IF c \in linked THEN prog.statics \cap Ancestors[c] ELSE {}

ParentOf(e) ==
  LET p == prog.parent[ClassOf(e)]
  IN IF IsShared(e) THEN (IF p = None THEN Wild ELSE <<p, 0>>)
     ELSE IF \E s \in ent[e].supers : ClassOf(s) = p
          THEN CHOOSE s \in ent[e].supers : ClassOf(s) = p
          ELSE Wild

\* default_static_members_count is zero until the late bindings are made.
Bound(e) == IsShared(e) \/ ent[e].table > 0

\* The entry whose tables have e's slot for the static member of d.
Home(e, d) ==
  LET home[x \in Entries] ==
        IF ClassOf(x) = d \/ ParentOf(x) = Wild \/ ~Bound(ParentOf(x)) THEN x
        ELSE home[ParentOf(x)]
  IN home[e]

Lineage(e) ==
  LET up[x \in Entries] == {x} \cup (IF ParentOf(x) = Wild THEN {} ELSE up[ParentOf(x)])
  IN up[e]

-----------------------------------------------------------------------------
(* Calls.                                                                  *)

Create(c, late) == [op |-> "create", class |-> c, late |-> late]
Offer(c) == [op |-> "offer", class |-> c]
Link(e, c) == [op |-> "link", entry |-> e, class |-> c]
Insert(e, late) == [op |-> "insert", entry |-> e, late |-> late]
Complete(e) == [op |-> "complete", entry |-> e]
Bind(e) == [op |-> "bind", entry |-> e]
InitStatics(e) == [op |-> "initstatics", entry |-> e]
Fill(e) == [op |-> "fill", entry |-> e]
Connect(c) == [op |-> "connect", class |-> c]
Scopes(e) == [op |-> "scopes", entry |-> e]
BindAll == [op |-> "bindall"]
BindAt(i, moved) == [op |-> "bindat", index |-> i, moved |-> moved]
Ready == [op |-> "ready"]

LateBindings(e) == IF IsShared(e) THEN <<InitStatics(e)>> ELSE <<Bind(e), InitStatics(e)>>

LinkSupers(e) ==
  FlattenSeq([i \in 1 .. Len(Supers(ClassOf(e))) |->
                <<Create(Supers(ClassOf(e))[i], TRUE), Link(e, Supers(ClassOf(e))[i])>>])

\* A hash is moved in memory when it outgrows its room.
ClassesMoved == Len(table) > Room

Pending == todo # <<>>
Call == Head(todo)
Return == todo' = Tail(todo)
Then(calls) == todo' = calls \o Tail(todo)

TypeOK ==
  /\ source \in Seq(Classes) /\ linked \subseteq Classes /\ running \in BOOLEAN
  /\ table \in Seq(Classes) /\ IsInjective(table)
  /\ entry \in [Classes -> Entries \cup {NoEntry}]
  /\ \A c \in Classes : entry[c] # NoEntry <=> \E i \in DOMAIN table : table[i] = c
  /\ copies \in [Classes -> 0 .. MaxCopies]
  /\ \A e \in Entries : /\ ent[e].supers \subseteq Entries
                        /\ ent[e].value \in {None, "unset", "default", "current"}
  /\ scope \in [Classes -> Entries \cup {NoEntry, Foreign}]
  /\ traited \in [Classes -> Entries \cup {NoEntry, Foreign}]
  /\ objects \subseteq [entry : Entries, sized : BOOLEAN]

Fresh == [linked |-> FALSE, supers |-> {}, table |-> 0, slots |-> <<>>,
          value |-> None, cells |-> <<>>]

Startup(p) ==
  (IF p.inheritAll THEN [i \in 1 .. Len(p.order) - p.late |-> Offer(p.order[i])]
                 ELSE <<Create(p.thread, FALSE)>>) \o <<BindAll, Ready>>

Init ==
  /\ prog \in Programs
  /\ source = SubSeq(prog.order, 1, Len(prog.order) - prog.late)
  /\ linked = Range(source) \ prog.anonymous
  /\ running = FALSE /\ todo = Startup(prog)
  /\ table = <<>> /\ entry = [c \in Classes |-> NoEntry]
  /\ copies = [c \in Classes |-> 0]
  /\ ent = [e \in Entries |-> Fresh]
  /\ scope = [c \in Classes |-> NoEntry] /\ traited = [c \in Classes |-> NoEntry]
  /\ objects = {}

-----------------------------------------------------------------------------
(* pthreads_create_entry.                                                  *)

Put(c, e) ==
  /\ entry' = [entry EXCEPT ![c] = e]
  /\ table' = IF entry[c] = NoEntry THEN Append(table, c) ELSE table

\* An anonymous class that was not linked when it was copied, and now is.
CanComplete(c) ==
  /\ c \in prog.anonymous /\ c \in linked
  /\ entry[c] # NoEntry
  /\ ~ent[entry[c]].linked /\ ~IsShared(entry[c])

CreateFound(c, late) ==
  /\ entry[c] # NoEntry /\ ~CanComplete(c)
  /\ Return
  /\ UNCHANGED <<sourceVars, classVars, ent, scopeVars, objects>>

CreateComplete(c, late) ==
  /\ CanComplete(c)
  /\ ent' = [ent EXCEPT ![entry[c]].linked = TRUE]
  /\ Then(LinkSupers(entry[c]) \o <<Complete(entry[c])>>
            \o (IF late THEN LateBindings(entry[c]) ELSE <<>>))
  /\ UNCHANGED <<sourceVars, classVars, scopeVars, objects>>

\* The types of c's properties that are known classes.
Types(c) ==
  FlattenSeq([i \in 1 .. Len(prog.types[c]) |->
                IF prog.types[c][i] \in Range(source) THEN <<prog.types[c][i]>> ELSE <<>>])
Dependencies(c) == Supers(c) \o Types(c)

\* Mutant: an immutable class that is known is visited again.
CreateSharedAgain(c, late) ==
  /\ c \in prog.immutable
  /\ Put(c, <<c, 0>>)
  /\ Then([i \in DOMAIN Dependencies(c) |-> Create(Dependencies(c)[i], late)]
            \o (IF late THEN LateBindings(<<c, 0>>) ELSE <<>>))
  /\ UNCHANGED <<sourceVars, copies, ent, scopeVars, objects>>

CreateShared(c, late) ==
  /\ entry[c] = NoEntry /\ c \in prog.immutable
  /\ Put(c, <<c, 0>>)
  /\ Then([i \in DOMAIN Dependencies(c) |-> Create(Dependencies(c)[i], late)]
            \o (IF late THEN LateBindings(<<c, 0>>) ELSE <<>>))
  /\ UNCHANGED <<sourceVars, copies, ent, scopeVars, objects>>

\* Mutant: a class that is known is copied again.
CreateCopyAgain(c, late) ==
  /\ c \notin prog.immutable
  /\ copies[c] < MaxCopies
  /\ LET e == <<c, copies[c] + 1>>
     IN /\ copies' = [copies EXCEPT ![c] = @ + 1]
        /\ ent' = [ent EXCEPT ![e].linked = c \in linked]
        /\ Then(LinkSupers(e) \o <<Insert(e, late)>>)
  /\ UNCHANGED <<sourceVars, table, entry, scopeVars, objects>>

CreateCopy(c, late) ==
  /\ entry[c] = NoEntry /\ c \notin prog.immutable
  /\ copies[c] < MaxCopies
  /\ LET e == <<c, copies[c] + 1>>
     IN /\ copies' = [copies EXCEPT ![c] = @ + 1]
        /\ ent' = [ent EXCEPT ![e].linked = c \in linked]
        /\ Then(LinkSupers(e) \o <<Insert(e, late)>>)
  /\ UNCHANGED <<sourceVars, table, entry, scopeVars, objects>>

\* The parent, or an interface, is the entry that create_entry returned.
DoLink(e, c) ==
  /\ ent' = [ent EXCEPT ![e].supers = @ \cup {entry[c]}]
  /\ Return
  /\ UNCHANGED <<sourceVars, classVars, scopeVars, objects>>

\* prepare_class_function_table: copies come from the cache of functions, or
\* still have the scope of the original.
CopyMethods(e) ==
  /\ scope' = [d \in Classes |->
                 IF d \in Methods(ClassOf(e)) \ prog.immutable /\ scope[d] = NoEntry
                 THEN Foreign ELSE scope[d]]
  /\ traited' = IF ClassOf(e) \in linked \cap prog.traits /\ traited[ClassOf(e)] = NoEntry
                THEN [traited EXCEPT ![ClassOf(e)] = Foreign] ELSE traited

\* Mutant: the scope of the methods is left alone.
InsertUnscoped(e, late) ==
  /\ CopyMethods(e)
  /\ Put(ClassOf(e), e)
  /\ Then(IF late THEN LateBindings(e) ELSE <<>>)
  /\ UNCHANGED <<sourceVars, copies, ent, objects>>

\* An entry that is replaced is destroyed.  The copies of the closures of the
\* creator are in FunctionCache.
DoInsert(e, late) ==
  /\ CopyMethods(e)
  /\ Put(ClassOf(e), e)
  /\ Then((IF late THEN LateBindings(e) ELSE <<>>) \o <<Scopes(e)>>)
  /\ UNCHANGED <<sourceVars, copies, ent, objects>>

\* The end of complete_entry for an anonymous class.
DoComplete(e) ==
  /\ CopyMethods(e)
  /\ Return
  /\ UNCHANGED <<sourceVars, classVars, ent, objects>>

\* function_prepare, for every function of the class.
DoScopes(e) ==
  /\ scope' = [d \in Classes |->
                 IF d \in Methods(ClassOf(e)) \ prog.immutable THEN entry[d] ELSE scope[d]]
  /\ traited' = IF traited[ClassOf(e)] = NoEntry THEN traited
                ELSE [traited EXCEPT ![ClassOf(e)] = e]
  /\ Return
  /\ UNCHANGED <<sourceVars, classVars, ent, objects>>

-----------------------------------------------------------------------------
(* pthreads_prepared_entry_late_bindings.                                  *)

\* Where the slots of e's default_static_members_table point: into the table
\* that the entry has now.
Slots(e) ==
  [d \in Inherited(ClassOf(e)) |-> LET h == Home(e, d) IN <<h, ent[h].table>>]

\* prepare_class_property_table and prepare_class_statics: the old table is
\* freed and a new one allocated.
DoBind(e) ==
  /\ ent' = [ent EXCEPT ![e].table = @ + 1, ![e].slots = Slots(e)]
  /\ Return
  /\ UNCHANGED <<sourceVars, classVars, scopeVars, objects>>

HasStatics(c) == c \in linked /\ prog.statics \cap ({c} \cup Ancestors[c]) # {}

\* zend_class_init_statics: the default values, for the ancestors first.
Defaulted(e) ==
  [x \in Entries |->
     IF x \in Lineage(e) /\ ent[x].value = None
     THEN [ent[x] EXCEPT !.value = "default",
                         !.cells = [d \in Inherited(ClassOf(x)) |-> Home(x, d)]]
     ELSE ent[x]]

\* init_class_statics, once per class, if the creator has initialised its own:
\* the table is allocated, and the last slot, which is the class's own, copied.
DoInitStatics(e) ==
  LET c == ClassOf(e)
      p == ParentOf(e)
      before == IF p = Wild THEN ent ELSE Defaulted(p)
      held == IF c \in prog.statics THEN prog.held[c] ELSE None
  IN IF ~HasStatics(c) \/ c \notin prog.used \/ ent[e].value # None
     THEN Return /\ UNCHANGED <<sourceVars, classVars, ent, scopeVars, objects>>
     ELSE /\ ent' = [before EXCEPT ![e].value = "unset"]
          /\ Then((IF held = None THEN <<>> ELSE <<Create(held, TRUE), Connect(held)>>)
                    \o <<Fill(e)>>)
          /\ UNCHANGED <<sourceVars, classVars, scopeVars, objects>>

\* The inherited slots point to those of the parent; a parent that is being
\* initialised itself has slots that have not been written.
CellsOf(e) ==
  {[d \in Inherited(ClassOf(e)) |-> Home(e, d)]}
    \cup IF ParentOf(e) # Wild /\ ent[ParentOf(e)].value = "unset"
         THEN {[d \in Inherited(ClassOf(e)) |-> Wild]} ELSE {}

DoFill(e) ==
  /\ \E cells \in CellsOf(e) :
       ent' = [ent EXCEPT ![e].value = "current", ![e].cells = cells]
  /\ Return
  /\ UNCHANGED <<sourceVars, classVars, scopeVars, objects>>

\* object_init_ex with the entry that the class table has.
DoConnect(c) ==
  /\ objects' = objects \cup {[entry |-> entry[c], sized |-> Bound(entry[c])]}
  /\ Return
  /\ UNCHANGED <<sourceVars, classVars, ent, scopeVars>>

-----------------------------------------------------------------------------
(* Starting the thread.                                                    *)

\* prepare_classes skips what is known.
DoOffer(c) ==
  /\ Then(IF entry[c] = NoEntry THEN <<Create(c, FALSE)>> ELSE <<>>)
  /\ UNCHANGED <<sourceVars, classVars, ent, scopeVars, objects>>

\* Mutant: the youngest class first.
BindAllReversed ==
  /\ Then([i \in DOMAIN table |-> BindAt(Len(table) + 1 - i, ClassesMoved)])
  /\ UNCHANGED <<sourceVars, classVars, ent, scopeVars, objects>>

\* pthreads_context_late_bindings: a loop over the thread's own class table,
\* with its place in memory and its end as they are now.
DoBindAll ==
  /\ Then([i \in DOMAIN table |-> BindAt(i, ClassesMoved)])
  /\ UNCHANGED <<sourceVars, classVars, ent, scopeVars, objects>>

DoBindAt(i) ==
  /\ Then(LateBindings(entry[table[i]]))
  /\ UNCHANGED <<sourceVars, classVars, ent, scopeVars, objects>>

DoReady ==
  /\ running' = TRUE
  /\ Return
  /\ UNCHANGED <<prog, source, linked, classVars, ent, scopeVars, objects>>

Step ==
  /\ Pending
  /\ \/ /\ Call.op = "create"
        /\ \/ CreateFound(Call.class, Call.late) \/ CreateComplete(Call.class, Call.late)
           \/ CreateShared(Call.class, Call.late) \/ CreateCopy(Call.class, Call.late)
     \/ Call.op = "link" /\ DoLink(Call.entry, Call.class)
     \/ Call.op = "insert" /\ DoInsert(Call.entry, Call.late)
     \/ Call.op = "complete" /\ DoComplete(Call.entry)
     \/ Call.op = "scopes" /\ DoScopes(Call.entry)
     \/ Call.op = "bind" /\ DoBind(Call.entry)
     \/ Call.op = "initstatics" /\ DoInitStatics(Call.entry)
     \/ Call.op = "fill" /\ DoFill(Call.entry)
     \/ Call.op = "connect" /\ DoConnect(Call.class)
     \/ Call.op = "offer" /\ DoOffer(Call.class)
     \/ Call.op = "bindall" /\ DoBindAll
     \/ Call.op = "bindat" /\ DoBindAt(Call.index)
     \/ Call.op = "ready" /\ DoReady

-----------------------------------------------------------------------------
(* The thread and its creator, once both run.                              *)

\* The thread meets an object: pthreads_prepare_single_class.
Meet(c) ==
  /\ running /\ todo = <<>>
  /\ c \in Range(source) /\ c \in linked
  /\ todo' = <<Create(c, TRUE), Connect(c)>>
  /\ UNCHANGED <<sourceVars, classVars, ent, scopeVars, objects>>

\* The creator declares the next class of its program, and ...
Declare ==
  /\ running /\ Len(source) < Len(prog.order)
  /\ source' = SubSeq(prog.order, 1, Len(source) + 1)
  /\ linked' = linked \cup ({prog.order[Len(source) + 1]} \ prog.anonymous)
  /\ UNCHANGED <<prog, running, todo, classVars, ent, scopeVars, objects>>

\* ... links an anonymous class when it makes the first object of it.
LinkAnonymous(c) ==
  /\ running /\ c \in Range(source) \ linked
  /\ linked' = linked \cup {c}
  /\ UNCHANGED <<prog, source, running, todo, classVars, ent, scopeVars, objects>>

Next ==
  \/ Step \/ Declare
  \/ \E c \in Classes : Meet(c) \/ LinkAnonymous(c)

Spec == Init /\ [][Next]_vars /\ WF_vars(Step)

-----------------------------------------------------------------------------
(* Properties, of the thread between two preparations.                     *)

Quiet == todo = <<>>
Copied == {c \in Classes : entry[c] # NoEntry /\ ~IsShared(entry[c])}

IsLinked(e) == IF IsShared(e) THEN ClassOf(e) \in linked ELSE ent[e].linked

\* The classes that creating c leads to; and those that the ones of S lead to
\* in any number of steps.
Bases(c) == ({prog.parent[c]} \ {None}) \cup Range(prog.interfaces[c])
Leads(c) ==
  Bases(c) \cup (IF c \in prog.statics \cap prog.used THEN {prog.held[c]} \ {None} ELSE {})
    \cup (IF c \in prog.immutable THEN Range(prog.types[c]) ELSE {})
Reached(S) ==
  {d \in Classes : \A T \in SUBSET Classes :
                    S \subseteq T /\ (\A c \in T : Leads(c) \subseteq T) => d \in T}

\* Copying what a class is derived from leads to the class itself, which is
\* being copied already: by an object in a static member of an ancestor.
HoldsDescendant == \E c \in Classes \ prog.immutable : c \in Reached(Bases(c))

\* An immutable class is entered before its parent and the types of its
\* properties, so a subclass can come first and initialise it with defaults,
\* unless the whole table is copied in its order.
MayFollowChild(c) ==
  /\ \E d \in prog.immutable : c \in Ancestors[d]
  /\ ~prog.inheritAll \/ \E d \in Classes : prog.types[d] # <<>>

\* The thread gets only what it needs and its class is immutable: that class
\* and those it depends on are entered first and bound in the loop, and what
\* their static members hold may need more, or one that is not bound yet.
LoopNeedsMore == ~prog.inheritAll /\ prog.thread \in prog.immutable

\* The class table of a thread that starts is not moved in memory while a loop
\* runs over it, unless LoopNeedsMore.
ClassLoopSound ==
  \A i \in DOMAIN todo :
    todo[i].op = "bindat" => todo[i].moved = ClassesMoved \/ LoopNeedsMore

\* The thread's own pointers are to what it has: no entry refers to a class of
\* the creator, or to a copy that is not the one in the class table, neither by
\* its parent and interfaces nor by the scope of its methods (those that an
\* anonymous class has from a trait excepted), for anonymous classes linked
\* later as well.
PointersOwn ==
  /\ TypeOK
  /\ Quiet => \A c \in Copied :
       /\ \/ ent[entry[c]].linked => ent[entry[c]].supers = {entry[d] : d \in Range(Supers(c))}
          \/ HoldsDescendant
       /\ scope[c] = entry[c]
       /\ traited[c] \in {NoEntry, entry[c]} \/ c \in prog.anonymous

\* Every object that was met during a preparation is of the entry that the
\* class table has: no class is copied twice; and it was made when its class
\* knew how many properties it has, in a thread that copies what it needs.
InstancesRight ==
  \A o \in objects :
    /\ Quiet => o.entry = entry[ClassOf(o.entry)] \/ HoldsDescendant
    /\ o.sized \/ prog.inheritAll \/ HoldsDescendant \/ LoopNeedsMore

\* Static members start with the values that they have in the creator.
StaticsCurrent ==
  \A c \in Classes :
    entry[c] # NoEntry /\ c \in prog.used \cap prog.statics /\ IsLinked(entry[c])
      => \/ ent[entry[c]].value = "current"
         \/ MayFollowChild(c) \/ (c \in prog.immutable /\ HoldsDescendant)

\* An inherited static member is the one of the class that declares it, and no
\* slot points into a table that has been freed.
StaticsShared ==
  \A c \in Copied : \A d \in prog.statics \cap Ancestors[c] :
    ent[entry[c]].linked =>
      \/ /\ ~IsShared(entry[d]) => ent[entry[c]].slots[d] = <<entry[d], ent[entry[d]].table>>
         /\ ent[entry[c]].value # None => ent[entry[c]].cells[d] = entry[d]
      \/ HoldsDescendant

\* Between two preparations the static members of every class of the thread
\* have the creator's values, and are shared with the subclasses; the loop that
\* gives them these values does not outlive the table it runs over.
StaticsRight == ClassLoopSound /\ (Quiet => StaticsCurrent /\ StaticsShared)

\* Every preparation ends, whatever classes refer to one another.
PreparationEnds == todo # <<>> ~> todo = <<>>
====

------------------------------- MODULE Locking -------------------------------
(***************************************************************************)
(* Who waits for whom.  Every operation of the extension is the list of    *)
(* locks it takes and gives back and of the events it waits for, in the    *)
(* code's order; the locks are the globals lock and one monitor per        *)
(* object, all recursive.  A tree of threads runs such operations, starts  *)
(* and joins its children, and shuts down.  What the operations compute    *)
(* is in Store, Registry and Worker.                                       *)
(***************************************************************************)
EXTENDS Integers, Sequences, SequencesExt, FiniteSets

CONSTANTS
  Threads,     \* every thread, main included; a thread is also its Thread object
  Main,        \* the thread that runs the script
  Objects,     \* other Threaded objects
  Programs,    \* what the script and its threads are like; see below
  MaxCalls     \* bound on the operations of each thread, joins and starts apart

(* A program says who creates each thread (creator), which threads are     *)
(* given each object (shares), the pairs <<destination, source>> that are  *)
(* merged (merges), the threads whose object is in a global or static      *)
(* variable (globals), and what else it does (habits): "free", a thread    *)
(* drops its object while others still use their connections, otherwise    *)
(* than by ending; "drop", a thread's last reference to a child it started *)
(* is in the property table of a shared object; "bailout", a fatal error   *)
(* (memory limit, say) may strike while an operation holds a lock.         *)

ASSUME MainAssumption == Main \in Threads
ASSUME FiniteAssumption == IsFiniteSet(Threads) /\ IsFiniteSet(Objects)
ASSUME ProgramsAssumption ==
  Programs \subseteq [creator : [Threads \ {Main} -> Threads],
                      shares : [Objects -> SUBSET Threads],
                      merges : SUBSET (Objects \X Objects),
                      globals : SUBSET Threads,
                      habits : SUBSET {"free", "drop", "bailout"}]
ASSUME MaxCallsAssumption == MaxCalls \in Nat

VARIABLES
  program,  \* the program that runs, one of Programs
  holder,   \* per lock: the thread that owns it, or None
  depth,    \* per lock: how often its owner has taken it
  code,     \* per thread: what the operation under way still has to do
  stage,    \* per thread: how far its life has come
  joined,   \* threads whose creator has called join
  users,    \* per object: the threads connected to it
  calls     \* per thread: operations made so far

lockVars == <<holder, depth>>
vars == <<program, holder, depth, code, stage, joined, users, calls>>

None == "none"
ASSUME NoneAssumption == None \notin Threads

G == "globals"
ASSUME LocksAssumption == G \notin Threads \cup Objects /\ Threads \cap Objects = {}

Locks == {G} \cup Threads \cup Objects
Stages == <<"unborn", "starting", "ready", "running", "awaiting", "exiting", "dead">>
StageOf(s) == SelectInSeq(Stages, LAMBDA x : x = s)

(* What an operation is made of.                                           *)
Lock(l) == [do |-> "lock", on |-> l]
Unlock(l) == [do |-> "unlock", on |-> l]
Create(c) == [do |-> "create", on |-> c]
Joined(c) == [do |-> "joined", on |-> c]     \* set JOINED
Exit(c) == [do |-> "exit", on |-> c]         \* set EXIT
Ready(c) == [do |-> "ready", on |-> c]     \* wait until c is that far
Await(c) == [do |-> "awaiting", on |-> c]
Gone(c) == [do |-> "dead", on |-> c]
Become(s) == [do |-> "become", on |-> s]

Brief(l) == <<Lock(l), Unlock(l)>>
Within(l, inner) == <<Lock(l)>> \o inner \o <<Unlock(l)>>

\* Op(x) for every x in S, one after the other.
Each(S, Op(_)) == FlattenSeq([i \in 1 .. Cardinality(S) |-> Op(SetToSeq(S)[i])])

-----------------------------------------------------------------------------
(* The operations.                                                         *)

\* pthreads_globals_object_alloc.
New == Brief(G)

\* pthreads_store_read, and the sync in pthreads_store_write, of a property
\* that holds a Threaded object: the registry is asked with the monitor held.
Access(o) == Within(o, Brief(G))

\* pthreads_base_free: the store is freed or persisted with the globals lock
\* held.
FreeObject(o) == Within(G, Brief(o))

\* pthreads_store_merge of a ThreadedArray.
Merge(dest, src) == Within(dest, Brief(src))

\* Mutant: start() does not wait for READY.
StartUnready(c) == Brief(c) \o <<Create(c)>>

\* pthreads_start.
Start(c) == Brief(c) \o <<Create(c), Ready(c)>>

\* Mutants: join() returns early, with the monitor locked; the monitor is kept
\* until the thread is gone.
JoinKeeping(c, reach) ==
  <<Lock(c), Joined(c), Unlock(c), Await(c), Lock(c), Exit(c)>>

JoinLocked(c, reach) ==
  <<Lock(c), Joined(c), Unlock(c), Await(c)>>
    \o Within(c, Brief(G) \o Each(reach, Access) \o <<Exit(c), Gone(c)>>)

\* pthreads_join; the full sync goes on to the objects c has stored (reach).
Join(c, reach) ==
  <<Lock(c), Joined(c), Unlock(c), Await(c)>>
    \o Within(c, Brief(G) \o Each(reach, Access))
    \o <<Lock(c), Exit(c), Unlock(c), Gone(c)>>

\* A sync under the monitor of o removes from the cache the last reference
\* to a child: pthreads_base_dtor joins it there.
DropChild(o, c, reach) == Within(o, Join(c, reach) \o FreeObject(c))

\* pthreads_prepared_startup, which sets READY before it gives the lock back.
PreparedStartup == Within(G, <<Become("ready")>>) \o <<Become("running")>>

\* pthreads_prepared_shutdown: request shutdown destroys what globals still
\* hold, with the globals lock held.
PreparedShutdown(left) ==
  LET Destroy(c) == Join(c, {}) \o FreeObject(c)
  IN Within(G, Each(left, Destroy)) \o <<Become("dead")>>

\* The end of pthreads_routine, once EXIT is set: $this is freed, then the
\* connections that it had cached, and the thread shuts down.
RoutineEnd(t, reach, left) ==
  Brief(t) \o FreeObject(t) \o Each(reach, FreeObject) \o PreparedShutdown(left)

-----------------------------------------------------------------------------
(* Running them.                                                           *)

TypeOK ==
  /\ program \in Programs
  /\ holder \in [Locks -> Threads \cup {None}]
  /\ depth \in [Locks -> Nat]
  /\ \A l \in Locks : holder[l] = None <=> depth[l] = 0
  /\ \A t \in Threads : \A i \in DOMAIN code[t] :
       code[t][i].on \in Locks \cup Range(Stages)
  /\ stage \in [Threads -> Range(Stages)]
  /\ joined \subseteq Threads \ {Main}
  /\ users \in [Objects -> SUBSET Threads]
  /\ calls \in [Threads -> 0 .. MaxCalls]

Init ==
  /\ program \in Programs
  /\ holder = [l \in Locks |-> None] /\ depth = [l \in Locks |-> 0]
  /\ code = [t \in Threads |-> << >>]
  /\ stage = [t \in Threads |-> IF t = Main THEN "running" ELSE "unborn"]
  /\ joined = {}
  /\ users = program.shares
  /\ calls = [t \in Threads |-> 0]

Children(t) == {c \in Threads \ {Main} : program.creator[c] = t}
Reach(t) == {o \in Objects : t \in users[o]}
Started(t) == {c \in Children(t) : stage[c] # "unborn" /\ c \notin joined}

\* t is in PHP code, between two operations.
InPhp(t) == stage[t] = "running" /\ code[t] = << >>

Begin(t, what) ==
  /\ InPhp(t)
  /\ code' = [code EXCEPT ![t] = what]
  /\ UNCHANGED <<holder, depth, stage, joined>>

Call(t, what) ==
  /\ calls[t] < MaxCalls
  /\ calls' = [calls EXCEPT ![t] = @ + 1]
  /\ Begin(t, what)

CallNew(t) == Call(t, New) /\ UNCHANGED users

CallAccess(t, o) == t \in users[o] /\ Call(t, Access(o)) /\ UNCHANGED users

CallMerge(t, pair) ==
  /\ t \in users[pair[1]] \cap users[pair[2]]
  /\ Call(t, Merge(pair[1], pair[2]))
  /\ UNCHANGED users

\* The last PHP object of t for o goes away.
CallFree(t, o) ==
  /\ t \in users[o]
  /\ "free" \in program.habits \/ users[o] = {t}
  /\ Call(t, FreeObject(o))
  /\ users' = [users EXCEPT ![o] = @ \ {t}]

CallStart(t, c) ==
  /\ c \in Children(t) /\ stage[c] = "unborn"
  /\ Begin(t, Start(c))
  /\ UNCHANGED <<users, calls>>

CallJoin(t, c) ==
  /\ c \in Started(t)
  /\ Begin(t, Join(c, Reach(c)))
  /\ UNCHANGED <<users, calls>>

CallDropChild(t, o, c) ==
  /\ "drop" \in program.habits
  /\ c \in Started(t) /\ t \in users[o]
  /\ Call(t, DropChild(o, c, Reach(c)))
  /\ UNCHANGED users

Lockable(t, l) == holder[l] \in {None, t}

\* The next thing an operation does; a lock or an event may not be there yet.
Step(t) ==
  /\ code[t] # << >>
  /\ LET do == Head(code[t]).do
         on == Head(code[t]).on
         next == [code EXCEPT ![t] = Tail(@)]
     IN \/ /\ do = "lock" /\ Lockable(t, on)
           /\ holder' = [holder EXCEPT ![on] = t]
           /\ depth' = [depth EXCEPT ![on] = @ + 1]
           /\ code' = next /\ UNCHANGED <<stage, joined>>
        \/ /\ do = "unlock"
           /\ depth' = [depth EXCEPT ![on] = @ - 1]
           /\ holder' = [holder EXCEPT ![on] = IF depth[on] = 1 THEN None ELSE t]
           /\ code' = next /\ UNCHANGED <<stage, joined>>
        \/ /\ do = "create"
           /\ stage' = [stage EXCEPT ![on] = "starting"]
           /\ code' = [next EXCEPT ![on] = PreparedStartup]
           /\ UNCHANGED <<lockVars, joined>>
        \/ /\ do = "joined"
           /\ joined' = joined \cup {on}
           /\ code' = next /\ UNCHANGED <<lockVars, stage>>
        \/ /\ do = "exit"
           /\ stage' = [stage EXCEPT ![on] = "exiting"]
           /\ code' = [next EXCEPT ![on] = RoutineEnd(on, Reach(on), Started(on))]
           /\ UNCHANGED <<lockVars, joined>>
        \/ /\ do \in {"ready", "awaiting", "dead"}
           /\ StageOf(stage[on]) >= StageOf(do)
           /\ code' = next /\ UNCHANGED <<lockVars, stage, joined>>
        \/ /\ do = "become"
           /\ stage' = [stage EXCEPT ![t] = on]
           /\ code' = next /\ UNCHANGED <<lockVars, joined>>
  /\ UNCHANGED <<users, calls>>

\* run() returns: local variables are gone, so the children they held have
\* been joined.
RunReturns(t) ==
  /\ t # Main /\ InPhp(t) /\ Started(t) \subseteq program.globals
  /\ stage' = [stage EXCEPT ![t] = "awaiting"]
  /\ UNCHANGED <<lockVars, code, joined, users, calls>>

\* A fatal error (the memory limit, while a property is restored or an object
\* connected): longjmp to the end of run(), past every unlock.  It is left out
\* while t has children to join: destructors do not run after it.
Bailout(t) ==
  /\ "bailout" \in program.habits
  /\ t # Main /\ stage[t] = "running" /\ Started(t) = {}
  /\ \E o \in Objects : holder[o] = t /\ code[t] # << >> /\ Last(code[t]) = Unlock(o)
  /\ stage' = [stage EXCEPT ![t] = "awaiting"]
  /\ code' = [code EXCEPT ![t] = << >>]
  /\ UNCHANGED <<lockVars, joined, users, calls>>

\* The script has joined its children and does nothing more.
ScriptDone ==
  /\ InPhp(Main) /\ Started(Main) = {}
  /\ UNCHANGED vars

ThreadStep(t) ==
  \/ CallNew(t) \/ Step(t) \/ RunReturns(t) \/ Bailout(t)
  \/ \E o \in Objects : CallAccess(t, o) \/ CallFree(t, o)
  \/ \E p \in program.merges : CallMerge(t, p)
  \/ \E c \in Threads : CallStart(t, c) \/ CallJoin(t, c)
  \/ \E o \in Objects, c \in Threads : CallDropChild(t, o, c)

Next ==
  \/ (\E t \in Threads : ThreadStep(t)) /\ UNCHANGED program
  \/ ScriptDone

\* A mutex is not withheld for ever from a thread that waits for it, PHP code
\* returns, and local variables that hold children go out of scope.
Fairness ==
  \A t \in Threads :
    /\ SF_vars(Step(t) /\ UNCHANGED program)
    /\ WF_vars(RunReturns(t) /\ UNCHANGED program)
    /\ t # Main =>
         WF_vars(\E c \in Threads \ program.globals :
                   CallJoin(t, c) /\ UNCHANGED program)

Spec == Init /\ [][Next]_vars /\ Fairness

-----------------------------------------------------------------------------
(* Properties.                                                             *)

\* The threads that t cannot go on without.
WaitsFor(t) ==
  IF code[t] = << >> THEN {}
  ELSE LET do == Head(code[t]).do
           on == Head(code[t]).on
       IN CASE do = "lock" /\ ~Lockable(t, on) -> {holder[on]}
            [] do \in {"ready", "awaiting", "dead"}
                 /\ StageOf(stage[on]) < StageOf(do) -> {on}
            [] OTHER -> {}

\* A program that stays clear of the lock orders the extension mixes: it
\* has no habits, keeps no thread in a global variable, merges in one
\* direction only, and shares each object between a thread and one child.
Disciplined ==
  /\ program.habits = {} /\ program.globals = {}
  /\ \A p \in program.merges : <<p[2], p[1]>> \notin program.merges
  /\ \A o \in Objects : \E c \in Threads \ {Main} :
       program.shares[o] \subseteq {c, program.creator[c]}

\* In a disciplined program no group of threads waits for locks and events
\* that only members of the group could provide, however the globals lock
\* and the monitors nest in pthreads_store_read, pthreads_base_free,
\* pthreads_join and the ends of threads.  A thread that has finished its PHP
\* code gives up nothing until it is joined, so it counts as waiting for its
\* creator.
NoDeadlock ==
  Disciplined =>
    \A group \in (SUBSET Threads) \ {{}} :
      \E t \in group :
        IF t # Main /\ stage[t] = "awaiting"
        THEN program.creator[t] \notin group
        ELSE WaitsFor(t) \cap group = {}

\* While a new thread copies classes, functions and constants from its
\* creator's memory in pthreads_prepared_startup, the creator stands in
\* start() and changes none of them, whatever the program does.
CreatorStandsStill ==
  /\ TypeOK
  /\ \A c \in Threads \ {Main} :
       stage[c] = "starting" =>
         LET theirs == code[program.creator[c]]
         IN theirs # << >> /\ Head(theirs) = Ready(c)

\* Every operation of every thread of a disciplined program ends: the locks
\* it needs are given back and the events it waits for come.
OperationsEnd ==
  \A t \in Threads : (Disciplined /\ code[t] # << >>) ~> (code[t] = << >>)
====

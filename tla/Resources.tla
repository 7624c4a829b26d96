------------------------------ MODULE Resources ------------------------------
(***************************************************************************)
(* PHP resources (streams, files) that one thread opens and others read    *)
(* out of a Threaded object.  A reader uses the owner's zend_resource      *)
(* itself: it is entered into the reader's EG(regular_list) and noted in   *)
(* PTHREADS_ZG(resources), so that the reader's end does not destroy it.   *)
(* References are counted without a lock: an update is a load and a store, *)
(* and updates of two threads at once lose one of them.  A thread that     *)
(* would use a freed resource is not followed any further.                 *)
(* One shared property holds at most one resource.                         *)
(***************************************************************************)
EXTENDS Integers, Sequences, FiniteSets

CONSTANTS
  Threads, Main,
  Sharers,       \* the threads whose resources the program stores
  Closes,        \* the program closes resources
  ShutdownReads, \* shutdown functions and destructors read the property
  Limit,         \* bound on the resources opened
  MaxTaken,      \* bound on the references that writes and reads take
  None           \* no thread, no variable

ASSUME ThreadsAssumption == Main \in Threads /\ Sharers \subseteq Threads /\ IsFiniteSet(Threads)
ASSUME SwitchesAssumption == {Closes, ShutdownReads} \subseteq BOOLEAN
ASSUME LimitAssumption == Limit \in Nat /\ MaxTaken \in Nat
ASSUME NoneAssumption == None \notin Threads

VARIABLES
  phase,     \* where each thread is: run, shutdown, deactivate, gone
  resource,  \* the resources: owner, handle, count, who closed and freed them
  list,      \* EG(regular_list) of each thread; 0 where an entry is deleted
  kept,      \* PTHREADS_ZG(resources) of each thread
  held,      \* the variables of each thread: the resource meant and the one had
  stored,    \* the shared property: resource.original and resource.ls
  counting,  \* the update of a reference count that each thread is in
  taken,     \* how many references writes and reads have taken
  givenUp    \* history: the resources of which the owner has dropped a variable

resourceVars == <<phase, resource, list, kept, held, stored, counting, taken, givenUp>>

Ids == 1 .. Limit
Variable == [meant : Ids, has : Ids]
Empty == [original |-> 0, ls |-> None]
Idle == [op |-> "none", var |-> None, seen |-> 0]

ResourcesTypeOK ==
  /\ phase \in [Threads -> {"run", "shutdown", "deactivate", "gone"}]
  /\ resource \in Seq([owner : Threads, handle : Nat \ {0}, refs : Int,
                       closed : Threads \cup {None, "program"},
                       freed : Threads \cup {None}])
  /\ Len(resource) <= Limit
  /\ list \in [Threads -> Seq(0 .. Len(resource))]
  /\ kept \in [Threads -> SUBSET DOMAIN resource]
  /\ held \in [Threads -> SUBSET Variable]
  /\ stored \in [original : 0 .. Len(resource), ls : Threads \cup {None}]
  /\ counting \in [Threads -> [op : {"none", "store", "read", "drop"},
                               var : Variable \cup {None}, seen : Int]]
  /\ taken \in 0 .. MaxTaken /\ givenUp \in SUBSET DOMAIN resource

ResourcesInit ==
  /\ phase = [t \in Threads |-> "run"] /\ resource = <<>>
  /\ list = [t \in Threads |-> <<>>] /\ kept = [t \in Threads |-> {}]
  /\ held = [t \in Threads |-> {}] /\ stored = Empty
  /\ counting = [t \in Threads |-> Idle] /\ taken = 0 /\ givenUp = {}

-----------------------------------------------------------------------------
(* Entries of EG(regular_list).                                            *)

\* pthreads_resources_keep and pthreads_resources_kept.
Keep(t, r) == [kept EXCEPT ![t] = @ \cup {r}]
Kept(t, r) == r \in kept[t]

\* Mutant: what is kept is destroyed like anything else.
DestroysAll(t, r) == TRUE

\* pthreads_prepared_resource_dtor, which only started threads install.
Destroys(t, r) == t = Main \/ ~Kept(t, r)

Closed(t, r) == IF r.closed = None THEN [r EXCEPT !.closed = t] ELSE r
Destroyed(t, r) == [Closed(t, r) EXCEPT !.freed = t]

\* zend_list_free: the entry under the resource's handle goes.
ListFree(t, r) ==
  LET h == resource[r].handle
      x == IF h \in DOMAIN list[t] THEN list[t][h] ELSE 0
  IN /\ list' = IF x = 0 THEN list ELSE [list EXCEPT ![t][h] = 0]
     /\ resource' =
          [q \in DOMAIN resource |->
             LET this == IF q = r THEN [resource[q] EXCEPT !.refs = 0] ELSE resource[q]
             IN IF q = x /\ Destroys(t, x) THEN Destroyed(t, this) ELSE this]

-----------------------------------------------------------------------------
(* The program.                                                            *)

Runs(t) == phase[t] = "run" \/ (phase[t] = "shutdown" /\ ShutdownReads)

\* Begins to count a reference; the monitor of the object serialises reads.
Begin(t, op, v) ==
  /\ counting[t] = Idle /\ resource[v.has].freed = None
  /\ op = "read" => v \notin held[t] /\ \A u \in Threads : counting[u].op # "read"
  /\ IF op = "drop" THEN UNCHANGED taken ELSE taken < MaxTaken /\ taken' = taken + 1
  /\ counting' = [counting EXCEPT ![t] = [op |-> op, var |-> v,
                                          seen |-> resource[v.has].refs]]

Open(t) ==
  /\ phase[t] = "run" /\ counting[t] = Idle /\ Len(resource) < Limit
  /\ LET r == Len(resource) + 1 IN
       /\ resource' = Append(resource,
            [owner |-> t, handle |-> Len(list[t]) + 1, refs |-> 1,
             closed |-> None, freed |-> None])
       /\ list' = [list EXCEPT ![t] = Append(@, r)]
       /\ held' = [held EXCEPT ![t] = @ \cup {[meant |-> r, has |-> r]}]
  /\ UNCHANGED <<phase, kept, stored, counting, taken, givenUp>>

\* fclose(): the resource is closed, not freed.
Close(t) ==
  /\ Closes /\ phase[t] = "run" /\ counting[t] = Idle
  /\ \E v \in held[t] :
       /\ resource[v.has].closed = None
       /\ resource' = [resource EXCEPT ![v.has].closed = "program"]
  /\ UNCHANGED <<phase, list, kept, held, stored, counting, taken, givenUp>>

Write(t) ==
  /\ Runs(t)
  /\ \E v \in held[t] : resource[v.has].owner \in Sharers /\ Begin(t, "store", v)
  /\ UNCHANGED <<phase, resource, list, kept, held, stored, givenUp>>

\* The property's reference is counted and it is put into the store.
Written(t) ==
  /\ counting[t].op = "store"
  /\ LET r == counting[t].var.has IN
       /\ resource' = [resource EXCEPT ![r].refs = counting[t].seen + 1]
       /\ stored' = [original |-> r, ls |-> t]
  /\ counting' = [counting EXCEPT ![t] = Idle]
  /\ UNCHANGED <<phase, list, kept, held, taken, givenUp>>

\* Unsetting the property gives nothing back.
Unset(t) ==
  /\ phase[t] = "run" /\ counting[t] = Idle /\ stored # Empty
  /\ stored' = Empty
  /\ UNCHANGED <<phase, resource, list, kept, held, counting, taken, givenUp>>

\* A closed resource has no ptr.
Ptr(r) == IF resource[r].closed = None THEN r ELSE 0

\* The entries of the reader's list with the same ptr.
Found(t, r) == {i \in DOMAIN list[t] : list[t][i] # 0 /\ Ptr(list[t][i]) = Ptr(r)}

\* pthreads_store_convert: the thread's own storage gives the resource, ...
ReadOwn(t) ==
  /\ Runs(t) /\ stored # Empty /\ stored.ls = t
  /\ Begin(t, "read", [meant |-> stored.original, has |-> stored.original])
  /\ UNCHANGED <<phase, resource, list, kept, held, stored, givenUp>>

\* ... another's is looked up among the reader's resources, ...
ReadFound(t) ==
  /\ Runs(t) /\ stored # Empty /\ stored.ls # t
  /\ resource[stored.original].freed = None
  /\ \E i \in Found(t, stored.original) :
       /\ \A j \in Found(t, stored.original) : i <= j
       /\ Begin(t, "read", [meant |-> stored.original, has |-> list[t][i]])
  /\ UNCHANGED <<phase, resource, list, kept, held, stored, givenUp>>

\* Mutant: what another thread owns is entered but not kept.
ReadForeignUnkept(t) ==
  /\ Runs(t) /\ stored # Empty /\ stored.ls # t
  /\ resource[stored.original].freed = None
  /\ Found(t, stored.original) = {}
  /\ Begin(t, "read", [meant |-> stored.original, has |-> stored.original])
  /\ list' = [list EXCEPT ![t] = Append(@, stored.original)]
  /\ UNCHANGED <<phase, resource, kept, held, stored, givenUp>>

\* ... and is entered there and kept when it is not among them.
ReadForeign(t) ==
  /\ Runs(t) /\ stored # Empty /\ stored.ls # t
  /\ resource[stored.original].freed = None
  /\ Found(t, stored.original) = {}
  /\ Begin(t, "read", [meant |-> stored.original, has |-> stored.original])
  /\ list' = [list EXCEPT ![t] = Append(@, stored.original)]
  /\ kept' = Keep(t, stored.original)
  /\ UNCHANGED <<phase, resource, held, stored, givenUp>>

HasRead(t) ==
  /\ counting[t].op = "read"
  /\ LET v == counting[t].var IN
       /\ resource' = [resource EXCEPT ![v.has].refs = counting[t].seen + 1]
       /\ held' = [held EXCEPT ![t] = @ \cup {v}]
  /\ counting' = [counting EXCEPT ![t] = Idle]
  /\ UNCHANGED <<phase, list, kept, stored, taken, givenUp>>

\* A variable goes, of the program or at the end of the thread.
Drop(t) ==
  /\ Runs(t) \/ phase[t] = "deactivate"
  /\ \E v \in held[t] :
       /\ Begin(t, "drop", v)
       /\ held' = [held EXCEPT ![t] = @ \ {v}]
       /\ givenUp' = givenUp \cup {r \in {v.has} : resource[r].owner = t}
  /\ UNCHANGED <<phase, resource, list, kept, stored>>

Dropped(t) ==
  /\ counting[t].op = "drop"
  /\ LET r == counting[t].var.has IN
       IF counting[t].seen = 1
       THEN ListFree(t, r)
       ELSE /\ resource' = [resource EXCEPT ![r].refs = counting[t].seen - 1]
            /\ UNCHANGED list
  /\ counting' = [counting EXCEPT ![t] = Idle]
  /\ UNCHANGED <<phase, kept, held, stored, taken, givenUp>>

-----------------------------------------------------------------------------
(* The end of a thread.                                                    *)

\* pthreads_prepared_shutdown takes what is kept out of the list, through the
\* destructor that leaves it alone ...
Cleanup(t) ==
  /\ t # Main /\ phase[t] = "run" /\ counting[t] = Idle
  /\ phase' = [phase EXCEPT ![t] = "shutdown"]
  /\ list' = [list EXCEPT ![t] =
                [i \in DOMAIN @ |-> IF Kept(t, @[i]) THEN 0 ELSE @[i]]]
  /\ resource' = [r \in DOMAIN resource |->
                    IF Kept(t, r) /\ Destroys(t, r)
                    THEN Destroyed(t, resource[r]) ELSE resource[r]]
  /\ UNCHANGED <<kept, held, stored, counting, taken, givenUp>>

\* ... and the main thread, which has joined the others, goes on at once.
MainEnds ==
  /\ phase[Main] = "run" /\ counting[Main] = Idle
  /\ \A u \in Threads \ {Main} : phase[u] = "gone"
  /\ phase' = [phase EXCEPT ![Main] = "shutdown"]
  /\ UNCHANGED <<resource, list, kept, held, stored, counting, taken, givenUp>>

\* php_request_shutdown closes every resource in the list, drops the
\* variables one by one ...
CloseList(t) ==
  /\ phase[t] = "shutdown" /\ counting[t] = Idle
  /\ phase' = [phase EXCEPT ![t] = "deactivate"]
  /\ resource' = [r \in DOMAIN resource |->
                    IF \E i \in DOMAIN list[t] : list[t][i] = r
                    THEN Closed(t, resource[r]) ELSE resource[r]]
  /\ UNCHANGED <<list, kept, held, stored, counting, taken, givenUp>>

\* ... and destroys the list; the thread's tables go with it.
DestroyList(t) ==
  /\ phase[t] = "deactivate" /\ counting[t] = Idle /\ held[t] = {}
  /\ phase' = [phase EXCEPT ![t] = "gone"]
  /\ resource' = [r \in DOMAIN resource |->
                    IF (\E i \in DOMAIN list[t] : list[t][i] = r) /\ Destroys(t, r)
                    THEN Destroyed(t, resource[r]) ELSE resource[r]]
  /\ list' = [list EXCEPT ![t] = <<>>] /\ kept' = [kept EXCEPT ![t] = {}]
  /\ UNCHANGED <<held, stored, counting, taken, givenUp>>

Program(t) ==
  Open(t) \/ Close(t) \/ Write(t) \/ Unset(t) \/ Drop(t)
    \/ ReadOwn(t) \/ ReadFound(t) \/ ReadForeign(t)
Count(t) == Written(t) \/ HasRead(t) \/ Dropped(t)
Ends(t) == Cleanup(t) \/ CloseList(t) \/ DestroyList(t)
ResourcesNext == MainEnds \/ \E t \in Threads : Program(t) \/ Count(t) \/ Ends(t)

ResourcesSpec == ResourcesInit /\ [][ResourcesNext]_resourceVars

-----------------------------------------------------------------------------
(* Properties.                                                             *)

\* tests/resource-keeping.phpt: resources "are only destroyed by their owner",
\* whoever else has read them, and in whatever order the threads end.
OnlyOwnerDestroys ==
  \A r \in DOMAIN resource :
    /\ resource[r].closed \in {None, "program", resource[r].owner}
    /\ resource[r].freed \in {None, resource[r].owner}

\* What a thread points to: in a variable, in the one it is counting for, in
\* its list or, as it may read it, in the shared property.
PointsTo(t, r) ==
  \/ \E v \in held[t] : v.has = r
  \/ counting[t] # Idle /\ counting[t].var.has = r
  \/ \E i \in DOMAIN list[t] : list[t][i] = r
  \/ stored.original = r

\* Counts go wrong when threads update them at once, but that alone frees
\* nothing that is shared: until its owner has dropped a variable with it, a
\* resource that any other thread can have is not freed while a thread that
\* has not ended points to it.  And a thread that read an open resource has
\* the one that was stored.
PointersRight ==
  /\ ResourcesTypeOK
  /\ \A r \in DOMAIN resource : resource[r].freed # None /\ r \notin givenUp =>
       \A t \in Threads :
         phase[t] # "gone" /\ (t # resource[r].owner \/ resource[r].owner \in Sharers)
           => ~PointsTo(t, r)
  /\ \A t \in Threads : \A v \in held[t] :
       resource[v.meant].closed = None => v.has = v.meant
=============================================================================

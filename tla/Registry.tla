------------------------------ MODULE Registry ------------------------------
(***************************************************************************)
(* The registry of live Threaded objects and the connections between       *)
(* threads.  A Threaded object is one shared structure (ts_obj) and one    *)
(* PHP object per thread that uses it: the original on the thread that     *)
(* constructed it, connections elsewhere.  Storages and serialised strings *)
(* (slots) name an object by the address of its original, and the only     *)
(* test of such an address is whether the registry contains it.            *)
(*                                                                         *)
(* A critical section of the globals lock is one step.  What the code does *)
(* before it or after it is a step of its own: construction follows        *)
(* registration, memory is released after deregistration, and a sync       *)
(* validates an address in one section and reads through it afterwards.    *)
(* Shared structures are known by numbers that are never used twice.       *)
(***************************************************************************)
EXTENDS Integers, FiniteSets

CONSTANTS
  Threads,     \* PHP threads
  Addresses,   \* memory for pthreads_zend_object_t
  Slots,       \* properties and strings in which programs keep objects
  MaxObjects,  \* bound on the number of shared structures constructed
  Freedoms     \* what programs may do: sets of freedoms, see below

(* Freedoms: "outlive", a thread drops an original that is still stored or *)
(* connected elsewhere; "reuse", the allocator hands out freed addresses   *)
(* again while they are still stored.  A behaviour has one set of them.    *)

ASSUME MaxObjectsAssumption == MaxObjects \in Nat
ASSUME FreedomsAssumption == Freedoms \subseteq SUBSET {"outlive", "reuse"}
ASSUME FiniteAssumption == IsFiniteSet(Threads) /\ IsFiniteSet(Addresses)

NULL == 0   \* no address, no structure
ASSUME AddressesAssumption == NULL \notin Addresses

Objects == 1 .. MaxObjects

VARIABLES
  freedoms,       \* what this program does
  objects,        \* PTHREADS_G(objects)
  mem,            \* state of the memory at each address
  owner,          \* per address: base->owner
  ts_obj,         \* per address: base->ts_obj
  original_zobj,  \* per address: base->original_zobj
  refcount,       \* per shared structure
  freed,          \* shared structures given back to free()
  made,           \* how many shared structures have been constructed
  resolve,        \* per thread: its primary connection to each structure
  slot,           \* what each slot names: the address stored in it
  meant,          \* history: the shared structure that address stood for
  pc,             \* per thread: where it is
  arg,            \* per thread: the address it works on
  source,         \* per thread: the address it will connect to, or the slot
  lastRead,       \* history: what the last read was to return and returned
  faults          \* history: reads through memory that is not an object

memVars == <<mem, owner, ts_obj, original_zobj>>
tsVars == <<refcount, freed, made>>
slotVars == <<slot, meant>>
histVars == <<lastRead, faults>>
vars == <<freedoms, objects, memVars, tsVars, resolve, slotVars, pc, arg, source, histVars>>

NoOwner == "nobody"

TypeOK ==
  /\ freedoms \in Freedoms
  /\ objects \subseteq Addresses
  /\ mem \in [Addresses -> {"free", "raw", "live", "dying"}]
  /\ owner \in [Addresses -> Threads \cup {NoOwner}]
  /\ ts_obj \in [Addresses -> Objects \cup {NULL}]
  /\ original_zobj \in [Addresses -> Addresses \cup {NULL}]
  /\ refcount \in [Objects -> Nat]
  /\ freed \subseteq 1 .. made
  /\ made \in 0 .. MaxObjects
  /\ resolve \in [Threads -> [Objects -> Addresses \cup {NULL}]]
  /\ slot \in [Slots -> Addresses \cup {NULL}]
  /\ meant \in [Slots -> Objects \cup {NULL}]
  /\ pc \in [Threads -> {"idle", "construct", "connect", "free", "release", "sync",
                        "crashed"}]
  /\ arg \in [Threads -> Addresses \cup {NULL}]
  /\ source \in [Threads -> Addresses \cup Slots \cup {NULL}]
  /\ lastRead \in [want : Objects \cup {NULL}, got : Objects \cup {NULL}]
  /\ faults \subseteq {"connect", "sync"}

Init ==
  /\ freedoms \in Freedoms
  /\ objects = {}
  /\ mem = [a \in Addresses |-> "free"]
  /\ owner = [a \in Addresses |-> NoOwner]
  /\ ts_obj = [a \in Addresses |-> NULL]
  /\ original_zobj = [a \in Addresses |-> NULL]
  /\ refcount = [o \in Objects |-> 0] /\ freed = {} /\ made = 0
  /\ resolve = [t \in Threads |-> [o \in Objects |-> NULL]]
  /\ slot = [s \in Slots |-> NULL] /\ meant = [s \in Slots |-> NULL]
  /\ pc = [t \in Threads |-> "idle"]
  /\ arg = [t \in Threads |-> NULL]
  /\ source = [t \in Threads |-> NULL]
  /\ lastRead = [want |-> NULL, got |-> NULL]
  /\ faults = {}

Goto(t, where, a, src) ==
  /\ pc' = [pc EXCEPT ![t] = where]
  /\ arg' = [arg EXCEPT ![t] = a]
  /\ source' = [source EXCEPT ![t] = src]

Return(t) == Goto(t, "idle", NULL, NULL)

\* The PHP objects t can use.
Mine(t) == {a \in Addresses : mem[a] = "live" /\ owner[a] = t}

\* The address by which a storage or a serialised string names the object.
Name(a) == IF original_zobj[a] # NULL THEN original_zobj[a] ELSE a

\* The object is being made or freed, and no variable holds it.
Hidden(a) == \E u \in Threads : pc[u] \notin {"idle", "sync"} /\ arg[u] = a

\* The routine of a thread needs the object: the creator keeps a Thread until
\* it is joined and a task while it is queued.
Kept(a) == \E u \in Threads : pc[u] \in {"construct", "connect"} /\ source[u] = a

\* Memory the allocator may hand out: free, and unless reuse is on, named by
\* no slot and no PHP object.
Available(a) ==
  /\ mem[a] = "free"
  /\ \/ "reuse" \in freedoms
     \/ /\ \A s \in Slots : slot[s] # a
        /\ \A b \in Addresses : mem[b] # "free" => original_zobj[b] # a

-----------------------------------------------------------------------------
(* Construction.                                                           *)

\* pthreads_globals_object_alloc: the address is registered before there is
\* an object behind it.  src is the object to connect the new one to, if
\* the routine of a thread makes it for $this or for a task.
Alloc(t, a, src) ==
  /\ pc[t] = "idle" /\ Available(a)
  /\ objects' = objects \cup {a}
  /\ mem' = [mem EXCEPT ![a] = "raw"]
  /\ owner' = [owner EXCEPT ![a] = NoOwner]
  /\ ts_obj' = [ts_obj EXCEPT ![a] = NULL]
  /\ original_zobj' = [original_zobj EXCEPT ![a] = NULL]
  /\ Goto(t, "construct", a, src)
  /\ UNCHANGED <<tsVars, resolve, slotVars, histVars>>

\* Each construction under way will make one structure.
Room == made + Cardinality({u \in Threads : pc[u] = "construct"}) < MaxObjects

New(t, a) == Room /\ Alloc(t, a, NULL)

\* object_init_ex for $this or for the thread's copy of a task; src is the
\* creator's object for the thread or the task.
Spawn(t, a, src) ==
  /\ Room
  /\ mem[src] = "live" /\ owner[src] # t /\ ~Hidden(src)
  /\ Alloc(t, a, src)

\* pthreads_base_ctor and pthreads_ts_object_ctor.
Construct(t) ==
  /\ pc[t] = "construct"
  /\ LET a == arg[t]
         o == made + 1
     IN /\ mem' = [mem EXCEPT ![a] = "live"]
        /\ owner' = [owner EXCEPT ![a] = t]
        /\ ts_obj' = [ts_obj EXCEPT ![a] = o]
        /\ refcount' = [refcount EXCEPT ![o] = 1]
        /\ made' = o
  /\ IF source[t] = NULL
     THEN Return(t)
     ELSE Goto(t, "connect", arg[t], source[t])
  /\ UNCHANGED <<objects, original_zobj, freed, resolve, slotVars, histVars>>

\* Mutant: the new reference is not counted.
ReconnectUncounted(dest, src) ==
  /\ ts_obj' = [ts_obj EXCEPT ![dest] = ts_obj[src]]
  /\ refcount' = [refcount EXCEPT ![ts_obj[dest]] = @ - 1]
  /\ freed' = IF refcount[ts_obj[dest]] = 1 THEN freed \cup {ts_obj[dest]} ELSE freed
  /\ original_zobj' = [original_zobj EXCEPT ![dest] = Name(src)]

\* _pthreads_connect_nolock: dest gives up the structure it was constructed
\* with and shares that of src.
Reconnect(dest, src) ==
  LET old == ts_obj[dest]
      new == ts_obj[src]
  IN /\ ts_obj' = [ts_obj EXCEPT ![dest] = new]
     /\ refcount' = [refcount EXCEPT ![old] = @ - 1, ![new] = @ + 1]
     /\ freed' = IF refcount[old] = 1 THEN freed \cup {old} ELSE freed
     /\ original_zobj' = [original_zobj EXCEPT ![dest] = Name(src)]

\* pthreads_connect, called by pthreads_routine_run_function.
Connect(t) ==
  /\ pc[t] = "connect"
  /\ Reconnect(arg[t], source[t])
  /\ Return(t)
  /\ UNCHANGED <<objects, mem, owner, made, resolve, slotVars, histVars>>

-----------------------------------------------------------------------------
(* Storing and reading.                                                    *)

\* A sync holds the monitor of the object it works on.
Unlocked(s) == \A u \in Threads : pc[u] = "sync" => source[u] # s

\* Mutant: the storing thread's own connection is named.
StoreConnection(t, a, s) ==
  /\ pc[t] = "idle" /\ a \in Mine(t) /\ Unlocked(s)
  /\ slot' = [slot EXCEPT ![s] = a]
  /\ meant' = [meant EXCEPT ![s] = ts_obj[a]]
  /\ UNCHANGED <<objects, memVars, tsVars, resolve, pc, arg, source, histVars>>

\* pthreads_store_create and pthreads_threaded_serialize name the original.
Store(t, a, s) ==
  /\ pc[t] = "idle" /\ a \in Mine(t) /\ Unlocked(s)
  /\ slot' = [slot EXCEPT ![s] = Name(a)]
  /\ meant' = [meant EXCEPT ![s] = ts_obj[a]]
  /\ UNCHANGED <<objects, memVars, tsVars, resolve, pc, arg, source, histVars>>

\* pthreads_store_delete, or the string is dropped.
Erase(t, s) ==
  /\ pc[t] = "idle" /\ slot[s] # NULL /\ Unlocked(s)
  /\ slot' = [slot EXCEPT ![s] = NULL]
  /\ meant' = [meant EXCEPT ![s] = NULL]
  /\ UNCHANGED <<objects, memVars, tsVars, resolve, pc, arg, source, histVars>>

\* A new connection, constructed and connected inside one critical section;
\* the structure it is constructed with comes and goes there too.
NewConnection(t, a, b) ==
  /\ Available(b)
  /\ objects' = objects \cup {b}
  /\ mem' = [mem EXCEPT ![b] = "live"]
  /\ owner' = [owner EXCEPT ![b] = t]
  /\ ts_obj' = [ts_obj EXCEPT ![b] = ts_obj[a]]
  /\ original_zobj' = [original_zobj EXCEPT ![b] = Name(a)]
  /\ refcount' = [refcount EXCEPT ![ts_obj[a]] = @ + 1]
  /\ resolve' = [resolve EXCEPT ![t][ts_obj[a]] = b]
  /\ UNCHANGED <<freed, made>>

Reused == UNCHANGED <<objects, memVars, tsVars, resolve>>

\* pthreads_globals_object_connect for a registered address: the object
\* itself, this thread's connection to it, or a new connection.
ObjectConnect(t, a) ==
  \/ owner[a] = t /\ Reused
  \/ owner[a] # t /\ resolve[t][ts_obj[a]] # NULL /\ Reused
  \/ /\ owner[a] # t /\ resolve[t][ts_obj[a]] = NULL
     /\ \E b \in Addresses : NewConnection(t, a, b)

\* The structure t gets at when it is connected to a.
Reached(t, a) ==
  IF owner[a] # t /\ resolve[t][ts_obj[a]] # NULL
  THEN ts_obj[resolve[t][ts_obj[a]]]
  ELSE ts_obj[a]

\* A property is read, or a serialised object unserialised.
Read(t, s) ==
  LET a == slot[s]
  IN /\ pc[t] = "idle" /\ Unlocked(s)
     /\ a \in objects /\ mem[a] = "live"
     /\ ObjectConnect(t, a)
     /\ lastRead' = [want |-> meant[s], got |-> Reached(t, a)]
     /\ UNCHANGED <<slotVars, pc, arg, source, faults>>

\* The address is registered but its construction has not begun: a null
\* ts_obj, class and owner are followed, and the process dies.
ReadRaw(t, s) ==
  LET a == slot[s]
  IN /\ pc[t] = "idle" /\ Unlocked(s)
     /\ a \in objects /\ mem[a] # "live"
     /\ faults' = faults \cup {"connect"}
     /\ pc' = [u \in Threads |-> "crashed"]
     /\ UNCHANGED <<objects, memVars, tsVars, resolve, slotVars, arg, source,
                    lastRead>>

\* ThreadedConnectionException: the object has already been destroyed.
ReadGone(t, s) ==
  LET a == slot[s]
  IN /\ pc[t] = "idle" /\ Unlocked(s)
     /\ a # NULL /\ a \notin objects
     /\ lastRead' = [want |-> meant[s], got |-> NULL]
     /\ UNCHANGED <<objects, memVars, tsVars, resolve, slotVars, pc, arg,
                    source, faults>>

\* pthreads_copy_zval: t copies a variable that holds another thread's PHP
\* object, while that thread is blocked or is known to keep it.
CopyObject(t, a) ==
  /\ pc[t] = "idle"
  /\ mem[a] = "live" /\ owner[a] # t /\ ~Hidden(a)
  /\ ObjectConnect(t, a)
  /\ UNCHANGED <<slotVars, pc, arg, source, histVars>>

\* pthreads_store_sync_local_properties, under the monitor of the object
\* that has slot s, finds in its cache an object c of this thread that is not
\* the original stored there: first it asks the registry ...
SyncValidate(t, c, s) ==
  /\ pc[t] = "idle" /\ Unlocked(s)
  /\ c \in Mine(t) /\ slot[s] \in objects \ {c}
  /\ Goto(t, "sync", slot[s], s)
  /\ UNCHANGED <<objects, memVars, tsVars, resolve, slotVars, histVars>>

\* ... and, the globals lock released, reads shared->ts_obj.
SyncCompare(t) ==
  /\ pc[t] = "sync"
  /\ faults' = IF mem[arg[t]] = "free" THEN faults \cup {"sync"} ELSE faults
  /\ Return(t)
  /\ UNCHANGED <<objects, memVars, tsVars, resolve, slotVars, lastRead>>

-----------------------------------------------------------------------------
(* Destruction.                                                            *)

\* With a chain of ownership nobody drops an original that is still named.
MayDrop(a) ==
  \/ "outlive" \in freedoms
  \/ original_zobj[a] # NULL
  \/ /\ \A s \in Slots : slot[s] # a
     /\ \A b \in Addresses : mem[b] # "free" => original_zobj[b] # a

\* Mutant: the address is not deregistered.
FreeLockedRegistered(t) ==
  /\ pc[t] = "free"
  /\ LET o == ts_obj[arg[t]]
     IN /\ refcount' = [refcount EXCEPT ![o] = @ - 1]
        /\ freed' = IF refcount[o] = 1 THEN freed \cup {o} ELSE freed
  /\ mem' = [mem EXCEPT ![arg[t]] = "dying"]
  /\ Goto(t, "release", arg[t], NULL)
  /\ UNCHANGED <<objects, owner, ts_obj, original_zobj, made, resolve, slotVars,
                 histVars>>

\* pthreads_base_free up to the globals lock: the thread forgets its primary
\* connection.
FreeBegin(t, a) ==
  /\ pc[t] = "idle" /\ a \in Mine(t) /\ ~Kept(a) /\ MayDrop(a)
  /\ resolve' = [resolve EXCEPT ![t][ts_obj[a]] = IF @ = a THEN NULL ELSE @]
  /\ Goto(t, "free", a, NULL)
  /\ UNCHANGED <<objects, memVars, tsVars, slotVars, histVars>>

\* The critical section of pthreads_base_free.
FreeLocked(t) ==
  /\ pc[t] = "free"
  /\ LET o == ts_obj[arg[t]]
     IN /\ refcount' = [refcount EXCEPT ![o] = @ - 1]
        /\ freed' = IF refcount[o] = 1 THEN freed \cup {o} ELSE freed
  /\ objects' = objects \ {arg[t]}
  /\ mem' = [mem EXCEPT ![arg[t]] = "dying"]
  /\ Goto(t, "release", arg[t], NULL)
  /\ UNCHANGED <<owner, ts_obj, original_zobj, made, resolve, slotVars, histVars>>

\* zend_object_std_dtor; the engine releases the memory.
Release(t) ==
  /\ pc[t] = "release"
  /\ mem' = [mem EXCEPT ![arg[t]] = "free"]
  /\ Return(t)
  /\ UNCHANGED <<objects, owner, ts_obj, original_zobj, tsVars, resolve,
                 slotVars, histVars>>

\* The process has crashed, or made all the objects it makes and freed them.
Ended ==
  /\ \/ \A t \in Threads : pc[t] = "crashed"
     \/ made = MaxObjects /\ \A a \in Addresses : mem[a] = "free"
  /\ UNCHANGED vars

ThreadStep(t) ==
  \/ \E a \in Addresses : New(t, a) \/ CopyObject(t, a) \/ FreeBegin(t, a)
  \/ \E a, src \in Addresses : Spawn(t, a, src)
  \/ Construct(t) \/ Connect(t)
  \/ \E a \in Addresses, s \in Slots : Store(t, a, s) \/ SyncValidate(t, a, s)
  \/ \E s \in Slots : Erase(t, s) \/ Read(t, s) \/ ReadRaw(t, s) \/ ReadGone(t, s)
  \/ SyncCompare(t) \/ FreeLocked(t) \/ Release(t)

Next ==
  \/ (\E t \in Threads : ThreadStep(t)) /\ UNCHANGED freedoms
  \/ Ended

Spec == Init /\ [][Next]_vars

-----------------------------------------------------------------------------
(* Properties.                                                             *)

Connections(o) == {a \in Addresses : mem[a] = "live" /\ ts_obj[a] = o}

\* A shared structure counts exactly the PHP objects on all threads that
\* share it, and is freed when the last of them is, and not before: a
\* connection goes on working after the creator has dropped its original.
RefcountExact ==
  \A o \in 1 .. made :
    /\ refcount[o] = Cardinality(Connections(o))
    /\ o \in freed <=> Connections(o) = {}

\* What pthreads_globals_object_connect finds in resolve is a live object of
\* this thread for that very structure, however connections come and go.
ResolveSound ==
  \A t \in Threads, o \in Objects :
    resolve[t][o] # NULL =>
      /\ resolve[t][o] \in Mine(t) \cap objects
      /\ ts_obj[resolve[t][o]] = o

\* At most one PHP object passes for the original of a structure, so that
\* pthreads_base_dtor joins a thread once and not when a duplicate
\* connection on the creator's thread goes away.
UniqueOriginal ==
  \A a, b \in Addresses :
    /\ mem[a] = "live" /\ mem[b] = "live"
    /\ ts_obj[a] = ts_obj[b]
    /\ original_zobj[a] = NULL /\ original_zobj[b] = NULL
    => a = b

\* The three together, and the types: how the threads' PHP objects for a
\* structure, its count and the tables of connections agree, whatever is
\* constructed, connected, copied, stored, read and freed in whatever order
\* (pthreads_base_ctor, _pthreads_connect_nolock, pthreads_base_free).
ConnectionsExact == TypeOK /\ RefcountExact /\ ResolveSound /\ UniqueOriginal

\* Unless a stored address is reused, a read returns the object that was
\* stored or throws because that object has already been destroyed, and on
\* the way pthreads_globals_object_connect never follows the address of a
\* half-made or freed object.
ReadGetsStored ==
  "reuse" \notin freedoms =>
    lastRead.got \in {lastRead.want, NULL} /\ "connect" \notin faults

\* With a chain of ownership every stored object can be read, whichever
\* thread stored which of its connections, and a sync reads only through the
\* address of "a valid foreign object", although
\* pthreads_globals_object_valid gives the globals lock back in between.
StoredIsReadable ==
  "outlive" \notin freedoms =>
    /\ \A s \in Slots :
         slot[s] # NULL => slot[s] \in objects /\ ts_obj[slot[s]] = meant[s]
    /\ "sync" \notin faults
====

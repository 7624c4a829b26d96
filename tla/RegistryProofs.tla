--------------------------- MODULE RegistryProofs ---------------------------
(***************************************************************************)
(* Theorems about Registry: how the PHP objects of all threads, the shared *)
(* structures they count and the registry agree, and what a stored address *)
(* still means when it is read, for any number of threads and objects.     *)
(***************************************************************************)
EXTENDS Registry, FiniteSetTheorems, TLAPS

-----------------------------------------------------------------------------
(* The inductive invariant.                                                *)

Making == {"construct", "connect"}
Busy == {"construct", "connect", "free", "release"}
Constructing == {u \in Threads : pc[u] = "construct"}

\* Room is made for every construction under way.
RoomInv == made + Cardinality(Constructing) <= MaxObjects

\* The registry has exactly the addresses with a half-made or a live object.
ShapeInv ==
  \A a \in Addresses :
    /\ a \in objects <=> mem[a] \in {"raw", "live"}
    /\ mem[a] = "live" => owner[a] \in Threads /\ ts_obj[a] \in 1 .. made
    /\ mem[a] = "raw" => original_zobj[a] = NULL

\* What a thread between two critical sections relies on.
ArgInv ==
  \A t \in Threads :
    /\ pc[t] \in Busy => arg[t] \in Addresses
    /\ pc[t] = "construct" => mem[arg[t]] = "raw"
    /\ pc[t] \in {"connect", "free"} => mem[arg[t]] = "live" /\ owner[arg[t]] = t
    /\ pc[t] = "connect" => original_zobj[arg[t]] = NULL
    /\ pc[t] = "release" => mem[arg[t]] = "dying"
    /\ \A u \in Threads : u # t /\ pc[t] \in Busy /\ pc[u] \in Busy => arg[t] # arg[u]

\* The object a thread will connect to stays.
SourceInv ==
  \A t \in Threads :
    /\ pc[t] = "connect" => source[t] # NULL /\ ts_obj[source[t]] # ts_obj[arg[t]]
    /\ (pc[t] \in Making /\ source[t] # NULL) =>
         /\ source[t] \in Addresses /\ mem[source[t]] = "live"
         /\ \A u \in Threads : pc[u] \in Busy => arg[u] # source[t]

\* No table of connections has an object that is being connected or freed.
PrivateInv ==
  \A t, u \in Threads, o \in Objects :
    pc[t] \in {"connect", "free"} => resolve[u][o] # arg[t]

StructureInv ==
  /\ ConnectionsExact
  /\ RoomInv /\ ShapeInv /\ ArgInv /\ SourceInv /\ PrivateInv

\* Without reuse an address that is still named stands for what was named.
NameInv ==
  "reuse" \notin freedoms =>
    /\ \A s \in Slots : slot[s] \in objects =>
         mem[slot[s]] = "live" /\ ts_obj[slot[s]] = meant[s]
    /\ \A b \in Addresses : mem[b] = "live" /\ original_zobj[b] \in objects =>
         mem[original_zobj[b]] = "live" /\ ts_obj[original_zobj[b]] = ts_obj[b]
    /\ \A u \in Threads : pc[u] \in Making =>
         /\ \A s \in Slots : slot[s] # arg[u]
         /\ \A b \in Addresses : mem[b] = "live" => original_zobj[b] # arg[u]

\* x is an original that nobody is making or freeing.
Stays(x) ==
  /\ x \in Addresses
  /\ mem[x] = "live" /\ original_zobj[x] = NULL
  /\ \A u \in Threads : pc[u] \in Busy => arg[u] # x

\* With a chain of ownership everything that is named stays.
ChainInv ==
  "outlive" \notin freedoms =>
    /\ \A s \in Slots : slot[s] # NULL => Stays(slot[s]) /\ ts_obj[slot[s]] = meant[s]
    /\ \A b \in Addresses : mem[b] # "free" /\ original_zobj[b] # NULL =>
         Stays(original_zobj[b]) /\ ts_obj[original_zobj[b]] = ts_obj[b]
    /\ \A t \in Threads : pc[t] = "sync" =>
         source[t] \in Slots /\ slot[source[t]] = arg[t] /\ arg[t] # NULL
    /\ "sync" \notin faults

-----------------------------------------------------------------------------
(* Construction.                                                           *)

LEMMA AllocStep ==
  ASSUME StructureInv, UNCHANGED freedoms,
         NEW t \in Threads, NEW a \in Addresses, NEW src \in Addresses \cup {NULL},
         src # NULL => mem[src] = "live" /\ ~Hidden(src),
         Room, Alloc(t, a, src)
  PROVE  StructureInv'
<1> USE DEF StructureInv, ConnectionsExact
<1>1. /\ pc[t] = "idle" /\ mem[a] = "free"
      /\ objects' = objects \cup {a}
      /\ mem' = [mem EXCEPT ![a] = "raw"]
      /\ owner' = [owner EXCEPT ![a] = NoOwner]
      /\ ts_obj' = [ts_obj EXCEPT ![a] = NULL]
      /\ original_zobj' = [original_zobj EXCEPT ![a] = NULL]
      /\ pc' = [pc EXCEPT ![t] = "construct"]
      /\ arg' = [arg EXCEPT ![t] = a]
      /\ source' = [source EXCEPT ![t] = src]
      /\ UNCHANGED <<tsVars, resolve, slotVars, histVars>>
  BY DEF Alloc, Goto, Available
<1>2. TypeOK'
  BY <1>1 DEF TypeOK, tsVars, slotVars, histVars
<1>3. RefcountExact'
  <2>1. \A o : Connections(o)' = Connections(o)
    BY <1>1 DEF TypeOK, Connections
  <2> QED
    BY <1>1, <2>1 DEF RefcountExact, tsVars
<1>4. ResolveSound'
  BY <1>1 DEF ResolveSound, Mine, TypeOK
<1>5. UniqueOriginal'
  BY <1>1 DEF UniqueOriginal, TypeOK
<1>6. RoomInv'
  <2>1. Constructing' = Constructing \cup {t} /\ t \notin Constructing
    BY <1>1 DEF Constructing, TypeOK
  <2>2. IsFiniteSet(Constructing)
    BY FiniteAssumption, FS_Subset DEF Constructing
  <2>3. Cardinality(Constructing') = Cardinality(Constructing) + 1
    BY <2>1, <2>2, FS_AddElement
  <2>4. Cardinality(Constructing) \in Nat
    BY <2>2, FS_CardinalityType
  <2> QED
    BY <1>1, <2>3, <2>4, MaxObjectsAssumption DEF RoomInv, Room, Constructing, TypeOK, tsVars
<1>7. ShapeInv'
  BY <1>1, AddressesAssumption DEF ShapeInv, TypeOK, tsVars
<1>8. ArgInv'
  BY <1>1 DEF ArgInv, TypeOK, Busy
<1>9. SourceInv'
  BY <1>1 DEF SourceInv, ArgInv, TypeOK, Busy, Making, Hidden
<1>10. PrivateInv'
  BY <1>1 DEF PrivateInv, TypeOK
<1> QED
  BY <1>2, <1>3, <1>4, <1>5, <1>6, <1>7, <1>8, <1>9, <1>10
LEMMA ConstructStep ==
  ASSUME StructureInv, UNCHANGED freedoms, NEW t \in Threads, Construct(t)
  PROVE  StructureInv'
<1> USE DEF StructureInv, ConnectionsExact
<1>0. PICK a, o : a = arg[t] /\ o = made + 1
  OBVIOUS
<1>1. /\ pc[t] = "construct"
      /\ mem' = [mem EXCEPT ![a] = "live"]
      /\ owner' = [owner EXCEPT ![a] = t]
      /\ ts_obj' = [ts_obj EXCEPT ![a] = o]
      /\ refcount' = [refcount EXCEPT ![o] = 1]
      /\ made' = o
      /\ UNCHANGED <<objects, original_zobj, freed, resolve, slotVars, histVars>>
  BY <1>0 DEF Construct
<1>2. /\ source[t] = NULL =>
           /\ pc' = [pc EXCEPT ![t] = "idle"]
           /\ arg' = [arg EXCEPT ![t] = NULL]
           /\ source' = [source EXCEPT ![t] = NULL]
      /\ source[t] # NULL =>
           /\ pc' = [pc EXCEPT ![t] = "connect"]
           /\ arg' = [arg EXCEPT ![t] = a]
           /\ source' = [source EXCEPT ![t] = source[t]]
  BY <1>0 DEF Construct, Return, Goto
<1>3. a \in Addresses /\ mem[a] = "raw" /\ a \in objects /\ original_zobj[a] = NULL
  BY <1>0, <1>1 DEF ArgInv, ShapeInv, Busy
<1>4. IsFiniteSet(Constructing) /\ t \in Constructing
  BY <1>1, FiniteAssumption, FS_Subset DEF Constructing
<1>5. Constructing' = Constructing \ {t}
  BY <1>1, <1>2 DEF Constructing, TypeOK
<1>6. /\ Cardinality(Constructing) \in Nat /\ Cardinality(Constructing') \in Nat
      /\ Cardinality(Constructing') = Cardinality(Constructing) - 1
  BY <1>4, <1>5, FS_RemoveElement, FS_CardinalityType
<1>7. made \in Nat /\ o \in 1 .. MaxObjects
  BY <1>0, <1>6, MaxObjectsAssumption DEF RoomInv, TypeOK
<1>8. TypeOK'
  <2>1. freed' \subseteq 1 .. made' /\ made' \in 0 .. MaxObjects
    BY <1>1, <1>0, <1>7 DEF TypeOK
  <2>2. source[t] \in Addresses \cup Slots \cup {NULL}
    BY DEF TypeOK
  <2>3. /\ pc' \in [Threads -> {"idle", "construct", "connect", "free", "release", "sync", "crashed"}]
        /\ arg' \in [Threads -> Addresses \cup {NULL}]
        /\ source' \in [Threads -> Addresses \cup Slots \cup {NULL}]
    <3>1. CASE source[t] = NULL
      BY <1>2, <3>1 DEF TypeOK
    <3>2. CASE source[t] # NULL
      <4>1. pc' \in [Threads -> {"idle", "construct", "connect", "free", "release", "sync", "crashed"}]
        BY <1>2, <3>2 DEF TypeOK
      <4>2. arg' \in [Threads -> Addresses \cup {NULL}]
        BY <1>2, <1>3, <3>2 DEF TypeOK
      <4>3. source' = source
        BY <1>2, <3>2 DEF TypeOK
      <4> QED
        BY <4>1, <4>2, <4>3 DEF TypeOK
    <3> QED
      BY <3>1, <3>2
  <2> QED
    BY <1>1, <1>3, <1>7, <2>1, <2>3 DEF TypeOK, slotVars, histVars, Objects
<1>9. RefcountExact'
  <2>1. Connections(o)' = {a}
    BY <1>1, <1>3, <1>0, <1>7 DEF TypeOK, Connections, ShapeInv
  <2>2. \A p \in 1 .. made : Connections(p)' = Connections(p)
    BY <1>1, <1>3, <1>0, <1>7 DEF TypeOK, Connections
  <2>3. Cardinality({a}) = 1
    BY FS_Singleton
  <2>4. \A p \in 1 .. made : p # o /\ refcount'[p] = refcount[p]
    BY <1>1, <1>0, <1>7 DEF TypeOK
  <2>5. refcount'[o] = 1 /\ o \notin freed'
    BY <1>1, <1>0, <1>7 DEF TypeOK, Objects
  <2>6. \A p \in 1 .. made' : p \in 1 .. made \/ p = o
    BY <1>1, <1>0, <1>7
  <2> QED
    BY <1>1, <2>1, <2>2, <2>3, <2>4, <2>5, <2>6 DEF RefcountExact
<1>10. ResolveSound'
  BY <1>1, <1>3 DEF ResolveSound, Mine, TypeOK
<1>11. UniqueOriginal'
  <2>1. \A b \in Addresses : mem[b] = "live" => ts_obj[b] # o
    BY <1>0, <1>7 DEF ShapeInv
  <2> QED
    BY <1>1, <1>3, <2>1 DEF UniqueOriginal, TypeOK
<1>12. RoomInv'
  BY <1>1, <1>6, <1>0, <1>7, MaxObjectsAssumption DEF RoomInv, TypeOK
<1>13. ShapeInv'
  <2>1. \A p \in 1 .. made : p \in 1 .. o
    BY <1>0, <1>7
  <2>2. o \in 1 .. o
    BY <1>0, <1>7
  <2> QED
    BY <1>1, <1>3, <2>1, <2>2 DEF ShapeInv, TypeOK
<1>14. ArgInv'
  <2>8. CASE source[t] = NULL
    BY <1>0, <1>1, <1>2, <1>3, <2>8 DEF ArgInv, TypeOK, Busy
  <2>9. CASE source[t] # NULL
    BY <1>0, <1>1, <1>2, <1>3, <2>9 DEF ArgInv, TypeOK, Busy
  <2> QED
    BY <2>8, <2>9
<1>15. SourceInv'
  <2>1. source[t] # NULL => source[t] \in Addresses /\ mem[source[t]] = "live" /\ source[t] # a
    BY <1>0, <1>1, <1>3 DEF SourceInv, Making, Busy
  <2>2. source[t] # NULL => ts_obj[source[t]] # o
    BY <1>0, <1>7, <2>1 DEF ShapeInv
  <2>3. \A u \in Threads : u # t => pc'[u] = pc[u] /\ arg'[u] = arg[u] /\ source'[u] = source[u]
    BY <1>2 DEF TypeOK
  <2>4. /\ pc'[t] \in Busy => pc'[t] = "connect" /\ arg'[t] = a /\ source'[t] = source[t]
        /\ pc'[t] = "connect" => source[t] # NULL
        /\ pc'[t] \in {"idle", "connect"}
    BY <1>2 DEF TypeOK, Busy
  <2>5. \A x \in Addresses : x # a => mem'[x] = mem[x] /\ ts_obj'[x] = ts_obj[x]
    BY <1>1 DEF TypeOK
  <2>6. mem'[a] = "live" /\ ts_obj'[a] = o
    BY <1>1, <1>3 DEF TypeOK
  <2>7. \A u, w \in Threads : pc[u] \in Making /\ source[u] # NULL /\ pc'[w] \in Busy => arg'[w] # source[u]
    BY <1>0, <1>1, <2>3, <2>4 DEF SourceInv, Busy
  <2> SUFFICES ASSUME NEW u \in Threads
               PROVE  /\ pc'[u] = "connect" => source'[u] # NULL /\ ts_obj'[source'[u]] # ts_obj'[arg'[u]]
                      /\ (pc'[u] \in Making /\ source'[u] # NULL) =>
                           /\ source'[u] \in Addresses /\ mem'[source'[u]] = "live"
                           /\ \A w \in Threads : pc'[w] \in Busy => arg'[w] # source'[u]
    BY DEF SourceInv
  <2>8. CASE u = t
    BY <1>1, <2>1, <2>2, <2>4, <2>5, <2>6, <2>7, <2>8 DEF Making, Busy
  <2>9. CASE u # t
    <3>1. (pc[u] \in Making /\ source[u] # NULL) => source[u] \in Addresses /\ mem[source[u]] = "live"
      BY DEF SourceInv
    <3>2. pc[u] = "connect" => /\ source[u] # NULL /\ ts_obj[source[u]] # ts_obj[arg[u]]
                               /\ arg[u] \in Addresses /\ arg[u] # a
      BY <1>0, <1>1, <2>9 DEF SourceInv, ArgInv, Busy
    <3> QED
      BY <1>3, <2>3, <2>5, <2>6, <2>7, <2>9, <3>1, <3>2 DEF Making
  <2> QED
    BY <2>8, <2>9
<1>16. PrivateInv'
  <2>1. \A u \in Threads, p \in Objects : resolve[u][p] # a
    BY <1>3, AddressesAssumption DEF ResolveSound, Mine
  <2>8. CASE source[t] = NULL
    BY <1>0, <1>1, <1>2, <1>3, <2>1, <2>8 DEF PrivateInv, TypeOK
  <2>9. CASE source[t] # NULL
    BY <1>0, <1>1, <1>2, <1>3, <2>1, <2>9 DEF PrivateInv, TypeOK
  <2> QED
    BY <2>8, <2>9
<1> QED
  BY <1>8, <1>9, <1>10, <1>11, <1>12, <1>13, <1>14, <1>15, <1>16

\* pthreads_connect: the object leaves its own structure for that of the source.
LEMMA ConnectStep ==
  ASSUME StructureInv, UNCHANGED freedoms, NEW t \in Threads, Connect(t)
  PROVE  StructureInv'
<1> USE DEF StructureInv, ConnectionsExact
<1>0. PICK d, s, old, new : d = arg[t] /\ s = source[t] /\ old = ts_obj[d] /\ new = ts_obj[s]
  OBVIOUS
<1>1. /\ pc[t] = "connect"
      /\ ts_obj' = [ts_obj EXCEPT ![d] = new]
      /\ refcount' = [refcount EXCEPT ![old] = @ - 1, ![new] = @ + 1]
      /\ freed' = IF refcount[old] = 1 THEN freed \cup {old} ELSE freed
      /\ original_zobj' = [original_zobj EXCEPT ![d] = Name(s)]
      /\ pc' = [pc EXCEPT ![t] = "idle"]
      /\ arg' = [arg EXCEPT ![t] = NULL]
      /\ source' = [source EXCEPT ![t] = NULL]
      /\ UNCHANGED <<objects, mem, owner, made, resolve, slotVars, histVars>>
  BY <1>0 DEF Connect, Reconnect, Return, Goto
<1>2. d \in Addresses /\ mem[d] = "live" /\ original_zobj[d] = NULL /\ owner[d] = t
  BY <1>0, <1>1 DEF ArgInv, Busy
<1>3. s \in Addresses /\ mem[s] = "live" /\ s # d /\ new # old
  BY <1>0, <1>1 DEF SourceInv, Making, Busy
<1>4. old \in 1 .. made /\ new \in 1 .. made
  BY <1>0, <1>2, <1>3 DEF ShapeInv
<1>5. Name(s) \in Addresses /\ Name(s) # NULL
  BY <1>3, AddressesAssumption DEF Name, TypeOK
<1>6. /\ refcount'[old] = refcount[old] - 1 /\ refcount'[new] = refcount[new] + 1
      /\ \A p \in Objects : p # old /\ p # new => refcount'[p] = refcount[p]
      /\ old \in Objects /\ new \in Objects
  <2>1. old \in Objects /\ new \in Objects
    BY <1>4, MaxObjectsAssumption DEF TypeOK, Objects
  <2> QED
    BY <1>1, <1>3, <2>1 DEF TypeOK
<1>7. /\ Connections(old)' = Connections(old) \ {d} /\ d \in Connections(old)
      /\ Connections(new)' = Connections(new) \cup {d} /\ d \notin Connections(new)
      /\ \A p : p # old /\ p # new => Connections(p)' = Connections(p)
  BY <1>0, <1>1, <1>2, <1>3 DEF TypeOK, Connections
<1>8. \A p : IsFiniteSet(Connections(p)) /\ Cardinality(Connections(p)) \in Nat
  BY FiniteAssumption, FS_Subset, FS_CardinalityType DEF Connections
<1>9. /\ Cardinality(Connections(old)') = Cardinality(Connections(old)) - 1
      /\ Cardinality(Connections(new)') = Cardinality(Connections(new)) + 1
  BY <1>7, <1>8, FS_RemoveElement, FS_AddElement
<1>10. RefcountExact'
  <2>1. refcount[old] = Cardinality(Connections(old)) /\ refcount[new] = Cardinality(Connections(new))
    BY <1>4 DEF RefcountExact
  <2>2. refcount[old] = 1 <=> Connections(old)' = {}
    <3>1. IsFiniteSet(Connections(old)')
      BY <1>7, <1>8, FS_RemoveElement
    <3>2. Cardinality(Connections(old)') = 0 <=> Connections(old)' = {}
      BY <3>1, FS_EmptySet
    <3> QED
      BY <1>8, <1>9, <2>1, <3>2
  <2>3. old \notin freed /\ new \notin freed
    BY <1>0, <1>2, <1>3, <1>4 DEF RefcountExact, Connections
  <2>4. ASSUME NEW p \in 1 .. made
        PROVE  refcount'[p] = Cardinality(Connections(p)') /\ (p \in freed' <=> Connections(p)' = {})
    <3>1. CASE p = old
      BY <1>1, <1>6, <1>9, <2>1, <2>2, <2>3, <3>1
    <3>2. CASE p = new
      BY <1>1, <1>3, <1>6, <1>7, <1>9, <2>1, <2>3, <3>2
    <3>3. CASE p # old /\ p # new
      <4>1. p \in Objects
        BY MaxObjectsAssumption DEF TypeOK, Objects
      <4> QED
        BY <1>1, <1>6, <1>7, <3>3, <4>1 DEF RefcountExact
    <3> QED
      BY <3>1, <3>2, <3>3
  <2> QED
    BY <1>1, <2>4 DEF RefcountExact
<1>11. TypeOK'
  <2>1. refcount[old] \in Nat \ {0}
    <3>1. refcount[old] = Cardinality(Connections(old)) /\ Connections(old) # {}
      BY <1>4, <1>7 DEF RefcountExact
    <3> QED
      BY <1>8, <3>1, FS_EmptySet
  <2>2. refcount[old] - 1 \in Nat /\ refcount[new] + 1 \in Nat
    <3>1. refcount[new] \in Nat
      BY <1>6 DEF TypeOK
    <3> QED
      BY <2>1, <3>1
  <2>3. refcount' \in [Objects -> Nat]
    BY <1>1, <1>3, <1>6, <2>2 DEF TypeOK
  <2>4. freed' \subseteq 1 .. made'
    BY <1>1, <1>4 DEF TypeOK
  <2> QED
    BY <1>1, <1>2, <1>5, <1>6, <2>3, <2>4 DEF TypeOK, slotVars, histVars
<1>12. ResolveSound'
  <2>1. \A u \in Threads, p \in Objects : resolve[u][p] # d
    BY <1>0, <1>1 DEF PrivateInv
  <2> QED
    BY <1>1, <1>2, <2>1 DEF ResolveSound, Mine, TypeOK
<1>13. UniqueOriginal'
  BY <1>1, <1>2, <1>5 DEF UniqueOriginal, TypeOK
<1>14. RoomInv'
  <2>1. Constructing' = Constructing
    BY <1>1 DEF Constructing, TypeOK
  <2> QED
    BY <1>1, <2>1 DEF RoomInv
<1>15. ShapeInv'
  BY <1>1, <1>2, <1>4 DEF ShapeInv, TypeOK
<1>16. ArgInv'
  BY <1>0, <1>1, <1>2 DEF ArgInv, TypeOK, Busy
<1>17. SourceInv'
  BY <1>0, <1>1, <1>2 DEF SourceInv, ArgInv, TypeOK, Busy, Making
<1>18. PrivateInv'
  BY <1>0, <1>1 DEF PrivateInv, TypeOK
<1> QED
  BY <1>10, <1>11, <1>12, <1>13, <1>14, <1>15, <1>16, <1>17, <1>18

-----------------------------------------------------------------------------
(* Storing, reading and the rest.                                          *)

\* Steps that change no object: stores, reads of what is connected, syncs.
LEMMA QuietStep ==
  ASSUME StructureInv, TypeOK', UNCHANGED <<objects, memVars, tsVars, resolve>>,
         \A u \in Threads : pc'[u] \in Busy =>
           pc'[u] = pc[u] /\ arg'[u] = arg[u] /\ source'[u] = source[u]
  PROVE  StructureInv'
<1> USE DEF StructureInv, ConnectionsExact, memVars, tsVars
<1>1. RefcountExact'
  <2>1. \A o : Connections(o)' = Connections(o)
    BY DEF Connections
  <2> QED
    BY <2>1 DEF RefcountExact
<1>2. ResolveSound' /\ UniqueOriginal' /\ ShapeInv'
  BY DEF ResolveSound, Mine, UniqueOriginal, ShapeInv
<1>3. RoomInv'
  <2>1. Constructing' \subseteq Constructing
    BY DEF Constructing, Busy
  <2>2. IsFiniteSet(Constructing)
    BY FiniteAssumption, FS_Subset DEF Constructing
  <2>3. /\ Cardinality(Constructing) \in Nat /\ Cardinality(Constructing') \in Nat
        /\ Cardinality(Constructing') <= Cardinality(Constructing)
    BY <2>1, <2>2, FS_Subset, FS_CardinalityType
  <2> QED
    BY <2>3, MaxObjectsAssumption DEF RoomInv, TypeOK
<1>4. ArgInv'
  BY DEF ArgInv, Busy
<1>5. SourceInv'
  BY DEF SourceInv, Busy, Making
<1>6. PrivateInv'
  BY DEF PrivateInv, Busy
<1> QED
  BY <1>1, <1>2, <1>3, <1>4, <1>5, <1>6

LEMMA NewConnectionStep ==
  ASSUME StructureInv, UNCHANGED <<freedoms, slotVars, pc, arg, source>>,
         lastRead' \in [want : Objects \cup {NULL}, got : Objects \cup {NULL}], faults' = faults,
         NEW t \in Threads, NEW a \in Addresses, NEW b \in Addresses,
         mem[a] = "live", resolve[t][ts_obj[a]] = NULL, NewConnection(t, a, b)
  PROVE  StructureInv'
<1> USE DEF StructureInv, ConnectionsExact
<1>0. PICK o : o = ts_obj[a]
  OBVIOUS
<1>1. /\ mem[b] = "free"
      /\ objects' = objects \cup {b}
      /\ mem' = [mem EXCEPT ![b] = "live"]
      /\ owner' = [owner EXCEPT ![b] = t]
      /\ ts_obj' = [ts_obj EXCEPT ![b] = o]
      /\ original_zobj' = [original_zobj EXCEPT ![b] = Name(a)]
      /\ refcount' = [refcount EXCEPT ![o] = @ + 1]
      /\ resolve' = [resolve EXCEPT ![t][o] = b]
      /\ UNCHANGED <<freed, made>>
  BY <1>0 DEF NewConnection, Available
<1>2. o \in 1 .. made /\ o \in Objects
  BY <1>0, MaxObjectsAssumption DEF ShapeInv, TypeOK, Objects
<1>3. Name(a) \in Addresses /\ Name(a) # NULL
  BY AddressesAssumption DEF Name, TypeOK
<1>4. /\ resolve' \in [Threads -> [Objects -> Addresses \cup {NULL}]]
      /\ \A u \in Threads, p \in Objects :
           resolve'[u][p] = IF u = t /\ p = o THEN b ELSE resolve[u][p]
  BY <1>1, <1>2 DEF TypeOK
<1>5. TypeOK'
  <2>1. refcount' \in [Objects -> Nat]
    BY <1>1, <1>2 DEF TypeOK
  <2> QED
    BY <1>1, <1>2, <1>3, <1>4, <2>1 DEF TypeOK, slotVars
<1>6. RefcountExact'
  <2>1. /\ Connections(o)' = Connections(o) \cup {b} /\ b \notin Connections(o) /\ a \in Connections(o)
        /\ \A p : p # o => Connections(p)' = Connections(p)
    BY <1>0, <1>1 DEF TypeOK, Connections
  <2>2. IsFiniteSet(Connections(o))
    BY FiniteAssumption, FS_Subset DEF Connections
  <2>3. Cardinality(Connections(o)') = Cardinality(Connections(o)) + 1
    BY <2>1, <2>2, FS_AddElement
  <2>4. refcount[o] = Cardinality(Connections(o)) /\ o \notin freed
    BY <1>2, <2>1 DEF RefcountExact
  <2>5. refcount'[o] = refcount[o] + 1 /\ \A p \in Objects : p # o => refcount'[p] = refcount[p]
    BY <1>1, <1>2 DEF TypeOK
  <2>6. ASSUME NEW p \in 1 .. made
        PROVE  refcount'[p] = Cardinality(Connections(p)') /\ (p \in freed' <=> Connections(p)' = {})
    <3>1. CASE p = o
      BY <1>1, <2>1, <2>3, <2>4, <2>5, <3>1
    <3>2. CASE p # o
      <4>1. p \in Objects
        BY MaxObjectsAssumption DEF TypeOK, Objects
      <4> QED
        BY <1>1, <2>1, <2>5, <3>2, <4>1 DEF RefcountExact
    <3> QED
      BY <3>1, <3>2
  <2> QED
    BY <1>1, <2>6 DEF RefcountExact
<1>7. ResolveSound'
  BY <1>1, <1>2, <1>4 DEF ResolveSound, Mine, TypeOK
<1>8. UniqueOriginal'
  BY <1>1, <1>3 DEF UniqueOriginal, TypeOK
<1>9. RoomInv'
  <2>1. Constructing' = Constructing
    BY DEF Constructing
  <2> QED
    BY <1>1, <2>1 DEF RoomInv
<1>10. ShapeInv'
  BY <1>1, <1>2 DEF ShapeInv, TypeOK
<1>11. \A u \in Threads : pc[u] \in Busy => arg[u] \in Addresses /\ arg[u] # b
  BY <1>1 DEF ArgInv, Busy
<1>12. ArgInv'
  BY <1>1, <1>11 DEF ArgInv, TypeOK, Busy
<1>13. SourceInv'
  BY <1>1, <1>11 DEF SourceInv, TypeOK, Busy, Making
<1>14. PrivateInv'
  BY <1>4, <1>11 DEF PrivateInv, Busy
<1> QED
  BY <1>5, <1>6, <1>7, <1>8, <1>9, <1>10, <1>12, <1>13, <1>14

-----------------------------------------------------------------------------
(* Destruction.                                                            *)

LEMMA FreeBeginStep ==
  ASSUME StructureInv, UNCHANGED freedoms, NEW t \in Threads, NEW a \in Addresses, FreeBegin(t, a)
  PROVE  StructureInv'
<1> USE DEF StructureInv, ConnectionsExact
<1>0. PICK o : o = ts_obj[a]
  OBVIOUS
<1>1. /\ pc[t] = "idle" /\ mem[a] = "live" /\ owner[a] = t
      /\ resolve' = [resolve EXCEPT ![t][o] = IF @ = a THEN NULL ELSE @]
      /\ pc' = [pc EXCEPT ![t] = "free"]
      /\ arg' = [arg EXCEPT ![t] = a]
      /\ source' = [source EXCEPT ![t] = NULL]
      /\ UNCHANGED <<objects, memVars, tsVars, slotVars, histVars>>
      /\ \A u \in Threads : pc[u] \in Making => source[u] # a
  BY <1>0 DEF FreeBegin, Mine, Goto, Kept, Making
<1>2. o \in 1 .. made /\ o \in Objects
  BY <1>0, <1>1, MaxObjectsAssumption DEF ShapeInv, TypeOK, Objects
<1>3. /\ resolve' \in [Threads -> [Objects -> Addresses \cup {NULL}]]
      /\ \A u \in Threads, p \in Objects :
           resolve'[u][p] = IF u = t /\ p = o /\ resolve[u][p] = a THEN NULL ELSE resolve[u][p]
  BY <1>1, <1>2 DEF TypeOK
<1>4. TypeOK'
  BY <1>1, <1>3 DEF TypeOK, memVars, tsVars, slotVars, histVars
<1>5. RefcountExact'
  <2>1. \A p : Connections(p)' = Connections(p)
    BY <1>1 DEF Connections, memVars
  <2> QED
    BY <1>1, <2>1 DEF RefcountExact, tsVars
<1>6. \A u \in Threads, p \in Objects : resolve'[u][p] \in {NULL, resolve[u][p]} /\ resolve'[u][p] # a
  <2> SUFFICES ASSUME NEW u \in Threads, NEW p \in Objects
               PROVE  resolve'[u][p] \in {NULL, resolve[u][p]} /\ resolve'[u][p] # a
    OBVIOUS
  <2>1. resolve[u][p] = a => u = t /\ p = o
    BY <1>0, <1>1, AddressesAssumption DEF ResolveSound, Mine
  <2> QED
    BY <1>3, <2>1, AddressesAssumption
<1>7. ResolveSound'
  BY <1>1, <1>6 DEF ResolveSound, Mine, memVars
<1>8. UniqueOriginal' /\ ShapeInv'
  BY <1>1 DEF UniqueOriginal, ShapeInv, memVars, tsVars
<1>9. RoomInv'
  <2>1. Constructing' = Constructing
    BY <1>1 DEF Constructing, TypeOK
  <2> QED
    BY <1>1, <2>1 DEF RoomInv, tsVars
<1>10. ArgInv'
  <2>1. \A u \in Threads : u # t /\ pc[u] \in Busy => arg[u] # a
    BY <1>1 DEF ArgInv, Busy
  <2> QED
    BY <1>1, <2>1 DEF ArgInv, TypeOK, Busy, memVars
<1>11. SourceInv'
  BY <1>1 DEF SourceInv, TypeOK, Busy, Making, memVars
<1>12. PrivateInv'
  BY <1>1, <1>6, AddressesAssumption DEF PrivateInv, ArgInv, Busy, TypeOK
<1> QED
  BY <1>4, <1>5, <1>7, <1>8, <1>9, <1>10, <1>11, <1>12

LEMMA FreeLockedStep ==
  ASSUME StructureInv, UNCHANGED freedoms, NEW t \in Threads, FreeLocked(t)
  PROVE  StructureInv'
<1> USE DEF StructureInv, ConnectionsExact
<1>0. PICK a, o : a = arg[t] /\ o = ts_obj[a]
  OBVIOUS
<1>1. /\ pc[t] = "free"
      /\ refcount' = [refcount EXCEPT ![o] = @ - 1]
      /\ freed' = IF refcount[o] = 1 THEN freed \cup {o} ELSE freed
      /\ objects' = objects \ {a}
      /\ mem' = [mem EXCEPT ![a] = "dying"]
      /\ pc' = [pc EXCEPT ![t] = "release"]
      /\ arg' = [arg EXCEPT ![t] = a]
      /\ source' = [source EXCEPT ![t] = NULL]
      /\ UNCHANGED <<owner, ts_obj, original_zobj, made, resolve, slotVars, histVars>>
  BY <1>0 DEF FreeLocked, Goto
<1>2. a \in Addresses /\ mem[a] = "live" /\ owner[a] = t
  BY <1>0, <1>1 DEF ArgInv, Busy
<1>3. o \in 1 .. made /\ o \in Objects
  BY <1>0, <1>2, MaxObjectsAssumption DEF ShapeInv, TypeOK, Objects
<1>4. /\ Connections(o)' = Connections(o) \ {a} /\ a \in Connections(o)
      /\ \A p : p # o => Connections(p)' = Connections(p)
  BY <1>0, <1>1, <1>2 DEF TypeOK, Connections
<1>5. IsFiniteSet(Connections(o)) /\ Cardinality(Connections(o)) \in Nat
  BY FiniteAssumption, FS_Subset, FS_CardinalityType DEF Connections
<1>6. IsFiniteSet(Connections(o)') /\ Cardinality(Connections(o)') = Cardinality(Connections(o)) - 1
  BY <1>4, <1>5, FS_RemoveElement
<1>7. Cardinality(Connections(o)') \in Nat /\ (Cardinality(Connections(o)') = 0 <=> Connections(o)' = {})
  BY <1>6, FS_EmptySet, FS_CardinalityType
<1>8. refcount[o] = Cardinality(Connections(o)) /\ o \notin freed
  BY <1>3, <1>4 DEF RefcountExact
<1>9. TypeOK'
  <2>1. refcount[o] - 1 \in Nat
    BY <1>6, <1>7, <1>8
  <2>2. refcount' \in [Objects -> Nat]
    BY <1>1, <1>3, <2>1 DEF TypeOK
  <2>3. freed' \subseteq 1 .. made'
    BY <1>1, <1>3 DEF TypeOK
  <2> QED
    BY <1>1, <1>2, <2>2, <2>3 DEF TypeOK, slotVars, histVars
<1>10. RefcountExact'
  <2>1. refcount'[o] = refcount[o] - 1 /\ \A p \in Objects : p # o => refcount'[p] = refcount[p]
    BY <1>1, <1>3 DEF TypeOK
  <2>2. refcount[o] = 1 <=> Connections(o)' = {}
    BY <1>5, <1>6, <1>7, <1>8
  <2>3. ASSUME NEW p \in 1 .. made
        PROVE  refcount'[p] = Cardinality(Connections(p)') /\ (p \in freed' <=> Connections(p)' = {})
    <3>1. CASE p = o
      BY <1>1, <1>6, <1>8, <2>1, <2>2, <3>1
    <3>2. CASE p # o
      <4>1. p \in Objects
        BY MaxObjectsAssumption DEF TypeOK, Objects
      <4> QED
        BY <1>1, <1>4, <2>1, <3>2, <4>1 DEF RefcountExact
    <3> QED
      BY <3>1, <3>2
  <2> QED
    BY <1>1, <2>3 DEF RefcountExact
<1>11. ResolveSound'
  <2>1. \A u \in Threads, p \in Objects : resolve[u][p] # a
    BY <1>0, <1>1 DEF PrivateInv
  <2> QED
    BY <1>1, <1>2, <2>1 DEF ResolveSound, Mine, TypeOK
<1>12. UniqueOriginal'
  BY <1>1 DEF UniqueOriginal, TypeOK
<1>13. RoomInv'
  <2>1. Constructing' = Constructing
    BY <1>1 DEF Constructing, TypeOK
  <2> QED
    BY <1>1, <2>1 DEF RoomInv
<1>14. ShapeInv'
  BY <1>1, <1>2 DEF ShapeInv, TypeOK
<1>15. ArgInv'
  BY <1>0, <1>1, <1>2 DEF ArgInv, TypeOK, Busy
<1>16. SourceInv'
  <2>1. \A u \in Threads : pc[u] \in Making /\ source[u] # NULL => source[u] # a
    BY <1>0, <1>1 DEF SourceInv, Busy
  <2> QED
    BY <1>0, <1>1, <2>1 DEF SourceInv, TypeOK, Busy, Making
<1>17. PrivateInv'
  BY <1>1 DEF PrivateInv, TypeOK
<1> QED
  BY <1>9, <1>10, <1>11, <1>12, <1>13, <1>14, <1>15, <1>16, <1>17

LEMMA ReleaseStep ==
  ASSUME StructureInv, UNCHANGED freedoms, NEW t \in Threads, Release(t)
  PROVE  StructureInv'
<1> USE DEF StructureInv, ConnectionsExact
<1>0. PICK a : a = arg[t]
  OBVIOUS
<1>1. /\ pc[t] = "release"
      /\ mem' = [mem EXCEPT ![a] = "free"]
      /\ pc' = [pc EXCEPT ![t] = "idle"]
      /\ arg' = [arg EXCEPT ![t] = NULL]
      /\ source' = [source EXCEPT ![t] = NULL]
      /\ UNCHANGED <<objects, owner, ts_obj, original_zobj, tsVars, resolve, slotVars, histVars>>
  BY <1>0 DEF Release, Return, Goto
<1>2. a \in Addresses /\ mem[a] = "dying"
  BY <1>0, <1>1 DEF ArgInv, Busy
<1>3. TypeOK'
  BY <1>1, <1>2 DEF TypeOK, tsVars, slotVars, histVars
<1>4. RefcountExact'
  <2>1. \A p : Connections(p)' = Connections(p)
    BY <1>1, <1>2 DEF Connections, TypeOK
  <2> QED
    BY <1>1, <2>1 DEF RefcountExact, tsVars
<1>5. ResolveSound' /\ UniqueOriginal' /\ ShapeInv'
  BY <1>1, <1>2 DEF ResolveSound, Mine, UniqueOriginal, ShapeInv, TypeOK, tsVars
<1>6. RoomInv'
  <2>1. Constructing' = Constructing
    BY <1>1 DEF Constructing, TypeOK
  <2> QED
    BY <1>1, <2>1 DEF RoomInv, tsVars
<1>7. ArgInv'
  BY <1>0, <1>1, <1>2 DEF ArgInv, TypeOK, Busy
<1>8. SourceInv'
  BY <1>0, <1>1, <1>2 DEF SourceInv, TypeOK, Busy, Making
<1>9. PrivateInv'
  BY <1>1 DEF PrivateInv, TypeOK
<1> QED
  BY <1>3, <1>4, <1>5, <1>6, <1>7, <1>8, <1>9

-----------------------------------------------------------------------------
(* The structures.                                                         *)

\* What t reaches through a live object is a structure that exists.
LEMMA ReachedFacts ==
  ASSUME StructureInv, NEW t \in Threads, NEW a \in Addresses, mem[a] = "live"
  PROVE  Reached(t, a) = ts_obj[a] /\ ts_obj[a] \in Objects
<1>1. ts_obj[a] \in 1 .. made /\ ts_obj[a] \in Objects
  BY MaxObjectsAssumption DEF StructureInv, ConnectionsExact, ShapeInv, TypeOK, Objects
<1> QED
  BY <1>1 DEF StructureInv, ConnectionsExact, Reached, ResolveSound

LEMMA ObjectConnectStep ==
  ASSUME StructureInv, UNCHANGED <<freedoms, slotVars, pc, arg, source>>,
         lastRead' \in [want : Objects \cup {NULL}, got : Objects \cup {NULL}], faults' = faults,
         NEW t \in Threads, NEW a \in Addresses, mem[a] = "live", ObjectConnect(t, a)
  PROVE  StructureInv'
<1>1. CASE Reused
  <2>1. TypeOK'
    BY <1>1 DEF StructureInv, ConnectionsExact, TypeOK, Reused, memVars, tsVars, slotVars
  <2> QED
    BY <1>1, <2>1, QuietStep DEF Reused
<1>2. ASSUME resolve[t][ts_obj[a]] = NULL, NEW b \in Addresses, NewConnection(t, a, b)
      PROVE  StructureInv'
  BY <1>2, NewConnectionStep
<1> QED
  BY <1>1, <1>2 DEF ObjectConnect

LEMMA StructureStep ==
  ASSUME StructureInv, [Next]_vars PROVE StructureInv'
<1>1. CASE UNCHANGED vars
  BY <1>1, QuietStep DEF vars, StructureInv, ConnectionsExact, TypeOK, memVars, tsVars, slotVars,
     histVars
<1>2. ASSUME NEW t \in Threads, ThreadStep(t), UNCHANGED freedoms PROVE StructureInv'
  <2> USE <1>2
  <2>1. ASSUME NEW a \in Addresses, New(t, a) PROVE StructureInv'
    BY <2>1, AllocStep DEF New
  <2>2. ASSUME NEW a \in Addresses, NEW src \in Addresses, Spawn(t, a, src) PROVE StructureInv'
    BY <2>2, AllocStep DEF Spawn
  <2>3. ASSUME NEW a \in Addresses, CopyObject(t, a) PROVE StructureInv'
    <3>1. lastRead' \in [want : Objects \cup {NULL}, got : Objects \cup {NULL}]
      BY <2>3 DEF CopyObject, histVars, StructureInv, ConnectionsExact, TypeOK
    <3> QED
      BY <2>3, <3>1, ObjectConnectStep DEF CopyObject, histVars
  <2>4. ASSUME NEW a \in Addresses, FreeBegin(t, a) PROVE StructureInv'
    BY <2>4, FreeBeginStep
  <2>5. CASE Construct(t)
    BY <2>5, ConstructStep
  <2>6. CASE Connect(t)
    BY <2>6, ConnectStep
  <2>7. ASSUME NEW a \in Addresses, NEW s \in Slots, Store(t, a, s) PROVE StructureInv'
    <3>1. Name(a) \in Addresses \cup {NULL} /\ ts_obj[a] \in Objects \cup {NULL}
      BY DEF Name, StructureInv, ConnectionsExact, TypeOK
    <3>2. TypeOK'
      BY <2>7, <3>1 DEF Store, StructureInv, ConnectionsExact, TypeOK, memVars, tsVars, histVars
    <3> QED
      BY <2>7, <3>2, QuietStep DEF Store
  <2>8. ASSUME NEW s \in Slots, Erase(t, s) PROVE StructureInv'
    <3>1. TypeOK'
      BY <2>8 DEF Erase, StructureInv, ConnectionsExact, TypeOK, memVars, tsVars, histVars
    <3> QED
      BY <2>8, <3>1, QuietStep DEF Erase
  <2>9. ASSUME NEW s \in Slots, Read(t, s) PROVE StructureInv'
    <3>1. slot[s] \in Addresses
      BY <2>9, AddressesAssumption DEF Read, StructureInv, ConnectionsExact, TypeOK
    <3>2. lastRead' \in [want : Objects \cup {NULL}, got : Objects \cup {NULL}]
      BY <2>9, <3>1, ReachedFacts DEF Read, StructureInv, ConnectionsExact, TypeOK
    <3> QED
      BY <2>9, <3>1, <3>2, ObjectConnectStep DEF Read
  <2>10. ASSUME NEW s \in Slots, ReadRaw(t, s) PROVE StructureInv'
    <3>1. TypeOK' /\ \A u \in Threads : pc'[u] = "crashed"
      BY <2>10 DEF ReadRaw, StructureInv, ConnectionsExact, TypeOK, memVars, tsVars, slotVars
    <3> QED
      BY <2>10, <3>1, QuietStep DEF ReadRaw, Busy
  <2>11. ASSUME NEW s \in Slots, ReadGone(t, s) PROVE StructureInv'
    <3>1. TypeOK'
      BY <2>11 DEF ReadGone, StructureInv, ConnectionsExact, TypeOK, memVars, tsVars, slotVars
    <3> QED
      BY <2>11, <3>1, QuietStep DEF ReadGone
  <2>12. ASSUME NEW a \in Addresses, NEW s \in Slots, SyncValidate(t, a, s) PROVE StructureInv'
    <3>1. TypeOK' /\ pc'[t] = "sync"
      BY <2>12 DEF SyncValidate, Goto, StructureInv, ConnectionsExact, TypeOK, memVars, tsVars,
         slotVars, histVars
    <3>2. \A u \in Threads : u # t => pc'[u] = pc[u] /\ arg'[u] = arg[u] /\ source'[u] = source[u]
      BY <2>12 DEF SyncValidate, Goto, StructureInv, ConnectionsExact, TypeOK
    <3> QED
      BY <2>12, <3>1, <3>2, QuietStep DEF SyncValidate, Busy
  <2>13. CASE SyncCompare(t)
    <3>1. TypeOK' /\ pc'[t] = "idle"
      BY <2>13 DEF SyncCompare, Return, Goto, StructureInv, ConnectionsExact, TypeOK, memVars,
         tsVars, slotVars
    <3>2. \A u \in Threads : u # t => pc'[u] = pc[u] /\ arg'[u] = arg[u] /\ source'[u] = source[u]
      BY <2>13 DEF SyncCompare, Return, Goto, StructureInv, ConnectionsExact, TypeOK
    <3> QED
      BY <2>13, <3>1, <3>2, QuietStep DEF SyncCompare, Busy
  <2>14. CASE FreeLocked(t)
    BY <2>14, FreeLockedStep
  <2>15. CASE Release(t)
    BY <2>15, ReleaseStep
  <2> QED
    BY <2>1, <2>2, <2>3, <2>4, <2>5, <2>6, <2>7, <2>8, <2>9, <2>10, <2>11, <2>12, <2>13, <2>14,
       <2>15 DEF ThreadStep
<1>3. CASE Ended
  BY <1>1, <1>3 DEF Ended
<1> QED
  BY <1>1, <1>2, <1>3 DEF Next

LEMMA StructureHolds == Spec => []StructureInv
<1>1. Init => StructureInv
  <2> SUFFICES ASSUME Init PROVE StructureInv
    OBVIOUS
  <2>1. TypeOK
    BY MaxObjectsAssumption DEF Init, TypeOK
  <2>2. RefcountExact /\ ResolveSound /\ UniqueOriginal
    BY DEF Init, RefcountExact, ResolveSound, UniqueOriginal
  <2>3. RoomInv
    <3>1. Constructing = {}
      BY DEF Init, Constructing
    <3> QED
      BY <3>1, FS_EmptySet, MaxObjectsAssumption DEF Init, RoomInv
  <2>4. ShapeInv /\ ArgInv /\ SourceInv /\ PrivateInv
    BY DEF Init, ShapeInv, ArgInv, SourceInv, PrivateInv, Busy, Making
  <2> QED
    BY <2>1, <2>2, <2>3, <2>4 DEF StructureInv, ConnectionsExact
<1>2. StructureInv /\ [Next]_vars => StructureInv'
  BY StructureStep
<1> QED
  BY <1>1, <1>2, PTL DEF Spec

\* ConnectionsExact, for any number of threads, addresses and structures and for
\* every freedom of the program: a shared structure counts exactly the live PHP
\* objects that share it and is freed with the last one (pthreads_base_free), the
\* table of connections has only live objects of its own thread, and a structure
\* has one original.
THEOREM ConnectionsAlwaysExact == Spec => []ConnectionsExact
<1>1. StructureInv => ConnectionsExact
  BY DEF StructureInv
<1> QED
  BY <1>1, StructureHolds, PTL

-----------------------------------------------------------------------------
(* Without reuse: what a stored address means.                             *)

LEMMA NameQuiet ==
  ASSUME StructureInv, NameInv, UNCHANGED <<freedoms, objects, memVars, slotVars>>,
         \A u \in Threads : pc'[u] \in Making => pc'[u] = pc[u] /\ arg'[u] = arg[u]
  PROVE  NameInv'
BY DEF NameInv, memVars, slotVars, Making

\* A new object that is not yet anybody's name.
LEMMA NameAlloc ==
  ASSUME StructureInv, NameInv, UNCHANGED freedoms,
         NEW t \in Threads, NEW a \in Addresses, NEW src, Alloc(t, a, src)
  PROVE  NameInv'
<1> SUFFICES ASSUME "reuse" \notin freedoms PROVE NameInv'
  BY DEF NameInv
<1> USE DEF StructureInv, ConnectionsExact
<1>1. /\ mem[a] = "free"
      /\ \A s \in Slots : slot[s] # a
      /\ \A b \in Addresses : mem[b] # "free" => original_zobj[b] # a
      /\ objects' = objects \cup {a}
      /\ mem' = [mem EXCEPT ![a] = "raw"]
      /\ ts_obj' = [ts_obj EXCEPT ![a] = NULL]
      /\ original_zobj' = [original_zobj EXCEPT ![a] = NULL]
      /\ pc' = [pc EXCEPT ![t] = "construct"]
      /\ arg' = [arg EXCEPT ![t] = a]
      /\ slot' = slot /\ meant' = meant
  BY DEF Alloc, Goto, Available, slotVars
<1>2. \A s \in Slots : slot[s] \in objects => slot[s] \in Addresses
  BY DEF TypeOK
<1>3. \A b \in Addresses : original_zobj[b] \in objects => original_zobj[b] \in Addresses
  BY DEF TypeOK
<1>4. \A s \in Slots : slot'[s] \in objects' =>
        mem'[slot'[s]] = "live" /\ ts_obj'[slot'[s]] = meant'[s]
  BY <1>1, <1>2 DEF NameInv, TypeOK
<1>5. \A b \in Addresses : mem'[b] = "live" /\ original_zobj'[b] \in objects' =>
        mem'[original_zobj'[b]] = "live" /\ ts_obj'[original_zobj'[b]] = ts_obj'[b]
  BY <1>1, <1>3 DEF NameInv, TypeOK
<1>6. \A u \in Threads : pc'[u] \in Making =>
        /\ \A s \in Slots : slot'[s] # arg'[u]
        /\ \A b \in Addresses : mem'[b] = "live" => original_zobj'[b] # arg'[u]
  BY <1>1 DEF NameInv, TypeOK
<1> QED
  BY <1>4, <1>5, <1>6 DEF NameInv

LEMMA NameConstruct ==
  ASSUME StructureInv, NameInv, UNCHANGED freedoms, NEW t \in Threads, Construct(t)
  PROVE  NameInv'
<1> SUFFICES ASSUME "reuse" \notin freedoms PROVE NameInv'
  BY DEF NameInv
<1> USE DEF StructureInv, ConnectionsExact
<1>0. PICK a, o : a = arg[t] /\ o = made + 1
  OBVIOUS
<1>1. /\ pc[t] = "construct"
      /\ mem' = [mem EXCEPT ![a] = "live"]
      /\ ts_obj' = [ts_obj EXCEPT ![a] = o]
      /\ objects' = objects /\ original_zobj' = original_zobj
      /\ slot' = slot /\ meant' = meant
  BY <1>0 DEF Construct, slotVars
<1>2. /\ \A u \in Threads : u # t => pc'[u] = pc[u] /\ arg'[u] = arg[u]
      /\ pc'[t] \in Making => arg'[t] = a
  BY <1>0 DEF Construct, Return, Goto, TypeOK, Making
<1>3. a \in Addresses /\ original_zobj[a] = NULL
  BY <1>0, <1>1 DEF ArgInv, ShapeInv, Busy
<1>4. /\ \A s \in Slots : slot[s] # a
      /\ \A b \in Addresses : mem[b] = "live" => original_zobj[b] # a
  BY <1>0, <1>1 DEF NameInv, Making
<1>5. \A s \in Slots : slot'[s] \in objects' =>
        mem'[slot'[s]] = "live" /\ ts_obj'[slot'[s]] = meant'[s]
  BY <1>1, <1>4 DEF NameInv, TypeOK
<1>6. \A b \in Addresses : mem'[b] = "live" /\ original_zobj'[b] \in objects' =>
        mem'[original_zobj'[b]] = "live" /\ ts_obj'[original_zobj'[b]] = ts_obj'[b]
  BY <1>1, <1>3, <1>4, AddressesAssumption DEF NameInv, TypeOK
<1>7. \A u \in Threads : pc'[u] \in Making => arg'[u] \in Addresses
  BY <1>2, <1>3 DEF ArgInv, Making, Busy
<1>8. \A u \in Threads : pc'[u] \in Making =>
        /\ \A s \in Slots : slot'[s] # arg'[u]
        /\ \A b \in Addresses : mem'[b] = "live" => original_zobj'[b] # arg'[u]
  BY <1>1, <1>2, <1>3, <1>4, <1>7, AddressesAssumption DEF NameInv, TypeOK
<1> QED
  BY <1>5, <1>6, <1>8 DEF NameInv

LEMMA NameConnect ==
  ASSUME StructureInv, NameInv, UNCHANGED freedoms, NEW t \in Threads, Connect(t)
  PROVE  NameInv'
<1> SUFFICES ASSUME "reuse" \notin freedoms PROVE NameInv'
  BY DEF NameInv
<1> USE DEF StructureInv, ConnectionsExact
<1>0. PICK d, c, x : d = arg[t] /\ c = source[t] /\ x = Name(c)
  OBVIOUS
<1>1. /\ pc[t] = "connect"
      /\ ts_obj' = [ts_obj EXCEPT ![d] = ts_obj[c]]
      /\ original_zobj' = [original_zobj EXCEPT ![d] = x]
      /\ pc' = [pc EXCEPT ![t] = "idle"]
      /\ arg' = [arg EXCEPT ![t] = NULL]
      /\ objects' = objects /\ mem' = mem /\ slot' = slot /\ meant' = meant
  BY <1>0 DEF Connect, Reconnect, Return, Goto, slotVars
<1>2. d \in Addresses
  BY <1>0, <1>1 DEF ArgInv, Busy
<1>3. /\ c \in Addresses /\ mem[c] = "live" /\ c # d
      /\ \A u \in Threads : pc[u] \in Making => arg[u] # c
  BY <1>0, <1>1 DEF SourceInv, Making, Busy
<1>4. /\ \A s \in Slots : slot[s] # d
      /\ \A b \in Addresses : mem[b] = "live" => original_zobj[b] # d
  BY <1>0, <1>1 DEF NameInv, Making
<1>5. x # d /\ x \in Addresses /\ (x \in objects => mem[x] = "live" /\ ts_obj[x] = ts_obj[c])
  BY <1>0, <1>3, <1>4 DEF NameInv, Name, TypeOK
<1>6. \A u \in Threads : pc[u] \in Making => arg[u] # x
  BY <1>0, <1>3 DEF NameInv, Name
<1>7. \A s \in Slots : slot'[s] \in objects' =>
        mem'[slot'[s]] = "live" /\ ts_obj'[slot'[s]] = meant'[s]
  BY <1>1, <1>4 DEF NameInv, TypeOK
<1>8. \A b \in Addresses : mem'[b] = "live" /\ original_zobj'[b] \in objects' =>
        mem'[original_zobj'[b]] = "live" /\ ts_obj'[original_zobj'[b]] = ts_obj'[b]
  BY <1>1, <1>2, <1>4, <1>5 DEF NameInv, TypeOK
<1>9. \A u \in Threads : pc'[u] \in Making => u # t /\ pc[u] \in Making /\ arg'[u] = arg[u]
  BY <1>1 DEF TypeOK, Making
<1>10. \A u \in Threads : pc'[u] \in Making =>
         /\ \A s \in Slots : slot'[s] # arg'[u]
         /\ \A b \in Addresses : mem'[b] = "live" => original_zobj'[b] # arg'[u]
  BY <1>1, <1>2, <1>6, <1>9 DEF NameInv, TypeOK
<1> QED
  BY <1>7, <1>8, <1>10 DEF NameInv

LEMMA NameNewConnection ==
  ASSUME StructureInv, NameInv, UNCHANGED <<freedoms, slotVars, pc, arg, source>>,
         NEW t \in Threads, NEW a \in Addresses, NEW b \in Addresses,
         mem[a] = "live", \A u \in Threads : pc[u] \in Making => arg[u] # a,
         NewConnection(t, a, b)
  PROVE  NameInv'
<1> SUFFICES ASSUME "reuse" \notin freedoms PROVE NameInv'
  BY DEF NameInv
<1> USE DEF StructureInv, ConnectionsExact
<1>0. PICK x : x = Name(a)
  OBVIOUS
<1>1. /\ mem[b] = "free"
      /\ \A s \in Slots : slot[s] # b
      /\ \A e \in Addresses : mem[e] # "free" => original_zobj[e] # b
      /\ objects' = objects \cup {b}
      /\ mem' = [mem EXCEPT ![b] = "live"]
      /\ ts_obj' = [ts_obj EXCEPT ![b] = ts_obj[a]]
      /\ original_zobj' = [original_zobj EXCEPT ![b] = x]
      /\ pc' = pc /\ arg' = arg /\ slot' = slot /\ meant' = meant
  BY <1>0 DEF NewConnection, Available, slotVars
<1>2. /\ x # b /\ x \in Addresses
      /\ x \in objects => mem[x] = "live" /\ ts_obj[x] = ts_obj[a]
      /\ \A u \in Threads : pc[u] \in Making => arg[u] # x
  BY <1>0, <1>1 DEF NameInv, Name, TypeOK
<1>3. \A s \in Slots : slot'[s] \in objects' =>
        mem'[slot'[s]] = "live" /\ ts_obj'[slot'[s]] = meant'[s]
  BY <1>1 DEF NameInv, TypeOK
<1>4. \A e \in Addresses : mem'[e] = "live" /\ original_zobj'[e] \in objects' =>
        mem'[original_zobj'[e]] = "live" /\ ts_obj'[original_zobj'[e]] = ts_obj'[e]
  BY <1>1, <1>2 DEF NameInv, TypeOK
<1>5. \A u \in Threads : pc'[u] \in Making =>
        /\ \A s \in Slots : slot'[s] # arg'[u]
        /\ \A e \in Addresses : mem'[e] = "live" => original_zobj'[e] # arg'[u]
  BY <1>1, <1>2 DEF NameInv, TypeOK
<1> QED
  BY <1>3, <1>4, <1>5 DEF NameInv

LEMMA NameStore ==
  ASSUME StructureInv, NameInv, UNCHANGED freedoms,
         NEW t \in Threads, NEW a \in Addresses, NEW s \in Slots, Store(t, a, s)
  PROVE  NameInv'
<1> SUFFICES ASSUME "reuse" \notin freedoms PROVE NameInv'
  BY DEF NameInv
<1> USE DEF StructureInv, ConnectionsExact
<1>0. PICK x : x = Name(a)
  OBVIOUS
<1>1. /\ pc[t] = "idle" /\ mem[a] = "live" /\ owner[a] = t
      /\ slot' = [slot EXCEPT ![s] = x]
      /\ meant' = [meant EXCEPT ![s] = ts_obj[a]]
      /\ UNCHANGED <<objects, mem, ts_obj, original_zobj, pc, arg>>
  BY <1>0 DEF Store, Mine, memVars
<1>2. \A u \in Threads : pc[u] \in Making => arg[u] # a
  BY <1>1 DEF ArgInv, Making, Busy
<1>3. /\ x \in objects => mem[x] = "live" /\ ts_obj[x] = ts_obj[a]
      /\ \A u \in Threads : pc[u] \in Making => arg[u] # x
  BY <1>0, <1>1, <1>2 DEF NameInv, Name
<1> QED
  BY <1>1, <1>3 DEF NameInv, TypeOK

\* Freeing takes an address out of the registry.
LEMMA NameFree ==
  ASSUME StructureInv, NameInv, UNCHANGED freedoms,
         NEW t \in Threads, FreeLocked(t) \/ Release(t)
  PROVE  NameInv'
<1> USE DEF StructureInv, ConnectionsExact
<1>0. PICK a : a = arg[t]
  OBVIOUS
<1>1. /\ a \in Addresses
      /\ objects' = objects \ {a}
      /\ \A x \in Addresses : x # a => mem'[x] = mem[x]
      /\ mem'[a] # "live"
      /\ UNCHANGED <<ts_obj, original_zobj, slot, meant>>
      /\ \A u \in Threads : pc'[u] \in Making => pc'[u] = pc[u] /\ arg'[u] = arg[u]
  <2>1. CASE FreeLocked(t)
    BY <1>0, <2>1 DEF FreeLocked, Goto, ArgInv, Busy, Making, TypeOK, slotVars
  <2>2. CASE Release(t)
    <3>1. a \in Addresses /\ a \notin objects
      BY <1>0, <2>2 DEF Release, ArgInv, ShapeInv, Busy
    <3> QED
      BY <1>0, <2>2, <3>1 DEF Release, Return, Goto, Making, TypeOK, slotVars
  <2> QED
    BY <2>1, <2>2
<1> QED
  BY <1>1 DEF NameInv, TypeOK

LEMMA NameObjectConnect ==
  ASSUME StructureInv, NameInv, UNCHANGED <<freedoms, slotVars, pc, arg, source>>,
         NEW t \in Threads, NEW a \in Addresses,
         mem[a] = "live", "reuse" \notin freedoms => \A u \in Threads : pc[u] \in Making => arg[u] # a,
         ObjectConnect(t, a)
  PROVE  NameInv'
<1>1. CASE Reused
  BY <1>1, NameQuiet DEF Reused
<1>2. ASSUME NEW b \in Addresses, NewConnection(t, a, b) PROVE NameInv'
  <2>1. CASE "reuse" \in freedoms
    BY <2>1 DEF NameInv
  <2>2. CASE "reuse" \notin freedoms
    BY <1>2, <2>2, NameNewConnection
  <2> QED
    BY <2>1, <2>2
<1> QED
  BY <1>1, <1>2 DEF ObjectConnect

LEMMA NameStep ==
  ASSUME StructureInv, NameInv, [Next]_vars PROVE NameInv'
<1>1. CASE UNCHANGED vars
  BY <1>1, NameQuiet DEF vars
<1>2. ASSUME NEW t \in Threads, ThreadStep(t), UNCHANGED freedoms PROVE NameInv'
  <2> USE <1>2
  <2>1. ASSUME NEW a \in Addresses, New(t, a) PROVE NameInv'
    BY <2>1, NameAlloc DEF New
  <2>2. ASSUME NEW a \in Addresses, NEW src \in Addresses, Spawn(t, a, src) PROVE NameInv'
    BY <2>2, NameAlloc DEF Spawn
  <2>3. ASSUME NEW a \in Addresses, CopyObject(t, a) PROVE NameInv'
    BY <2>3, NameObjectConnect DEF CopyObject, Hidden, Making
  <2>4. ASSUME NEW a \in Addresses, FreeBegin(t, a) PROVE NameInv'
    <3>1. \A u \in Threads : pc'[u] \in Making => pc'[u] = pc[u] /\ arg'[u] = arg[u]
      BY <2>4 DEF FreeBegin, Goto, Making, StructureInv, ConnectionsExact, TypeOK
    <3> QED
      BY <2>4, <3>1, NameQuiet DEF FreeBegin
  <2>5. CASE Construct(t)
    BY <2>5, NameConstruct
  <2>6. CASE Connect(t)
    BY <2>6, NameConnect
  <2>7. ASSUME NEW a \in Addresses, NEW s \in Slots, Store(t, a, s) PROVE NameInv'
    BY <2>7, NameStore
  <2>8. ASSUME NEW s \in Slots, Erase(t, s) PROVE NameInv'
    <3>1. /\ slot' = [slot EXCEPT ![s] = NULL] /\ meant' = [meant EXCEPT ![s] = NULL]
          /\ UNCHANGED <<objects, mem, ts_obj, original_zobj, pc, arg>>
      BY <2>8 DEF Erase, memVars
    <3>2. NULL \notin objects
      BY AddressesAssumption DEF StructureInv, ConnectionsExact, TypeOK
    <3>3. \A u \in Threads : pc[u] \in Making => arg[u] # NULL
      BY AddressesAssumption DEF StructureInv, ArgInv, Busy, Making
    <3> QED
      BY <3>1, <3>2, <3>3 DEF NameInv, StructureInv, ConnectionsExact, TypeOK
  <2>9. ASSUME NEW s \in Slots, Read(t, s) PROVE NameInv'
    <3>1. slot[s] \in Addresses /\ mem[slot[s]] = "live" /\ ObjectConnect(t, slot[s])
      BY <2>9, AddressesAssumption DEF Read, StructureInv, ConnectionsExact, TypeOK
    <3>2. "reuse" \notin freedoms => \A u \in Threads : pc[u] \in Making => arg[u] # slot[s]
      BY DEF NameInv
    <3> QED
      BY <2>9, <3>1, <3>2, NameObjectConnect DEF Read
  <2>10. ASSUME NEW s \in Slots, ReadRaw(t, s) PROVE NameInv'
    BY <2>10, NameQuiet DEF ReadRaw, Making
  <2>11. ASSUME NEW s \in Slots, ReadGone(t, s) PROVE NameInv'
    BY <2>11, NameQuiet DEF ReadGone
  <2>12. ASSUME NEW a \in Addresses, NEW s \in Slots, SyncValidate(t, a, s) PROVE NameInv'
    <3>1. \A u \in Threads : pc'[u] \in Making => pc'[u] = pc[u] /\ arg'[u] = arg[u]
      BY <2>12 DEF SyncValidate, Goto, Making, StructureInv, ConnectionsExact, TypeOK
    <3> QED
      BY <2>12, <3>1, NameQuiet DEF SyncValidate
  <2>13. CASE SyncCompare(t)
    <3>1. \A u \in Threads : pc'[u] \in Making => pc'[u] = pc[u] /\ arg'[u] = arg[u]
      BY <2>13 DEF SyncCompare, Return, Goto, Making, StructureInv, ConnectionsExact, TypeOK
    <3> QED
      BY <2>13, <3>1, NameQuiet DEF SyncCompare
  <2>14. CASE FreeLocked(t) \/ Release(t)
    BY <2>14, NameFree
  <2> QED
    BY <2>1, <2>2, <2>3, <2>4, <2>5, <2>6, <2>7, <2>8, <2>9, <2>10, <2>11, <2>12, <2>13, <2>14
       DEF ThreadStep
<1>3. CASE Ended
  BY <1>1, <1>3 DEF Ended
<1> QED
  BY <1>1, <1>2, <1>3 DEF Next

LEMMA ReadStep ==
  ASSUME StructureInv, NameInv, ReadGetsStored, [Next]_vars PROVE ReadGetsStored'
<1>1. CASE UNCHANGED <<freedoms, lastRead>> /\ faults' \in {faults, faults \cup {"sync"}}
  BY <1>1 DEF ReadGetsStored
<1>2. ASSUME NEW t \in Threads, ThreadStep(t), UNCHANGED freedoms PROVE ReadGetsStored'
  <2> USE <1>2
  <2>1. ASSUME NEW s \in Slots, Read(t, s) PROVE ReadGetsStored'
    <3>1. slot[s] \in Addresses /\ slot[s] \in objects
      BY <2>1, AddressesAssumption DEF Read, StructureInv, ConnectionsExact, TypeOK
    <3>2. Reached(t, slot[s]) = ts_obj[slot[s]]
      BY <2>1, <3>1, ReachedFacts DEF Read
    <3>3. "reuse" \notin freedoms => ts_obj[slot[s]] = meant[s]
      BY <3>1 DEF NameInv
    <3> QED
      BY <2>1, <3>2, <3>3 DEF Read, ReadGetsStored
  <2>2. ASSUME NEW s \in Slots, ReadRaw(t, s) PROVE ReadGetsStored'
    BY <2>2 DEF ReadRaw, NameInv, ReadGetsStored
  <2>3. ASSUME NEW s \in Slots, ReadGone(t, s) PROVE ReadGetsStored'
    BY <2>3 DEF ReadGone, ReadGetsStored
  <2>4. CASE SyncCompare(t)
    BY <1>1, <2>4 DEF SyncCompare
  <2>5. CASE \E a \in Addresses : New(t, a) \/ CopyObject(t, a) \/ FreeBegin(t, a)
    BY <1>1, <2>5 DEF New, Alloc, CopyObject, FreeBegin, histVars
  <2>6. CASE \E a, src \in Addresses : Spawn(t, a, src)
    BY <1>1, <2>6 DEF Spawn, Alloc, histVars
  <2>7. CASE Construct(t) \/ Connect(t) \/ FreeLocked(t) \/ Release(t)
    BY <1>1, <2>7 DEF Construct, Connect, FreeLocked, Release, histVars
  <2>8. CASE \E a \in Addresses, s \in Slots : Store(t, a, s) \/ SyncValidate(t, a, s)
    BY <1>1, <2>8 DEF Store, SyncValidate, histVars
  <2>9. CASE \E s \in Slots : Erase(t, s)
    BY <1>1, <2>9 DEF Erase, histVars
  <2> QED
    BY <2>1, <2>2, <2>3, <2>4, <2>5, <2>6, <2>7, <2>8, <2>9 DEF ThreadStep
<1>3. CASE UNCHANGED vars
  BY <1>1, <1>3 DEF vars, histVars
<1>4. CASE Ended
  BY <1>3, <1>4 DEF Ended
<1> QED
  BY <1>2, <1>3, <1>4 DEF Next

\* ReadGetsStored, for any number of threads, objects and slots: unless a stored
\* address is given to another object, reading it connects to the structure that
\* was stored or throws, and pthreads_globals_object_connect never follows the
\* address of an object that is being made or has been freed.
THEOREM ReadAlwaysGetsStored == Spec => []ReadGetsStored
<1>1. Init => NameInv /\ ReadGetsStored
  BY DEF Init, NameInv, ReadGetsStored, Making
<1>2. StructureInv /\ NameInv /\ ReadGetsStored /\ [Next]_vars => NameInv' /\ ReadGetsStored'
  BY NameStep, ReadStep
<1> QED
  BY <1>1, <1>2, StructureHolds, PTL DEF Spec

-----------------------------------------------------------------------------
(* With a chain of ownership: everything that is named stays.              *)

\* Steps that name nothing and touch no object that anybody names.
LEMMA ChainQuiet ==
  ASSUME StructureInv, ChainInv, UNCHANGED <<freedoms, slotVars>>, "outlive" \notin freedoms,
         \A x \in Addresses : Stays(x) =>
           Stays(x)' /\ ts_obj'[x] = ts_obj[x],
         \A b \in Addresses : mem'[b] # "free" /\ original_zobj'[b] # NULL =>
           /\ mem[b] # "free" /\ original_zobj'[b] = original_zobj[b] /\ ts_obj'[b] = ts_obj[b],
         \A u \in Threads : pc'[u] = "sync" =>
           pc[u] = "sync" /\ arg'[u] = arg[u] /\ source'[u] = source[u],
         "sync" \notin faults'
  PROVE  ChainInv'
<1>1. \A x : Stays(x) => x \in Addresses
  BY DEF Stays
<1>2. \A s \in Slots : slot[s] # NULL => Stays(slot[s])' /\ ts_obj'[slot[s]] = meant[s]
  BY <1>1 DEF ChainInv, slotVars
<1>3. \A b \in Addresses : mem'[b] # "free" /\ original_zobj'[b] # NULL =>
        Stays(original_zobj[b])' /\ ts_obj'[original_zobj[b]] = ts_obj'[b] /\ original_zobj'[b] = original_zobj[b]
  BY <1>1 DEF ChainInv
<1> QED
  BY <1>2, <1>3 DEF ChainInv, slotVars

LEMMA ChainAlloc ==
  ASSUME StructureInv, ChainInv, UNCHANGED freedoms, "outlive" \notin freedoms,
         NEW t \in Threads, NEW a \in Addresses, NEW src, Alloc(t, a, src)
  PROVE  ChainInv'
<1> USE DEF StructureInv, ConnectionsExact
<1>1. /\ mem[a] = "free"
      /\ mem' = [mem EXCEPT ![a] = "raw"]
      /\ ts_obj' = [ts_obj EXCEPT ![a] = NULL]
      /\ original_zobj' = [original_zobj EXCEPT ![a] = NULL]
      /\ pc' = [pc EXCEPT ![t] = "construct"]
      /\ arg' = [arg EXCEPT ![t] = a]
      /\ source' = [source EXCEPT ![t] = src]
      /\ slotVars' = slotVars /\ faults' = faults
  BY DEF Alloc, Goto, Available, histVars
<1>2. \A x \in Addresses : Stays(x) => Stays(x)' /\ ts_obj'[x] = ts_obj[x]
  BY <1>1 DEF Stays, TypeOK
<1>3. \A b \in Addresses : mem'[b] # "free" /\ original_zobj'[b] # NULL =>
        mem[b] # "free" /\ original_zobj'[b] = original_zobj[b] /\ ts_obj'[b] = ts_obj[b]
  BY <1>1 DEF TypeOK
<1>4. \A u \in Threads : pc'[u] = "sync" =>
        pc[u] = "sync" /\ arg'[u] = arg[u] /\ source'[u] = source[u]
  BY <1>1 DEF TypeOK
<1>5. "sync" \notin faults'
  BY <1>1 DEF ChainInv
<1> QED
  BY <1>1, <1>2, <1>3, <1>4, <1>5, ChainQuiet

LEMMA ChainConstruct ==
  ASSUME StructureInv, ChainInv, UNCHANGED freedoms, "outlive" \notin freedoms,
         NEW t \in Threads, Construct(t)
  PROVE  ChainInv'
<1> USE DEF StructureInv, ConnectionsExact
<1>0. PICK a, o : a = arg[t] /\ o = made + 1
  OBVIOUS
<1>1. /\ pc[t] = "construct"
      /\ mem' = [mem EXCEPT ![a] = "live"]
      /\ ts_obj' = [ts_obj EXCEPT ![a] = o]
      /\ original_zobj' = original_zobj
      /\ slotVars' = slotVars /\ faults' = faults
  BY <1>0 DEF Construct, histVars
<1>2. /\ \A u \in Threads : u # t => pc'[u] = pc[u] /\ arg'[u] = arg[u] /\ source'[u] = source[u]
      /\ pc'[t] \in Busy => arg'[t] = a
      /\ pc'[t] # "sync"
  BY <1>0 DEF Construct, Return, Goto, TypeOK, Busy
<1>3. a \in Addresses /\ mem[a] = "raw" /\ original_zobj[a] = NULL
  BY <1>0, <1>1 DEF ArgInv, ShapeInv, Busy
<1>4. \A x \in Addresses : Stays(x) => Stays(x)' /\ ts_obj'[x] = ts_obj[x]
  BY <1>1, <1>2, <1>3 DEF Stays, TypeOK
<1>5. \A b \in Addresses : mem'[b] # "free" /\ original_zobj'[b] # NULL =>
        mem[b] # "free" /\ original_zobj'[b] = original_zobj[b] /\ ts_obj'[b] = ts_obj[b]
  BY <1>1, <1>3 DEF TypeOK
<1>6. "sync" \notin faults'
  BY <1>1 DEF ChainInv
<1>7. \A u \in Threads : pc'[u] = "sync" =>
        pc[u] = "sync" /\ arg'[u] = arg[u] /\ source'[u] = source[u]
  BY <1>2
<1> QED
  BY <1>1, <1>4, <1>5, <1>6, <1>7, ChainQuiet

\* The address by which a live object that nobody is making or freeing is named.
LEMMA NameStays ==
  ASSUME StructureInv, ChainInv, "outlive" \notin freedoms, NEW a \in Addresses, mem[a] = "live",
         \A u \in Threads : pc[u] \in Busy => arg[u] # a
  PROVE  Stays(Name(a)) /\ ts_obj[Name(a)] = ts_obj[a]
<1>1. CASE original_zobj[a] = NULL
  BY <1>1 DEF Name, Stays
<1>2. CASE original_zobj[a] # NULL
  BY <1>2 DEF Name, ChainInv
<1> QED
  BY <1>1, <1>2

LEMMA ChainConnect ==
  ASSUME StructureInv, ChainInv, UNCHANGED freedoms, "outlive" \notin freedoms,
         NEW t \in Threads, Connect(t)
  PROVE  ChainInv'
<1> USE DEF StructureInv, ConnectionsExact
<1>0. PICK d, c, x : d = arg[t] /\ c = source[t] /\ x = Name(c)
  OBVIOUS
<1>1. /\ pc[t] = "connect"
      /\ ts_obj' = [ts_obj EXCEPT ![d] = ts_obj[c]]
      /\ original_zobj' = [original_zobj EXCEPT ![d] = x]
      /\ pc' = [pc EXCEPT ![t] = "idle"]
      /\ arg' = [arg EXCEPT ![t] = NULL]
      /\ source' = [source EXCEPT ![t] = NULL]
      /\ mem' = mem /\ slot' = slot /\ meant' = meant /\ faults' = faults
  BY <1>0 DEF Connect, Reconnect, Return, Goto, slotVars, histVars
<1>2. d \in Addresses /\ c \in Addresses /\ mem[c] = "live" /\ c # d
  BY <1>0, <1>1 DEF ArgInv, SourceInv, Making, Busy
<1>3. Stays(x) /\ ts_obj[x] = ts_obj[c]
  BY <1>0, <1>1, <1>2, NameStays DEF SourceInv, Making
<1>4. ASSUME NEW y, Stays(y) PROVE Stays(y)' /\ ts_obj'[y] = ts_obj[y] /\ y # d
  <2>1. y \in Addresses /\ y # d
    BY <1>0, <1>1, <1>4 DEF Stays, Busy
  <2> QED
    BY <1>1, <1>4, <2>1 DEF Stays, TypeOK, Busy
<1>5. \A s \in Slots : slot[s] # NULL => Stays(slot[s])' /\ ts_obj'[slot[s]] = meant[s]
  <2> SUFFICES ASSUME NEW s \in Slots, slot[s] # NULL
               PROVE  Stays(slot[s])' /\ ts_obj'[slot[s]] = meant[s]
    OBVIOUS
  <2>1. PICK y : y = slot[s]
    OBVIOUS
  <2>2. Stays(y) /\ ts_obj[y] = meant[s] /\ slot'[s] = y
    BY <1>1, <2>1 DEF ChainInv
  <2> QED
    BY <1>4, <2>1, <2>2 DEF Stays
<1>6. \A b \in Addresses : mem'[b] # "free" /\ original_zobj'[b] # NULL =>
        Stays(original_zobj[b])' /\ ts_obj'[original_zobj'[b]] = ts_obj'[b]
  <2> SUFFICES ASSUME NEW b \in Addresses, mem'[b] # "free", original_zobj'[b] # NULL
               PROVE  Stays(original_zobj[b])' /\ ts_obj'[original_zobj'[b]] = ts_obj'[b]
    OBVIOUS
  <2>1. PICK y : y = original_zobj'[b]
    OBVIOUS
  <2>2. CASE b = d
    <3>1. y = x /\ ts_obj'[b] = ts_obj[c]
      BY <1>1, <1>2, <2>1, <2>2 DEF TypeOK
    <3> QED
      BY <1>3, <1>4, <2>1, <3>1 DEF Stays
  <2>3. CASE b # d
    <3>1. y = original_zobj[b] /\ ts_obj'[b] = ts_obj[b]
      BY <1>1, <2>1, <2>3 DEF TypeOK
    <3>2. Stays(y) /\ ts_obj[y] = ts_obj[b]
      BY <1>1, <2>1, <3>1 DEF ChainInv
    <3> QED
      BY <1>4, <2>1, <3>1, <3>2 DEF Stays
  <2> QED
    BY <2>2, <2>3
<1>7. \A u \in Threads : pc'[u] = "sync" =>
        pc[u] = "sync" /\ arg'[u] = arg[u] /\ source'[u] = source[u]
  BY <1>1 DEF TypeOK
<1> QED
  BY <1>1, <1>5, <1>6, <1>7 DEF ChainInv

LEMMA ChainNewConnection ==
  ASSUME StructureInv, ChainInv, UNCHANGED <<freedoms, slotVars, pc, arg, source, faults>>,
         "outlive" \notin freedoms,
         NEW t \in Threads, NEW a \in Addresses, NEW b \in Addresses,
         mem[a] = "live", \A u \in Threads : pc[u] \in Busy => arg[u] # a,
         NewConnection(t, a, b)
  PROVE  ChainInv'
<1> USE DEF StructureInv, ConnectionsExact
<1>0. PICK x : x = Name(a)
  OBVIOUS
<1>1. /\ mem[b] = "free"
      /\ mem' = [mem EXCEPT ![b] = "live"]
      /\ ts_obj' = [ts_obj EXCEPT ![b] = ts_obj[a]]
      /\ original_zobj' = [original_zobj EXCEPT ![b] = x]
      /\ slot' = slot /\ meant' = meant
  BY <1>0 DEF NewConnection, Available, slotVars
<1>2. Stays(x) /\ ts_obj[x] = ts_obj[a]
  BY <1>0, NameStays
<1>3. ASSUME NEW y, Stays(y) PROVE Stays(y)' /\ ts_obj'[y] = ts_obj[y]
  BY <1>1, <1>3 DEF Stays, TypeOK
<1>4. \A s \in Slots : slot[s] # NULL => Stays(slot[s])' /\ ts_obj'[slot[s]] = meant[s]
  <2> SUFFICES ASSUME NEW s \in Slots, slot[s] # NULL
               PROVE  Stays(slot[s])' /\ ts_obj'[slot[s]] = meant[s]
    OBVIOUS
  <2>1. PICK y : y = slot[s]
    OBVIOUS
  <2>2. Stays(y) /\ ts_obj[y] = meant[s] /\ slot'[s] = y
    BY <1>1, <2>1 DEF ChainInv
  <2> QED
    BY <1>3, <2>1, <2>2 DEF Stays
<1>5. \A e \in Addresses : mem'[e] # "free" /\ original_zobj'[e] # NULL =>
        Stays(original_zobj[e])' /\ ts_obj'[original_zobj'[e]] = ts_obj'[e]
  <2> SUFFICES ASSUME NEW e \in Addresses, mem'[e] # "free", original_zobj'[e] # NULL
               PROVE  Stays(original_zobj[e])' /\ ts_obj'[original_zobj'[e]] = ts_obj'[e]
    OBVIOUS
  <2>1. PICK y : y = original_zobj'[e]
    OBVIOUS
  <2>2. CASE e = b
    <3>1. y = x /\ ts_obj'[e] = ts_obj[a]
      BY <1>1, <2>1, <2>2 DEF TypeOK
    <3> QED
      BY <1>2, <1>3, <2>1, <3>1 DEF Stays
  <2>3. CASE e # b
    <3>1. y = original_zobj[e] /\ ts_obj'[e] = ts_obj[e] /\ mem[e] # "free"
      BY <1>1, <2>1, <2>3 DEF TypeOK
    <3>2. Stays(y) /\ ts_obj[y] = ts_obj[e]
      BY <2>1, <3>1 DEF ChainInv
    <3> QED
      BY <1>3, <2>1, <3>1, <3>2 DEF Stays
  <2> QED
    BY <2>2, <2>3
<1> QED
  BY <1>1, <1>4, <1>5 DEF ChainInv

LEMMA ChainObjectConnect ==
  ASSUME StructureInv, ChainInv, UNCHANGED <<freedoms, slotVars, pc, arg, source, faults>>,
         "outlive" \notin freedoms,
         NEW t \in Threads, NEW a \in Addresses,
         mem[a] = "live", \A u \in Threads : pc[u] \in Busy => arg[u] # a,
         ObjectConnect(t, a)
  PROVE  ChainInv'
<1>1. CASE Reused
  BY <1>1 DEF Reused, ChainInv, Stays, memVars, slotVars
<1>2. ASSUME NEW b \in Addresses, NewConnection(t, a, b) PROVE ChainInv'
  BY <1>2, ChainNewConnection
<1> QED
  BY <1>1, <1>2 DEF ObjectConnect

\* Steps that change no object.
LEMMA ChainSame ==
  ASSUME ChainInv, UNCHANGED <<freedoms, memVars, slotVars>>, "outlive" \notin freedoms,
         "sync" \notin faults',
         \A u \in Threads : pc'[u] \in Busy => pc'[u] = pc[u] /\ arg'[u] = arg[u],
         \A u \in Threads : pc'[u] = "sync" =>
           source'[u] \in Slots /\ slot[source'[u]] = arg'[u] /\ arg'[u] # NULL
  PROVE  ChainInv'
<1>1. \A x : Stays(x) => (x \in Addresses /\ mem'[x] = "live" /\ original_zobj'[x] = NULL
                           /\ \A u \in Threads : pc'[u] \in Busy => arg'[u] # x)
  BY DEF Stays, memVars
<1> QED
  BY <1>1 DEF ChainInv, Stays, memVars, slotVars

LEMMA ChainStore ==
  ASSUME StructureInv, ChainInv, UNCHANGED freedoms, "outlive" \notin freedoms,
         NEW t \in Threads, NEW a \in Addresses, NEW s \in Slots, Store(t, a, s)
  PROVE  ChainInv'
<1> USE DEF StructureInv, ConnectionsExact
<1>0. PICK x : x = Name(a)
  OBVIOUS
<1>1. /\ pc[t] = "idle" /\ mem[a] = "live" /\ owner[a] = t
      /\ slot' = [slot EXCEPT ![s] = x]
      /\ meant' = [meant EXCEPT ![s] = ts_obj[a]]
      /\ UNCHANGED <<mem, ts_obj, original_zobj, pc, arg, source, faults>>
      /\ \A u \in Threads : pc[u] = "sync" => source[u] # s
  BY <1>0 DEF Store, Mine, memVars, histVars, Unlocked
<1>2. \A u \in Threads : pc[u] \in Busy => arg[u] # a
  BY <1>1 DEF ArgInv, Busy
<1>3. Stays(x) /\ ts_obj[x] = ts_obj[a]
  BY <1>0, <1>1, <1>2, NameStays
<1> QED
  BY <1>1, <1>3 DEF ChainInv, Stays, TypeOK

LEMMA ChainFreeBegin ==
  ASSUME StructureInv, ChainInv, UNCHANGED freedoms, "outlive" \notin freedoms,
         NEW t \in Threads, NEW a \in Addresses, FreeBegin(t, a)
  PROVE  ChainInv'
<1> USE DEF StructureInv, ConnectionsExact
<1>1. /\ pc' = [pc EXCEPT ![t] = "free"]
      /\ arg' = [arg EXCEPT ![t] = a]
      /\ source' = [source EXCEPT ![t] = NULL]
      /\ UNCHANGED <<mem, ts_obj, original_zobj, slot, meant, faults>>
  BY DEF FreeBegin, Goto, memVars, slotVars, histVars
<1>2. /\ \A s \in Slots : slot[s] # a
      /\ \A b \in Addresses : mem[b] # "free" => original_zobj[b] # a
  <2>1. CASE original_zobj[a] # NULL
    BY <2>1, AddressesAssumption DEF ChainInv, Stays
  <2>2. CASE original_zobj[a] = NULL
    BY <2>2 DEF FreeBegin, MayDrop
  <2> QED
    BY <2>1, <2>2
<1>3. ASSUME NEW x, Stays(x), x # a
      PROVE  x \in Addresses /\ mem'[x] = "live" /\ original_zobj'[x] = NULL
             /\ \A u \in Threads : pc'[u] \in Busy => arg'[u] # x
  BY <1>1, <1>3 DEF Stays, TypeOK
<1>4. \A u \in Threads : pc'[u] = "sync" =>
        pc[u] = "sync" /\ arg'[u] = arg[u] /\ source'[u] = source[u]
  BY <1>1 DEF TypeOK
<1> QED
  BY <1>1, <1>2, <1>3, <1>4 DEF ChainInv, Stays

LEMMA ChainFree ==
  ASSUME StructureInv, ChainInv, UNCHANGED freedoms, "outlive" \notin freedoms,
         NEW t \in Threads, FreeLocked(t) \/ Release(t)
  PROVE  ChainInv'
<1> USE DEF StructureInv, ConnectionsExact
<1>0. PICK a : a = arg[t]
  OBVIOUS
<1>1. /\ a \in Addresses /\ pc[t] \in Busy /\ mem[a] # "free"
      /\ \A x \in Addresses : x # a => mem'[x] = mem[x]
      /\ UNCHANGED <<ts_obj, original_zobj, slotVars, faults>>
      /\ \A u \in Threads : u # t => pc'[u] = pc[u] /\ arg'[u] = arg[u] /\ source'[u] = source[u]
      /\ pc'[t] # "sync" /\ (pc'[t] \in Busy => arg'[t] = a)
  <2>1. CASE FreeLocked(t)
    BY <1>0, <2>1 DEF FreeLocked, Goto, ArgInv, Busy, TypeOK, histVars
  <2>2. CASE Release(t)
    BY <1>0, <2>2 DEF Release, Return, Goto, ArgInv, Busy, TypeOK, histVars
  <2> QED
    BY <2>1, <2>2
<1>2. \A x \in Addresses : Stays(x) => Stays(x)' /\ ts_obj'[x] = ts_obj[x]
  <2> SUFFICES ASSUME NEW x \in Addresses, Stays(x) PROVE Stays(x)' /\ ts_obj'[x] = ts_obj[x]
    OBVIOUS
  <2>1. x # a
    BY <1>0, <1>1 DEF Stays
  <2> QED
    BY <1>0, <1>1, <2>1 DEF Stays
<1>3. \A b \in Addresses : mem'[b] # "free" /\ original_zobj'[b] # NULL =>
        mem[b] # "free" /\ original_zobj'[b] = original_zobj[b] /\ ts_obj'[b] = ts_obj[b]
  BY <1>1
<1>4. "sync" \notin faults'
  BY <1>1 DEF ChainInv
<1>5. \A u \in Threads : pc'[u] = "sync" =>
        pc[u] = "sync" /\ arg'[u] = arg[u] /\ source'[u] = source[u]
  BY <1>1
<1> QED
  BY <1>1, <1>2, <1>3, <1>4, <1>5, ChainQuiet

LEMMA ChainStep ==
  ASSUME StructureInv, ChainInv, [Next]_vars PROVE ChainInv'
<1>0. freedoms' = freedoms
  BY DEF Next, Ended, vars
<1> SUFFICES ASSUME "outlive" \notin freedoms PROVE ChainInv'
  BY <1>0 DEF ChainInv
<1> USE <1>0
<1>1. CASE UNCHANGED vars
  BY <1>1, ChainSame DEF vars, ChainInv, histVars, slotVars
<1>2. ASSUME NEW t \in Threads, ThreadStep(t) PROVE ChainInv'
  <2> USE <1>2
  <2>1. ASSUME NEW a \in Addresses, New(t, a) PROVE ChainInv'
    BY <2>1, ChainAlloc DEF New
  <2>2. ASSUME NEW a \in Addresses, NEW src \in Addresses, Spawn(t, a, src) PROVE ChainInv'
    BY <2>2, ChainAlloc DEF Spawn
  <2>3. ASSUME NEW a \in Addresses, CopyObject(t, a) PROVE ChainInv'
    BY <2>3, ChainObjectConnect DEF CopyObject, Hidden, Busy, histVars
  <2>4. ASSUME NEW a \in Addresses, FreeBegin(t, a) PROVE ChainInv'
    BY <2>4, ChainFreeBegin
  <2>5. CASE Construct(t)
    BY <2>5, ChainConstruct
  <2>6. CASE Connect(t)
    BY <2>6, ChainConnect
  <2>7. ASSUME NEW a \in Addresses, NEW s \in Slots, Store(t, a, s) PROVE ChainInv'
    BY <2>7, ChainStore
  <2>8. ASSUME NEW s \in Slots, Erase(t, s) PROVE ChainInv'
    <3>1. /\ slot' = [slot EXCEPT ![s] = NULL] /\ meant' = [meant EXCEPT ![s] = NULL]
          /\ UNCHANGED <<mem, ts_obj, original_zobj, pc, arg, source, faults>>
          /\ \A u \in Threads : pc[u] = "sync" => source[u] # s
      BY <2>8 DEF Erase, memVars, histVars, Unlocked
    <3> QED
      BY <3>1 DEF ChainInv, Stays, StructureInv, ConnectionsExact, TypeOK
  <2>9. ASSUME NEW s \in Slots, Read(t, s) PROVE ChainInv'
    <3>1. slot[s] \in Addresses /\ mem[slot[s]] = "live" /\ ObjectConnect(t, slot[s])
      BY <2>9, AddressesAssumption DEF Read, StructureInv, ConnectionsExact, TypeOK
    <3>2. \A u \in Threads : pc[u] \in Busy => arg[u] # slot[s]
      BY <3>1, AddressesAssumption DEF ChainInv, Stays
    <3> QED
      BY <2>9, <3>1, <3>2, ChainObjectConnect DEF Read
  <2>10. ASSUME NEW s \in Slots, ReadRaw(t, s) PROVE ChainInv'
    <3>1. "sync" \notin faults' /\ UNCHANGED <<memVars, slotVars>>
      BY <2>10 DEF ReadRaw, ChainInv
    <3>2. \A u \in Threads : pc'[u] = "crashed"
      BY <2>10 DEF ReadRaw
    <3> QED
      BY <3>1, <3>2, ChainSame DEF Busy
  <2>11. ASSUME NEW s \in Slots, ReadGone(t, s) PROVE ChainInv'
    BY <2>11, ChainSame DEF ReadGone, ChainInv, slotVars
  <2>12. ASSUME NEW a \in Addresses, NEW s \in Slots, SyncValidate(t, a, s) PROVE ChainInv'
    <3>1. /\ pc'[t] = "sync" /\ arg'[t] = slot[s] /\ source'[t] = s
          /\ \A u \in Threads : u # t => pc'[u] = pc[u] /\ arg'[u] = arg[u] /\ source'[u] = source[u]
          /\ UNCHANGED <<memVars, slotVars, faults>>
      BY <2>12 DEF SyncValidate, Goto, StructureInv, ConnectionsExact, TypeOK, histVars
    <3>2. slot[s] # NULL
      BY <2>12, AddressesAssumption DEF SyncValidate, StructureInv, ConnectionsExact, TypeOK
    <3>3. \A u \in Threads : pc'[u] = "sync" =>
            source'[u] \in Slots /\ slot[source'[u]] = arg'[u] /\ arg'[u] # NULL
      BY <3>1, <3>2 DEF ChainInv
    <3> QED
      BY <3>1, <3>3, ChainSame DEF ChainInv, Busy
  <2>13. CASE SyncCompare(t)
    <3>1. mem[arg[t]] = "live"
      BY <2>13 DEF SyncCompare, ChainInv, Stays
    <3>2. /\ pc'[t] = "idle" /\ faults' = faults
          /\ \A u \in Threads : u # t => pc'[u] = pc[u] /\ arg'[u] = arg[u] /\ source'[u] = source[u]
          /\ UNCHANGED <<memVars, slotVars>>
      BY <2>13, <3>1 DEF SyncCompare, Return, Goto, StructureInv, ConnectionsExact, TypeOK
    <3>3. \A u \in Threads : pc'[u] = "sync" =>
            source'[u] \in Slots /\ slot[source'[u]] = arg'[u] /\ arg'[u] # NULL
      BY <3>2 DEF ChainInv
    <3> QED
      BY <3>2, <3>3, ChainSame DEF ChainInv, Busy
  <2>14. CASE FreeLocked(t) \/ Release(t)
    BY <2>14, ChainFree
  <2> QED
    BY <2>1, <2>2, <2>3, <2>4, <2>5, <2>6, <2>7, <2>8, <2>9, <2>10, <2>11, <2>12, <2>13, <2>14
       DEF ThreadStep
<1>3. CASE Ended
  BY <1>1, <1>3 DEF Ended
<1> QED
  BY <1>1, <1>2, <1>3 DEF Next

\* StoredIsReadable, for any number of threads, objects and slots: when no thread
\* drops an original that is still stored or connected, every stored address is
\* registered and stands for what was stored, whichever connection was stored and
\* whatever memory the allocator reuses, and the unlocked read in
\* pthreads_store_sync_local_properties finds the object it has validated.
THEOREM StoredAlwaysReadable == Spec => []StoredIsReadable
<1>1. Init => ChainInv
  BY DEF Init, ChainInv
<1>2. StructureInv /\ ChainInv /\ [Next]_vars => ChainInv'
  BY ChainStep
<1>3. StructureInv /\ ChainInv => StoredIsReadable
  BY DEF StructureInv, ChainInv, Stays, ShapeInv, StoredIsReadable
<1> QED
  BY <1>1, <1>2, <1>3, StructureHolds, PTL DEF Spec

=============================================================================

------------------------------- MODULE Store --------------------------------
(***************************************************************************)
(* The property store of one ThreadedBase object and the caches in front   *)
(* of it.  Every PHP thread that holds the object does so through a        *)
(* connection, an ordinary PHP object whose property table caches what it  *)
(* has read or written; props.modcount tells a connection that its cache   *)
(* may be out of date.  A string is not copied on a write: the store keeps *)
(* a pointer to it, and the writer's cache is what keeps it alive.         *)
(*                                                                         *)
(* Each critical section of the object's monitor is one step; what read(), *)
(* write() and delete() do to the cache after unlocking is a second one.   *)
(* Values are numbers.  An "object" stands for everything that is compared *)
(* by identity and never dies in this model (Threaded objects, sockets).   *)
(* Insertion order is not kept.                                            *)
(***************************************************************************)
EXTENDS Integers, FiniteSets

CONSTANTS
  Keys, Threads,
  Conns,       \* connections to the object
  ThreadOf,    \* the PHP thread each connection lives in
  Strings,     \* identities of strings
  Programs,    \* what programs may do: see IsProgram
  MaxMod,      \* bound on props.modcount
  Nil          \* no thread, no connection, no key

ASSUME ThreadOfAssumption == ThreadOf \in [Conns -> Threads]
ASSUME StringsAssumption == Strings \subseteq Nat

\* The Threaded objects a program stores, the keys it writes, the kinds of the
\* values that it writes and that it merges, the connections that it makes and
\* those it drops.
IsProgram(p) ==
  /\ p.objects \subseteq Nat /\ p.keys \subseteq Keys
  /\ p.conns \subseteq Conns /\ p.frees \subseteq p.conns
  /\ p.writes \cup p.merges \subseteq {"long", "object", "string_ptr", "string"}

ASSUME ProgramsAssumption == \A p \in Programs : IsProgram(p)
ASSUME MaxModAssumption == MaxMod \in Nat
ASSUME NilAssumption == Nil \notin Threads \cup Conns \cup Keys

VARIABLES
  program,   \* the program that runs
  shared,    \* ts_obj->props.hash
  modcount,  \* ts_obj->props.modcount
  live,      \* the connections that exist
  table,     \* connections whose std.properties has been allocated
  cache,     \* std.properties of each connection
  local,     \* local_props_modcount of each connection
  pending    \* what a thread still has to do to a cache after an unlock

vars == <<program, shared, modcount, live, table, cache, local, pending>>

\* A storage: a plain value, a persistent string, or a typed pointer.
Storage == [kind : {"absent", "long", "object", "string_ptr", "string"},
            id : Nat, owner : Threads \cup {Nil}]
Missing == [kind |-> "absent", id |-> 0, owner |-> Nil]

\* A zval in a property table: "string" is the very string with that
\* identity, "copy" another string of equal content.
Zval == [kind : {"absent", "long", "object", "string", "copy"}, id : Nat]
Undef == [kind |-> "absent", id |-> 0]

NothingPending == [op |-> "none", conn |-> Nil, key |-> Nil, zval |-> Undef]

TypeOK ==
  /\ program \in Programs
  /\ shared \in [Keys -> Storage]
  /\ modcount \in Nat
  /\ live \in SUBSET Conns
  /\ table \in SUBSET Conns
  /\ cache \in [Conns -> [Keys -> Zval]]
  /\ local \in [Conns -> Int]
  /\ pending \in [Threads ->
       [op : {"none", "update", "delete"}, conn : Conns \cup {Nil},
        key : Keys \cup {Nil}, zval : Zval]]

\* The creator's connection exists; its table has not been marked in sync, and
\* is there already if the class declares a default that is cached.
Init ==
  /\ program \in Programs
  /\ shared = [k \in Keys |-> Missing]
  /\ modcount = 0
  /\ \E c \in program.conns : live = {c} /\ table \in SUBSET {c}
  /\ cache = [c \in Conns |-> [k \in Keys |-> Undef]]
  /\ local = [c \in Conns |-> -1]
  /\ pending = [t \in Threads |-> NothingPending]

-----------------------------------------------------------------------------
(* Conversions between storages and zvals.                                 *)

\* A variant that forgets about the strings that are stored by pointer.
IsCacheableObjectsOnly(s) == s.kind = "object"

\* pthreads_store_storage_is_cacheable.
IsCacheable(s) == s.kind \in {"object", "string_ptr"}

\* pthreads_store_retain_in_local_cache.
IsRetained(v) == v.kind \in {"object", "string", "copy"}

\* pthreads_store_restore_zval: what thread t gets for a storage.
Restore(s, t) ==
  [kind |-> CASE s.kind = "string_ptr" -> IF s.owner = t THEN "string" ELSE "copy"
              [] s.kind = "string" -> "copy"
              [] OTHER -> s.kind,
   id |-> s.id]

\* The comparison that lets a cache entry survive a sync.
StillValid(s, v, t) ==
  \/ s.kind = "object" /\ v.kind = "object" /\ s.id = v.id
  \/ s.kind = "string_ptr" /\ s.owner = t /\ v.kind = "string" /\ s.id = v.id

\* pthreads_store_sync_local_properties of c when the store is sh at mod and
\* the connection believes lm.
SyncedCache(c, sh, mod, lm) ==
  [k \in Keys |->
     IF lm = mod \/ StillValid(sh[k], cache[c][k], ThreadOf[c])
       THEN cache[c][k] ELSE Undef]

\* Syncing now.
Synced(c) == SyncedCache(c, shared, modcount, local[c])

\* _pthreads_store_bump_modcount_nolock: only a connection in sync stays so.
BumpedLocal(c, bump) ==
  IF bump /\ local[c] = modcount THEN local[c] + 1 ELSE local[c]

BumpedMod(bump) == IF bump THEN modcount + 1 ELSE modcount

\* c may act: it exists and its thread is not inside another operation.
Ready(c) == c \in live /\ pending[ThreadOf[c]] = NothingPending

Pend(c, op, k, v) ==
  pending' = [pending EXCEPT ![ThreadOf[c]] =
                [op |-> op, conn |-> c, key |-> k, zval |-> v]]

\* pthreads_store_update_local_property keeps only some kinds of value.
PendUpdate(c, k, v) ==
  IF IsRetained(v) THEN Pend(c, "update", k, v) ELSE UNCHANGED pending

-----------------------------------------------------------------------------
(* The operations.                                                         *)

\* pthreads_store_read: a connection without a table does not sync.
Read(c, k) ==
  /\ Ready(c)
  /\ LET own == IF c \in table THEN Synced(c) ELSE cache[c] IN
     /\ cache' = [cache EXCEPT ![c] = own]
     /\ local' = [local EXCEPT ![c] = IF c \in table THEN modcount ELSE @]
     /\ IF own[k] = Undef /\ shared[k] # Missing
          THEN PendUpdate(c, k, Restore(shared[k], ThreadOf[c]))
          ELSE UNCHANGED pending
  /\ UNCHANGED <<program, shared, modcount, live, table>>

\* Identities a freshly allocated string cannot have.
UsedStrings ==
  {shared[k].id : k \in Keys} \cup {cache[c][k].id : c \in Conns, k \in Keys}
    \cup {pending[t].zval.id : t \in Threads}

\* pthreads_store_save_zval on thread t.
Storages(t) ==
  {[kind |-> "long", id |-> 0, owner |-> Nil]}
  \cup {[kind |-> "object", id |-> o, owner |-> Nil] : o \in program.objects}
  \cup {[kind |-> "string_ptr", id |-> n, owner |-> t] : n \in Strings \ UsedStrings}
  \cup {[kind |-> "string", id |-> n, owner |-> Nil] : n \in Strings \ UsedStrings}

\* pthreads_store_write: replace, bump, sync, unlock, then cache the value.
Write(c, k, s) ==
  LET bump == IsCacheable(shared[k])
      sh == [shared EXCEPT ![k] = s] IN
  /\ Ready(c) /\ modcount < MaxMod
  /\ shared' = sh
  /\ modcount' = BumpedMod(bump)
  /\ cache' = [cache EXCEPT ![c] =
                 SyncedCache(c, sh, BumpedMod(bump), BumpedLocal(c, bump))]
  /\ local' = [local EXCEPT ![c] = BumpedMod(bump)]
  /\ PendUpdate(c, k, Restore(s, ThreadOf[c]))
  /\ UNCHANGED <<program, live, table>>

\* pthreads_store_delete: the own cache entry goes after the unlock.
Delete(c, k) ==
  LET bump == IsCacheable(shared[k]) IN
  /\ Ready(c) /\ modcount < MaxMod
  /\ shared[k] # Missing
  /\ shared' = [shared EXCEPT ![k] = Missing]
  /\ modcount' = BumpedMod(bump)
  /\ local' = [local EXCEPT ![c] = BumpedLocal(c, bump)]
  /\ IF c \in table THEN Pend(c, "delete", k, Undef) ELSE UNCHANGED pending
  /\ UNCHANGED <<program, live, table, cache>>

\* pthreads_store_shift and _pop (one key) and _chunk (several).
Take(c, ks) ==
  LET bump == \E k \in ks : IsCacheable(shared[k]) IN
  /\ Ready(c) /\ modcount < MaxMod
  /\ ks # {} /\ \A k \in ks : shared[k] # Missing
  /\ shared' = [k \in Keys |-> IF k \in ks THEN Missing ELSE shared[k]]
  /\ cache' = [cache EXCEPT ![c] = [k \in Keys |-> IF k \in ks THEN Undef ELSE @[k]]]
  /\ modcount' = BumpedMod(bump)
  /\ local' = [local EXCEPT ![c] = BumpedLocal(c, bump)]
  /\ UNCHANGED <<program, live, table, pending>>

\* pthreads_store_hard_copy_storage.
HardCopy(s) ==
  IF s.kind = "string_ptr"
    THEN [kind |-> "string", id |-> s.id, owner |-> Nil] ELSE s

\* pthreads_store_merge from another store, whose content is src.
Merge(c, src, overwrite) ==
  LET into == {k \in Keys : src[k] # Missing /\ (overwrite \/ shared[k] = Missing)}
      bump == \E k \in into : IsCacheable(shared[k]) IN
  /\ Ready(c) /\ modcount < MaxMod
  /\ into # {}
  /\ shared' = [k \in Keys |-> IF k \in into THEN HardCopy(src[k]) ELSE shared[k]]
  /\ cache' = [cache EXCEPT ![c] = [k \in Keys |-> IF k \in into THEN Undef ELSE @[k]]]
  /\ modcount' = BumpedMod(bump)
  /\ local' = [local EXCEPT ![c] = BumpedLocal(c, bump)]
  /\ UNCHANGED <<program, live, table, pending>>

\* ThreadedBase::synchronized syncs before it calls the closure.
Synchronized(c) ==
  /\ Ready(c)
  /\ cache' = [cache EXCEPT ![c] = Synced(c)]
  /\ local' = [local EXCEPT ![c] = modcount]
  /\ UNCHANGED <<program, shared, modcount, live, table, pending>>

\* pthreads_store_full_sync_local_properties.
FullSync(c) ==
  /\ Ready(c)
  /\ cache' = [cache EXCEPT ![c] =
       [k \in Keys |-> IF Synced(c)[k] = Undef /\ IsCacheable(shared[k])
                         THEN Restore(shared[k], ThreadOf[c]) ELSE Synced(c)[k]]]
  /\ local' = [local EXCEPT ![c] = modcount]
  /\ table' = table \cup {c}
  /\ UNCHANGED <<program, shared, modcount, live, pending>>

\* The keys pthreads_store_tohash adds to the connection's own table.
Junk(c) == {k \in Keys : Synced(c)[k] = Undef /\ shared[k] # Missing}

\* pthreads_store_tohash into the own table: plain values get there too, and
\* the table is marked out of sync so that they are not believed.
ToHash(c) ==
  /\ Ready(c)
  /\ cache' = [cache EXCEPT ![c] =
       [k \in Keys |-> IF k \in Junk(c) THEN Restore(shared[k], ThreadOf[c])
                       ELSE Synced(c)[k]]]
  /\ local' = [local EXCEPT ![c] = IF Junk(c) # {} THEN modcount - 1 ELSE modcount]
  /\ table' = table \cup {c}
  /\ UNCHANGED <<program, shared, modcount, live, pending>>

\* The second half of read(), write() and delete(), without the lock.
Complete(t) ==
  LET p == pending[t] IN
  /\ p.op # "none"
  /\ cache' = [cache EXCEPT ![p.conn][p.key] = p.zval]
  /\ table' = table \cup {p.conn}
  /\ pending' = [pending EXCEPT ![t] = NothingPending]
  /\ UNCHANGED <<program, shared, modcount, live, local>>

\* A thread meets the object: _pthreads_connect_nolock empties the table that the
\* new connection may have got from its class's defaults.
Connect(c) ==
  /\ c \in program.conns \ live /\ live # {}
  /\ pending[ThreadOf[c]] = NothingPending
  /\ live' = live \cup {c}
  /\ local' = [local EXCEPT ![c] = -1]
  /\ \E allocated \in SUBSET {c} : table' = table \cup allocated
  /\ UNCHANGED <<program, shared, modcount, cache, pending>>

\* pthreads_base_free for the last connection, and for any other one with a
\* store that keeps pointing into the thread's memory.
FreeUnpersisted(c) ==
  /\ Ready(c) /\ c \in program.frees
  /\ live' = live \ {c}
  /\ shared' = IF live = {c} THEN [k \in Keys |-> Missing] ELSE shared
  /\ cache' = [cache EXCEPT ![c] = [k \in Keys |-> Undef]]
  /\ table' = table \ {c}
  /\ UNCHANGED <<program, modcount, local, pending>>

\* pthreads_store_persist_local_properties for a thread t.
Persisted(t) ==
  [k \in Keys |-> IF shared[k].kind = "string_ptr" /\ shared[k].owner = t
                    THEN HardCopy(shared[k]) ELSE shared[k]]

\* pthreads_base_free: the last connection destroys the store, any other one
\* first leaves persistent copies of its thread's strings behind.
Free(c) ==
  /\ Ready(c) /\ c \in program.frees
  /\ live' = live \ {c}
  /\ shared' = IF live = {c} THEN [k \in Keys |-> Missing] ELSE Persisted(ThreadOf[c])
  /\ cache' = [cache EXCEPT ![c] = [k \in Keys |-> Undef]]
  /\ table' = table \ {c}
  /\ UNCHANGED <<program, modcount, local, pending>>

\* The object is gone.
Destroyed == live = {} /\ UNCHANGED vars

-----------------------------------------------------------------------------
Written(t) == {s \in Storages(t) : s.kind \in program.writes}

Sources(t) ==
  {src \in [Keys -> {Missing} \cup {s \in Storages(t) : s.kind \in program.merges}] :
     \A k \in Keys \ program.keys : src[k] = Missing}

StoreStep(c) ==
  \/ \E k \in Keys : Read(c, k) \/ Delete(c, k)
  \/ \E k \in program.keys, s \in Written(ThreadOf[c]) : Write(c, k, s)
  \/ \E ks \in SUBSET Keys : Take(c, ks)
  \/ \E src \in Sources(ThreadOf[c]), o \in BOOLEAN : Merge(c, src, o)
  \/ Synchronized(c) \/ FullSync(c) \/ ToHash(c)
  \/ Connect(c) \/ Free(c)

Next ==
  \/ \E c \in Conns : StoreStep(c)
  \/ \E t \in Threads : Complete(t)
  \/ Destroyed

Spec == Init /\ [][Next]_vars

-----------------------------------------------------------------------------
(* Properties.                                                             *)

\* What Read(c, k) would hand to the program in the current state.
ReadResult(c, k) ==
  LET own == IF c \in table THEN Synced(c)[k] ELSE Undef IN
  IF own # Undef THEN own ELSE Restore(shared[k], ThreadOf[c])

\* A string and a copy of it, or a storage made from it, read the same.
IsText(v) == v.kind \in {"string_ptr", "string", "copy"}
SameValue(v, s) ==
  v.id = s.id /\ (v.kind = s.kind \/ (IsText(v) /\ IsText(s)))

\* No thread ever reads a value that has been overwritten or removed.
EveryReadIsCurrent ==
  \A c \in live, k \in Keys :
    Ready(c) => SameValue(ReadResult(c, k), shared[k])

\* Plain values come by merges only, and no string becomes a plain one, by a
\* merge or because a connection of its owner is dropped: the replacement of a
\* plain value does not bump modcount.
WritesCacheable ==
  /\ program.writes \subseteq {"object", "string_ptr"}
  /\ program.merges \subseteq {"long", "object"}
  /\ program.frees = {}

\* No read gives a value that has been overwritten or removed, although caches
\* are filled after the lock is released and only modcount is compared; of
\* programs that write plain strings this is so for Threaded objects.
ReadsAreCurrent ==
  /\ TypeOK
  /\ \A c \in live, k \in Keys :
       Ready(c) => \/ SameValue(ReadResult(c, k), shared[k])
                   \/ ~WritesCacheable /\ ReadResult(c, k).kind # "object"

\* A string stored by pointer is held by a cache of the thread that owns it, or
\* by the stack of that thread between the two halves of a write.
NoDanglingString ==
  \A k \in Keys : shared[k].kind = "string_ptr" =>
    \E c \in live :
      LET t == ThreadOf[c]
          v == [kind |-> "string", id |-> shared[k].id] IN
      /\ t = shared[k].owner
      /\ \/ cache[c][k] = v
         \/ pending[t] = [op |-> "update", conn |-> c, key |-> k, zval |-> v]
=============================================================================

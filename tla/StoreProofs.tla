----------------------------- MODULE StoreProofs -----------------------------
(***************************************************************************)
(* Proofs about Store: what a read gives and what keeps strings alive, for *)
(* any number of connections, threads and keys.                            *)
(***************************************************************************)
EXTENDS Store, TLAPS

-----------------------------------------------------------------------------
(* The inductive invariant.                                                *)

\* What the cache of c holds for k once its thread has done what is pending.
Entry(c, k) ==
  LET p == pending[ThreadOf[c]] IN
  IF p.op # "none" /\ p.conn = c /\ p.key = k THEN p.zval ELSE cache[c][k]

\* What a cache that is in sync may hold for a storage.
Fits(v, s) ==
  \/ v = Undef
  \/ /\ v.kind \notin {"absent", "long"}
     /\ v.kind = "object" => s.kind = "object" /\ s.id = v.id
     /\ WritesCacheable => SameValue(v, s)

\* A connection that believes to be in sync is.
SyncInv ==
  \A c \in live, k \in Keys : local[c] = modcount => Fits(Entry(c, k), shared[k])

\* Nobody is ahead of the store.
ClockInv == \A c \in Conns : local[c] <= modcount

KindInv == WritesCacheable => \A k \in Keys : shared[k].kind # "string"
TableInv == \A c \in Conns, k \in Keys : c \notin table => cache[c][k] = Undef

\* What is pending is so at a connection of the thread that exists.
PendInv ==
  \A t \in Threads :
    \/ pending[t] = NothingPending
    \/ /\ pending[t].op # "none" /\ pending[t].conn \in live
       /\ ThreadOf[pending[t].conn] = t /\ pending[t].key \in Keys

\* What is about to be cached by the owner of a string is that string.
PtrInv ==
  \A t \in Threads :
    LET p == pending[t] s == shared[p.key] IN
    p.op # "none" /\ s.kind = "string_ptr" /\ s.owner = t =>
      p.op = "update" /\ p.zval = [kind |-> "string", id |-> s.id]

\* No program writes plain values: they would leave their writer's entry as it
\* is, and the run MCStoreOverwrite shows what is read then.
NoPlainWrites == \A p \in Programs : "long" \notin p.writes

CacheInv == TypeOK /\ PendInv /\ TableInv /\ ClockInv
ReadInv == CacheInv /\ SyncInv /\ KindInv
StringInv == CacheInv /\ PtrInv /\ NoDanglingString

-----------------------------------------------------------------------------
(* The conversions.                                                        *)

LEMMA RestoreFacts ==
  ASSUME NEW s \in Storage, NEW t
  PROVE  LET v == Restore(s, t) IN
         /\ v \in Zval /\ v.id = s.id
         /\ v.kind = "object" <=> s.kind = "object"
         /\ v.kind = "long" <=> s.kind = "long"
         /\ v.kind = "absent" <=> s.kind = "absent"
         /\ IsText(v) <=> IsText(s)
         /\ s.kind = "string_ptr" /\ s.owner = t => v = [kind |-> "string", id |-> s.id]
<1> DEFINE n == CASE s.kind = "string_ptr" -> IF s.owner = t THEN "string" ELSE "copy"
                  [] s.kind = "string" -> "copy"
                  [] OTHER -> s.kind
<1>1. s.kind \in {"absent", "long", "object", "string_ptr", "string"} /\ s.id \in Nat
  BY DEF Storage
<1>2. /\ s.kind = "string_ptr" => n = IF s.owner = t THEN "string" ELSE "copy"
      /\ s.kind = "string" => n = "copy"
      /\ s.kind \in {"absent", "long", "object"} => n = s.kind
  OBVIOUS
<1>3. Restore(s, t) = [kind |-> n, id |-> s.id]
  BY DEF Restore
<1> HIDE DEF n
<1> QED
  BY <1>1, <1>2, <1>3 DEF Zval, IsText

\* What is read from the store is what is there.
LEMMA RestoreSame ==
  ASSUME NEW s \in Storage, NEW t
  PROVE  SameValue(Restore(s, t), s)
<1>1. s.kind \in {"absent", "long", "object", "string_ptr", "string"}
  BY DEF Storage
<1> QED
  BY <1>1, RestoreFacts DEF SameValue, IsText

\* What is read fits, unless it is plain.
LEMMA RestoreFits ==
  ASSUME NEW s \in Storage, NEW t, s.kind \notin {"absent", "long"}
  PROVE  Fits(Restore(s, t), s)
  BY RestoreFacts, RestoreSame DEF Fits

LEMMA RetainedFits ==
  ASSUME NEW s \in Storage, NEW t
  PROVE  IsRetained(Restore(s, t)) <=> s.kind \notin {"absent", "long"}
<1>1. s.kind \in {"absent", "long", "object", "string_ptr", "string"}
  BY DEF Storage
<1> QED
  BY <1>1, RestoreFacts DEF IsRetained, IsText, Zval

\* What survives a sync fits.
LEMMA ValidFits ==
  ASSUME NEW s \in Storage, NEW v \in Zval, NEW t, StillValid(s, v, t)
  PROVE  Fits(v, s) /\ SameValue(v, s)
  BY DEF StillValid, Fits, SameValue, IsText

\* What is not cacheable is in no cache that is in sync.
LEMMA PlainUncached ==
  ASSUME NEW v, NEW s \in Storage, Fits(v, s), ~IsCacheable(s),
         WritesCacheable => s.kind # "string", NEW r
  PROVE  Fits(v, r)
  BY DEF Fits, IsCacheable, Storage, SameValue, IsText

-----------------------------------------------------------------------------
(* What the operations of a connection have in common.                     *)

\* Nothing, or one more thing to do to the cache of c.
OnlyPends(c) ==
  \/ UNCHANGED pending
  \/ \E op \in {"update", "delete"}, k \in Keys, v \in Zval : Pend(c, op, k, v)

\* Only the cache and the count of c change; its thread was not in an operation.
StepOf(c) ==
  /\ c \in live /\ live' = live /\ program' = program
  /\ pending[ThreadOf[c]] = NothingPending /\ OnlyPends(c)
  /\ shared' \in [Keys -> Storage] /\ modcount' \in {modcount, modcount + 1}
  /\ table' \in {table, table \cup {c}}
  /\ \E own \in [Keys -> Zval] :
       /\ cache' = [cache EXCEPT ![c] = own]
       /\ c \in table' \/ \A k \in Keys : own[k] \in {cache[c][k], Undef}
  /\ \E lm \in Int : lm <= modcount' /\ local' = [local EXCEPT ![c] = lm]

LEMMA PendFacts ==
  ASSUME TypeOK, NEW c \in Conns, OnlyPends(c)
  PROVE  LET t == ThreadOf[c] IN
         /\ pending' \in [Threads ->
              [op : {"none", "update", "delete"}, conn : Conns \cup {Nil},
               key : Keys \cup {Nil}, zval : Zval]]
         /\ t \in Threads
         /\ \A u \in Threads : u # t => pending'[u] = pending[u]
         /\ \/ pending'[t] = pending[t]
            \/ pending'[t].op # "none" /\ pending'[t].conn = c /\ pending'[t].key \in Keys
<1> DEFINE t == ThreadOf[c]
<1>1. t \in Threads
  BY ThreadOfAssumption
<1>2. CASE UNCHANGED pending
  BY <1>1, <1>2 DEF TypeOK
<1>3. CASE \E op \in {"update", "delete"}, k \in Keys, v \in Zval : Pend(c, op, k, v)
  <2>1. PICK op \in {"update", "delete"}, k \in Keys, v \in Zval : Pend(c, op, k, v)
    BY <1>3
  <2> DEFINE q == [op |-> op, conn |-> c, key |-> k, zval |-> v]
  <2>2. pending' = [pending EXCEPT ![t] = q]
    BY <2>1 DEF Pend
  <2>3. /\ q \in [op : {"none", "update", "delete"}, conn : Conns \cup {Nil},
                  key : Keys \cup {Nil}, zval : Zval]
        /\ q.op # "none" /\ q.conn = c /\ q.key \in Keys
    OBVIOUS
  <2> HIDE DEF q, t
  <2> QED
    BY <1>1, <2>2, <2>3 DEF TypeOK, t
<1> QED
  BY <1>2, <1>3 DEF OnlyPends

LEMMA StepKeeps ==
  ASSUME CacheInv, NEW c \in Conns, StepOf(c)
  PROVE  /\ CacheInv'
         /\ \A d \in Conns \ {c} : cache'[d] = cache[d] /\ local'[d] = local[d]
         /\ \A d \in Conns \ {c}, k \in Keys : Entry(d, k)' = Entry(d, k)
<1>1. PICK own \in [Keys -> Zval] :
        /\ cache' = [cache EXCEPT ![c] = own]
        /\ c \in table' \/ \A k \in Keys : own[k] \in {cache[c][k], Undef}
  BY DEF StepOf
<1>2. PICK lm \in Int : lm <= modcount' /\ local' = [local EXCEPT ![c] = lm]
  BY DEF StepOf
<1>3. TypeOK
  BY DEF CacheInv
<1> DEFINE t == ThreadOf[c]
<1>4. /\ pending' \in [Threads ->
           [op : {"none", "update", "delete"}, conn : Conns \cup {Nil},
            key : Keys \cup {Nil}, zval : Zval]]
      /\ t \in Threads
      /\ \A u \in Threads : u # t => pending'[u] = pending[u]
      /\ \/ pending'[t] = pending[t]
         \/ pending'[t].op # "none" /\ pending'[t].conn = c /\ pending'[t].key \in Keys
  BY <1>3, PendFacts DEF StepOf
<1>5. TypeOK'
  <2>1. cache' \in [Conns -> [Keys -> Zval]] /\ local' \in [Conns -> Int]
    BY <1>1, <1>2, <1>3 DEF TypeOK
  <2>2. modcount' \in Nat /\ program' \in Programs /\ live' \in SUBSET Conns
        /\ table' \in SUBSET Conns /\ shared' \in [Keys -> Storage]
    BY <1>3 DEF TypeOK, StepOf
  <2> QED
    BY <1>4, <2>1, <2>2 DEF TypeOK
<1>6. PendInv'
  <2> SUFFICES ASSUME NEW u \in Threads
               PROVE  \/ pending'[u] = NothingPending
                      \/ /\ pending'[u].op # "none" /\ pending'[u].conn \in live'
                         /\ ThreadOf[pending'[u].conn] = u /\ pending'[u].key \in Keys
    BY DEF PendInv, NothingPending, Undef
  <2>1. CASE u # t
    BY <1>4, <2>1 DEF CacheInv, PendInv, StepOf
  <2>2. CASE u = t
    BY <1>4, <2>2 DEF StepOf
  <2> QED
    BY <2>1, <2>2
<1>7. \A d \in Conns \ {c} : cache'[d] = cache[d] /\ local'[d] = local[d]
  BY <1>1, <1>2, <1>3 DEF TypeOK
<1>8. cache'[c] = own
  BY <1>1, <1>3 DEF TypeOK
<1>9. TableInv'
  <2> SUFFICES ASSUME NEW d \in Conns, NEW k \in Keys, d \notin table'
               PROVE  cache'[d][k] = Undef
    BY DEF TableInv, Undef
  <2>1. d \notin table
    BY DEF StepOf
  <2>2. cache[d][k] = Undef
    BY <2>1 DEF CacheInv, TableInv
  <2>3. CASE d = c
    BY <1>1, <1>8, <2>2, <2>3
  <2>4. CASE d # c
    BY <1>7, <2>2, <2>4
  <2> QED
    BY <2>3, <2>4
<1>10. ASSUME NEW d \in Conns \ {c}, NEW k \in Keys PROVE Entry(d, k)' = Entry(d, k)
  <2>1. ThreadOf[d] \in Threads /\ cache'[d] = cache[d]
    BY <1>7, ThreadOfAssumption
  <2>2. CASE ThreadOf[d] # t
    <3>1. pending'[ThreadOf[d]] = pending[ThreadOf[d]]
      BY <1>4, <2>1, <2>2
    <3> QED
      BY <2>1, <3>1 DEF Entry
  <2>3. CASE ThreadOf[d] = t
    <3>1. pending[t].op = "none"
      BY DEF StepOf, NothingPending
    <3>2. pending'[t].op = "none" \/ pending'[t].conn = c
      BY <1>4, <3>1
    <3> QED
      BY <2>1, <2>3, <3>1, <3>2 DEF Entry
  <2> QED
    BY <2>2, <2>3
<1>11. ClockInv'
  <2> SUFFICES ASSUME NEW d \in Conns PROVE local'[d] <= modcount'
    BY DEF ClockInv
  <2>1. modcount \in Nat /\ modcount' \in {modcount, modcount + 1} /\ local[d] \in Int
    BY <1>3 DEF StepOf, TypeOK
  <2>2. CASE d = c
    BY <1>2, <1>3, <2>2 DEF TypeOK
  <2>3. CASE d # c
    <3>1. local'[d] = local[d] /\ local[d] <= modcount
      BY <1>7, <2>3 DEF CacheInv, ClockInv
    <3> QED
      BY <2>1, <3>1
  <2> QED
    BY <2>2, <2>3
<1> QED
  BY <1>5, <1>6, <1>7, <1>9, <1>10, <1>11 DEF CacheInv

\* Others that are in sync afterwards have not cached what was replaced.
LEMMA StepReads ==
  ASSUME ReadInv, NEW c \in Conns, StepOf(c),
         modcount' = modcount =>
           \A k \in Keys : shared'[k] = shared[k] \/ ~IsCacheable(shared[k]),
         local'[c] = modcount' => \A k \in Keys : Fits(Entry(c, k)', shared'[k]),
         WritesCacheable => \A k \in Keys : shared'[k].kind # "string"
  PROVE  ReadInv'
<1>1. /\ CacheInv'
      /\ \A d \in Conns \ {c} : cache'[d] = cache[d] /\ local'[d] = local[d]
      /\ \A d \in Conns \ {c}, k \in Keys : Entry(d, k)' = Entry(d, k)
  BY StepKeeps DEF ReadInv
<1>2. WritesCacheable' <=> WritesCacheable
  BY DEF StepOf, WritesCacheable
<1>3. \A v, s : Fits(v, s)' <=> Fits(v, s)
  BY <1>2 DEF Fits, Undef, SameValue, IsText
<1>4. KindInv'
  BY <1>2 DEF KindInv
<1>5. modcount \in Nat /\ modcount' \in {modcount, modcount + 1} /\ local \in [Conns -> Int]
  BY DEF StepOf, ReadInv, CacheInv, TypeOK
<1>6. SyncInv'
  <2> SUFFICES ASSUME NEW d \in live', NEW k \in Keys, local'[d] = modcount'
               PROVE  Fits(Entry(d, k)', shared'[k])
    <3>1. ASSUME NEW d \in live', NEW k \in Keys, local'[d] = modcount'
          PROVE  Fits(Entry(d, k), shared[k])'
      BY <1>2, <3>1 DEF Fits, Undef, SameValue, IsText
    <3> QED
      BY <3>1 DEF SyncInv
  <2>1. CASE d = c
    BY <2>1
  <2>2. CASE d # c
    <3>1. d \in live /\ d \in Conns \ {c}
      BY <2>2 DEF StepOf, ReadInv, CacheInv, TypeOK
    <3>2. local'[d] = local[d] /\ local[d] <= modcount /\ local[d] \in Int
      BY <1>1, <1>5, <3>1 DEF ReadInv, CacheInv, ClockInv
    <3>3. local[d] = modcount /\ modcount' = modcount
      BY <1>5, <3>2
    <3>4. Fits(Entry(d, k), shared[k])
      BY <3>1, <3>3 DEF ReadInv, SyncInv
    <3>5. Fits(Entry(d, k), shared'[k])
      <4>1. CASE shared'[k] = shared[k]
        BY <3>4, <4>1
      <4>2. CASE ~IsCacheable(shared[k])
        <5>1. shared[k] \in Storage /\ (WritesCacheable => shared[k].kind # "string")
          BY DEF ReadInv, CacheInv, TypeOK, KindInv
        <5> QED
          BY <3>4, <4>2, <5>1, PlainUncached
      <4> QED
        BY <3>3, <4>1, <4>2
    <3>6. Entry(d, k)' = Entry(d, k)
      BY <1>1, <3>1
    <3> QED
      BY <3>5, <3>6
  <2> QED
    BY <2>1, <2>2
<1> QED
  BY <1>1, <1>4, <1>6 DEF ReadInv

\* The string with the identity of storage s.
StringOf(s) == [kind |-> "string", id |-> s.id]
Updates(c, k) == [op |-> "update", conn |-> c, key |-> k, zval |-> StringOf(shared[k])]

LEMMA StepStrings ==
  ASSUME StringInv, NEW c \in Conns, StepOf(c),
         \A k \in Keys : shared'[k].kind = "string_ptr" =>
           \/ shared'[k] = shared[k]
           \/ shared'[k].owner = ThreadOf[c] /\ pending'[ThreadOf[c]] = Updates(c, k)',
         \A k \in Keys :
           /\ shared'[k].kind = "string_ptr" /\ shared'[k] = shared[k]
           /\ shared[k].owner = ThreadOf[c] /\ cache[c][k] = StringOf(shared[k])
           => cache'[c][k] = StringOf(shared[k]),
         LET p == pending'[ThreadOf[c]] s == shared'[p.key] IN
           p.op # "none" /\ s.kind = "string_ptr" /\ s.owner = ThreadOf[c] =>
             p.op = "update" /\ p.zval = StringOf(s)
  PROVE  StringInv'
<1> DEFINE t == ThreadOf[c]
<1>1. /\ CacheInv'
      /\ \A d \in Conns \ {c} : cache'[d] = cache[d]
  BY StepKeeps DEF StringInv
<1>2. t \in Threads /\ \A u \in Threads : u # t => pending'[u] = pending[u]
  BY PendFacts DEF StepOf, StringInv, CacheInv
<1>3. PtrInv'
  <2> SUFFICES ASSUME NEW u \in Threads,
                      pending'[u].op # "none",
                      shared'[pending'[u].key].kind = "string_ptr",
                      shared'[pending'[u].key].owner = u
               PROVE  /\ pending'[u].op = "update"
                      /\ pending'[u].zval = StringOf(shared'[pending'[u].key])
    BY DEF PtrInv, StringOf
  <2>1. CASE u = t
    BY <2>1
  <2>2. CASE u # t
    <3>1. pending'[u] = pending[u]
      BY <1>2, <2>2
    <3>2. pending'[u].key \in Keys
      BY <1>1 DEF CacheInv, PendInv, NothingPending
    <3>3. shared'[pending'[u].key] = shared[pending'[u].key]
      BY <2>2, <3>2
    <3>4. /\ pending[u].op # "none" /\ shared[pending[u].key].kind = "string_ptr"
          /\ shared[pending[u].key].owner = u
          /\ shared'[pending'[u].key] = shared[pending[u].key]
      BY <3>1, <3>3
    <3>5. pending[u].op = "update" /\ pending[u].zval = StringOf(shared[pending[u].key])
      BY <3>4 DEF StringInv, PtrInv, StringOf
    <3> QED
      BY <3>1, <3>4, <3>5
  <2> QED
    BY <2>1, <2>2
<1>4. NoDanglingString'
  <2> SUFFICES ASSUME NEW k \in Keys, shared'[k].kind = "string_ptr"
               PROVE  \E d \in live' :
                        /\ ThreadOf[d] = shared'[k].owner
                        /\ \/ cache'[d][k] = StringOf(shared'[k])
                           \/ pending'[ThreadOf[d]] = Updates(d, k)'
    BY DEF NoDanglingString, StringOf, Updates
  <2>1. CASE shared'[k].owner = t /\ pending'[t] = Updates(c, k)'
    BY <2>1 DEF StepOf
  <2>2. CASE shared'[k] = shared[k]
    <3>1. PICK d \in live :
            /\ ThreadOf[d] = shared[k].owner
            /\ \/ cache[d][k] = StringOf(shared[k])
               \/ pending[ThreadOf[d]] = Updates(d, k)
      BY <2>2 DEF StringInv, NoDanglingString, StringOf, Updates
    <3>2. d \in Conns /\ d \in live' /\ ThreadOf[d] \in Threads
      BY ThreadOfAssumption DEF StepOf, StringInv, CacheInv, TypeOK
    <3>3. CASE cache[d][k] = StringOf(shared[k])
      BY <1>1, <2>2, <3>1, <3>2, <3>3
    <3>4. CASE pending[ThreadOf[d]] = Updates(d, k)
      <4>1. ThreadOf[d] # t
        BY <3>4 DEF StepOf, NothingPending, Updates
      <4>2. pending'[ThreadOf[d]] = pending[ThreadOf[d]]
        BY <1>2, <3>2, <4>1
      <4> QED
        BY <2>2, <3>1, <3>2, <3>4, <4>2 DEF Updates, StringOf
    <3> QED
      BY <3>1, <3>3, <3>4
  <2> QED
    BY <2>1, <2>2
<1> QED
  BY <1>1, <1>3, <1>4 DEF StringInv

-----------------------------------------------------------------------------
(* Syncing.                                                                *)

LEMMA SyncedFacts ==
  ASSUME TypeOK, NEW c \in Conns, NEW sh \in [Keys -> Storage], NEW mod, NEW lm
  PROVE  LET own == SyncedCache(c, sh, mod, lm) IN
         /\ own \in [Keys -> Zval]
         /\ \A k \in Keys : own[k] \in {cache[c][k], Undef}
         /\ lm # mod => \A k \in Keys : Fits(own[k], sh[k])
         /\ lm = mod => \A k \in Keys : own[k] = cache[c][k]
         /\ \A k \in Keys :
              /\ sh[k].kind = "string_ptr" /\ sh[k].owner = ThreadOf[c]
              /\ cache[c][k] = StringOf(sh[k])
              => own[k] = StringOf(sh[k])
<1> DEFINE own == SyncedCache(c, sh, mod, lm)
<1>1. \A k \in Keys : cache[c][k] \in Zval /\ sh[k] \in Storage /\ Undef \in Zval
  BY DEF TypeOK, Undef, Zval
<1>2. /\ own = [k \in Keys |-> own[k]]
      /\ \A k \in Keys : own[k] = IF lm = mod \/ StillValid(sh[k], cache[c][k], ThreadOf[c])
                                    THEN cache[c][k] ELSE Undef
  BY DEF SyncedCache
<1> HIDE DEF own
<1>3. own \in [Keys -> Zval]
  BY <1>1, <1>2
<1>4. ASSUME NEW k \in Keys, lm # mod PROVE Fits(own[k], sh[k])
  <2>1. CASE StillValid(sh[k], cache[c][k], ThreadOf[c])
    BY <1>1, <1>2, <2>1, ValidFits
  <2>2. CASE ~StillValid(sh[k], cache[c][k], ThreadOf[c])
    BY <1>2, <1>4, <2>2 DEF Fits
  <2> QED
    BY <2>1, <2>2
<1>5. ASSUME NEW k \in Keys, sh[k].kind = "string_ptr", sh[k].owner = ThreadOf[c],
             cache[c][k] = StringOf(sh[k])
      PROVE  own[k] = StringOf(sh[k])
  <2>1. StillValid(sh[k], cache[c][k], ThreadOf[c])
    BY <1>5 DEF StillValid, StringOf
  <2> QED
    BY <1>2, <1>5, <2>1
<1> QED
  BY <1>2, <1>3, <1>4, <1>5 DEF own

\* After a sync with the store as it is, the cache is in sync.
LEMMA SyncedFits ==
  ASSUME ReadInv, NEW c \in live, pending[ThreadOf[c]] = NothingPending, NEW k \in Keys
  PROVE  Fits(Synced(c)[k], shared[k])
<1>1. TypeOK /\ c \in Conns /\ shared \in [Keys -> Storage]
  BY DEF ReadInv, CacheInv, TypeOK
<1>2. /\ local[c] # modcount => Fits(Synced(c)[k], shared[k])
      /\ local[c] = modcount => Synced(c)[k] = cache[c][k]
  <2>1. Synced(c)[k] =
          IF local[c] = modcount \/ StillValid(shared[k], cache[c][k], ThreadOf[c])
            THEN cache[c][k] ELSE Undef
    BY DEF Synced, SyncedCache
  <2>2. shared[k] \in Storage /\ cache[c][k] \in Zval
    BY <1>1 DEF TypeOK
  <2>3. StillValid(shared[k], cache[c][k], ThreadOf[c]) => Fits(cache[c][k], shared[k])
    BY <2>2, ValidFits
  <2> QED
    BY <2>1, <2>3 DEF Fits
<1>3. CASE local[c] # modcount
  BY <1>2, <1>3
<1>4. CASE local[c] = modcount
  <2>1. Synced(c)[k] = cache[c][k]
    BY <1>2, <1>4
  <2>2. Entry(c, k) = cache[c][k]
    <3>1. pending[ThreadOf[c]].op = "none"
      BY DEF NothingPending
    <3> QED
      BY <3>1 DEF Entry
  <2> QED
    BY <1>4, <2>1, <2>2 DEF ReadInv, SyncInv
<1> QED
  BY <1>3, <1>4

-----------------------------------------------------------------------------
(* The operations, each shown to be a step of its connection.              *)

\* The facts about the state that every operation's proof starts from.
LEMMA StateFacts ==
  ASSUME CacheInv, NEW c \in Conns
  PROVE  /\ TypeOK /\ ThreadOf[c] \in Threads
         /\ cache[c] \in [Keys -> Zval] /\ cache = [cache EXCEPT ![c] = cache[c]]
         /\ local[c] \in Int /\ local = [local EXCEPT ![c] = local[c]]
         /\ local[c] <= modcount
         /\ shared \in [Keys -> Storage] /\ modcount \in Nat
         /\ Undef \in Zval /\ Missing \in Storage
         /\ Synced(c) \in [Keys -> Zval]
         /\ \A k \in Keys : Synced(c)[k] \in {cache[c][k], Undef}
<1>1. TypeOK /\ ThreadOf[c] \in Threads
  BY ThreadOfAssumption DEF CacheInv
<1>2. Undef \in Zval /\ Missing \in Storage
  BY DEF Undef, Zval, Missing, Storage
<1>3. /\ cache[c] \in [Keys -> Zval] /\ cache = [cache EXCEPT ![c] = cache[c]]
      /\ local[c] \in Int /\ local = [local EXCEPT ![c] = local[c]]
      /\ local[c] <= modcount
      /\ shared \in [Keys -> Storage] /\ modcount \in Nat
  BY <1>1 DEF TypeOK, CacheInv, ClockInv
<1> QED
  BY <1>1, <1>2, <1>3, SyncedFacts DEF Synced

\* The cache entry that is about to be replaced is the one pending, if any.
LEMMA EntryAfter ==
  ASSUME TypeOK', NEW c \in Conns, NEW k \in Keys
  PROVE  /\ pending'[ThreadOf[c]] = NothingPending => Entry(c, k)' = cache'[c][k]
         /\ \A q \in Keys, op \in {"update", "delete"} : \A v :
              pending'[ThreadOf[c]] = [op |-> op, conn |-> c, key |-> q, zval |-> v]
                => Entry(c, k)' = IF k = q THEN v ELSE cache'[c][k]
  BY DEF Entry, NothingPending

LEMMA PendUpdateFacts ==
  ASSUME TypeOK, NEW c \in Conns, NEW k \in Keys, NEW v \in Zval,
         PendUpdate(c, k, v), pending[ThreadOf[c]] = NothingPending
  PROVE  /\ OnlyPends(c)
         /\ IsRetained(v) =>
              pending'[ThreadOf[c]] = [op |-> "update", conn |-> c, key |-> k, zval |-> v]
         /\ ~IsRetained(v) => pending'[ThreadOf[c]] = NothingPending
<1>1. ThreadOf[c] \in Threads
  BY ThreadOfAssumption
<1>2. CASE IsRetained(v)
  <2>1. Pend(c, "update", k, v)
    BY <1>2 DEF PendUpdate
  <2> QED
    BY <1>1, <1>2, <2>1 DEF Pend, OnlyPends, TypeOK
<1>3. CASE ~IsRetained(v)
  BY <1>3 DEF PendUpdate, OnlyPends
<1> QED
  BY <1>2, <1>3

LEMMA ReadIsStep ==
  ASSUME CacheInv, NEW c \in Conns, NEW k \in Keys, Read(c, k)
  PROVE  StepOf(c)
<1> DEFINE own == IF c \in table THEN Synced(c) ELSE cache[c]
           lm == IF c \in table THEN modcount ELSE local[c]
<1>1. /\ c \in live /\ pending[ThreadOf[c]] = NothingPending
      /\ cache' = [cache EXCEPT ![c] = own] /\ local' = [local EXCEPT ![c] = lm]
      /\ \/ PendUpdate(c, k, Restore(shared[k], ThreadOf[c]))
         \/ UNCHANGED pending
      /\ UNCHANGED <<program, shared, modcount, live, table>>
  BY DEF Read, Ready
<1>2. own \in [Keys -> Zval] /\ \A q \in Keys : own[q] \in {cache[c][q], Undef}
  BY StateFacts
<1>3. lm \in Int /\ lm <= modcount /\ shared \in [Keys -> Storage] /\ TypeOK
  BY StateFacts
<1>4. OnlyPends(c)
  <2>1. Restore(shared[k], ThreadOf[c]) \in Zval
    BY <1>3, RestoreFacts
  <2> QED
    BY <1>1, <1>3, <2>1, PendUpdateFacts DEF OnlyPends
<1> HIDE DEF own, lm
<1> QED
  BY <1>1, <1>2, <1>3, <1>4 DEF StepOf

LEMMA ReadKeeps ==
  ASSUME NEW c \in Conns, NEW k \in Keys, Read(c, k)
  PROVE  (ReadInv => ReadInv') /\ (StringInv => StringInv')
<1> DEFINE t == ThreadOf[c]
           own == IF c \in table THEN Synced(c) ELSE cache[c]
           v == Restore(shared[k], t)
<1>1. /\ c \in live /\ pending[t] = NothingPending
      /\ cache' = [cache EXCEPT ![c] = own]
      /\ IF own[k] = Undef /\ shared[k] # Missing THEN PendUpdate(c, k, v) ELSE UNCHANGED pending
      /\ UNCHANGED <<program, shared, modcount, live, table>>
  BY DEF Read, Ready
<1>2. ASSUME CacheInv
      PROVE  /\ TypeOK /\ TypeOK' /\ StepOf(c) /\ cache'[c] = own
             /\ shared[k] \in Storage /\ v \in Zval
             /\ \/ pending'[t] = NothingPending
                \/ /\ pending'[t] = [op |-> "update", conn |-> c, key |-> k, zval |-> v]
                   /\ IsRetained(v)
  <2>1. StepOf(c)
    BY <1>2, ReadIsStep
  <2>2. TypeOK /\ TypeOK'
    BY <1>2, <2>1, StepKeeps DEF CacheInv
  <2>3. shared[k] \in Storage /\ v \in Zval
    BY <2>2, RestoreFacts DEF TypeOK
  <2>4. cache'[c] = own
    BY <1>1, <2>2 DEF TypeOK
  <2>5. \/ pending'[t] = NothingPending
        \/ /\ pending'[t] = [op |-> "update", conn |-> c, key |-> k, zval |-> v]
           /\ IsRetained(v)
    BY <1>1, <2>2, <2>3, PendUpdateFacts
  <2> QED
    BY <2>1, <2>2, <2>3, <2>4, <2>5
<1>3. ASSUME ReadInv PROVE ReadInv'
  <2>1. CacheInv
    BY <1>3 DEF ReadInv
  <2>2. ASSUME NEW q \in Keys PROVE Fits(own[q], shared[q])
    <3>1. CASE c \in table
      BY <1>1, <1>3, <3>1, SyncedFits
    <3>2. CASE c \notin table
      BY <2>1, <3>2 DEF CacheInv, TableInv, Fits
    <3> QED
      BY <3>1, <3>2
  <2> HIDE DEF own, v
  <2>3. IsRetained(v) => Fits(v, shared[k])
    BY <1>2, <2>1, RetainedFits, RestoreFits DEF v
  <2>4. ASSUME NEW q \in Keys PROVE Fits(Entry(c, q)', shared'[q])
    <3>1. CASE pending'[t] = NothingPending
      BY <1>1, <1>2, <2>1, <2>2, <3>1, EntryAfter
    <3>2. CASE pending'[t] = [op |-> "update", conn |-> c, key |-> k, zval |-> v] /\ IsRetained(v)
      <4>1. Entry(c, q)' = IF q = k THEN v ELSE own[q]
        BY <1>2, <2>1, <3>2, EntryAfter
      <4> QED
        BY <1>1, <2>2, <2>3, <3>2, <4>1
    <3> QED
      BY <1>2, <2>1, <3>1, <3>2
  <2> QED
    BY <1>1, <1>2, <1>3, <2>1, <2>4, StepReads DEF ReadInv, KindInv
<1>4. ASSUME StringInv PROVE StringInv'
  <2>1. CacheInv
    BY <1>4 DEF StringInv
  <2>2. ASSUME NEW q \in Keys, shared[q].kind = "string_ptr", shared[q].owner = t,
               cache[c][q] = StringOf(shared[q])
        PROVE  own[q] = StringOf(shared[q])
    <3>1. StillValid(shared[q], cache[c][q], t)
      BY <2>2 DEF StillValid, StringOf
    <3> QED
      BY <2>2, <3>1 DEF Synced, SyncedCache
  <2> HIDE DEF own, v
  <2>3. shared[k].kind = "string_ptr" /\ shared[k].owner = t => v = StringOf(shared[k])
    BY <1>2, <2>1, RestoreFacts DEF v, StringOf
  <2>4. LET p == pending'[t] s == shared'[p.key] IN
        p.op # "none" /\ s.kind = "string_ptr" /\ s.owner = t =>
          p.op = "update" /\ p.zval = StringOf(s)
    <3>1. CASE pending'[t] = NothingPending
      BY <3>1 DEF NothingPending
    <3>2. CASE pending'[t] = [op |-> "update", conn |-> c, key |-> k, zval |-> v]
      BY <1>1, <2>3, <3>2
    <3> QED
      BY <1>2, <2>1, <3>1, <3>2
  <2> QED
    BY <1>1, <1>2, <1>4, <2>1, <2>2, <2>4, StepStrings
<1> QED
  BY <1>3, <1>4

LEMMA StoragesFacts ==
  ASSUME TypeOK, NEW t \in Threads, NEW s \in Storages(t)
  PROVE  /\ s \in Storage /\ s.kind \in {"long", "object", "string_ptr", "string"}
         /\ s.kind = "string_ptr" => s.owner = t
<1>1. program.objects \subseteq Nat /\ Strings \subseteq Nat
  BY ProgramsAssumption, StringsAssumption DEF TypeOK, IsProgram
<1>2. CASE s = [kind |-> "long", id |-> 0, owner |-> Nil]
  BY <1>2 DEF Storage
<1>3. CASE \E o \in program.objects : s = [kind |-> "object", id |-> o, owner |-> Nil]
  BY <1>1, <1>3 DEF Storage
<1>4. CASE \E n \in Strings : s = [kind |-> "string_ptr", id |-> n, owner |-> t]
  <2>1. PICK n \in Strings : s = [kind |-> "string_ptr", id |-> n, owner |-> t]
    BY <1>4
  <2>2. n \in Nat
    BY <1>1
  <2> QED
    BY <2>1, <2>2 DEF Storage
<1>5. CASE \E n \in Strings : s = [kind |-> "string", id |-> n, owner |-> Nil]
  <2>1. PICK n \in Strings : s = [kind |-> "string", id |-> n, owner |-> Nil]
    BY <1>5
  <2>2. n \in Nat
    BY <1>1
  <2> QED
    BY <2>1, <2>2 DEF Storage
<1> QED
  BY <1>2, <1>3, <1>4, <1>5 DEF Storages

\* A connection is in sync after a bump if and only if it was before.
LEMMA BumpFacts ==
  ASSUME CacheInv, NEW c \in Conns, NEW bump \in BOOLEAN
  PROVE  /\ BumpedMod(bump) \in Nat /\ BumpedMod(bump) \in {modcount, modcount + 1}
         /\ BumpedLocal(c, bump) \in Int /\ BumpedLocal(c, bump) <= BumpedMod(bump)
         /\ BumpedLocal(c, bump) = BumpedMod(bump) => local[c] = modcount
         /\ BumpedMod(bump) = modcount => ~bump
<1>1. local[c] \in Int /\ modcount \in Nat /\ local[c] <= modcount
  BY StateFacts
<1>2. CASE bump
  <2>1. BumpedMod(bump) = modcount + 1
    BY <1>2, Zenon DEF BumpedMod
  <2>2. BumpedLocal(c, bump) = IF local[c] = modcount THEN local[c] + 1 ELSE local[c]
    BY <1>2, Zenon DEF BumpedLocal
  <2>3. BumpedMod(bump) # modcount
    BY <1>1, <2>1
  <2>4. /\ modcount + 1 \in Nat
        /\ BumpedLocal(c, bump) \in Int /\ BumpedLocal(c, bump) <= modcount + 1
        /\ BumpedLocal(c, bump) = modcount + 1 => local[c] = modcount
    BY <1>1, <2>2
  <2> QED
    BY <2>1, <2>3, <2>4, Zenon
<1>3. CASE ~bump
  <2>1. BumpedMod(bump) = modcount /\ BumpedLocal(c, bump) = local[c]
    BY <1>3, Zenon DEF BumpedMod, BumpedLocal
  <2> QED
    BY <1>1, <1>3, <2>1, Zenon
<1> QED
  BY <1>2, <1>3

LEMMA WriteKeeps ==
  ASSUME NEW c \in Conns, NEW k \in Keys, NEW s \in Written(ThreadOf[c]), Write(c, k, s)
  PROVE  /\ NoPlainWrites /\ ReadInv => ReadInv'
         /\ StringInv => StringInv'
<1> DEFINE t == ThreadOf[c]
           bump == IsCacheable(shared[k])
           sh == [shared EXCEPT ![k] = s]
           mod == BumpedMod(bump)
           lm == BumpedLocal(c, bump)
           own == SyncedCache(c, sh, mod, lm)
           v == Restore(s, t)
<1>1. /\ c \in live /\ pending[t] = NothingPending
      /\ shared' = sh /\ modcount' = mod
      /\ cache' = [cache EXCEPT ![c] = own] /\ local' = [local EXCEPT ![c] = mod]
      /\ PendUpdate(c, k, v)
      /\ UNCHANGED <<program, live, table>>
  BY DEF Write, Ready
<1>2. ASSUME NEW q \in Keys
      PROVE  own[q] = IF lm = mod \/ StillValid(sh[q], cache[c][q], t)
                        THEN cache[c][q] ELSE Undef
  BY DEF SyncedCache
<1>3. own = [q \in Keys |-> own[q]]
  BY DEF SyncedCache
<1>4. t \in Threads /\ s \in Storages(t) /\ s.kind \in program.writes
  BY ThreadOfAssumption DEF Written
<1>5. bump \in BOOLEAN
  BY DEF IsCacheable
<1> HIDE DEF own, v, sh, mod, lm, bump
<1>6. ASSUME CacheInv
      PROVE  /\ TypeOK /\ TypeOK' /\ StepOf(c) /\ cache'[c] = own
             /\ s \in Storage /\ v \in Zval /\ (s.kind = "string_ptr" => s.owner = t)
             /\ sh \in [Keys -> Storage] /\ sh[k] = s
             /\ \A q \in Keys : q # k => sh[q] = shared[q]
             /\ IsRetained(v) =>
                  pending'[t] = [op |-> "update", conn |-> c, key |-> k, zval |-> v]
             /\ ~IsRetained(v) => pending'[t] = NothingPending
  <2>1. /\ TypeOK /\ cache[c] \in [Keys -> Zval] /\ Undef \in Zval
        /\ shared \in [Keys -> Storage]
    BY <1>6, StateFacts
  <2>2. s \in Storage /\ (s.kind = "string_ptr" => s.owner = t)
    BY <1>4, <2>1, StoragesFacts
  <2>3. /\ sh \in [Keys -> Storage] /\ sh[k] = s
        /\ \A q \in Keys : q # k => sh[q] = shared[q]
    BY <2>1, <2>2 DEF sh
  <2>4. own \in [Keys -> Zval] /\ \A q \in Keys : own[q] \in {cache[c][q], Undef}
    BY <1>2, <1>3, <2>1
  <2>5. v \in Zval
    BY <2>2, RestoreFacts DEF v
  <2>6. mod \in Nat /\ mod \in {modcount, modcount + 1}
    BY <1>5, <1>6, BumpFacts DEF mod
  <2>7. /\ OnlyPends(c)
        /\ IsRetained(v) =>
             pending'[t] = [op |-> "update", conn |-> c, key |-> k, zval |-> v]
        /\ ~IsRetained(v) => pending'[t] = NothingPending
    BY <1>1, <2>1, <2>5, PendUpdateFacts
  <2>8. mod \in Int /\ mod <= mod
    BY <2>6
  <2>9. StepOf(c)
    BY <1>1, <2>3, <2>4, <2>6, <2>7, <2>8 DEF StepOf
  <2>10. TypeOK'
    BY <1>6, <2>9, StepKeeps DEF CacheInv
  <2>11. cache'[c] = own
    BY <1>1, <2>1 DEF TypeOK
  <2> QED
    BY <2>1, <2>2, <2>3, <2>5, <2>7, <2>9, <2>10, <2>11
<1>7. ASSUME NoPlainWrites, ReadInv PROVE ReadInv'
  <2>1. CacheInv /\ TypeOK
    BY <1>7 DEF ReadInv, CacheInv
  <2>2. s.kind \notin {"absent", "long"}
    <3>1. s.kind # "long"
      BY <1>4, <1>7, <2>1 DEF NoPlainWrites, TypeOK
    <3> QED
      BY <1>4, <2>1, <3>1, StoragesFacts
  <2>3. IsRetained(v) /\ Fits(v, s)
    BY <1>6, <2>1, <2>2, RetainedFits, RestoreFits DEF v
  <2>4. ASSUME NEW q \in Keys PROVE Fits(Entry(c, q)', shared'[q])
    <3>1. Entry(c, q)' = IF q = k THEN v ELSE own[q]
      BY <1>6, <2>1, <2>3, EntryAfter
    <3>2. CASE q = k
      BY <1>1, <1>6, <2>1, <2>3, <3>1, <3>2
    <3>3. CASE q # k
      <4>1. sh[q] = shared[q] /\ sh[q] \in Storage /\ cache[c][q] \in Zval
        BY <1>6, <2>1, <3>3 DEF TypeOK
      <4>2. StillValid(sh[q], cache[c][q], t) => Fits(cache[c][q], sh[q])
        BY <4>1, ValidFits
      <4>3. lm = mod => Fits(cache[c][q], sh[q])
        <5> SUFFICES ASSUME lm = mod PROVE Fits(cache[c][q], sh[q])
          OBVIOUS
        <5>1. local[c] = modcount
          BY <1>5, <2>1, BumpFacts DEF lm, mod
        <5>2. pending[t].op = "none"
          BY <1>1 DEF NothingPending
        <5>3. Entry(c, q) = cache[c][q]
          BY <5>2 DEF Entry
        <5> QED
          BY <1>1, <1>7, <4>1, <5>1, <5>3 DEF ReadInv, SyncInv
      <4>4. Fits(own[q], sh[q])
        BY <1>2, <4>2, <4>3 DEF Fits
      <4> QED
        BY <1>1, <3>1, <3>3, <4>4
    <3> QED
      BY <3>2, <3>3
  <2>5. modcount' = modcount => \A q \in Keys : shared'[q] = shared[q] \/ ~IsCacheable(shared[q])
    <3>1. modcount' = modcount => ~bump
      BY <1>1, <1>5, <2>1, BumpFacts DEF mod
    <3> QED
      BY <1>1, <1>6, <2>1, <3>1 DEF bump
  <2>6. WritesCacheable => \A q \in Keys : shared'[q].kind # "string"
    BY <1>1, <1>4, <1>6, <1>7, <2>1 DEF WritesCacheable, ReadInv, KindInv
  <2> QED
    BY <1>6, <1>7, <2>1, <2>4, <2>5, <2>6, StepReads
<1>8. ASSUME StringInv PROVE StringInv'
  <2>1. CacheInv
    BY <1>8 DEF StringInv
  <2>2. ASSUME NEW q \in Keys, sh[q].kind = "string_ptr", sh[q].owner = t,
               cache[c][q] = StringOf(sh[q])
        PROVE  own[q] = StringOf(sh[q])
    <3>1. StillValid(sh[q], cache[c][q], t)
      BY <2>2 DEF StillValid, StringOf
    <3> QED
      BY <1>2, <2>2, <3>1
  <2>3. s.kind = "string_ptr" =>
          /\ v = StringOf(s)
          /\ pending'[t] = [op |-> "update", conn |-> c, key |-> k, zval |-> v]
    <3>1. s.kind = "string_ptr" => v = StringOf(s) /\ IsRetained(v)
      BY <1>6, <2>1, RestoreFacts, RetainedFits DEF v, StringOf
    <3> QED
      BY <1>6, <2>1, <3>1
  <2>4. LET p == pending'[t] r == shared'[p.key] IN
        p.op # "none" /\ r.kind = "string_ptr" /\ r.owner = t =>
          p.op = "update" /\ p.zval = StringOf(r)
    <3>1. CASE pending'[t] = NothingPending
      BY <3>1 DEF NothingPending
    <3>2. CASE pending'[t] = [op |-> "update", conn |-> c, key |-> k, zval |-> v]
      BY <1>1, <1>6, <2>1, <2>3, <3>2
    <3> QED
      BY <1>6, <2>1, <3>1, <3>2
  <2>5. ASSUME NEW q \in Keys, shared'[q].kind = "string_ptr"
        PROVE  \/ shared'[q] = shared[q]
               \/ shared'[q].owner = t /\ pending'[t] = Updates(c, q)'
    <3>1. CASE q = k
      <4>1. shared'[k] = s /\ s.kind = "string_ptr" /\ s.owner = t
        BY <1>1, <1>6, <2>1, <2>5, <3>1
      <4>2. pending'[t] = [op |-> "update", conn |-> c, key |-> k, zval |-> StringOf(shared'[k])]
        BY <2>3, <4>1
      <4> QED
        BY <3>1, <4>1, <4>2 DEF Updates, StringOf
    <3>2. CASE q # k
      BY <1>1, <1>6, <2>1, <3>2
    <3> QED
      BY <3>1, <3>2
  <2>6. ASSUME NEW q \in Keys, shared'[q].kind = "string_ptr", shared'[q] = shared[q],
               shared[q].owner = t, cache[c][q] = StringOf(shared[q])
        PROVE  cache'[c][q] = StringOf(shared[q])
    BY <1>1, <1>6, <2>1, <2>2, <2>6
  <2> QED
    BY <1>6, <1>8, <2>1, <2>4, <2>5, <2>6, StepStrings
<1> QED
  BY <1>7, <1>8

\* What delete(), shift(), pop(), chunk() and merge() have in common: the own
\* entries of the keys that are replaced go, at once or after the unlock.
Deletes(c, k) == [op |-> "delete", conn |-> c, key |-> k, zval |-> Undef]
Removes(c, ks) ==
  LET t == ThreadOf[c]
      bump == \E k \in ks : IsCacheable(shared[k]) IN
  /\ c \in live /\ pending[t] = NothingPending
  /\ UNCHANGED <<program, live, table>>
  /\ modcount' = BumpedMod(bump) /\ local' = [local EXCEPT ![c] = BumpedLocal(c, bump)]
  /\ shared' \in [Keys -> Storage]
  /\ \A k \in Keys : IF k \in ks THEN shared'[k].kind # "string_ptr"
                                 ELSE shared'[k] = shared[k]
  /\ \E own \in [Keys -> Zval] :
       /\ cache' = [cache EXCEPT ![c] = own]
       /\ \A k \in Keys :
            \/ k \in ks /\ own[k] = Undef
            \/ k \in ks /\ own[k] = cache[c][k] /\ pending'[t] = Deletes(c, k)
            \/ k \notin ks /\ own[k] = cache[c][k]
  /\ UNCHANGED pending \/ \E k \in ks : Pend(c, "delete", k, Undef)

LEMMA RemovesKeeps ==
  ASSUME NEW c \in Conns, NEW ks \in SUBSET Keys, Removes(c, ks),
         WritesCacheable => \A k \in ks : shared'[k].kind # "string"
  PROVE  (ReadInv => ReadInv') /\ (StringInv => StringInv')
<1> DEFINE t == ThreadOf[c]
           bump == \E k \in ks : IsCacheable(shared[k])
           mod == BumpedMod(bump)
           lm == BumpedLocal(c, bump)
<1>1. /\ c \in live /\ pending[t] = NothingPending
      /\ UNCHANGED <<program, live, table>>
      /\ modcount' = mod /\ local' = [local EXCEPT ![c] = lm]
      /\ shared' \in [Keys -> Storage]
      /\ \A k \in Keys : IF k \in ks THEN shared'[k].kind # "string_ptr"
                                     ELSE shared'[k] = shared[k]
      /\ UNCHANGED pending \/ \E k \in ks : Pend(c, "delete", k, Undef)
  BY DEF Removes
<1>2. PICK own \in [Keys -> Zval] :
        /\ cache' = [cache EXCEPT ![c] = own]
        /\ \A k \in Keys :
             \/ k \in ks /\ own[k] = Undef
             \/ k \in ks /\ own[k] = cache[c][k] /\ pending'[t] = Deletes(c, k)
             \/ k \notin ks /\ own[k] = cache[c][k]
  BY DEF Removes
<1>3. bump \in BOOLEAN
  OBVIOUS
<1> HIDE DEF bump, mod, lm
<1>4. ASSUME CacheInv
      PROVE  /\ TypeOK /\ TypeOK' /\ StepOf(c) /\ cache'[c] = own /\ local'[c] = lm
             /\ t \in Threads
             /\ pending'[t] = NothingPending \/ \E k \in ks : pending'[t] = Deletes(c, k)
  <2>1. TypeOK /\ t \in Threads /\ Undef \in Zval
    BY <1>4, StateFacts
  <2>2. mod \in {modcount, modcount + 1} /\ lm \in Int /\ lm <= mod
    BY <1>3, <1>4, BumpFacts DEF mod, lm
  <2>3. OnlyPends(c)
    BY <1>1, <2>1 DEF OnlyPends
  <2>4. StepOf(c)
    BY <1>1, <1>2, <2>2, <2>3 DEF StepOf
  <2>5. TypeOK'
    BY <1>4, <2>4, StepKeeps DEF CacheInv
  <2>6. cache'[c] = own /\ local'[c] = lm
    BY <1>1, <1>2, <2>1 DEF TypeOK
  <2>7. pending'[t] = NothingPending \/ \E k \in ks : pending'[t] = Deletes(c, k)
    BY <1>1, <2>1 DEF Pend, Deletes, TypeOK
  <2> QED
    BY <2>1, <2>4, <2>5, <2>6, <2>7
<1>5. ASSUME ReadInv PROVE ReadInv'
  <2>1. CacheInv
    BY <1>5 DEF ReadInv
  <2>2. ASSUME local'[c] = modcount', NEW q \in Keys
        PROVE  Fits(Entry(c, q)', shared'[q])
    <3>1. CASE q \in ks
      <4>1. Entry(c, q)' = Undef
        <5>1. CASE pending'[t] = NothingPending
          <6>1. Entry(c, q)' = own[q]
            BY <1>4, <2>1, <5>1, EntryAfter
          <6>2. pending'[t] # Deletes(c, q)
            BY <5>1 DEF Deletes, NothingPending
          <6> QED
            BY <1>2, <3>1, <6>1, <6>2
        <5>2. CASE \E k \in ks : pending'[t] = Deletes(c, k)
          <6>1. PICK k \in ks : pending'[t] = Deletes(c, k)
            BY <5>2
          <6>2. Entry(c, q)' = IF q = k THEN Undef ELSE own[q]
            BY <1>4, <2>1, <6>1, EntryAfter DEF Deletes
          <6>3. q # k => pending'[t] # Deletes(c, q)
            BY <6>1 DEF Deletes
          <6> QED
            BY <1>2, <3>1, <6>2, <6>3
        <5> QED
          BY <1>4, <2>1, <5>1, <5>2
      <4> QED
        BY <4>1 DEF Fits
    <3>2. CASE q \notin ks
      <4>1. Entry(c, q)' = own[q]
        <5>1. CASE pending'[t] = NothingPending
          BY <1>4, <2>1, <5>1, EntryAfter
        <5>2. CASE \E k \in ks : pending'[t] = Deletes(c, k)
          <6>1. PICK k \in ks : pending'[t] = Deletes(c, k)
            BY <5>2
          <6> QED
            BY <1>4, <2>1, <3>2, <6>1, EntryAfter DEF Deletes
        <5> QED
          BY <1>4, <2>1, <5>1, <5>2
      <4>2. own[q] = cache[c][q] /\ shared'[q] = shared[q]
        BY <1>1, <1>2, <3>2
      <4>3. pending[t].op = "none"
        BY <1>1 DEF NothingPending
      <4>4. Entry(c, q) = cache[c][q]
        BY <4>3 DEF Entry
      <4>5. local[c] = modcount
        BY <1>1, <1>3, <1>4, <2>1, <2>2, BumpFacts DEF mod, lm
      <4>6. Fits(Entry(c, q), shared[q])
        BY <1>1, <1>5, <4>5 DEF ReadInv, SyncInv
      <4> QED
        BY <4>1, <4>2, <4>4, <4>6
    <3> QED
      BY <3>1, <3>2
  <2>3. modcount' = modcount => \A q \in Keys : shared'[q] = shared[q] \/ ~IsCacheable(shared[q])
    <3>1. modcount' = modcount => ~bump
      BY <1>1, <1>3, <2>1, BumpFacts DEF mod
    <3> QED
      BY <1>1, <3>1 DEF bump
  <2>4. WritesCacheable => \A q \in Keys : shared'[q].kind # "string"
    BY <1>1, <1>5 DEF ReadInv, KindInv
  <2> QED
    BY <1>4, <1>5, <2>1, <2>2, <2>3, <2>4, StepReads
<1>6. ASSUME StringInv PROVE StringInv'
  <2>1. CacheInv
    BY <1>6 DEF StringInv
  <2>2. LET p == pending'[t] r == shared'[p.key] IN
        p.op # "none" /\ r.kind = "string_ptr" /\ r.owner = t =>
          p.op = "update" /\ p.zval = StringOf(r)
    <3>1. CASE pending'[t] = NothingPending
      BY <3>1 DEF NothingPending
    <3>2. CASE \E k \in ks : pending'[t] = Deletes(c, k)
      <4>1. PICK k \in ks : pending'[t] = Deletes(c, k)
        BY <3>2
      <4>2. pending'[t].key = k /\ shared'[k].kind # "string_ptr"
        BY <1>1, <4>1 DEF Deletes
      <4> QED
        BY <4>2
    <3> QED
      BY <1>4, <2>1, <3>1, <3>2
  <2>3. \A q \in Keys : shared'[q].kind = "string_ptr" => q \notin ks /\ shared'[q] = shared[q]
    BY <1>1
  <2>4. ASSUME NEW q \in Keys, q \notin ks PROVE cache'[c][q] = cache[c][q]
    BY <1>2, <1>4, <2>1, <2>4
  <2> QED
    BY <1>4, <1>6, <2>1, <2>2, <2>3, <2>4, StepStrings
<1> QED
  BY <1>5, <1>6

LEMMA DeleteKeeps ==
  ASSUME NEW c \in Conns, NEW k \in Keys, Delete(c, k)
  PROVE  (ReadInv => ReadInv') /\ (StringInv => StringInv')
<1> DEFINE t == ThreadOf[c]
           bump == IsCacheable(shared[k])
<1>1. /\ c \in live /\ pending[t] = NothingPending
      /\ shared' = [shared EXCEPT ![k] = Missing]
      /\ modcount' = BumpedMod(bump)
      /\ local' = [local EXCEPT ![c] = BumpedLocal(c, bump)]
      /\ IF c \in table THEN Pend(c, "delete", k, Undef) ELSE UNCHANGED pending
      /\ UNCHANGED <<program, live, table, cache>>
  BY DEF Delete, Ready
<1>2. ASSUME CacheInv PROVE Removes(c, {k})
  <2>1. /\ TypeOK /\ t \in Threads
        /\ cache[c] \in [Keys -> Zval] /\ cache = [cache EXCEPT ![c] = cache[c]]
        /\ shared \in [Keys -> Storage] /\ Missing \in Storage
    BY <1>2, StateFacts
  <2>2. /\ shared' \in [Keys -> Storage]
        /\ \A q \in Keys : IF q \in {k} THEN shared'[q].kind # "string_ptr"
                                        ELSE shared'[q] = shared[q]
    BY <1>1, <2>1 DEF Missing
  <2>3. cache[c][k] = Undef \/ pending'[t] = Deletes(c, k)
    <3>1. CASE c \in table
      BY <1>1, <2>1, <3>1 DEF Pend, Deletes, TypeOK
    <3>2. CASE c \notin table
      BY <1>2, <3>2 DEF CacheInv, TableInv
    <3> QED
      BY <3>1, <3>2
  <2>4. (\E q \in {k} : IsCacheable(shared[q])) <=> bump
    OBVIOUS
  <2>5. \E own \in [Keys -> Zval] :
          /\ cache' = [cache EXCEPT ![c] = own]
          /\ \A q \in Keys :
               \/ q \in {k} /\ own[q] = Undef
               \/ q \in {k} /\ own[q] = cache[c][q] /\ pending'[t] = Deletes(c, q)
               \/ q \notin {k} /\ own[q] = cache[c][q]
    BY <1>1, <2>1, <2>3
  <2>6. UNCHANGED pending \/ \E q \in {k} : Pend(c, "delete", q, Undef)
    BY <1>1
  <2>7. /\ modcount' = BumpedMod(\E q \in {k} : IsCacheable(shared[q]))
        /\ local' = [local EXCEPT ![c] = BumpedLocal(c, \E q \in {k} : IsCacheable(shared[q]))]
    BY <1>1, <2>4 DEF BumpedMod, BumpedLocal
  <2> QED
    BY <1>1, <2>2, <2>5, <2>6, <2>7 DEF Removes
<1>3. ASSUME CacheInv PROVE \A q \in {k} : shared'[q].kind # "string"
  BY <1>1, <1>3, StateFacts DEF Missing
<1> QED
  BY <1>2, <1>3, RemovesKeeps DEF ReadInv, StringInv

LEMMA TakeKeeps ==
  ASSUME NEW c \in Conns, NEW ks \in SUBSET Keys, Take(c, ks)
  PROVE  (ReadInv => ReadInv') /\ (StringInv => StringInv')
<1> DEFINE own == [k \in Keys |-> IF k \in ks THEN Undef ELSE cache[c][k]]
<1>1. /\ c \in live /\ pending[ThreadOf[c]] = NothingPending
      /\ shared' = [k \in Keys |-> IF k \in ks THEN Missing ELSE shared[k]]
      /\ modcount' = BumpedMod(\E k \in ks : IsCacheable(shared[k]))
      /\ local' = [local EXCEPT ![c] = BumpedLocal(c, \E k \in ks : IsCacheable(shared[k]))]
      /\ UNCHANGED <<program, live, table, pending>>
  BY DEF Take, Ready
<1>2. ASSUME CacheInv PROVE cache' = [cache EXCEPT ![c] = own]
  BY <1>2, StateFacts DEF Take, TypeOK
<1>3. ASSUME CacheInv PROVE Removes(c, ks)
  <2>1. own \in [Keys -> Zval] /\ shared' \in [Keys -> Storage]
    BY <1>1, <1>3, StateFacts
  <2>2. \A k \in Keys : IF k \in ks THEN shared'[k].kind # "string_ptr"
                                    ELSE shared'[k] = shared[k]
    BY <1>1 DEF Missing
  <2>3. \A k \in Keys : \/ k \in ks /\ own[k] = Undef
                        \/ k \notin ks /\ own[k] = cache[c][k]
    OBVIOUS
  <2> HIDE DEF own
  <2> QED
    BY <1>1, <1>2, <1>3, <2>1, <2>2, <2>3 DEF Removes
<1>4. \A k \in ks : shared'[k].kind # "string"
  BY <1>1 DEF Missing
<1> QED
  BY <1>3, <1>4, RemovesKeeps DEF ReadInv, StringInv

LEMMA HardCopyFacts ==
  ASSUME NEW s \in Storage
  PROVE  /\ HardCopy(s) \in Storage /\ HardCopy(s).kind # "string_ptr"
         /\ s.kind # "string_ptr" => HardCopy(s) = s
  BY DEF HardCopy, Storage

LEMMA MergeKeeps ==
  ASSUME NEW c \in Conns, NEW src \in Sources(ThreadOf[c]), NEW o \in BOOLEAN,
         Merge(c, src, o)
  PROVE  (ReadInv => ReadInv') /\ (StringInv => StringInv')
<1> DEFINE ks == {k \in Keys : src[k] # Missing /\ (o \/ shared[k] = Missing)}
           own == [k \in Keys |-> IF k \in ks THEN Undef ELSE cache[c][k]]
<1>1. /\ c \in live /\ pending[ThreadOf[c]] = NothingPending
      /\ shared' = [k \in Keys |-> IF k \in ks THEN HardCopy(src[k]) ELSE shared[k]]
      /\ cache' = [cache EXCEPT ![c] = [k \in Keys |-> IF k \in ks THEN Undef ELSE @[k]]]
      /\ modcount' = BumpedMod(\E k \in ks : IsCacheable(shared[k]))
      /\ local' = [local EXCEPT ![c] = BumpedLocal(c, \E k \in ks : IsCacheable(shared[k]))]
      /\ UNCHANGED <<program, live, table, pending>>
  BY DEF Merge, Ready
<1>2. ks \in SUBSET Keys
  OBVIOUS
<1>3. ASSUME CacheInv, NEW k \in ks
      PROVE  src[k] \in Storage /\ src[k].kind \in program.merges
  <2>1. src[k] \in Storages(ThreadOf[c]) /\ src[k].kind \in program.merges
    BY <1>3 DEF Sources
  <2> QED
    BY <1>3, <2>1, StateFacts, StoragesFacts
<1> HIDE DEF ks
<1>4. ASSUME CacheInv PROVE cache' = [cache EXCEPT ![c] = own]
  BY <1>1, <1>4, StateFacts DEF TypeOK
<1>5. ASSUME CacheInv, NEW k \in ks
      PROVE  /\ HardCopy(src[k]) \in Storage /\ HardCopy(src[k]).kind # "string_ptr"
             /\ WritesCacheable => HardCopy(src[k]).kind # "string"
  BY <1>3, <1>5, HardCopyFacts DEF WritesCacheable
<1>6. ASSUME CacheInv PROVE Removes(c, ks)
  <2>1. own \in [Keys -> Zval] /\ shared' \in [Keys -> Storage]
    BY <1>1, <1>5, <1>6, StateFacts
  <2>2. \A k \in Keys : IF k \in ks THEN shared'[k].kind # "string_ptr"
                                    ELSE shared'[k] = shared[k]
    BY <1>1, <1>5, <1>6
  <2>3. \A k \in Keys : \/ k \in ks /\ own[k] = Undef
                        \/ k \notin ks /\ own[k] = cache[c][k]
    OBVIOUS
  <2> HIDE DEF own
  <2> QED
    BY <1>1, <1>4, <1>6, <2>1, <2>2, <2>3 DEF Removes
<1>7. ASSUME CacheInv PROVE WritesCacheable => \A k \in ks : shared'[k].kind # "string"
  BY <1>1, <1>2, <1>5, <1>7
<1> QED
  BY <1>2, <1>6, <1>7, RemovesKeeps DEF ReadInv, StringInv

LEMMA SyncedString ==
  ASSUME NEW c \in Conns, NEW k \in Keys, shared[k].kind = "string_ptr",
         shared[k].owner = ThreadOf[c], cache[c][k] = StringOf(shared[k])
  PROVE  Synced(c)[k] = StringOf(shared[k]) /\ Synced(c)[k] # Undef
<1>1. StillValid(shared[k], cache[c][k], ThreadOf[c])
  BY DEF StillValid, StringOf
<1>2. Synced(c)[k] = StringOf(shared[k])
  BY <1>1 DEF Synced, SyncedCache
<1> QED
  BY <1>2 DEF StringOf, Undef

\* What synchronized(), a full sync and a dump of the properties have in common:
\* the cache is brought up to date, or said not to be.
LEMMA RefreshKeeps ==
  ASSUME CacheInv, NEW c \in live, pending[ThreadOf[c]] = NothingPending,
         UNCHANGED <<program, shared, modcount, live, pending>>,
         table' \in {table, table \cup {c}},
         NEW own \in [Keys -> Zval], cache' = [cache EXCEPT ![c] = own],
         c \in table' \/ \A k \in Keys : own[k] \in {cache[c][k], Undef},
         NEW lm \in Int, lm <= modcount, local' = [local EXCEPT ![c] = lm],
         ReadInv /\ lm = modcount => \A k \in Keys : Fits(own[k], shared[k]),
         \A k \in Keys : Synced(c)[k] # Undef => own[k] = Synced(c)[k]
  PROVE  (ReadInv => ReadInv') /\ (StringInv => StringInv')
<1>1. c \in Conns /\ TypeOK /\ shared \in [Keys -> Storage]
  BY DEF CacheInv, TypeOK
<1>2. StepOf(c)
  BY <1>1 DEF StepOf, OnlyPends
<1>3. TypeOK' /\ cache'[c] = own /\ local'[c] = lm
  BY <1>1, <1>2, StepKeeps DEF CacheInv, TypeOK
<1>4. ASSUME ReadInv PROVE ReadInv'
  <2>1. \A k \in Keys : Entry(c, k)' = own[k]
    BY <1>1, <1>3, EntryAfter
  <2> QED
    BY <1>1, <1>2, <1>3, <1>4, <2>1, StepReads DEF ReadInv, KindInv
<1>5. ASSUME StringInv PROVE StringInv'
  <2>1. ASSUME NEW k \in Keys, shared[k].kind = "string_ptr",
               shared[k].owner = ThreadOf[c], cache[c][k] = StringOf(shared[k])
        PROVE  cache'[c][k] = StringOf(shared[k])
    BY <1>1, <1>3, <2>1, SyncedString
  <2>2. pending'[ThreadOf[c]].op = "none"
    BY DEF NothingPending
  <2> QED
    BY <1>1, <1>2, <1>5, <2>1, <2>2, StepStrings
<1> QED
  BY <1>4, <1>5

LEMMA SynchronizedKeeps ==
  ASSUME NEW c \in Conns, Synchronized(c)
  PROVE  (ReadInv => ReadInv') /\ (StringInv => StringInv')
<1> SUFFICES ASSUME CacheInv PROVE (ReadInv => ReadInv') /\ (StringInv => StringInv')
  BY DEF ReadInv, StringInv
<1> DEFINE own == Synced(c)
<1>1. /\ c \in live /\ pending[ThreadOf[c]] = NothingPending
      /\ UNCHANGED <<program, shared, modcount, live, pending>> /\ table' = table
      /\ cache' = [cache EXCEPT ![c] = own] /\ local' = [local EXCEPT ![c] = modcount]
  BY DEF Synchronized, Ready
<1>2. own \in [Keys -> Zval] /\ \A k \in Keys : own[k] \in {cache[c][k], Undef}
  BY StateFacts
<1>3. ASSUME ReadInv, NEW k \in Keys PROVE Fits(own[k], shared[k])
  BY <1>1, <1>3, SyncedFits
<1>4. modcount \in Int /\ modcount <= modcount
  BY StateFacts
<1> QED
  BY <1>1, <1>2, <1>3, <1>4, RefreshKeeps

LEMMA FullSyncKeeps ==
  ASSUME NEW c \in Conns, FullSync(c)
  PROVE  (ReadInv => ReadInv') /\ (StringInv => StringInv')
<1> SUFFICES ASSUME CacheInv PROVE (ReadInv => ReadInv') /\ (StringInv => StringInv')
  BY DEF ReadInv, StringInv
<1> DEFINE own == [k \in Keys |-> IF Synced(c)[k] = Undef /\ IsCacheable(shared[k])
                                    THEN Restore(shared[k], ThreadOf[c]) ELSE Synced(c)[k]]
<1>1. /\ c \in live /\ pending[ThreadOf[c]] = NothingPending
      /\ UNCHANGED <<program, shared, modcount, live, pending>> /\ table' = table \cup {c}
      /\ cache' = [cache EXCEPT ![c] = own] /\ local' = [local EXCEPT ![c] = modcount]
  BY DEF FullSync, Ready
<1>2. ASSUME NEW k \in Keys PROVE Restore(shared[k], ThreadOf[c]) \in Zval
  BY StateFacts, RestoreFacts
<1>3. own \in [Keys -> Zval] /\ \A k \in Keys : Synced(c)[k] # Undef => own[k] = Synced(c)[k]
  BY <1>2, StateFacts
<1>4. ASSUME ReadInv, NEW k \in Keys PROVE Fits(own[k], shared[k])
  <2>1. CASE Synced(c)[k] = Undef /\ IsCacheable(shared[k])
    <3>1. shared[k] \in Storage /\ shared[k].kind \notin {"absent", "long"}
      BY <2>1, StateFacts DEF IsCacheable
    <3> QED
      BY <2>1, <3>1, RestoreFits
  <2>2. CASE ~(Synced(c)[k] = Undef /\ IsCacheable(shared[k]))
    BY <1>1, <1>4, <2>2, SyncedFits
  <2> QED
    BY <2>1, <2>2
<1>5. modcount \in Int /\ modcount <= modcount
  BY StateFacts
<1> HIDE DEF own
<1> QED
  BY <1>1, <1>3, <1>4, <1>5, RefreshKeeps

LEMMA ToHashKeeps ==
  ASSUME NEW c \in Conns, ToHash(c)
  PROVE  (ReadInv => ReadInv') /\ (StringInv => StringInv')
<1> SUFFICES ASSUME CacheInv PROVE (ReadInv => ReadInv') /\ (StringInv => StringInv')
  BY DEF ReadInv, StringInv
<1> DEFINE own == [k \in Keys |-> IF k \in Junk(c) THEN Restore(shared[k], ThreadOf[c])
                                  ELSE Synced(c)[k]]
           lm == IF Junk(c) # {} THEN modcount - 1 ELSE modcount
<1>1. /\ c \in live /\ pending[ThreadOf[c]] = NothingPending
      /\ UNCHANGED <<program, shared, modcount, live, pending>> /\ table' = table \cup {c}
      /\ cache' = [cache EXCEPT ![c] = own] /\ local' = [local EXCEPT ![c] = lm]
  BY DEF ToHash, Ready
<1>2. ASSUME NEW k \in Keys PROVE Restore(shared[k], ThreadOf[c]) \in Zval
  BY StateFacts, RestoreFacts
<1>3. own \in [Keys -> Zval] /\ \A k \in Keys : Synced(c)[k] # Undef => own[k] = Synced(c)[k]
  BY <1>2, StateFacts DEF Junk
<1>4. lm \in Int /\ lm <= modcount /\ (lm = modcount => Junk(c) = {})
  BY StateFacts
<1>5. ASSUME ReadInv, lm = modcount, NEW k \in Keys PROVE Fits(own[k], shared[k])
  <2>1. own[k] = Synced(c)[k]
    BY <1>4, <1>5
  <2> QED
    BY <1>1, <1>5, <2>1, SyncedFits
<1> HIDE DEF own, lm
<1> QED
  BY <1>1, <1>3, <1>4, <1>5, RefreshKeeps

\* The second half of an operation makes the cache what it was said to be.
LEMMA CompleteKeeps ==
  ASSUME NEW t \in Threads, Complete(t)
  PROVE  (ReadInv => ReadInv') /\ (StringInv => StringInv')
<1> SUFFICES ASSUME CacheInv PROVE (ReadInv => ReadInv') /\ (StringInv => StringInv')
  BY DEF ReadInv, StringInv
<1> DEFINE c == pending[t].conn
           k == pending[t].key
           v == pending[t].zval
<1>1. /\ pending[t].op # "none"
      /\ cache' = [cache EXCEPT ![c] = [cache[c] EXCEPT ![k] = v]]
      /\ table' = table \cup {c}
      /\ pending' = [pending EXCEPT ![t] = NothingPending]
      /\ UNCHANGED <<program, shared, modcount, live, local>>
  BY DEF Complete
<1>2. TypeOK /\ c \in live /\ c \in Conns /\ k \in Keys /\ v \in Zval /\ ThreadOf[c] = t
  BY <1>1 DEF CacheInv, PendInv, TypeOK, NothingPending
<1>3. \A d \in Conns, q \in Keys :
        cache'[d][q] = IF d = c /\ q = k THEN v ELSE cache[d][q]
  BY <1>1, <1>2 DEF TypeOK
<1>4. /\ pending'[t] = NothingPending /\ NothingPending.op = "none"
      /\ \A u \in Threads : u # t => pending'[u] = pending[u]
  BY <1>1, <1>2 DEF TypeOK, NothingPending
<1>5. TypeOK'
  <2>1. NothingPending \in [op : {"none", "update", "delete"}, conn : Conns \cup {Nil},
                            key : Keys \cup {Nil}, zval : Zval]
    BY DEF NothingPending, Undef, Zval
  <2>2. [cache[c] EXCEPT ![k] = v] \in [Keys -> Zval]
    BY <1>2 DEF TypeOK
  <2>3. cache' \in [Conns -> [Keys -> Zval]]
    BY <1>1, <1>2, <2>2 DEF TypeOK
  <2> HIDE DEF c, k, v
  <2>4. pending' \in [Threads ->
          [op : {"none", "update", "delete"}, conn : Conns \cup {Nil},
           key : Keys \cup {Nil}, zval : Zval]]
    BY <1>1, <1>2, <2>1 DEF TypeOK
  <2> QED
    BY <1>1, <1>2, <2>3, <2>4 DEF TypeOK
<1>6. CacheInv'
  <2>1. PendInv'
    <3> SUFFICES ASSUME NEW u \in Threads
                 PROVE  \/ pending'[u] = NothingPending
                        \/ /\ pending'[u].op # "none" /\ pending'[u].conn \in live'
                           /\ ThreadOf[pending'[u].conn] = u /\ pending'[u].key \in Keys
      BY DEF PendInv, NothingPending, Undef
    <3> QED
      BY <1>1, <1>4 DEF CacheInv, PendInv
  <2>2. TableInv'
    <3> SUFFICES ASSUME NEW d \in Conns, NEW q \in Keys, d \notin table'
                 PROVE  cache'[d][q] = Undef
      BY DEF TableInv, Undef
    <3> QED
      BY <1>1, <1>3 DEF CacheInv, TableInv
  <2>3. ClockInv'
    BY <1>1 DEF CacheInv, ClockInv
  <2> QED
    BY <1>5, <2>1, <2>2, <2>3 DEF CacheInv
<1>7. ASSUME NEW d \in Conns, NEW q \in Keys PROVE Entry(d, q)' = Entry(d, q)
  <2>1. ThreadOf[d] \in Threads
    BY ThreadOfAssumption
  <2>2. CASE ThreadOf[d] = t
    <3>1. pending'[ThreadOf[d]].op = "none" /\ pending[ThreadOf[d]].op # "none"
      BY <1>1, <1>4, <2>2
    <3>2. Entry(d, q)' = cache'[d][q]
      BY <3>1 DEF Entry
    <3>3. Entry(d, q) = IF d = c /\ q = k THEN v ELSE cache[d][q]
      BY <2>2, <3>1 DEF Entry
    <3> QED
      BY <1>3, <3>2, <3>3
  <2>3. CASE ThreadOf[d] # t
    <3>1. cache'[d][q] = cache[d][q] /\ pending'[ThreadOf[d]] = pending[ThreadOf[d]]
      BY <1>2, <1>3, <1>4, <2>1, <2>3
    <3> QED
      BY <3>1 DEF Entry
  <2> QED
    BY <2>2, <2>3
<1>8. ASSUME ReadInv PROVE ReadInv'
  <2>1. SyncInv'
    <3>1. ASSUME NEW d \in live', NEW q \in Keys, local'[d] = modcount'
          PROVE  Fits(Entry(d, q), shared[q])'
      <4>1. d \in live /\ d \in Conns /\ local[d] = modcount
        BY <1>1, <1>2, <3>1 DEF TypeOK
      <4>2. Fits(Entry(d, q), shared[q])
        BY <1>8, <4>1 DEF ReadInv, SyncInv
      <4>3. Entry(d, q)' = Entry(d, q)
        BY <1>7, <4>1
      <4> QED
        BY <1>1, <4>2, <4>3 DEF Fits, Undef, SameValue, IsText, WritesCacheable
    <3> QED
      BY <3>1 DEF SyncInv
  <2>2. KindInv'
    BY <1>1, <1>8 DEF ReadInv, KindInv, WritesCacheable
  <2> QED
    BY <1>6, <2>1, <2>2 DEF ReadInv
<1>9. ASSUME StringInv PROVE StringInv'
  <2>1. PtrInv'
    <3> SUFFICES ASSUME NEW u \in Threads, pending'[u].op # "none",
                        shared[pending'[u].key].kind = "string_ptr",
                        shared[pending'[u].key].owner = u
                 PROVE  /\ pending'[u].op = "update"
                        /\ pending'[u].zval = [kind |-> "string", id |-> shared[pending'[u].key].id]
      BY <1>1 DEF PtrInv
    <3>1. pending'[u] = pending[u]
      BY <1>4
    <3> QED
      BY <1>9, <3>1 DEF StringInv, PtrInv
  <2>2. NoDanglingString'
    <3> SUFFICES ASSUME NEW q \in Keys, shared[q].kind = "string_ptr"
                 PROVE  \E d \in live :
                          /\ ThreadOf[d] = shared[q].owner
                          /\ \/ cache'[d][q] = StringOf(shared[q])
                             \/ pending'[ThreadOf[d]] = Updates(d, q)
      BY <1>1 DEF NoDanglingString, StringOf, Updates
    <3>1. PICK d \in live :
            /\ ThreadOf[d] = shared[q].owner
            /\ \/ cache[d][q] = StringOf(shared[q])
               \/ pending[ThreadOf[d]] = Updates(d, q)
      BY <1>9 DEF StringInv, NoDanglingString, StringOf, Updates
    <3>2. d \in Conns /\ ThreadOf[d] \in Threads
      BY <1>2, ThreadOfAssumption DEF TypeOK
    <3>3. CASE ThreadOf[d] = t /\ q = k
      <4>1. shared[k].kind = "string_ptr" /\ shared[k].owner = t
        BY <3>1, <3>3
      <4>2. v = StringOf(shared[k])
        BY <1>1, <1>9, <4>1 DEF StringInv, PtrInv, StringOf
      <4>3. cache'[c][q] = StringOf(shared[q]) /\ ThreadOf[c] = shared[q].owner
        BY <1>2, <1>3, <3>3, <4>1, <4>2
      <4> QED
        BY <1>2, <4>3
    <3>4. CASE ~(ThreadOf[d] = t /\ q = k)
      <4>1. cache'[d][q] = cache[d][q]
        BY <1>2, <1>3, <3>2, <3>4
      <4>2. pending[ThreadOf[d]] = Updates(d, q) => pending'[ThreadOf[d]] = Updates(d, q)
        BY <1>4, <3>2, <3>4 DEF Updates
      <4> QED
        BY <3>1, <4>1, <4>2
    <3> QED
      BY <3>3, <3>4
  <2> QED
    BY <1>6, <2>1, <2>2 DEF StringInv
<1> QED
  BY <1>8, <1>9

LEMMA ConnectKeeps ==
  ASSUME NEW c \in Conns, Connect(c)
  PROVE  (ReadInv => ReadInv') /\ (StringInv => StringInv')
<1> SUFFICES ASSUME CacheInv PROVE (ReadInv => ReadInv') /\ (StringInv => StringInv')
  BY DEF ReadInv, StringInv
<1>1. /\ live' = live \cup {c} /\ local' = [local EXCEPT ![c] = -1]
      /\ UNCHANGED <<program, shared, modcount, cache, pending>>
      /\ table \subseteq table' /\ table' \subseteq table \cup {c}
  BY DEF Connect
<1>2. TypeOK
  BY DEF CacheInv
<1>3. \A d \in Conns : local'[d] = IF d = c THEN -1 ELSE local[d]
  BY <1>1, <1>2 DEF TypeOK
<1>4. CacheInv'
  <2>1. TypeOK'
    <3>1. -1 \in Int /\ modcount' \in Nat
      BY <1>1, <1>2 DEF TypeOK
    <3>2. local' \in [Conns -> Int]
      BY <1>1, <1>2, <3>1 DEF TypeOK
    <3> QED
      BY <1>1, <1>2, <3>1, <3>2 DEF TypeOK
  <2>2. PendInv'
    BY <1>1 DEF CacheInv, PendInv, NothingPending, Undef
  <2>3. TableInv'
    BY <1>1 DEF CacheInv, TableInv, Undef
  <2>4. ClockInv'
    <3> SUFFICES ASSUME NEW d \in Conns PROVE local'[d] <= modcount
      BY <1>1 DEF ClockInv
    <3>1. modcount \in Nat /\ local[d] <= modcount
      BY <1>2 DEF TypeOK, CacheInv, ClockInv
    <3> QED
      BY <1>3, <3>1
  <2> QED
    BY <2>1, <2>2, <2>3, <2>4 DEF CacheInv
<1>5. ASSUME ReadInv PROVE ReadInv'
  <2>1. SyncInv'
    <3>1. ASSUME NEW d \in live', NEW q \in Keys, local'[d] = modcount'
          PROVE  Fits(Entry(d, q), shared[q])'
      <4>1. d \in Conns /\ modcount' = modcount /\ modcount \in Nat
        BY <1>1, <1>2, <3>1 DEF TypeOK
      <4>2. local'[d] # -1
        BY <3>1, <4>1
      <4>3. d # c /\ local[d] = modcount
        BY <1>3, <3>1, <4>1, <4>2
      <4>4. Fits(Entry(d, q), shared[q])
        BY <1>1, <1>5, <3>1, <4>3 DEF ReadInv, SyncInv
      <4> QED
        BY <1>1, <4>4 DEF Entry, Fits, Undef, SameValue, IsText, WritesCacheable
    <3> QED
      BY <3>1 DEF SyncInv
  <2>2. KindInv'
    BY <1>1, <1>5 DEF ReadInv, KindInv, WritesCacheable
  <2> QED
    BY <1>4, <2>1, <2>2 DEF ReadInv
<1>6. ASSUME StringInv PROVE StringInv'
  <2>1. PtrInv'
    BY <1>1, <1>6 DEF StringInv, PtrInv
  <2>2. NoDanglingString'
    BY <1>1, <1>6 DEF StringInv, NoDanglingString
  <2> QED
    BY <1>4, <2>1, <2>2 DEF StringInv
<1> QED
  BY <1>5, <1>6

LEMMA FreeKeeps ==
  ASSUME NEW c \in Conns, Free(c)
  PROVE  (ReadInv => ReadInv') /\ (StringInv => StringInv')
<1> SUFFICES ASSUME CacheInv PROVE (ReadInv => ReadInv') /\ (StringInv => StringInv')
  BY DEF ReadInv, StringInv
<1> DEFINE t == ThreadOf[c]
           none == [k \in Keys |-> Undef]
<1>1. /\ c \in live /\ pending[t] = NothingPending /\ c \in program.frees
      /\ live' = live \ {c} /\ table' = table \ {c}
      /\ shared' = IF live = {c} THEN [k \in Keys |-> Missing] ELSE Persisted(t)
      /\ cache' = [cache EXCEPT ![c] = none]
      /\ UNCHANGED <<program, modcount, local, pending>>
  BY DEF Free, Ready
<1>2. TypeOK /\ t \in Threads /\ shared \in [Keys -> Storage]
      /\ Missing \in Storage /\ none \in [Keys -> Zval]
  BY StateFacts
<1>3. /\ \A d \in Conns : d # c => cache'[d] = cache[d]
      /\ \A k \in Keys : cache'[c][k] = Undef
  BY <1>1, <1>2 DEF TypeOK
<1>4. ASSUME NEW k \in Keys
      PROVE  /\ shared'[k] \in Storage
             /\ shared'[k].kind = "string_ptr" => shared'[k] = shared[k] /\ shared[k].owner # t
             /\ live # {c} /\ shared[k].kind = "object" => shared'[k] = shared[k]
  <2>1. shared[k] \in Storage
    BY <1>2
  <2>2. /\ HardCopy(shared[k]) \in Storage /\ HardCopy(shared[k]).kind # "string_ptr"
        /\ shared[k].kind # "string_ptr" => HardCopy(shared[k]) = shared[k]
    BY <2>1, HardCopyFacts
  <2>3. CASE live = {c}
    BY <1>1, <1>2, <2>3 DEF Missing
  <2>4. CASE live # {c}
    <3>1. shared'[k] = IF shared[k].kind = "string_ptr" /\ shared[k].owner = t
                         THEN HardCopy(shared[k]) ELSE shared[k]
      BY <1>1, <2>4 DEF Persisted
    <3> QED
      BY <2>1, <2>2, <3>1
  <2> QED
    BY <2>3, <2>4
<1>5. ASSUME NEW u \in Threads, pending[u] # NothingPending
      PROVE  pending[u].conn \in live' /\ u # t
  BY <1>1, <1>5 DEF CacheInv, PendInv
<1>6. CacheInv'
  <2>1. TypeOK'
    <3>1. shared' \in [Keys -> Storage]
      <4>1. shared' = [k \in Keys |-> shared'[k]]
        BY <1>1 DEF Persisted
      <4> QED
        BY <1>4, <4>1
    <3>2. cache' \in [Conns -> [Keys -> Zval]]
      BY <1>1, <1>2 DEF TypeOK
    <3> QED
      BY <1>1, <1>2, <3>1, <3>2 DEF TypeOK
  <2>2. PendInv'
    <3> SUFFICES ASSUME NEW u \in Threads
                 PROVE  \/ pending[u] = NothingPending
                        \/ /\ pending[u].op # "none" /\ pending[u].conn \in live'
                           /\ ThreadOf[pending[u].conn] = u /\ pending[u].key \in Keys
      BY <1>1 DEF PendInv, NothingPending, Undef
    <3> QED
      BY <1>5 DEF CacheInv, PendInv
  <2>3. TableInv'
    <3> SUFFICES ASSUME NEW d \in Conns, NEW q \in Keys, d \notin table'
                 PROVE  cache'[d][q] = Undef
      BY DEF TableInv, Undef
    <3> QED
      BY <1>1, <1>3 DEF CacheInv, TableInv
  <2>4. ClockInv'
    BY <1>1 DEF CacheInv, ClockInv
  <2> QED
    BY <2>1, <2>2, <2>3, <2>4 DEF CacheInv
<1>7. ~WritesCacheable /\ ~WritesCacheable'
  BY <1>1 DEF WritesCacheable
<1>8. ASSUME ReadInv PROVE ReadInv'
  <2>1. SyncInv'
    <3>1. ASSUME NEW d \in live', NEW q \in Keys, local'[d] = modcount'
          PROVE  Fits(Entry(d, q), shared[q])'
      <4>1. d \in live /\ d \in Conns /\ d # c /\ live # {c} /\ local[d] = modcount
        BY <1>1, <1>2, <3>1 DEF TypeOK
      <4>2. Fits(Entry(d, q), shared[q])
        BY <1>8, <4>1 DEF ReadInv, SyncInv
      <4>3. Entry(d, q)' = Entry(d, q)
        BY <1>1, <1>3, <4>1 DEF Entry
      <4>4. Fits(Entry(d, q), shared'[q])
        BY <1>4, <1>7, <4>1, <4>2 DEF Fits
      <4> QED
        BY <1>7, <4>3, <4>4 DEF Fits, Undef
    <3> QED
      BY <3>1 DEF SyncInv
  <2>2. KindInv'
    BY <1>7 DEF KindInv
  <2> QED
    BY <1>6, <2>1, <2>2 DEF ReadInv
<1>9. ASSUME StringInv PROVE StringInv'
  <2>1. PtrInv'
    <3> SUFFICES ASSUME NEW u \in Threads, pending[u].op # "none",
                        shared'[pending[u].key].kind = "string_ptr",
                        shared'[pending[u].key].owner = u
                 PROVE  /\ pending[u].op = "update"
                        /\ pending[u].zval = [kind |-> "string", id |-> shared'[pending[u].key].id]
      BY <1>1 DEF PtrInv
    <3>1. pending[u].key \in Keys
      BY DEF CacheInv, PendInv, NothingPending
    <3>2. shared'[pending[u].key] = shared[pending[u].key]
      BY <1>4, <3>1
    <3> QED
      BY <1>9, <3>2 DEF StringInv, PtrInv
  <2>2. NoDanglingString'
    <3> SUFFICES ASSUME NEW q \in Keys, shared'[q].kind = "string_ptr"
                 PROVE  \E d \in live' :
                          /\ ThreadOf[d] = shared'[q].owner
                          /\ \/ cache'[d][q] = StringOf(shared'[q])
                             \/ pending[ThreadOf[d]] = Updates(d, q)'
      BY <1>1 DEF NoDanglingString, StringOf, Updates
    <3>1. shared'[q] = shared[q] /\ shared[q].owner # t
      BY <1>4
    <3>2. PICK d \in live :
            /\ ThreadOf[d] = shared[q].owner
            /\ \/ cache[d][q] = StringOf(shared[q])
               \/ pending[ThreadOf[d]] = Updates(d, q)
      BY <1>9, <3>1 DEF StringInv, NoDanglingString, StringOf, Updates
    <3>3. d \in Conns /\ d # c /\ d \in live' /\ cache'[d] = cache[d]
      BY <1>1, <1>2, <1>3, <3>1, <3>2 DEF TypeOK
    <3>4. Updates(d, q)' = Updates(d, q)
      BY <3>1 DEF Updates, StringOf
    <3> QED
      BY <3>1, <3>2, <3>3, <3>4
  <2> QED
    BY <1>6, <2>1, <2>2 DEF StringInv
<1> QED
  BY <1>8, <1>9

-----------------------------------------------------------------------------
(* The invariants.                                                         *)

LEMMA StoreInit == Init => ReadInv /\ StringInv
<1> SUFFICES ASSUME Init PROVE ReadInv /\ StringInv
  OBVIOUS
<1>1. Undef \in Zval /\ Missing \in Storage /\ Missing.kind = "absent"
  BY DEF Undef, Zval, Missing, Storage
<1>2. PICK c \in program.conns : live = {c} /\ table \in SUBSET {c}
  BY DEF Init
<1>3. c \in Conns
  BY <1>2, ProgramsAssumption DEF Init, IsProgram
<1>4. -1 \in Int /\ 0 \in Nat /\ -1 <= 0 /\ -1 # 0
  OBVIOUS
<1>5. TypeOK
  <2>1. pending \in [Threads ->
          [op : {"none", "update", "delete"}, conn : Conns \cup {Nil},
           key : Keys \cup {Nil}, zval : Zval]]
    BY <1>1 DEF Init, NothingPending
  <2> QED
    BY <1>1, <1>2, <1>3, <1>4, <2>1 DEF Init, TypeOK
<1>6. PendInv /\ TableInv /\ ClockInv
  BY <1>4 DEF Init, PendInv, TableInv, ClockInv
<1>7. SyncInv
  <2>1. \A d \in live : local[d] # modcount
    BY <1>2, <1>3, <1>4 DEF Init
  <2> QED
    BY <2>1 DEF SyncInv
<1>8. KindInv /\ PtrInv /\ NoDanglingString
  <2>1. \A t \in Threads : pending[t].op = "none"
    BY DEF Init, NothingPending
  <2>2. \A k \in Keys : shared[k].kind = "absent"
    BY <1>1 DEF Init
  <2> QED
    BY <2>1, <2>2 DEF KindInv, PtrInv, NoDanglingString
<1> QED
  BY <1>5, <1>6, <1>7, <1>8 DEF ReadInv, StringInv, CacheInv

LEMMA StoreNext ==
  ASSUME [Next]_vars
  PROVE  (NoPlainWrites /\ ReadInv => ReadInv') /\ (StringInv => StringInv')
<1> DEFINE Goal == (NoPlainWrites /\ ReadInv => ReadInv') /\ (StringInv => StringInv')
<1>1. CASE UNCHANGED vars
  <2>1. /\ program' = program /\ shared' = shared /\ modcount' = modcount /\ live' = live
        /\ table' = table /\ cache' = cache /\ local' = local /\ pending' = pending
    BY <1>1 DEF vars
  <2>2. CacheInv => CacheInv'
    BY <2>1 DEF CacheInv, TypeOK, PendInv, TableInv, ClockInv, NothingPending, Undef
  <2>3. ReadInv => ReadInv'
    <3>1. SyncInv => SyncInv'
      BY <2>1 DEF SyncInv, Entry, Fits, Undef, SameValue, IsText, WritesCacheable
    <3> QED
      BY <2>1, <2>2, <3>1 DEF ReadInv, KindInv, WritesCacheable
  <2>4. StringInv => StringInv'
    BY <2>1, <2>2 DEF StringInv, PtrInv, NoDanglingString
  <2> QED
    BY <2>3, <2>4
<1>2. ASSUME NEW c \in Conns, StoreStep(c), CacheInv PROVE Goal
  <2>1. program \in Programs /\ program.keys \subseteq Keys
    BY <1>2, ProgramsAssumption DEF CacheInv, TypeOK, IsProgram
  <2>2. CASE \E k \in Keys : Read(c, k)
    BY <2>2, ReadKeeps
  <2>3. CASE \E k \in Keys : Delete(c, k)
    BY <2>3, DeleteKeeps
  <2>4. CASE \E k \in program.keys, s \in Written(ThreadOf[c]) : Write(c, k, s)
    BY <2>1, <2>4, WriteKeeps
  <2>5. CASE \E ks \in SUBSET Keys : Take(c, ks)
    BY <2>5, TakeKeeps
  <2>6. CASE \E src \in Sources(ThreadOf[c]), o \in BOOLEAN : Merge(c, src, o)
    BY <2>6, MergeKeeps
  <2>7. CASE Synchronized(c)
    BY <2>7, SynchronizedKeeps
  <2>8. CASE FullSync(c)
    BY <2>8, FullSyncKeeps
  <2>9. CASE ToHash(c)
    BY <2>9, ToHashKeeps
  <2>10. CASE Connect(c)
    BY <2>10, ConnectKeeps
  <2>11. CASE Free(c)
    BY <2>11, FreeKeeps
  <2> QED
    BY <1>2, <2>2, <2>3, <2>4, <2>5, <2>6, <2>7, <2>8, <2>9, <2>10, <2>11 DEF StoreStep
<1>3. CASE \E t \in Threads : Complete(t)
  BY <1>3, CompleteKeeps
<1>4. CASE Destroyed
  BY <1>1, <1>4 DEF Destroyed
<1>5. ~CacheInv => Goal
  BY DEF ReadInv, StringInv
<1> QED
  BY <1>1, <1>2, <1>3, <1>4, <1>5 DEF Next

LEMMA ReadInvCurrent == ReadInv => ReadsAreCurrent
<1> SUFFICES ASSUME ReadInv PROVE ReadsAreCurrent
  OBVIOUS
<1>1. CacheInv /\ TypeOK
  BY DEF ReadInv, CacheInv
<1>2. ASSUME NEW c \in live, NEW k \in Keys, Ready(c)
      PROVE  \/ SameValue(ReadResult(c, k), shared[k])
             \/ ~WritesCacheable /\ ReadResult(c, k).kind # "object"
  <2>1. c \in Conns /\ shared[k] \in Storage /\ pending[ThreadOf[c]] = NothingPending
    BY <1>1, <1>2 DEF TypeOK, Ready
  <2>2. SameValue(Restore(shared[k], ThreadOf[c]), shared[k])
    BY <2>1, RestoreSame
  <2>3. CASE c \in table /\ Synced(c)[k] # Undef
    <3>1. ReadResult(c, k) = Synced(c)[k]
      BY <2>3 DEF ReadResult
    <3>2. Fits(Synced(c)[k], shared[k])
      BY <2>1, SyncedFits
    <3>3. CASE WritesCacheable
      BY <2>3, <3>1, <3>2, <3>3 DEF Fits
    <3>4. CASE ~WritesCacheable
      BY <2>3, <3>1, <3>2, <3>4 DEF Fits, SameValue
    <3> QED
      BY <3>3, <3>4
  <2>4. CASE ~(c \in table /\ Synced(c)[k] # Undef)
    <3>1. ReadResult(c, k) = Restore(shared[k], ThreadOf[c])
      BY <2>4 DEF ReadResult
    <3> QED
      BY <2>2, <3>1
  <2> QED
    BY <2>3, <2>4
<1> QED
  BY <1>1, <1>2 DEF ReadsAreCurrent

\* Every string that the store of an object points to is held by a cache, or by
\* the stack, of the thread it belongs to, and that connection exists: neither
\* the unlocked second half of read(), write() and delete() nor a sync, a merge,
\* a dump or the end of a connection ever drops the last reference to it.
THEOREM StringsNeverDangle == Spec => []NoDanglingString
<1>1. Init => StringInv
  BY StoreInit
<1>2. StringInv /\ [Next]_vars => StringInv'
  BY StoreNext
<1>3. StringInv => NoDanglingString
  BY DEF StringInv
<1> QED
  BY <1>1, <1>2, <1>3, PTL DEF Spec

\* With any number of connections and threads, of programs that write no plain
\* values: a read gives the Threaded object that is stored, and whatever else
\* is stored where nothing but objects and strings by pointer is overwritten,
\* although caches are filled after pthreads_store_read has unlocked.
THEOREM ReadsAlwaysCurrent ==
  ASSUME NoPlainWrites
  PROVE  Spec => []ReadsAreCurrent
<1>1. Init => ReadInv
  BY StoreInit
<1>2. ReadInv /\ [Next]_vars => ReadInv'
  BY StoreNext
<1>3. ReadInv => ReadsAreCurrent
  BY ReadInvCurrent
<1> QED
  BY <1>1, <1>2, <1>3, PTL DEF Spec

=============================================================================

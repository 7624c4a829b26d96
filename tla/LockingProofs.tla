---------------------------- MODULE LockingProofs ----------------------------
(***************************************************************************)
(* The creator of a thread stands still while the thread copies its        *)
(* classes, the recursive locks are given back by who has taken them, and  *)
(* no group of threads of a disciplined program waits for its own members: *)
(* for every finite set of threads and objects and every program.          *)
(***************************************************************************)
EXTENDS Locking, FiniteSetTheorems, SequenceTheorems, WellFoundedInduction, TLAPS

Others == Threads \ {Main}

\* What a step of an operation may be.
Instr ==
  [do : {"lock", "unlock"}, on : Locks]
    \cup [do : {"create", "joined", "exit", "ready", "awaiting", "dead"}, on : Others]
    \cup [do : {"become"}, on : {"ready", "running", "dead"}]

\* How often a step takes the lock l; d counts that along an operation.
Takes(x, l) == IF x = Lock(l) THEN 1 ELSE IF x = Unlock(l) THEN -1 ELSE 0
Counts(s, l, d) ==
  /\ d \in [0 .. Len(s) -> Nat]
  /\ \A i \in 1 .. Len(s) : d[i] = d[i - 1] + Takes(s[i], l)

\* What is left of an operation never gives back more than is held.
Covered(s, l, n) == \E d : Counts(s, l, d) /\ d[0] <= n

Held(t, l) == IF holder[l] = t THEN depth[l] ELSE 0

\* A thread that has finished its PHP code.
Late == {"awaiting", "exiting", "dead"}

\* create is followed by the wait for READY and nothing else; EXIT is set only
\* after the wait for AWAIT_JOIN; a thread's life has one direction.
CreatesOne(s, t, creator, st) ==
  \A i \in 1 .. Len(s) : s[i].do = "create" =>
    /\ i + 1 = Len(s) /\ s[i + 1] = Ready(s[i].on)
    /\ creator[s[i].on] = t /\ st[s[i].on] = "unborn" /\ st[t] = "running"
ExitsAwaiting(s, st) ==
  \A i \in 1 .. Len(s) : s[i].do = "exit" =>
    st[s[i].on] \in Late \/ \E j \in 1 .. i - 1 : s[j] = Await(s[i].on)
BecomesInOrder(s, t, st) ==
  \A i \in 1 .. Len(s) : s[i].do = "become" =>
    \/ /\ s[i].on = "ready" /\ st[t] = "starting"
       /\ \A j \in i + 1 .. Len(s) : s[j] # Become("ready")
    \/ s[i].on = "running" /\ st[t] \in {"starting", "ready"} /\ i = Len(s)
    \/ s[i].on = "dead" /\ st[t] \in {"exiting", "dead"}

Follows(s, t, creator, st) ==
  s \in Seq(Instr) /\ CreatesOne(s, t, creator, st) /\ ExitsAwaiting(s, st) /\ BecomesInOrder(s, t, st)

CodeInv ==
  /\ \A t \in Threads : Follows(code[t], t, program.creator, stage)
  /\ \A t \in Threads : stage[t] = "unborn" => code[t] = << >>

CoverInv == \A t \in Threads, l \in Locks : Covered(code[t], l, Held(t, l))

StartInv ==
  \A c \in Others : stage[c] = "starting" =>
    stage[program.creator[c]] = "running" /\ code[program.creator[c]] = <<Ready(c)>>

\* A thread that is about to give a lock back is its owner.
UnlocksOwned ==
  \A t \in Threads, l \in Locks :
    code[t] # << >> /\ Head(code[t]) = Unlock(l) => holder[l] = t /\ depth[l] >= 1

LockInv == TypeOK /\ DOMAIN code = Threads /\ CodeInv /\ CoverInv /\ StartInv

-----------------------------------------------------------------------------
(* Counting locks along an operation.                                      *)

\* From a holds to b of them.
Goes(s, l, a, b) == \E d : Counts(s, l, d) /\ d[0] = a /\ d[Len(s)] = b

LEMMA TakesIs == \A x, l : Takes(x, l) \in {-1, 0, 1}
  BY DEF Takes

LEMMA TakesPair ==
  ASSUME NEW l, NEW k
  PROVE  \E n \in {0, 1} : Takes(Lock(l), k) = n /\ Takes(Unlock(l), k) = 0 - n
<1>0. Lock(l).do = "lock" /\ Unlock(l).do = "unlock"
  BY DEF Lock, Unlock
<1>1. CASE l = k
  <2>1. Takes(Lock(l), k) = 1 /\ Takes(Unlock(l), k) = -1
    BY <1>0, <1>1 DEF Takes
  <2> QED
    BY <2>1
<1>2. CASE l # k
  <2>1. Lock(l) # Lock(k) /\ Unlock(l) # Unlock(k) /\ Lock(l) # Unlock(k) /\ Unlock(l) # Lock(k)
    BY <1>2 DEF Lock, Unlock
  <2>2. Takes(Lock(l), k) = 0 /\ Takes(Unlock(l), k) = 0
    BY <2>1 DEF Takes
  <2>3. 0 - 0 = 0 /\ 0 \in {0, 1}
    OBVIOUS
  <2> QED
    BY <2>2, <2>3, Zenon
<1> QED
  BY <1>1, <1>2

LEMMA GoesNone ==
  ASSUME NEW l, NEW a \in Nat
  PROVE  Goes(<< >>, l, a, a)
<1>1. PICK e : e = << >>
  OBVIOUS
<1>2. Len(e) = 0
  BY <1>1
<1> DEFINE d == [i \in 0 .. 0 |-> a]
<1>3. d \in [0 .. Len(e) -> Nat] /\ d[0] = a /\ d[Len(e)] = a
  BY <1>2
<1>4. \A i \in 1 .. Len(e) : d[i] = d[i - 1] + Takes(e[i], l)
  BY <1>2
<1>5. Counts(e, l, d)
  BY <1>3, <1>4 DEF Counts
<1> QED
  BY <1>1, <1>3, <1>5 DEF Goes

LEMMA GoesOne ==
  ASSUME NEW x, NEW l, NEW a \in Nat, NEW b \in Nat, b = a + Takes(x, l)
  PROVE  Goes(<<x>>, l, a, b)
<1>1. PICK s : s = <<x>>
  OBVIOUS
<1>2. Len(s) = 1 /\ s[1] = x
  BY <1>1
<1> DEFINE d == [i \in 0 .. 1 |-> IF i = 0 THEN a ELSE b]
<1>3. d \in [0 .. Len(s) -> Nat] /\ d[0] = a /\ d[1] = b
  BY <1>2
<1>4. \A i \in 1 .. Len(s) : d[i] = d[i - 1] + Takes(s[i], l)
  BY <1>2, <1>3
<1>5. Counts(s, l, d)
  BY <1>3, <1>4 DEF Counts
<1> QED
  BY <1>1, <1>2, <1>3, <1>5 DEF Goes

LEMMA GoesFurther ==
  ASSUME NEW s \in Seq(Instr), NEW l, NEW a \in Nat, NEW b \in Nat, Goes(s, l, a, b), NEW n \in Nat
  PROVE  Goes(s, l, a + n, b + n)
<1>1. Len(s) \in Nat
  BY LenProperties
<1>2. PICK d : Counts(s, l, d) /\ d[0] = a /\ d[Len(s)] = b
  BY DEF Goes
<1>3. d \in [0 .. Len(s) -> Nat] /\ \A i \in 1 .. Len(s) : d[i] = d[i - 1] + Takes(s[i], l)
  BY <1>2 DEF Counts
<1> DEFINE e == [i \in 0 .. Len(s) |-> d[i] + n]
<1>4. e \in [0 .. Len(s) -> Nat]
  BY <1>3
<1>5. 0 \in 0 .. Len(s) /\ Len(s) \in 0 .. Len(s)
  BY <1>1
<1>6. e[0] = a + n /\ e[Len(s)] = b + n
  BY <1>2, <1>5
<1>7. ASSUME NEW i \in 1 .. Len(s) PROVE e[i] = e[i - 1] + Takes(s[i], l)
  <2>1. i \in 0 .. Len(s) /\ i - 1 \in 0 .. Len(s)
    BY <1>1
  <2>2. e[i] = d[i] + n /\ e[i - 1] = d[i - 1] + n /\ d[i] \in Nat /\ d[i - 1] \in Nat
    BY <1>3, <2>1
  <2>3. d[i] = d[i - 1] + Takes(s[i], l) /\ Takes(s[i], l) \in Int
    BY <1>3, TakesIs
  <2> QED
    BY <2>2, <2>3
<1> HIDE DEF e
<1>8. Counts(s, l, e)
  BY <1>4, <1>7 DEF Counts
<1> QED
  BY <1>6, <1>8 DEF Goes

LEMMA GoesOn ==
  ASSUME NEW s \in Seq(Instr), NEW u \in Seq(Instr), NEW l, NEW a, NEW b, NEW c,
         Goes(s, l, a, b), Goes(u, l, b, c)
  PROVE  Goes(s \o u, l, a, c)
<1>1. Len(s) \in Nat /\ Len(u) \in Nat
  BY LenProperties
<1>2. PICK d : Counts(s, l, d) /\ d[0] = a /\ d[Len(s)] = b
  BY DEF Goes
<1>3. PICK e : Counts(u, l, e) /\ e[0] = b /\ e[Len(u)] = c
  BY DEF Goes
<1>4. /\ d \in [0 .. Len(s) -> Nat] /\ \A i \in 1 .. Len(s) : d[i] = d[i - 1] + Takes(s[i], l)
      /\ e \in [0 .. Len(u) -> Nat] /\ \A i \in 1 .. Len(u) : e[i] = e[i - 1] + Takes(u[i], l)
  BY <1>2, <1>3 DEF Counts
<1>5. PICK w : w = s \o u
  OBVIOUS
<1>6. /\ Len(w) = Len(s) + Len(u)
      /\ \A i \in 1 .. Len(s) + Len(u) : w[i] = IF i <= Len(s) THEN s[i] ELSE u[i - Len(s)]
  BY <1>5, ConcatProperties
<1> DEFINE f == [i \in 0 .. Len(s) + Len(u) |-> IF i <= Len(s) THEN d[i] ELSE e[i - Len(s)]]
<1>7. f \in [0 .. Len(s) + Len(u) -> Nat]
  <2>1. \A i \in 0 .. Len(s) + Len(u) :
          IF i <= Len(s) THEN i \in 0 .. Len(s) ELSE i - Len(s) \in 0 .. Len(u)
    BY <1>1
  <2> QED
    BY <1>4, <2>1
<1>8. f[0] = a /\ f[Len(s) + Len(u)] = c
  <2>1. 0 \in 0 .. Len(s) + Len(u) /\ Len(s) + Len(u) \in 0 .. Len(s) + Len(u) /\ 0 <= Len(s)
    BY <1>1
  <2>2. CASE Len(u) = 0
    BY <1>1, <1>2, <1>3, <2>1, <2>2
  <2>3. CASE Len(u) # 0
    <3>1. ~(Len(s) + Len(u) <= Len(s)) /\ Len(s) + Len(u) - Len(s) = Len(u)
      BY <1>1, <2>3
    <3> QED
      BY <1>2, <1>3, <2>1, <3>1
  <2> QED
    BY <2>2, <2>3
<1>9. ASSUME NEW i \in 1 .. Len(s) + Len(u) PROVE f[i] = f[i - 1] + Takes(w[i], l)
  <2>1. i \in 0 .. Len(s) + Len(u) /\ i - 1 \in 0 .. Len(s) + Len(u)
    BY <1>1
  <2>2. CASE i <= Len(s)
    <3>1. i \in 1 .. Len(s) /\ i - 1 <= Len(s)
      BY <1>1, <2>2
    <3> QED
      BY <1>4, <1>6, <2>1, <2>2, <3>1
  <2>3. CASE ~(i <= Len(s)) /\ i - 1 <= Len(s)
    <3>1. i - 1 = Len(s) /\ i - Len(s) = 1 /\ 1 \in 1 .. Len(u) /\ 1 - 1 = 0
      BY <1>1, <2>3
    <3>2. f[i - 1] = e[0] /\ f[i] = e[1] /\ w[i] = u[1]
      BY <1>2, <1>3, <1>6, <2>1, <2>3, <3>1
    <3> QED
      BY <1>4, <3>1, <3>2
  <2>4. CASE ~(i - 1 <= Len(s))
    <3>1. i - Len(s) \in 1 .. Len(u) /\ ~(i <= Len(s)) /\ (i - 1) - Len(s) = (i - Len(s)) - 1
      BY <1>1, <2>4
    <3>2. f[i - 1] = e[(i - Len(s)) - 1] /\ f[i] = e[i - Len(s)] /\ w[i] = u[i - Len(s)]
      BY <1>6, <2>1, <2>4, <3>1
    <3> QED
      BY <1>4, <3>1, <3>2
  <2> QED
    BY <2>2, <2>3, <2>4
<1> HIDE DEF f
<1>10. Counts(w, l, f)
  BY <1>6, <1>7, <1>9 DEF Counts
<1> QED
  BY <1>5, <1>6, <1>8, <1>10 DEF Goes

\* The first step leaves an operation that is covered by what it leaves.
LEMMA CoveredNext ==
  ASSUME NEW s \in Seq(Instr), s # << >>, NEW l, NEW n \in Nat, Covered(s, l, n)
  PROVE  n + Takes(s[1], l) \in Nat /\ Covered(Tail(s), l, n + Takes(s[1], l))
<1>1. Len(s) \in Nat /\ Len(s) >= 1
  BY EmptySeq, LenProperties
<1>2. PICK u : u = Tail(s)
  OBVIOUS
<1>3. Len(u) = Len(s) - 1 /\ \A i \in 1 .. Len(u) : u[i] = s[i + 1]
  BY <1>2, HeadTailProperties
<1>4. PICK d : Counts(s, l, d) /\ d[0] <= n
  BY DEF Covered
<1>5. d \in [0 .. Len(s) -> Nat] /\ \A i \in 1 .. Len(s) : d[i] = d[i - 1] + Takes(s[i], l)
  BY <1>4 DEF Counts
<1>6. 1 \in 1 .. Len(s) /\ 1 - 1 = 0 /\ 0 \in 0 .. Len(s) /\ 1 \in 0 .. Len(s)
  BY <1>1
<1>7. d[1] = d[0] + Takes(s[1], l) /\ d[0] \in Nat /\ d[1] \in Nat /\ Takes(s[1], l) \in Int
  BY <1>5, <1>6, TakesIs
<1>8. n + Takes(s[1], l) \in Nat /\ d[1] <= n + Takes(s[1], l)
  BY <1>4, <1>7
<1> DEFINE e == [i \in 0 .. Len(u) |-> d[i + 1]]
<1>9. \A i \in 0 .. Len(u) : i + 1 \in 0 .. Len(s)
  BY <1>1, <1>3
<1>10. e \in [0 .. Len(u) -> Nat] /\ e[0] = d[1]
  <2>1. 0 \in 0 .. Len(u) /\ 0 + 1 = 1
    BY <1>1, <1>3
  <2> QED
    BY <1>5, <1>9, <2>1
<1>11. ASSUME NEW i \in 1 .. Len(u) PROVE e[i] = e[i - 1] + Takes(u[i], l)
  <2>1. i \in 0 .. Len(u) /\ i - 1 \in 0 .. Len(u) /\ i + 1 \in 1 .. Len(s) /\ (i - 1) + 1 = i
        /\ (i + 1) - 1 = i
    BY <1>1, <1>3
  <2>2. e[i] = d[i + 1] /\ e[i - 1] = d[i] /\ u[i] = s[i + 1]
    BY <1>3, <2>1
  <2> QED
    BY <1>5, <2>1, <2>2
<1> HIDE DEF e
<1>12. Counts(u, l, e)
  BY <1>10, <1>11 DEF Counts
<1> QED
  BY <1>2, <1>8, <1>10, <1>12 DEF Covered

LEMMA CoveredMore ==
  ASSUME NEW s, NEW l, NEW n \in Nat, NEW m \in Nat, n <= m, s \in Seq(Instr), Covered(s, l, n)
  PROVE  Covered(s, l, m)
<1>1. PICK d : Counts(s, l, d) /\ d[0] <= n
  BY DEF Covered
<1>2. Len(s) \in Nat /\ 0 \in 0 .. Len(s)
  BY LenProperties
<1>3. d[0] \in Nat
  BY <1>1, <1>2 DEF Counts
<1>4. d[0] <= m
  BY <1>1, <1>3
<1> QED
  BY <1>1, <1>4 DEF Covered

-----------------------------------------------------------------------------
(* Operations without create and become: they take and give back the same  *)
(* locks, and set EXIT of threads that they have waited for, or of A.      *)

Good(s, A) ==
  /\ s \in Seq(Instr)
  /\ \A l \in Locks : Goes(s, l, 0, 0)
  /\ \A i \in 1 .. Len(s) :
       /\ s[i].do \notin {"create", "become"}
       /\ s[i].do = "exit" => s[i].on \in A \/ \E j \in 1 .. i - 1 : s[j] = Await(s[i].on)

LEMMA GoodNone ==
  ASSUME NEW A
  PROVE  Good(<< >>, A)
<1>1. PICK e : e = << >>
  OBVIOUS
<1>2. e \in Seq(Instr) /\ Len(e) = 0
  BY <1>1, EmptySeq
<1>3. \A l \in Locks : Goes(e, l, 0, 0)
  BY <1>1, GoesNone
<1>4. \A i : i \notin 1 .. Len(e)
  BY <1>2
<1> QED
  BY <1>1, <1>2, <1>3, <1>4, Zenon DEF Good

LEMMA GoodConcat ==
  ASSUME NEW s, NEW u, NEW A, NEW B, Good(s, A), Good(u, B),
         \A c \in B : c \in A \/ \E j \in 1 .. Len(s) : s[j] = Await(c)
  PROVE  Good(s \o u, A)
<1>1. s \in Seq(Instr) /\ u \in Seq(Instr) /\ Len(s) \in Nat /\ Len(u) \in Nat
  BY LenProperties DEF Good
<1>2. PICK w : w = s \o u
  OBVIOUS
<1>3. /\ w \in Seq(Instr) /\ Len(w) = Len(s) + Len(u)
      /\ \A i \in 1 .. Len(s) + Len(u) : w[i] = IF i <= Len(s) THEN s[i] ELSE u[i - Len(s)]
  BY <1>1, <1>2, ConcatProperties
<1>4. \A l \in Locks : Goes(w, l, 0, 0)
  BY <1>1, <1>2, GoesOn DEF Good
<1>5. ASSUME NEW i \in 1 .. Len(w)
      PROVE  /\ w[i].do \notin {"create", "become"}
             /\ w[i].do = "exit" => w[i].on \in A \/ \E j \in 1 .. i - 1 : w[j] = Await(w[i].on)
  <2>1. i \in 1 .. Len(s) + Len(u)
    BY <1>3
  <2>2. CASE i <= Len(s)
    <3>1. i \in 1 .. Len(s) /\ w[i] = s[i] /\ \A j \in 1 .. i - 1 : w[j] = s[j]
      BY <1>1, <1>3, <2>1, <2>2
    <3> QED
      BY <3>1 DEF Good
  <2>3. CASE ~(i <= Len(s))
    <3>1. i - Len(s) \in 1 .. Len(u) /\ w[i] = u[i - Len(s)]
      BY <1>1, <1>3, <2>1, <2>3
    <3>2. \A j \in 1 .. (i - Len(s)) - 1 : j + Len(s) \in 1 .. i - 1 /\ w[j + Len(s)] = u[j]
      <4> SUFFICES ASSUME NEW j \in 1 .. (i - Len(s)) - 1
                   PROVE  j + Len(s) \in 1 .. i - 1 /\ w[j + Len(s)] = u[j]
        OBVIOUS
      <4>1. /\ j + Len(s) \in 1 .. i - 1 /\ j + Len(s) \in 1 .. Len(s) + Len(u)
            /\ ~(j + Len(s) <= Len(s)) /\ (j + Len(s)) - Len(s) = j
        BY <1>1, <2>1, <2>3
      <4> QED
        BY <1>3, <4>1
    <3>3. \A j \in 1 .. Len(s) : j \in 1 .. i - 1 /\ w[j] = s[j]
      BY <1>1, <1>3, <2>1, <2>3
    <3>4. w[i].do \notin {"create", "become"}
      BY <3>1 DEF Good
    <3>5. ASSUME w[i].do = "exit"
          PROVE  w[i].on \in A \/ \E j \in 1 .. i - 1 : w[j] = Await(w[i].on)
      <4>1. w[i].on \in B \/ \E j \in 1 .. (i - Len(s)) - 1 : u[j] = Await(w[i].on)
        BY <3>1, <3>5 DEF Good
      <4> QED
        BY <3>2, <3>3, <4>1
    <3> QED
      BY <3>4, <3>5
  <2> QED
    BY <2>2, <2>3
<1> QED
  BY <1>2, <1>3, <1>4, <1>5 DEF Good

LEMMA GoodTwo ==
  ASSUME NEW s, NEW u, Good(s, {}), Good(u, {})
  PROVE  Good(s \o u, {})
  BY GoodConcat

LEMMA InstrOne ==
  ASSUME NEW x \in Instr
  PROVE  <<x>> \in Seq(Instr) /\ Len(<<x>>) = 1 /\ <<x>>[1] = x
  OBVIOUS

\* Concatenations of tuples, written as one tuple.
LEMMA AppendOne ==
  ASSUME NEW s \in Seq(Instr), NEW u \in Seq(Instr), NEW x \in Instr, Len(u) = Len(s) + 1,
         \A i \in 1 .. Len(s) : u[i] = s[i], u[Len(s) + 1] = x
  PROVE  s \o <<x>> = u
<1>1. Len(s) \in Nat
  BY LenProperties
<1>2. PICK a : a = <<x>>
  OBVIOUS
<1>3. a \in Seq(Instr) /\ Len(a) = 1 /\ a[1] = x
  BY <1>2, InstrOne
<1>4. PICK w : w = s \o a
  OBVIOUS
<1>5. /\ w \in Seq(Instr) /\ Len(w) = Len(s) + Len(a)
      /\ \A i \in 1 .. Len(s) + Len(a) : w[i] = IF i <= Len(s) THEN s[i] ELSE a[i - Len(s)]
  BY <1>3, <1>4, ConcatProperties
<1>6. Len(w) = Len(u) /\ Len(w) = Len(s) + 1
  BY <1>3, <1>5
<1>7. ASSUME NEW i \in 1 .. Len(u) PROVE w[i] = u[i]
  <2>1. CASE i <= Len(s)
    <3>1. i \in 1 .. Len(s) /\ i \in 1 .. Len(s) + Len(a)
      BY <1>1, <1>3, <2>1
    <3> QED
      BY <1>5, <2>1, <3>1
  <2>2. CASE ~(i <= Len(s))
    <3>1. i = Len(s) + 1 /\ i - Len(s) = 1 /\ i \in 1 .. Len(s) + Len(a)
      BY <1>1, <1>3, <2>2
    <3> QED
      BY <1>3, <1>5, <2>2, <3>1
  <2> QED
    BY <2>1, <2>2
<1>8. w = u
  BY <1>5, <1>6, <1>7, SeqEqual
<1> QED
  BY <1>2, <1>4, <1>8

LEMMA TupleTwo ==
  ASSUME NEW x \in Instr, NEW y \in Instr
  PROVE  (<<x>> \o << >>) \o <<y>> = <<x, y>> /\ <<x>> \o <<y>> = <<x, y>>
<1>1. <<x>> \in Seq(Instr) /\ Len(<<x>>) = 1 /\ <<x>>[1] = x
  BY InstrOne
<1>2. PICK u : u = <<x, y>>
  OBVIOUS
<1>3. u \in Seq(Instr) /\ Len(u) = 2 /\ u[1] = x /\ u[2] = y
  BY <1>2
<1>4. Len(u) = Len(<<x>>) + 1 /\ u[Len(<<x>>) + 1] = y
  BY <1>1, <1>3
<1>5. \A i \in 1 .. Len(<<x>>) : u[i] = <<x>>[i]
  BY <1>1, <1>3
<1>6. <<x>> \o <<y>> = u
  BY <1>1, <1>3, <1>4, <1>5, AppendOne
<1>7. <<x>> \o << >> = <<x>>
  BY <1>1, ConcatEmptySeq
<1> QED
  BY <1>2, <1>6, <1>7

LEMMA TupleThree ==
  ASSUME NEW x \in Instr, NEW y \in Instr, NEW z \in Instr
  PROVE  (<<x>> \o <<y>>) \o <<z>> = <<x, y, z>>
<1>1. PICK s : s = <<x, y>>
  OBVIOUS
<1>2. s \in Seq(Instr) /\ Len(s) = 2 /\ s[1] = x /\ s[2] = y
  BY <1>1
<1>3. PICK u : u = <<x, y, z>>
  OBVIOUS
<1>4. u \in Seq(Instr) /\ Len(u) = 3 /\ u[1] = x /\ u[2] = y /\ u[3] = z
  BY <1>3
<1>5. Len(u) = Len(s) + 1 /\ u[Len(s) + 1] = z
  BY <1>2, <1>4
<1>6. \A i \in 1 .. Len(s) : u[i] = s[i]
  BY <1>2, <1>4
<1>7. s \o <<z>> = u
  BY <1>2, <1>4, <1>5, <1>6, AppendOne
<1> QED
  BY <1>1, <1>3, <1>7, TupleTwo

LEMMA TupleFour ==
  ASSUME NEW x \in Instr, NEW y \in Instr, NEW z \in Instr, NEW v \in Instr
  PROVE  ((<<x>> \o <<y>>) \o <<z>>) \o <<v>> = <<x, y, z, v>>
<1>1. PICK s : s = <<x, y, z>>
  OBVIOUS
<1>2. s \in Seq(Instr) /\ Len(s) = 3 /\ s[1] = x /\ s[2] = y /\ s[3] = z
  BY <1>1
<1>3. PICK u : u = <<x, y, z, v>>
  OBVIOUS
<1>4. u \in Seq(Instr) /\ Len(u) = 4 /\ u[1] = x /\ u[2] = y /\ u[3] = z /\ u[4] = v
  BY <1>3
<1>5. Len(u) = Len(s) + 1 /\ u[Len(s) + 1] = v
  BY <1>2, <1>4
<1>6. \A i \in 1 .. Len(s) : u[i] = s[i]
  BY <1>2, <1>4
<1>7. s \o <<v>> = u
  BY <1>2, <1>4, <1>5, <1>6, AppendOne
<1>8. (((<<x>> \o <<y>>) \o <<z>>)) \o <<v>> = u
  BY <1>1, <1>7, TupleThree
<1> QED
  BY <1>3, <1>8

LEMMA TuplePairs ==
  ASSUME NEW x \in Instr, NEW y \in Instr, NEW z \in Instr, NEW v \in Instr
  PROVE  <<x, y>> \o <<z, v>> = <<x, y, z, v>>
<1>1. <<x, y>> \in Seq(Instr) /\ <<z>> \in Seq(Instr) /\ <<v>> \in Seq(Instr)
  OBVIOUS
<1>2. (<<x, y>> \o <<z>>) \o <<v>> = <<x, y>> \o (<<z>> \o <<v>>)
  BY <1>1, ConcatAssociative
<1>3. <<x>> \o <<y>> = <<x, y>> /\ <<z>> \o <<v>> = <<z, v>>
  BY TupleTwo
<1>4. ((<<x>> \o <<y>>) \o <<z>>) \o <<v>> = <<x, y, z, v>>
  BY TupleFour
<1> QED
  BY <1>2, <1>3, <1>4

\* Steps that touch no lock.
LEMMA GoodOne ==
  ASSUME NEW A, NEW c \in Others,
         NEW x \in [do : {"joined", "exit", "ready", "awaiting", "dead"}, on : {c}],
         x.do = "exit" => c \in A
  PROVE  Good(<<x>>, A)
<1>1. x \in Instr /\ x.on = c /\ x.do \in {"joined", "exit", "ready", "awaiting", "dead"}
  BY DEF Instr
<1>2. PICK s : s = <<x>>
  OBVIOUS
<1>3. s \in Seq(Instr) /\ Len(s) = 1 /\ s[1] = x
  BY <1>1, <1>2, InstrOne
<1>4. \A l \in Locks : Takes(x, l) = 0
  BY <1>1 DEF Takes, Lock, Unlock
<1>5. \A l \in Locks : Goes(s, l, 0, 0)
  BY <1>2, <1>4, GoesOne
<1>6. \A i \in 1 .. Len(s) : i = 1
  BY <1>3
<1> QED
  BY <1>1, <1>2, <1>3, <1>5, <1>6 DEF Good

LEMMA GoodWithin ==
  ASSUME NEW l \in Locks, NEW A, NEW s, Good(s, A)
  PROVE  Good(Within(l, s), A)
<1>1. Lock(l) \in Instr /\ Unlock(l) \in Instr /\ Lock(l).do = "lock" /\ Unlock(l).do = "unlock"
  BY DEF Instr, Lock, Unlock
<1>2. PICK a, b : a = <<Lock(l)>> /\ b = <<Unlock(l)>>
  OBVIOUS
<1>3. /\ a \in Seq(Instr) /\ Len(a) = 1 /\ a[1] = Lock(l)
      /\ b \in Seq(Instr) /\ Len(b) = 1 /\ b[1] = Unlock(l)
  BY <1>1, <1>2, InstrOne
<1>4. s \in Seq(Instr) /\ Len(s) \in Nat
  BY LenProperties DEF Good
<1>5. PICK v, w : v = a \o s /\ w = v \o b
  OBVIOUS
<1>6. Within(l, s) = w
  BY <1>2, <1>5 DEF Within
<1>7. /\ v \in Seq(Instr) /\ Len(v) = 1 + Len(s)
      /\ \A i \in 1 .. 1 + Len(s) : v[i] = IF i <= 1 THEN a[i] ELSE s[i - 1]
  <2>1. /\ v \in Seq(Instr) /\ Len(v) = Len(a) + Len(s)
        /\ \A i \in 1 .. Len(a) + Len(s) : v[i] = IF i <= Len(a) THEN a[i] ELSE s[i - Len(a)]
    BY <1>3, <1>4, <1>5, ConcatProperties
  <2> QED
    BY <1>3, <2>1
<1>8. /\ w \in Seq(Instr) /\ Len(w) = Len(s) + 2
      /\ \A i \in 1 .. Len(s) + 2 :
           w[i] = IF i <= 1 + Len(s) THEN v[i] ELSE b[i - (1 + Len(s))]
  <2>1. /\ w \in Seq(Instr) /\ Len(w) = Len(v) + 1
        /\ \A i \in 1 .. Len(v) + 1 : w[i] = IF i <= Len(v) THEN v[i] ELSE b[i - Len(v)]
    BY <1>3, <1>5, <1>7, ConcatProperties
  <2> QED
    BY <1>4, <1>7, <2>1
<1>9. ASSUME NEW k \in Locks PROVE Goes(w, k, 0, 0)
  <2>1. PICK n \in {0, 1} : Takes(Lock(l), k) = n /\ Takes(Unlock(l), k) = 0 - n
    BY TakesPair
  <2>2. 0 \in Nat /\ n \in Nat /\ n = 0 + Takes(Lock(l), k) /\ 0 = n + Takes(Unlock(l), k)
        /\ 0 + n = n
    BY <2>1
  <2>3. Goes(a, k, 0, n) /\ Goes(b, k, n, 0)
    BY <1>2, <2>2, GoesOne
  <2>4. Goes(s, k, 0, 0)
    BY DEF Good
  <2>5. Goes(s, k, n, n)
    <3>1. Goes(s, k, 0 + n, 0 + n)
      BY <1>4, <2>2, <2>4, GoesFurther
    <3> QED
      BY <2>2, <3>1
  <2>6. Goes(v, k, 0, n)
    BY <1>3, <1>4, <1>5, <2>3, <2>5, GoesOn
  <2> QED
    BY <1>3, <1>5, <1>7, <2>3, <2>6, GoesOn
<1>10. ASSUME NEW i \in 1 .. Len(w)
       PROVE  /\ w[i].do \notin {"create", "become"}
              /\ w[i].do = "exit" => w[i].on \in A \/ \E j \in 1 .. i - 1 : w[j] = Await(w[i].on)
  <2>1. CASE i = 1
    <3>1. w[i] = Lock(l)
      BY <1>3, <1>4, <1>7, <1>8, <2>1
    <3> QED
      BY <1>1, <3>1
  <2>2. CASE i = Len(s) + 2
    <3>1. ~(i <= 1 + Len(s)) /\ i - (1 + Len(s)) = 1 /\ i \in 1 .. Len(s) + 2
      BY <1>4, <2>2
    <3>2. w[i] = Unlock(l)
      BY <1>3, <1>8, <3>1
    <3> QED
      BY <1>1, <3>2
  <2>3. CASE i # 1 /\ i # Len(s) + 2
    <3>1. i - 1 \in 1 .. Len(s) /\ i \in 1 .. Len(s) + 2 /\ i \in 1 .. 1 + Len(s) /\ ~(i <= 1)
      BY <1>4, <1>8, <2>3
    <3>2. w[i] = s[i - 1]
      BY <1>7, <1>8, <3>1
    <3>3. \A j \in 1 .. (i - 1) - 1 : j + 1 \in 1 .. i - 1 /\ w[j + 1] = s[j]
      <4> SUFFICES ASSUME NEW j \in 1 .. (i - 1) - 1
                   PROVE  j + 1 \in 1 .. i - 1 /\ w[j + 1] = s[j]
        OBVIOUS
      <4>1. /\ j + 1 \in 1 .. i - 1 /\ j + 1 \in 1 .. Len(s) + 2 /\ j + 1 \in 1 .. 1 + Len(s)
            /\ ~(j + 1 <= 1) /\ (j + 1) - 1 = j /\ j + 1 <= 1 + Len(s)
        BY <1>4, <3>1
      <4> QED
        BY <1>7, <1>8, <4>1
    <3>4. /\ s[i - 1].do \notin {"create", "become"}
          /\ s[i - 1].do = "exit" =>
               s[i - 1].on \in A \/ \E j \in 1 .. (i - 1) - 1 : s[j] = Await(s[i - 1].on)
      BY <3>1 DEF Good
    <3> QED
      BY <3>2, <3>3, <3>4
  <2> QED
    BY <2>1, <2>2, <2>3
<1> QED
  BY <1>6, <1>8, <1>9, <1>10 DEF Good

-----------------------------------------------------------------------------
(* Each: one operation after the other.                                    *)

LEMMA LeastNatural ==
  ASSUME NEW T \in SUBSET Nat, T # {}
  PROVE  \E m \in T : \A k \in T : m <= k
<1>1. PICK m \in T : \A k \in T : <<k, m>> \notin OpToRel(<, Nat)
  BY WFMin, NatLessThanWellFounded, Zenon
<1>2. \A k \in T : ~(k < m)
  BY <1>1, Zenon DEF OpToRel
<1> QED
  BY <1>2

\* A set of sequences that is closed under concatenation.
Closed(C, ss, n) ==
  /\ n \in Nat \ {0} /\ \A i \in 1 .. n : ss[i] \in C
  /\ \A x, y \in C : x \o y \in C

Joins(F, ss, n) == \A k \in 1 .. n : F[k] = IF k = 1 THEN ss[k] ELSE F[k - 1] \o ss[k]

LEMMA JoinsExists ==
  ASSUME NEW C, NEW ss, NEW n, Closed(C, ss, n)
  PROVE  \E F \in [1 .. n -> C] : Joins(F, ss, n)
<1> n \in Nat \ {0} /\ (\A i \in 1 .. n : ss[i] \in C) /\ \A x, y \in C : x \o y \in C
  BY DEF Closed
<1> DEFINE Upto(m) == \E F \in [1 .. m -> C] : Joins(F, ss, m)
    T == {m \in 1 .. n : ~Upto(m)}
<1> SUFFICES ASSUME ~Upto(n) PROVE FALSE
  OBVIOUS
<1>0. n \in T
  OBVIOUS
<1>1. T \in SUBSET Nat /\ \A m \in T : m \in 1 .. n /\ ~Upto(m)
  OBVIOUS
<1>2. \A m \in 1 .. n : m \notin T => Upto(m)
  OBVIOUS
<1> HIDE DEF T
<1>3. PICK m \in T : \A k \in T : m <= k
  BY <1>0, <1>1, LeastNatural
<1>4. CASE m = 1
  <2>1. PICK F : F = [k \in 1 .. 1 |-> ss[1]]
    OBVIOUS
  <2>2. F \in [1 .. 1 -> C] /\ F[1] = ss[1]
    <3>1. 1 \in 1 .. n
      OBVIOUS
    <3>2. ss[1] \in C
      BY <3>1
    <3> QED
      BY <2>1, <3>2
  <2>3. \A k \in 1 .. 1 : k = 1
    OBVIOUS
  <2>4. Joins(F, ss, 1)
    BY <2>2, <2>3 DEF Joins
  <2> QED
    BY <1>1, <1>4, <2>2, <2>4
<1>5. CASE m # 1
  <2>1. m \in 1 .. n /\ m - 1 \in 1 .. n /\ ~(m <= m - 1) /\ m - 1 \in 1 .. m - 1
    BY <1>1, <1>5
  <2>2. Upto(m - 1)
    BY <1>2, <1>3, <2>1
  <2>3. PICK F \in [1 .. m - 1 -> C] : Joins(F, ss, m - 1)
    BY <2>2
  <2>4. PICK v \in C : v = F[m - 1] \o ss[m]
    <3>1. F[m - 1] \in C /\ ss[m] \in C
      BY <2>1
    <3> QED
      BY <3>1
  <2>5. PICK H : H = [k \in 1 .. m |-> IF k = m THEN v ELSE F[k]]
    OBVIOUS
  <2>6. H \in [1 .. m -> C]
    <3>1. \A k \in 1 .. m : k # m => k \in 1 .. m - 1
      BY <2>1
    <3> QED
      BY <2>5, <3>1
  <2>7. H[m] = v /\ \A k \in 1 .. m - 1 : H[k] = F[k]
    BY <2>1, <2>5
  <2>8. ASSUME NEW k \in 1 .. m PROVE H[k] = IF k = 1 THEN ss[k] ELSE H[k - 1] \o ss[k]
    <3>1. (k # m => k \in 1 .. m - 1) /\ (k # 1 => k - 1 \in 1 .. m - 1)
      BY <2>1
    <3>2. CASE k = m
      BY <1>5, <2>4, <2>7, <3>1, <3>2
    <3>3. CASE k # m
      BY <2>3, <2>7, <3>1, <3>3 DEF Joins
    <3> QED
      BY <3>2, <3>3
  <2>9. Joins(H, ss, m)
    BY <2>8 DEF Joins
  <2> QED
    BY <1>1, <2>6, <2>9
<1> QED
  BY <1>4, <1>5

LEMMA JoinsWithin ==
  ASSUME NEW C, NEW ss, NEW n, Closed(C, ss, n), NEW F, Joins(F, ss, n)
  PROVE  F[n] \in C
<1> n \in Nat \ {0} /\ (\A i \in 1 .. n : ss[i] \in C) /\ \A x, y \in C : x \o y \in C
  BY DEF Closed
<1> DEFINE T == {m \in 1 .. n : F[m] \notin C}
<1> SUFFICES ASSUME F[n] \notin C PROVE FALSE
  OBVIOUS
<1>0. n \in T
  OBVIOUS
<1>1. T \in SUBSET Nat /\ \A m \in T : m \in 1 .. n /\ F[m] \notin C
  OBVIOUS
<1>2. \A m \in 1 .. n : m \notin T => F[m] \in C
  OBVIOUS
<1> HIDE DEF T
<1>3. PICK m \in T : \A k \in T : m <= k
  BY <1>0, <1>1, LeastNatural
<1>4. CASE m = 1
  BY <1>1, <1>3, <1>4 DEF Joins
<1>5. CASE m # 1
  <2>1. m \in 1 .. n /\ m - 1 \in 1 .. n /\ ~(m <= m - 1)
    BY <1>1, <1>5
  <2>2. F[m - 1] \in C
    BY <1>2, <1>3, <2>1
  <2>3. F[m] = F[m - 1] \o ss[m]
    BY <1>5, <2>1 DEF Joins
  <2> QED
    BY <1>1, <2>1, <2>2, <2>3
<1> QED
  BY <1>4, <1>5

LEMMA FlattenWithin ==
  ASSUME NEW C, NEW ss, NEW n, Closed(C, ss, n), Len(ss) = n
  PROVE  FlattenSeq(ss) \in C
<1> DEFINE flatten == CHOOSE flatten :
             flatten = [i \in 1 .. Len(ss) |-> IF i = 1 THEN ss[i] ELSE flatten[i - 1] \o ss[i]]
<1>1. n \in Nat \ {0}
  BY DEF Closed
<1>2. FlattenSeq(ss) = flatten[Len(ss)]
  BY <1>1 DEF FlattenSeq
<1>3. PICK F \in [1 .. n -> C] : Joins(F, ss, n)
  BY JoinsExists
<1>4. F = [i \in 1 .. n |-> IF i = 1 THEN ss[i] ELSE F[i - 1] \o ss[i]]
  BY <1>3 DEF Joins
<1>5. flatten = [i \in 1 .. n |-> IF i = 1 THEN ss[i] ELSE flatten[i - 1] \o ss[i]]
  BY <1>4
<1> HIDE DEF flatten
<1>6. Joins(flatten, ss, n)
  BY <1>5 DEF Joins
<1> QED
  BY <1>2, <1>6, JoinsWithin

LEMMA SetToSeqIs ==
  ASSUME NEW S, IsFiniteSet(S)
  PROVE  Cardinality(S) \in Nat /\ \A i \in 1 .. Cardinality(S) : SetToSeq(S)[i] \in S
<1>1. Cardinality(S) \in Nat /\ ExistsBijection(1 .. Cardinality(S), S)
  BY FS_CardinalityType
<1>2. PICK f : f \in Bijection(1 .. Cardinality(S), S)
  BY <1>1, Zenon DEF ExistsBijection
<1>3. f \in [1 .. Cardinality(S) -> S] /\ IsInjective(f)
  BY <1>2 DEF Bijection, Injection, IsInjective
<1>4. SetToSeq(S) \in [1 .. Cardinality(S) -> S]
  BY <1>3 DEF SetToSeq
<1> QED
  BY <1>1, <1>4

\* What Each makes of a set and of the operations on its elements.
LEMMA EachGood ==
  ASSUME NEW n \in Nat, NEW ss, ss = [i \in 1 .. n |-> ss[i]],
         \A i \in 1 .. n : Good(ss[i], {})
  PROVE  Good(FlattenSeq(ss), {})
<1>1. Len(ss) = n
  OBVIOUS
<1>2. CASE n = 0
  <2>1. ss = << >>
    BY <1>2
  <2>2. FlattenSeq(ss) = ss
    BY <1>1, <1>2 DEF FlattenSeq
  <2> QED
    BY <2>1, <2>2, GoodNone
<1>3. CASE n # 0
  <2>1. PICK C : C = {s \in Seq(Instr) : Good(s, {})}
    OBVIOUS
  <2>2. \A s : s \in C <=> Good(s, {})
    BY <2>1 DEF Good
  <2>3. Closed(C, ss, n)
    BY <1>3, <2>2, GoodTwo DEF Closed
  <2> QED
    BY <1>1, <2>2, <2>3, FlattenWithin
<1> QED
  BY <1>2, <1>3

-----------------------------------------------------------------------------
(* The operations.                                                         *)

LEMMA LocksAre == G \in Locks /\ Threads \subseteq Locks /\ Objects \subseteq Locks
  BY DEF Locks

LEMMA GoodBrief ==
  ASSUME NEW l \in Locks
  PROVE  Good(Brief(l), {})
<1>1. Good(Within(l, << >>), {})
  BY GoodNone, GoodWithin
<1>2. Within(l, << >>) = Brief(l)
  <2>1. Lock(l) \in Instr /\ Unlock(l) \in Instr
    BY DEF Instr, Lock, Unlock
  <2> QED
    BY <2>1, TupleTwo DEF Within, Brief
<1> QED
  BY <1>1, <1>2

LEMMA GoodSimple ==
  /\ Good(New, {})
  /\ \A o \in Locks : Good(Access(o), {}) /\ Good(FreeObject(o), {})
  /\ \A o, p \in Locks : Good(Merge(o, p), {})
  BY GoodBrief, GoodWithin, LocksAre DEF New, Access, FreeObject, Merge

LEMMA GoodEach ==
  ASSUME NEW S, S \subseteq Objects
  PROVE  Good(Each(S, Access), {}) /\ Good(Each(S, FreeObject), {})
<1>1. IsFiniteSet(S)
  BY FiniteAssumption, FS_Subset
<1>2. Cardinality(S) \in Nat /\ \A i \in 1 .. Cardinality(S) : SetToSeq(S)[i] \in S
  BY <1>1, SetToSeqIs
<1>3. PICK a : a = [i \in 1 .. Cardinality(S) |-> Access(SetToSeq(S)[i])]
  OBVIOUS
<1>4. PICK f : f = [i \in 1 .. Cardinality(S) |-> FreeObject(SetToSeq(S)[i])]
  OBVIOUS
<1>5. \A i \in 1 .. Cardinality(S) : Good(a[i], {}) /\ Good(f[i], {})
  BY <1>2, <1>3, <1>4, GoodSimple, LocksAre
<1>6. a = [i \in 1 .. Cardinality(S) |-> a[i]] /\ f = [i \in 1 .. Cardinality(S) |-> f[i]]
  BY <1>3, <1>4
<1>7. Good(FlattenSeq(a), {}) /\ Good(FlattenSeq(f), {})
  BY <1>2, <1>5, <1>6, EachGood
<1>8. Each(S, Access) = FlattenSeq(a) /\ Each(S, FreeObject) = FlattenSeq(f)
  BY <1>3, <1>4 DEF Each
<1> QED
  BY <1>7, <1>8

LEMMA GoodJoin ==
  ASSUME NEW c \in Others, NEW reach, reach \subseteq Objects
  PROVE  Good(Join(c, reach), {})
<1>1. c \in Locks /\ c \in Threads
  BY LocksAre DEF Others
<1>2. /\ Good(<<Joined(c)>>, {}) /\ Good(<<Await(c)>>, {}) /\ Good(<<Gone(c)>>, {})
      /\ Good(<<Exit(c)>>, {c})
  <2>1. /\ Joined(c) \in [do : {"joined", "exit", "ready", "awaiting", "dead"}, on : {c}]
        /\ Await(c) \in [do : {"joined", "exit", "ready", "awaiting", "dead"}, on : {c}]
        /\ Gone(c) \in [do : {"joined", "exit", "ready", "awaiting", "dead"}, on : {c}]
        /\ Exit(c) \in [do : {"joined", "exit", "ready", "awaiting", "dead"}, on : {c}]
    BY DEF Joined, Await, Gone, Exit
  <2>2. Joined(c).do # "exit" /\ Await(c).do # "exit" /\ Gone(c).do # "exit" /\ c \in {c}
    BY DEF Joined, Await, Gone
  <2> QED
    BY <2>1, <2>2, GoodOne
<1>3. PICK a, b, d, e, f :
        /\ a = Within(c, <<Joined(c)>>) \o <<Await(c)>>
        /\ b = Within(c, Brief(G) \o Each(reach, Access))
        /\ d = a \o b
        /\ e = Within(c, <<Exit(c)>>) \o <<Gone(c)>>
        /\ f = d \o e
  OBVIOUS
<1>4. Good(a, {}) /\ Good(b, {}) /\ Good(d, {})
  <2>1. Good(a, {})
    BY <1>1, <1>2, <1>3, GoodWithin, GoodTwo
  <2>2. Good(b, {})
    BY <1>1, <1>3, GoodEach, GoodBrief, GoodWithin, GoodTwo, LocksAre
  <2> QED
    BY <1>3, <2>1, <2>2, GoodTwo
<1>5. Good(e, {c})
  <2>1. Good(Within(c, <<Exit(c)>>), {c})
    BY <1>1, <1>2, GoodWithin
  <2> QED
    BY <1>2, <1>3, <2>1, GoodConcat
<1>0. /\ Lock(c) \in Instr /\ Unlock(c) \in Instr /\ Joined(c) \in Instr
      /\ Await(c) \in Instr /\ Exit(c) \in Instr /\ Gone(c) \in Instr
  BY <1>1 DEF Instr, Lock, Unlock, Joined, Await, Exit, Gone
<1>6. a = <<Lock(c), Joined(c), Unlock(c), Await(c)>>
  <2>0. PICK x \in Instr, y \in Instr, z \in Instr, v \in Instr :
          x = Lock(c) /\ y = Joined(c) /\ z = Unlock(c) /\ v = Await(c)
    BY <1>0
  <2>1. ((<<x>> \o <<y>>) \o <<z>>) \o <<v>> = <<x, y, z, v>>
    BY TupleFour
  <2> QED
    BY <1>3, <2>0, <2>1 DEF Within
<1>7. e = <<Lock(c), Exit(c), Unlock(c), Gone(c)>>
  <2>0. PICK x \in Instr, y \in Instr, z \in Instr, v \in Instr :
          x = Lock(c) /\ y = Exit(c) /\ z = Unlock(c) /\ v = Gone(c)
    BY <1>0
  <2>1. ((<<x>> \o <<y>>) \o <<z>>) \o <<v>> = <<x, y, z, v>>
    BY TupleFour
  <2> QED
    BY <1>3, <2>0, <2>1 DEF Within
<1>8. \E j \in 1 .. Len(d) : d[j] = Await(c)
  <2>1. Len(a) = 4 /\ a[4] = Await(c)
    BY <1>6
  <2>2. /\ a \in Seq(Instr) /\ b \in Seq(Instr) /\ Len(b) \in Nat
    BY <1>4, LenProperties DEF Good
  <2>3. Len(d) = Len(a) + Len(b)
        /\ \A i \in 1 .. Len(a) + Len(b) : d[i] = IF i <= Len(a) THEN a[i] ELSE b[i - Len(a)]
    BY <1>3, <2>2, ConcatProperties
  <2>4. 4 \in 1 .. Len(d) /\ d[4] = a[4]
    BY <2>1, <2>2, <2>3
  <2> QED
    BY <2>1, <2>4
<1>9. Good(f, {})
  <2>1. \A k \in {c} : k \in {} \/ \E j \in 1 .. Len(d) : d[j] = Await(k)
    BY <1>8
  <2>2. PICK A, B : A = {} /\ B = {c}
    OBVIOUS
  <2>3. Good(d, A) /\ Good(e, B) /\ \A k \in B : k \in A \/ \E j \in 1 .. Len(d) : d[j] = Await(k)
    BY <1>4, <1>5, <2>1, <2>2
  <2>4. Good(d \o e, A)
    BY <2>3, GoodConcat, Zenon
  <2> QED
    BY <1>3, <2>2, <2>4
<1>10. Join(c, reach) = f
  BY <1>3, <1>6, <1>7 DEF Join
<1> QED
  BY <1>9, <1>10

LEMMA GoodDrop ==
  ASSUME NEW o \in Objects, NEW c \in Others, NEW reach, reach \subseteq Objects
  PROVE  Good(DropChild(o, c, reach), {})
<1>1. o \in Locks /\ c \in Locks
  BY LocksAre DEF Others
<1> QED
  BY <1>1, GoodJoin, GoodSimple, GoodTwo, GoodWithin DEF DropChild

\* The end of a thread's routine, up to the last step.
LEMMA GoodEnd ==
  ASSUME NEW t \in Threads, NEW reach, reach \subseteq Objects, NEW left, left \subseteq Others
  PROVE  \E s : Good(s, {}) /\ RoutineEnd(t, reach, left) = s \o <<Become("dead")>>
<1>1. IsFiniteSet(left)
  BY FiniteAssumption, FS_Subset DEF Others
<1>2. Cardinality(left) \in Nat /\ \A i \in 1 .. Cardinality(left) : SetToSeq(left)[i] \in left
  BY <1>1, SetToSeqIs
<1>3. PICK a : a = [i \in 1 .. Cardinality(left) |->
                      Join(SetToSeq(left)[i], {}) \o FreeObject(SetToSeq(left)[i])]
  OBVIOUS
<1>4. \A c \in Others : Good(Join(c, {}) \o FreeObject(c), {})
  <2>1. \A c \in Others : Good(Join(c, {}), {}) /\ Good(FreeObject(c), {})
    BY GoodJoin, GoodSimple, LocksAre DEF Others
  <2> QED
    BY <2>1, GoodTwo
<1>5. \A i \in 1 .. Cardinality(left) : Good(a[i], {})
  BY <1>2, <1>3, <1>4
<1>6. a = [i \in 1 .. Cardinality(left) |-> a[i]]
  BY <1>3
<1>7. Good(FlattenSeq(a), {})
  BY <1>2, <1>5, <1>6, EachGood
<1>8. PICK b, f, x, y :
        /\ b = Brief(t) /\ f = FreeObject(t) /\ x = Each(reach, FreeObject)
        /\ y = Within(G, FlattenSeq(a))
  OBVIOUS
<1>9. Good(b, {}) /\ Good(f, {}) /\ Good(x, {}) /\ Good(y, {})
  BY <1>7, <1>8, GoodBrief, GoodEach, GoodSimple, GoodWithin, LocksAre
<1>10. Good(((b \o f) \o x) \o y, {})
  BY <1>9, GoodTwo
<1>11. PreparedShutdown(left) = y \o <<Become("dead")>>
  BY <1>3, <1>8 DEF PreparedShutdown, Each
<1>12. RoutineEnd(t, reach, left) = ((b \o f) \o x) \o (y \o <<Become("dead")>>)
  BY <1>8, <1>11 DEF RoutineEnd
<1>13. ((b \o f) \o x) \o (y \o <<Become("dead")>>) = (((b \o f) \o x) \o y) \o <<Become("dead")>>
  <2>1. Become("dead") \in Instr
    BY DEF Become, Instr
  <2>2. /\ (b \o f) \o x \in Seq(Instr) /\ y \in Seq(Instr) /\ <<Become("dead")>> \in Seq(Instr)
    BY <1>9, <2>1, GoodTwo DEF Good
  <2> QED
    BY <2>2, ConcatAssociative
<1> QED
  BY <1>10, <1>12, <1>13


-----------------------------------------------------------------------------
(* What operations are like when they begin.                               *)

LEMMA GoesCovered ==
  ASSUME NEW s, NEW l, NEW b, Goes(s, l, 0, b), NEW n \in Nat
  PROVE  Covered(s, l, n)
<1>1. PICK d : Counts(s, l, d) /\ d[0] = 0
  BY DEF Goes
<1>2. 0 <= n
  OBVIOUS
<1> QED
  BY <1>1, <1>2 DEF Covered

LEMMA GoodBegins ==
  ASSUME NEW s, Good(s, {}), NEW t, NEW creator, NEW st
  PROVE  /\ Follows(s, t, creator, st)
         /\ \A l \in Locks, n \in Nat : Covered(s, l, n)
<1>1. s \in Seq(Instr) /\ CreatesOne(s, t, creator, st) /\ BecomesInOrder(s, t, st)
  BY DEF Good, CreatesOne, BecomesInOrder
<1>2. ExitsAwaiting(s, st)
  BY DEF Good, ExitsAwaiting
<1>3. \A l \in Locks, n \in Nat : Covered(s, l, n)
  BY GoesCovered DEF Good
<1> QED
  BY <1>1, <1>2, <1>3 DEF Follows

LEMMA CoveredFour ==
  ASSUME NEW s, Len(s) = 4, NEW l, NEW n \in Nat,
         NEW a \in Nat, NEW b \in Nat, NEW c \in Nat, NEW e \in Nat,
         a = 0 + Takes(s[1], l), b = a + Takes(s[2], l),
         c = b + Takes(s[3], l), e = c + Takes(s[4], l)
  PROVE  Covered(s, l, n)
<1> DEFINE d == [i \in 0 .. 4 |-> IF i = 0 THEN 0 ELSE IF i = 1 THEN a ELSE
                                  IF i = 2 THEN b ELSE IF i = 3 THEN c ELSE e]
<1>1. d \in [0 .. Len(s) -> Nat]
  OBVIOUS
<1>2. d[0] = 0 /\ d[1] = a /\ d[2] = b /\ d[3] = c /\ d[4] = e
  OBVIOUS
<1>3. \A i \in 1 .. Len(s) : i \in {1, 2, 3, 4}
  OBVIOUS
<1> HIDE DEF d
<1>4. \A i \in {1, 2, 3, 4} : d[i] = d[i - 1] + Takes(s[i], l)
  BY <1>2
<1>5. \A i \in 1 .. Len(s) : d[i] = d[i - 1] + Takes(s[i], l)
  BY <1>3, <1>4, Zenon
<1>6. d[0] <= n
  BY <1>2
<1> QED
  BY <1>1, <1>5, <1>6 DEF Covered, Counts

LEMMA StartBegins ==
  ASSUME NEW c \in Others, NEW t, NEW creator, NEW st,
         creator[c] = t, st[c] = "unborn", st[t] = "running"
  PROVE  /\ Follows(Start(c), t, creator, st)
         /\ \A l \in Locks, n \in Nat : Covered(Start(c), l, n)
<1>1. c \in Locks
  BY LocksAre DEF Others
<1>2. PICK x \in Instr, y \in Instr, z \in Instr, v \in Instr :
        x = Lock(c) /\ y = Unlock(c) /\ z = Create(c) /\ v = Ready(c)
  BY <1>1 DEF Instr, Lock, Unlock, Create, Ready
<1>3. PICK s : s = <<x, y, z, v>>
  OBVIOUS
<1>4. s \in Seq(Instr) /\ Len(s) = 4 /\ s[1] = x /\ s[2] = y /\ s[3] = z /\ s[4] = v
  BY <1>3
<1>5. Start(c) = s
  <2>1. <<x, y>> \o <<z, v>> = s
    BY <1>3, TuplePairs
  <2> QED
    BY <1>2, <2>1 DEF Start, Brief
<1>6. \A i \in 1 .. Len(s) : i \in {1, 2, 3, 4}
  BY <1>4
<1>7. x.do = "lock" /\ y.do = "unlock" /\ z.do = "create" /\ v.do = "ready" /\ z.on = c
  BY <1>2 DEF Lock, Unlock, Create, Ready
<1>8. CreatesOne(s, t, creator, st)
  <2>1. \A i \in 1 .. Len(s) : s[i].do = "create" => i = 3
    BY <1>4, <1>6, <1>7
  <2>2. 3 + 1 = Len(s) /\ s[3 + 1] = Ready(s[3].on) /\ s[3].on = c
    BY <1>2, <1>4, <1>7
  <2> QED
    BY <2>1, <2>2 DEF CreatesOne
<1>9. ExitsAwaiting(s, st) /\ BecomesInOrder(s, t, st)
  <2>1. \A i \in 1 .. Len(s) : s[i].do # "exit" /\ s[i].do # "become"
    BY <1>4, <1>6, <1>7
  <2> QED
    BY <2>1 DEF ExitsAwaiting, BecomesInOrder
<1>10. ASSUME NEW l \in Locks, NEW n \in Nat PROVE Covered(s, l, n)
  <2>1. Takes(z, l) = 0 /\ Takes(v, l) = 0
    BY <1>7 DEF Takes, Lock, Unlock
  <2>2. PICK k \in {0, 1} : Takes(x, l) = k /\ Takes(y, l) = 0 - k
    BY <1>2, TakesPair
  <2>3. k \in Nat /\ 0 \in Nat /\ k = 0 + k /\ 0 = k + (0 - k) /\ 0 = 0 + 0
    OBVIOUS
  <2> QED
    BY <1>4, <2>1, <2>2, <2>3, CoveredFour
<1> QED
  BY <1>4, <1>5, <1>8, <1>9, <1>10 DEF Follows

LEMMA StartupBegins ==
  ASSUME NEW t, NEW creator, NEW st, st[t] = "starting"
  PROVE  /\ Follows(PreparedStartup, t, creator, st)
         /\ \A l \in Locks, n \in Nat : Covered(PreparedStartup, l, n)
<1>1. G \in Locks
  BY LocksAre
<1>2. PICK x \in Instr, y \in Instr, z \in Instr, v \in Instr :
        x = Lock(G) /\ y = Become("ready") /\ z = Unlock(G) /\ v = Become("running")
  BY <1>1 DEF Instr, Lock, Unlock, Become
<1>3. PICK s : s = <<x, y, z, v>>
  OBVIOUS
<1>4. s \in Seq(Instr) /\ Len(s) = 4 /\ s[1] = x /\ s[2] = y /\ s[3] = z /\ s[4] = v
  BY <1>3
<1>5. PreparedStartup = s
  <2>1. ((<<x>> \o <<y>>) \o <<z>>) \o <<v>> = s
    BY <1>3, TupleFour
  <2> QED
    BY <1>2, <2>1 DEF PreparedStartup, Within
<1>6. \A i \in 1 .. Len(s) : i \in {1, 2, 3, 4}
  BY <1>4
<1>7. /\ x.do = "lock" /\ y.do = "become" /\ z.do = "unlock" /\ v.do = "become"
      /\ y.on = "ready" /\ v.on = "running" /\ v # Become("ready") /\ z # Become("ready")
  BY <1>2 DEF Lock, Unlock, Become
<1>8. BecomesInOrder(s, t, st)
  <2>1. \A i \in 1 .. Len(s) : s[i].do = "become" => i = 2 \/ i = 4
    BY <1>4, <1>6, <1>7
  <2>2. \A j \in 2 + 1 .. Len(s) : j = 3 \/ j = 4
    BY <1>4
  <2>3. \A j \in 2 + 1 .. Len(s) : s[j] # Become("ready")
    BY <1>4, <1>7, <2>2
  <2> QED
    BY <1>4, <1>7, <2>1, <2>3 DEF BecomesInOrder
<1>9. ExitsAwaiting(s, st) /\ CreatesOne(s, t, creator, st)
  <2>1. \A i \in 1 .. Len(s) : s[i].do # "exit" /\ s[i].do # "create"
    BY <1>4, <1>6, <1>7
  <2> QED
    BY <2>1 DEF ExitsAwaiting, CreatesOne
<1>10. ASSUME NEW l \in Locks, NEW n \in Nat PROVE Covered(s, l, n)
  <2>1. Takes(y, l) = 0 /\ Takes(v, l) = 0
    BY <1>7 DEF Takes, Lock, Unlock
  <2>2. PICK k \in {0, 1} : Takes(x, l) = k /\ Takes(z, l) = 0 - k
    BY <1>2, TakesPair
  <2>3. k \in Nat /\ 0 \in Nat /\ k = 0 + k /\ k = k + 0 /\ 0 = k + (0 - k) /\ 0 = 0 + 0
    OBVIOUS
  <2> QED
    BY <1>4, <2>1, <2>2, <2>3, CoveredFour
<1> QED
  BY <1>4, <1>5, <1>8, <1>9, <1>10 DEF Follows

LEMMA EndBegins ==
  ASSUME NEW t \in Threads, NEW reach, reach \subseteq Objects, NEW left, left \subseteq Others,
         NEW creator, NEW st, st[t] = "exiting"
  PROVE  /\ Follows(RoutineEnd(t, reach, left), t, creator, st)
         /\ \A l \in Locks, n \in Nat : Covered(RoutineEnd(t, reach, left), l, n)
<1>1. PICK s : Good(s, {}) /\ RoutineEnd(t, reach, left) = s \o <<Become("dead")>>
  BY GoodEnd
<1>2. PICK x \in Instr : x = Become("dead")
  BY DEF Instr, Become
<1>3. PICK a : a = <<x>>
  OBVIOUS
<1>4. a \in Seq(Instr) /\ Len(a) = 1 /\ a[1] = x
  BY <1>3, InstrOne
<1>5. s \in Seq(Instr) /\ Len(s) \in Nat
  BY <1>1, LenProperties DEF Good
<1>6. PICK w : w = s \o a
  OBVIOUS
<1>7. RoutineEnd(t, reach, left) = w
  BY <1>1, <1>2, <1>3, <1>6
<1>8. /\ w \in Seq(Instr) /\ Len(w) = Len(s) + 1
      /\ \A i \in 1 .. Len(s) : w[i] = s[i]
      /\ w[Len(s) + 1] = x
  <2>1. /\ w \in Seq(Instr) /\ Len(w) = Len(s) + Len(a)
        /\ \A i \in 1 .. Len(s) + Len(a) : w[i] = IF i <= Len(s) THEN s[i] ELSE a[i - Len(s)]
    BY <1>4, <1>5, <1>6, ConcatProperties
  <2> QED
    BY <1>4, <1>5, <2>1
<1>9. \A i \in 1 .. Len(w) : i \in 1 .. Len(s) \/ i = Len(s) + 1
  BY <1>5, <1>8
<1>10. x.do = "become" /\ x.on = "dead"
  BY <1>2 DEF Become
<1>11. \A i \in 1 .. Len(w) : i = Len(s) + 1 \/ w[i].do \notin {"create", "become"}
  BY <1>1, <1>8, <1>9 DEF Good
<1>12. CreatesOne(w, t, creator, st)
  BY <1>8, <1>10, <1>11 DEF CreatesOne
<1>13. BecomesInOrder(w, t, st)
  BY <1>8, <1>10, <1>11 DEF BecomesInOrder
<1>14. ASSUME NEW i \in 1 .. Len(w), w[i].do = "exit"
       PROVE  \E j \in 1 .. i - 1 : w[j] = Await(w[i].on)
  <2>1. i \in 1 .. Len(s) /\ w[i] = s[i]
    BY <1>8, <1>9, <1>10, <1>14
  <2>2. PICK j \in 1 .. i - 1 : s[j] = Await(s[i].on)
    BY <1>1, <1>14, <2>1 DEF Good
  <2>3. j \in 1 .. Len(s)
    BY <1>5, <2>1
  <2> QED
    BY <1>8, <2>1, <2>2, <2>3
<1>15. ExitsAwaiting(w, st)
  BY <1>14 DEF ExitsAwaiting
<1>16. ASSUME NEW l \in Locks, NEW n \in Nat PROVE Covered(w, l, n)
  <2>1. Takes(x, l) = 0
    BY <1>10 DEF Takes, Lock, Unlock
  <2>2. Goes(a, l, 0, 0)
    BY <1>3, <2>1, GoesOne
  <2>3. Goes(s, l, 0, 0)
    BY <1>1 DEF Good
  <2>4. Goes(w, l, 0, 0)
    BY <1>4, <1>5, <1>6, <2>2, <2>3, GoesOn
  <2> QED
    BY <2>4, GoesCovered
<1> QED
  BY <1>7, <1>8, <1>12, <1>13, <1>15, <1>16 DEF Follows


-----------------------------------------------------------------------------
(* How an operation stays in order while it runs.                          *)

LEMMA FollowsTail ==
  ASSUME NEW s, NEW t, NEW creator, NEW st, Follows(s, t, creator, st), s # << >>,
         s[1].do = "awaiting" => st[s[1].on] \in Late
  PROVE  Follows(Tail(s), t, creator, st)
<1>1. s \in Seq(Instr) /\ Len(s) \in Nat /\ Len(s) >= 1
  BY EmptySeq, LenProperties DEF Follows
<1>2. PICK u : u = Tail(s)
  OBVIOUS
<1>3. u \in Seq(Instr) /\ Len(u) = Len(s) - 1 /\ \A i \in 1 .. Len(u) : u[i] = s[i + 1]
  BY <1>1, <1>2, HeadTailProperties
<1>4. ASSUME NEW i \in 1 .. Len(u)
      PROVE  /\ i + 1 \in 1 .. Len(s) /\ u[i] = s[i + 1]
             /\ i + 1 = Len(u) => u[i + 1] = s[(i + 1) + 1]
             /\ i + 1 = Len(u) <=> (i + 1) + 1 = Len(s)
             /\ i = Len(u) <=> i + 1 = Len(s)
  BY <1>1, <1>3
<1>5. CreatesOne(u, t, creator, st)
  <2> SUFFICES ASSUME NEW i \in 1 .. Len(u), u[i].do = "create"
               PROVE  /\ i + 1 = Len(u) /\ u[i + 1] = Ready(u[i].on)
                      /\ creator[u[i].on] = t /\ st[u[i].on] = "unborn" /\ st[t] = "running"
    BY DEF CreatesOne
  <2>1. i + 1 \in 1 .. Len(s) /\ s[i + 1].do = "create" /\ CreatesOne(s, t, creator, st)
    BY <1>4 DEF Follows
  <2>2. /\ (i + 1) + 1 = Len(s) /\ s[(i + 1) + 1] = Ready(s[i + 1].on)
        /\ creator[s[i + 1].on] = t /\ st[s[i + 1].on] = "unborn" /\ st[t] = "running"
    BY <2>1 DEF CreatesOne
  <2> QED
    BY <1>4, <2>2
<1>6. ExitsAwaiting(u, st)
  <2> SUFFICES ASSUME NEW i \in 1 .. Len(u), u[i].do = "exit", st[u[i].on] \notin Late
               PROVE  \E j \in 1 .. i - 1 : u[j] = Await(u[i].on)
    BY DEF ExitsAwaiting
  <2>1. i + 1 \in 1 .. Len(s) /\ s[i + 1].do = "exit" /\ ExitsAwaiting(s, st)
    BY <1>4 DEF Follows
  <2>2. PICK j \in 1 .. (i + 1) - 1 : s[j] = Await(u[i].on)
    BY <1>4, <2>1 DEF ExitsAwaiting
  <2>3. j # 1
    <3>1. Await(u[i].on).do = "awaiting" /\ Await(u[i].on).on = u[i].on
      BY DEF Await
    <3> QED
      BY <2>2, <3>1
  <2>4. j - 1 \in 1 .. i - 1 /\ j - 1 \in 1 .. Len(u) /\ (j - 1) + 1 = j
    BY <1>1, <1>3, <2>3
  <2>5. u[j - 1] = s[j]
    BY <1>3, <2>4
  <2> QED
    BY <2>2, <2>4, <2>5
<1>7. BecomesInOrder(u, t, st)
  <2> SUFFICES ASSUME NEW i \in 1 .. Len(u), u[i].do = "become"
               PROVE  \/ /\ u[i].on = "ready" /\ st[t] = "starting"
                         /\ \A j \in i + 1 .. Len(u) : u[j] # Become("ready")
                      \/ u[i].on = "running" /\ st[t] \in {"starting", "ready"} /\ i = Len(u)
                      \/ u[i].on = "dead" /\ st[t] \in {"exiting", "dead"}
    BY DEF BecomesInOrder
  <2>1. i + 1 \in 1 .. Len(s) /\ s[i + 1].do = "become" /\ BecomesInOrder(s, t, st)
    BY <1>4 DEF Follows
  <2>2. \/ /\ s[i + 1].on = "ready" /\ st[t] = "starting"
           /\ \A j \in (i + 1) + 1 .. Len(s) : s[j] # Become("ready")
        \/ s[i + 1].on = "running" /\ st[t] \in {"starting", "ready"} /\ i + 1 = Len(s)
        \/ s[i + 1].on = "dead" /\ st[t] \in {"exiting", "dead"}
    BY <2>1 DEF BecomesInOrder
  <2>3. \A j \in i + 1 .. Len(u) : u[j] = s[j + 1] /\ j + 1 \in (i + 1) + 1 .. Len(s)
    BY <1>1, <1>3
  <2> QED
    BY <1>4, <2>2, <2>3
<1> QED
  BY <1>2, <1>3, <1>5, <1>6, <1>7 DEF Follows

LEMMA FollowsStage ==
  ASSUME NEW s, NEW t, NEW creator, NEW st, NEW st2, Follows(s, t, creator, st), st2[t] = st[t],
         \A c \in Others : st[c] \in Late => st2[c] \in Late,
         \A i \in 1 .. Len(s) : s[i].do = "create" => st2[s[i].on] = "unborn"
  PROVE  Follows(s, t, creator, st2)
<1>1. s \in Seq(Instr) /\ DOMAIN s = 1 .. Len(s)
  BY LenProperties DEF Follows
<1>2. CreatesOne(s, t, creator, st2) /\ BecomesInOrder(s, t, st2)
  BY DEF Follows, CreatesOne, BecomesInOrder
<1>3. \A i \in 1 .. Len(s) : s[i].do = "exit" => s[i].on \in Others
  <2>1. \A i \in 1 .. Len(s) : s[i] \in Instr
    BY <1>1, ElementOfSeq
  <2>2. \A x \in Instr : x.do = "exit" => x.on \in Others
    BY DEF Instr
  <2> QED
    BY <2>1, <2>2
<1>4. ExitsAwaiting(s, st2)
  BY <1>3 DEF Follows, ExitsAwaiting
<1> QED
  BY <1>1, <1>2, <1>4 DEF Follows

\* The stages a wait tells apart.
LEMMA StagesAre ==
  /\ Len(Stages) = 7 /\ Stages[1] = "unborn" /\ Stages[2] = "starting" /\ Stages[3] = "ready"
  /\ Stages[4] = "running" /\ Stages[5] = "awaiting" /\ Stages[6] = "exiting" /\ Stages[7] = "dead"
  /\ DOMAIN Stages = 1 .. 7
  BY DEF Stages

LEMMA StageOfIs ==
  ASSUME NEW k \in 1 .. 7
  PROVE  StageOf(Stages[k]) = k
<1>1. \A i \in 1 .. 7 : Stages[i] = Stages[k] => i = k
  <2>1. \A i \in 1 .. 7 : i \in {1, 2, 3, 4, 5, 6, 7}
    OBVIOUS
  <2> QED
    BY <2>1, StagesAre
<1>2. PICK I : I = {i \in 1 .. Len(Stages) : Stages[i] = Stages[k]}
  OBVIOUS
<1>3. I = {k}
  BY <1>1, <1>2, StagesAre
<1>4. Min(I) = k
  BY <1>3 DEF Min
<1>5. StageOf(Stages[k]) = IF I # {} THEN Min(I) ELSE 0
  BY <1>2 DEF StageOf, SelectInSeq
<1> QED
  BY <1>3, <1>4, <1>5

LEMMA WaitsRight ==
  /\ ~(StageOf("starting") >= StageOf("ready"))
  /\ \A x \in Range(Stages) : StageOf(x) >= StageOf("awaiting") => x \in Late
<1>1. StageOf("starting") = 2 /\ StageOf("ready") = 3 /\ StageOf("awaiting") = 5
  BY StageOfIs, StagesAre
<1>2. ASSUME NEW x \in Range(Stages), StageOf(x) >= 5 PROVE x \in Late
  <2>1. PICK k \in 1 .. 7 : x = Stages[k]
    BY StagesAre DEF Range
  <2>2. k >= 5
    BY <1>2, <2>1, StageOfIs
  <2>3. k \in {5, 6, 7}
    BY <2>2
  <2> QED
    BY <2>1, <2>3, StagesAre DEF Late
<1> QED
  BY <1>1, <1>2


-----------------------------------------------------------------------------
(* The invariant, part by part.                                            *)

TypeRest ==
  /\ program \in Programs
  /\ holder \in [Locks -> Threads \cup {None}]
  /\ depth \in [Locks -> Nat]
  /\ \A l \in Locks : holder[l] = None <=> depth[l] = 0
  /\ stage \in [Threads -> Range(Stages)]
  /\ joined \subseteq Threads \ {Main}
  /\ users \in [Objects -> SUBSET Threads]
  /\ calls \in [Threads -> 0 .. MaxCalls]

\* u waits in start() for a thread that has not come far enough.
Standing(u) ==
  \E c \in Others : stage[c] = "starting" /\ stage[u] = "running" /\ code[u] = <<Ready(c)>>

LEMMA InstrIs ==
  ASSUME NEW x \in Instr
  PROVE  /\ x.do \in {"lock", "unlock"} => x.on \in Locks
         /\ x.do \in {"create", "joined", "exit", "ready", "awaiting", "dead"} => x.on \in Others
         /\ x.do = "become" => x.on \in {"ready", "running", "dead"}
         /\ x.do = "lock" => x = Lock(x.on)
         /\ x.do = "unlock" => x = Unlock(x.on)
         /\ x.do \notin {"lock", "unlock"} => \A l : Takes(x, l) = 0
         /\ x.do \in {"lock", "unlock", "create", "joined", "exit", "ready", "awaiting", "dead", "become"}
  BY DEF Instr, Lock, Unlock, Takes

LEMMA CodeTypes ==
  ASSUME NEW s \in Seq(Instr)
  PROVE  \A i \in DOMAIN s : s[i].on \in Locks \cup Range(Stages)
<1>1. \A i \in DOMAIN s : s[i] \in Instr
  BY LenProperties
<1>2. Others \subseteq Locks
  BY LocksAre DEF Others
<1>3. {"ready", "running", "dead"} \subseteq Range(Stages)
  <2>1. 3 \in DOMAIN Stages /\ 4 \in DOMAIN Stages /\ 7 \in DOMAIN Stages
    BY StagesAre
  <2> QED
    BY <2>1, StagesAre DEF Range
<1>4. \A x \in Instr : x.on \in Locks \cup Range(Stages)
  BY <1>2, <1>3, InstrIs
<1> QED
  BY <1>1, <1>4

LEMMA Parts ==
  ASSUME LockInv
  PROVE  /\ TypeRest /\ DOMAIN code = Threads /\ CodeInv /\ CoverInv /\ StartInv
         /\ program.creator \in [Others -> Threads]
         /\ \A t \in Threads : code[t] \in Seq(Instr)
<1>1. TypeRest
  BY Zenon DEF LockInv, TypeOK, TypeRest
<1>2. DOMAIN code = Threads /\ CodeInv /\ CoverInv /\ StartInv
  BY DEF LockInv
<1>3. program.creator \in [Others -> Threads]
  BY <1>1, ProgramsAssumption DEF TypeRest, Others
<1>4. \A t \in Threads : code[t] \in Seq(Instr)
  BY <1>2 DEF CodeInv, Follows
<1> QED
  BY <1>1, <1>2, <1>3, <1>4

LEMMA Whole ==
  ASSUME TypeRest', (DOMAIN code)' = Threads, CodeInv', CoverInv', StartInv'
  PROVE  LockInv'
<1>1. \A t \in Threads : code'[t] \in Seq(Instr)
  BY DEF CodeInv, Follows
<1>2. \A t \in Threads : \A i \in DOMAIN code'[t] : code'[t][i].on \in Locks \cup Range(Stages)
  BY <1>1, CodeTypes
<1>3. TypeOK'
  BY <1>2, Zenon DEF TypeOK, TypeRest
<1> QED
  BY <1>3 DEF LockInv

LEMMA NotStanding ==
  ASSUME NEW u \in Threads,
         code[u] = << >> \/ code[u][1].do # "ready" \/ stage[u] # "running"
  PROVE  ~Standing(u)
<1> SUFFICES ASSUME NEW c \in Others, stage[u] = "running", code[u] = <<Ready(c)>>
             PROVE  FALSE
  BY DEF Standing
<1>1. PICK s : s = <<Ready(c)>>
  OBVIOUS
<1>2. Len(s) = 1 /\ s[1] = Ready(c) /\ Ready(c).do = "ready"
  BY <1>1 DEF Ready
<1>3. s # << >>
  BY <1>2
<1> QED
  BY <1>1, <1>2, <1>3

\* A thread that stands in start() does not step.
LEMMA StandsStill ==
  ASSUME NEW t \in Threads, Step(t)
  PROVE  ~Standing(t)
<1> SUFFICES ASSUME NEW c \in Others, stage[c] = "starting", code[t] = <<Ready(c)>>
             PROVE  FALSE
  BY DEF Standing
<1>1. Head(code[t]).do = "ready" /\ Head(code[t]).on = c
  BY DEF Ready
<1>2. StageOf(stage[c]) >= StageOf("ready")
  BY <1>1 DEF Step
<1> QED
  BY <1>2, WaitsRight

LEMMA StartKeeps ==
  ASSUME LockInv, program' = program,
         \A c \in Others : stage'[c] = "starting" => stage[c] = "starting",
         \A u \in Threads : Standing(u) => code'[u] = code[u] /\ stage'[u] = stage[u]
  PROVE  StartInv'
<1> SUFFICES ASSUME NEW c \in Others, stage'[c] = "starting"
             PROVE  stage'[program.creator[c]] = "running" /\ code'[program.creator[c]] = <<Ready(c)>>
  BY DEF StartInv
<1>1. stage[c] = "starting" /\ program.creator[c] \in Threads
  BY Parts
<1>2. stage[program.creator[c]] = "running" /\ code[program.creator[c]] = <<Ready(c)>>
  BY <1>1, Parts DEF StartInv
<1>3. Standing(program.creator[c])
  BY <1>1, <1>2 DEF Standing
<1> QED
  BY <1>1, <1>2, <1>3

LEMMA HeldIs ==
  ASSUME TypeRest
  PROVE  \A u \in Threads, l \in Locks : Held(u, l) \in Nat
  BY DEF TypeRest, Held

\* Steps that touch no lock.
LEMMA CoverKeeps ==
  ASSUME LockInv, UNCHANGED lockVars,
         \A u \in Threads :
           \/ code'[u] = code[u]
           \/ \A l \in Locks, n \in Nat : Covered(code'[u], l, n)
           \/ /\ code[u] # << >> /\ code'[u] = Tail(code[u])
              /\ code[u][1].do \notin {"lock", "unlock"}
  PROVE  CoverInv'
<1> SUFFICES ASSUME NEW u \in Threads, NEW l \in Locks
             PROVE  Covered(code'[u], l, Held(u, l)')
  BY DEF CoverInv
<1>1. Held(u, l)' = Held(u, l) /\ Held(u, l) \in Nat
  BY HeldIs, Parts DEF Held, lockVars
<1>2. Covered(code[u], l, Held(u, l)) /\ code[u] \in Seq(Instr)
  BY Parts DEF CoverInv
<1>3. CASE code'[u] = code[u]
  BY <1>1, <1>2, <1>3
<1>4. CASE \A k \in Locks, n \in Nat : Covered(code'[u], k, n)
  BY <1>1, <1>4
<1>5. CASE /\ code[u] # << >> /\ code'[u] = Tail(code[u])
           /\ code[u][1].do \notin {"lock", "unlock"}
  <2>1. code[u][1] \in Instr
    <3>1. Len(code[u]) \in Nat \ {0}
      BY <1>2, <1>5, EmptySeq
    <3>2. 1 \in 1 .. Len(code[u])
      BY <3>1
    <3> QED
      BY <1>2, <3>2, ElementOfSeq
  <2>2. Takes(code[u][1], l) = 0
    BY <1>5, <2>1, InstrIs
  <2>3. Covered(Tail(code[u]), l, Held(u, l) + Takes(code[u][1], l))
    BY <1>1, <1>2, <1>5, CoveredNext
  <2>4. Held(u, l) + 0 = Held(u, l)
    BY <1>1
  <2> QED
    BY <1>1, <1>5, <2>2, <2>3, <2>4
<1> QED
  BY <1>3, <1>4, <1>5

\* Steps that change no stage.
LEMMA CodeMoves ==
  ASSUME LockInv, NEW t \in Threads, code[t] # << >>, ~Standing(t),
         code' = [code EXCEPT ![t] = Tail(@)], UNCHANGED <<program, stage>>,
         code[t][1].do = "awaiting" => stage[code[t][1].on] \in Late
  PROVE  CodeInv' /\ StartInv' /\ DOMAIN code' = Threads
<1>1. DOMAIN code = Threads /\ CodeInv
  BY Parts
<1>2. DOMAIN code' = Threads /\ code'[t] = Tail(code[t]) /\ \A u \in Threads \ {t} : code'[u] = code[u]
  BY <1>1
<1>3. Follows(Tail(code[t]), t, program.creator, stage)
  BY <1>1, FollowsTail DEF CodeInv
<1>4. \A u \in Threads : Follows(code'[u], u, program.creator, stage)
  BY <1>1, <1>2, <1>3 DEF CodeInv
<1>5. \A u \in Threads : stage[u] = "unborn" => code'[u] = << >>
  BY <1>1, <1>2 DEF CodeInv
<1>6. CodeInv'
  BY <1>4, <1>5 DEF CodeInv
<1>7. StartInv'
  BY <1>2, StartKeeps
<1> QED
  BY <1>2, <1>6, <1>7


-----------------------------------------------------------------------------
(* Every action keeps the invariant.                                       *)

\* The beginning of an operation.
LEMMA BeginKeeps ==
  ASSUME LockInv, NEW t \in Threads, NEW what, Begin(t, what), program' = program, TypeRest',
         Follows(what, t, program.creator, stage),
         \A l \in Locks, n \in Nat : Covered(what, l, n)
  PROVE  LockInv'
<1>1. /\ stage[t] = "running" /\ code[t] = << >> /\ code' = [code EXCEPT ![t] = what]
      /\ holder' = holder /\ depth' = depth /\ stage' = stage
  BY DEF Begin, InPhp
<1>2. DOMAIN code = Threads /\ CodeInv
  BY Parts
<1>3. DOMAIN code' = Threads /\ code'[t] = what /\ \A u \in Threads \ {t} : code'[u] = code[u]
  BY <1>1, <1>2
<1>4. \A u \in Threads : Follows(code'[u], u, program.creator, stage)
  BY <1>2, <1>3 DEF CodeInv
<1>5. \A u \in Threads : stage[u] = "unborn" => code'[u] = << >>
  BY <1>1, <1>2, <1>3 DEF CodeInv
<1>6. CodeInv'
  BY <1>1, <1>4, <1>5 DEF CodeInv
<1>7. \A u \in Threads : Standing(u) => code'[u] = code[u] /\ stage'[u] = stage[u]
  BY <1>1, <1>3, NotStanding
<1>8. StartInv'
  BY <1>1, <1>7, StartKeeps
<1>9. CoverInv'
  <2>1. \A u \in Threads :
           \/ code'[u] = code[u]
           \/ \A l \in Locks, n \in Nat : Covered(code'[u], l, n)
    BY <1>3
  <2> QED
    BY <1>1, <2>1, CoverKeeps DEF lockVars
<1> QED
  BY <1>3, <1>6, <1>8, <1>9, Whole

LEMMA CallTypes ==
  ASSUME LockInv, NEW t \in Threads, NEW what, Call(t, what), program' = program, users' = users
  PROVE  TypeRest'
<1>1. /\ calls[t] < MaxCalls /\ calls' = [calls EXCEPT ![t] = @ + 1]
      /\ holder' = holder /\ depth' = depth /\ stage' = stage /\ joined' = joined
  BY DEF Call, Begin
<1>2. TypeRest
  BY Parts
<1>3. calls \in [Threads -> 0 .. MaxCalls]
  BY <1>2 DEF TypeRest
<1>4. calls' \in [Threads -> 0 .. MaxCalls]
  <2>1. calls[t] \in 0 .. MaxCalls
    BY <1>3
  <2>2. calls[t] + 1 \in 0 .. MaxCalls
    BY <1>1, <2>1, MaxCallsAssumption
  <2> QED
    BY <1>1, <1>3, <2>2
<1> QED
  BY <1>1, <1>2, <1>4 DEF TypeRest

LEMMA CallKeeps ==
  ASSUME LockInv, NEW t \in Threads, NEW what, Call(t, what), program' = program, users' = users,
         Good(what, {})
  PROVE  LockInv'
<1>1. TypeRest'
  BY CallTypes
<1>2. Begin(t, what)
  BY DEF Call
<1>3. Follows(what, t, program.creator, stage) /\ \A l \in Locks, n \in Nat : Covered(what, l, n)
  BY GoodBegins
<1> QED
  BY <1>1, <1>2, <1>3, BeginKeeps

LEMMA SimpleCallsKeep ==
  ASSUME LockInv, NEW t \in Threads, program' = program,
         \/ CallNew(t)
         \/ \E o \in Objects : CallAccess(t, o)
         \/ \E p \in program.merges : CallMerge(t, p)
  PROVE  LockInv'
<1>1. CASE CallNew(t)
  BY <1>1, CallKeeps, GoodSimple DEF CallNew
<1>2. ASSUME NEW o \in Objects, CallAccess(t, o) PROVE LockInv'
  BY <1>2, CallKeeps, GoodSimple, LocksAre DEF CallAccess
<1>3. ASSUME NEW p \in program.merges, CallMerge(t, p) PROVE LockInv'
  <2>1. program \in Programs
    BY Parts DEF TypeRest
  <2>2. program.merges \subseteq Objects \X Objects
    BY <2>1, ProgramsAssumption
  <2>3. p[1] \in Locks /\ p[2] \in Locks
    BY <2>2, LocksAre
  <2> QED
    BY <1>3, <2>3, CallKeeps, GoodSimple DEF CallMerge
<1> QED
  BY <1>1, <1>2, <1>3

LEMMA CallFreeKeeps ==
  ASSUME LockInv, NEW t \in Threads, NEW o \in Objects, CallFree(t, o), program' = program
  PROVE  LockInv'
<1>1. /\ calls[t] < MaxCalls /\ calls' = [calls EXCEPT ![t] = @ + 1]
      /\ holder' = holder /\ depth' = depth /\ stage' = stage /\ joined' = joined
      /\ users' = [users EXCEPT ![o] = @ \ {t}] /\ Begin(t, FreeObject(o))
  BY DEF CallFree, Call, Begin
<1>2. TypeRest
  BY Parts
<1>3. calls \in [Threads -> 0 .. MaxCalls] /\ users \in [Objects -> SUBSET Threads]
  BY <1>2 DEF TypeRest
<1>4. calls' \in [Threads -> 0 .. MaxCalls]
  <2>1. calls[t] \in 0 .. MaxCalls
    BY <1>3
  <2>2. calls[t] + 1 \in 0 .. MaxCalls
    BY <1>1, <2>1, MaxCallsAssumption
  <2> QED
    BY <1>1, <1>3, <2>2
<1>5. users' \in [Objects -> SUBSET Threads]
  BY <1>1, <1>3
<1>6. TypeRest'
  BY <1>1, <1>2, <1>4, <1>5 DEF TypeRest
<1>7. Good(FreeObject(o), {})
  BY GoodSimple, LocksAre
<1>8. /\ Follows(FreeObject(o), t, program.creator, stage)
      /\ \A l \in Locks, n \in Nat : Covered(FreeObject(o), l, n)
  BY <1>7, GoodBegins
<1> QED
  BY <1>1, <1>6, <1>8, BeginKeeps

LEMMA StartedAre ==
  ASSUME NEW t
  PROVE  Started(t) \subseteq Others /\ Reach(t) \subseteq Objects
  BY DEF Started, Children, Others, Reach

LEMMA CallDropKeeps ==
  ASSUME LockInv, NEW t \in Threads, NEW o \in Objects, NEW c \in Threads, CallDropChild(t, o, c),
         program' = program
  PROVE  LockInv'
<1>1. c \in Others /\ Reach(c) \subseteq Objects
  BY StartedAre DEF CallDropChild
<1>2. Good(DropChild(o, c, Reach(c)), {})
  BY <1>1, GoodDrop
<1> QED
  BY <1>2, CallKeeps DEF CallDropChild

LEMMA CallJoinKeeps ==
  ASSUME LockInv, NEW t \in Threads, NEW c \in Threads, CallJoin(t, c), program' = program
  PROVE  LockInv'
<1>1. c \in Others /\ Reach(c) \subseteq Objects
  BY StartedAre DEF CallJoin
<1>2. Good(Join(c, Reach(c)), {})
  BY <1>1, GoodJoin
<1>3. PICK what : what = Join(c, Reach(c))
  OBVIOUS
<1>4. Follows(what, t, program.creator, stage) /\ \A l \in Locks, n \in Nat : Covered(what, l, n)
  BY <1>2, <1>3, GoodBegins
<1>5. Begin(t, what) /\ users' = users /\ calls' = calls
  BY <1>3 DEF CallJoin
<1>6. TypeRest'
  <2>1. TypeRest /\ holder' = holder /\ depth' = depth /\ stage' = stage /\ joined' = joined
    BY <1>5, Parts DEF Begin
  <2> QED
    BY <1>5, <2>1 DEF TypeRest
<1> QED
  BY <1>4, <1>5, <1>6, BeginKeeps

LEMMA CallStartKeeps ==
  ASSUME LockInv, NEW t \in Threads, NEW c \in Threads, CallStart(t, c), program' = program
  PROVE  LockInv'
<1>1. c \in Others /\ program.creator[c] = t /\ stage[c] = "unborn"
  BY DEF CallStart, Children, Others
<1>2. stage[t] = "running"
  BY DEF CallStart, Begin, InPhp
<1>3. PICK what : what = Start(c)
  OBVIOUS
<1>4. Follows(what, t, program.creator, stage) /\ \A l \in Locks, n \in Nat : Covered(what, l, n)
  BY <1>1, <1>2, <1>3, StartBegins
<1>5. Begin(t, what) /\ users' = users /\ calls' = calls
  BY <1>3 DEF CallStart
<1>6. TypeRest'
  <2>1. TypeRest /\ holder' = holder /\ depth' = depth /\ stage' = stage /\ joined' = joined
    BY <1>5, Parts DEF Begin
  <2> QED
    BY <1>5, <2>1 DEF TypeRest
<1> QED
  BY <1>4, <1>5, <1>6, BeginKeeps

\* A thread ends its PHP code, at the end of run() or by a bailout.
LEMMA AwaitingKeeps ==
  ASSUME LockInv, NEW t \in Threads, stage[t] = "running", ~Standing(t),
         stage' = [stage EXCEPT ![t] = "awaiting"],
         code' = [code EXCEPT ![t] = << >>] \/ (code[t] = << >> /\ code' = code),
         UNCHANGED <<program, lockVars, joined, users, calls>>
  PROVE  LockInv'
<1>1. DOMAIN code = Threads /\ CodeInv /\ TypeRest
  BY Parts
<1>2. stage \in [Threads -> Range(Stages)] /\ "awaiting" \in Range(Stages)
  <2>1. 5 \in DOMAIN Stages
    BY StagesAre
  <2> QED
    BY <1>1, <2>1, StagesAre DEF TypeRest, Range
<1>3. /\ stage' \in [Threads -> Range(Stages)]
      /\ stage'[t] = "awaiting" /\ \A u \in Threads \ {t} : stage'[u] = stage[u]
  BY <1>2
<1>4. DOMAIN code' = Threads /\ code'[t] = << >> /\ \A u \in Threads \ {t} : code'[u] = code[u]
  BY <1>1
<1>5. TypeRest'
  BY <1>1, <1>3 DEF TypeRest, lockVars
<1>6. Good(<< >>, {})
  BY GoodNone
<1>7. ASSUME NEW u \in Threads PROVE Follows(code'[u], u, program.creator, stage')
  <2>1. CASE u = t
    BY <1>4, <1>6, <2>1, GoodBegins
  <2>2. CASE u # t
    <3>1. Follows(code[u], u, program.creator, stage) /\ stage'[u] = stage[u]
      BY <1>1, <1>3, <2>2 DEF CodeInv
    <3>2. \A c \in Others : stage[c] \in Late => stage'[c] \in Late
      BY <1>3 DEF Late, Others
    <3>3. \A i \in 1 .. Len(code[u]) : code[u][i].do = "create" => stage'[code[u][i].on] = "unborn"
      <4> SUFFICES ASSUME NEW i \in 1 .. Len(code[u]), code[u][i].do = "create"
                   PROVE  stage'[code[u][i].on] = "unborn"
        OBVIOUS
      <4>1. stage[code[u][i].on] = "unborn"
        BY <3>1 DEF Follows, CreatesOne
      <4>2. code[u][i] \in Instr
        BY <3>1, ElementOfSeq DEF Follows
      <4>3. code[u][i].on \in Threads
        BY <4>2, InstrIs DEF Others
      <4> QED
        BY <1>3, <4>1, <4>3
    <3>4. Follows(code[u], u, program.creator, stage')
      BY <3>1, <3>2, <3>3, FollowsStage
    <3> QED
      BY <1>4, <2>2, <3>4
  <2> QED
    BY <2>1, <2>2
<1>8. \A u \in Threads : stage'[u] = "unborn" => code'[u] = << >>
  BY <1>1, <1>3, <1>4 DEF CodeInv
<1>9. CodeInv'
  BY <1>7, <1>8 DEF CodeInv
<1>10. StartInv'
  <2>1. \A c \in Others : stage'[c] = "starting" => stage[c] = "starting"
    BY <1>3 DEF Others
  <2>2. \A u \in Threads : Standing(u) => code'[u] = code[u] /\ stage'[u] = stage[u]
    BY <1>3, <1>4
  <2> QED
    BY <2>1, <2>2, StartKeeps
<1>11. CoverInv'
  <2>1. \A u \in Threads :
           \/ code'[u] = code[u]
           \/ \A l \in Locks, n \in Nat : Covered(code'[u], l, n)
    BY <1>4, <1>6, GoodBegins
  <2> QED
    BY <2>1, CoverKeeps
<1> QED
  BY <1>4, <1>5, <1>9, <1>10, <1>11, Whole


\* What the first step of an operation can be.
LEMMA FirstIs ==
  ASSUME LockInv, NEW t \in Threads, code[t] # << >>
  PROVE  /\ code[t] \in Seq(Instr) /\ code[t][1] \in Instr /\ Head(code[t]) = code[t][1]
         /\ Len(code[t]) \in Nat /\ 1 \in 1 .. Len(code[t])
<1>1. code[t] \in Seq(Instr)
  BY Parts
<1>2. Len(code[t]) \in Nat \ {0}
  BY <1>1, EmptySeq
<1>3. 1 \in 1 .. Len(code[t])
  BY <1>2
<1>4. code[t][1] \in Instr
  BY <1>1, <1>3, ElementOfSeq
<1> QED
  BY <1>1, <1>2, <1>3, <1>4

LEMMA LockKeeps ==
  ASSUME LockInv, NEW t \in Threads, code[t] # << >>, ~Standing(t), NEW l,
         code[t][1] = Lock(l), Lockable(t, l),
         holder' = [holder EXCEPT ![l] = t], depth' = [depth EXCEPT ![l] = @ + 1],
         code' = [code EXCEPT ![t] = Tail(@)], UNCHANGED <<program, stage, joined, users, calls>>
  PROVE  LockInv'
<1>1. l \in Locks /\ code[t][1].do = "lock"
  BY FirstIs, InstrIs DEF Lock
<1>2. TypeRest /\ DOMAIN code = Threads /\ CoverInv
  BY Parts
<1>3. /\ holder \in [Locks -> Threads \cup {None}] /\ depth \in [Locks -> Nat]
      /\ \A k \in Locks : holder[k] = None <=> depth[k] = 0
  BY <1>2 DEF TypeRest
<1>4. t # None
  BY NoneAssumption
<1>5. /\ holder' \in [Locks -> Threads \cup {None}] /\ depth' \in [Locks -> Nat]
      /\ holder'[l] = t /\ depth'[l] = depth[l] + 1
      /\ \A k \in Locks \ {l} : holder'[k] = holder[k] /\ depth'[k] = depth[k]
  BY <1>1, <1>3
<1>6. \A k \in Locks : holder'[k] = None <=> depth'[k] = 0
  <2>1. depth[l] + 1 # 0
    BY <1>1, <1>3
  <2> QED
    BY <1>3, <1>4, <1>5, <2>1
<1>7. TypeRest'
  BY <1>2, <1>5, <1>6 DEF TypeRest
<1>8. CodeInv' /\ StartInv' /\ DOMAIN code' = Threads
  BY <1>1, CodeMoves
<1>9. ASSUME NEW u \in Threads, NEW k \in Locks PROVE Covered(code'[u], k, Held(u, k)')
  <2>1. Covered(code[u], k, Held(u, k)) /\ Held(u, k) \in Nat
    BY <1>2, HeldIs DEF CoverInv
  <2>2. CASE u # t
    <3>1. code'[u] = code[u]
      BY <1>2, <2>2
    <3>2. Held(u, k)' = Held(u, k)
      <4>1. u # None
        BY NoneAssumption
      <4>2. k = l => holder[k] # u
        BY <2>2, <4>1 DEF Lockable
      <4> QED
        BY <1>5, <2>2, <4>2 DEF Held
    <3> QED
      BY <2>1, <3>1, <3>2
  <2>3. CASE u = t
    <3>1. code'[u] = Tail(code[u])
      BY <1>2, <2>3
    <3>2. Covered(Tail(code[u]), k, Held(u, k) + Takes(Lock(l), k))
      BY <2>1, <2>3, FirstIs, CoveredNext
    <3>3. Held(u, k)' = Held(u, k) + Takes(Lock(l), k)
      <4>1. CASE k = l
        <5>1. Takes(Lock(l), k) = 1
          BY <4>1 DEF Takes
        <5>2. Held(u, k) = depth[l]
          BY <1>1, <1>3, <2>3, <4>1 DEF Held, Lockable
        <5>3. Held(u, k)' = depth[l] + 1
          BY <1>5, <2>3, <4>1 DEF Held
        <5> QED
          BY <5>1, <5>2, <5>3
      <4>2. CASE k # l
        <5>1. Takes(Lock(l), k) = 0
          BY <4>2 DEF Takes, Lock, Unlock
        <5>2. Held(u, k)' = Held(u, k)
          BY <1>5, <4>2 DEF Held
        <5> QED
          BY <2>1, <5>1, <5>2
      <4> QED
        BY <4>1, <4>2
    <3> QED
      BY <3>1, <3>2, <3>3
  <2> QED
    BY <2>2, <2>3
<1>10. CoverInv'
  BY <1>9 DEF CoverInv
<1> QED
  BY <1>7, <1>8, <1>10, Whole

LEMMA UnlockKeeps ==
  ASSUME LockInv, NEW t \in Threads, code[t] # << >>, ~Standing(t), NEW l,
         code[t][1] = Unlock(l),
         holder' = [holder EXCEPT ![l] = IF depth[l] = 1 THEN None ELSE t],
         depth' = [depth EXCEPT ![l] = @ - 1],
         code' = [code EXCEPT ![t] = Tail(@)], UNCHANGED <<program, stage, joined, users, calls>>
  PROVE  LockInv'
<1>1. l \in Locks /\ code[t][1].do = "unlock"
  BY FirstIs, InstrIs DEF Unlock
<1>2. TypeRest /\ DOMAIN code = Threads /\ CoverInv
  BY Parts
<1>3. /\ holder \in [Locks -> Threads \cup {None}] /\ depth \in [Locks -> Nat]
      /\ \A k \in Locks : holder[k] = None <=> depth[k] = 0
  BY <1>2 DEF TypeRest
<1>4. t # None
  BY NoneAssumption
<1>0. Takes(Unlock(l), l) = -1
  BY DEF Takes, Lock, Unlock
<1>11. holder[l] = t /\ depth[l] \in Nat \ {0}
  <2>1. Held(t, l) + Takes(Unlock(l), l) \in Nat /\ Held(t, l) \in Nat
    BY <1>1, <1>2, FirstIs, HeldIs, CoveredNext DEF CoverInv
  <2>2. Held(t, l) # 0
    BY <1>0, <2>1
  <2> QED
    BY <1>1, <1>3, <2>1, <2>2 DEF Held
<1>12. depth[l] - 1 \in Nat /\ (depth[l] = 1 <=> depth[l] - 1 = 0)
  BY <1>11
<1>5. /\ holder' \in [Locks -> Threads \cup {None}] /\ depth' \in [Locks -> Nat]
      /\ holder'[l] = (IF depth[l] = 1 THEN None ELSE t) /\ depth'[l] = depth[l] - 1
      /\ \A k \in Locks \ {l} : holder'[k] = holder[k] /\ depth'[k] = depth[k]
  BY <1>1, <1>3, <1>12
<1>6. \A k \in Locks : holder'[k] = None <=> depth'[k] = 0
  BY <1>3, <1>4, <1>5, <1>12
<1>7. TypeRest'
  BY <1>2, <1>5, <1>6 DEF TypeRest
<1>8. CodeInv' /\ StartInv' /\ DOMAIN code' = Threads
  BY <1>1, CodeMoves
<1>9. ASSUME NEW u \in Threads, NEW k \in Locks PROVE Covered(code'[u], k, Held(u, k)')
  <2>1. Covered(code[u], k, Held(u, k)) /\ Held(u, k) \in Nat
    BY <1>2, HeldIs DEF CoverInv
  <2>2. CASE u # t
    <3>1. code'[u] = code[u]
      BY <1>2, <2>2
    <3>2. Held(u, k)' = Held(u, k)
      <4>1. u # None
        BY NoneAssumption
      <4>2. k = l => holder[k] # u /\ holder'[k] # u
        BY <1>5, <1>11, <2>2, <4>1
      <4> QED
        BY <1>5, <2>2, <4>2 DEF Held
    <3> QED
      BY <2>1, <3>1, <3>2
  <2>3. CASE u = t
    <3>1. code'[u] = Tail(code[u])
      BY <1>2, <2>3
    <3>2. Covered(Tail(code[u]), k, Held(u, k) + Takes(Unlock(l), k))
      BY <2>1, <2>3, FirstIs, CoveredNext
    <3>3. Held(u, k)' = Held(u, k) + Takes(Unlock(l), k)
      <4>1. CASE k = l
        <5>1. Held(u, k) = depth[l] /\ Held(u, k)' = depth[l] - 1
          BY <1>4, <1>5, <1>11, <1>12, <2>3, <4>1 DEF Held
        <5> QED
          BY <1>0, <1>11, <4>1, <5>1
      <4>2. CASE k # l
        <5>1. Takes(Unlock(l), k) = 0
          BY <4>2 DEF Takes, Lock, Unlock
        <5>2. Held(u, k)' = Held(u, k)
          BY <1>5, <4>2 DEF Held
        <5> QED
          BY <2>1, <5>1, <5>2
      <4> QED
        BY <4>1, <4>2
    <3> QED
      BY <3>1, <3>2, <3>3
  <2> QED
    BY <2>2, <2>3
<1>10. CoverInv'
  BY <1>9 DEF CoverInv
<1> QED
  BY <1>7, <1>8, <1>10, Whole

\* Setting JOINED, and the end of a wait.
LEMMA PlainKeeps ==
  ASSUME LockInv, NEW t \in Threads, code[t] # << >>, ~Standing(t),
         code[t][1].do \notin {"lock", "unlock"}, joined' \subseteq Others,
         code[t][1].do = "awaiting" => stage[code[t][1].on] \in Late,
         code' = [code EXCEPT ![t] = Tail(@)], UNCHANGED <<program, lockVars, stage, users, calls>>
  PROVE  LockInv'
<1>1. TypeRest /\ DOMAIN code = Threads
  BY Parts
<1>2. TypeRest'
  BY <1>1 DEF TypeRest, lockVars, Others
<1>3. CodeInv' /\ StartInv' /\ DOMAIN code' = Threads
  BY CodeMoves
<1>4. \A u \in Threads :
           \/ code'[u] = code[u]
           \/ /\ code[u] # << >> /\ code'[u] = Tail(code[u])
              /\ code[u][1].do \notin {"lock", "unlock"}
  BY <1>1
<1>5. CoverInv'
  BY <1>4, CoverKeeps
<1> QED
  BY <1>2, <1>3, <1>5, Whole


\* One thread w comes to another stage.
Advances(w, st, st2) ==
  (\A v \in Threads \ {w} : st2[v] = st[v]) /\ (st[w] \in Late => st2[w] \in Late)

\* Then the operation of u goes on as before.
LEMMA FollowsOther ==
  ASSUME NEW s, NEW u \in Threads, NEW w \in Threads, NEW creator, NEW st, NEW st2, u # w,
         Follows(s, u, creator, st), Advances(w, st, st2), st[w] = "unborn" => creator[w] # u
  PROVE  Follows(s, u, creator, st2)
<1>0. (\A v \in Threads \ {w} : st2[v] = st[v]) /\ (st[w] \in Late => st2[w] \in Late)
  BY DEF Advances
<1>1. st2[u] = st[u] /\ \A c \in Others : st[c] \in Late => st2[c] \in Late
  BY <1>0 DEF Others
<1>2. ASSUME NEW i \in 1 .. Len(s), s[i].do = "create" PROVE st2[s[i].on] = "unborn"
  <2>1. st[s[i].on] = "unborn" /\ creator[s[i].on] = u
    BY <1>2 DEF Follows, CreatesOne
  <2>2. s[i] \in Instr
    BY ElementOfSeq DEF Follows
  <2>3. s[i].on \in Threads
    BY <1>2, <2>2, InstrIs DEF Others
  <2> QED
    BY <1>0, <2>1, <2>3
<1> QED
  BY <1>1, <1>2, FollowsStage

LEMMA StagesHave ==
  /\ "starting" \in Range(Stages) /\ "exiting" \in Range(Stages) /\ "ready" \in Range(Stages)
  /\ "running" \in Range(Stages) /\ "dead" \in Range(Stages)
<1>1. 2 \in DOMAIN Stages /\ 6 \in DOMAIN Stages /\ 3 \in DOMAIN Stages
      /\ 4 \in DOMAIN Stages /\ 7 \in DOMAIN Stages
  BY StagesAre
<1> QED
  BY <1>1, StagesAre DEF Range

\* The part every change of one stage has in common.
LEMMA StageTypes ==
  ASSUME LockInv, NEW c \in Threads, NEW x \in Range(Stages), stage' = [stage EXCEPT ![c] = x],
         UNCHANGED <<program, lockVars, joined, users, calls>>
  PROVE  /\ TypeRest' /\ stage'[c] = x
         /\ \A u \in Threads \ {c} : stage'[u] = stage[u]
<1>1. TypeRest
  BY Parts
<1>2. stage \in [Threads -> Range(Stages)]
  BY <1>1 DEF TypeRest
<1>3. stage' \in [Threads -> Range(Stages)]
  BY <1>2
<1>4. TypeRest'
  BY <1>1, <1>3 DEF TypeRest, lockVars
<1> QED
  BY <1>2, <1>4

LEMMA CreateKeeps ==
  ASSUME LockInv, NEW t \in Threads, code[t] # << >>, ~Standing(t), NEW c,
         code[t][1].do = "create", code[t][1].on = c,
         stage' = [stage EXCEPT ![c] = "starting"],
         code' = [[code EXCEPT ![t] = Tail(@)] EXCEPT ![c] = PreparedStartup],
         UNCHANGED <<program, lockVars, joined, users, calls>>
  PROVE  LockInv'
<1>1. c \in Others /\ c \in Threads
  BY FirstIs, InstrIs DEF Others
<1>2. DOMAIN code = Threads /\ CodeInv /\ StartInv
  BY Parts
<1>3. Follows(code[t], t, program.creator, stage)
  BY <1>2 DEF CodeInv
<1>4. /\ Len(code[t]) = 2 /\ code[t][2] = Ready(c)
      /\ program.creator[c] = t /\ stage[c] = "unborn" /\ stage[t] = "running"
  <2>1. 1 + 1 = Len(code[t]) /\ code[t][1 + 1] = Ready(c)
        /\ program.creator[c] = t /\ stage[c] = "unborn" /\ stage[t] = "running"
    BY <1>3, FirstIs, Zenon DEF Follows, CreatesOne
  <2> QED
    BY <2>1
<1>5. c # t
  BY <1>4
<1>6. /\ TypeRest' /\ stage'[c] = "starting"
      /\ \A u \in Threads \ {c} : stage'[u] = stage[u]
  BY <1>1, StageTypes, StagesHave
<1>7. /\ DOMAIN code' = Threads /\ code'[c] = PreparedStartup /\ code'[t] = Tail(code[t])
      /\ \A u \in Threads \ {c, t} : code'[u] = code[u]
  BY <1>1, <1>2, <1>5
<1>8. Tail(code[t]) = <<Ready(c)>>
  <2>1. PICK s \in Seq(Instr) : s = code[t]
    BY <1>3 DEF Follows
  <2>2. PICK u : u = Tail(s)
    OBVIOUS
  <2>3. u \in Seq(Instr) /\ Len(u) = Len(s) - 1 /\ \A i \in 1 .. Len(u) : u[i] = s[i + 1]
    BY <2>1, <2>2, HeadTailProperties
  <2>4. Len(s) = 2 /\ s[2] = Ready(c)
    BY <1>4, <2>1
  <2>5. Len(u) = 1 /\ u[1] = Ready(c)
    BY <2>3, <2>4
  <2>6. PICK x \in Instr : x = Ready(c)
    BY <1>1 DEF Instr, Ready
  <2>7. PICK v : v = <<x>>
    OBVIOUS
  <2>8. v \in Seq(Instr) /\ Len(v) = 1 /\ v[1] = x
    BY <2>7, InstrOne
  <2>9. \A i \in 1 .. Len(u) : u[i] = v[i]
    BY <2>5, <2>6, <2>8
  <2>10. u = v
    BY <2>3, <2>5, <2>8, <2>9, SeqEqual
  <2> QED
    BY <2>1, <2>2, <2>6, <2>7, <2>10
<1>9. Good(Tail(code[t]), {})
  <2>1. Ready(c) \in [do : {"joined", "exit", "ready", "awaiting", "dead"}, on : {c}]
        /\ Ready(c).do # "exit"
    BY DEF Ready
  <2>2. Good(<<Ready(c)>>, {})
    BY <1>1, <2>1, GoodOne
  <2> QED
    BY <1>8, <2>2
<1>10. Follows(PreparedStartup, c, program.creator, stage')
       /\ \A l \in Locks, n \in Nat : Covered(PreparedStartup, l, n)
  <2>1. PICK st, creator : st = stage' /\ creator = program.creator /\ st[c] = "starting"
    BY <1>6
  <2>2. Follows(PreparedStartup, c, creator, st)
    BY <2>1, StartupBegins
  <2>3. \A l \in Locks, n \in Nat : Covered(PreparedStartup, l, n)
    BY <2>1, StartupBegins
  <2> QED
    BY <2>1, <2>2, <2>3
<1>11. ASSUME NEW u \in Threads PROVE Follows(code'[u], u, program.creator, stage')
  <2>1. CASE u = c
    BY <1>7, <1>10, <2>1
  <2>2. CASE u = t
    BY <1>7, <1>9, <2>2, GoodBegins
  <2>3. CASE u # c /\ u # t
    <3>1. Follows(code[u], u, program.creator, stage)
      BY <1>2 DEF CodeInv
    <3>2. Advances(c, stage, stage') /\ program.creator[c] # u
      BY <1>4, <1>6, <2>3 DEF Late, Advances
    <3>3. Follows(code[u], u, program.creator, stage')
      BY <1>1, <2>3, <3>1, <3>2, FollowsOther, Zenon
    <3> QED
      BY <1>7, <2>3, <3>3
  <2> QED
    BY <2>1, <2>2, <2>3
<1>12. \A u \in Threads : stage'[u] = "unborn" => code'[u] = << >>
  BY <1>2, <1>4, <1>5, <1>6, <1>7 DEF CodeInv
<1>13. CodeInv'
  BY <1>11, <1>12 DEF CodeInv
<1>14. CoverInv'
  <2>1. \A u \in Threads :
           \/ code'[u] = code[u]
           \/ \A l \in Locks, n \in Nat : Covered(code'[u], l, n)
    BY <1>7, <1>9, <1>10, GoodBegins
  <2> QED
    BY <2>1, CoverKeeps
<1>15. ASSUME NEW k \in Others, stage'[k] = "starting"
       PROVE  stage'[program.creator[k]] = "running" /\ code'[program.creator[k]] = <<Ready(k)>>
  <2>1. CASE k = c
    <3>1. stage'[t] = "running" /\ code'[t] = <<Ready(c)>>
      BY <1>4, <1>5, <1>6, <1>7, <1>8
    <3> QED
      BY <1>4, <2>1, <3>1
  <2>2. CASE k # c
    <3>1. stage[k] = "starting" /\ program.creator[k] \in Threads
      BY <1>6, <1>15, <2>2, Parts DEF Others
    <3>2. stage[program.creator[k]] = "running" /\ code[program.creator[k]] = <<Ready(k)>>
      BY <1>2, <3>1 DEF StartInv
    <3>3. Standing(program.creator[k])
      BY <3>1, <3>2 DEF Standing
    <3>4. program.creator[k] # t /\ program.creator[k] # c
      BY <1>4, <3>2, <3>3
    <3> QED
      BY <1>6, <1>7, <3>1, <3>2, <3>4
  <2> QED
    BY <2>1, <2>2
<1>16. StartInv'
  BY <1>15 DEF StartInv
<1> QED
  BY <1>6, <1>7, <1>13, <1>14, <1>16, Whole

LEMMA ExitKeeps ==
  ASSUME LockInv, NEW t \in Threads, code[t] # << >>, ~Standing(t), NEW c,
         code[t][1].do = "exit", code[t][1].on = c,
         stage' = [stage EXCEPT ![c] = "exiting"],
         code' = [[code EXCEPT ![t] = Tail(@)] EXCEPT ![c] = RoutineEnd(c, Reach(c), Started(c))],
         UNCHANGED <<program, lockVars, joined, users, calls>>
  PROVE  LockInv'
<1>1. c \in Others /\ c \in Threads
  BY FirstIs, InstrIs DEF Others
<1>2. DOMAIN code = Threads /\ CodeInv /\ StartInv
  BY Parts
<1>3. Follows(code[t], t, program.creator, stage)
  BY <1>2 DEF CodeInv
<1>4. stage[c] \in Late
  <2>1. stage[c] \in Late \/ \E j \in 1 .. 1 - 1 : code[t][j] = Await(c)
    BY <1>3, FirstIs, Zenon DEF Follows, ExitsAwaiting
  <2>2. \A j : j \notin 1 .. 1 - 1
    OBVIOUS
  <2> QED
    BY <2>1, <2>2
<1>5. /\ TypeRest' /\ stage'[c] = "exiting"
      /\ \A u \in Threads \ {c} : stage'[u] = stage[u]
  BY <1>1, StageTypes, StagesHave
<1>6. PICK end : end = RoutineEnd(c, Reach(c), Started(c))
  OBVIOUS
<1>7. /\ DOMAIN code' = Threads /\ code'[c] = end /\ (t # c => code'[t] = Tail(code[t]))
      /\ \A u \in Threads \ {c, t} : code'[u] = code[u]
  BY <1>1, <1>2, <1>6
<1>8. Follows(end, c, program.creator, stage') /\ \A l \in Locks, n \in Nat : Covered(end, l, n)
  BY <1>1, <1>5, <1>6, StartedAre, EndBegins
<1>9. Advances(c, stage, stage') /\ stage[c] # "unborn"
  BY <1>4, <1>5 DEF Late, Advances
<1>10. ASSUME NEW u \in Threads PROVE Follows(code'[u], u, program.creator, stage')
  <2>1. CASE u = c
    BY <1>7, <1>8, <2>1
  <2>2. CASE u = t /\ u # c
    <3>1. Follows(Tail(code[t]), t, program.creator, stage)
      BY <1>3, FollowsTail
    <3>2. Follows(Tail(code[t]), t, program.creator, stage')
      BY <1>1, <1>9, <2>2, <3>1, FollowsOther, Zenon
    <3> QED
      BY <1>7, <2>2, <3>2
  <2>3. CASE u # c /\ u # t
    <3>1. Follows(code[u], u, program.creator, stage)
      BY <1>2 DEF CodeInv
    <3>2. Follows(code[u], u, program.creator, stage')
      BY <1>1, <1>9, <2>3, <3>1, FollowsOther, Zenon
    <3> QED
      BY <1>7, <2>3, <3>2
  <2> QED
    BY <2>1, <2>2, <2>3
<1>11. \A u \in Threads : stage'[u] = "unborn" => code'[u] = << >>
  BY <1>2, <1>5, <1>7 DEF CodeInv
<1>12. CodeInv'
  BY <1>10, <1>11 DEF CodeInv
<1>13. CoverInv'
  <2>1. \A u \in Threads :
           \/ code'[u] = code[u]
           \/ \A l \in Locks, n \in Nat : Covered(code'[u], l, n)
           \/ /\ code[u] # << >> /\ code'[u] = Tail(code[u])
              /\ code[u][1].do \notin {"lock", "unlock"}
    BY <1>7, <1>8
  <2> QED
    BY <2>1, CoverKeeps
<1>14. StartInv'
  <2>1. \A k \in Others : stage'[k] = "starting" => stage[k] = "starting"
    BY <1>5 DEF Others
  <2>2. \A u \in Threads : Standing(u) => u # c /\ u # t
    BY <1>4 DEF Standing, Late
  <2>3. \A u \in Threads : Standing(u) => code'[u] = code[u] /\ stage'[u] = stage[u]
    BY <1>5, <1>7, <2>2
  <2> QED
    BY <2>1, <2>3, StartKeeps
<1> QED
  BY <1>5, <1>7, <1>12, <1>13, <1>14, Whole


LEMMA BecomeKeeps ==
  ASSUME LockInv, NEW t \in Threads, code[t] # << >>, ~Standing(t), NEW x,
         code[t][1].do = "become", code[t][1].on = x,
         stage' = [stage EXCEPT ![t] = x], code' = [code EXCEPT ![t] = Tail(@)],
         UNCHANGED <<program, lockVars, joined, users, calls>>
  PROVE  LockInv'
<1>1. x \in {"ready", "running", "dead"}
  BY FirstIs, InstrIs
<1>2. DOMAIN code = Threads /\ CodeInv /\ StartInv
  BY Parts
<1>3. Follows(code[t], t, program.creator, stage)
  BY <1>2 DEF CodeInv
<1>4. \/ /\ x = "ready" /\ stage[t] = "starting"
         /\ \A j \in 1 + 1 .. Len(code[t]) : code[t][j] # Become("ready")
      \/ x = "running" /\ stage[t] \in {"starting", "ready"} /\ 1 = Len(code[t])
      \/ x = "dead" /\ stage[t] \in {"exiting", "dead"}
  BY <1>3, FirstIs, Zenon DEF Follows, BecomesInOrder
<1>5. /\ TypeRest' /\ stage'[t] = x
      /\ \A u \in Threads \ {t} : stage'[u] = stage[u]
  BY <1>1, StageTypes, StagesHave
<1>6. PICK u : u = Tail(code[t])
  OBVIOUS
<1>7. DOMAIN code' = Threads /\ code'[t] = u /\ \A v \in Threads \ {t} : code'[v] = code[v]
  BY <1>2, <1>6
<1>8. /\ u \in Seq(Instr) /\ Len(u) = Len(code[t]) - 1
      /\ \A i \in 1 .. Len(u) : u[i] = code[t][i + 1]
  BY <1>6, FirstIs, HeadTailProperties
<1>9. Advances(t, stage, stage') /\ stage[t] # "unborn"
  BY <1>4, <1>5 DEF Late, Advances
<1>10. Follows(u, t, program.creator, stage)
  BY <1>3, <1>6, FollowsTail
<1>11. CreatesOne(u, t, program.creator, stage')
  <2>1. stage[t] # "running"
    BY <1>4
  <2> QED
    BY <1>10, <2>1 DEF Follows, CreatesOne
<1>12. ExitsAwaiting(u, stage')
  <2>1. \A i \in 1 .. Len(u) : u[i].do = "exit" => u[i].on \in Threads
    <3>1. \A i \in 1 .. Len(u) : u[i] \in Instr
      BY <1>8, ElementOfSeq
    <3> QED
      BY <3>1, InstrIs DEF Others
  <2>2. \A c \in Threads : stage[c] \in Late => stage'[c] \in Late
    BY <1>9 DEF Advances
  <2> QED
    BY <1>10, <2>1, <2>2 DEF Follows, ExitsAwaiting
<1>13. BecomesInOrder(u, t, stage')
  <2>0. BecomesInOrder(u, t, stage)
    BY <1>10 DEF Follows
  <2>1. CASE x = "dead" /\ stage[t] \in {"exiting", "dead"}
    BY <1>5, <2>0, <2>1 DEF BecomesInOrder
  <2>2. CASE x = "running" /\ 1 = Len(code[t])
    <3>1. \A i : i \notin 1 .. Len(u)
      BY <1>8, <2>2
    <3> QED
      BY <3>1 DEF BecomesInOrder
  <2>3. CASE /\ x = "ready" /\ stage[t] = "starting"
             /\ \A j \in 1 + 1 .. Len(code[t]) : code[t][j] # Become("ready")
    <3> SUFFICES ASSUME NEW i \in 1 .. Len(u), u[i].do = "become"
                 PROVE  u[i].on = "running" /\ i = Len(u)
      BY <1>5, <2>3 DEF BecomesInOrder
    <3>1. u[i] # Become("ready")
      <4>1. i + 1 \in 1 + 1 .. Len(code[t])
        BY <1>8, FirstIs
      <4> QED
        BY <1>8, <2>3, <4>1
    <3>2. u[i] \in Instr
      BY <1>8, ElementOfSeq
    <3>3. u[i].on # "ready"
      BY <3>1, <3>2 DEF Instr, Become
    <3> QED
      BY <2>0, <2>3, <3>3 DEF BecomesInOrder
  <2> QED
    BY <1>4, <2>1, <2>2, <2>3
<1>14. Follows(u, t, program.creator, stage')
  BY <1>8, <1>11, <1>12, <1>13 DEF Follows
<1>15. ASSUME NEW v \in Threads PROVE Follows(code'[v], v, program.creator, stage')
  <2>1. CASE v = t
    BY <1>7, <1>14, <2>1
  <2>2. CASE v # t
    <3>1. Follows(code[v], v, program.creator, stage)
      BY <1>2 DEF CodeInv
    <3>2. Follows(code[v], v, program.creator, stage')
      BY <1>9, <2>2, <3>1, FollowsOther, Zenon
    <3> QED
      BY <1>7, <2>2, <3>2
  <2> QED
    BY <2>1, <2>2
<1>16. \A v \in Threads : stage'[v] = "unborn" => code'[v] = << >>
  BY <1>1, <1>2, <1>5, <1>7 DEF CodeInv
<1>17. CodeInv'
  BY <1>15, <1>16 DEF CodeInv
<1>18. CoverInv'
  <2>1. \A v \in Threads :
           \/ code'[v] = code[v]
           \/ /\ code[v] # << >> /\ code'[v] = Tail(code[v])
              /\ code[v][1].do \notin {"lock", "unlock"}
    BY <1>6, <1>7
  <2> QED
    BY <2>1, CoverKeeps
<1>19. StartInv'
  <2>1. \A k \in Others : stage'[k] = "starting" => stage[k] = "starting"
    BY <1>1, <1>5 DEF Others
  <2>2. \A v \in Threads : Standing(v) => code'[v] = code[v] /\ stage'[v] = stage[v]
    BY <1>5, <1>7
  <2> QED
    BY <2>1, <2>2, StartKeeps
<1> QED
  BY <1>5, <1>7, <1>17, <1>18, <1>19, Whole

LEMMA StepKeeps ==
  ASSUME LockInv, NEW t \in Threads, Step(t), program' = program
  PROVE  LockInv'
<1>1. code[t] # << >> /\ users' = users /\ calls' = calls
  BY DEF Step
<1>2. ~Standing(t)
  BY StandsStill
<1>3. PICK x \in Instr : x = code[t][1] /\ x = Head(code[t])
  BY <1>1, FirstIs
<1> DEFINE next == [code EXCEPT ![t] = Tail(@)]
<1>4. CASE /\ x.do = "lock" /\ Lockable(t, x.on)
           /\ holder' = [holder EXCEPT ![x.on] = t]
           /\ depth' = [depth EXCEPT ![x.on] = @ + 1]
           /\ code' = next /\ UNCHANGED <<stage, joined>>
  <2>1. code[t][1] = Lock(x.on)
    BY <1>3, <1>4, InstrIs
  <2> QED
    BY <1>1, <1>2, <1>4, <2>1, LockKeeps
<1>5. CASE /\ x.do = "unlock"
           /\ depth' = [depth EXCEPT ![x.on] = @ - 1]
           /\ holder' = [holder EXCEPT ![x.on] = IF depth[x.on] = 1 THEN None ELSE t]
           /\ code' = next /\ UNCHANGED <<stage, joined>>
  <2>1. code[t][1] = Unlock(x.on)
    BY <1>3, <1>5, InstrIs
  <2> QED
    BY <1>1, <1>2, <1>5, <2>1, UnlockKeeps
<1>6. CASE /\ x.do = "create"
           /\ stage' = [stage EXCEPT ![x.on] = "starting"]
           /\ code' = [next EXCEPT ![x.on] = PreparedStartup]
           /\ UNCHANGED <<lockVars, joined>>
  BY <1>1, <1>2, <1>3, <1>6, CreateKeeps
<1>7. CASE /\ x.do = "joined"
           /\ joined' = joined \cup {x.on}
           /\ code' = next /\ UNCHANGED <<lockVars, stage>>
  <2>1. x.on \in Others /\ joined \subseteq Others
    BY <1>7, InstrIs, Parts DEF TypeRest, Others
  <2>2. joined' \subseteq Others /\ code[t][1].do \notin {"lock", "unlock", "awaiting"}
    BY <1>3, <1>7, <2>1
  <2> QED
    BY <1>1, <1>2, <1>7, <2>2, PlainKeeps
<1>8. CASE /\ x.do = "exit"
           /\ stage' = [stage EXCEPT ![x.on] = "exiting"]
           /\ code' = [next EXCEPT ![x.on] = RoutineEnd(x.on, Reach(x.on), Started(x.on))]
           /\ UNCHANGED <<lockVars, joined>>
  BY <1>1, <1>2, <1>3, <1>8, ExitKeeps
<1>9. CASE /\ x.do \in {"ready", "awaiting", "dead"}
           /\ StageOf(stage[x.on]) >= StageOf(x.do)
           /\ code' = next /\ UNCHANGED <<lockVars, stage, joined>>
  <2>1. x.on \in Others /\ joined' \subseteq Others /\ stage[x.on] \in Range(Stages)
    BY <1>9, InstrIs, Parts DEF TypeRest, Others
  <2>2. code[t][1].do = "awaiting" => stage[code[t][1].on] \in Late
    BY <1>3, <1>9, <2>1, WaitsRight
  <2>3. code[t][1].do \notin {"lock", "unlock"}
    BY <1>3, <1>9
  <2> QED
    BY <1>1, <1>2, <1>9, <2>1, <2>2, <2>3, PlainKeeps
<1>10. CASE /\ x.do = "become"
            /\ stage' = [stage EXCEPT ![t] = x.on]
            /\ code' = next /\ UNCHANGED <<lockVars, joined>>
  BY <1>1, <1>2, <1>3, <1>10, BecomeKeeps
<1> HIDE DEF next
<1> QED
  BY <1>3, <1>4, <1>5, <1>6, <1>7, <1>8, <1>9, <1>10 DEF Step, next

LEMMA EndsKeep ==
  ASSUME LockInv, NEW t \in Threads, RunReturns(t) \/ Bailout(t), program' = program
  PROVE  LockInv'
<1>1. DOMAIN code = Threads /\ TypeRest
  BY Parts
<1>2. CASE RunReturns(t)
  <2>1. stage[t] = "running" /\ code[t] = << >> /\ code' = code
    BY <1>2 DEF RunReturns, InPhp
  <2>2. ~Standing(t)
    BY <2>1, NotStanding
  <2>3. stage' = [stage EXCEPT ![t] = "awaiting"] /\ UNCHANGED <<lockVars, joined, users, calls>>
    BY <1>2 DEF RunReturns
  <2> QED
    BY <2>1, <2>2, <2>3, AwaitingKeeps
<1>3. CASE Bailout(t)
  <2>1. PICK o \in Objects : code[t] # << >> /\ Last(code[t]) = Unlock(o)
    BY <1>3 DEF Bailout
  <2>2. ~Standing(t)
    <3> SUFFICES ASSUME NEW c \in Others, code[t] = <<Ready(c)>>
                 PROVE  FALSE
      BY DEF Standing
    <3>1. Last(code[t]) = Ready(c)
      BY DEF Last
    <3>2. Ready(c) # Unlock(o)
      BY DEF Ready, Unlock
    <3> QED
      BY <2>1, <3>1, <3>2
  <2>3. /\ stage[t] = "running" /\ stage' = [stage EXCEPT ![t] = "awaiting"]
        /\ code' = [code EXCEPT ![t] = << >>] /\ UNCHANGED <<lockVars, joined, users, calls>>
    BY <1>3 DEF Bailout
  <2> QED
    BY <2>2, <2>3, AwaitingKeeps
<1> QED
  BY <1>2, <1>3


LEMMA NextKeeps ==
  ASSUME LockInv, [Next]_vars
  PROVE  LockInv'
<1>1. CASE UNCHANGED vars
  <2>1. /\ program' = program /\ holder' = holder /\ depth' = depth /\ code' = code
        /\ stage' = stage /\ joined' = joined /\ users' = users /\ calls' = calls
    BY <1>1 DEF vars
  <2>2. /\ TypeRest /\ DOMAIN code = Threads /\ CodeInv /\ CoverInv /\ StartInv
    BY Parts
  <2>3. TypeRest' /\ (DOMAIN code)' = Threads
    BY <2>1, <2>2 DEF TypeRest
  <2>4. CodeInv' /\ StartInv'
    BY <2>1, <2>2 DEF CodeInv, StartInv
  <2>5. CoverInv'
    BY <2>1, CoverKeeps DEF lockVars
  <2> QED
    BY <2>3, <2>4, <2>5, Whole
<1>2. ASSUME NEW t \in Threads, ThreadStep(t), program' = program PROVE LockInv'
  <2>1. CASE CallNew(t) \/ (\E o \in Objects : CallAccess(t, o)) \/ \E p \in program.merges : CallMerge(t, p)
    BY <1>2, <2>1, SimpleCallsKeep
  <2>2. CASE Step(t)
    BY <1>2, <2>2, StepKeeps
  <2>3. CASE RunReturns(t) \/ Bailout(t)
    BY <1>2, <2>3, EndsKeep
  <2>4. CASE \E o \in Objects : CallFree(t, o)
    BY <1>2, <2>4, CallFreeKeeps
  <2>5. CASE \E c \in Threads : CallStart(t, c)
    BY <1>2, <2>5, CallStartKeeps
  <2>6. CASE \E c \in Threads : CallJoin(t, c)
    BY <1>2, <2>6, CallJoinKeeps
  <2>7. CASE \E o \in Objects, c \in Threads : CallDropChild(t, o, c)
    BY <1>2, <2>7, CallDropKeeps
  <2> QED
    BY <1>2, <2>1, <2>2, <2>3, <2>4, <2>5, <2>6, <2>7, Zenon DEF ThreadStep
<1> QED
  BY <1>1, <1>2, Zenon DEF Next, ScriptDone

LEMMA InitHolds ==
  ASSUME Init
  PROVE  LockInv
<1>1. /\ program \in Programs /\ holder = [l \in Locks |-> None] /\ depth = [l \in Locks |-> 0]
      /\ code = [t \in Threads |-> << >>]
      /\ stage = [t \in Threads |-> IF t = Main THEN "running" ELSE "unborn"]
      /\ joined = {} /\ users = program.shares /\ calls = [t \in Threads |-> 0]
  BY DEF Init
<1>2. \A t \in Threads : code[t] = << >>
  BY <1>1
<1>3. Good(<< >>, {})
  BY GoodNone
<1>4. CodeInv
  BY <1>2, <1>3, GoodBegins DEF CodeInv
<1>5. CoverInv
  <2>1. \A t \in Threads, l \in Locks : Held(t, l) \in Nat
    BY <1>1 DEF Held
  <2> QED
    BY <1>2, <1>3, <2>1, GoodBegins DEF CoverInv
<1>6. StartInv
  BY <1>1 DEF StartInv, Others
<1>7. TypeOK
  <2>1. "running" \in Range(Stages) /\ "unborn" \in Range(Stages)
    <3>1. 1 \in DOMAIN Stages
      BY StagesAre
    <3> QED
      BY <3>1, StagesAre, StagesHave DEF Range
  <2>2. stage \in [Threads -> Range(Stages)] /\ calls \in [Threads -> 0 .. MaxCalls]
    BY <1>1, <2>1, MaxCallsAssumption
  <2>3. /\ holder \in [Locks -> Threads \cup {None}] /\ depth \in [Locks -> Nat]
        /\ \A l \in Locks : holder[l] = None <=> depth[l] = 0
    BY <1>1
  <2>4. users \in [Objects -> SUBSET Threads]
    BY <1>1, ProgramsAssumption
  <2>5. \A t \in Threads : \A i \in DOMAIN code[t] : code[t][i].on \in Locks \cup Range(Stages)
    <3>1. \A t \in Threads : code[t] \in Seq(Instr)
      BY <1>4 DEF CodeInv, Follows
    <3> QED
      BY <3>1, CodeTypes
  <2>6. joined \subseteq Threads \ {Main}
    BY <1>1
  <2> QED
    BY <1>1, <2>2, <2>3, <2>4, <2>5, <2>6, Zenon DEF TypeOK
<1> QED
  BY <1>1, <1>4, <1>5, <1>6, <1>7 DEF LockInv

\* Whatever the program does, and however its threads interleave: from
\* pthread_create until the new thread sets READY in
\* pthreads_prepared_startup, its creator stands in the wait of
\* pthreads_start, so nothing it copies changes meanwhile.
THEOREM CreatorAlwaysStandsStill == Spec => []CreatorStandsStill
<1>1. Init => LockInv
  BY InitHolds
<1>2. LockInv /\ [Next]_vars => LockInv'
  BY NextKeeps
<1>3. LockInv => CreatorStandsStill
  <2> SUFFICES ASSUME LockInv PROVE CreatorStandsStill
    OBVIOUS
  <2>1. TypeOK /\ StartInv
    BY DEF LockInv
  <2>2. ASSUME NEW c \in Threads \ {Main}, stage[c] = "starting"
        PROVE  code[program.creator[c]] # << >> /\ Head(code[program.creator[c]]) = Ready(c)
    <3>1. code[program.creator[c]] = <<Ready(c)>>
      BY <2>1, <2>2 DEF StartInv, Others
    <3>2. <<Ready(c)>> # << >> /\ Head(<<Ready(c)>>) = Ready(c)
      OBVIOUS
    <3> QED
      BY <3>1, <3>2
  <2> QED
    BY <2>1, <2>2 DEF CreatorStandsStill
<1> QED
  BY <1>1, <1>2, <1>3, PTL DEF Spec

\* No lock is given back by a thread that has not taken it, and none twice:
\* an operation that is about to unlock a monitor or the globals lock holds it.
THEOREM UnlocksAreOwned == Spec => []UnlocksOwned
<1>1. Init => LockInv
  BY InitHolds
<1>2. LockInv /\ [Next]_vars => LockInv'
  BY NextKeeps
<1>3. LockInv => UnlocksOwned
  <2> SUFFICES ASSUME LockInv, NEW t \in Threads, NEW l \in Locks, code[t] # << >>,
                      Head(code[t]) = Unlock(l)
               PROVE  holder[l] = t /\ depth[l] >= 1
    BY DEF UnlocksOwned
  <2>1. TypeRest /\ CoverInv
    BY Parts
  <2>2. code[t] \in Seq(Instr) /\ code[t][1] = Unlock(l)
    BY FirstIs
  <2>3. Held(t, l) + Takes(Unlock(l), l) \in Nat /\ Held(t, l) \in Nat
    BY <2>1, <2>2, HeldIs, CoveredNext DEF CoverInv
  <2>4. Takes(Unlock(l), l) = -1
    BY DEF Takes, Lock, Unlock
  <2>5. Held(t, l) # 0
    BY <2>3, <2>4
  <2> QED
    BY <2>1, <2>3, <2>5 DEF TypeRest, Held
<1> QED
  BY <1>1, <1>2, <1>3, PTL DEF Spec


-----------------------------------------------------------------------------
(* Who holds what in a disciplined program.  No operation takes a lock     *)
(* twice, and none waits for an event with a lock held.                    *)

\* From its i-th step on, s gives l back before it takes it.
Inside(s, i, l) ==
  \E j \in i .. Len(s) : s[j] = Unlock(l) /\ \A k \in i .. j - 1 : s[k] # Lock(l)

Events == {"ready", "awaiting", "dead"}
Both == {"lock", "unlock"}

\* How the locks nest: under the globals lock only monitors in P are taken,
\* and one object under another only as merged in mg.
NestAt(s, i, P, mg) ==
  /\ \A l \in Locks : s[i] = Lock(l) => Inside(s, i + 1, l)
  /\ \A l \in Locks : s[i] = Unlock(l) => ~Inside(s, i + 1, l)
  /\ s[i].do \in Events => \A l \in Locks : ~Inside(s, i, l)
  /\ Inside(s, i, G) /\ s[i].do = "lock" => s[i].on \in P
  /\ \A o \in Objects :
       Inside(s, i, o) /\ s[i].do = "lock" /\ s[i].on \in Objects => <<o, s[i].on>> \in mg
Nest(s, P, mg) == \A i \in 1 .. Len(s) : NestAt(s, i, P, mg)

Shut(s) == \A l \in Locks : ~Inside(s, 1, l)
Neat(s, P, mg) == s \in Seq(Instr) /\ Nest(s, P, mg) /\ Shut(s)

\* The monitors that t takes under the globals lock.
Priv(t, shares, st) ==
  IF st[t] = "exiting" THEN {t} \cup {o \in Objects : t \in shares[o]}
  ELSE {o \in Objects : shares[o] = {t}}

\* t takes the monitors of its children and, at its end, its own; of the
\* objects it shares and, as it joins a child, of those that the child shares.
UsesThreads(s, t, pr, st) ==
  \A i \in 1 .. Len(s) : s[i].do \in Both /\ s[i].on \in Threads =>
    \/ s[i].on = t /\ st[t] = "exiting"
    \/ s[i].on \in Others /\ pr.creator[s[i].on] = t /\ st[t] = "running"

Syncs(s, i, t, c, pr, st) ==
  /\ pr.creator[c] = t /\ st[t] = "running"
  /\ st[c] = "awaiting" \/ \E j \in 1 .. i - 1 : s[j] = Await(c)
  /\ \E j \in i + 1 .. Len(s) : s[j] = Exit(c)

UsesObjects(s, t, pr, st) ==
  \A i \in 1 .. Len(s) : s[i].do \in Both /\ s[i].on \in Objects =>
    \/ t \in pr.shares[s[i].on]
    \/ \E c \in Others : c \in pr.shares[s[i].on] /\ Syncs(s, i, t, c, pr, st)

\* The order of join, and whom it is about.
JoinsInOrder(s, t, pr, st, jd) ==
  \A i \in 1 .. Len(s) :
    /\ s[i].do \in {"joined", "exit"} \cup Events => pr.creator[s[i].on] = t /\ st[t] = "running"
    /\ s[i].do = "joined" => s[Len(s)] = Gone(s[i].on)
    /\ s[i].do = "exit" =>
         /\ i + 2 = Len(s) /\ s[i + 1] = Unlock(s[i].on) /\ s[i + 2] = Gone(s[i].on)
         /\ st[s[i].on] \notin {"unborn", "exiting", "dead"}
         /\ s[i].on \in jd \/ \E j \in 1 .. i - 1 : s[j] = Joined(s[i].on)
    /\ s[i].do = "dead" =>
         st[s[i].on] \in {"exiting", "dead"} \/ \E j \in 1 .. i - 1 : s[j] = Exit(s[i].on)
    /\ s[i].do = "become" /\ s[i].on = "dead" => i = Len(s)

Tidy(s, t, pr, st, jd) ==
  /\ Nest(s, Priv(t, pr.shares, st), pr.merges)
  /\ UsesThreads(s, t, pr, st) /\ UsesObjects(s, t, pr, st) /\ JoinsInOrder(s, t, pr, st, jd)

TidyInv == \A t \in Threads : Tidy(code[t], t, program, stage, joined)

HeldInv == \A t \in Threads, l \in Locks : Held(t, l) = IF Inside(code[t], 1, l) THEN 1 ELSE 0

QuietInv == \A t \in Threads : stage[t] \in {"unborn", "awaiting", "dead"} => code[t] = << >>

ExitInv ==
  \A c \in Others : stage[c] = "exiting" =>
    /\ stage[program.creator[c]] = "running"
    /\ code[program.creator[c]] \in {<<Unlock(c), Gone(c)>>, <<Gone(c)>>}

\* A thread ends after its children.
LateInv ==
  \A c \in Others : stage[program.creator[c]] \in Late => stage[c] \in {"unborn", "dead"}

JoinedInv ==
  /\ \A c \in joined : stage[c] = "dead" \/ (code[program.creator[c]] # << >>
       /\ code[program.creator[c]][Len(code[program.creator[c]])] = Gone(c))
  /\ \A c \in Others : stage[c] \in {"exiting", "dead"} => c \in joined

UsersInv ==
  \A o \in Objects :
    users[o] = program.shares[o] \/ (users[o] = {} /\ \E t \in Threads : program.shares[o] = {t})

\* Threads are born after their creators, and there is a youngest.
BornInv ==
  \E most \in Nat : \E rank \in [Threads -> 0 .. most] : \A c \in Others : stage[c] # "unborn" =>
    stage[program.creator[c]] # "unborn" /\ rank[program.creator[c]] < rank[c]

Calm ==
  /\ TidyInv /\ HeldInv /\ QuietInv /\ ExitInv
  /\ LateInv /\ JoinedInv /\ UsersInv /\ BornInv
CalmInv == Disciplined => Calm


LEMMA InsideTail ==
  ASSUME NEW s \in Seq(Instr), s # << >>, NEW l, NEW i \in Nat \ {0}
  PROVE  Inside(Tail(s), i, l) <=> Inside(s, i + 1, l)
<1>1. PICK u : u = Tail(s)
  OBVIOUS
<1>2. Len(s) \in Nat /\ Len(u) = Len(s) - 1 /\ \A k \in 1 .. Len(u) : u[k] = s[k + 1]
  BY <1>1, HeadTailProperties, LenProperties
<1>3. ASSUME Inside(u, i, l) PROVE Inside(s, i + 1, l)
  <2>1. PICK j \in i .. Len(u) : u[j] = Unlock(l) /\ \A k \in i .. j - 1 : u[k] # Lock(l)
    BY <1>3 DEF Inside
  <2>2. j + 1 \in i + 1 .. Len(s) /\ s[j + 1] = Unlock(l)
    BY <1>2, <2>1
  <2>3. ASSUME NEW k \in i + 1 .. (j + 1) - 1 PROVE s[k] # Lock(l)
    <3>1. k - 1 \in i .. j - 1 /\ k - 1 \in 1 .. Len(u) /\ (k - 1) + 1 = k
      BY <1>2, <2>1
    <3> QED
      BY <1>2, <2>1, <3>1
  <2> QED
    BY <2>2, <2>3 DEF Inside
<1>4. ASSUME Inside(s, i + 1, l) PROVE Inside(u, i, l)
  <2>1. PICK j \in i + 1 .. Len(s) : s[j] = Unlock(l) /\ \A k \in i + 1 .. j - 1 : s[k] # Lock(l)
    BY <1>4 DEF Inside
  <2>2. j - 1 \in i .. Len(u) /\ j - 1 \in 1 .. Len(u) /\ (j - 1) + 1 = j
    BY <1>2
  <2>3. u[j - 1] = Unlock(l)
    BY <1>2, <2>1, <2>2
  <2>4. ASSUME NEW k \in i .. (j - 1) - 1 PROVE u[k] # Lock(l)
    <3>1. k + 1 \in i + 1 .. j - 1 /\ k \in 1 .. Len(u)
      BY <1>2, <2>2
    <3> QED
      BY <1>2, <2>1, <3>1
  <2> QED
    BY <2>2, <2>3, <2>4 DEF Inside
<1> QED
  BY <1>1, <1>3, <1>4

LEMMA LocksDiffer ==
  /\ \A k, l : Lock(k) # Unlock(l)
  /\ \A k, l : Lock(k) = Lock(l) => k = l
  /\ \A k, l : Unlock(k) = Unlock(l) => k = l
  /\ \A l : Lock(l).do = "lock" /\ Lock(l).on = l /\ Unlock(l).do = "unlock" /\ Unlock(l).on = l
  BY DEF Lock, Unlock

LEMMA InsideNext ==
  ASSUME NEW s \in Seq(Instr), NEW l, NEW i \in 1 .. Len(s)
  PROVE  /\ s[i] = Lock(l) => ~Inside(s, i, l)
         /\ s[i] = Unlock(l) => Inside(s, i, l)
         /\ s[i] # Lock(l) /\ s[i] # Unlock(l) => (Inside(s, i, l) <=> Inside(s, i + 1, l))
<1>0. Len(s) \in Nat
  BY LenProperties
<1>1. ASSUME s[i] = Lock(l), Inside(s, i, l) PROVE FALSE
  <2>1. PICK j \in i .. Len(s) : s[j] = Unlock(l) /\ \A k \in i .. j - 1 : s[k] # Lock(l)
    BY <1>1 DEF Inside
  <2>2. j # i
    BY <1>1, <2>1, LocksDiffer
  <2>3. i \in i .. j - 1
    BY <1>0, <2>2
  <2> QED
    BY <1>1, <2>1, <2>3
<1>2. ASSUME s[i] = Unlock(l) PROVE Inside(s, i, l)
  <2>1. i \in i .. Len(s) /\ \A k : k \notin i .. i - 1
    BY <1>0
  <2> QED
    BY <1>2, <2>1 DEF Inside
<1>3. ASSUME s[i] # Lock(l), s[i] # Unlock(l) PROVE Inside(s, i, l) <=> Inside(s, i + 1, l)
  <2>1. ASSUME Inside(s, i, l) PROVE Inside(s, i + 1, l)
    <3>1. PICK j \in i .. Len(s) : s[j] = Unlock(l) /\ \A k \in i .. j - 1 : s[k] # Lock(l)
      BY <2>1 DEF Inside
    <3>2. j \in i + 1 .. Len(s) /\ \A k \in i + 1 .. j - 1 : k \in i .. j - 1
      BY <1>0, <1>3, <3>1
    <3> QED
      BY <3>1, <3>2 DEF Inside
  <2>2. ASSUME Inside(s, i + 1, l) PROVE Inside(s, i, l)
    <3>1. PICK j \in i + 1 .. Len(s) : s[j] = Unlock(l) /\ \A k \in i + 1 .. j - 1 : s[k] # Lock(l)
      BY <2>2 DEF Inside
    <3>2. j \in i .. Len(s) /\ \A k \in i .. j - 1 : k = i \/ k \in i + 1 .. j - 1
      BY <1>0
    <3> QED
      BY <1>3, <3>1, <3>2 DEF Inside
  <2> QED
    BY <2>1, <2>2
<1> QED
  BY <1>1, <1>2, <1>3

LEMMA InsideEnd ==
  ASSUME NEW s \in Seq(Instr), NEW l
  PROVE  ~Inside(s, Len(s) + 1, l)
<1>1. Len(s) \in Nat
  BY LenProperties
<1>2. \A j : j \notin Len(s) + 1 .. Len(s)
  BY <1>1
<1> QED
  BY <1>2 DEF Inside

LEMMA InsideConcat ==
  ASSUME NEW s \in Seq(Instr), NEW u \in Seq(Instr), NEW w, w = s \o u, NEW l, ~Inside(u, 1, l)
  PROVE  /\ \A i \in 1 .. Len(s) + 1 : Inside(w, i, l) <=> Inside(s, i, l)
         /\ \A i \in 1 .. Len(u) + 1 : Inside(w, Len(s) + i, l) <=> Inside(u, i, l)
<1>1. Len(s) \in Nat /\ Len(u) \in Nat
  BY LenProperties
<1>2. /\ Len(w) = Len(s) + Len(u)
      /\ \A i \in 1 .. Len(s) + Len(u) : w[i] = IF i <= Len(s) THEN s[i] ELSE u[i - Len(s)]
  BY ConcatProperties
<1>3. \A i \in 1 .. Len(s) : i \in 1 .. Len(w) /\ w[i] = s[i]
  BY <1>1, <1>2
<1>4. \A i \in 1 .. Len(u) : w[Len(s) + i] = u[i]
  <2> SUFFICES ASSUME NEW i \in 1 .. Len(u) PROVE w[Len(s) + i] = u[i]
    OBVIOUS
  <2>1. Len(s) + i \in 1 .. Len(s) + Len(u) /\ ~(Len(s) + i <= Len(s)) /\ (Len(s) + i) - Len(s) = i
    BY <1>1
  <2> QED
    BY <1>2, <2>1
<1>5. ASSUME NEW i \in 1 .. Len(u) + 1 PROVE Inside(w, Len(s) + i, l) <=> Inside(u, i, l)
  <2>1. ASSUME Inside(w, Len(s) + i, l) PROVE Inside(u, i, l)
    <3>1. PICK j \in Len(s) + i .. Len(w) :
            w[j] = Unlock(l) /\ \A k \in Len(s) + i .. j - 1 : w[k] # Lock(l)
      BY <2>1 DEF Inside
    <3>2. j - Len(s) \in i .. Len(u) /\ j - Len(s) \in 1 .. Len(u) /\ Len(s) + (j - Len(s)) = j
      BY <1>1, <1>2
    <3>3. u[j - Len(s)] = Unlock(l)
      BY <1>4, <3>1, <3>2
    <3>4. ASSUME NEW k \in i .. (j - Len(s)) - 1 PROVE u[k] # Lock(l)
      <4>1. Len(s) + k \in Len(s) + i .. j - 1 /\ k \in 1 .. Len(u)
        BY <1>1, <3>2
      <4> QED
        BY <1>4, <3>1, <4>1
    <3> QED
      BY <3>2, <3>3, <3>4 DEF Inside
  <2>2. ASSUME Inside(u, i, l) PROVE Inside(w, Len(s) + i, l)
    <3>1. PICK j \in i .. Len(u) : u[j] = Unlock(l) /\ \A k \in i .. j - 1 : u[k] # Lock(l)
      BY <2>2 DEF Inside
    <3>2. Len(s) + j \in Len(s) + i .. Len(w) /\ j \in 1 .. Len(u)
      BY <1>1, <1>2
    <3>3. ASSUME NEW k \in Len(s) + i .. (Len(s) + j) - 1 PROVE w[k] # Lock(l)
      <4>1. k - Len(s) \in i .. j - 1 /\ k - Len(s) \in 1 .. Len(u) /\ Len(s) + (k - Len(s)) = k
        BY <1>1, <3>2
      <4> QED
        BY <1>4, <3>1, <4>1
    <3> QED
      BY <1>4, <3>1, <3>2, <3>3 DEF Inside
  <2> QED
    BY <2>1, <2>2
<1>6. ASSUME NEW i \in 1 .. Len(s) + 1 PROVE Inside(w, i, l) <=> Inside(s, i, l)
  <2>1. ASSUME Inside(s, i, l) PROVE Inside(w, i, l)
    <3>1. PICK j \in i .. Len(s) : s[j] = Unlock(l) /\ \A k \in i .. j - 1 : s[k] # Lock(l)
      BY <2>1 DEF Inside
    <3>2. j \in i .. Len(w) /\ j \in 1 .. Len(s) /\ \A k \in i .. j - 1 : k \in 1 .. Len(s)
      BY <1>1, <1>2
    <3> QED
      BY <1>3, <3>1, <3>2 DEF Inside
  <2>2. ASSUME Inside(w, i, l) PROVE Inside(s, i, l)
    <3>1. PICK j \in i .. Len(w) : w[j] = Unlock(l) /\ \A k \in i .. j - 1 : w[k] # Lock(l)
      BY <2>2 DEF Inside
    <3>2. CASE j <= Len(s)
      <4>1. j \in i .. Len(s) /\ j \in 1 .. Len(s) /\ \A k \in i .. j - 1 : k \in 1 .. Len(s)
        BY <1>1, <3>2
      <4> QED
        BY <1>3, <3>1, <4>1 DEF Inside
    <3>3. CASE ~(j <= Len(s))
      <4>1. j \in Len(s) + 1 .. Len(w) /\ \A k \in Len(s) + 1 .. j - 1 : k \in i .. j - 1
        BY <1>1, <1>2, <3>3
      <4>2. Inside(w, Len(s) + 1, l)
        BY <3>1, <4>1 DEF Inside
      <4>3. 1 \in 1 .. Len(u) + 1
        BY <1>1
      <4> QED
        BY <1>5, <4>2, <4>3
    <3> QED
      BY <1>1, <1>2, <3>2, <3>3
  <2> QED
    BY <2>1, <2>2
<1> QED
  BY <1>5, <1>6


\* Two positions of two operations that are alike.
LEMMA NestSame ==
  ASSUME NEW s, NEW i, NEW u, NEW j, NEW P, NEW mg, NestAt(s, i, P, mg), u[j] = s[i],
         \A l \in Locks : (Inside(u, j, l) <=> Inside(s, i, l))
                          /\ (Inside(u, j + 1, l) <=> Inside(s, i + 1, l))
  PROVE  NestAt(u, j, P, mg)
  BY LocksAre DEF NestAt

LEMMA NestTail ==
  ASSUME NEW s \in Seq(Instr), s # << >>, NEW P, NEW mg, Nest(s, P, mg)
  PROVE  Nest(Tail(s), P, mg)
<1>1. PICK u : u = Tail(s)
  OBVIOUS
<1>2. Len(s) \in Nat /\ Len(u) = Len(s) - 1 /\ \A k \in 1 .. Len(u) : u[k] = s[k + 1]
  BY <1>1, HeadTailProperties, LenProperties
<1>3. ASSUME NEW i \in 1 .. Len(u) PROVE NestAt(u, i, P, mg)
  <2>1. i + 1 \in 1 .. Len(s) /\ i \in Nat \ {0} /\ i + 1 \in Nat \ {0} /\ u[i] = s[i + 1]
    BY <1>2
  <2>2. \A l \in Locks : (Inside(u, i, l) <=> Inside(s, i + 1, l))
                         /\ (Inside(u, i + 1, l) <=> Inside(s, (i + 1) + 1, l))
    BY <1>1, <2>1, InsideTail
  <2>3. NestAt(s, i + 1, P, mg)
    BY <2>1 DEF Nest
  <2> QED
    BY <2>1, <2>2, <2>3, NestSame
<1> QED
  BY <1>1, <1>3 DEF Nest

LEMMA NestMore ==
  ASSUME NEW s, NEW P, NEW P2, P \subseteq P2, NEW mg, Nest(s, P, mg)
  PROVE  Nest(s, P2, mg)
  BY DEF Nest, NestAt

LEMMA NeatNone ==
  ASSUME NEW P, NEW mg
  PROVE  Neat(<< >>, P, mg)
<1>1. PICK e : e = << >>
  OBVIOUS
<1>2. e \in Seq(Instr) /\ Len(e) = 0
  BY <1>1, EmptySeq
<1>3. \A i : i \notin 1 .. Len(e)
  BY <1>2
<1> QED
  BY <1>1, <1>2, <1>3 DEF Neat, Nest, Shut, Inside

LEMMA NeatOne ==
  ASSUME NEW x \in Instr, x.do \notin Both, NEW P, NEW mg
  PROVE  Neat(<<x>>, P, mg)
<1>1. PICK s : s = <<x>>
  OBVIOUS
<1>2. s \in Seq(Instr) /\ Len(s) = 1 /\ s[1] = x
  BY <1>1, InstrOne
<1>3. \A i \in 1 .. Len(s) : i = 1
  BY <1>2
<1>4. \A l : x # Lock(l) /\ x # Unlock(l)
  BY LocksDiffer DEF Both
<1>5. \A l : ~Inside(s, 1, l)
  BY <1>2, <1>3, <1>4 DEF Inside
<1>6. NestAt(s, 1, P, mg)
  BY <1>2, <1>4, <1>5, LocksAre DEF NestAt
<1> QED
  BY <1>1, <1>2, <1>3, <1>5, <1>6 DEF Neat, Nest, Shut

LEMMA NeatConcat ==
  ASSUME NEW s, NEW u, NEW P, NEW mg, Neat(s, P, mg), Neat(u, P, mg)
  PROVE  Neat(s \o u, P, mg)
<1>1. s \in Seq(Instr) /\ u \in Seq(Instr) /\ Len(s) \in Nat /\ Len(u) \in Nat
  BY LenProperties DEF Neat
<1>2. PICK w : w = s \o u
  OBVIOUS
<1>3. /\ w \in Seq(Instr) /\ Len(w) = Len(s) + Len(u)
      /\ \A i \in 1 .. Len(s) + Len(u) : w[i] = IF i <= Len(s) THEN s[i] ELSE u[i - Len(s)]
  BY <1>1, <1>2, ConcatProperties
<1>4. \A l \in Locks :
        /\ \A i \in 1 .. Len(s) + 1 : Inside(w, i, l) <=> Inside(s, i, l)
        /\ \A i \in 1 .. Len(u) + 1 : Inside(w, Len(s) + i, l) <=> Inside(u, i, l)
  BY <1>1, <1>2, InsideConcat DEF Neat, Shut
<1>5. Shut(w)
  <2>1. 1 \in 1 .. Len(s) + 1
    BY <1>1
  <2> QED
    BY <1>4, <2>1 DEF Shut, Neat
<1>6. ASSUME NEW i \in 1 .. Len(w) PROVE NestAt(w, i, P, mg)
  <2>1. CASE i <= Len(s)
    <3>1. i \in 1 .. Len(s) /\ i \in 1 .. Len(s) + 1 /\ i + 1 \in 1 .. Len(s) + 1 /\ w[i] = s[i]
      BY <1>1, <1>3, <2>1
    <3>2. NestAt(s, i, P, mg)
      BY <3>1 DEF Neat, Nest
    <3>3. \A l \in Locks : (Inside(w, i, l) <=> Inside(s, i, l))
                           /\ (Inside(w, i + 1, l) <=> Inside(s, i + 1, l))
      BY <1>4, <3>1
    <3> QED
      BY <3>1, <3>2, <3>3, NestSame
  <2>2. CASE ~(i <= Len(s))
    <3>1. PICK j : j = i - Len(s)
      OBVIOUS
    <3>2. /\ j \in 1 .. Len(u) /\ j \in 1 .. Len(u) + 1 /\ j + 1 \in 1 .. Len(u) + 1
          /\ Len(s) + j = i /\ Len(s) + (j + 1) = i + 1 /\ i \in 1 .. Len(s) + Len(u)
      BY <1>1, <1>3, <2>2, <3>1
    <3>3. w[i] = u[j]
      BY <1>3, <2>2, <3>1, <3>2
    <3>4. NestAt(u, j, P, mg)
      BY <3>2 DEF Neat, Nest
    <3>5. \A l \in Locks : (Inside(w, i, l) <=> Inside(u, j, l))
                           /\ (Inside(w, i + 1, l) <=> Inside(u, j + 1, l))
      <4>1. \A l \in Locks : (Inside(w, Len(s) + j, l) <=> Inside(u, j, l))
                             /\ (Inside(w, Len(s) + (j + 1), l) <=> Inside(u, j + 1, l))
        BY <1>4, <3>2
      <4> QED
        BY <3>2, <4>1
    <3> QED
      BY <3>3, <3>4, <3>5, NestSame
  <2> QED
    BY <2>1, <2>2
<1> QED
  BY <1>2, <1>3, <1>5, <1>6 DEF Neat, Nest

\* s may run with l held.
Fits(s, l, P, mg) ==
  \A i \in 1 .. Len(s) :
    /\ s[i].do \notin Events /\ s[i] # Lock(l) /\ s[i] # Unlock(l)
    /\ l = G /\ s[i].do = "lock" => s[i].on \in P
    /\ l \in Objects /\ s[i].do = "lock" /\ s[i].on \in Objects => <<l, s[i].on>> \in mg

LEMMA NeatWithin ==
  ASSUME NEW l \in Locks, NEW s, NEW P, NEW mg, Neat(s, P, mg), Fits(s, l, P, mg)
  PROVE  Neat(Within(l, s), P, mg)
<1>1. Lock(l) \in Instr /\ Unlock(l) \in Instr
  BY DEF Instr, Lock, Unlock
<1>2. PICK a, b : a = <<Lock(l)>> /\ b = <<Unlock(l)>>
  OBVIOUS
<1>3. /\ a \in Seq(Instr) /\ Len(a) = 1 /\ a[1] = Lock(l)
      /\ b \in Seq(Instr) /\ Len(b) = 1 /\ b[1] = Unlock(l)
  BY <1>1, <1>2, InstrOne
<1>4. s \in Seq(Instr) /\ Len(s) \in Nat
  BY LenProperties DEF Neat
<1>5. PICK v, w : v = a \o s /\ w = v \o b
  OBVIOUS
<1>6. Within(l, s) = w
  BY <1>2, <1>5 DEF Within
<1>7. /\ v \in Seq(Instr) /\ Len(v) = 1 + Len(s)
      /\ \A i \in 1 .. 1 + Len(s) : v[i] = IF i <= 1 THEN a[i] ELSE s[i - 1]
  <2>1. /\ v \in Seq(Instr) /\ Len(v) = Len(a) + Len(s)
        /\ \A i \in 1 .. Len(a) + Len(s) : v[i] = IF i <= Len(a) THEN a[i] ELSE s[i - Len(a)]
    BY <1>3, <1>4, <1>5, ConcatProperties
  <2> QED
    BY <1>3, <2>1
<1>8. /\ w \in Seq(Instr) /\ Len(w) = Len(s) + 2
      /\ \A i \in 1 .. Len(s) + 2 :
           w[i] = IF i <= 1 + Len(s) THEN v[i] ELSE b[i - (1 + Len(s))]
  <2>1. /\ w \in Seq(Instr) /\ Len(w) = Len(v) + 1
        /\ \A i \in 1 .. Len(v) + 1 : w[i] = IF i <= Len(v) THEN v[i] ELSE b[i - Len(v)]
    BY <1>3, <1>5, <1>7, ConcatProperties
  <2> QED
    BY <1>4, <1>7, <2>1
<1>9. w[1] = Lock(l) /\ w[Len(s) + 2] = Unlock(l)
  <2>1. 1 \in 1 .. Len(s) + 2 /\ 1 \in 1 .. 1 + Len(s) /\ Len(s) + 2 \in 1 .. Len(s) + 2
        /\ ~(Len(s) + 2 <= 1 + Len(s)) /\ (Len(s) + 2) - (1 + Len(s)) = 1 /\ 1 <= 1 + Len(s) /\ 1 <= 1
    BY <1>4
  <2> QED
    BY <1>3, <1>7, <1>8, <2>1
<1>10. \A i \in 1 .. Len(s) : w[i + 1] = s[i]
  <2> SUFFICES ASSUME NEW i \in 1 .. Len(s) PROVE w[i + 1] = s[i]
    OBVIOUS
  <2>1. i + 1 \in 1 .. Len(s) + 2 /\ i + 1 <= 1 + Len(s) /\ i + 1 \in 1 .. 1 + Len(s)
        /\ ~(i + 1 <= 1) /\ (i + 1) - 1 = i
    BY <1>4
  <2> QED
    BY <1>7, <1>8, <2>1
<1>11. \A i \in 2 .. Len(s) + 2 : Inside(w, i, l)
  <2> SUFFICES ASSUME NEW i \in 2 .. Len(s) + 2 PROVE Inside(w, i, l)
    OBVIOUS
  <2>1. Len(s) + 2 \in i .. Len(w)
    BY <1>4, <1>8
  <2>2. ASSUME NEW k \in i .. (Len(s) + 2) - 1 PROVE w[k] # Lock(l)
    <3>1. k - 1 \in 1 .. Len(s) /\ (k - 1) + 1 = k
      BY <1>4
    <3> QED
      BY <1>10, <3>1 DEF Fits
  <2> QED
    BY <1>9, <2>1, <2>2 DEF Inside
<1>12. \A k \in Locks \ {l} : \A i \in 1 .. Len(s) + 1 : Inside(w, i + 1, k) <=> Inside(s, i, k)
  <2> SUFFICES ASSUME NEW k \in Locks, k # l, NEW i \in 1 .. Len(s) + 1
               PROVE  Inside(w, i + 1, k) <=> Inside(s, i, k)
    OBVIOUS
  <2>1. ASSUME Inside(s, i, k) PROVE Inside(w, i + 1, k)
    <3>1. PICK j \in i .. Len(s) : s[j] = Unlock(k) /\ \A m \in i .. j - 1 : s[m] # Lock(k)
      BY <2>1 DEF Inside
    <3>2. j + 1 \in i + 1 .. Len(w) /\ w[j + 1] = Unlock(k)
      BY <1>4, <1>8, <1>10, <3>1
    <3>3. ASSUME NEW m \in i + 1 .. (j + 1) - 1 PROVE w[m] # Lock(k)
      <4>1. m - 1 \in i .. j - 1 /\ m - 1 \in 1 .. Len(s) /\ (m - 1) + 1 = m
        BY <1>4
      <4> QED
        BY <1>10, <3>1, <4>1
    <3> QED
      BY <3>2, <3>3 DEF Inside
  <2>2. ASSUME Inside(w, i + 1, k) PROVE Inside(s, i, k)
    <3>1. PICK j \in i + 1 .. Len(w) : w[j] = Unlock(k) /\ \A m \in i + 1 .. j - 1 : w[m] # Lock(k)
      BY <2>2 DEF Inside
    <3>2. j # Len(s) + 2
      BY <1>9, <2>2, <3>1, LocksDiffer
    <3>3. j - 1 \in i .. Len(s) /\ j - 1 \in 1 .. Len(s) /\ (j - 1) + 1 = j
      BY <1>4, <1>8, <3>2
    <3>4. s[j - 1] = Unlock(k)
      BY <1>10, <3>1, <3>3
    <3>5. ASSUME NEW m \in i .. (j - 1) - 1 PROVE s[m] # Lock(k)
      <4>1. m + 1 \in i + 1 .. j - 1 /\ m \in 1 .. Len(s)
        BY <1>4, <3>3
      <4> QED
        BY <1>10, <3>1, <4>1
    <3> QED
      BY <3>3, <3>4, <3>5 DEF Inside
  <2> QED
    BY <2>1, <2>2
<1>13. 1 \in 1 .. Len(w) /\ Len(s) + 2 \in 1 .. Len(w)
  BY <1>4, <1>8
<1>14. ~Inside(w, 1, l) /\ ~Inside(w, (Len(s) + 2) + 1, l)
  BY <1>8, <1>9, <1>13, InsideNext, InsideEnd
<1>15. \A k \in Locks \ {l} : ~Inside(w, 1, k) /\ ~Inside(w, 1 + 1, k) /\ ~Inside(w, Len(s) + 2, k)
  <2> SUFFICES ASSUME NEW k \in Locks, k # l
               PROVE  ~Inside(w, 1, k) /\ ~Inside(w, 1 + 1, k) /\ ~Inside(w, Len(s) + 2, k)
    OBVIOUS
  <2>1. 1 \in 1 .. Len(s) + 1 /\ Len(s) + 1 \in 1 .. Len(s) + 1 /\ (Len(s) + 1) + 1 = Len(s) + 2
    BY <1>4
  <2>2. ~Inside(s, 1, k) /\ ~Inside(s, Len(s) + 1, k)
    BY <1>4, InsideEnd DEF Neat, Shut
  <2>3. ~Inside(w, 1 + 1, k) /\ ~Inside(w, (Len(s) + 1) + 1, k)
    BY <1>12, <2>1, <2>2
  <2>4. w[1] # Lock(k) /\ w[1] # Unlock(k)
    BY <1>9, LocksDiffer
  <2>5. ~Inside(w, 1, k)
    BY <1>8, <1>13, <2>3, <2>4, InsideNext
  <2> QED
    BY <2>1, <2>3, <2>5
<1>16. Shut(w)
  BY <1>14, <1>15 DEF Shut
<1>17. NestAt(w, 1, P, mg)
  <2>1. 1 + 1 \in 2 .. Len(s) + 2
    BY <1>4
  <2>2. \A k \in Locks : w[1] = Lock(k) => Inside(w, 1 + 1, k)
    BY <1>9, <1>11, <2>1, LocksDiffer
  <2>3. w[1].do = "lock" /\ w[1].do \notin Events /\ \A k : w[1] # Unlock(k)
    BY <1>9, LocksDiffer DEF Events
  <2>4. \A k \in Locks : ~Inside(w, 1, k)
    BY <1>16 DEF Shut
  <2> QED
    BY <2>2, <2>3, <2>4, LocksAre DEF NestAt
<1>18. NestAt(w, Len(s) + 2, P, mg)
  <2>1. w[Len(s) + 2].do = "unlock" /\ \A k : w[Len(s) + 2] # Lock(k)
    BY <1>9, LocksDiffer
  <2>2. \A k \in Locks : w[Len(s) + 2] = Unlock(k) => ~Inside(w, (Len(s) + 2) + 1, k)
    BY <1>9, <1>14, LocksDiffer
  <2> QED
    BY <2>1, <2>2 DEF NestAt, Events
<1>19. ASSUME NEW i \in 1 .. Len(s) PROVE NestAt(w, i + 1, P, mg)
  <2>1. /\ i \in 1 .. Len(s) + 1 /\ i + 1 \in 1 .. Len(s) + 1 /\ i + 1 \in 2 .. Len(s) + 2
        /\ (i + 1) + 1 \in 2 .. Len(s) + 2
    BY <1>4
  <2>2. w[i + 1] = s[i] /\ NestAt(s, i, P, mg)
    BY <1>10 DEF Neat, Nest
  <2>3. \A k \in Locks \ {l} : (Inside(w, i + 1, k) <=> Inside(s, i, k))
                               /\ (Inside(w, (i + 1) + 1, k) <=> Inside(s, i + 1, k))
    BY <1>12, <2>1
  <2>4. /\ s[i].do \notin Events /\ s[i] # Lock(l) /\ s[i] # Unlock(l)
        /\ l = G /\ s[i].do = "lock" => s[i].on \in P
        /\ l \in Objects /\ s[i].do = "lock" /\ s[i].on \in Objects => <<l, s[i].on>> \in mg
    BY DEF Fits
  <2>5. \A k \in Locks : w[i + 1] = Lock(k) => Inside(w, (i + 1) + 1, k)
    BY <2>2, <2>3, <2>4 DEF NestAt
  <2>6. \A k \in Locks : w[i + 1] = Unlock(k) => ~Inside(w, (i + 1) + 1, k)
    BY <2>2, <2>3, <2>4 DEF NestAt
  <2>7. Inside(w, i + 1, G) /\ w[i + 1].do = "lock" => w[i + 1].on \in P
    BY <2>2, <2>3, <2>4, LocksAre DEF NestAt
  <2>8. \A o \in Objects : Inside(w, i + 1, o) /\ w[i + 1].do = "lock" /\ w[i + 1].on \in Objects
                             => <<o, w[i + 1].on>> \in mg
    BY <2>2, <2>3, <2>4, LocksAre DEF NestAt
  <2> QED
    BY <2>2, <2>4, <2>5, <2>6, <2>7, <2>8 DEF NestAt
<1>20. ASSUME NEW i \in 1 .. Len(w) PROVE NestAt(w, i, P, mg)
  <2>1. i = 1 \/ i = Len(s) + 2 \/ (i - 1 \in 1 .. Len(s) /\ (i - 1) + 1 = i)
    BY <1>4, <1>8
  <2> QED
    BY <1>17, <1>18, <1>19, <2>1
<1> QED
  BY <1>6, <1>8, <1>16, <1>20 DEF Neat, Nest


-----------------------------------------------------------------------------
(* The operations of a disciplined program, when they begin.               *)

\* The steps that take and give back the locks in L.
On(L) == [do : Both, on : L]

Block(s, P, mg, X) == Neat(s, P, mg) /\ \A i \in 1 .. Len(s) : s[i] \in X

LEMMA BlockConcat ==
  ASSUME NEW s, NEW u, NEW P, NEW mg, NEW X, Block(s, P, mg, X), Block(u, P, mg, X)
  PROVE  Block(s \o u, P, mg, X)
<1>1. Neat(s, P, mg) /\ Neat(u, P, mg) /\ s \in Seq(Instr) /\ u \in Seq(Instr)
      /\ Len(s) \in Nat /\ Len(u) \in Nat
  BY LenProperties DEF Block, Neat
<1>2. PICK w : w = s \o u
  OBVIOUS
<1>3. /\ Len(w) = Len(s) + Len(u)
      /\ \A i \in 1 .. Len(s) + Len(u) : w[i] = IF i <= Len(s) THEN s[i] ELSE u[i - Len(s)]
  BY <1>1, <1>2, ConcatProperties
<1>4. \A i \in 1 .. Len(s) + Len(u) : IF i <= Len(s) THEN i \in 1 .. Len(s) ELSE i - Len(s) \in 1 .. Len(u)
  BY <1>1
<1>5. \A i \in 1 .. Len(w) : w[i] \in X
  BY <1>3, <1>4 DEF Block
<1> QED
  BY <1>1, <1>2, <1>5, NeatConcat DEF Block

LEMMA BlockMore ==
  ASSUME NEW s, NEW P, NEW mg, NEW X, NEW Y, X \subseteq Y, Block(s, P, mg, X)
  PROVE  Block(s, P, mg, Y)
  BY DEF Block

LEMMA BlockWithin ==
  ASSUME NEW l \in Locks, NEW s, NEW P, NEW mg, NEW X, Block(s, P, mg, X), Fits(s, l, P, mg),
         Lock(l) \in X, Unlock(l) \in X
  PROVE  Block(Within(l, s), P, mg, X)
<1>1. Neat(s, P, mg) /\ s \in Seq(Instr) /\ Len(s) \in Nat
  BY LenProperties DEF Block, Neat
<1>2. Lock(l) \in Instr /\ Unlock(l) \in Instr
  BY DEF Instr, Lock, Unlock
<1>3. PICK a, b : a = <<Lock(l)>> /\ b = <<Unlock(l)>>
  OBVIOUS
<1>4. a \in Seq(Instr) /\ b \in Seq(Instr) /\ Len(a) = 1 /\ Len(b) = 1 /\ a[1] = Lock(l) /\ b[1] = Unlock(l)
  BY <1>2, <1>3, InstrOne
<1>5. PICK v, w : v = a \o s /\ w = v \o b
  OBVIOUS
<1>6. /\ v \in Seq(Instr) /\ Len(v) = Len(a) + Len(s)
      /\ \A i \in 1 .. Len(a) + Len(s) : v[i] = IF i <= Len(a) THEN a[i] ELSE s[i - Len(a)]
  BY <1>1, <1>4, <1>5, ConcatProperties
<1>7. /\ w \in Seq(Instr) /\ Len(w) = Len(v) + Len(b)
      /\ \A i \in 1 .. Len(v) + Len(b) : w[i] = IF i <= Len(v) THEN v[i] ELSE b[i - Len(v)]
  BY <1>4, <1>5, <1>6, ConcatProperties
<1>8. \A i \in 1 .. Len(v) : v[i] \in X
  <2>1. \A i \in 1 .. Len(a) + Len(s) : IF i <= Len(a) THEN i = 1 ELSE i - Len(a) \in 1 .. Len(s)
    BY <1>1, <1>4
  <2> QED
    BY <1>4, <1>6, <2>1 DEF Block
<1>9. \A i \in 1 .. Len(w) : w[i] \in X
  <2>1. Len(v) \in Nat
    BY <1>1, <1>4, <1>6
  <2>2. \A i \in 1 .. Len(v) + Len(b) : IF i <= Len(v) THEN i \in 1 .. Len(v) ELSE i - Len(v) = 1
    BY <1>4, <2>1
  <2> QED
    BY <1>4, <1>7, <1>8, <2>2
<1>10. Within(l, s) = w
  BY <1>3, <1>5 DEF Within
<1> QED
  BY <1>1, <1>9, <1>10, NeatWithin DEF Block

LEMMA BlockEach ==
  ASSUME NEW n \in Nat, NEW ss, ss = [i \in 1 .. n |-> ss[i]], NEW P, NEW mg, NEW X,
         \A i \in 1 .. n : Block(ss[i], P, mg, X)
  PROVE  Block(FlattenSeq(ss), P, mg, X)
<1>1. Len(ss) = n
  OBVIOUS
<1>2. CASE n = 0
  <2>1. ss = << >>
    BY <1>2
  <2>2. FlattenSeq(ss) = ss
    BY <1>1, <1>2 DEF FlattenSeq
  <2>3. PICK e : e = << >>
    OBVIOUS
  <2>4. \A i : i \notin 1 .. Len(e)
    BY <2>3
  <2>5. Block(e, P, mg, X)
    BY <2>3, <2>4, NeatNone DEF Block
  <2> QED
    BY <2>1, <2>2, <2>3, <2>5
<1>3. CASE n # 0
  <2>1. PICK C : C = {s \in Seq(Instr) : Block(s, P, mg, X)}
    OBVIOUS
  <2>2. \A s : s \in C <=> Block(s, P, mg, X)
    BY <2>1 DEF Block, Neat
  <2>3. Closed(C, ss, n)
    BY <1>3, <2>2, BlockConcat DEF Closed
  <2> QED
    BY <1>1, <2>2, <2>3, FlattenWithin
<1> QED
  BY <1>2, <1>3

LEMMA OnHas ==
  ASSUME NEW L, NEW l \in L
  PROVE  Lock(l) \in On(L) /\ Unlock(l) \in On(L)
  BY DEF On, Both, Lock, Unlock

LEMMA BlockBrief ==
  ASSUME NEW l \in Locks, NEW P, NEW mg, NEW L, l \in L
  PROVE  Block(Brief(l), P, mg, On(L))
<1>1. PICK e : e = << >>
  OBVIOUS
<1>2. \A i : i \notin 1 .. Len(e)
  BY <1>1
<1>3. Block(e, P, mg, On(L)) /\ Fits(e, l, P, mg)
  BY <1>1, <1>2, NeatNone DEF Block, Fits
<1>4. Block(Within(l, e), P, mg, On(L))
  BY <1>3, OnHas, BlockWithin
<1>5. Within(l, e) = Brief(l)
  <2>1. Lock(l) \in Instr /\ Unlock(l) \in Instr
    BY DEF Instr, Lock, Unlock
  <2> QED
    BY <1>1, <2>1, TupleTwo DEF Within, Brief
<1> QED
  BY <1>4, <1>5

\* What may run with l held, read off the steps it is made of.
LEMMA FitsOn ==
  ASSUME NEW s, NEW L, \A i \in 1 .. Len(s) : s[i] \in On(L), NEW l, l \notin L, NEW P, NEW mg,
         l = G => L \subseteq P,
         l \in Objects => \A o \in L \cap Objects : <<l, o>> \in mg
  PROVE  Fits(s, l, P, mg)
<1>1. \A x \in On(L) : x.do \in Both /\ x.on \in L /\ x.do \notin Events
  BY DEF On, Both, Events
<1>2. \A x \in On(L) : x # Lock(l) /\ x # Unlock(l)
  BY <1>1, LocksDiffer
<1> QED
  BY <1>1, <1>2 DEF Fits

LEMMA BlockAccess ==
  ASSUME NEW o \in Objects, NEW P, NEW mg, NEW L, o \in L, G \in L
  PROVE  Block(Access(o), P, mg, On(L))
<1>1. o \in Locks /\ G \in Locks /\ o # G /\ G \notin Objects
  BY LocksAre, LocksAssumption
<1>2. Block(Brief(G), P, mg, On({G}))
  BY <1>1, BlockBrief
<1>3. Fits(Brief(G), o, P, mg)
  <2>1. \A i \in 1 .. Len(Brief(G)) : Brief(G)[i] \in On({G})
    BY <1>2 DEF Block
  <2>2. o \notin {G} /\ {G} \cap Objects = {}
    BY <1>1
  <2> QED
    BY <1>1, <2>1, <2>2, FitsOn
<1>4. Block(Brief(G), P, mg, On(L))
  BY <1>1, BlockBrief
<1> QED
  BY <1>1, <1>3, <1>4, OnHas, BlockWithin DEF Access

LEMMA BlockFree ==
  ASSUME NEW o \in Locks, o # G, NEW P, o \in P, NEW mg, NEW L, o \in L, G \in L
  PROVE  Block(FreeObject(o), P, mg, On(L))
<1>1. G \in Locks /\ G \notin Objects
  BY LocksAre, LocksAssumption
<1>2. Block(Brief(o), P, mg, On({o}))
  BY BlockBrief
<1>3. Fits(Brief(o), G, P, mg)
  <2>1. \A i \in 1 .. Len(Brief(o)) : Brief(o)[i] \in On({o})
    BY <1>2 DEF Block
  <2>2. G \notin {o} /\ {o} \subseteq P
    OBVIOUS
  <2> QED
    BY <1>1, <2>1, <2>2, FitsOn
<1>4. Block(Brief(o), P, mg, On(L))
  BY BlockBrief
<1> QED
  BY <1>1, <1>3, <1>4, OnHas, BlockWithin DEF FreeObject

LEMMA BlockMerge ==
  ASSUME NEW o \in Objects, NEW p \in Objects, o # p, NEW P, NEW mg, <<o, p>> \in mg,
         NEW L, o \in L, p \in L
  PROVE  Block(Merge(o, p), P, mg, On(L))
<1>1. o \in Locks /\ p \in Locks /\ o # G
  BY LocksAre, LocksAssumption
<1>2. Block(Brief(p), P, mg, On({p}))
  BY <1>1, BlockBrief
<1>3. Fits(Brief(p), o, P, mg)
  <2>1. \A i \in 1 .. Len(Brief(p)) : Brief(p)[i] \in On({p})
    BY <1>2 DEF Block
  <2>2. o \notin {p} /\ \A q \in {p} \cap Objects : <<o, q>> \in mg
    OBVIOUS
  <2> QED
    BY <1>1, <2>1, <2>2, FitsOn
<1>4. Block(Brief(p), P, mg, On(L))
  BY <1>1, BlockBrief
<1> QED
  BY <1>1, <1>3, <1>4, OnHas, BlockWithin DEF Merge

LEMMA BlocksAccess ==
  ASSUME NEW S, S \subseteq Objects, NEW P, NEW mg, NEW L, S \subseteq L, G \in L
  PROVE  /\ Block(Each(S, Access), P, mg, On(L))
         /\ S \subseteq P => Block(Each(S, FreeObject), P, mg, On(L))
<1>1. IsFiniteSet(S)
  BY FiniteAssumption, FS_Subset
<1>2. Cardinality(S) \in Nat /\ \A i \in 1 .. Cardinality(S) : SetToSeq(S)[i] \in S
  BY <1>1, SetToSeqIs
<1>3. PICK a : a = [i \in 1 .. Cardinality(S) |-> Access(SetToSeq(S)[i])]
  OBVIOUS
<1>4. PICK f : f = [i \in 1 .. Cardinality(S) |-> FreeObject(SetToSeq(S)[i])]
  OBVIOUS
<1>5. \A i \in 1 .. Cardinality(S) : Block(a[i], P, mg, On(L))
  <2>1. \A o \in S : Block(Access(o), P, mg, On(L))
    BY BlockAccess
  <2> QED
    BY <1>2, <1>3, <2>1
<1>6. ASSUME S \subseteq P PROVE \A i \in 1 .. Cardinality(S) : Block(f[i], P, mg, On(L))
  <2>1. \A o \in S : o \in Locks /\ o # G /\ o \in P /\ o \in L
    BY <1>6, LocksAre, LocksAssumption
  <2>2. \A o \in S : Block(FreeObject(o), P, mg, On(L))
    BY <2>1, BlockFree
  <2> QED
    BY <1>2, <1>4, <2>2
<1>7. a = [i \in 1 .. Cardinality(S) |-> a[i]] /\ f = [i \in 1 .. Cardinality(S) |-> f[i]]
  BY <1>3, <1>4
<1>8. Block(FlattenSeq(a), P, mg, On(L))
  BY <1>2, <1>5, <1>7, BlockEach
<1>9. S \subseteq P => Block(FlattenSeq(f), P, mg, On(L))
  BY <1>2, <1>6, <1>7, BlockEach
<1>10. Each(S, Access) = FlattenSeq(a) /\ Each(S, FreeObject) = FlattenSeq(f)
  BY <1>3, <1>4 DEF Each
<1> QED
  BY <1>8, <1>9, <1>10


\* What an operation must be like when it begins.
Opens(s, t, pr, st, jd) == s \in Seq(Instr) /\ Shut(s) /\ Tidy(s, t, pr, st, jd)

LEMMA SimpleOpens ==
  ASSUME NEW s, NEW t \in Threads, NEW pr, NEW st, NEW jd, NEW L,
         Block(s, Priv(t, pr.shares, st), pr.merges, On(L)),
         \A l \in L : l = G \/ (l \in Objects /\ t \in pr.shares[l]) \/ (l = t /\ st[t] = "exiting")
  PROVE  Opens(s, t, pr, st, jd)
<1>1. \A i \in 1 .. Len(s) : s[i].do \in Both /\ s[i].on \in L
  <2>1. \A x \in On(L) : x.do \in Both /\ x.on \in L
    BY DEF On
  <2> QED
    BY <2>1 DEF Block
<1>2. G \notin Threads /\ G \notin Objects /\ Threads \cap Objects = {}
  BY LocksAssumption
<1>3. UsesThreads(s, t, pr, st)
  BY <1>1, <1>2 DEF UsesThreads
<1>4. UsesObjects(s, t, pr, st)
  BY <1>1, <1>2 DEF UsesObjects
<1>5. JoinsInOrder(s, t, pr, st, jd)
  BY <1>1 DEF JoinsInOrder, Both, Events
<1> QED
  BY <1>3, <1>4, <1>5 DEF Block, Neat, Opens, Tidy

\* t uses no object but those it shares, and all operations without join and
\* start open in order.
LEMMA CallsOpen ==
  ASSUME NEW t \in Threads, NEW pr, NEW st, NEW jd, st[t] = "running"
  PROVE  /\ Opens(New, t, pr, st, jd)
         /\ \A o \in Objects : t \in pr.shares[o] => Opens(Access(o), t, pr, st, jd)
         /\ \A o \in Objects : pr.shares[o] = {t} => Opens(FreeObject(o), t, pr, st, jd)
         /\ \A o, p \in Objects :
              t \in pr.shares[o] /\ t \in pr.shares[p] /\ o # p /\ <<o, p>> \in pr.merges =>
                Opens(Merge(o, p), t, pr, st, jd)
<1>0. G \in Locks /\ \A o \in Objects : o \in Locks /\ o # G
  BY LocksAre, LocksAssumption
<1>1. PICK P, mg : P = Priv(t, pr.shares, st) /\ mg = pr.merges
  OBVIOUS
<1>2. Opens(New, t, pr, st, jd)
  <2>1. Block(New, P, mg, On({G}))
    BY <1>0, BlockBrief DEF New
  <2> QED
    BY <1>1, <2>1, SimpleOpens
<1>3. ASSUME NEW o \in Objects, t \in pr.shares[o] PROVE Opens(Access(o), t, pr, st, jd)
  <2>1. Block(Access(o), P, mg, On({G, o}))
    BY BlockAccess
  <2> QED
    BY <1>1, <1>3, <2>1, SimpleOpens
<1>4. ASSUME NEW o \in Objects, pr.shares[o] = {t} PROVE Opens(FreeObject(o), t, pr, st, jd)
  <2>1. o \in P
    BY <1>1, <1>4 DEF Priv
  <2>2. Block(FreeObject(o), P, mg, On({G, o}))
    BY <1>0, <2>1, BlockFree
  <2>3. t \in pr.shares[o]
    BY <1>4
  <2> QED
    BY <1>1, <2>2, <2>3, SimpleOpens
<1>5. ASSUME NEW o \in Objects, NEW p \in Objects, t \in pr.shares[o], t \in pr.shares[p], o # p,
             <<o, p>> \in pr.merges
      PROVE  Opens(Merge(o, p), t, pr, st, jd)
  <2>1. Block(Merge(o, p), P, mg, On({o, p}))
    BY <1>1, <1>5, BlockMerge
  <2> QED
    BY <1>1, <1>5, <2>1, SimpleOpens
<1> QED
  BY <1>2, <1>3, <1>4, <1>5

LEMMA StartOpens ==
  ASSUME NEW c \in Others, NEW t \in Threads, NEW pr, NEW st, NEW jd,
         pr.creator[c] = t, st[t] = "running"
  PROVE  Opens(Start(c), t, pr, st, jd)
<1>1. c \in Locks /\ c \in Threads /\ c \notin Objects
  BY LocksAre, LocksAssumption DEF Others
<1>2. PICK P, mg : P = Priv(t, pr.shares, st) /\ mg = pr.merges
  OBVIOUS
<1>3. PICK x \in Instr, y \in Instr, z \in Instr, v \in Instr :
        x = Lock(c) /\ y = Unlock(c) /\ z = Create(c) /\ v = Ready(c)
  BY <1>1 DEF Instr, Lock, Unlock, Create, Ready
<1>4. /\ x.do = "lock" /\ y.do = "unlock" /\ z.do = "create" /\ v.do = "ready"
      /\ x.on = c /\ y.on = c /\ z.on = c /\ v.on = c
  BY <1>3 DEF Lock, Unlock, Create, Ready
<1>5. PICK s : s = <<x, y, z, v>>
  OBVIOUS
<1>6. s \in Seq(Instr) /\ Len(s) = 4 /\ s[1] = x /\ s[2] = y /\ s[3] = z /\ s[4] = v
  BY <1>5
<1>7. Start(c) = s
  <2>1. <<x, y>> \o <<z, v>> = s
    BY <1>5, TuplePairs
  <2> QED
    BY <1>3, <2>1 DEF Start, Brief
<1>8. Neat(s, P, mg)
  <2>1. Neat(Brief(c), P, mg)
    <3>1. Block(Brief(c), P, mg, On({c}))
      BY <1>1, BlockBrief
    <3> QED
      BY <3>1 DEF Block
  <2>2. Neat(<<z>>, P, mg) /\ Neat(<<v>>, P, mg)
    BY <1>4, NeatOne DEF Both
  <2>3. Neat(<<z>> \o <<v>>, P, mg)
    BY <2>2, NeatConcat
  <2>4. <<z>> \o <<v>> = <<z, v>>
    BY TupleTwo
  <2>5. Neat(Brief(c) \o <<z, v>>, P, mg)
    BY <2>1, <2>3, <2>4, NeatConcat
  <2> QED
    BY <1>3, <1>7, <2>5 DEF Start
<1>9. \A i \in 1 .. Len(s) : i \in {1, 2, 3, 4}
  BY <1>6
<1>10. \A i \in 1 .. Len(s) : s[i].on = c /\ s[i].do \in {"lock", "unlock", "create", "ready"}
  BY <1>4, <1>6, <1>9
<1>11. UsesThreads(s, t, pr, st) /\ UsesObjects(s, t, pr, st)
  BY <1>1, <1>10 DEF UsesThreads, UsesObjects
<1>12. JoinsInOrder(s, t, pr, st, jd)
  BY <1>10 DEF JoinsInOrder, Events
<1> QED
  BY <1>2, <1>6, <1>7, <1>8, <1>11, <1>12 DEF Opens, Tidy, Neat

LEMMA StartupOpens ==
  ASSUME NEW t \in Threads, NEW pr, NEW st, NEW jd
  PROVE  Opens(PreparedStartup, t, pr, st, jd)
<1>1. G \in Locks /\ G \notin Threads /\ G \notin Objects
  BY LocksAre, LocksAssumption
<1>2. PICK P, mg : P = Priv(t, pr.shares, st) /\ mg = pr.merges
  OBVIOUS
<1>3. PICK x \in Instr, y \in Instr, z \in Instr, v \in Instr :
        x = Lock(G) /\ y = Become("ready") /\ z = Unlock(G) /\ v = Become("running")
  BY <1>1 DEF Instr, Lock, Unlock, Become
<1>4. /\ x.do = "lock" /\ y.do = "become" /\ z.do = "unlock" /\ v.do = "become"
      /\ x.on = G /\ y.on = "ready" /\ z.on = G /\ v.on = "running"
  BY <1>3 DEF Lock, Unlock, Become
<1>5. PICK s : s = <<x, y, z, v>>
  OBVIOUS
<1>6. s \in Seq(Instr) /\ Len(s) = 4 /\ s[1] = x /\ s[2] = y /\ s[3] = z /\ s[4] = v
  BY <1>5
<1>7. PreparedStartup = s
  <2>1. ((<<x>> \o <<y>>) \o <<z>>) \o <<v>> = s
    BY <1>5, TupleFour
  <2> QED
    BY <1>3, <2>1 DEF PreparedStartup, Within
<1>8. Neat(s, P, mg)
  <2>1. Neat(<<y>>, P, mg) /\ Neat(<<v>>, P, mg)
    BY <1>4, NeatOne DEF Both
  <2>2. Fits(<<y>>, G, P, mg)
    <3>1. PICK b : b = <<y>>
      OBVIOUS
    <3>2. Len(b) = 1 /\ b[1] = y
      BY <3>1, InstrOne
    <3>3. \A i \in 1 .. Len(b) : b[i] = y
      BY <3>2
    <3>4. y # Lock(G) /\ y # Unlock(G) /\ y.do \notin Events /\ y.do # "lock"
      BY <1>4, LocksDiffer DEF Events
    <3> QED
      BY <3>1, <3>3, <3>4 DEF Fits
  <2>3. Neat(Within(G, <<y>>), P, mg)
    BY <1>1, <2>1, <2>2, NeatWithin
  <2>4. Neat(Within(G, <<y>>) \o <<v>>, P, mg)
    BY <2>1, <2>3, NeatConcat
  <2> QED
    BY <1>3, <1>7, <2>4 DEF PreparedStartup
<1>9. \A i \in 1 .. Len(s) : i \in {1, 2, 3, 4}
  BY <1>6
<1>10. \A i \in 1 .. Len(s) :
         (s[i].do \in Both => s[i].on = G) /\ s[i].do \in {"lock", "unlock", "become"}
         /\ s[i].on # "dead"
  <2>1. G # "dead"
    BY DEF G
  <2> QED
    BY <1>4, <1>6, <1>9, <2>1 DEF Both
<1>11. UsesThreads(s, t, pr, st) /\ UsesObjects(s, t, pr, st)
  BY <1>1, <1>10 DEF UsesThreads, UsesObjects
<1>12. JoinsInOrder(s, t, pr, st, jd)
  BY <1>10 DEF JoinsInOrder, Events
<1> QED
  BY <1>2, <1>6, <1>7, <1>8, <1>11, <1>12 DEF Opens, Tidy, Neat

\* The end of a thread without children.
LEMMA EndOpens ==
  ASSUME NEW t \in Threads, NEW pr, NEW st, NEW jd, st[t] = "exiting", NEW reach,
         reach \subseteq Objects, \A o \in reach : t \in pr.shares[o]
  PROVE  Opens(RoutineEnd(t, reach, {}), t, pr, st, jd)
<1>1. t \in Locks /\ G \in Locks /\ t # G /\ G \notin Objects
  BY LocksAre, LocksAssumption
<1>2. PICK P, mg : P = Priv(t, pr.shares, st) /\ mg = pr.merges
  OBVIOUS
<1>3. t \in P /\ reach \subseteq P
  BY <1>2 DEF Priv
<1>4. PICK L : L = {G, t} \cup reach
  OBVIOUS
<1>5. G \in L /\ t \in L /\ reach \subseteq L
  BY <1>4
<1>6. PICK a : a = [i \in 1 .. Cardinality({}) |->
                      Join(SetToSeq({})[i], {}) \o FreeObject(SetToSeq({})[i])]
  OBVIOUS
<1>7. FlattenSeq(a) = << >>
  <2>1. Cardinality({}) = 0
    BY FS_EmptySet
  <2>2. a = << >>
    BY <1>6, <2>1
  <2> QED
    BY <2>2 DEF FlattenSeq
<1>8. PICK b, f, x, y : b = Brief(t) /\ f = FreeObject(t) /\ x = Each(reach, FreeObject) /\ y = Brief(G)
  OBVIOUS
<1>9. Block(b, P, mg, On(L)) /\ Block(f, P, mg, On(L)) /\ Block(x, P, mg, On(L)) /\ Block(y, P, mg, On(L))
  BY <1>1, <1>3, <1>5, <1>8, BlockBrief, BlocksAccess, BlockFree
<1>10. PICK s : s = ((b \o f) \o x) \o y
  OBVIOUS
<1>11. Block(s, P, mg, On(L))
  BY <1>9, <1>10, BlockConcat
<1>12. Within(G, << >>) = y
  <2>1. Lock(G) \in Instr /\ Unlock(G) \in Instr
    BY <1>1 DEF Instr, Lock, Unlock
  <2> QED
    BY <1>8, <2>1, TupleTwo DEF Within, Brief
<1>13. PreparedShutdown({}) = y \o <<Become("dead")>>
  BY <1>6, <1>7, <1>12 DEF PreparedShutdown, Each
<1>14. RoutineEnd(t, reach, {}) = ((b \o f) \o x) \o (y \o <<Become("dead")>>)
  BY <1>8, <1>13 DEF RoutineEnd
<1>15. PICK z \in Instr : z = Become("dead")
  BY DEF Become, Instr
<1>16. PICK e : e = <<z>>
  OBVIOUS
<1>17. e \in Seq(Instr) /\ Len(e) = 1 /\ e[1] = z
  BY <1>16, InstrOne
<1>18. PICK w : w = s \o e
  OBVIOUS
<1>19. RoutineEnd(t, reach, {}) = w
  <2>1. (b \o f) \o x \in Seq(Instr) /\ y \in Seq(Instr)
    BY <1>9, BlockConcat DEF Block, Neat
  <2>2. PICK q \in Seq(Instr) : q = (b \o f) \o x
    BY <2>1
  <2>3. q \in Seq(Instr) /\ y \in Seq(Instr) /\ e \in Seq(Instr)
    BY <1>17, <2>1
  <2>4. (q \o y) \o e = q \o (y \o e)
    <3> HIDE <2>2
    <3> QED
      BY <2>3, ConcatAssociative
  <2> QED
    BY <1>10, <1>14, <1>15, <1>16, <1>18, <2>2, <2>4
<1>20. z.do = "become" /\ z.on = "dead"
  BY <1>15 DEF Become
<1>21. Neat(w, P, mg)
  <2>1. Neat(e, P, mg)
    BY <1>16, <1>20, NeatOne DEF Both
  <2> QED
    BY <1>11, <1>18, <2>1, NeatConcat DEF Block
<1>22. s \in Seq(Instr) /\ Len(s) \in Nat
  BY <1>11, LenProperties DEF Block, Neat
<1>23. Len(w) = Len(s) + 1 /\ \A i \in 1 .. Len(w) : IF i = Len(w) THEN w[i] = z ELSE w[i] \in On(L)
  <2>1. /\ Len(w) = Len(s) + Len(e)
        /\ \A i \in 1 .. Len(s) + Len(e) : w[i] = IF i <= Len(s) THEN s[i] ELSE e[i - Len(s)]
    BY <1>17, <1>18, <1>22, ConcatProperties
  <2>2. \A i \in 1 .. Len(s) + 1 : IF i = Len(s) + 1 THEN ~(i <= Len(s)) /\ i - Len(s) = 1
                                   ELSE i <= Len(s) /\ i \in 1 .. Len(s)
    BY <1>22
  <2> QED
    BY <1>11, <1>17, <2>1, <2>2 DEF Block
<1>24. \A u \in On(L) : u.do \in Both /\ u.on \in L
  BY DEF On
<1>25. \A i \in 1 .. Len(w) : (w[i].do \in Both => w[i].on \in L)
         /\ w[i].do \in {"lock", "unlock", "become"} /\ (w[i].do = "become" => i = Len(w))
  BY <1>20, <1>23, <1>24 DEF Both
<1>26. UsesThreads(w, t, pr, st)
  BY <1>4, <1>25, LocksAssumption DEF UsesThreads
<1>27. UsesObjects(w, t, pr, st)
  BY <1>4, <1>25, LocksAssumption DEF UsesObjects
<1>28. JoinsInOrder(w, t, pr, st, jd)
  BY <1>25 DEF JoinsInOrder, Events
<1> QED
  BY <1>2, <1>19, <1>21, <1>26, <1>27, <1>28 DEF Opens, Tidy, Neat

LEMMA FitsOne ==
  ASSUME NEW x \in Instr, x.do \notin Both \cup Events, NEW l, NEW P, NEW mg
  PROVE  Fits(<<x>>, l, P, mg)
<1>1. PICK b : b = <<x>>
  OBVIOUS
<1>2. Len(b) = 1 /\ b[1] = x
  BY <1>1, InstrOne
<1>3. \A i \in 1 .. Len(b) : b[i] = x
  BY <1>2
<1>4. x # Lock(l) /\ x # Unlock(l) /\ x.do \notin Events /\ x.do # "lock"
  BY LocksDiffer DEF Both
<1> QED
  BY <1>1, <1>3, <1>4 DEF Fits

\* The three parts of a join, one after the other.
ThreeParts(a, b, e, f) ==
  /\ Len(b) \in Nat /\ Len(f) = Len(b) + 8
  /\ f[1] = a[1] /\ f[2] = a[2] /\ f[3] = a[3] /\ f[4] = a[4]
  /\ \A i \in 1 .. Len(b) : f[i + 4] = b[i]
  /\ f[Len(b) + 5] = e[1] /\ f[Len(b) + 6] = e[2] /\ f[Len(b) + 7] = e[3] /\ f[Len(b) + 8] = e[4]

LEMMA JoinParts ==
  ASSUME NEW a \in Seq(Instr), NEW b \in Seq(Instr), NEW e \in Seq(Instr), Len(a) = 4, Len(e) = 4,
         NEW f, f = (a \o b) \o e
  PROVE  ThreeParts(a, b, e, f)
<1>1. Len(b) \in Nat
  BY LenProperties
<1>2. PICK d : d = a \o b
  OBVIOUS
<1>3. /\ d \in Seq(Instr) /\ Len(d) = Len(a) + Len(b)
      /\ \A i \in 1 .. Len(a) + Len(b) : d[i] = IF i <= Len(a) THEN a[i] ELSE b[i - Len(a)]
  BY <1>2, ConcatProperties
<1>4. /\ Len(f) = Len(d) + Len(e)
      /\ \A i \in 1 .. Len(d) + Len(e) : f[i] = IF i <= Len(d) THEN d[i] ELSE e[i - Len(d)]
  BY <1>2, <1>3, ConcatProperties
<1>5. PICK n \in Nat : n = Len(b)
  BY <1>1
<1>6. /\ Len(d) = n + 4 /\ Len(f) = n + 8
      /\ \A i \in 1 .. n + 4 : d[i] = IF i <= 4 THEN a[i] ELSE b[i - 4]
      /\ \A i \in 1 .. n + 8 : f[i] = IF i <= n + 4 THEN d[i] ELSE e[i - (n + 4)]
  BY <1>3, <1>4, <1>5
<1>7. \A i \in 1 .. n + 4 : f[i] = IF i <= 4 THEN a[i] ELSE b[i - 4]
  <2>1. \A i \in 1 .. n + 4 : i \in 1 .. n + 8 /\ i <= n + 4
    OBVIOUS
  <2> QED
    BY <1>6, <2>1
<1>8. f[1] = a[1] /\ f[2] = a[2] /\ f[3] = a[3] /\ f[4] = a[4]
  <2>1. \A i \in {1, 2, 3, 4} : i \in 1 .. n + 4 /\ i <= 4
    OBVIOUS
  <2>2. \A i \in {1, 2, 3, 4} : f[i] = a[i]
    BY <1>7, <2>1
  <2> QED
    BY <2>2
<1>9. \A i \in 1 .. n : f[i + 4] = b[i]
  <2>1. \A i \in 1 .. n : i + 4 \in 1 .. n + 4 /\ ~(i + 4 <= 4) /\ (i + 4) - 4 = i
    OBVIOUS
  <2> QED
    BY <1>7, <2>1
<1>10. \A k \in 1 .. 4 : f[n + 4 + k] = e[k]
  <2>1. \A k \in 1 .. 4 : n + 4 + k \in 1 .. n + 8 /\ ~(n + 4 + k <= n + 4) /\ (n + 4 + k) - (n + 4) = k
    OBVIOUS
  <2> QED
    BY <1>6, <2>1
<1>11. f[n + 5] = e[1] /\ f[n + 6] = e[2] /\ f[n + 7] = e[3] /\ f[n + 8] = e[4]
  <2>1. n + 4 + 1 = n + 5 /\ n + 4 + 2 = n + 6 /\ n + 4 + 3 = n + 7 /\ n + 4 + 4 = n + 8
    OBVIOUS
  <2>2. 1 \in 1 .. 4 /\ 2 \in 1 .. 4 /\ 3 \in 1 .. 4 /\ 4 \in 1 .. 4
    OBVIOUS
  <2>3. f[n + 4 + 1] = e[1] /\ f[n + 4 + 2] = e[2] /\ f[n + 4 + 3] = e[3] /\ f[n + 4 + 4] = e[4]
    BY <1>10, <2>2, Zenon
  <2> QED
    BY <2>1, <2>3
<1> QED
  BY <1>5, <1>6, <1>8, <1>9, <1>11 DEF ThreeParts

\* Where each step of a join stands.
JoinAt(f, n, i, c, L) ==
  \/ i \in {1, n + 5} /\ f[i] = Lock(c)
  \/ i \in {3, n + 7} /\ f[i] = Unlock(c)
  \/ i = 2 /\ f[i] = Joined(c)
  \/ i = 4 /\ f[i] = Await(c)
  \/ i \in 5 .. n + 4 /\ f[i] \in On(L)
  \/ i = n + 6 /\ f[i] = Exit(c)
  \/ i = n + 8 /\ f[i] = Gone(c)

LEMMA JoinIs ==
  ASSUME NEW c \in Others, NEW reach, reach \subseteq Objects, NEW P, NEW mg
  PROVE  \E f : \E n \in Nat :
           /\ f = Join(c, reach) /\ Neat(f, P, mg) /\ Len(f) = n + 8
           /\ f[2] = Joined(c) /\ f[4] = Await(c) /\ f[n + 6] = Exit(c) /\ f[n + 7] = Unlock(c)
           /\ f[n + 8] = Gone(c)
           /\ \A i \in 1 .. Len(f) : JoinAt(f, n, i, c, {c, G} \cup reach)
<1>1. c \in Locks /\ c \in Threads /\ c # G /\ c \notin Objects /\ G \in Locks
  BY LocksAre, LocksAssumption DEF Others
<1>2. PICK x \in Instr, y \in Instr, j \in Instr, w \in Instr, q \in Instr, g \in Instr :
        x = Lock(c) /\ y = Unlock(c) /\ j = Joined(c) /\ w = Await(c) /\ q = Exit(c) /\ g = Gone(c)
  BY <1>1 DEF Instr, Lock, Unlock, Joined, Await, Exit, Gone
<1>3. PICK a, b, e, f :
        /\ a = Within(c, <<j>>) \o <<w>>
        /\ b = Within(c, Brief(G) \o Each(reach, Access))
        /\ e = Within(c, <<q>>) \o <<g>>
        /\ f = (a \o b) \o e
  OBVIOUS
<1>4. a = <<x, j, y, w>> /\ e = <<x, q, y, g>>
  <2>1. ((<<x>> \o <<j>>) \o <<y>>) \o <<w>> = <<x, j, y, w>>
    BY TupleFour
  <2>2. ((<<x>> \o <<q>>) \o <<y>>) \o <<g>> = <<x, q, y, g>>
    BY TupleFour
  <2> QED
    BY <1>2, <1>3, <2>1, <2>2 DEF Within
<1>5. /\ a \in Seq(Instr) /\ Len(a) = 4 /\ a[1] = x /\ a[2] = j /\ a[3] = y /\ a[4] = w
      /\ e \in Seq(Instr) /\ Len(e) = 4 /\ e[1] = x /\ e[2] = q /\ e[3] = y /\ e[4] = g
  BY <1>4
<1>6. Join(c, reach) = f
  BY <1>2, <1>3, <1>4 DEF Join
<1>7. /\ j.do \notin Both \cup Events /\ q.do \notin Both \cup Events
      /\ w.do \notin Both /\ g.do \notin Both
  BY <1>2 DEF Joined, Exit, Await, Gone, Both, Events
<1>8. Neat(a, P, mg) /\ Neat(e, P, mg)
  <2>1. /\ Neat(<<j>>, P, mg) /\ Neat(<<q>>, P, mg) /\ Neat(<<w>>, P, mg) /\ Neat(<<g>>, P, mg)
    BY <1>7, NeatOne
  <2>2. Fits(<<j>>, c, P, mg) /\ Fits(<<q>>, c, P, mg)
    BY <1>7, FitsOne
  <2>3. Neat(Within(c, <<j>>), P, mg) /\ Neat(Within(c, <<q>>), P, mg)
    BY <1>1, <2>1, <2>2, NeatWithin
  <2> QED
    BY <1>3, <2>1, <2>3, NeatConcat
<1>9. PICK L, M : L = {c, G} \cup reach /\ M = {G} \cup reach
  OBVIOUS
<1>10. Block(b, P, mg, On(L))
  <2>1. PICK u : u = Brief(G) \o Each(reach, Access)
    OBVIOUS
  <2>2. G \in L /\ reach \subseteq L /\ c \in L /\ G \in M /\ reach \subseteq M
    BY <1>9
  <2>3. Block(u, P, mg, On(L)) /\ Block(u, P, mg, On(M))
    BY <1>1, <2>1, <2>2, BlockBrief, BlocksAccess, BlockConcat
  <2>4. Fits(u, c, P, mg)
    <3>1. c \notin M
      BY <1>1, <1>9
    <3>2. \A i \in 1 .. Len(u) : u[i] \in On(M)
      BY <2>3 DEF Block
    <3> QED
      BY <1>1, <3>1, <3>2, FitsOn
  <2>5. Block(Within(c, u), P, mg, On(L))
    BY <1>1, <2>2, <2>3, <2>4, OnHas, BlockWithin
  <2> QED
    BY <1>3, <2>1, <2>5
<1>11. b \in Seq(Instr) /\ Neat(b, P, mg)
  BY <1>10 DEF Block, Neat
<1>12. Neat(f, P, mg)
  BY <1>3, <1>8, <1>11, NeatConcat
<1>13. PICK n \in Nat : n = Len(b)
  BY <1>11, LenProperties
<1>14. /\ Len(f) = n + 8
       /\ f[1] = x /\ f[2] = j /\ f[3] = y /\ f[4] = w
       /\ \A i \in 1 .. n : f[i + 4] = b[i]
       /\ f[n + 5] = x /\ f[n + 6] = q /\ f[n + 7] = y /\ f[n + 8] = g
  <2>1. f = (a \o b) \o e
    BY <1>3
  <2>2. ThreeParts(a, b, e, f)
    <3>1. a \in Seq(Instr) /\ b \in Seq(Instr) /\ e \in Seq(Instr) /\ Len(a) = 4 /\ Len(e) = 4
      BY <1>5, <1>11
    <3> QED
      BY <2>1, <3>1, JoinParts
  <2> QED
    BY <1>5, <1>13, <2>2 DEF ThreeParts
<1>15. ASSUME NEW i \in 1 .. Len(f) PROVE JoinAt(f, n, i, c, L)
  <2>1. i \in {1, 2, 3, 4, n + 5, n + 6, n + 7, n + 8} \/ i \in 5 .. n + 4
    BY <1>14
  <2>2. CASE i \in {1, 2, 3, 4, n + 5, n + 6, n + 7, n + 8}
    BY <1>2, <1>14, <2>2 DEF JoinAt
  <2>3. CASE i \in 5 .. n + 4
    <3>1. i - 4 \in 1 .. n /\ (i - 4) + 4 = i
      BY <2>3
    <3>2. f[i] = b[i - 4] /\ b[i - 4] \in On(L)
      BY <1>10, <1>13, <1>14, <3>1 DEF Block
    <3> QED
      BY <2>3, <3>2 DEF JoinAt
  <2> QED
    BY <2>1, <2>2, <2>3
<1>16. /\ f = Join(c, reach) /\ Neat(f, P, mg) /\ Len(f) = n + 8
       /\ f[2] = Joined(c) /\ f[4] = Await(c) /\ f[n + 6] = Exit(c) /\ f[n + 7] = Unlock(c)
       /\ f[n + 8] = Gone(c)
       /\ \A i \in 1 .. Len(f) : JoinAt(f, n, i, c, {c, G} \cup reach)
  BY <1>2, <1>6, <1>9, <1>12, <1>14, <1>15
<1> QED
  BY <1>16, Zenon

LEMMA JoinOpens ==
  ASSUME NEW c \in Others, NEW t \in Threads, NEW pr, NEW st, NEW jd,
         pr.creator[c] = t, st[t] = "running", st[c] \notin {"unborn", "exiting", "dead"},
         NEW reach, reach \subseteq Objects, \A o \in reach : c \in pr.shares[o]
  PROVE  Opens(Join(c, reach), t, pr, st, jd)
<1>1. c \in Threads /\ c \notin Objects /\ G \notin Threads /\ G \notin Objects /\ c # G
  BY LocksAssumption DEF Others
<1>0. PICK P, mg : P = Priv(t, pr.shares, st) /\ mg = pr.merges
  OBVIOUS
<1>2. PICK f : \E n \in Nat :
           /\ f = Join(c, reach) /\ Neat(f, P, mg) /\ Len(f) = n + 8
           /\ f[2] = Joined(c) /\ f[4] = Await(c) /\ f[n + 6] = Exit(c) /\ f[n + 7] = Unlock(c)
           /\ f[n + 8] = Gone(c)
           /\ \A i \in 1 .. Len(f) : JoinAt(f, n, i, c, {c, G} \cup reach)
  BY JoinIs
<1>11. PICK n \in Nat :
           /\ f = Join(c, reach) /\ Neat(f, P, mg) /\ Len(f) = n + 8
           /\ f[2] = Joined(c) /\ f[4] = Await(c) /\ f[n + 6] = Exit(c) /\ f[n + 7] = Unlock(c)
           /\ f[n + 8] = Gone(c)
           /\ \A i \in 1 .. Len(f) : JoinAt(f, n, i, c, {c, G} \cup reach)
  BY <1>2
<1>3. PICK L : L = {c, G} \cup reach
  OBVIOUS
<1>4. \A u \in On(L) : u.do \in Both /\ u.on \in L
  BY DEF On
<1>5. /\ Lock(c).do = "lock" /\ Unlock(c).do = "unlock" /\ Joined(c).do = "joined"
      /\ Await(c).do = "awaiting" /\ Exit(c).do = "exit" /\ Gone(c).do = "dead"
      /\ Lock(c).on = c /\ Unlock(c).on = c /\ Joined(c).on = c
      /\ Await(c).on = c /\ Exit(c).on = c /\ Gone(c).on = c
  BY DEF Lock, Unlock, Joined, Await, Exit, Gone
<1>6. ASSUME NEW i \in 1 .. Len(f)
      PROVE  /\ f[i].do \in Both => f[i].on = c \/ (f[i].on \in L /\ i \in 5 .. n + 4)
             /\ f[i].do \notin Both => f[i].on = c
             /\ f[i].do = "joined" => i = 2
             /\ f[i].do = "exit" => i = n + 6
             /\ f[i].do = "dead" => i = n + 8
             /\ f[i].do # "become"
  <2>1. JoinAt(f, n, i, c, L)
    BY <1>11, <1>3
  <2> QED
    BY <1>4, <1>5, <2>1 DEF JoinAt, Both
<1>7. UsesThreads(f, t, pr, st)
  <2>1. \A l \in L : l \in Threads => l = c
    BY <1>1, <1>3, LocksAssumption
  <2> QED
    BY <1>1, <1>6, <2>1 DEF UsesThreads
<1>8. ASSUME NEW i \in 1 .. Len(f), f[i].do \in Both, f[i].on \in Objects
      PROVE  c \in pr.shares[f[i].on] /\ Syncs(f, i, t, c, pr, st)
  <2>1. f[i].on \in L /\ i \in 5 .. n + 4
    BY <1>1, <1>6, <1>8
  <2>2. f[i].on \in reach
    BY <1>1, <1>3, <1>8, <2>1
  <2>3. 4 \in 1 .. i - 1 /\ n + 6 \in i + 1 .. Len(f)
    BY <1>11, <2>1
  <2> QED
    BY <1>11, <2>2, <2>3 DEF Syncs
<1>9. UsesObjects(f, t, pr, st)
  BY <1>8 DEF UsesObjects
<1>10. JoinsInOrder(f, t, pr, st, jd)
  <2> SUFFICES ASSUME NEW i \in 1 .. Len(f)
      PROVE
        /\ f[i].do \in {"joined", "exit"} \cup Events => pr.creator[f[i].on] = t /\ st[t] = "running"
        /\ f[i].do = "joined" => f[Len(f)] = Gone(f[i].on)
        /\ f[i].do = "exit" =>
             /\ i + 2 = Len(f) /\ f[i + 1] = Unlock(f[i].on) /\ f[i + 2] = Gone(f[i].on)
             /\ st[f[i].on] \notin {"unborn", "exiting", "dead"}
             /\ f[i].on \in jd \/ \E j \in 1 .. i - 1 : f[j] = Joined(f[i].on)
        /\ f[i].do = "dead" =>
             st[f[i].on] \in {"exiting", "dead"} \/ \E j \in 1 .. i - 1 : f[j] = Exit(f[i].on)
        /\ f[i].do = "become" /\ f[i].on = "dead" => i = Len(f)
    BY DEF JoinsInOrder
  <2>1. f[i].do \in {"joined", "exit"} \cup Events => f[i].on = c
    BY <1>6 DEF Both, Events
  <2>2. f[i].do = "joined" => f[Len(f)] = Gone(f[i].on)
    BY <1>11, <2>1
  <2>3. ASSUME f[i].do = "exit"
        PROVE  /\ i + 2 = Len(f) /\ f[i + 1] = Unlock(c) /\ f[i + 2] = Gone(c)
               /\ \E j \in 1 .. i - 1 : f[j] = Joined(c)
    <3>1. i = n + 6
      BY <1>6, <2>3
    <3>2. i + 2 = Len(f) /\ i + 1 = n + 7 /\ i + 2 = n + 8 /\ 2 \in 1 .. i - 1
      BY <1>11, <3>1
    <3> QED
      BY <1>11, <3>2
  <2>4. ASSUME f[i].do = "dead" PROVE \E j \in 1 .. i - 1 : f[j] = Exit(c)
    <3>1. i = n + 8
      BY <1>6, <2>4
    <3>2. n + 6 \in 1 .. i - 1
      BY <3>1
    <3> QED
      BY <1>11, <3>2
  <2>5. f[i].do # "become"
    BY <1>6
  <2> QED
    BY <2>1, <2>2, <2>3, <2>4, <2>5 DEF Events
<1> QED
  BY <1>0, <1>11, <1>7, <1>9, <1>10 DEF Opens, Tidy, Neat


-----------------------------------------------------------------------------
(* What is left of an operation stays in order.                            *)

LEMMA TidyNone ==
  ASSUME NEW t \in Threads, NEW pr, NEW st, NEW jd
  PROVE  Opens(<< >>, t, pr, st, jd)
<1>1. PICK e : e = << >>
  OBVIOUS
<1>2. \A i : i \notin 1 .. Len(e)
  BY <1>1
<1>3. Neat(e, Priv(t, pr.shares, st), pr.merges)
  BY <1>1, NeatNone
<1>4. UsesThreads(e, t, pr, st) /\ UsesObjects(e, t, pr, st) /\ JoinsInOrder(e, t, pr, st, jd)
  BY <1>2 DEF UsesThreads, UsesObjects, JoinsInOrder
<1> QED
  BY <1>1, <1>3, <1>4 DEF Opens, Tidy, Neat

\* The items of a tail, and what stood before them.
Precedes(s, u) ==
  \A x : \A i \in 1 .. Len(u) : x # s[1] /\ (\E j \in 1 .. (i + 1) - 1 : s[j] = x) =>
    \E j \in 1 .. i - 1 : u[j] = x

LEMMA TailIs ==
  ASSUME NEW s \in Seq(Instr), s # << >>, NEW u, u = Tail(s)
  PROVE  /\ u \in Seq(Instr) /\ Len(s) \in Nat /\ Len(s) >= 1 /\ Len(u) = Len(s) - 1
         /\ \A i \in 1 .. Len(u) : u[i] = s[i + 1] /\ i + 1 \in 1 .. Len(s)
         /\ Precedes(s, u)
<1>1. Len(s) \in Nat \ {0}
  BY EmptySeq
<1>2. u \in Seq(Instr) /\ Len(u) = Len(s) - 1 /\ \A i \in 1 .. Len(u) : u[i] = s[i + 1]
  BY HeadTailProperties
<1>3. \A i \in 1 .. Len(u) : i + 1 \in 1 .. Len(s)
  BY <1>1, <1>2
<1>4. ASSUME NEW x, NEW i \in 1 .. Len(u), x # s[1], NEW j \in 1 .. (i + 1) - 1, s[j] = x
      PROVE  \E k \in 1 .. i - 1 : u[k] = x
  <2>1. j # 1
    BY <1>4
  <2>2. j - 1 \in 1 .. i - 1 /\ j - 1 \in 1 .. Len(u) /\ (j - 1) + 1 = j
    BY <1>1, <1>2, <2>1
  <2>3. u[j - 1] = x
    BY <1>2, <1>4, <2>2
  <2> QED
    BY <2>2, <2>3
<1> QED
  BY <1>1, <1>2, <1>3, <1>4 DEF Precedes

LEMMA TidyTail ==
  ASSUME NEW s \in Seq(Instr), s # << >>, NEW t, NEW pr, NEW st, NEW jd, NEW jd2,
         Tidy(s, t, pr, st, jd), jd \subseteq jd2, s[1].do # "exit",
         s[1].do = "awaiting" => st[s[1].on] \in Late,
         s[1].do = "joined" => s[1].on \in jd2
  PROVE  Tidy(Tail(s), t, pr, st, jd2)
<1>1. PICK u : u = Tail(s)
  OBVIOUS
<1>2. /\ u \in Seq(Instr) /\ Len(s) \in Nat /\ Len(s) >= 1 /\ Len(u) = Len(s) - 1
      /\ \A i \in 1 .. Len(u) : u[i] = s[i + 1] /\ i + 1 \in 1 .. Len(s)
  BY <1>1, TailIs
<1>3. Precedes(s, u)
  BY <1>1, TailIs
<1>4. Nest(u, Priv(t, pr.shares, st), pr.merges)
  BY <1>1, NestTail DEF Tidy
<1>5. UsesThreads(u, t, pr, st)
  BY <1>2 DEF Tidy, UsesThreads
<1>6. ASSUME NEW i \in 1 .. Len(u), NEW c \in Others, Syncs(s, i + 1, t, c, pr, st)
      PROVE  Syncs(u, i, t, c, pr, st)
  <2>1. PICK k \in (i + 1) + 1 .. Len(s) : s[k] = Exit(c)
    BY <1>6 DEF Syncs
  <2>2. k - 1 \in i + 1 .. Len(u) /\ k - 1 \in 1 .. Len(u) /\ (k - 1) + 1 = k /\ k \in 1 .. Len(s)
    BY <1>2
  <2>3. u[k - 1] = Exit(c)
    BY <1>2, <2>1, <2>2
  <2>4. Exit(c).do = "exit" /\ Exit(c).on = c /\ Await(c).do = "awaiting" /\ Await(c).on = c
    BY DEF Exit, Await
  <2>5. st[c] \notin {"exiting", "dead"}
    BY <2>1, <2>2, <2>4 DEF Tidy, JoinsInOrder
  <2>6. s[1] = Await(c) => st[c] = "awaiting"
    BY <2>4, <2>5 DEF Late
  <2>7. st[c] = "awaiting" \/ \E j \in 1 .. i - 1 : u[j] = Await(c)
    BY <1>3, <1>6, <2>6 DEF Syncs, Precedes
  <2> QED
    BY <1>6, <2>2, <2>3, <2>7 DEF Syncs
<1>7. UsesObjects(u, t, pr, st)
  BY <1>2, <1>6 DEF Tidy, UsesObjects
<1>8. JoinsInOrder(u, t, pr, st, jd2)
  <2> SUFFICES ASSUME NEW i \in 1 .. Len(u)
      PROVE
        /\ u[i].do \in {"joined", "exit"} \cup Events => pr.creator[u[i].on] = t /\ st[t] = "running"
        /\ u[i].do = "joined" => u[Len(u)] = Gone(u[i].on)
        /\ u[i].do = "exit" =>
             /\ i + 2 = Len(u) /\ u[i + 1] = Unlock(u[i].on) /\ u[i + 2] = Gone(u[i].on)
             /\ st[u[i].on] \notin {"unborn", "exiting", "dead"}
             /\ u[i].on \in jd2 \/ \E j \in 1 .. i - 1 : u[j] = Joined(u[i].on)
        /\ u[i].do = "dead" =>
             st[u[i].on] \in {"exiting", "dead"} \/ \E j \in 1 .. i - 1 : u[j] = Exit(u[i].on)
        /\ u[i].do = "become" /\ u[i].on = "dead" => i = Len(u)
    BY DEF JoinsInOrder
  <2>0. JoinsInOrder(s, t, pr, st, jd)
    BY DEF Tidy
  <2>1. PICK x : x = s[i + 1]
    OBVIOUS
  <2>2. u[i] = x /\ i + 1 \in 1 .. Len(s) /\ Len(u) \in 1 .. Len(u) /\ Len(u) + 1 = Len(s)
    BY <1>2, <2>1
  <2>3. /\ x.do \in {"joined", "exit"} \cup Events => pr.creator[x.on] = t /\ st[t] = "running"
        /\ x.do = "joined" => s[Len(s)] = Gone(x.on)
        /\ x.do = "exit" =>
             /\ (i + 1) + 2 = Len(s) /\ s[(i + 1) + 1] = Unlock(x.on) /\ s[(i + 1) + 2] = Gone(x.on)
             /\ st[x.on] \notin {"unborn", "exiting", "dead"}
             /\ x.on \in jd \/ \E j \in 1 .. (i + 1) - 1 : s[j] = Joined(x.on)
        /\ x.do = "dead" =>
             st[x.on] \in {"exiting", "dead"} \/ \E j \in 1 .. (i + 1) - 1 : s[j] = Exit(x.on)
        /\ x.do = "become" /\ x.on = "dead" => i + 1 = Len(s)
    BY <2>0, <2>1, <2>2 DEF JoinsInOrder
  <2>4. u[Len(u)] = s[Len(s)]
    BY <1>2, <2>2
  <2>5. ASSUME x.do = "exit"
        PROVE  /\ i + 2 = Len(u) /\ u[i + 1] = Unlock(x.on) /\ u[i + 2] = Gone(x.on)
               /\ x.on \in jd2 \/ \E j \in 1 .. i - 1 : u[j] = Joined(x.on)
    <3>1. i + 1 \in 1 .. Len(u) /\ i + 2 \in 1 .. Len(u) /\ (i + 2) + 1 = (i + 1) + 2 /\ i + 2 = Len(u)
      BY <1>2, <2>3, <2>5
    <3>2. u[i + 1] = s[(i + 1) + 1] /\ u[i + 2] = s[(i + 1) + 2]
      BY <1>2, <3>1
    <3>3. Joined(x.on).do = "joined" /\ Joined(x.on).on = x.on
      BY DEF Joined
    <3>4. s[1] = Joined(x.on) => x.on \in jd2
      BY <3>3
    <3> QED
      BY <1>3, <2>3, <2>5, <3>1, <3>2, <3>4 DEF Precedes
  <2>6. ASSUME x.do = "dead"
        PROVE  st[x.on] \in {"exiting", "dead"} \/ \E j \in 1 .. i - 1 : u[j] = Exit(x.on)
    <3>1. Exit(x.on).do = "exit"
      BY DEF Exit
    <3>2. s[1] # Exit(x.on)
      BY <3>1
    <3> QED
      BY <1>3, <2>3, <2>6, <3>2 DEF Precedes
  <2> QED
    BY <2>2, <2>3, <2>4, <2>5, <2>6
<1> QED
  BY <1>1, <1>4, <1>5, <1>7, <1>8 DEF Tidy

\* What a step of another thread, or of one's own, may do to a child's stage.
Steady(x, y) ==
  /\ x = "awaiting" => y = "awaiting"
  /\ x \in {"exiting", "dead"} => y \in {"exiting", "dead"}
  /\ x \notin {"unborn", "exiting", "dead"} => y \notin {"unborn", "exiting", "dead"}

LEMMA InstrsAre ==
  ASSUME NEW s \in Seq(Instr), NEW i \in 1 .. Len(s)
  PROVE  /\ s[i] \in Instr
         /\ s[i].do \in {"create", "joined", "exit", "ready", "awaiting", "dead"} => s[i].on \in Others
<1>1. s[i] \in Instr
  BY ElementOfSeq
<1> QED
  BY <1>1, InstrIs

LEMMA TidyOther ==
  ASSUME NEW s \in Seq(Instr), NEW t, NEW pr, NEW st, NEW st2, NEW jd, NEW jd2,
         Tidy(s, t, pr, st, jd), jd \subseteq jd2, st2[t] = st[t],
         \A c \in Others : pr.creator[c] = t => Steady(st[c], st2[c])
  PROVE  Tidy(s, t, pr, st2, jd2)
<1>1. Nest(s, Priv(t, pr.shares, st2), pr.merges) /\ UsesThreads(s, t, pr, st2)
  BY DEF Tidy, Priv, UsesThreads
<1>2. UsesObjects(s, t, pr, st2)
  <2>1. \A i \in 1 .. Len(s), c \in Others : Syncs(s, i, t, c, pr, st) => Syncs(s, i, t, c, pr, st2)
    BY DEF Syncs, Steady
  <2> QED
    BY <2>1 DEF Tidy, UsesObjects
<1>3. \A i \in 1 .. Len(s) : s[i].do \in {"joined", "exit"} \cup Events =>
        /\ s[i].on \in Others /\ pr.creator[s[i].on] = t /\ Steady(st[s[i].on], st2[s[i].on])
  <2>1. \A i \in 1 .. Len(s) : s[i].do \in {"joined", "exit"} \cup Events => s[i].on \in Others
    BY InstrsAre DEF Events
  <2> QED
    BY <2>1 DEF Tidy, JoinsInOrder
<1>4. JoinsInOrder(s, t, pr, st2, jd2)
  <2> SUFFICES ASSUME NEW i \in 1 .. Len(s)
      PROVE
        /\ s[i].do \in {"joined", "exit"} \cup Events => pr.creator[s[i].on] = t /\ st2[t] = "running"
        /\ s[i].do = "joined" => s[Len(s)] = Gone(s[i].on)
        /\ s[i].do = "exit" =>
             /\ i + 2 = Len(s) /\ s[i + 1] = Unlock(s[i].on) /\ s[i + 2] = Gone(s[i].on)
             /\ st2[s[i].on] \notin {"unborn", "exiting", "dead"}
             /\ s[i].on \in jd2 \/ \E j \in 1 .. i - 1 : s[j] = Joined(s[i].on)
        /\ s[i].do = "dead" =>
             st2[s[i].on] \in {"exiting", "dead"} \/ \E j \in 1 .. i - 1 : s[j] = Exit(s[i].on)
        /\ s[i].do = "become" /\ s[i].on = "dead" => i = Len(s)
    BY DEF JoinsInOrder
  <2>1. s[i].do \in {"joined", "exit"} \cup Events => Steady(st[s[i].on], st2[s[i].on])
    BY <1>3
  <2>2. JoinsInOrder(s, t, pr, st, jd)
    BY DEF Tidy
  <2>3. /\ s[i].do \in {"joined", "exit"} \cup Events => pr.creator[s[i].on] = t /\ st[t] = "running"
        /\ s[i].do = "joined" => s[Len(s)] = Gone(s[i].on)
        /\ s[i].do = "exit" =>
             /\ i + 2 = Len(s) /\ s[i + 1] = Unlock(s[i].on) /\ s[i + 2] = Gone(s[i].on)
             /\ st[s[i].on] \notin {"unborn", "exiting", "dead"}
             /\ s[i].on \in jd \/ \E j \in 1 .. i - 1 : s[j] = Joined(s[i].on)
        /\ s[i].do = "dead" =>
             st[s[i].on] \in {"exiting", "dead"} \/ \E j \in 1 .. i - 1 : s[j] = Exit(s[i].on)
        /\ s[i].do = "become" /\ s[i].on = "dead" => i = Len(s)
    BY <2>2 DEF JoinsInOrder
  <2> QED
    BY <2>1, <2>3 DEF Steady, Events
<1> QED
  BY <1>1, <1>2, <1>4 DEF Tidy

\* A thread that comes to life uses no object of others and joins nobody.
LEMMA TidySelf ==
  ASSUME NEW s \in Seq(Instr), NEW t, NEW pr, NEW st, NEW st2, NEW jd, Tidy(s, t, pr, st, jd),
         st[t] \notin {"running", "exiting"}, st2[t] # "exiting"
  PROVE  Tidy(s, t, pr, st2, jd)
<1>1. Nest(s, Priv(t, pr.shares, st2), pr.merges) /\ UsesThreads(s, t, pr, st2)
  BY DEF Tidy, Priv, UsesThreads
<1>2. UsesObjects(s, t, pr, st2)
  BY DEF Tidy, UsesObjects, Syncs
<1>3. \A i \in 1 .. Len(s) : s[i].do \notin {"joined", "exit"} \cup Events
  BY DEF Tidy, JoinsInOrder
<1>4. \A i \in 1 .. Len(s) : s[i].do = "become" /\ s[i].on = "dead" => i = Len(s)
  BY DEF Tidy, JoinsInOrder
<1>5. JoinsInOrder(s, t, pr, st2, jd)
  BY <1>3, <1>4 DEF JoinsInOrder, Events
<1> QED
  BY <1>1, <1>2, <1>5 DEF Tidy

\* What is left of a join once EXIT is set.
AfterExit(s, c, t, pr, st, st2, jd) ==
  /\ Tail(s) = <<Unlock(c), Gone(c)>> /\ Tidy(Tail(s), t, pr, st2, jd)
  /\ pr.creator[c] = t /\ st[t] = "running" /\ c \in jd
  /\ st[c] \notin {"unborn", "exiting", "dead"}
  /\ Len(s) = 3 /\ s[3] = Gone(c)

LEMMA TidyExit ==
  ASSUME NEW s \in Seq(Instr), s # << >>, NEW c \in Others, s[1] = Exit(c),
         NEW t, NEW pr, NEW st, NEW st2, NEW jd, Tidy(s, t, pr, st, jd),
         st2[t] = st[t], st2[c] = "exiting"
  PROVE  AfterExit(s, c, t, pr, st, st2, jd)
<1>1. Exit(c).do = "exit" /\ Exit(c).on = c
  BY DEF Exit
<1>2. PICK u : u = Tail(s)
  OBVIOUS
<1>3. /\ u \in Seq(Instr) /\ Len(s) \in Nat /\ Len(s) >= 1 /\ Len(u) = Len(s) - 1
      /\ \A i \in 1 .. Len(u) : u[i] = s[i + 1] /\ i + 1 \in 1 .. Len(s)
  BY <1>2, TailIs
<1>4. 1 \in 1 .. Len(s) /\ JoinsInOrder(s, t, pr, st, jd)
  BY <1>3 DEF Tidy
<1>5. /\ pr.creator[c] = t /\ st[t] = "running"
      /\ 1 + 2 = Len(s) /\ s[1 + 1] = Unlock(c) /\ s[1 + 2] = Gone(c)
      /\ st[c] \notin {"unborn", "exiting", "dead"}
      /\ c \in jd \/ \E j \in 1 .. 1 - 1 : s[j] = Joined(c)
  BY <1>1, <1>4 DEF JoinsInOrder
<1>6. c \in jd
  <2>1. \A j : j \notin 1 .. 1 - 1
    OBVIOUS
  <2> QED
    BY <1>5, <2>1
<1>7. Len(s) = 3 /\ s[2] = Unlock(c) /\ s[3] = Gone(c)
  BY <1>5
<1>8. Len(u) = 2 /\ u[1] = Unlock(c) /\ u[2] = Gone(c)
  <2>1. Len(u) = 2
    BY <1>3, <1>7
  <2>2. u[1] = s[1 + 1] /\ u[2] = s[2 + 1]
    BY <1>3, <2>1
  <2> QED
    BY <1>7, <2>1, <2>2
<1>9. u = <<Unlock(c), Gone(c)>>
  <2>1. PICK w : w = <<Unlock(c), Gone(c)>>
    OBVIOUS
  <2>2. w \in Seq(Instr) /\ Len(w) = 2 /\ w[1] = Unlock(c) /\ w[2] = Gone(c)
    <3>1. c \in Locks
      BY LocksAre DEF Others
    <3>2. Unlock(c) \in Instr /\ Gone(c) \in Instr
      BY <3>1 DEF Unlock, Gone, Instr
    <3> QED
      BY <2>1, <3>2
  <2>3. \A i \in 1 .. Len(u) : u[i] = w[i]
    <3>1. \A i \in 1 .. Len(u) : i \in {1, 2}
      BY <1>8
    <3> QED
      BY <1>8, <2>2, <3>1
  <2> QED
    BY <1>3, <1>8, <2>1, <2>2, <2>3, SeqEqual
<1>10. Nest(u, Priv(t, pr.shares, st2), pr.merges)
  <2>1. Priv(t, pr.shares, st2) = Priv(t, pr.shares, st)
    BY DEF Priv
  <2> QED
    BY <1>2, <2>1, NestTail DEF Tidy
<1>11. /\ Unlock(c).do = "unlock" /\ Unlock(c).on = c /\ Gone(c).do = "dead" /\ Gone(c).on = c
       /\ c \in Threads /\ c \notin Objects
  BY LocksAssumption DEF Unlock, Gone, Others
<1>12. \A i \in 1 .. Len(u) : u[i].do \in {"unlock", "dead"} /\ u[i].on = c
  <2>1. \A i \in 1 .. Len(u) : i \in {1, 2}
    BY <1>8
  <2> QED
    BY <1>8, <1>11, <2>1
<1>13. UsesThreads(u, t, pr, st2) /\ UsesObjects(u, t, pr, st2)
  BY <1>5, <1>11, <1>12 DEF UsesThreads, UsesObjects
<1>14. JoinsInOrder(u, t, pr, st2, jd)
  BY <1>5, <1>12 DEF JoinsInOrder
<1> QED
  BY <1>2, <1>5, <1>6, <1>7, <1>9, <1>10, <1>13, <1>14 DEF Tidy, AfterExit

LEMMA LastKeeps ==
  ASSUME NEW s \in Seq(Instr), s # << >>, NEW x, s[Len(s)] = x, s[1] # x
  PROVE  Tail(s) # << >> /\ Tail(s)[Len(Tail(s))] = x
<1>1. PICK u : u = Tail(s)
  OBVIOUS
<1>2. /\ u \in Seq(Instr) /\ Len(s) \in Nat /\ Len(s) >= 1 /\ Len(u) = Len(s) - 1
      /\ \A i \in 1 .. Len(u) : u[i] = s[i + 1] /\ i + 1 \in 1 .. Len(s)
  BY <1>1, TailIs
<1>3. Len(s) # 1
  OBVIOUS
<1>4. Len(u) \in 1 .. Len(u) /\ Len(u) + 1 = Len(s) /\ Len(u) # 0
  BY <1>2, <1>3
<1>5. u[Len(u)] = x
  BY <1>2, <1>4
<1>6. u # << >>
  BY <1>4
<1> QED
  BY <1>1, <1>5, <1>6

\* What is held, after the first step of an operation.
LEMMA InsideHead ==
  ASSUME NEW s \in Seq(Instr), s # << >>, NEW l \in Locks, NEW P, NEW mg, Nest(s, P, mg)
  PROVE  /\ s[1] = Lock(l) => ~Inside(s, 1, l) /\ Inside(Tail(s), 1, l)
         /\ s[1] = Unlock(l) => Inside(s, 1, l) /\ ~Inside(Tail(s), 1, l)
         /\ s[1] # Lock(l) /\ s[1] # Unlock(l) => (Inside(s, 1, l) <=> Inside(Tail(s), 1, l))
<1>1. Len(s) \in Nat \ {0}
  BY EmptySeq
<1>2. 1 \in 1 .. Len(s) /\ 1 \in Nat \ {0}
  BY <1>1
<1>3. Inside(Tail(s), 1, l) <=> Inside(s, 1 + 1, l)
  BY <1>2, InsideTail
<1>4. NestAt(s, 1, P, mg)
  BY <1>2 DEF Nest
<1> QED
  BY <1>2, <1>3, <1>4, InsideNext DEF NestAt


-----------------------------------------------------------------------------
(* Every step of a disciplined program keeps its calm.                     *)

LEMMA NotOwnCreator ==
  ASSUME LockInv, BornInv, NEW c \in Others, stage[c] # "unborn"
  PROVE  program.creator[c] # c /\ stage[program.creator[c]] # "unborn"
<1>1. PICK most \in Nat : \E rank \in [Threads -> 0 .. most] : \A k \in Others : stage[k] # "unborn" =>
        stage[program.creator[k]] # "unborn" /\ rank[program.creator[k]] < rank[k]
  BY DEF BornInv
<1>0. PICK rank \in [Threads -> 0 .. most] : \A k \in Others : stage[k] # "unborn" =>
        stage[program.creator[k]] # "unborn" /\ rank[program.creator[k]] < rank[k]
  BY <1>1
<1>2. stage[program.creator[c]] # "unborn" /\ rank[program.creator[c]] < rank[c]
  BY <1>0
<1>3. rank[c] \in Nat
  BY <1>0 DEF Others
<1>4. rank[program.creator[c]] # rank[c]
  BY <1>2, <1>3
<1> QED
  BY <1>2, <1>4

LEMMA BornSame ==
  ASSUME LockInv, BornInv, program' = program,
         \A c \in Threads : stage'[c] = "unborn" <=> stage[c] = "unborn"
  PROVE  BornInv'
<1>1. program.creator \in [Others -> Threads]
  BY Parts
<1>0. PICK most \in Nat : \E rank \in [Threads -> 0 .. most] : \A c \in Others : stage[c] # "unborn" =>
        stage[program.creator[c]] # "unborn" /\ rank[program.creator[c]] < rank[c]
  BY DEF BornInv
<1>2. PICK rank \in [Threads -> 0 .. most] : \A c \in Others : stage[c] # "unborn" =>
        stage[program.creator[c]] # "unborn" /\ rank[program.creator[c]] < rank[c]
  BY <1>0
<1>3. \A c \in Others : stage'[c] # "unborn" =>
        stage'[program'.creator[c]] # "unborn" /\ rank[program'.creator[c]] < rank[c]
  BY <1>1, <1>2 DEF Others
<1> QED
  BY <1>2, <1>3 DEF BornInv

LEMMA HeldPlain ==
  ASSUME LockInv, Calm, UNCHANGED lockVars,
         \A u \in Threads :
           \/ code'[u] = code[u]
           \/ code[u] = << >> /\ Shut(code'[u])
           \/ code[u] # << >> /\ code'[u] = Tail(code[u]) /\ code[u][1].do \notin Both
  PROVE  HeldInv'
<1> SUFFICES ASSUME NEW u \in Threads, NEW l \in Locks
             PROVE  Held(u, l)' = IF Inside(code'[u], 1, l) THEN 1 ELSE 0
  BY DEF HeldInv
<1>1. Held(u, l)' = Held(u, l)
  BY DEF Held, lockVars
<1>2. Held(u, l) = IF Inside(code[u], 1, l) THEN 1 ELSE 0
  BY DEF Calm, HeldInv
<1>3. CASE code'[u] = code[u]
  BY <1>1, <1>2, <1>3
<1>4. CASE code[u] = << >> /\ Shut(code'[u])
  <2>1. Shut(code[u])
    BY <1>4, TidyNone DEF Opens
  <2> QED
    BY <1>1, <1>2, <1>4, <2>1 DEF Shut
<1>5. CASE code[u] # << >> /\ code'[u] = Tail(code[u]) /\ code[u][1].do \notin Both
  <2>1. code[u] \in Seq(Instr)
    BY Parts
  <2>2. PICK P, mg : Nest(code[u], P, mg)
    BY DEF Calm, TidyInv, Tidy
  <2>3. code[u][1] # Lock(l) /\ code[u][1] # Unlock(l)
    BY <1>5, LocksDiffer DEF Both
  <2>4. Inside(code[u], 1, l) <=> Inside(Tail(code[u]), 1, l)
    BY <1>5, <2>1, <2>2, <2>3, InsideHead
  <2> QED
    BY <1>1, <1>2, <1>5, <2>4
<1> QED
  BY <1>3, <1>4, <1>5

\* The beginning of an operation.
LEMMA BeginCalm ==
  ASSUME LockInv, Calm, NEW t \in Threads, NEW what, Begin(t, what), program' = program,
         Opens(what, t, program, stage, joined), UsersInv'
  PROVE  Calm'
<1>1. /\ stage[t] = "running" /\ code[t] = << >> /\ code' = [code EXCEPT ![t] = what]
      /\ holder' = holder /\ depth' = depth /\ stage' = stage /\ joined' = joined
  BY DEF Begin, InPhp
<1>2. DOMAIN code = Threads /\ program.creator \in [Others -> Threads] /\ joined \subseteq Others
  BY Parts DEF TypeRest, Others
<1>3. code'[t] = what /\ \A u \in Threads \ {t} : code'[u] = code[u]
  BY <1>1, <1>2
<1>4. TidyInv'
  <2>1. ASSUME NEW u \in Threads PROVE Tidy(code'[u], u, program, stage, joined)
    BY <1>3 DEF Calm, TidyInv, Opens
  <2> QED
    BY <1>1, <2>1 DEF TidyInv
<1>5. HeldInv'
  <2>1. \A u \in Threads : code'[u] = code[u] \/ (code[u] = << >> /\ Shut(code'[u]))
    BY <1>1, <1>3 DEF Opens
  <2> QED
    BY <1>1, <2>1, HeldPlain DEF lockVars
<1>6. QuietInv'
  BY <1>1, <1>3 DEF Calm, QuietInv
<1>7. ExitInv'
  <2> SUFFICES ASSUME NEW c \in Others, stage[c] = "exiting"
               PROVE  /\ stage[program.creator[c]] = "running"
                      /\ code'[program.creator[c]] \in {<<Unlock(c), Gone(c)>>, <<Gone(c)>>}
    BY <1>1 DEF ExitInv
  <2>1. /\ stage[program.creator[c]] = "running"
        /\ code[program.creator[c]] \in {<<Unlock(c), Gone(c)>>, <<Gone(c)>>}
    BY DEF Calm, ExitInv
  <2>2. code[program.creator[c]] # << >>
    BY <2>1
  <2> QED
    BY <1>1, <1>2, <1>3, <2>1, <2>2
<1>8. LateInv'
  BY <1>1 DEF Calm, LateInv
<1>9. JoinedInv'
  <2>1. ASSUME NEW c \in joined, stage[c] # "dead"
        PROVE  /\ code'[program.creator[c]] # << >>
               /\ code'[program.creator[c]][Len(code'[program.creator[c]])] = Gone(c)
    <3>1. /\ code[program.creator[c]] # << >>
          /\ code[program.creator[c]][Len(code[program.creator[c]])] = Gone(c)
      BY <2>1 DEF Calm, JoinedInv
    <3>2. program.creator[c] \in Threads \ {t}
      BY <1>1, <1>2, <3>1
    <3> QED
      BY <1>3, <3>1, <3>2
  <2>2. \A c \in Others : stage[c] \in {"exiting", "dead"} => c \in joined
    BY DEF Calm, JoinedInv
  <2> QED
    BY <1>1, <2>1, <2>2 DEF JoinedInv
<1>10. BornInv'
  BY <1>1, BornSame DEF Calm
<1> QED
  BY <1>4, <1>5, <1>6, <1>7, <1>8, <1>9, <1>10 DEF Calm

\* A step that changes no stage, but for the locks.
LEMMA MovesCalm ==
  ASSUME LockInv, Calm, NEW t \in Threads, code[t] # << >>,
         code' = [code EXCEPT ![t] = Tail(@)], UNCHANGED <<program, stage, users>>,
         code[t][1].do # "exit",
         code[t][1].do = "awaiting" => stage[code[t][1].on] \in Late,
         \A c \in Others : code[t][1] = Gone(c) => stage[c] = "dead",
         joined' = joined \/ (\E c \in Others : code[t][1] = Joined(c) /\ joined' = joined \cup {c}),
         code[t][1].do = "joined" => code[t][1].on \in joined'
  PROVE  TidyInv' /\ QuietInv' /\ ExitInv' /\ LateInv' /\ JoinedInv' /\ UsersInv' /\ BornInv'
<1>1. /\ DOMAIN code = Threads /\ program.creator \in [Others -> Threads] /\ joined \subseteq Others
      /\ code[t] \in Seq(Instr)
  BY Parts DEF TypeRest, Others
<1>2. code'[t] = Tail(code[t]) /\ \A u \in Threads \ {t} : code'[u] = code[u]
  BY <1>1
<1>3. joined \subseteq joined'
  OBVIOUS
<1>4. TidyInv'
  <2>1. ASSUME NEW u \in Threads PROVE Tidy(code'[u], u, program, stage, joined')
    <3>1. Tidy(code[u], u, program, stage, joined) /\ code[u] \in Seq(Instr)
      BY Parts DEF Calm, TidyInv
    <3>2. CASE u = t
      <4>1. Tidy(Tail(code[t]), t, program, stage, joined')
        BY <1>1, <1>3, <3>1, <3>2, TidyTail
      <4> QED
        BY <1>2, <3>2, <4>1
    <3>3. CASE u # t
      <4>1. \A c \in Others : Steady(stage[c], stage[c])
        BY DEF Steady
      <4>2. Tidy(code[u], u, program, stage, joined')
        BY <1>3, <3>1, <4>1, TidyOther
      <4> QED
        BY <1>2, <3>3, <4>2
    <3> QED
      BY <3>2, <3>3
  <2> QED
    BY <2>1 DEF TidyInv
<1>5. QuietInv'
  BY <1>2 DEF Calm, QuietInv
<1>6. ExitInv'
  <2> SUFFICES ASSUME NEW c \in Others, stage[c] = "exiting"
               PROVE  /\ stage[program.creator[c]] = "running"
                      /\ code'[program.creator[c]] \in {<<Unlock(c), Gone(c)>>, <<Gone(c)>>}
    BY DEF ExitInv
  <2>1. /\ stage[program.creator[c]] = "running"
        /\ code[program.creator[c]] \in {<<Unlock(c), Gone(c)>>, <<Gone(c)>>}
    BY DEF Calm, ExitInv
  <2>2. CASE program.creator[c] # t
    BY <1>1, <1>2, <2>1, <2>2
  <2>3. CASE program.creator[c] = t
    <3>1. code[t] # <<Gone(c)>>
      <4>1. <<Gone(c)>>[1] = Gone(c)
        OBVIOUS
      <4> QED
        BY <4>1
    <3>2. code[t] = <<Unlock(c), Gone(c)>>
      BY <2>1, <2>3, <3>1
    <3>3. Tail(<<Unlock(c), Gone(c)>>) = <<Gone(c)>>
      OBVIOUS
    <3> QED
      BY <1>2, <2>1, <2>3, <3>2, <3>3
  <2> QED
    BY <2>2, <2>3
<1>7. LateInv'
  BY DEF Calm, LateInv
<1>8. JoinedInv'
  <2>1. ASSUME NEW c \in joined', stage[c] # "dead"
        PROVE  /\ code'[program.creator[c]] # << >>
               /\ code'[program.creator[c]][Len(code'[program.creator[c]])] = Gone(c)
    <3>0. c \in Others
      BY <1>1
    <3>1. /\ code[program.creator[c]] # << >>
          /\ code[program.creator[c]][Len(code[program.creator[c]])] = Gone(c)
      <4>1. CASE c \in joined
        BY <2>1, <4>1 DEF Calm, JoinedInv
      <4>2. CASE c \notin joined
        <5>1. code[t][1] = Joined(c)
          BY <4>2
        <5>2. code[t][1].do = "joined" /\ code[t][1].on = c
          BY <5>1 DEF Joined
        <5>3. 1 \in 1 .. Len(code[t])
          BY FirstIs
        <5>4. JoinsInOrder(code[t], t, program, stage, joined)
          BY DEF Calm, TidyInv, Tidy
        <5>5. program.creator[c] = t /\ code[t][Len(code[t])] = Gone(c)
          BY <5>2, <5>3, <5>4 DEF JoinsInOrder
        <5> QED
          BY <5>5
      <4> QED
        BY <4>1, <4>2
    <3>2. CASE program.creator[c] # t
      BY <1>1, <1>2, <3>0, <3>1, <3>2
    <3>3. CASE program.creator[c] = t
      <4>1. code[t][1] # Gone(c)
        BY <2>1, <3>0
      <4>2. Tail(code[t]) # << >> /\ Tail(code[t])[Len(Tail(code[t]))] = Gone(c)
        BY <1>1, <3>1, <3>3, <4>1, LastKeeps
      <4> QED
        BY <1>2, <3>3, <4>2
    <3> QED
      BY <3>2, <3>3
  <2>2. \A c \in Others : stage[c] \in {"exiting", "dead"} => c \in joined'
    BY <1>3 DEF Calm, JoinedInv
  <2> QED
    BY <2>1, <2>2 DEF JoinedInv
<1>9. UsersInv'
  BY DEF Calm, UsersInv
<1>10. BornInv'
  BY BornSame DEF Calm
<1> QED
  BY <1>4, <1>5, <1>6, <1>7, <1>8, <1>9, <1>10

LEMMA UsersAre ==
  ASSUME LockInv, UsersInv, NEW o \in Objects, NEW t \in users[o]
  PROVE  users[o] = program.shares[o] /\ t \in program.shares[o]
  BY DEF UsersInv

LEMMA UsersSame ==
  ASSUME UsersInv, program' = program, users' = users
  PROVE  UsersInv'
  BY DEF UsersInv

LEMMA CallsCalm ==
  ASSUME LockInv, Calm, Disciplined, NEW t \in Threads, program' = program,
         \/ CallNew(t)
         \/ \E o \in Objects : CallAccess(t, o) \/ CallFree(t, o)
         \/ \E p \in program.merges : CallMerge(t, p)
         \/ \E c \in Threads : CallStart(t, c) \/ CallJoin(t, c)
  PROVE  Calm'
<1>0. UsersInv
  BY DEF Calm
<1>1. CASE CallNew(t)
  <2>1. Begin(t, New) /\ users' = users
    BY <1>1 DEF CallNew, Call
  <2>2. stage[t] = "running"
    BY <2>1 DEF Begin, InPhp
  <2>3. Opens(New, t, program, stage, joined)
    BY <2>2, CallsOpen
  <2> QED
    BY <1>0, <2>1, <2>3, UsersSame, BeginCalm
<1>2. ASSUME NEW o \in Objects, CallAccess(t, o) PROVE Calm'
  <2>1. Begin(t, Access(o)) /\ users' = users /\ t \in users[o]
    BY <1>2 DEF CallAccess, Call
  <2>2. stage[t] = "running" /\ t \in program.shares[o]
    BY <1>0, <2>1, UsersAre DEF Begin, InPhp
  <2>3. Opens(Access(o), t, program, stage, joined)
    BY <2>2, CallsOpen
  <2> QED
    BY <1>0, <2>1, <2>3, UsersSame, BeginCalm
<1>3. ASSUME NEW o \in Objects, CallFree(t, o) PROVE Calm'
  <2>1. Begin(t, FreeObject(o)) /\ users' = [users EXCEPT ![o] = @ \ {t}] /\ users[o] = {t}
    BY <1>3 DEF CallFree, Call, Disciplined
  <2>2. stage[t] = "running" /\ program.shares[o] = {t}
    BY <1>0, <2>1, UsersAre DEF Begin, InPhp
  <2>3. Opens(FreeObject(o), t, program, stage, joined)
    BY <2>2, CallsOpen
  <2>4. users \in [Objects -> SUBSET Threads]
    BY Parts DEF TypeRest
  <2>5. users'[o] = {} /\ \A p \in Objects \ {o} : users'[p] = users[p]
    BY <2>1, <2>4
  <2>6. UsersInv'
    BY <1>0, <2>2, <2>5 DEF UsersInv
  <2> QED
    BY <2>1, <2>3, <2>6, BeginCalm
<1>4. ASSUME NEW p \in program.merges, CallMerge(t, p) PROVE Calm'
  <2>0. program \in Programs
    BY Parts DEF TypeRest
  <2>1. p \in Objects \X Objects
    BY <2>0, ProgramsAssumption
  <2>2. PICK o \in Objects, q \in Objects : p = <<o, q>>
    BY <2>1
  <2>3. p[1] = o /\ p[2] = q
    BY <2>2
  <2>4. o # q
    BY <2>2, <2>3 DEF Disciplined
  <2>5. Begin(t, Merge(o, q)) /\ users' = users /\ t \in users[o] /\ t \in users[q]
    BY <1>4, <2>3 DEF CallMerge, Call
  <2>6. stage[t] = "running" /\ t \in program.shares[o] /\ t \in program.shares[q]
    BY <1>0, <2>5, UsersAre DEF Begin, InPhp
  <2>7. Opens(Merge(o, q), t, program, stage, joined)
    BY <2>2, <2>4, <2>6, CallsOpen
  <2> QED
    BY <1>0, <2>5, <2>7, UsersSame, BeginCalm
<1>5. ASSUME NEW c \in Threads, CallStart(t, c) PROVE Calm'
  <2>1. /\ c \in Others /\ program.creator[c] = t /\ Begin(t, Start(c)) /\ users' = users
    BY <1>5 DEF CallStart, Children, Others
  <2>2. stage[t] = "running"
    BY <2>1 DEF Begin, InPhp
  <2>3. Opens(Start(c), t, program, stage, joined)
    BY <2>1, <2>2, StartOpens
  <2> QED
    BY <1>0, <2>1, <2>3, UsersSame, BeginCalm
<1>6. ASSUME NEW c \in Threads, CallJoin(t, c) PROVE Calm'
  <2>1. /\ c \in Others /\ program.creator[c] = t /\ Begin(t, Join(c, Reach(c))) /\ users' = users
        /\ stage[c] # "unborn" /\ c \notin joined
    BY <1>6 DEF CallJoin, Started, Children, Others
  <2>2. stage[t] = "running"
    BY <2>1 DEF Begin, InPhp
  <2>3. stage[c] \notin {"unborn", "exiting", "dead"}
    BY <2>1 DEF Calm, JoinedInv
  <2>4. Reach(c) \subseteq Objects /\ \A o \in Reach(c) : c \in program.shares[o]
    BY <1>0, UsersAre DEF Reach
  <2>5. PICK r : r = Reach(c)
    OBVIOUS
  <2>6. Opens(Join(c, r), t, program, stage, joined)
    BY <2>1, <2>2, <2>3, <2>4, <2>5, JoinOpens
  <2> QED
    BY <1>0, <2>1, <2>5, <2>6, UsersSame, BeginCalm
<1> QED
  BY <1>1, <1>2, <1>3, <1>4, <1>5, <1>6

LEMMA LockCalm ==
  ASSUME LockInv, Calm, NEW t \in Threads, code[t] # << >>, NEW l,
         code[t][1] = Lock(l), Lockable(t, l),
         holder' = [holder EXCEPT ![l] = t], depth' = [depth EXCEPT ![l] = @ + 1],
         code' = [code EXCEPT ![t] = Tail(@)], UNCHANGED <<program, stage, joined, users>>
  PROVE  Calm'
<1>1. l \in Locks /\ code[t][1].do = "lock"
  BY FirstIs, InstrIs DEF Lock
<1>2. TypeRest /\ DOMAIN code = Threads /\ code[t] \in Seq(Instr)
  BY Parts
<1>3. /\ holder \in [Locks -> Threads \cup {None}] /\ depth \in [Locks -> Nat]
      /\ \A k \in Locks : holder[k] = None <=> depth[k] = 0
  BY <1>2 DEF TypeRest
<1>4. t # None
  BY NoneAssumption
<1>5. /\ holder'[l] = t /\ depth'[l] = depth[l] + 1
      /\ \A k \in Locks \ {l} : holder'[k] = holder[k] /\ depth'[k] = depth[k]
  BY <1>1, <1>3
<1>6. code'[t] = Tail(code[t]) /\ \A u \in Threads \ {t} : code'[u] = code[u]
  BY <1>2
<1>7. TidyInv' /\ QuietInv' /\ ExitInv' /\ LateInv' /\ JoinedInv' /\ UsersInv' /\ BornInv'
  <2>1. \A c \in Others : code[t][1] # Gone(c)
    BY <1>1 DEF Gone
  <2> QED
    BY <1>1, <2>1, MovesCalm
<1>8. PICK P, mg : Nest(code[t], P, mg)
  BY DEF Calm, TidyInv, Tidy
<1>9. ASSUME NEW u \in Threads, NEW k \in Locks
      PROVE  Held(u, k)' = IF Inside(code'[u], 1, k) THEN 1 ELSE 0
  <2>1. Held(u, k) = IF Inside(code[u], 1, k) THEN 1 ELSE 0
    BY DEF Calm, HeldInv
  <2>2. CASE u # t
    <3>1. Held(u, k)' = Held(u, k)
      <4>1. u # None
        BY NoneAssumption
      <4>2. k = l => holder[k] # u
        BY <2>2, <4>1 DEF Lockable
      <4> QED
        BY <1>5, <2>2, <4>2 DEF Held
    <3> QED
      BY <1>6, <2>1, <2>2, <3>1
  <2>3. CASE u = t /\ k = l
    <3>1. ~Inside(code[t], 1, l) /\ Inside(Tail(code[t]), 1, l)
      BY <1>1, <1>2, <1>8, InsideHead
    <3>2. Held(t, l) = 0
      BY <2>1, <2>3, <3>1
    <3>3. depth[l] = 0
      BY <1>1, <1>3, <3>2 DEF Held, Lockable
    <3>4. Held(t, l)' = 1
      BY <1>5, <3>3 DEF Held
    <3> QED
      BY <1>6, <2>3, <3>1, <3>4
  <2>4. CASE u = t /\ k # l
    <3>1. code[t][1] # Lock(k) /\ code[t][1] # Unlock(k)
      BY <2>4, LocksDiffer
    <3>2. Inside(code[t], 1, k) <=> Inside(Tail(code[t]), 1, k)
      BY <1>2, <1>8, <3>1, InsideHead
    <3>3. Held(u, k)' = Held(u, k)
      BY <1>5, <2>4 DEF Held
    <3> QED
      BY <1>6, <2>1, <2>4, <3>2, <3>3
  <2> QED
    BY <2>2, <2>3, <2>4
<1>10. HeldInv'
  BY <1>9 DEF HeldInv
<1> QED
  BY <1>7, <1>10 DEF Calm

LEMMA UnlockCalm ==
  ASSUME LockInv, Calm, NEW t \in Threads, code[t] # << >>, NEW l,
         code[t][1] = Unlock(l),
         holder' = [holder EXCEPT ![l] = IF depth[l] = 1 THEN None ELSE t],
         depth' = [depth EXCEPT ![l] = @ - 1],
         code' = [code EXCEPT ![t] = Tail(@)], UNCHANGED <<program, stage, joined, users>>
  PROVE  Calm'
<1>1. l \in Locks /\ code[t][1].do = "unlock"
  BY FirstIs, InstrIs DEF Unlock
<1>2. TypeRest /\ DOMAIN code = Threads /\ code[t] \in Seq(Instr)
  BY Parts
<1>3. /\ holder \in [Locks -> Threads \cup {None}] /\ depth \in [Locks -> Nat]
      /\ \A k \in Locks : holder[k] = None <=> depth[k] = 0
  BY <1>2 DEF TypeRest
<1>4. t # None
  BY NoneAssumption
<1>5. /\ holder'[l] = (IF depth[l] = 1 THEN None ELSE t) /\ depth'[l] = depth[l] - 1
      /\ \A k \in Locks \ {l} : holder'[k] = holder[k] /\ depth'[k] = depth[k]
  BY <1>1, <1>3
<1>6. code'[t] = Tail(code[t]) /\ \A u \in Threads \ {t} : code'[u] = code[u]
  BY <1>2
<1>7. TidyInv' /\ QuietInv' /\ ExitInv' /\ LateInv' /\ JoinedInv' /\ UsersInv' /\ BornInv'
  <2>1. \A c \in Others : code[t][1] # Gone(c)
    BY <1>1 DEF Gone
  <2> QED
    BY <1>1, <2>1, MovesCalm
<1>8. PICK P, mg : Nest(code[t], P, mg)
  BY DEF Calm, TidyInv, Tidy
<1>9. Inside(code[t], 1, l) /\ ~Inside(Tail(code[t]), 1, l)
  BY <1>1, <1>2, <1>8, InsideHead
<1>10. Held(t, l) = 1
  BY <1>1, <1>9 DEF Calm, HeldInv
<1>11. holder[l] = t /\ depth[l] = 1
  BY <1>10 DEF Held
<1>12. holder'[l] = None /\ \A u \in Threads : u # None
  BY <1>5, <1>11, NoneAssumption
<1>13. ASSUME NEW u \in Threads, NEW k \in Locks
       PROVE  Held(u, k)' = IF Inside(code'[u], 1, k) THEN 1 ELSE 0
  <2>1. Held(u, k) = IF Inside(code[u], 1, k) THEN 1 ELSE 0
    BY DEF Calm, HeldInv
  <2>2. CASE u # t
    <3>1. Held(u, k)' = Held(u, k)
      BY <1>5, <1>11, <1>12, <2>2 DEF Held
    <3> QED
      BY <1>6, <2>1, <2>2, <3>1
  <2>3. CASE u = t /\ k = l
    <3>1. Held(t, l)' = 0
      BY <1>12 DEF Held
    <3> QED
      BY <1>6, <1>9, <2>3, <3>1
  <2>4. CASE u = t /\ k # l
    <3>1. code[t][1] # Lock(k) /\ code[t][1] # Unlock(k)
      BY <2>4, LocksDiffer
    <3>2. Inside(code[t], 1, k) <=> Inside(Tail(code[t]), 1, k)
      BY <1>2, <1>8, <3>1, InsideHead
    <3>3. Held(u, k)' = Held(u, k)
      BY <1>5, <2>4 DEF Held
    <3> QED
      BY <1>6, <2>1, <2>4, <3>2, <3>3
  <2> QED
    BY <2>2, <2>3, <2>4
<1>14. HeldInv'
  BY <1>13 DEF HeldInv
<1> QED
  BY <1>7, <1>14 DEF Calm

\* Setting JOINED, and the end of a wait.
LEMMA PlainCalm ==
  ASSUME LockInv, Calm, NEW t \in Threads, code[t] # << >>,
         code' = [code EXCEPT ![t] = Tail(@)], UNCHANGED <<program, lockVars, stage, users>>,
         \/ code[t][1].do = "joined" /\ joined' = joined \cup {code[t][1].on}
         \/ /\ code[t][1].do \in Events /\ joined' = joined
            /\ StageOf(stage[code[t][1].on]) >= StageOf(code[t][1].do)
  PROVE  Calm'
<1>1. DOMAIN code = Threads /\ code[t][1] \in Instr
  BY Parts, FirstIs
<1>2. code'[t] = Tail(code[t]) /\ \A u \in Threads \ {t} : code'[u] = code[u]
  BY <1>1
<1>3. code[t][1].do \notin Both /\ code[t][1].do # "exit" /\ code[t][1].on \in Others
  BY <1>1, InstrIs DEF Both, Events
<1>4. stage[code[t][1].on] \in Range(Stages)
  BY <1>3, Parts DEF TypeRest, Others
<1>5. code[t][1].do = "awaiting" => stage[code[t][1].on] \in Late
  BY <1>4, WaitsRight
<1>6. \A c \in Others : code[t][1] = Gone(c) => stage[c] = "dead"
  <2> SUFFICES ASSUME NEW c \in Others, code[t][1] = Gone(c) PROVE stage[c] = "dead"
    OBVIOUS
  <2>1. code[t][1].do = "dead" /\ code[t][1].on = c
    BY DEF Gone
  <2>2. StageOf(stage[c]) >= StageOf("dead")
    BY <2>1
  <2>3. StageOf("dead") = 7
    BY StageOfIs, StagesAre
  <2>4. PICK k \in 1 .. 7 : stage[c] = Stages[k]
    BY <1>4, <2>1, StagesAre DEF Range
  <2>5. k >= 7
    BY <2>2, <2>3, <2>4, StageOfIs
  <2>6. k = 7
    BY <2>5
  <2> QED
    BY <2>4, <2>6, StagesAre
<1>7. joined' = joined \/ \E c \in Others : code[t][1] = Joined(c) /\ joined' = joined \cup {c}
  <2>1. ASSUME code[t][1].do = "joined" PROVE code[t][1] = Joined(code[t][1].on)
    BY <1>1, <2>1 DEF Instr, Joined
  <2> QED
    BY <1>3, <2>1 DEF Events
<1>8. code[t][1].do = "joined" => code[t][1].on \in joined'
  BY DEF Events
<1>9. TidyInv' /\ QuietInv' /\ ExitInv' /\ LateInv' /\ JoinedInv' /\ UsersInv' /\ BornInv'
  BY <1>3, <1>5, <1>6, <1>7, <1>8, MovesCalm
<1>10. HeldInv'
  <2>1. \A u \in Threads : code'[u] = code[u]
          \/ (code[u] # << >> /\ code'[u] = Tail(code[u]) /\ code[u][1].do \notin Both)
    BY <1>2, <1>3
  <2> QED
    BY <2>1, HeldPlain
<1> QED
  BY <1>9, <1>10 DEF Calm

\* The creator of a thread that ends is in join() and about to go on.
LEMMA ExitHead ==
  ASSUME Calm, NEW c \in Others, stage[c] = "exiting"
  PROVE  /\ stage[program.creator[c]] = "running" /\ code[program.creator[c]] # << >>
         /\ code[program.creator[c]] \in {<<Unlock(c), Gone(c)>>, <<Gone(c)>>}
         /\ code[program.creator[c]][1] \in {Unlock(c), Gone(c)}
         /\ code[program.creator[c]][1].do \in {"unlock", "dead"}
<1>1. /\ stage[program.creator[c]] = "running"
      /\ code[program.creator[c]] \in {<<Unlock(c), Gone(c)>>, <<Gone(c)>>}
  BY DEF Calm, ExitInv
<1>2. Unlock(c).do = "unlock" /\ Gone(c).do = "dead"
  BY DEF Unlock, Gone
<1> QED
  BY <1>1, <1>2

LEMMA CreateCalm ==
  ASSUME LockInv, Calm, NEW t \in Threads, code[t] # << >>, NEW c,
         code[t][1].do = "create", code[t][1].on = c,
         stage' = [stage EXCEPT ![c] = "starting"],
         code' = [[code EXCEPT ![t] = Tail(@)] EXCEPT ![c] = PreparedStartup],
         UNCHANGED <<program, lockVars, joined, users, calls>>
  PROVE  Calm'
<1>1. c \in Others /\ c \in Threads
  BY FirstIs, InstrIs DEF Others
<1>2. /\ DOMAIN code = Threads /\ CodeInv /\ program.creator \in [Others -> Threads]
      /\ joined \subseteq Others /\ code[t] \in Seq(Instr)
  BY Parts DEF TypeRest, Others
<1>3. program.creator[c] = t /\ stage[c] = "unborn" /\ stage[t] = "running"
  BY <1>2, FirstIs, Zenon DEF CodeInv, Follows, CreatesOne
<1>4. c # t /\ code[c] = << >>
  BY <1>1, <1>2, <1>3 DEF CodeInv
<1>5. /\ TypeRest' /\ stage'[c] = "starting"
      /\ \A u \in Threads \ {c} : stage'[u] = stage[u]
  BY <1>1, StageTypes, StagesHave
<1>6. /\ code'[c] = PreparedStartup /\ code'[t] = Tail(code[t])
      /\ \A u \in Threads \ {c, t} : code'[u] = code[u]
  BY <1>1, <1>2, <1>4
<1>7. Opens(PreparedStartup, c, program, stage', joined)
  BY <1>1, StartupOpens
<1>8. \A k \in Others : Steady(stage[k], stage'[k])
  BY <1>3, <1>5 DEF Steady, Others
<1>9. TidyInv'
  <2>1. ASSUME NEW u \in Threads PROVE Tidy(code'[u], u, program, stage', joined)
    <3>0. Tidy(code[u], u, program, stage, joined) /\ code[u] \in Seq(Instr)
      BY Parts DEF Calm, TidyInv
    <3>1. CASE u = c
      BY <1>6, <1>7, <3>1 DEF Opens
    <3>2. CASE u = t
      <4>1. Tidy(Tail(code[t]), t, program, stage, joined)
        BY <1>2, <3>0, <3>2, TidyTail
      <4>2. Tail(code[t]) \in Seq(Instr)
        BY <1>2, TailIs
      <4>3. Tidy(Tail(code[t]), t, program, stage', joined)
        BY <1>4, <1>5, <1>8, <4>1, <4>2, TidyOther
      <4> QED
        BY <1>6, <3>2, <4>3
    <3>3. CASE u # c /\ u # t
      <4>1. Tidy(code[u], u, program, stage', joined)
        BY <1>5, <1>8, <3>0, <3>3, TidyOther
      <4> QED
        BY <1>6, <3>3, <4>1
    <3> QED
      BY <3>1, <3>2, <3>3
  <2> QED
    BY <2>1 DEF TidyInv
<1>10. HeldInv'
  <2>1. \A u \in Threads :
           \/ code'[u] = code[u]
           \/ code[u] = << >> /\ Shut(code'[u])
           \/ code[u] # << >> /\ code'[u] = Tail(code[u]) /\ code[u][1].do \notin Both
    BY <1>4, <1>6, <1>7 DEF Opens, Both
  <2> QED
    BY <2>1, HeldPlain
<1>11. QuietInv'
  BY <1>3, <1>5, <1>6 DEF Calm, QuietInv
<1>12. ExitInv'
  <2> SUFFICES ASSUME NEW x \in Others, stage'[x] = "exiting"
               PROVE  /\ stage'[program.creator[x]] = "running"
                      /\ code'[program.creator[x]] \in {<<Unlock(x), Gone(x)>>, <<Gone(x)>>}
    BY DEF ExitInv
  <2>1. stage[x] = "exiting"
    BY <1>5 DEF Others
  <2>2. PICK p \in Threads : p = program.creator[x]
    BY <1>2
  <2>3. /\ stage[p] = "running" /\ code[p] \in {<<Unlock(x), Gone(x)>>, <<Gone(x)>>}
        /\ code[p][1].do \in {"unlock", "dead"}
    BY <2>1, <2>2, ExitHead
  <2>4. p # t /\ p # c
    BY <1>3, <2>3
  <2> QED
    BY <1>5, <1>6, <2>2, <2>3, <2>4
<1>13. LateInv'
  <2> SUFFICES ASSUME NEW x \in Others, stage'[program.creator[x]] \in Late
               PROVE  stage'[x] \in {"unborn", "dead"}
    BY DEF LateInv
  <2>1. program.creator[x] # c /\ program.creator[x] \in Threads
    BY <1>2, <1>5 DEF Late
  <2>2. stage[program.creator[x]] \in Late
    BY <1>5, <2>1
  <2>3. stage[x] \in {"unborn", "dead"}
    BY <2>2 DEF Calm, LateInv
  <2>4. x # c
    BY <1>3, <2>2 DEF Late
  <2> QED
    BY <1>5, <2>3, <2>4 DEF Others
<1>14. JoinedInv'
  <2>1. ASSUME NEW x \in joined, stage'[x] # "dead"
        PROVE  /\ code'[program.creator[x]] # << >>
               /\ code'[program.creator[x]][Len(code'[program.creator[x]])] = Gone(x)
    <3>0. x \in Others /\ x \in Threads
      BY <1>2 DEF Others
    <3>1. stage[x] # "dead"
      BY <1>3, <1>5, <2>1, <3>0
    <3>2. PICK p \in Threads : p = program.creator[x]
      BY <1>2, <3>0
    <3>3. code[p] # << >> /\ code[p][Len(code[p])] = Gone(x)
      BY <3>1, <3>2 DEF Calm, JoinedInv
    <3>4. p # c
      BY <1>4, <3>3
    <3>5. CASE p # t
      BY <1>6, <3>2, <3>3, <3>4, <3>5
    <3>6. CASE p = t
      <4>1. code[t][1] # Gone(x)
        BY DEF Gone
      <4>2. Tail(code[t]) # << >> /\ Tail(code[t])[Len(Tail(code[t]))] = Gone(x)
        BY <1>2, <3>3, <3>6, <4>1, LastKeeps
      <4> QED
        BY <1>6, <3>2, <3>6, <4>2
    <3> QED
      BY <3>5, <3>6
  <2>2. ASSUME NEW x \in Others, stage'[x] \in {"exiting", "dead"} PROVE x \in joined
    <3>1. stage[x] \in {"exiting", "dead"}
      BY <1>5, <2>2 DEF Others
    <3> QED
      BY <3>1 DEF Calm, JoinedInv
  <2> QED
    BY <2>1, <2>2 DEF JoinedInv
<1>15. UsersInv'
  BY UsersSame DEF Calm
<1>16. BornInv'
  <2>0. PICK most \in Nat : \E rank \in [Threads -> 0 .. most] : \A k \in Others : stage[k] # "unborn" =>
          stage[program.creator[k]] # "unborn" /\ rank[program.creator[k]] < rank[k]
    BY DEF Calm, BornInv
  <2>1. PICK rank \in [Threads -> 0 .. most] : \A k \in Others : stage[k] # "unborn" =>
          stage[program.creator[k]] # "unborn" /\ rank[program.creator[k]] < rank[k]
    BY <2>0
  <2>2. PICK r : r = [rank EXCEPT ![c] = rank[t] + 1]
    OBVIOUS
  <2>3. r \in [Threads -> 0 .. most + 1] /\ r[c] = rank[t] + 1 /\ \A u \in Threads \ {c} : r[u] = rank[u]
    <3>1. rank[t] + 1 \in 0 .. most + 1 /\ \A u \in Threads : rank[u] \in 0 .. most + 1
      <4>1. rank[t] \in 0 .. most /\ \A u \in Threads : rank[u] \in 0 .. most
        BY <2>1
      <4> QED
        BY <4>1
    <3> QED
      BY <1>1, <2>1, <2>2, <3>1
  <2>4. ASSUME NEW k \in Others, stage'[k] # "unborn"
        PROVE  stage'[program.creator[k]] # "unborn" /\ r[program.creator[k]] < r[k]
    <3>1. CASE k = c
      <4>1. r[t] = rank[t] /\ rank[t] \in Nat
        BY <1>4, <2>1, <2>3
      <4>2. r[t] < r[c]
        BY <2>3, <4>1
      <4> QED
        BY <1>3, <1>4, <1>5, <3>1, <4>2
    <3>2. CASE k # c
      <4>1. k \in Threads /\ stage[k] # "unborn" /\ program.creator[k] \in Threads
        BY <1>2, <1>5, <2>4, <3>2 DEF Others
      <4>2. stage[program.creator[k]] # "unborn" /\ rank[program.creator[k]] < rank[k]
        BY <2>1, <4>1
      <4>3. program.creator[k] # c
        BY <1>3, <4>2
      <4> QED
        BY <1>5, <2>3, <3>2, <4>1, <4>2, <4>3
    <3> QED
      BY <3>1, <3>2
  <2>5. most + 1 \in Nat
    OBVIOUS
  <2> QED
    BY <2>3, <2>4, <2>5 DEF BornInv
<1> QED
  BY <1>9, <1>10, <1>11, <1>12, <1>13, <1>14, <1>15, <1>16 DEF Calm

LEMMA ExitCalm ==
  ASSUME LockInv, Calm, NEW t \in Threads, code[t] # << >>, NEW c,
         code[t][1].do = "exit", code[t][1].on = c,
         stage' = [stage EXCEPT ![c] = "exiting"],
         code' = [[code EXCEPT ![t] = Tail(@)] EXCEPT ![c] = RoutineEnd(c, Reach(c), Started(c))],
         UNCHANGED <<program, lockVars, joined, users, calls>>
  PROVE  Calm'
<1>1. c \in Others /\ c \in Threads /\ code[t][1] = Exit(c)
  BY FirstIs, InstrIs DEF Others, Instr, Exit
<1>2. /\ DOMAIN code = Threads /\ CodeInv /\ program.creator \in [Others -> Threads]
      /\ joined \subseteq Others /\ code[t] \in Seq(Instr)
  BY Parts DEF TypeRest, Others
<1>3. Follows(code[t], t, program.creator, stage) /\ Tidy(code[t], t, program, stage, joined)
  BY <1>2 DEF CodeInv, Calm, TidyInv
<1>4. stage[c] \in Late
  <2>1. stage[c] \in Late \/ \E j \in 1 .. 1 - 1 : code[t][j] = Await(c)
    BY <1>3, FirstIs, Zenon DEF Follows, ExitsAwaiting
  <2>2. \A j : j \notin 1 .. 1 - 1
    OBVIOUS
  <2> QED
    BY <2>1, <2>2
<1>5. /\ TypeRest' /\ stage'[c] = "exiting"
      /\ \A u \in Threads \ {c} : stage'[u] = stage[u]
  BY <1>1, StageTypes, StagesHave
<1>6. c # t
  <2> SUFFICES ASSUME c = t PROVE FALSE
    OBVIOUS
  <2>1. stage[t] \in Late
    BY <1>4
  <2>2. JoinsInOrder(code[t], t, program, stage, joined) /\ 1 \in 1 .. Len(code[t])
    BY <1>3, FirstIs DEF Tidy
  <2>3. stage[t] = "running"
    BY <2>2 DEF JoinsInOrder
  <2> QED
    BY <2>1, <2>3 DEF Late
<1>7. /\ Tail(code[t]) = <<Unlock(c), Gone(c)>> /\ Tidy(Tail(code[t]), t, program, stage', joined)
      /\ program.creator[c] = t /\ stage[t] = "running" /\ c \in joined
      /\ stage[c] \notin {"unborn", "exiting", "dead"}
      /\ Len(code[t]) = 3 /\ code[t][3] = Gone(c)
  <2>1. stage'[t] = stage[t]
    BY <1>5, <1>6
  <2>2. AfterExit(code[t], c, t, program, stage, stage', joined)
    BY <1>1, <1>2, <1>3, <1>5, <2>1, TidyExit, Zenon
  <2> QED
    BY <2>2, Zenon DEF AfterExit
<1>8. stage[c] = "awaiting" /\ code[c] = << >>
  BY <1>1, <1>4, <1>7 DEF Late, Calm, QuietInv
<1>9. Started(c) = {}
  <2>1. \A k \in Others : program.creator[k] = c => stage[k] \in {"unborn", "dead"}
    BY <1>4 DEF Calm, LateInv
  <2>2. \A k \in Others : stage[k] = "dead" => k \in joined
    BY DEF Calm, JoinedInv
  <2> QED
    BY <2>1, <2>2 DEF Started, Children, Others
<1>10. PICK r : r = Reach(c)
  OBVIOUS
<1>11. r \subseteq Objects /\ \A o \in r : c \in program.shares[o]
  <2>1. UsersInv
    BY DEF Calm
  <2> QED
    BY <1>10, <2>1, UsersAre DEF Reach
<1>12. PICK end : end = RoutineEnd(c, r, {})
  OBVIOUS
<1>13. /\ code'[c] = end /\ code'[t] = Tail(code[t])
       /\ \A u \in Threads \ {c, t} : code'[u] = code[u]
  BY <1>1, <1>2, <1>6, <1>9, <1>10, <1>12
<1>14. Opens(end, c, program, stage', joined)
  BY <1>1, <1>5, <1>11, <1>12, EndOpens
<1>15. TidyInv'
  <2>1. ASSUME NEW u \in Threads PROVE Tidy(code'[u], u, program, stage', joined)
    <3>0. Tidy(code[u], u, program, stage, joined) /\ code[u] \in Seq(Instr)
      BY Parts DEF Calm, TidyInv
    <3>1. CASE u = c
      BY <1>13, <1>14, <3>1 DEF Opens
    <3>2. CASE u = t
      BY <1>7, <1>13, <3>2
    <3>3. CASE u # c /\ u # t
      <4>1. \A k \in Others : program.creator[k] = u => Steady(stage[k], stage'[k])
        BY <1>5, <1>7, <3>3 DEF Steady, Others
      <4>2. Tidy(code[u], u, program, stage', joined)
        BY <1>5, <3>0, <3>3, <4>1, TidyOther
      <4> QED
        BY <1>13, <3>3, <4>2
    <3> QED
      BY <3>1, <3>2, <3>3
  <2> QED
    BY <2>1 DEF TidyInv
<1>16. HeldInv'
  <2>1. \A u \in Threads :
           \/ code'[u] = code[u]
           \/ code[u] = << >> /\ Shut(code'[u])
           \/ code[u] # << >> /\ code'[u] = Tail(code[u]) /\ code[u][1].do \notin Both
    BY <1>8, <1>13, <1>14 DEF Opens, Both
  <2> QED
    BY <2>1, HeldPlain
<1>17. QuietInv'
  BY <1>5, <1>6, <1>7, <1>13 DEF Calm, QuietInv
<1>18. ExitInv'
  <2> SUFFICES ASSUME NEW x \in Others, stage'[x] = "exiting"
               PROVE  /\ stage'[program.creator[x]] = "running"
                      /\ code'[program.creator[x]] \in {<<Unlock(x), Gone(x)>>, <<Gone(x)>>}
    BY DEF ExitInv
  <2>1. CASE x = c
    BY <1>5, <1>6, <1>7, <1>13, <2>1
  <2>2. CASE x # c
    <3>1. stage[x] = "exiting"
      BY <1>5, <2>2 DEF Others
    <3>2. PICK p \in Threads : p = program.creator[x]
      BY <1>2
    <3>3. /\ stage[p] = "running" /\ code[p] \in {<<Unlock(x), Gone(x)>>, <<Gone(x)>>}
          /\ code[p][1].do \in {"unlock", "dead"}
      BY <3>1, <3>2, ExitHead
    <3>4. p # t /\ p # c
      BY <1>8, <3>3
    <3> QED
      BY <1>5, <1>13, <3>2, <3>3, <3>4
  <2> QED
    BY <2>1, <2>2
<1>19. LateInv'
  <2> SUFFICES ASSUME NEW x \in Others, stage'[program.creator[x]] \in Late
               PROVE  stage'[x] \in {"unborn", "dead"}
    BY DEF LateInv
  <2>1. stage[program.creator[x]] \in Late
    BY <1>2, <1>4, <1>5
  <2>2. stage[x] \in {"unborn", "dead"}
    BY <2>1 DEF Calm, LateInv
  <2>3. x # c
    BY <1>8, <2>2
  <2> QED
    BY <1>5, <2>2, <2>3 DEF Others
<1>20. JoinedInv'
  <2>1. ASSUME NEW x \in joined, stage'[x] # "dead"
        PROVE  /\ code'[program.creator[x]] # << >>
               /\ code'[program.creator[x]][Len(code'[program.creator[x]])] = Gone(x)
    <3>0. x \in Others /\ x \in Threads
      BY <1>2 DEF Others
    <3>1. CASE x = c
      <4>1. code'[t] = <<Unlock(c), Gone(c)>>
        BY <1>7, <1>13
      <4>2. PICK w : w = <<Unlock(c), Gone(c)>>
        OBVIOUS
      <4>3. w # << >> /\ Len(w) = 2 /\ w[2] = Gone(c)
        BY <4>2
      <4> QED
        BY <1>7, <3>1, <4>1, <4>2, <4>3
    <3>2. CASE x # c
      <4>1. stage[x] # "dead"
        BY <1>5, <2>1, <3>0, <3>2
      <4>2. PICK p \in Threads : p = program.creator[x]
        BY <1>2, <3>0
      <4>3. code[p] # << >> /\ code[p][Len(code[p])] = Gone(x)
        BY <4>1, <4>2 DEF Calm, JoinedInv
      <4>4. p # c
        BY <1>8, <4>3
      <4>5. p # t
        <5>1. Gone(c).on = c /\ Gone(x).on = x
          BY DEF Gone
        <5> QED
          BY <1>7, <3>2, <4>3, <5>1
      <4> QED
        BY <1>13, <4>2, <4>3, <4>4, <4>5
    <3> QED
      BY <3>1, <3>2
  <2>2. ASSUME NEW x \in Others, stage'[x] \in {"exiting", "dead"} PROVE x \in joined
    <3>1. x = c \/ stage[x] \in {"exiting", "dead"}
      BY <1>5, <2>2 DEF Others
    <3> QED
      BY <1>7, <3>1 DEF Calm, JoinedInv
  <2> QED
    BY <2>1, <2>2 DEF JoinedInv
<1>21. UsersInv'
  BY UsersSame DEF Calm
<1>22. BornInv'
  <2>1. \A k \in Threads : stage'[k] = "unborn" <=> stage[k] = "unborn"
    BY <1>5, <1>8
  <2> QED
    BY <2>1, BornSame DEF Calm
<1> QED
  BY <1>15, <1>16, <1>17, <1>18, <1>19, <1>20, <1>21, <1>22 DEF Calm

\* A thread's own step from one stage to the next.
LEMMA BecomeCalm ==
  ASSUME LockInv, Calm, NEW t \in Threads, code[t] # << >>, NEW x,
         code[t][1].do = "become", code[t][1].on = x,
         stage' = [stage EXCEPT ![t] = x], code' = [code EXCEPT ![t] = Tail(@)],
         UNCHANGED <<program, lockVars, joined, users, calls>>
  PROVE  Calm'
<1>1. x \in {"ready", "running", "dead"}
  BY FirstIs, InstrIs
<1>2. /\ DOMAIN code = Threads /\ CodeInv /\ program.creator \in [Others -> Threads]
      /\ joined \subseteq Others /\ code[t] \in Seq(Instr)
  BY Parts DEF TypeRest, Others
<1>3. Follows(code[t], t, program.creator, stage) /\ Tidy(code[t], t, program, stage, joined)
  BY <1>2 DEF CodeInv, Calm, TidyInv
<1>4. \/ x = "ready" /\ stage[t] = "starting"
      \/ x = "running" /\ stage[t] \in {"starting", "ready"} /\ 1 = Len(code[t])
      \/ x = "dead" /\ stage[t] \in {"exiting", "dead"}
  BY <1>3, FirstIs, Zenon DEF Follows, BecomesInOrder
<1>5. x = "dead" => 1 = Len(code[t])
  <2>1. JoinsInOrder(code[t], t, program, stage, joined) /\ 1 \in 1 .. Len(code[t])
    BY <1>3, FirstIs DEF Tidy
  <2> QED
    BY <2>1 DEF JoinsInOrder
<1>6. stage[t] \notin {"unborn", "awaiting", "dead"}
  BY DEF Calm, QuietInv
<1>7. /\ TypeRest' /\ stage'[t] = x
      /\ \A u \in Threads \ {t} : stage'[u] = stage[u]
  BY <1>1, StageTypes, StagesHave
<1>8. code'[t] = Tail(code[t]) /\ \A u \in Threads \ {t} : code'[u] = code[u]
  BY <1>2
<1>9. 1 = Len(code[t]) => Tail(code[t]) = << >>
  <2>1. Len(Tail(code[t])) = Len(code[t]) - 1 /\ Tail(code[t]) \in Seq(Instr)
    BY <1>2, TailIs
  <2>2. 1 = Len(code[t]) => Len(Tail(code[t])) = 0
    BY <2>1
  <2> QED
    BY <2>1, <2>2, EmptySeq
<1>10. TidyInv'
  <2>1. ASSUME NEW u \in Threads PROVE Tidy(code'[u], u, program, stage', joined)
    <3>0. Tidy(code[u], u, program, stage, joined) /\ code[u] \in Seq(Instr)
      BY Parts DEF Calm, TidyInv
    <3>1. CASE u = t /\ x \in {"running", "dead"}
      <4>1. code'[t] = << >>
        BY <1>4, <1>5, <1>8, <1>9, <3>1
      <4>2. Tidy(<< >>, t, program, stage', joined)
        BY TidyNone DEF Opens
      <4> QED
        BY <3>1, <4>1, <4>2
    <3>2. CASE u = t /\ x = "ready"
      <4>1. Tidy(Tail(code[t]), t, program, stage, joined)
        BY <1>2, <1>3, TidyTail
      <4>2. Tail(code[t]) \in Seq(Instr)
        BY <1>2, TailIs
      <4>3. stage[t] \notin {"running", "exiting"} /\ stage'[t] # "exiting"
        BY <1>4, <1>7, <3>2
      <4>4. Tidy(Tail(code[t]), t, program, stage', joined)
        BY <4>1, <4>2, <4>3, TidySelf
      <4> QED
        BY <1>8, <3>2, <4>4
    <3>3. CASE u # t
      <4>1. \A k \in Others : Steady(stage[k], stage'[k])
        BY <1>4, <1>7 DEF Steady, Others
      <4>2. Tidy(code[u], u, program, stage', joined)
        BY <1>7, <3>0, <3>3, <4>1, TidyOther
      <4> QED
        BY <1>8, <3>3, <4>2
    <3> QED
      BY <1>1, <3>1, <3>2, <3>3
  <2> QED
    BY <2>1 DEF TidyInv
<1>11. HeldInv'
  <2>1. \A u \in Threads : code'[u] = code[u]
          \/ (code[u] # << >> /\ code'[u] = Tail(code[u]) /\ code[u][1].do \notin Both)
    BY <1>8 DEF Both
  <2> QED
    BY <2>1, HeldPlain
<1>12. QuietInv'
  BY <1>1, <1>5, <1>7, <1>8, <1>9 DEF Calm, QuietInv
<1>13. ExitInv'
  <2> SUFFICES ASSUME NEW y \in Others, stage'[y] = "exiting"
               PROVE  /\ stage'[program.creator[y]] = "running"
                      /\ code'[program.creator[y]] \in {<<Unlock(y), Gone(y)>>, <<Gone(y)>>}
    BY DEF ExitInv
  <2>1. stage[y] = "exiting"
    BY <1>1, <1>7 DEF Others
  <2>2. PICK p \in Threads : p = program.creator[y]
    BY <1>2
  <2>3. /\ stage[p] = "running" /\ code[p] \in {<<Unlock(y), Gone(y)>>, <<Gone(y)>>}
        /\ code[p][1].do \in {"unlock", "dead"}
    BY <2>1, <2>2, ExitHead
  <2>4. p # t
    BY <2>3
  <2> QED
    BY <1>7, <1>8, <2>2, <2>3, <2>4
<1>14. LateInv'
  <2> SUFFICES ASSUME NEW y \in Others, stage'[program.creator[y]] \in Late
               PROVE  stage'[y] \in {"unborn", "dead"}
    BY DEF LateInv
  <2>1. stage[program.creator[y]] \in Late
    BY <1>2, <1>4, <1>7 DEF Late
  <2>2. stage[y] \in {"unborn", "dead"}
    BY <2>1 DEF Calm, LateInv
  <2>3. y # t
    BY <1>6, <2>2
  <2> QED
    BY <1>7, <2>2, <2>3 DEF Others
<1>15. JoinedInv'
  <2>1. ASSUME NEW y \in joined, stage'[y] # "dead"
        PROVE  /\ code'[program.creator[y]] # << >>
               /\ code'[program.creator[y]][Len(code'[program.creator[y]])] = Gone(y)
    <3>0. y \in Others /\ y \in Threads
      BY <1>2 DEF Others
    <3>1. stage[y] # "dead"
      BY <1>6, <1>7, <2>1, <3>0
    <3>2. PICK p \in Threads : p = program.creator[y]
      BY <1>2, <3>0
    <3>3. code[p] # << >> /\ code[p][Len(code[p])] = Gone(y)
      BY <3>1, <3>2 DEF Calm, JoinedInv
    <3>4. CASE p # t
      BY <1>8, <3>2, <3>3, <3>4
    <3>5. CASE p = t
      <4>1. code[t][1] # Gone(y)
        BY DEF Gone
      <4>2. Tail(code[t]) # << >> /\ Tail(code[t])[Len(Tail(code[t]))] = Gone(y)
        BY <1>2, <3>3, <3>5, <4>1, LastKeeps
      <4> QED
        BY <1>8, <3>2, <3>5, <4>2
    <3> QED
      BY <3>4, <3>5
  <2>2. ASSUME NEW y \in Others, stage'[y] \in {"exiting", "dead"} PROVE y \in joined
    <3>1. stage[y] \in {"exiting", "dead"}
      BY <1>4, <1>7, <2>2 DEF Others
    <3> QED
      BY <3>1 DEF Calm, JoinedInv
  <2> QED
    BY <2>1, <2>2 DEF JoinedInv
<1>16. UsersInv'
  BY UsersSame DEF Calm
<1>17. BornInv'
  <2>1. \A k \in Threads : stage'[k] = "unborn" <=> stage[k] = "unborn"
    BY <1>1, <1>6, <1>7
  <2> QED
    BY <2>1, BornSame DEF Calm
<1> QED
  BY <1>10, <1>11, <1>12, <1>13, <1>14, <1>15, <1>16, <1>17 DEF Calm

\* run() returns: every child that was started has been joined and is gone.
LEMMA ReturnsCalm ==
  ASSUME LockInv, Calm, Disciplined, NEW t \in Threads, RunReturns(t), program' = program
  PROVE  Calm'
<1>1. /\ t # Main /\ stage[t] = "running" /\ code[t] = << >> /\ Started(t) \subseteq program.globals
      /\ stage' = [stage EXCEPT ![t] = "awaiting"] /\ code' = code
      /\ UNCHANGED <<lockVars, joined, users, calls>>
  BY DEF RunReturns, InPhp
<1>2. /\ DOMAIN code = Threads /\ program.creator \in [Others -> Threads] /\ joined \subseteq Others
      /\ stage \in [Threads -> Range(Stages)]
  BY Parts DEF TypeRest, Others
<1>3. Started(t) = {}
  BY <1>1 DEF Disciplined
<1>4. stage'[t] = "awaiting" /\ \A u \in Threads \ {t} : stage'[u] = stage[u]
  BY <1>1, <1>2
<1>5. t \in Others
  BY <1>1 DEF Others
<1>6. program.creator[t] # t
  <2>1. BornInv
    BY DEF Calm
  <2> QED
    BY <1>1, <1>5, <2>1, NotOwnCreator
<1>7. \A k \in Others : Steady(stage[k], stage'[k])
  BY <1>1, <1>4 DEF Steady, Others
<1>8. TidyInv'
  <2>1. ASSUME NEW u \in Threads PROVE Tidy(code[u], u, program, stage', joined)
    <3>0. Tidy(code[u], u, program, stage, joined) /\ code[u] \in Seq(Instr)
      BY Parts DEF Calm, TidyInv
    <3>1. CASE u = t
      BY <1>1, <3>1, TidyNone DEF Opens
    <3>2. CASE u # t
      BY <1>4, <1>7, <3>0, <3>2, TidyOther
    <3> QED
      BY <3>1, <3>2
  <2> QED
    BY <1>1, <2>1 DEF TidyInv
<1>9. HeldInv'
  BY <1>1, HeldPlain
<1>10. QuietInv'
  BY <1>1, <1>4 DEF Calm, QuietInv
<1>11. ExitInv'
  <2> SUFFICES ASSUME NEW y \in Others, stage'[y] = "exiting"
               PROVE  /\ stage'[program.creator[y]] = "running"
                      /\ code[program.creator[y]] \in {<<Unlock(y), Gone(y)>>, <<Gone(y)>>}
    BY <1>1 DEF ExitInv
  <2>1. stage[y] = "exiting"
    BY <1>4 DEF Others
  <2>2. PICK p \in Threads : p = program.creator[y]
    BY <1>2
  <2>3. stage[p] = "running" /\ code[p] # << >> /\ code[p] \in {<<Unlock(y), Gone(y)>>, <<Gone(y)>>}
    BY <2>1, <2>2, ExitHead
  <2>4. p # t
    BY <1>1, <2>3
  <2> QED
    BY <1>4, <2>2, <2>3, <2>4
<1>12. LateInv'
  <2> SUFFICES ASSUME NEW y \in Others, stage'[program.creator[y]] \in Late
               PROVE  stage'[y] \in {"unborn", "dead"}
    BY DEF LateInv
  <2>1. stage[y] \in {"unborn", "dead"}
    <3>1. CASE program.creator[y] = t
      <4>1. stage[y] = "unborn" \/ y \in joined
        BY <1>3, <3>1 DEF Started, Children, Others
      <4>2. y \in joined => stage[y] = "dead"
        BY <1>1, <3>1 DEF Calm, JoinedInv
      <4> QED
        BY <4>1, <4>2
    <3>2. CASE program.creator[y] # t
      <4>1. stage[program.creator[y]] \in Late
        BY <1>2, <1>4, <3>2
      <4> QED
        BY <4>1 DEF Calm, LateInv
    <3> QED
      BY <3>1, <3>2
  <2>2. y # t
    BY <1>1, <2>1
  <2> QED
    BY <1>4, <2>1, <2>2 DEF Others
<1>13. JoinedInv'
  <2>1. \A y \in joined : stage[y] = "dead" => stage'[y] = "dead"
    BY <1>1, <1>2, <1>4 DEF Others
  <2>2. \A y \in Others : stage'[y] \in {"exiting", "dead"} => stage[y] \in {"exiting", "dead"}
    BY <1>4 DEF Others
  <2> QED
    BY <1>1, <2>1, <2>2 DEF Calm, JoinedInv
<1>14. UsersInv'
  BY <1>1, UsersSame DEF Calm
<1>15. BornInv'
  <2>1. \A k \in Threads : stage'[k] = "unborn" <=> stage[k] = "unborn"
    BY <1>1, <1>4
  <2> QED
    BY <2>1, BornSame DEF Calm
<1> QED
  BY <1>8, <1>9, <1>10, <1>11, <1>12, <1>13, <1>14, <1>15 DEF Calm

LEMMA StepCalm ==
  ASSUME LockInv, Calm, NEW t \in Threads, Step(t), program' = program
  PROVE  Calm'
<1>1. code[t] # << >> /\ users' = users /\ calls' = calls
  BY DEF Step
<1>3. PICK x \in Instr : x = code[t][1] /\ x = Head(code[t])
  BY <1>1, FirstIs
<1> DEFINE next == [code EXCEPT ![t] = Tail(@)]
<1>4. CASE /\ x.do = "lock" /\ Lockable(t, x.on)
           /\ holder' = [holder EXCEPT ![x.on] = t]
           /\ depth' = [depth EXCEPT ![x.on] = @ + 1]
           /\ code' = next /\ UNCHANGED <<stage, joined>>
  <2>1. code[t][1] = Lock(x.on)
    BY <1>3, <1>4, InstrIs
  <2> QED
    BY <1>1, <1>4, <2>1, LockCalm
<1>5. CASE /\ x.do = "unlock"
           /\ depth' = [depth EXCEPT ![x.on] = @ - 1]
           /\ holder' = [holder EXCEPT ![x.on] = IF depth[x.on] = 1 THEN None ELSE t]
           /\ code' = next /\ UNCHANGED <<stage, joined>>
  <2>1. code[t][1] = Unlock(x.on)
    BY <1>3, <1>5, InstrIs
  <2> QED
    BY <1>1, <1>5, <2>1, UnlockCalm
<1>6. CASE /\ x.do = "create"
           /\ stage' = [stage EXCEPT ![x.on] = "starting"]
           /\ code' = [next EXCEPT ![x.on] = PreparedStartup]
           /\ UNCHANGED <<lockVars, joined>>
  BY <1>1, <1>3, <1>6, CreateCalm
<1>7. CASE /\ x.do = "joined"
           /\ joined' = joined \cup {x.on}
           /\ code' = next /\ UNCHANGED <<lockVars, stage>>
  BY <1>1, <1>3, <1>7, PlainCalm
<1>8. CASE /\ x.do = "exit"
           /\ stage' = [stage EXCEPT ![x.on] = "exiting"]
           /\ code' = [next EXCEPT ![x.on] = RoutineEnd(x.on, Reach(x.on), Started(x.on))]
           /\ UNCHANGED <<lockVars, joined>>
  BY <1>1, <1>3, <1>8, ExitCalm
<1>9. CASE /\ x.do \in {"ready", "awaiting", "dead"}
           /\ StageOf(stage[x.on]) >= StageOf(x.do)
           /\ code' = next /\ UNCHANGED <<lockVars, stage, joined>>
  BY <1>1, <1>3, <1>9, PlainCalm DEF Events
<1>10. CASE /\ x.do = "become"
            /\ stage' = [stage EXCEPT ![t] = x.on]
            /\ code' = next /\ UNCHANGED <<lockVars, joined>>
  BY <1>1, <1>3, <1>10, BecomeCalm
<1> HIDE DEF next
<1> QED
  BY <1>3, <1>4, <1>5, <1>6, <1>7, <1>8, <1>9, <1>10 DEF Step, next

LEMMA NextCalm ==
  ASSUME LockInv, CalmInv, [Next]_vars
  PROVE  CalmInv'
<1> SUFFICES ASSUME Disciplined' PROVE Calm'
  BY DEF CalmInv
<1>1. program' = program
  BY DEF Next, ScriptDone, vars
<1>2. Disciplined /\ Calm
  BY <1>1 DEF Disciplined, CalmInv
<1>3. CASE UNCHANGED vars
  BY <1>2, <1>3 DEF vars, Calm, TidyInv, HeldInv, Held, QuietInv, ExitInv, LateInv, JoinedInv, UsersInv, BornInv
<1>4. ASSUME NEW t \in Threads, ThreadStep(t) PROVE Calm'
  <2>1. CASE \/ CallNew(t)
             \/ \E o \in Objects : CallAccess(t, o) \/ CallFree(t, o)
             \/ \E p \in program.merges : CallMerge(t, p)
             \/ \E c \in Threads : CallStart(t, c) \/ CallJoin(t, c)
    BY <1>1, <1>2, <2>1, CallsCalm
  <2>2. CASE Step(t)
    BY <1>1, <1>2, <2>2, StepCalm
  <2>3. CASE RunReturns(t)
    BY <1>1, <1>2, <2>3, ReturnsCalm
  <2>4. ~Bailout(t) /\ ~\E o \in Objects, c \in Threads : CallDropChild(t, o, c)
    BY <1>2 DEF Disciplined, Bailout, CallDropChild
  <2> QED
    BY <1>4, <2>1, <2>2, <2>3, <2>4, Zenon DEF ThreadStep
<1> QED
  BY <1>3, <1>4, Zenon DEF Next, ScriptDone

LEMMA InitCalm ==
  ASSUME Init
  PROVE  CalmInv
<1>0. LockInv
  BY InitHolds
<1>1. /\ program \in Programs /\ holder = [l \in Locks |-> None] /\ depth = [l \in Locks |-> 0]
      /\ code = [t \in Threads |-> << >>]
      /\ stage = [t \in Threads |-> IF t = Main THEN "running" ELSE "unborn"]
      /\ joined = {} /\ users = program.shares /\ calls = [t \in Threads |-> 0]
  BY DEF Init
<1>2. \A t \in Threads : code[t] = << >>
  BY <1>1
<1>3. \A t \in Threads : Opens(code[t], t, program, stage, joined)
  BY <1>2, TidyNone
<1>4. TidyInv
  BY <1>3 DEF Opens, TidyInv
<1>5. HeldInv
  <2>1. \A t \in Threads, l \in Locks : ~Inside(code[t], 1, l)
    BY <1>3 DEF Opens, Shut
  <2>2. \A t \in Threads, l \in Locks : Held(t, l) = 0
    BY <1>1 DEF Held
  <2> QED
    BY <2>1, <2>2 DEF HeldInv
<1>6. \A c \in Others : stage[c] = "unborn"
  BY <1>1 DEF Others
<1>7. QuietInv /\ ExitInv /\ LateInv /\ JoinedInv
  BY <1>1, <1>2, <1>6 DEF QuietInv, ExitInv, LateInv, JoinedInv
<1>8. UsersInv
  BY <1>1 DEF UsersInv
<1>9. BornInv
  <2>1. [t \in Threads |-> 0] \in [Threads -> 0 .. 0] /\ 0 \in Nat
    OBVIOUS
  <2> QED
    BY <1>6, <2>1 DEF BornInv
<1> QED
  BY <1>4, <1>5, <1>7, <1>8, <1>9 DEF CalmInv, Calm


-----------------------------------------------------------------------------
(* Who can wait for whom.                                                  *)

\* A thread that is done with its PHP code needs its creator.
Needs(t) ==
  IF t # Main /\ stage[t] = "awaiting" THEN {program.creator[t]} ELSE WaitsFor(t)

LEMMA NeedsAre ==
  ASSUME LockInv, NEW t \in Threads, NEW u \in Needs(t)
  PROVE  \/ t \in Others /\ stage[t] = "awaiting" /\ u = program.creator[t]
         \/ /\ code[t] # << >> /\ code[t][1].do = "lock" /\ code[t][1] = Lock(code[t][1].on)
            /\ code[t][1].on \in Locks /\ holder[code[t][1].on] = u /\ u # t /\ u \in Threads
         \/ /\ code[t] # << >> /\ code[t][1].do \in Events /\ code[t][1].on = u
            /\ StageOf(stage[u]) < StageOf(code[t][1].do)
<1>1. CASE t # Main /\ stage[t] = "awaiting"
  BY <1>1 DEF Needs, Others
<1>2. CASE ~(t # Main /\ stage[t] = "awaiting")
  <2>1. u \in WaitsFor(t)
    BY <1>2 DEF Needs
  <2>2. code[t] # << >>
    BY <2>1 DEF WaitsFor
  <2>3. PICK x \in Instr : x = Head(code[t]) /\ x = code[t][1]
    BY <2>2, FirstIs
  <2>4. \/ x.do = "lock" /\ ~Lockable(t, x.on) /\ u = holder[x.on]
        \/ x.do \in {"ready", "awaiting", "dead"} /\ StageOf(stage[x.on]) < StageOf(x.do) /\ u = x.on
    BY <2>1, <2>2, <2>3 DEF WaitsFor
  <2>5. CASE x.do = "lock" /\ ~Lockable(t, x.on) /\ u = holder[x.on]
    <3>1. x.on \in Locks /\ x = Lock(x.on)
      BY <2>5, InstrIs
    <3>2. holder[x.on] \in Threads \cup {None}
      BY <3>1, Parts DEF TypeRest
    <3> QED
      BY <2>2, <2>3, <2>5, <3>1, <3>2 DEF Lockable
  <2>6. CASE x.do \in {"ready", "awaiting", "dead"} /\ StageOf(stage[x.on]) < StageOf(x.do) /\ u = x.on
    BY <2>2, <2>3, <2>6 DEF Events
  <2> QED
    BY <2>4, <2>5, <2>6
<1> QED
  BY <1>1, <1>2

\* What a thread that waits for a lock, or holds it, is to it.
UsesMonitor(u, l) ==
  \/ l = u /\ stage[u] = "exiting"
  \/ l \in Others /\ program.creator[l] = u /\ stage[u] = "running"

UsesObject(u, o) ==
  \/ u \in program.shares[o]
  \/ \E c \in Others : c \in program.shares[o] /\ program.creator[c] = u /\ stage[c] = "awaiting"

Uses(u, l) ==
  /\ code[u] # << >> /\ stage[u] \notin {"unborn", "awaiting", "dead"}
  /\ l \in Threads => UsesMonitor(u, l)
  /\ l \in Objects => UsesObject(u, l)

LEMMA WaiterUses ==
  ASSUME LockInv, Calm, NEW t \in Threads, code[t] # << >>, NEW l \in Locks, code[t][1] = Lock(l)
  PROVE  Uses(t, l)
<1>1. 1 \in 1 .. Len(code[t]) /\ code[t][1].do = "lock" /\ code[t][1].on = l
  BY FirstIs, LocksDiffer
<1>2. UsesThreads(code[t], t, program, stage) /\ UsesObjects(code[t], t, program, stage)
  BY DEF Calm, TidyInv, Tidy
<1>3. stage[t] \notin {"unborn", "awaiting", "dead"}
  BY DEF Calm, QuietInv
<1>4. l \in Threads => UsesMonitor(t, l)
  BY <1>1, <1>2 DEF UsesThreads, UsesMonitor, Both
<1>5. ASSUME l \in Objects PROVE UsesObject(t, l)
  <2>1. \A j : j \notin 1 .. 1 - 1
    OBVIOUS
  <2> QED
    BY <1>1, <1>2, <1>5, <2>1 DEF UsesObjects, Syncs, UsesObject, Both
<1> QED
  BY <1>3, <1>4, <1>5 DEF Uses

LEMMA HolderUses ==
  ASSUME LockInv, Calm, NEW u \in Threads, NEW l \in Locks, holder[l] = u
  PROVE  Uses(u, l) /\ Inside(code[u], 1, l) /\ \E j \in 1 .. Len(code[u]) : code[u][j] = Unlock(l)
<1>1. TypeRest /\ code[u] \in Seq(Instr) /\ Len(code[u]) \in Nat
  BY Parts, LenProperties
<1>2. depth[l] # 0
  BY <1>1, NoneAssumption DEF TypeRest
<1>3. Held(u, l) # 0
  BY <1>2 DEF Held
<1>4. Inside(code[u], 1, l)
  BY <1>3 DEF Calm, HeldInv
<1>5. PICK j \in 1 .. Len(code[u]) : code[u][j] = Unlock(l) /\ \A k \in 1 .. j - 1 : code[u][k] # Lock(l)
  BY <1>4 DEF Inside
<1>6. code[u] # << >>
  <2>1. Len(code[u]) # 0
    BY <1>1, <1>5
  <2> QED
    BY <2>1
<1>7. stage[u] \notin {"unborn", "awaiting", "dead"}
  BY <1>6 DEF Calm, QuietInv
<1>8. code[u][j].do = "unlock" /\ code[u][j].on = l
  BY <1>5, LocksDiffer
<1>9. /\ UsesThreads(code[u], u, program, stage) /\ UsesObjects(code[u], u, program, stage)
      /\ \A i \in 1 .. Len(code[u]) : code[u][i].do \in Events => ~Inside(code[u], i, l)
  BY DEF Calm, TidyInv, Tidy, Nest, NestAt
<1>10. l \in Threads => UsesMonitor(u, l)
  BY <1>8, <1>9 DEF UsesThreads, UsesMonitor, Both
<1>11. ASSUME l \in Objects PROVE UsesObject(u, l)
  <2>1. CASE u \in program.shares[l]
    BY <2>1 DEF UsesObject
  <2>2. CASE u \notin program.shares[l]
    <3>1. PICK c \in Others : c \in program.shares[l] /\ Syncs(code[u], j, u, c, program, stage)
      BY <1>8, <1>9, <1>11, <2>2 DEF UsesObjects, Both
    <3>2. ASSUME NEW k \in 1 .. j - 1, code[u][k] = Await(c) PROVE FALSE
      <4>1. k \in 1 .. Len(code[u]) /\ j \in k .. Len(code[u]) /\ \A m \in k .. j - 1 : m \in 1 .. j - 1
        BY <1>1
      <4>2. Inside(code[u], k, l)
        BY <1>5, <4>1 DEF Inside
      <4>3. code[u][k].do \in Events
        BY <3>2 DEF Await, Events
      <4> QED
        BY <1>9, <4>1, <4>2, <4>3
    <3> QED
      BY <3>1, <3>2 DEF Syncs, UsesObject
  <2> QED
    BY <2>1, <2>2
<1> QED
  BY <1>4, <1>5, <1>6, <1>7, <1>10, <1>11 DEF Uses

Related(a, b) ==
  (a \in Others /\ program.creator[a] = b) \/ (b \in Others /\ program.creator[b] = a)

LEMMA SharersRelated ==
  ASSUME Disciplined, NEW o \in Objects, NEW a \in program.shares[o], NEW b \in program.shares[o], a # b
  PROVE  Related(a, b)
<1>1. PICK c \in Threads \ {Main} : program.shares[o] \subseteq {c, program.creator[c]}
  BY DEF Disciplined
<1>2. a \in {c, program.creator[c]} /\ b \in {c, program.creator[c]}
  BY <1>1
<1> QED
  BY <1>1, <1>2 DEF Related, Others

\* Two threads that need the same object both share it.
LEMMA BothUse ==
  ASSUME LockInv, Calm, Disciplined, NEW a \in Threads, NEW b \in Threads, a # b, NEW o \in Objects,
         Uses(a, o), Uses(b, o)
  PROVE  a \in program.shares[o] /\ b \in program.shares[o] /\ Related(a, b)
<1>1. UsesObject(a, o) /\ UsesObject(b, o)
  BY DEF Uses
<1>2. /\ stage[a] \notin {"unborn", "awaiting", "dead"}
      /\ stage[b] \notin {"unborn", "awaiting", "dead"}
  BY DEF Uses
<1>3. LateInv
  BY DEF Calm
<1>4. ASSUME NEW x \in {a, b}, NEW y \in {a, b}, x # y, x \in program.shares[o], NEW c \in Others,
             c \in program.shares[o], program.creator[c] = y, stage[c] = "awaiting"
      PROVE  FALSE
  <2>1. x # c /\ stage[x] \notin {"unborn", "awaiting", "dead"}
    BY <1>2, <1>4
  <2>2. Related(x, c)
    BY <1>4, <2>1, SharersRelated
  <2>3. x \in Others /\ program.creator[x] = c
    BY <1>4, <2>2 DEF Related
  <2>4. stage[x] \in {"unborn", "dead"}
    BY <1>3, <1>4, <2>3 DEF LateInv, Late
  <2> QED
    BY <2>1, <2>4
<1>5. ASSUME NEW c \in Others, c \in program.shares[o], program.creator[c] = a, stage[c] = "awaiting",
             NEW d \in Others, d \in program.shares[o], program.creator[d] = b, stage[d] = "awaiting"
      PROVE  FALSE
  <2>1. c # d /\ c # b /\ d # a
    BY <1>2, <1>5
  <2>2. Related(c, d)
    BY <1>5, <2>1, SharersRelated
  <2> QED
    BY <1>5, <2>1, <2>2 DEF Related
<1>6. a \in program.shares[o] /\ b \in program.shares[o]
  BY <1>1, <1>4, <1>5 DEF UsesObject
<1> QED
  BY <1>6, SharersRelated


\* A thread that holds a lock waits for no event.
LEMMA HolderWaitsNot ==
  ASSUME LockInv, Calm, NEW u \in Threads, NEW l \in Locks, holder[l] = u
  PROVE  code[u][1].do \notin Events /\ stage[u] # "awaiting"
<1>1. Inside(code[u], 1, l) /\ code[u] # << >> /\ stage[u] # "awaiting"
  BY HolderUses DEF Uses
<1>2. 1 \in 1 .. Len(code[u])
  BY <1>1, FirstIs
<1>3. NestAt(code[u], 1, Priv(u, program.shares, stage), program.merges)
  BY <1>2 DEF Calm, TidyInv, Tidy, Nest
<1> QED
  BY <1>1, <1>3 DEF NestAt

\* Who holds the monitor of a thread that another waits for goes on: a
\* creator that has set EXIT, about to unlock.
LEMMA MonitorsFree ==
  ASSUME LockInv, Calm, NEW t \in Threads, NEW l \in Threads, NEW b \in Threads,
         code[t] # << >>, code[t][1] = Lock(l), holder[l] = b, b # t
  PROVE  Needs(b) = {}
<1>1. l \in Locks
  BY LocksAre
<1>2. UsesMonitor(t, l) /\ UsesMonitor(b, l)
  BY <1>1, WaiterUses, HolderUses DEF Uses
<1>3. code[t][1].do = "lock"
  BY LocksDiffer
<1>4. ~(b \in Others /\ program.creator[b] = t /\ stage[b] = "exiting")
  BY <1>3, ExitHead
<1>5. t \in Others /\ program.creator[t] = b /\ stage[t] = "exiting"
  BY <1>2, <1>4 DEF UsesMonitor, Others
<1>6. code[b][1].do \in {"unlock", "dead"} /\ code[b] # << >>
  BY <1>5, ExitHead
<1>7. code[b][1].do \notin Events /\ stage[b] # "awaiting"
  BY <1>1, HolderWaitsNot
<1>8. code[b][1].do # "lock"
  BY <1>6
<1> QED
  BY <1>7, <1>8, NeedsAre

\* Who holds the globals lock waits, if at all, for a thread that goes on.
LEMMA GlobalsFree ==
  ASSUME LockInv, Calm, Disciplined, NEW b \in Threads, holder[G] = b, NEW v \in Needs(b)
  PROVE  Needs(v) = {}
<1>1. G \in Locks
  BY LocksAre
<1>2. /\ code[b][1].do \notin Events /\ stage[b] # "awaiting"
      /\ Inside(code[b], 1, G)
  BY <1>1, HolderWaitsNot, HolderUses
<1>3. PICK k : k = code[b][1].on
  OBVIOUS
<1>4. /\ code[b] # << >> /\ code[b][1].do = "lock" /\ code[b][1] = Lock(k)
      /\ k \in Locks /\ holder[k] = v /\ v # b /\ v \in Threads
  BY <1>2, <1>3, NeedsAre
<1>5. 1 \in 1 .. Len(code[b])
  BY <1>4, FirstIs
<1>6. NestAt(code[b], 1, Priv(b, program.shares, stage), program.merges)
  BY <1>5 DEF Calm, TidyInv, Tidy, Nest
<1>7. k \in Priv(b, program.shares, stage)
  BY <1>2, <1>3, <1>4, <1>6 DEF NestAt
<1>8. CASE k \in Threads
  BY <1>4, <1>8, MonitorsFree
<1>9. CASE k \in Objects
  <2>1. Uses(b, k) /\ Uses(v, k) /\ \E j \in 1 .. Len(code[v]) : code[v][j] = Unlock(k)
    BY <1>4, WaiterUses, HolderUses
  <2>2. b \in program.shares[k] /\ v \in program.shares[k] /\ Related(b, v)
    BY <1>4, <1>9, <2>1, BothUse
  <2>3. stage[b] = "exiting"
    BY <1>4, <1>7, <1>9, <2>2 DEF Priv
  <2>4. CASE b \in Others /\ program.creator[b] = v
    <3>1. code[v] \in {<<Unlock(b), Gone(b)>>, <<Gone(b)>>}
      BY <2>3, <2>4, ExitHead
    <3>2. Unlock(k) # Unlock(b) /\ Unlock(k) # Gone(b)
      BY <1>9, LocksAssumption DEF Unlock, Gone
    <3>3. \A j \in 1 .. Len(code[v]) : code[v][j] \in {Unlock(b), Gone(b)}
      BY <3>1
    <3> QED
      BY <2>1, <3>2, <3>3
  <2>5. CASE v \in Others /\ program.creator[v] = b
    <3>1. stage[v] \in {"unborn", "dead"}
      BY <2>3, <2>5 DEF Calm, LateInv, Late
    <3> QED
      BY <2>1, <3>1 DEF Uses
  <2> QED
    BY <2>2, <2>4, <2>5 DEF Related
<1> QED
  BY <1>4, <1>7, <1>8, <1>9 DEF Priv


\* A group of threads in which everyone needs a member of it.
Stuck(S) == S \in SUBSET Threads /\ S # {} /\ \A t \in S : Needs(t) \cap S # {}

\* What is left to wait for in such a group: a child is not joined yet, a
\* child has not come far enough, or the two use an object that they share.
WaitsForCreator(t, u) == t \in Others /\ stage[t] = "awaiting" /\ program.creator[t] = u

WaitsForChild(t, u) ==
  /\ u \in Others /\ program.creator[u] = t
  /\ code[t] # << >> /\ code[t][1].do \in Events /\ code[t][1].on = u
  /\ StageOf(stage[u]) < StageOf(code[t][1].do)

WaitsForObject(t, u, o) ==
  code[t] # << >> /\ code[t][1] = Lock(o) /\ holder[o] = u /\ Related(t, u)

Edge(t, u) ==
  WaitsForCreator(t, u) \/ WaitsForChild(t, u) \/ \E o \in Objects : WaitsForObject(t, u, o)

LEMMA EdgesAre ==
  ASSUME LockInv, Calm, Disciplined, NEW S, Stuck(S), NEW t \in S, NEW u \in Needs(t) \cap S
  PROVE  Edge(t, u)
<1>1. t \in Threads /\ u \in Threads /\ Needs(u) \cap S # {}
  BY DEF Stuck
<1>2. PICK k : k = code[t][1].on
  OBVIOUS
<1>3. CASE t \in Others /\ stage[t] = "awaiting" /\ u = program.creator[t]
  BY <1>3 DEF Edge, WaitsForCreator
<1>4. CASE /\ code[t] # << >> /\ code[t][1].do = "lock" /\ code[t][1] = Lock(k)
           /\ k \in Locks /\ holder[k] = u /\ u # t
  <2>1. k # G
    <3> SUFFICES ASSUME k = G PROVE FALSE
      OBVIOUS
    <3>1. PICK v \in Needs(u) : v \in S
      BY <1>1
    <3>2. holder[G] = u
      BY <1>4
    <3>3. Needs(v) = {}
      BY <1>1, <3>2, GlobalsFree
    <3> QED
      BY <3>1, <3>3 DEF Stuck
  <2>2. k \notin Threads
    BY <1>1, <1>4, MonitorsFree
  <2>3. k \in Objects
    BY <1>4, <2>1, <2>2 DEF Locks
  <2>4. Uses(t, k) /\ Uses(u, k)
    BY <1>1, <1>4, WaiterUses, HolderUses
  <2>5. Related(t, u)
    BY <1>1, <1>4, <2>3, <2>4, BothUse
  <2> QED
    BY <1>4, <2>3, <2>5 DEF Edge, WaitsForObject
<1>5. CASE /\ code[t] # << >> /\ code[t][1].do \in Events /\ code[t][1].on = u
           /\ StageOf(stage[u]) < StageOf(code[t][1].do)
  <2>1. code[t][1] \in Instr /\ 1 \in 1 .. Len(code[t])
    BY <1>1, <1>5, FirstIs
  <2>2. u \in Others
    BY <1>5, <2>1, InstrIs DEF Events
  <2>3. JoinsInOrder(code[t], t, program, stage, joined)
    BY <1>1 DEF Calm, TidyInv, Tidy
  <2>4. program.creator[u] = t
    BY <1>5, <2>1, <2>3 DEF JoinsInOrder
  <2> QED
    BY <1>5, <2>2, <2>4 DEF Edge, WaitsForChild
<1> QED
  BY <1>1, <1>2, <1>3, <1>4, <1>5, NeedsAre

\* A thread and its creator do not wait for each other.
LEMMA NoPair ==
  ASSUME LockInv, Calm, Disciplined, NEW c \in Others, NEW p \in Threads, program.creator[c] = p,
         ~(p \in Others /\ program.creator[p] = c), Edge(c, p), Edge(p, c)
  PROVE  FALSE
<1>0. c \in Threads /\ Objects \subseteq Locks
  BY LocksAre DEF Others
<1>1. ~WaitsForChild(c, p) /\ ~WaitsForCreator(p, c)
  BY DEF WaitsForChild, WaitsForCreator
<1>2. ASSUME NEW o \in Objects, WaitsForObject(p, c, o) PROVE stage[c] # "awaiting"
  BY <1>0, <1>2, HolderWaitsNot DEF WaitsForObject
<1>3. ASSUME NEW o \in Objects, WaitsForObject(c, p, o) PROVE ~WaitsForChild(p, c)
  BY <1>0, <1>3, HolderWaitsNot DEF WaitsForObject, WaitsForChild
<1>4. ASSUME WaitsForCreator(c, p), WaitsForChild(p, c) PROVE FALSE
  <2>1. /\ stage[c] = "awaiting" /\ code[p] # << >> /\ code[p][1].do \in Events /\ code[p][1].on = c
        /\ StageOf(stage[c]) < StageOf(code[p][1].do)
    BY <1>4 DEF WaitsForCreator, WaitsForChild
  <2>2. StageOf("awaiting") = 5 /\ StageOf("ready") = 3
    BY StageOfIs, StagesAre
  <2>3. code[p][1].do = "dead"
    BY <2>1, <2>2 DEF Events
  <2>4. 1 \in 1 .. Len(code[p]) /\ \A j : j \notin 1 .. 1 - 1
    BY <2>1, FirstIs
  <2>5. JoinsInOrder(code[p], p, program, stage, joined)
    BY DEF Calm, TidyInv, Tidy
  <2> QED
    BY <2>1, <2>3, <2>4, <2>5 DEF JoinsInOrder
<1>5. ASSUME NEW o \in Objects, NEW q \in Objects, WaitsForObject(c, p, o), WaitsForObject(p, c, q)
      PROVE  FALSE
  <2>1. ASSUME NEW t \in Threads, NEW x \in Objects, NEW y \in Objects, code[t] # << >>,
               code[t][1] = Lock(x), holder[y] = t
        PROVE  <<y, x>> \in program.merges
    <3>1. Inside(code[t], 1, y)
      BY <1>0, <2>1, HolderUses
    <3>2. 1 \in 1 .. Len(code[t])
      BY <2>1, FirstIs
    <3>3. NestAt(code[t], 1, Priv(t, program.shares, stage), program.merges)
      BY <3>2 DEF Calm, TidyInv, Tidy, Nest
    <3>4. code[t][1].do = "lock" /\ code[t][1].on = x
      BY <2>1, LocksDiffer
    <3> QED
      BY <2>1, <3>1, <3>3, <3>4 DEF NestAt
  <2>2. <<q, o>> \in program.merges
    BY <1>0, <1>5, <2>1 DEF WaitsForObject
  <2>3. <<o, q>> \in program.merges
    BY <1>5, <2>1 DEF WaitsForObject
  <2> QED
    BY <2>2, <2>3 DEF Disciplined
<1>6. WaitsForChild(p, c) \/ \E o \in Objects : WaitsForObject(p, c, o)
  BY <1>1 DEF Edge
<1>7. WaitsForCreator(c, p) \/ \E o \in Objects : WaitsForObject(c, p, o)
  BY <1>1 DEF Edge
<1>8. WaitsForCreator(c, p) => stage[c] = "awaiting"
  BY DEF WaitsForCreator
<1> QED
  BY <1>2, <1>3, <1>4, <1>5, <1>6, <1>7, <1>8


\* The smallest stuck group: everyone in it is needed by another member.
LEMMA SmallestGroup ==
  ASSUME LockInv, Calm, Disciplined, NEW S0, Stuck(S0)
  PROVE  \E S : Stuck(S) /\ \A x \in S : \E w \in S : x \in Needs(w)
<1> DEFINE T == {n \in Nat : \E S \in SUBSET Threads : Stuck(S) /\ Cardinality(S) = n}
<1>1. \A S : Stuck(S) => IsFiniteSet(S) /\ S \in SUBSET Threads /\ Cardinality(S) \in Nat
  BY FiniteAssumption, FS_Subset, FS_CardinalityType DEF Stuck
<1>2. T \in SUBSET Nat /\ T # {}
  BY <1>1
<1>3. \A S : Stuck(S) => Cardinality(S) \in T
  BY <1>1
<1>4. \A n \in T : \E S : Stuck(S) /\ Cardinality(S) = n
  OBVIOUS
<1> HIDE DEF T
<1>5. PICK m \in T : \A k \in T : m <= k
  BY <1>2, LeastNatural
<1>6. PICK S : Stuck(S) /\ Cardinality(S) = m
  BY <1>4
<1>7. ASSUME NEW x \in S, \A w \in S : x \notin Needs(w) PROVE FALSE
  <2>1. \A w \in S : Needs(w) \cap (S \ {x}) # {}
    BY <1>6, <1>7 DEF Stuck
  <2>2. Stuck(S \ {x})
    BY <1>6, <2>1 DEF Stuck
  <2>3. Cardinality(S \ {x}) = Cardinality(S) - 1
    BY <1>1, <1>6, FS_RemoveElement
  <2>4. Cardinality(S \ {x}) \in T
    BY <1>3, <2>2
  <2>5. m <= Cardinality(S \ {x}) /\ m \in Nat
    BY <1>2, <1>5, <2>4
  <2> QED
    BY <1>6, <2>3, <2>5
<1> QED
  BY <1>6, <1>7

\* Someone in a stuck group was born last.
LEMMA Youngest ==
  ASSUME LockInv, Calm, NEW S, Stuck(S)
  PROVE  \E x \in S : \A u \in S : ~(u \in Others /\ program.creator[u] = x)
<1>1. PICK most \in Nat : \E rank \in [Threads -> 0 .. most] : \A k \in Others : stage[k] # "unborn" =>
        stage[program.creator[k]] # "unborn" /\ rank[program.creator[k]] < rank[k]
  BY DEF Calm, BornInv
<1>2. PICK rank \in [Threads -> 0 .. most] : \A k \in Others : stage[k] # "unborn" =>
        stage[program.creator[k]] # "unborn" /\ rank[program.creator[k]] < rank[k]
  BY <1>1
<1>3. S \subseteq Threads /\ S # {}
  BY DEF Stuck
<1>4. ASSUME NEW u \in S PROVE stage[u] # "unborn"
  <2>1. u \in Threads
    BY <1>3
  <2>2. PICK v : v \in Needs(u)
    BY DEF Stuck
  <2>3. stage[u] = "awaiting" \/ code[u] # << >>
    BY <2>1, <2>2, NeedsAre
  <2> QED
    BY <2>1, <2>3 DEF Calm, QuietInv
<1> DEFINE T == {most - rank[u] : u \in S}
<1>5. \A u \in S : rank[u] \in 0 .. most /\ most - rank[u] \in Nat
  BY <1>3
<1>6. T \in SUBSET Nat /\ T # {}
  BY <1>3, <1>5
<1>7. \A u \in S : most - rank[u] \in T
  OBVIOUS
<1>8. \A n \in T : \E u \in S : n = most - rank[u]
  OBVIOUS
<1> HIDE DEF T
<1>9. PICK m \in T : \A k \in T : m <= k
  BY <1>6, LeastNatural
<1>10. PICK x \in S : m = most - rank[x]
  BY <1>8
<1>11. ASSUME NEW u \in S, u \in Others, program.creator[u] = x PROVE FALSE
  <2>1. rank[x] < rank[u]
    BY <1>2, <1>4, <1>11
  <2>2. most - rank[x] <= most - rank[u]
    BY <1>7, <1>9, <1>10
  <2> QED
    BY <1>5, <2>1, <2>2
<1> QED
  BY <1>11

LEMMA NoStuckGroup ==
  ASSUME LockInv, Calm, Disciplined, NEW S0, Stuck(S0)
  PROVE  FALSE
<1>1. PICK S : Stuck(S) /\ \A x \in S : \E w \in S : x \in Needs(w)
  BY SmallestGroup
<1>2. S \subseteq Threads
  BY <1>1 DEF Stuck
<1>3. PICK x \in S : \A u \in S : ~(u \in Others /\ program.creator[u] = x)
  BY <1>1, Youngest
<1>4. PICK u \in S : u \in Needs(x)
  BY <1>1 DEF Stuck
<1>5. PICK w \in S : x \in Needs(w)
  BY <1>1
<1>6. Edge(x, u) /\ Edge(w, x)
  BY <1>1, <1>4, <1>5, EdgesAre
<1>7. \A a, b : Edge(a, b) => Related(a, b)
  BY DEF Edge, WaitsForCreator, WaitsForChild, WaitsForObject, Related
<1>8. x \in Others /\ program.creator[x] = u /\ program.creator[x] = w
  BY <1>3, <1>6, <1>7 DEF Related
<1>9. Edge(x, u) /\ Edge(u, x) /\ u \in Threads /\ ~(u \in Others /\ program.creator[u] = x)
  BY <1>2, <1>3, <1>6, <1>8
<1> QED
  BY <1>8, <1>9, NoPair

\* No group of threads of a disciplined program waits for locks and events
\* that only its members could provide, for every finite set of threads and
\* objects: pthreads_store_read, pthreads_base_free, pthreads_join and the
\* ends of threads nest the globals lock and the monitors, yet no cycle closes.
THEOREM NeverDeadlocked == Spec => []NoDeadlock
<1>1. Init => LockInv /\ CalmInv
  BY InitHolds, InitCalm
<1>2. LockInv /\ CalmInv /\ [Next]_vars => LockInv' /\ CalmInv'
  BY NextKeeps, NextCalm
<1>3. LockInv /\ CalmInv => NoDeadlock
  <2> SUFFICES ASSUME LockInv, CalmInv, Disciplined, NEW group \in (SUBSET Threads) \ {{}},
                      ~\E t \in group : IF t # Main /\ stage[t] = "awaiting"
                                        THEN program.creator[t] \notin group
                                        ELSE WaitsFor(t) \cap group = {}
               PROVE  FALSE
    BY DEF NoDeadlock
  <2>1. \A t \in group : Needs(t) \cap group # {}
    BY DEF Needs
  <2>2. Stuck(group) /\ Calm
    BY <2>1 DEF Stuck, CalmInv
  <2> QED
    BY <2>2, NoStuckGroup
<1> QED
  BY <1>1, <1>2, <1>3, PTL DEF Spec

=============================================================================

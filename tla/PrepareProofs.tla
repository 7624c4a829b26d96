---------------------------- MODULE PrepareProofs ----------------------------
(***************************************************************************)
(* Theorems about the copying of classes: for every program, every number  *)
(* of classes and every room in the tables, no pointer of a thread leads   *)
(* into its creator's classes or to a copy that has been replaced, and     *)
(* every object it meets is of the entry that its class table has.         *)
(***************************************************************************)
EXTENDS Prepare, Integers, SequenceTheorems, WellFoundedInduction, TLAPS

-----------------------------------------------------------------------------
(* Sequences of calls.                                                     *)

\* c is a followed by b.
Concat(C, a, b, c) ==
  /\ c \in Seq(C) /\ Len(a) \in Nat /\ Len(b) \in Nat /\ Len(c) = Len(a) + Len(b)
  /\ \A j \in 1 .. Len(a) : j \in 1 .. Len(c) /\ c[j] = a[j]
  /\ \A j \in 1 .. Len(b) : Len(a) + j \in 1 .. Len(c) /\ c[Len(a) + j] = b[j]
  /\ \A k \in 1 .. Len(c) : \/ k \in 1 .. Len(a) /\ c[k] = a[k]
                            \/ k - Len(a) \in 1 .. Len(b) /\ c[k] = b[k - Len(a)]

LEMMA ConcatIs ==
  ASSUME NEW C, NEW a \in Seq(C), NEW b \in Seq(C)
  PROVE  Concat(C, a, b, a \o b)
<1>1. a \o b \in Seq(C) /\ Len(a) \in Nat /\ Len(b) \in Nat /\ Len(a \o b) = Len(a) + Len(b)
  BY ConcatProperties, LenProperties
<1>2. \A k \in 1 .. Len(a) + Len(b) : (a \o b)[k] = IF k <= Len(a) THEN a[k] ELSE b[k - Len(a)]
  BY ConcatProperties
<1>3. \A j \in 1 .. Len(a) : j \in 1 .. Len(a) + Len(b) /\ j <= Len(a)
  BY <1>1
<1>4. \A j \in 1 .. Len(b) : /\ Len(a) + j \in 1 .. Len(a) + Len(b) /\ ~(Len(a) + j <= Len(a))
                             /\ (Len(a) + j) - Len(a) = j
  BY <1>1
<1>5. \A k \in 1 .. Len(a) + Len(b) : k \in 1 .. Len(a) \/ (k - Len(a) \in 1 .. Len(b) /\ ~(k <= Len(a)))
  BY <1>1
<1>6. \A j \in 1 .. Len(a) : j \in 1 .. Len(a \o b) /\ (a \o b)[j] = a[j]
  BY <1>1, <1>2, <1>3
<1>7. \A j \in 1 .. Len(b) : Len(a) + j \in 1 .. Len(a \o b) /\ (a \o b)[Len(a) + j] = b[j]
  BY <1>1, <1>2, <1>4
<1>8. \A k \in 1 .. Len(a \o b) : \/ k \in 1 .. Len(a) /\ (a \o b)[k] = a[k]
                                  \/ k - Len(a) \in 1 .. Len(b) /\ (a \o b)[k] = b[k - Len(a)]
  BY <1>1, <1>2, <1>3, <1>5
<1> QED
  BY <1>1, <1>6, <1>7, <1>8, Zenon DEF Concat

LEMMA LeastNatural ==
  ASSUME NEW T \in SUBSET Nat, T # {}
  PROVE  \E m \in T : \A k \in T : m <= k
<1>1. PICK m \in T : \A k \in T : <<k, m>> \notin OpToRel(<, Nat)
  BY WFMin, NatLessThanWellFounded, Zenon
<1>2. \A k \in T : ~(k < m)
  BY <1>1, Zenon DEF OpToRel
<1> QED
  BY <1>2

\* A set of sequences that is closed under concatenation.
Closed(C, ss, n) ==
  /\ n \in Nat \ {0} /\ \A i \in 1 .. n : ss[i] \in C
  /\ \A x, y \in C : x \o y \in C

Joins(F, ss, n) == \A k \in 1 .. n : F[k] = IF k = 1 THEN ss[k] ELSE F[k - 1] \o ss[k]

LEMMA JoinsExists ==
  ASSUME NEW C, NEW ss, NEW n, Closed(C, ss, n)
  PROVE  \E F \in [1 .. n -> C] : Joins(F, ss, n)
<1> n \in Nat \ {0} /\ (\A i \in 1 .. n : ss[i] \in C) /\ \A x, y \in C : x \o y \in C
  BY DEF Closed
<1> DEFINE Upto(m) == \E F \in [1 .. m -> C] : Joins(F, ss, m)
    T == {m \in 1 .. n : ~Upto(m)}
<1> SUFFICES ASSUME ~Upto(n) PROVE FALSE
  OBVIOUS
<1>0. n \in T
  OBVIOUS
<1>1. T \in SUBSET Nat /\ \A m \in T : m \in 1 .. n /\ ~Upto(m)
  OBVIOUS
<1>2. \A m \in 1 .. n : m \notin T => Upto(m)
  OBVIOUS
<1> HIDE DEF T
<1>3. PICK m \in T : \A k \in T : m <= k
  BY <1>0, <1>1, LeastNatural
<1>4. CASE m = 1
  <2>1. PICK F : F = [k \in 1 .. 1 |-> ss[1]]
    OBVIOUS
  <2>2. F \in [1 .. 1 -> C] /\ F[1] = ss[1]
    <3>1. 1 \in 1 .. n
      OBVIOUS
    <3>2. ss[1] \in C
      BY <3>1
    <3> QED
      BY <2>1, <3>2
  <2>3. \A k \in 1 .. 1 : k = 1
    OBVIOUS
  <2>4. Joins(F, ss, 1)
    BY <2>2, <2>3 DEF Joins
  <2> QED
    BY <1>1, <1>4, <2>2, <2>4
<1>5. CASE m # 1
  <2>1. m \in 1 .. n /\ m - 1 \in 1 .. n /\ ~(m <= m - 1) /\ m - 1 \in 1 .. m - 1
    BY <1>1, <1>5
  <2>2. Upto(m - 1)
    BY <1>2, <1>3, <2>1
  <2>3. PICK F \in [1 .. m - 1 -> C] : Joins(F, ss, m - 1)
    BY <2>2
  <2>4. PICK v \in C : v = F[m - 1] \o ss[m]
    <3>1. F[m - 1] \in C /\ ss[m] \in C
      BY <2>1
    <3> QED
      BY <3>1
  <2>5. PICK H : H = [k \in 1 .. m |-> IF k = m THEN v ELSE F[k]]
    OBVIOUS
  <2>6. H \in [1 .. m -> C]
    <3>1. \A k \in 1 .. m : k # m => k \in 1 .. m - 1
      BY <2>1
    <3> QED
      BY <2>5, <3>1
  <2>7. H[m] = v /\ \A k \in 1 .. m - 1 : H[k] = F[k]
    BY <2>1, <2>5
  <2>8. ASSUME NEW k \in 1 .. m PROVE H[k] = IF k = 1 THEN ss[k] ELSE H[k - 1] \o ss[k]
    <3>1. (k # m => k \in 1 .. m - 1) /\ (k # 1 => k - 1 \in 1 .. m - 1)
      BY <2>1
    <3>2. CASE k = m
      BY <1>5, <2>4, <2>7, <3>1, <3>2
    <3>3. CASE k # m
      BY <2>3, <2>7, <3>1, <3>3 DEF Joins
    <3> QED
      BY <3>2, <3>3
  <2>9. Joins(H, ss, m)
    BY <2>8 DEF Joins
  <2> QED
    BY <1>1, <2>6, <2>9
<1> QED
  BY <1>4, <1>5

LEMMA JoinsWithin ==
  ASSUME NEW C, NEW ss, NEW n, Closed(C, ss, n), NEW F, Joins(F, ss, n)
  PROVE  F[n] \in C
<1> n \in Nat \ {0} /\ (\A i \in 1 .. n : ss[i] \in C) /\ \A x, y \in C : x \o y \in C
  BY DEF Closed
<1> DEFINE T == {m \in 1 .. n : F[m] \notin C}
<1> SUFFICES ASSUME F[n] \notin C PROVE FALSE
  OBVIOUS
<1>0. n \in T
  OBVIOUS
<1>1. T \in SUBSET Nat /\ \A m \in T : m \in 1 .. n /\ F[m] \notin C
  OBVIOUS
<1>2. \A m \in 1 .. n : m \notin T => F[m] \in C
  OBVIOUS
<1> HIDE DEF T
<1>3. PICK m \in T : \A k \in T : m <= k
  BY <1>0, <1>1, LeastNatural
<1>4. CASE m = 1
  BY <1>1, <1>3, <1>4 DEF Joins
<1>5. CASE m # 1
  <2>1. m \in 1 .. n /\ m - 1 \in 1 .. n /\ ~(m <= m - 1)
    BY <1>1, <1>5
  <2>2. F[m - 1] \in C
    BY <1>2, <1>3, <2>1
  <2>3. F[m] = F[m - 1] \o ss[m]
    BY <1>5, <2>1 DEF Joins
  <2> QED
    BY <1>1, <2>1, <2>2, <2>3
<1> QED
  BY <1>4, <1>5

LEMMA FlattenWithin ==
  ASSUME NEW C, NEW ss, NEW n, Closed(C, ss, n), Len(ss) = n
  PROVE  FlattenSeq(ss) \in C
<1> DEFINE flatten == CHOOSE flatten :
             flatten = [i \in 1 .. Len(ss) |-> IF i = 1 THEN ss[i] ELSE flatten[i - 1] \o ss[i]]
<1>1. n \in Nat \ {0}
  BY DEF Closed
<1>2. FlattenSeq(ss) = flatten[Len(ss)]
  BY <1>1 DEF FlattenSeq
<1>3. PICK F \in [1 .. n -> C] : Joins(F, ss, n)
  BY JoinsExists
<1>4. F = [i \in 1 .. n |-> IF i = 1 THEN ss[i] ELSE F[i - 1] \o ss[i]]
  BY <1>3 DEF Joins
<1>5. flatten = [i \in 1 .. n |-> IF i = 1 THEN ss[i] ELSE flatten[i - 1] \o ss[i]]
  BY <1>4
<1> HIDE DEF flatten
<1>6. Joins(flatten, ss, n)
  BY <1>5 DEF Joins
<1> QED
  BY <1>2, <1>6, JoinsWithin

\* What a sequence of sequences has, its flattening has.
Sequences(C, ss, n) == n \in Nat \ {0} /\ \A i \in 1 .. n : ss[i] \in Seq(C)

Has(s, x) == \E j \in 1 .. Len(s) : s[j] = x

LEMMA JoinsHas ==
  ASSUME NEW C, NEW ss, NEW n, Sequences(C, ss, n), NEW F,
         Joins(F, ss, n), NEW k \in 1 .. n, NEW i \in 1 .. Len(ss[k])
  PROVE  Has(F[n], ss[k][i])
<1> n \in Nat \ {0} /\ \A q \in 1 .. n : ss[q] \in Seq(C)
  BY DEF Sequences
<1> DEFINE Upto(m) == F[m] \in Seq(C) /\ (k <= m => \E j \in 1 .. Len(F[m]) : F[m][j] = ss[k][i])
    T == {m \in 1 .. n : ~Upto(m)}
<1> SUFFICES ASSUME ~Upto(n) PROVE FALSE
  BY DEF Has, Upto
<1>0. n \in T
  OBVIOUS
<1>1. T \in SUBSET Nat /\ \A m \in T : m \in 1 .. n /\ ~Upto(m)
  OBVIOUS
<1>2. \A m \in 1 .. n : m \notin T => Upto(m)
  OBVIOUS
<1> HIDE DEF T
<1>3. PICK m \in T : \A q \in T : m <= q
  BY <1>0, <1>1, LeastNatural
<1>4. m \in 1 .. n /\ ss[m] \in Seq(C)
  BY <1>1
<1>5. CASE m = 1
  <2>1. F[m] = ss[m] /\ (k <= m => k = m)
    BY <1>4, <1>5 DEF Joins
  <2> QED
    BY <1>1, <1>4, <2>1
<1>6. CASE m # 1
  <2>1. m - 1 \in 1 .. n /\ ~(m <= m - 1) /\ (k <= m => k = m \/ k <= m - 1)
    BY <1>4, <1>6
  <2>2. Upto(m - 1)
    BY <1>2, <1>3, <2>1
  <2>3. F[m] = F[m - 1] \o ss[m]
    BY <1>4, <1>6 DEF Joins
  <2>4. /\ F[m] \in Seq(C)
        /\ \A j \in 1 .. Len(F[m - 1]) : j \in 1 .. Len(F[m]) /\ F[m][j] = F[m - 1][j]
        /\ \A j \in 1 .. Len(ss[m]) : /\ Len(F[m - 1]) + j \in 1 .. Len(F[m])
                                      /\ F[m][Len(F[m - 1]) + j] = ss[m][j]
    <3>1. PICK a \in Seq(C) : a = F[m - 1]
      BY <2>2
    <3>2. PICK b \in Seq(C) : b = ss[m]
      BY <1>4
    <3>3. F[m] = a \o b
      BY <2>3, <3>1, <3>2
    <3>4. Concat(C, F[m - 1], ss[m], F[m])
      BY <3>1, <3>2, <3>3, ConcatIs
    <3> QED
      BY <3>4 DEF Concat
  <2>6. CASE k = m
    BY <1>1, <2>4, <2>6
  <2>7. CASE k # m
    <3>1. k <= m => \E j \in 1 .. Len(F[m - 1]) : F[m - 1][j] = ss[k][i]
      BY <2>1, <2>2, <2>7
    <3> QED
      BY <1>1, <2>4, <3>1
  <2> QED
    BY <2>6, <2>7
<1> QED
  BY <1>5, <1>6

LEMMA FlattenHas ==
  ASSUME NEW C, NEW ss, NEW n, Sequences(C, ss, n), Len(ss) = n,
         NEW k \in 1 .. n, NEW i \in 1 .. Len(ss[k])
  PROVE  Has(FlattenSeq(ss), ss[k][i])
<1> DEFINE flatten == CHOOSE flatten :
             flatten = [q \in 1 .. Len(ss) |-> IF q = 1 THEN ss[q] ELSE flatten[q - 1] \o ss[q]]
<1>0. n \in Nat \ {0} /\ \A q \in 1 .. n : ss[q] \in Seq(C)
  BY DEF Sequences
<1>1. \A x, y \in Seq(C) : x \o y \in Seq(C)
  BY ConcatProperties
<1>2. FlattenSeq(ss) = flatten[Len(ss)]
  BY <1>0 DEF FlattenSeq
<1>3. PICK F \in [1 .. n -> Seq(C)] : Joins(F, ss, n)
  BY <1>0, <1>1, JoinsExists DEF Closed
<1>4. F = [q \in 1 .. n |-> IF q = 1 THEN ss[q] ELSE F[q - 1] \o ss[q]]
  BY <1>3 DEF Joins
<1>5. flatten = [q \in 1 .. n |-> IF q = 1 THEN ss[q] ELSE flatten[q - 1] \o ss[q]]
  BY <1>4
<1> HIDE DEF flatten
<1>6. Joins(flatten, ss, n)
  BY <1>5 DEF Joins
<1>7. Has(flatten[n], ss[k][i])
  BY <1>6, JoinsHas
<1> QED
  BY <1>2, <1>7

-----------------------------------------------------------------------------
(* Calls, and which may be ahead of which.                                 *)

Calls ==
  [op : {"create"}, class : Classes, late : BOOLEAN]
    \cup [op : {"insert"}, entry : Entries, late : BOOLEAN]
    \cup [op : {"link"}, entry : Entries, class : Classes]
    \cup [op : {"offer", "connect"}, class : Classes]
    \cup [op : {"complete", "bind", "initstatics", "fill", "scopes"}, entry : Entries]
    \cup [op : {"bindat"}, index : Nat, moved : BOOLEAN]
    \cup [op : {"bindall", "ready"}]

OnEntry == {"insert", "link", "complete", "bind", "initstatics", "fill", "scopes"}
OnClass == {"create", "link", "offer", "connect"}

LEMMA CallIs ==
  ASSUME NEW x \in Calls
  PROVE  /\ x.op \in OnClass => x.class \in Classes
         /\ x.op \in OnEntry => x.entry \in Entries
         /\ x.op \in {"create", "insert"} => x.late \in BOOLEAN
         /\ x.op = "bindat" => x.index \in Nat
         /\ x.op = "bindat" => x.moved \in BOOLEAN
         /\ x.op \in OnEntry \cup OnClass \cup {"bindat", "bindall", "ready"}
  BY DEF Calls, OnEntry, OnClass

LEMMA CallsAre ==
  /\ \A c \in Classes : Offer(c) \in Calls /\ Connect(c) \in Calls
  /\ \A c \in Classes, l \in BOOLEAN : Create(c, l) \in Calls
  /\ \A e \in Entries, l \in BOOLEAN : Insert(e, l) \in Calls
  /\ \A e \in Entries, c \in Classes : Link(e, c) \in Calls
  /\ \A e \in Entries : /\ Complete(e) \in Calls /\ Bind(e) \in Calls /\ InitStatics(e) \in Calls
                        /\ Fill(e) \in Calls /\ Scopes(e) \in Calls
  /\ \A i \in Nat, m \in BOOLEAN : BindAt(i, m) \in Calls
  /\ BindAll \in Calls /\ Ready \in Calls
<1>1. \A c \in Classes : Offer(c) \in Calls /\ Connect(c) \in Calls
  BY DEF Calls, Offer, Connect
<1>2. \A c \in Classes, l \in BOOLEAN : Create(c, l) \in Calls
  BY DEF Calls, Create
<1>3. \A e \in Entries, l \in BOOLEAN : Insert(e, l) \in Calls
  BY DEF Calls, Insert
<1>4. \A e \in Entries, c \in Classes : Link(e, c) \in Calls
  BY DEF Calls, Link
<1>5. \A e \in Entries : /\ Complete(e) \in Calls /\ Bind(e) \in Calls /\ InitStatics(e) \in Calls
                         /\ Fill(e) \in Calls /\ Scopes(e) \in Calls
  BY DEF Calls, Complete, Bind, InitStatics, Fill, Scopes
<1>6. \A i \in Nat, m \in BOOLEAN : BindAt(i, m) \in Calls
  BY DEF Calls, BindAt
<1>7. BindAll \in Calls /\ Ready \in Calls
  BY DEF Calls, BindAll, Ready
<1> QED
  BY <1>1, <1>2, <1>3, <1>4, <1>5, <1>6, <1>7

\* What is copied on behalf of c.
Below(c) == Reached(Bases(c))

\* A call that is made on behalf of c, before it is inserted.
Under(x, c) ==
  /\ x.op \notin {"offer", "bindall", "bindat", "ready"}
  /\ x.op \in {"create", "connect"} => x.class \in Below(c)
  /\ x.op \in {"insert", "initstatics"} => ClassOf(x.entry) \in Below(c)

\* What is ahead of the insertion of a class is done on its behalf; and a class
\* that is inserted is not inserted again before its scopes are set.
Precedes(x, y) ==
  /\ y.op = "insert" => Under(x, ClassOf(y.entry))
  /\ y.op = "scopes" /\ x.op = "insert" => ClassOf(x.entry) # ClassOf(y.entry)

Order == {p \in Calls \X Calls : Precedes(p[1], p[2])}
Ordered(s, R) == \A i, j \in 1 .. Len(s) : i < j => <<s[i], s[j]>> \in R

\* A link, and the making of an object, come after the class they need.
Gives(x, c) ==
  \/ x.op = "create" /\ x.class = c
  \/ x.op = "insert" /\ ClassOf(x.entry) = c
Kept(s, known) ==
  \A j \in 1 .. Len(s) : s[j].op \in {"link", "connect"} =>
    s[j].class \in known \/ \E i \in 1 .. j - 1 : Gives(s[i], s[j].class)

LEMMA TailIs ==
  ASSUME NEW C, NEW s \in Seq(C), s # << >>
  PROVE  /\ Tail(s) \in Seq(C) /\ Len(s) \in Nat \ {0} /\ Len(Tail(s)) = Len(s) - 1
         /\ s[1] \in C /\ Head(s) = s[1]
         /\ \A k \in 1 .. Len(Tail(s)) : k + 1 \in 2 .. Len(s) /\ Tail(s)[k] = s[k + 1]
         /\ \A j \in 2 .. Len(s) : j - 1 \in 1 .. Len(Tail(s)) /\ Tail(s)[j - 1] = s[j]
<1>1. Len(s) \in Nat \ {0}
  BY EmptySeq
<1>2. Tail(s) \in Seq(C) /\ Len(Tail(s)) = Len(s) - 1 /\ Head(s) = s[1]
  BY HeadTailProperties
<1>3. \A k \in 1 .. Len(Tail(s)) : Tail(s)[k] = s[k + 1]
  BY HeadTailProperties
<1>4. \A k \in 1 .. Len(Tail(s)) : k + 1 \in 2 .. Len(s)
  BY <1>1, <1>2
<1>5. \A j \in 2 .. Len(s) : j - 1 \in 1 .. Len(Tail(s)) /\ (j - 1) + 1 = j
  BY <1>1, <1>2
<1>6. 1 \in 1 .. Len(s)
  BY <1>1
<1>7. s[1] \in C
  BY <1>6, ElementOfSeq
<1> QED
  BY <1>1, <1>2, <1>3, <1>4, <1>5, <1>7

\* s after the calls of a have taken the place of its first one.
Turns(C, s, a, r) ==
  /\ r \in Seq(C) /\ Len(a) \in Nat /\ Len(s) \in Nat \ {0} /\ Len(r) = Len(a) + Len(s) - 1
  /\ \A k \in 1 .. Len(a) : k \in 1 .. Len(r) /\ r[k] = a[k]
  /\ \A j \in 2 .. Len(s) : Len(a) + j - 1 \in 1 .. Len(r) /\ r[Len(a) + j - 1] = s[j]
  /\ \A k \in 1 .. Len(r) : \/ k \in 1 .. Len(a) /\ r[k] = a[k]
                            \/ k - Len(a) + 1 \in 2 .. Len(s) /\ r[k] = s[k - Len(a) + 1]

LEMMA TurnsIs ==
  ASSUME NEW C, NEW s \in Seq(C), s # << >>, NEW a \in Seq(C)
  PROVE  Turns(C, s, a, a \o Tail(s))
<1>1. PICK r : r = a \o Tail(s)
  OBVIOUS
<1>2. PICK t : t = Tail(s)
  OBVIOUS
<1>3. /\ t \in Seq(C) /\ Len(s) \in Nat \ {0} /\ Len(t) = Len(s) - 1
      /\ \A k \in 1 .. Len(t) : k + 1 \in 2 .. Len(s) /\ t[k] = s[k + 1]
      /\ \A j \in 2 .. Len(s) : j - 1 \in 1 .. Len(t) /\ t[j - 1] = s[j]
  BY <1>2, TailIs
<1>4. Concat(C, a, t, r)
  BY <1>1, <1>2, <1>3, ConcatIs
<1>5. r \in Seq(C) /\ Len(a) \in Nat /\ Len(r) = Len(a) + Len(s) - 1
  BY <1>3, <1>4 DEF Concat
<1>6. \A k \in 1 .. Len(a) : k \in 1 .. Len(r) /\ r[k] = a[k]
  BY <1>4 DEF Concat
<1>7. ASSUME NEW j \in 2 .. Len(s) PROVE Len(a) + j - 1 \in 1 .. Len(r) /\ r[Len(a) + j - 1] = s[j]
  <2>1. j - 1 \in 1 .. Len(t) /\ t[j - 1] = s[j] /\ Len(a) + (j - 1) = Len(a) + j - 1
    BY <1>3, <1>5
  <2> QED
    BY <1>4, <2>1 DEF Concat
<1>8. ASSUME NEW k \in 1 .. Len(r)
      PROVE  \/ k \in 1 .. Len(a) /\ r[k] = a[k]
             \/ k - Len(a) + 1 \in 2 .. Len(s) /\ r[k] = s[k - Len(a) + 1]
  BY <1>3, <1>4, <1>8 DEF Concat
<1>9. Turns(C, s, a, r)
  BY <1>3, <1>5, <1>6, <1>7, <1>8, Zenon DEF Turns
<1> QED
  BY <1>1, <1>9

LEMMA OrderedTurns ==
  ASSUME NEW C, NEW s, NEW a, NEW r, Turns(C, s, a, r), NEW R, Ordered(s, R), Ordered(a, R),
         \A i \in 1 .. Len(a), j \in 2 .. Len(s) : <<a[i], s[j]>> \in R
  PROVE  Ordered(r, R)
<1> SUFFICES ASSUME NEW i \in 1 .. Len(r), NEW j \in 1 .. Len(r), i < j
             PROVE  <<r[i], r[j]>> \in R
  BY DEF Ordered
<1>1. Len(a) \in Nat /\ Len(s) \in Nat
  BY DEF Turns
<1>2. /\ \/ i \in 1 .. Len(a) /\ r[i] = a[i]
         \/ i - Len(a) + 1 \in 2 .. Len(s) /\ r[i] = s[i - Len(a) + 1]
      /\ \/ j \in 1 .. Len(a) /\ r[j] = a[j]
         \/ j - Len(a) + 1 \in 2 .. Len(s) /\ r[j] = s[j - Len(a) + 1]
  BY DEF Turns
<1>3. CASE j \in 1 .. Len(a) /\ r[j] = a[j]
  <2>1. i \in 1 .. Len(a) /\ r[i] = a[i]
    BY <1>1, <1>2, <1>3
  <2> QED
    BY <1>3, <2>1 DEF Ordered
<1>4. CASE j - Len(a) + 1 \in 2 .. Len(s) /\ r[j] = s[j - Len(a) + 1]
  <2>1. CASE i \in 1 .. Len(a) /\ r[i] = a[i]
    BY <1>4, <2>1
  <2>2. CASE i - Len(a) + 1 \in 2 .. Len(s) /\ r[i] = s[i - Len(a) + 1]
    <3>1. /\ i - Len(a) + 1 < j - Len(a) + 1 /\ i - Len(a) + 1 \in 1 .. Len(s)
          /\ j - Len(a) + 1 \in 1 .. Len(s)
      BY <1>1, <1>4, <2>2
    <3> QED
      BY <1>4, <2>2, <3>1 DEF Ordered
  <2> QED
    BY <1>2, <2>1, <2>2
<1> QED
  BY <1>2, <1>3, <1>4

LEMMA KeptTurns ==
  ASSUME NEW C, NEW s, NEW a, NEW r, Turns(C, s, a, r), NEW known, NEW more,
         known \subseteq more, Kept(s, known), Kept(a, more),
         \A c : Gives(s[1], c) => c \in more \/ \E i \in 1 .. Len(a) : Gives(a[i], c)
  PROVE  Kept(r, more)
<1> SUFFICES ASSUME NEW j \in 1 .. Len(r), r[j].op \in {"link", "connect"}, r[j].class \notin more
             PROVE  \E i \in 1 .. j - 1 : Gives(r[i], r[j].class)
  BY DEF Kept
<1>1. Len(a) \in Nat /\ Len(s) \in Nat
  BY DEF Turns
<1>2. \/ j \in 1 .. Len(a) /\ r[j] = a[j]
      \/ j - Len(a) + 1 \in 2 .. Len(s) /\ r[j] = s[j - Len(a) + 1]
  BY DEF Turns
<1>3. CASE j \in 1 .. Len(a) /\ r[j] = a[j]
  <2>1. PICK i \in 1 .. j - 1 : Gives(a[i], r[j].class)
    BY <1>3 DEF Kept
  <2>2. i \in 1 .. Len(a)
    BY <1>1, <1>3
  <2>3. r[i] = a[i]
    BY <2>2 DEF Turns
  <2> QED
    BY <2>1, <2>3
<1>4. CASE j - Len(a) + 1 \in 2 .. Len(s) /\ r[j] = s[j - Len(a) + 1]
  <2>1. j - Len(a) + 1 \in 1 .. Len(s)
    BY <1>1, <1>4
  <2>2. PICK i \in 1 .. (j - Len(a) + 1) - 1 : Gives(s[i], r[j].class)
    BY <1>4, <2>1 DEF Kept
  <2>3. CASE i = 1
    <3>1. PICK k \in 1 .. Len(a) : Gives(a[k], r[j].class)
      BY <2>2, <2>3
    <3>2. k \in 1 .. j - 1
      BY <1>1, <1>4
    <3>3. r[k] = a[k]
      BY DEF Turns
    <3> QED
      BY <3>1, <3>2, <3>3
  <2>4. CASE i # 1
    <3>1. i \in 2 .. Len(s) /\ Len(a) + i - 1 \in 1 .. j - 1
      BY <1>1, <1>4, <2>2, <2>4
    <3>2. r[Len(a) + i - 1] = s[i]
      BY <3>1 DEF Turns
    <3> QED
      BY <2>2, <3>1, <3>2
  <2> QED
    BY <2>3, <2>4
<1> QED
  BY <1>2, <1>3, <1>4

-----------------------------------------------------------------------------
(* Classes and what they lead to.                                          *)

LEMMA ProgramIs ==
  ASSUME prog \in Programs, NEW c \in Classes
  PROVE  /\ prog.parent[c] \in Classes \cup {None} /\ prog.held[c] \in Classes \cup {None}
         /\ prog.interfaces[c] \in Seq(Classes) /\ prog.types[c] \in Seq(Classes)
         /\ prog.anonymous \cap prog.immutable = {} /\ prog.thread \in Classes
         /\ prog.order \in Seq(Classes) /\ prog.late \in 0 .. Len(prog.order)
  BY ProgramsAssumption DEF IsProgram

LEMMA RangeIs ==
  ASSUME NEW C, NEW s \in Seq(C)
  PROVE  /\ Range(s) \subseteq C
         /\ \A i \in 1 .. Len(s) : s[i] \in Range(s)
         /\ \A x \in Range(s) : \E i \in 1 .. Len(s) : s[i] = x
<1>1. DOMAIN s = 1 .. Len(s) /\ \A i \in 1 .. Len(s) : s[i] \in C
  BY LenProperties, ElementOfSeq
<1> QED
  BY <1>1 DEF Range

LEMMA LeadsAre ==
  ASSUME prog \in Programs, NEW c \in Classes
  PROVE  /\ Bases(c) \subseteq Leads(c) /\ Leads(c) \subseteq Classes
         /\ c \in prog.statics \cap prog.used /\ prog.held[c] # None => prog.held[c] \in Leads(c)
         /\ c \in prog.immutable => Range(prog.types[c]) \subseteq Leads(c)
<1>1. /\ prog.parent[c] \in Classes \cup {None} /\ prog.held[c] \in Classes \cup {None}
      /\ prog.interfaces[c] \in Seq(Classes) /\ prog.types[c] \in Seq(Classes)
  BY ProgramIs
<1>2. Range(prog.interfaces[c]) \subseteq Classes /\ Range(prog.types[c]) \subseteq Classes
  BY <1>1, RangeIs
<1> QED
  BY <1>1, <1>2 DEF Bases, Leads

LEMMA ReachedIs ==
  ASSUME prog \in Programs, NEW S \in SUBSET Classes
  PROVE  /\ S \subseteq Reached(S) /\ Reached(S) \subseteq Classes
         /\ \A c \in Reached(S) : Leads(c) \subseteq Reached(S)
<1>1. \A c \in Classes : Leads(c) \subseteq Classes
  BY LeadsAre
<1> QED
  BY <1>1 DEF Reached

LEMMA BelowIs ==
  ASSUME prog \in Programs, NEW c \in Classes
  PROVE  /\ Bases(c) \subseteq Below(c) /\ Below(c) \subseteq Classes
         /\ \A d \in Below(c) : Bases(d) \subseteq Below(c) /\ Leads(d) \subseteq Below(c)
         /\ c \in Below(c) /\ c \notin prog.immutable => HoldsDescendant
<1>1. Bases(c) \subseteq Classes
  BY LeadsAre
<1>2. /\ Bases(c) \subseteq Below(c) /\ Below(c) \subseteq Classes
      /\ \A d \in Below(c) : Leads(d) \subseteq Below(c)
  BY <1>1, ReachedIs DEF Below
<1>3. \A d \in Below(c) : Bases(d) \subseteq Below(c)
  BY <1>2, LeadsAre
<1> QED
  BY <1>2, <1>3 DEF HoldsDescendant, Below

LEMMA EntriesAre ==
  /\ \A e \in Entries : ClassOf(e) \in Classes /\ e[2] \in 0 .. MaxCopies /\ e = <<ClassOf(e), e[2]>>
  /\ \A c \in Classes, n \in 0 .. MaxCopies : <<c, n>> \in Entries /\ ClassOf(<<c, n>>) = c
  /\ NoEntry \notin Entries /\ Foreign \notin Entries /\ Wild \notin Entries
  /\ NoEntry # Foreign
<1>1. None \notin Classes /\ "foreign" \notin Classes /\ "wild" \notin Classes /\ None # "foreign"
  BY NamesAssumption DEF None
<1> QED
  BY <1>1 DEF Entries, ClassOf, NoEntry, Foreign, Wild, None

LEMMA OneIs ==
  ASSUME NEW C, NEW x \in C
  PROVE  <<x>> \in Seq(C) /\ Len(<<x>>) = 1 /\ <<x>>[1] = x
  OBVIOUS

LEMMA FunctionIsSeq ==
  ASSUME NEW C, NEW n \in Nat, NEW f \in [1 .. n -> C]
  PROVE  f \in Seq(C) /\ Len(f) = n
  OBVIOUS

LEMMA EmptyIs ==
  ASSUME NEW C
  PROVE  << >> \in Seq(C) /\ Len(<< >>) = 0 /\ \A i : i \notin 1 .. Len(<< >>)
  OBVIOUS

LEMMA SupersAre ==
  ASSUME prog \in Programs, NEW c \in Classes
  PROVE  /\ Supers(c) \in Seq(Classes)
         /\ Range(Supers(c)) = IF c \in linked THEN Bases(c) ELSE {}
<1>1. prog.parent[c] \in Classes \cup {None} /\ prog.interfaces[c] \in Seq(Classes)
  BY ProgramIs
<1>2. CASE c \notin linked
  <2>1. Supers(c) = << >>
    BY <1>2 DEF Supers
  <2> QED
    BY <1>2, <2>1 DEF Range
<1>3. CASE c \in linked
  <2>1. PICK a : a = (IF prog.parent[c] = None THEN <<>> ELSE <<prog.parent[c]>>)
    OBVIOUS
  <2>2. a \in Seq(Classes) /\ Range(a) = {prog.parent[c]} \ {None}
    <3>1. CASE prog.parent[c] = None
      BY <2>1, <3>1 DEF Range
    <3>2. CASE prog.parent[c] # None
      BY <1>1, <2>1, <3>2 DEF Range
    <3> QED
      BY <3>1, <3>2
  <2>3. PICK b \in Seq(Classes) : b = prog.interfaces[c]
    BY <1>1
  <2>4. Supers(c) = a \o b
    BY <1>3, <2>1, <2>3 DEF Supers
  <2>5. Concat(Classes, a, b, a \o b)
    BY <2>2, ConcatIs
  <2>6. Range(a \o b) = Range(a) \cup Range(b)
    <3>1. a \o b \in Seq(Classes)
      BY <2>5 DEF Concat
    <3>2. ASSUME NEW x \in Range(a \o b) PROVE x \in Range(a) \cup Range(b)
      <4>1. PICK k \in 1 .. Len(a \o b) : (a \o b)[k] = x
        BY <3>1, <3>2, RangeIs
      <4>2. (k \in 1 .. Len(a) /\ x = a[k]) \/ (k - Len(a) \in 1 .. Len(b) /\ x = b[k - Len(a)])
        BY <2>5, <4>1 DEF Concat
      <4> QED
        BY <2>2, <4>2, RangeIs
    <3>3. ASSUME NEW x \in Range(a) PROVE x \in Range(a \o b)
      <4>1. PICK k \in 1 .. Len(a) : a[k] = x
        BY <2>2, <3>3, RangeIs
      <4>2. k \in 1 .. Len(a \o b) /\ (a \o b)[k] = x
        BY <2>5, <4>1 DEF Concat
      <4> QED
        BY <3>1, <4>2, RangeIs
    <3>4. ASSUME NEW x \in Range(b) PROVE x \in Range(a \o b)
      <4>1. PICK k \in 1 .. Len(b) : b[k] = x
        BY <3>4, RangeIs
      <4>2. Len(a) + k \in 1 .. Len(a \o b) /\ (a \o b)[Len(a) + k] = x
        BY <2>5, <4>1 DEF Concat
      <4> QED
        BY <3>1, <4>2, RangeIs
    <3> QED
      BY <3>2, <3>3, <3>4
  <2> QED
    BY <1>3, <2>2, <2>3, <2>4, <2>5, <2>6 DEF Bases, Concat
<1> QED
  BY <1>2, <1>3

LEMMA FlattenIn ==
  ASSUME NEW C, NEW n \in Nat, NEW ss \in Seq(Seq(C)), Len(ss) = n
  PROVE  FlattenSeq(ss) \in Seq(C)
<1>1. CASE n = 0
  <2>1. ss = << >>
    BY <1>1, EmptySeq
  <2>2. FlattenSeq(ss) = ss
    BY <1>1 DEF FlattenSeq
  <2> QED
    BY <2>1, <2>2, EmptyIs
<1>2. CASE n # 0
  <2>1. \A i \in 1 .. n : ss[i] \in Seq(C)
    BY ElementOfSeq
  <2>2. Closed(Seq(C), ss, n)
    BY <1>2, <2>1, ConcatProperties DEF Closed
  <2> QED
    BY <2>2, FlattenWithin
<1> QED
  BY <1>1, <1>2

LEMMA DependenciesAre ==
  ASSUME prog \in Programs, NEW c \in prog.immutable \cap Classes
  PROVE  Dependencies(c) \in Seq(Leads(c))
<1>1. prog.types[c] \in Seq(Classes)
  BY ProgramIs
<1>2. PICK n \in Nat : n = Len(prog.types[c])
  BY <1>1, LenProperties
<1>3. \A i \in 1 .. n : prog.types[c][i] \in Leads(c)
  BY <1>1, <1>2, RangeIs, LeadsAre
<1>4. PICK ss : ss = [i \in 1 .. n |-> IF prog.types[c][i] \in Range(source)
                                      THEN <<prog.types[c][i]>> ELSE <<>>]
  OBVIOUS
<1>5. \A i \in 1 .. n : ss[i] \in Seq(Leads(c))
  BY <1>3, <1>4
<1>6. ss \in Seq(Seq(Leads(c))) /\ Len(ss) = n
  <2>1. PICK D : D = Seq(Leads(c))
    OBVIOUS
  <2>2. ss \in [1 .. n -> D] /\ ss \in Seq(D) /\ Len(ss) = n
    BY <1>4, <1>5, <2>1, FunctionIsSeq
  <2> QED
    BY <2>1, <2>2
<1>7. Types(c) = FlattenSeq(ss)
  BY <1>2, <1>4 DEF Types
<1>8. Types(c) \in Seq(Leads(c))
  BY <1>6, <1>7, FlattenIn
<1>9. Supers(c) \in Seq(Leads(c))
  <2>1. Supers(c) \in Seq(Classes) /\ Range(Supers(c)) \subseteq Leads(c)
    BY SupersAre, LeadsAre
  <2>2. \A i \in 1 .. Len(Supers(c)) : Supers(c)[i] \in Leads(c)
    BY <2>1, RangeIs
  <2> QED
    BY <2>1, <2>2, LenProperties
<1> QED
  BY <1>8, <1>9, ConcatProperties DEF Dependencies

LEMMA KeptConcat ==
  ASSUME NEW C, NEW a, NEW b, NEW c, Concat(C, a, b, c), NEW known, Kept(a, known), Kept(b, known)
  PROVE  Kept(c, known)
<1> SUFFICES ASSUME NEW j \in 1 .. Len(c), c[j].op \in {"link", "connect"}, c[j].class \notin known
             PROVE  \E i \in 1 .. j - 1 : Gives(c[i], c[j].class)
  BY DEF Kept
<1>1. Len(a) \in Nat /\ Len(b) \in Nat
  BY DEF Concat
<1>2. \/ j \in 1 .. Len(a) /\ c[j] = a[j]
      \/ j - Len(a) \in 1 .. Len(b) /\ c[j] = b[j - Len(a)]
  BY DEF Concat
<1>3. CASE j \in 1 .. Len(a) /\ c[j] = a[j]
  <2>1. PICK i \in 1 .. j - 1 : Gives(a[i], c[j].class)
    BY <1>3 DEF Kept
  <2>2. i \in 1 .. Len(a)
    BY <1>1, <1>3
  <2>3. c[i] = a[i]
    BY <2>2 DEF Concat
  <2> QED
    BY <2>1, <2>3
<1>4. CASE j - Len(a) \in 1 .. Len(b) /\ c[j] = b[j - Len(a)]
  <2>1. PICK i \in 1 .. (j - Len(a)) - 1 : Gives(b[i], c[j].class)
    BY <1>4 DEF Kept
  <2>2. i \in 1 .. Len(b) /\ Len(a) + i \in 1 .. j - 1
    BY <1>1, <1>4
  <2>3. c[Len(a) + i] = b[i]
    BY <2>2 DEF Concat
  <2> QED
    BY <2>1, <2>2, <2>3
<1> QED
  BY <1>2, <1>3, <1>4

\* The calls that give e its parent and interfaces, those of D.
Links(e, D, s) ==
  /\ s \in Seq(Calls) /\ Kept(s, {})
  /\ \A i \in 1 .. Len(s) : \E d \in D : s[i] = Create(d, TRUE) \/ s[i] = Link(e, d)
  /\ \A d \in D : Has(s, Link(e, d))

LEMMA SeqWithin ==
  ASSUME NEW A, NEW B, NEW s \in Seq(A), \A i \in 1 .. Len(s) : s[i] \in B
  PROVE  s \in Seq(B)
<1>1. Len(s) \in Nat /\ s \in [1 .. Len(s) -> A]
  BY LenProperties
<1>2. s \in [1 .. Len(s) -> B]
  BY <1>1
<1> QED
  BY <1>1, <1>2

LEMMA TwoIs ==
  ASSUME NEW C, NEW x \in C, NEW y \in C
  PROVE  /\ <<x, y>> \in Seq(C) /\ Len(<<x, y>>) = 2 /\ <<x, y>>[1] = x /\ <<x, y>>[2] = y
         /\ \A i \in 1 .. Len(<<x, y>>) : i = 1 \/ i = 2
  OBVIOUS

LEMMA LinkSupersIs ==
  ASSUME prog \in Programs, NEW e \in Entries
  PROVE  Links(e, Range(Supers(ClassOf(e))), LinkSupers(e))
<1>0. ClassOf(e) \in Classes
  BY EntriesAre
<1>1. PICK s \in Seq(Classes) : s = Supers(ClassOf(e))
  BY <1>0, SupersAre
<1>2. PICK n \in Nat : n = Len(s)
  BY LenProperties
<1>3. PICK D : D = Range(s)
  OBVIOUS
<1>4. D \subseteq Classes /\ \A i \in 1 .. n : s[i] \in D /\ s[i] \in Classes
  BY <1>2, <1>3, RangeIs
<1>5. \A d \in D : \E i \in 1 .. n : s[i] = d
  BY <1>2, <1>3, RangeIs
<1>6. PICK ss : ss = [i \in 1 .. n |-> <<Create(s[i], TRUE), Link(e, s[i])>>]
  OBVIOUS
<1>7. LinkSupers(e) = FlattenSeq(ss)
  BY <1>1, <1>2, <1>6 DEF LinkSupers
<1>8. PICK LC : LC = {x \in Calls : \E d \in D : x = Create(d, TRUE) \/ x = Link(e, d)}
  OBVIOUS
<1>9. \A d \in D : Create(d, TRUE) \in LC /\ Link(e, d) \in LC
  BY <1>4, <1>8, CallsAre
<1>10. ASSUME NEW i \in 1 .. n PROVE ss[i] \in Seq(LC) /\ Kept(ss[i], {}) /\ Len(ss[i]) = 2 /\ ss[i][2] = Link(e, s[i])
  <2>1. PICK x \in LC : x = Create(s[i], TRUE)
    BY <1>4, <1>9
  <2>2. PICK y \in LC : y = Link(e, s[i])
    BY <1>4, <1>9
  <2>3. ss[i] = <<x, y>>
    BY <1>6, <2>1, <2>2
  <2>4. x.op = "create" /\ x.class = s[i] /\ y.op = "link" /\ y.class = s[i]
    BY <2>1, <2>2 DEF Create, Link
  <2>5. ss[i] \in Seq(LC) /\ Len(ss[i]) = 2 /\ ss[i][1] = x /\ ss[i][2] = y
    BY <2>3, TwoIs
  <2>6. ASSUME NEW j \in 1 .. Len(ss[i]), ss[i][j].op \in {"link", "connect"}
        PROVE  \E k \in 1 .. j - 1 : Gives(ss[i][k], ss[i][j].class)
    <3>1. j = 2 /\ 1 \in 1 .. j - 1
      BY <2>4, <2>5, <2>6
    <3>2. Gives(x, s[i])
      BY <2>4 DEF Gives
    <3> QED
      BY <2>4, <2>5, <3>1, <3>2
  <2> QED
    BY <2>2, <2>5, <2>6 DEF Kept
<1>11. CASE n = 0
  <2>1. D = {} /\ LinkSupers(e) = << >>
    BY <1>5, <1>6, <1>7, <1>11 DEF FlattenSeq
  <2>2. Links(e, D, << >>)
    BY <2>1, EmptyIs DEF Links, Kept
  <2> QED
    BY <1>1, <1>3, <2>1, <2>2
<1>12. CASE n # 0
  <2>1. Len(ss) = n
    BY <1>6
  <2>2. PICK KC : KC = {q \in Seq(LC) : Kept(q, {})}
    OBVIOUS
  <2>3. \A x, y \in KC : x \o y \in KC
    <3> SUFFICES ASSUME NEW x \in KC, NEW y \in KC PROVE x \o y \in KC
      OBVIOUS
    <3>1. Concat(LC, x, y, x \o y)
      BY <2>2, ConcatIs
    <3>2. Kept(x \o y, {})
      BY <2>2, <3>1, KeptConcat
    <3> QED
      BY <2>2, <3>1, <3>2 DEF Concat
  <2>4. Closed(KC, ss, n)
    BY <1>10, <1>12, <2>2, <2>3 DEF Closed
  <2>5. LinkSupers(e) \in Seq(LC) /\ Kept(LinkSupers(e), {})
    BY <1>7, <2>1, <2>2, <2>4, FlattenWithin
  <2>6. ASSUME NEW d \in D PROVE Has(LinkSupers(e), Link(e, d))
    <3>1. PICK i \in 1 .. n : s[i] = d
      BY <1>5
    <3>2. Sequences(LC, ss, n)
      BY <1>10, <1>12 DEF Sequences
    <3>3. 2 \in 1 .. Len(ss[i]) /\ ss[i][2] = Link(e, d)
      BY <1>10, <3>1
    <3> QED
      BY <1>7, <2>1, <3>2, <3>3, FlattenHas
  <2>7. PICK q \in Seq(LC) : q = LinkSupers(e)
    BY <2>5
  <2>8. \A i \in 1 .. Len(q) : q[i] \in LC
    BY ElementOfSeq
  <2>9. q \in Seq(Calls)
    BY <1>8, <2>8, SeqWithin
  <2>10. Links(e, D, q)
    BY <1>8, <2>5, <2>6, <2>7, <2>8, <2>9 DEF Links
  <2> QED
    BY <1>1, <1>3, <2>7, <2>10
<1> QED
  BY <1>11, <1>12

LEMMA SameProgram ==
  ASSUME prog' = prog
  PROVE  /\ \A c \in Classes : Bases(c)' = Bases(c) /\ Below(c)' = Below(c)
         /\ HoldsDescendant' = HoldsDescendant /\ Order' = Order
<1>1. \A c : Bases(c)' = Bases(c) /\ Leads(c)' = Leads(c)
  BY DEF Bases, Leads
<1>2. \A S : Reached(S)' = Reached(S)
  <2> SUFFICES ASSUME NEW S PROVE Reached(S)' = Reached(S)
    OBVIOUS
  <2>1. \A d : d \in Reached(S)' <=> d \in Reached(S)
    BY <1>1 DEF Reached
  <2> QED
    BY <2>1
<1>3. \A c : Below(c)' = Below(c)
  BY <1>1, <1>2 DEF Below
<1>4. HoldsDescendant' = HoldsDescendant
  BY <1>1, <1>2 DEF HoldsDescendant
<1>5. Order' = Order
  <2>1. \A x, y : Precedes(x, y)' <=> Precedes(x, y)
    BY <1>3 DEF Precedes, Under
  <2>2. \A p : p \in Order' <=> p \in Order
    BY <2>1 DEF Order
  <2> QED
    BY <2>2
<1> QED
  BY <1>1, <1>3, <1>4, <1>5

-----------------------------------------------------------------------------
(* The invariant.                                                          *)

Known == {c \in Classes : entry[c] # NoEntry}

CallsInv == todo \in Seq(Calls) /\ Ordered(todo, Order) /\ Kept(todo, Known)

\* What is known of a class when a call about it is still to be made.
Apt(x) ==
  /\ x.op = "insert" => /\ ClassOf(x.entry) \notin prog.immutable /\ ~IsShared(x.entry)
                        /\ x.entry[2] <= copies[ClassOf(x.entry)]
                        /\ entry[ClassOf(x.entry)] = NoEntry \/ HoldsDescendant
  /\ x.op = "scopes" => entry[ClassOf(x.entry)] = x.entry
  /\ x.op = "complete" => ClassOf(x.entry) \in prog.anonymous
  /\ x.op = "link" => ent[x.entry].linked /\ x.class \in Bases(ClassOf(x.entry))
  /\ x.op = "bindat" => x.index \in 1 .. Len(table)

AptInv == \A x \in Calls : Has(todo, x) => Apt(x)

EntryInv ==
  \A c \in Classes : entry[c] # NoEntry =>
    /\ ClassOf(entry[c]) = c /\ (IsShared(entry[c]) <=> c \in prog.immutable)
    /\ entry[c][2] <= copies[c]

IsEnt(r) ==
  r = [linked |-> r.linked, supers |-> r.supers, table |-> r.table, slots |-> r.slots,
       value |-> r.value, cells |-> r.cells]

\* A copy has a parent and interfaces once it is linked, as its original is.
EntInv ==
  /\ ent = [e \in Entries |-> ent[e]]
  /\ \A e \in Entries :
       /\ IsEnt(ent[e]) /\ ent[e].linked \in BOOLEAN
       /\ ent[e].linked => ClassOf(e) \in linked /\ e[2] <= copies[ClassOf(e)]
       /\ ~ent[e].linked => ent[e].supers = {}

\* They are the entries in the class table, or still to be linked.
SupersInv ==
  \/ HoldsDescendant
  \/ \A e \in Entries : ent[e].linked =>
       /\ ent[e].supers \subseteq {entry[d] : d \in Bases(ClassOf(e))}
       /\ \A d \in Bases(ClassOf(e)) : entry[d] \in ent[e].supers \/ Has(todo, Link(e, d))

ScopeInv ==
  \A c \in Copied : scope[c] = entry[c] \/ Has(todo, Scopes(entry[c]))

TraitInv ==
  \A c \in Copied : \/ traited[c] \in {NoEntry, entry[c]}
                    \/ c \in prog.anonymous \/ Has(todo, Scopes(entry[c]))

InstInv ==
  HoldsDescendant \/ \A o \in objects : o.entry = entry[ClassOf(o.entry)]

Inv ==
  /\ prog \in Programs /\ TypeOK /\ CallsInv /\ AptInv /\ EntryInv /\ EntInv
  /\ SupersInv /\ ScopeInv /\ TraitInv /\ InstInv

LEMMA HasTurns ==
  ASSUME NEW C, NEW s, NEW a, NEW r, Turns(C, s, a, r), NEW x
  PROVE  /\ Has(s, x) /\ x # s[1] => Has(r, x)
         /\ Has(a, x) => Has(r, x)
<1>1. ASSUME Has(s, x), x # s[1] PROVE Has(r, x)
  <2>1. PICK j \in 1 .. Len(s) : s[j] = x
    BY <1>1 DEF Has
  <2>2. j \in 2 .. Len(s)
    BY <1>1, <2>1 DEF Turns
  <2>3. Len(a) + j - 1 \in 1 .. Len(r) /\ r[Len(a) + j - 1] = x
    BY <2>1, <2>2 DEF Turns
  <2> QED
    BY <2>3 DEF Has
<1>2. ASSUME Has(a, x) PROVE Has(r, x)
  BY <1>2 DEF Has, Turns
<1> QED
  BY <1>1, <1>2

\* The calls of a may take the place of the first one.
Fits(a) ==
  /\ a \in Seq(Calls) /\ Ordered(a, Order)
  /\ \A i \in 1 .. Len(a), j \in 2 .. Len(todo) : <<a[i], todo[j]>> \in Order
Given(a, more) ==
  /\ Known \subseteq more /\ Kept(a, more)
  /\ \A c : Gives(todo[1], c) => c \in more \/ \E i \in 1 .. Len(a) : Gives(a[i], c)

LEMMA CallsStep ==
  ASSUME CallsInv, AptInv, prog' = prog, todo # << >>, NEW a, Fits(a), Given(a, Known'),
         todo' = a \o Tail(todo),
         \A x \in Calls : Has(a, x) \/ (Has(Tail(todo), x) /\ Apt(x)) => Apt(x)'
  PROVE  CallsInv' /\ AptInv' /\ Turns(Calls, todo, a, todo')
<1>1. todo \in Seq(Calls) /\ a \in Seq(Calls)
  BY DEF CallsInv, Fits
<1>2. Turns(Calls, todo, a, a \o Tail(todo))
  BY <1>1, TurnsIs
<1>3. Turns(Calls, todo, a, todo')
  BY <1>2
<1>4. Ordered(todo', Order)
  BY <1>3, OrderedTurns DEF CallsInv, Fits
<1>5. Kept(todo', Known')
  BY <1>3, KeptTurns DEF CallsInv, Given
<1>6. CallsInv'
  <2>1. Order' = Order /\ todo' \in Seq(Calls)
    BY <1>3, SameProgram DEF Turns
  <2> QED
    BY <1>4, <1>5, <2>1 DEF CallsInv, Kept, Ordered
<1>7. AptInv'
  <2> SUFFICES ASSUME NEW x \in Calls, Has(todo', x) PROVE Apt(x)'
    BY DEF AptInv, Has
  <2>0. PICK k \in 1 .. Len(todo') : todo'[k] = x
    BY DEF Has
  <2>1. \/ k \in 1 .. Len(a) /\ todo'[k] = a[k]
        \/ k - Len(a) + 1 \in 2 .. Len(todo) /\ todo'[k] = todo[k - Len(a) + 1]
    BY <1>3 DEF Turns
  <2>2. CASE k \in 1 .. Len(a) /\ todo'[k] = a[k]
    <3>1. Has(a, x)
      BY <2>0, <2>2 DEF Has
    <3> QED
      BY <3>1
  <2>3. CASE k - Len(a) + 1 \in 2 .. Len(todo) /\ todo'[k] = todo[k - Len(a) + 1]
    <3>1. PICK i \in 2 .. Len(todo) : x = todo[i]
      BY <2>0, <2>3
    <3>2. i \in 1 .. Len(todo) /\ i - 1 \in 1 .. Len(Tail(todo)) /\ Tail(todo)[i - 1] = x
      BY <1>1, <3>1, TailIs
    <3>3. Has(todo, x) /\ Has(Tail(todo), x)
      BY <3>1, <3>2 DEF Has
    <3> QED
      BY <3>3 DEF AptInv
  <2> QED
    BY <2>1, <2>2, <2>3
<1> QED
  BY <1>3, <1>6, <1>7

\* What no step takes back.
Grows ==
  /\ prog' = prog /\ (running => running')
  /\ Len(table) \in Nat /\ Len(table') \in Nat /\ Len(table) <= Len(table')
  /\ \A c \in Classes : copies[c] \in Nat /\ copies'[c] \in Nat /\ copies[c] <= copies'[c]
  /\ \A e \in Entries : ent[e].linked => ent'[e].linked

LEMMA AptStays ==
  ASSUME Grows, NEW x \in Calls, Apt(x),
         x.op \in {"insert", "scopes"} =>
           \/ entry'[ClassOf(x.entry)] = entry[ClassOf(x.entry)]
           \/ x.op = "insert" /\ HoldsDescendant
  PROVE  Apt(x)'
<1>1. /\ x.op \in OnEntry => /\ x.entry \in Entries /\ ClassOf(x.entry) \in Classes
                             /\ x.entry[2] \in Nat
  <2>1. x.op \in OnEntry => x.entry \in Entries
    BY CallIs
  <2> QED
    BY <2>1, EntriesAre, BoundsAssumption
<1>2. HoldsDescendant' = HoldsDescendant /\ \A c \in Classes : Bases(c)' = Bases(c)
  BY SameProgram DEF Grows
<1>3. ASSUME x.op = "insert"
      PROVE  /\ ClassOf(x.entry) \notin prog'.immutable /\ ~IsShared(x.entry)
             /\ x.entry[2] <= copies'[ClassOf(x.entry)]
             /\ entry'[ClassOf(x.entry)] = NoEntry \/ HoldsDescendant'
  <2>1. ClassOf(x.entry) \in Classes /\ x.entry[2] \in Nat
    BY <1>1, <1>3 DEF OnEntry
  <2>2. x.entry[2] <= copies'[ClassOf(x.entry)]
    BY <1>3, <2>1 DEF Grows, Apt
  <2> QED
    BY <1>2, <1>3, <2>2 DEF Grows, Apt
<1>4. x.op = "scopes" => entry'[ClassOf(x.entry)] = x.entry
  BY DEF Apt
<1>5. x.op = "link" => ent'[x.entry].linked /\ x.class \in Bases(ClassOf(x.entry))'
  BY <1>1, <1>2 DEF Grows, Apt, OnEntry
<1>6. x.op = "bindat" => x.index \in 1 .. Len(table')
  BY DEF Grows, Apt
<1>7. x.op = "complete" => ClassOf(x.entry) \in prog'.anonymous
  BY DEF Grows, Apt
<1> QED
  BY <1>3, <1>4, <1>5, <1>6, <1>7 DEF Apt

\* q is r with other static members.
Keeps(r, q) == IsEnt(q) /\ q.linked = r.linked /\ q.supers = r.supers

\* The records that steps make of an entry's.
Rebound(r, v, w) == [r EXCEPT !.table = v, !.slots = w]
Filled(r, v, w) == [r EXCEPT !.value = v, !.cells = w]
Valued(r, v) == [r EXCEPT !.value = v]
Linking(r, v) == [r EXCEPT !.linked = v]
Deriving(r, v) == [r EXCEPT !.supers = v]

LEMMA EntBound ==
  ASSUME NEW r, IsEnt(r), NEW v, NEW w, NEW q, q = Rebound(r, v, w)
  PROVE  Keeps(r, q) /\ q.value = r.value /\ q.table = v
<1>1. PICK a, b, c, d, e, f :
        r = [linked |-> a, supers |-> b, table |-> c, slots |-> d, value |-> e, cells |-> f]
  BY DEF IsEnt
<1> QED
  BY <1>1 DEF Rebound, IsEnt, Keeps

LEMMA EntFilled ==
  ASSUME NEW r, IsEnt(r), NEW v, NEW w, NEW q, q = Filled(r, v, w)
  PROVE  Keeps(r, q) /\ q.value = v /\ q.table = r.table
<1>1. PICK a, b, c, d, e, f :
        r = [linked |-> a, supers |-> b, table |-> c, slots |-> d, value |-> e, cells |-> f]
  BY DEF IsEnt
<1> QED
  BY <1>1 DEF Filled, IsEnt, Keeps

LEMMA EntUnset ==
  ASSUME NEW r, IsEnt(r), NEW v, NEW q, q = Valued(r, v)
  PROVE  Keeps(r, q) /\ q.value = v /\ q.table = r.table
<1>1. PICK a, b, c, d, e, f :
        r = [linked |-> a, supers |-> b, table |-> c, slots |-> d, value |-> e, cells |-> f]
  BY DEF IsEnt
<1> QED
  BY <1>1 DEF Valued, IsEnt, Keeps

LEMMA EntLinked ==
  ASSUME NEW r, IsEnt(r), NEW v, NEW q, q = Linking(r, v)
  PROVE  IsEnt(q) /\ q.linked = v /\ q.supers = r.supers /\ q.value = r.value /\ q.table = r.table
<1>1. PICK a, b, c, d, e, f :
        r = [linked |-> a, supers |-> b, table |-> c, slots |-> d, value |-> e, cells |-> f]
  BY DEF IsEnt
<1> QED
  BY <1>1 DEF Linking, IsEnt, Keeps

LEMMA EntSupers ==
  ASSUME NEW r, IsEnt(r), NEW v, NEW q, q = Deriving(r, v)
  PROVE  IsEnt(q) /\ q.linked = r.linked /\ q.supers = v /\ q.value = r.value /\ q.table = r.table
<1>1. PICK a, b, c, d, e, f :
        r = [linked |-> a, supers |-> b, table |-> c, slots |-> d, value |-> e, cells |-> f]
  BY DEF IsEnt
<1> QED
  BY <1>1 DEF Deriving, IsEnt, Keeps

-----------------------------------------------------------------------------
(* The initial states.                                                     *)

LEMMA OrderedWithin ==
  ASSUME NEW s \in Seq(Calls), \A i \in 1 .. Len(s) : s[i].op \notin {"insert", "scopes"}
  PROVE  Ordered(s, Order)
<1> SUFFICES ASSUME NEW i \in 1 .. Len(s), NEW j \in 1 .. Len(s) PROVE <<s[i], s[j]>> \in Order
  BY DEF Ordered
<1>1. s[i] \in Calls /\ s[j] \in Calls
  BY ElementOfSeq
<1>2. Precedes(s[i], s[j])
  BY DEF Precedes
<1> QED
  BY <1>1, <1>2 DEF Order

LEMMA StartupIs ==
  ASSUME NEW p \in Programs
  PROVE  /\ Startup(p) \in Seq(Calls)
         /\ \A i \in 1 .. Len(Startup(p)) : Startup(p)[i].op \in {"offer", "create", "bindall", "ready"}
<1> DEFINE C == {x \in Calls : x.op \in {"offer", "create", "bindall", "ready"}}
<1>1. p.order \in Seq(Classes) /\ p.late \in 0 .. Len(p.order) /\ p.thread \in Classes
  BY ProgramsAssumption DEF IsProgram
<1>2. \A c \in Classes : Offer(c) \in C /\ Create(c, FALSE) \in C
  <2>1. \A c \in Classes : Offer(c).op = "offer" /\ Create(c, FALSE).op = "create"
    BY DEF Offer, Create
  <2> QED
    BY <2>1, CallsAre
<1>3. BindAll \in C /\ Ready \in C
  <2>1. BindAll.op = "bindall" /\ Ready.op = "ready"
    BY DEF BindAll, Ready
  <2> QED
    BY <2>1, CallsAre
<1> HIDE DEF C
<1>4. PICK a : a = IF p.inheritAll THEN [i \in 1 .. Len(p.order) - p.late |-> Offer(p.order[i])]
                   ELSE <<Create(p.thread, FALSE)>>
  OBVIOUS
<1>5. a \in Seq(C)
  <2>1. CASE p.inheritAll
    <3>1. PICK n \in Nat : n = Len(p.order) - p.late
      BY <1>1, LenProperties
    <3>2. \A i \in 1 .. n : p.order[i] \in Classes
      <4>1. \A i \in 1 .. n : i \in 1 .. Len(p.order)
        BY <1>1, <3>1, LenProperties
      <4> QED
        BY <1>1, <4>1, ElementOfSeq
    <3>3. a \in [1 .. n -> C]
      BY <1>2, <1>4, <2>1, <3>1, <3>2
    <3> QED
      BY <3>3, FunctionIsSeq
  <2>2. CASE ~p.inheritAll
    BY <1>1, <1>2, <1>4, <2>2, OneIs
  <2> QED
    BY <2>1, <2>2
<1>6. <<BindAll, Ready>> \in Seq(C)
  BY <1>3, TwoIs
<1>7. Startup(p) = a \o <<BindAll, Ready>>
  BY <1>4 DEF Startup
<1>8. PICK b \in Seq(C) : b = Startup(p)
  BY <1>5, <1>6, <1>7, ConcatProperties
<1>9. \A i \in 1 .. Len(b) : b[i] \in C
  BY ElementOfSeq
<1>10. b \in Seq(Calls)
  BY <1>9, SeqWithin DEF C
<1> QED
  BY <1>8, <1>9, <1>10 DEF C

LEMMA InitInv ==
  ASSUME Init
  PROVE  Inv
<1>1. prog \in Programs /\ prog.order \in Seq(Classes) /\ prog.late \in 0 .. Len(prog.order)
  BY ProgramsAssumption DEF Init, IsProgram
<1>2. source \in Seq(Classes)
  <2>1. Len(prog.order) \in Nat
    BY <1>1, LenProperties
  <2>2. 1 \in 1 .. Len(prog.order) + 1 /\ Len(prog.order) - prog.late \in 0 .. Len(prog.order)
    BY <1>1, <2>1
  <2>3. source = SubSeq(prog.order, 1, Len(prog.order) - prog.late)
    BY DEF Init
  <2> QED
    BY <1>1, <2>2, <2>3, SubSeqProperties
<1>3. \A e \in Entries : ent[e] = Fresh
  BY DEF Init
<1>4. \A c \in Classes : entry[c] = NoEntry /\ scope[c] = NoEntry /\ traited[c] = NoEntry /\ copies[c] = 0
  BY DEF Init
<1>5. TypeOK
  <2>1. linked \subseteq Classes
    BY <1>2, RangeIs DEF Init
  <2>2. table \in Seq(Classes) /\ IsInjective(table) /\ \A c : ~ \E i \in DOMAIN table : table[i] = c
    BY DEF Init, IsInjective
  <2>3. 0 \in 0 .. MaxCopies
    BY BoundsAssumption
  <2>4. \A e \in Entries : /\ ent[e].supers \subseteq Entries
                           /\ ent[e].value \in {None, "unset", "default", "current"}
    BY <1>3 DEF Fresh
  <2>5. /\ entry \in [Classes -> Entries \cup {NoEntry}] /\ copies \in [Classes -> 0 .. MaxCopies]
        /\ scope \in [Classes -> Entries \cup {NoEntry, Foreign}]
        /\ traited \in [Classes -> Entries \cup {NoEntry, Foreign}]
    BY <2>3 DEF Init
  <2> QED
    BY <1>2, <1>4, <2>1, <2>2, <2>3, <2>4, <2>5 DEF TypeOK, Init
<1>6. /\ todo \in Seq(Calls)
      /\ \A i \in 1 .. Len(todo) : todo[i].op \in {"offer", "create", "bindall", "ready"}
  BY StartupIs DEF Init
<1>7. CallsInv
  BY <1>6, OrderedWithin DEF CallsInv, Kept
<1>8. AptInv
  BY <1>6 DEF AptInv, Apt, Has
<1>9. EntryInv /\ ScopeInv /\ TraitInv
  BY <1>4 DEF EntryInv, ScopeInv, TraitInv, Copied
<1>10. EntInv
  <2>1. IsEnt(Fresh) /\ ~Fresh.linked /\ Fresh.linked \in BOOLEAN /\ Fresh.supers = {}
    BY DEF Fresh, IsEnt
  <2>2. ent = [e \in Entries |-> ent[e]]
    BY DEF Init
  <2> QED
    BY <1>3, <2>1, <2>2 DEF EntInv
<1>11. SupersInv
  <2>1. \A e \in Entries : ~ent[e].linked
    BY <1>3 DEF Fresh
  <2> QED
    BY <2>1 DEF SupersInv
<1>12. InstInv
  BY DEF InstInv, Init
<1> QED
  BY <1>1, <1>5, <1>7, <1>8, <1>9, <1>10, <1>11, <1>12 DEF Inv

-----------------------------------------------------------------------------
(* Steps that leave the class table, its entries' links and scopes alone.  *)

SameLinks ==
  /\ ent' = [e \in Entries |-> ent'[e]]
  /\ \A e \in Entries :
       /\ IsEnt(ent'[e]) /\ ent'[e].linked = ent[e].linked /\ ent'[e].supers = ent[e].supers
       /\ ent'[e].value \in {None, "unset", "default", "current"}

LEMMA FirstIs ==
  ASSUME Inv, todo # << >>
  PROVE  /\ todo[1] \in Calls /\ Head(todo) = todo[1] /\ Has(todo, todo[1]) /\ Apt(todo[1])
         /\ Call = todo[1]
         /\ todo \in Seq(Calls) /\ Tail(todo) \in Seq(Calls)
         /\ \A x \in Calls : Has(Tail(todo), x) => Has(todo, x) /\ Apt(x)
         /\ \A j \in 2 .. Len(todo) : <<todo[1], todo[j]>> \in Order
         /\ \A x \in Calls : Has(Tail(todo), x) => Precedes(todo[1], x)
         /\ todo[1].op \in {"link", "connect"} => entry[todo[1].class] # NoEntry
<1>1. todo \in Seq(Calls) /\ Ordered(todo, Order) /\ Kept(todo, Known)
  BY DEF Inv, CallsInv
<1>2. /\ Tail(todo) \in Seq(Calls) /\ Len(todo) \in Nat \ {0} /\ todo[1] \in Calls
      /\ Head(todo) = todo[1]
      /\ \A k \in 1 .. Len(Tail(todo)) : k + 1 \in 2 .. Len(todo) /\ Tail(todo)[k] = todo[k + 1]
  BY <1>1, TailIs
<1>3. 1 \in 1 .. Len(todo) /\ \A j \in 2 .. Len(todo) : j \in 1 .. Len(todo) /\ 1 < j
  BY <1>2
<1>4. Has(todo, todo[1]) /\ \A x : Has(Tail(todo), x) => Has(todo, x)
  BY <1>2, <1>3 DEF Has
<1>5. Apt(todo[1]) /\ \A x \in Calls : Has(Tail(todo), x) => Has(todo, x) /\ Apt(x)
  <2>1. PICK y \in Calls : y = todo[1]
    BY <1>2
  <2>2. Apt(y)
    BY <1>4, <2>1 DEF Inv, AptInv
  <2> QED
    BY <1>4, <2>1, <2>2 DEF Inv, AptInv
<1>6. \A j \in 2 .. Len(todo) : <<todo[1], todo[j]>> \in Order
  BY <1>1, <1>3 DEF Ordered
<1>7. todo[1].op \in {"link", "connect"} => entry[todo[1].class] # NoEntry
  BY <1>1, <1>3 DEF Kept, Known
<1>8. \A x \in Calls : Has(Tail(todo), x) => Precedes(todo[1], x)
  BY <1>2, <1>6 DEF Has, Order
<1> QED
  BY <1>1, <1>2, <1>4, <1>5, <1>6, <1>7, <1>8 DEF Call

LEMMA TypesAre ==
  ASSUME Inv
  PROVE  /\ Len(table) \in Nat
         /\ \A c \in Classes : /\ copies[c] \in Nat /\ copies[c] \in 0 .. MaxCopies
                               /\ entry[c] # NoEntry => entry[c] \in Entries
  BY LenProperties, BoundsAssumption DEF Inv, TypeOK

LEMMA FrameStep ==
  ASSUME Inv, todo # << >>, NEW a, Fits(a), Given(a, Known), todo' = a \o Tail(todo),
         \A x \in Calls : Has(a, x) => Apt(x)',
         UNCHANGED <<prog, source, linked, classVars, scopeVars, objects>>,
         running' \in BOOLEAN, running => running', SameLinks,
         todo[1].op \notin {"link", "scopes"}
  PROVE  Inv'
<1>1. UNCHANGED <<prog, source, linked, table, entry, copies, scope, traited, objects>>
  BY DEF classVars, scopeVars
<1>2. Grows
  BY <1>1, TypesAre DEF Grows, SameLinks
<1>3. Known' = Known /\ Copied' = Copied
  BY <1>1 DEF Known, Copied, IsShared
<1>4. CallsInv' /\ AptInv' /\ Turns(Calls, todo, a, todo')
  <2>1. \A x \in Calls : Has(Tail(todo), x) /\ Apt(x) => Apt(x)'
    BY <1>1, <1>2, AptStays
  <2>2. CallsInv /\ AptInv /\ Given(a, Known') /\ prog' = prog
    BY <1>1, <1>3 DEF Inv
  <2> QED
    BY <2>1, <2>2, CallsStep
<1>5. /\ \A e, d : Has(todo, Link(e, d)) => Has(todo', Link(e, d))
      /\ \A e : Has(todo, Scopes(e)) => Has(todo', Scopes(e))
  <2>1. \A e, d : Link(e, d) # todo[1] /\ Scopes(e) # todo[1]
    BY DEF Link, Scopes
  <2> QED
    BY <1>4, <2>1, HasTurns
<1>6. HoldsDescendant' = HoldsDescendant /\ \A c \in Classes : Bases(c)' = Bases(c)
  BY <1>1, SameProgram
<1>7. TypeOK'
  <2>1. TypeOK
    BY DEF Inv
  <2> QED
    BY <1>1, <2>1 DEF TypeOK, SameLinks
<1>8. EntryInv' /\ EntInv'
  BY <1>1 DEF Inv, EntryInv, EntInv, SameLinks, IsShared, ClassOf
<1>9. SupersInv'
  <2> SUFFICES ASSUME ~HoldsDescendant, NEW e \in Entries, ent'[e].linked
               PROVE  /\ ent'[e].supers \subseteq {entry'[d] : d \in Bases(ClassOf(e))}
                      /\ \A d \in Bases(ClassOf(e)) :
                           entry'[d] \in ent'[e].supers \/ Has(todo', Link(e, d))
    BY <1>6, EntriesAre DEF SupersInv, Has
  <2>1. ent'[e].supers = ent[e].supers /\ ent[e].linked
    BY DEF SameLinks
  <2>2. /\ ent[e].supers \subseteq {entry[d] : d \in Bases(ClassOf(e))}
        /\ \A d \in Bases(ClassOf(e)) : entry[d] \in ent[e].supers \/ Has(todo, Link(e, d))
    BY <2>1 DEF Inv, SupersInv
  <2> QED
    BY <1>1, <1>5, <2>1, <2>2
<1>10. ScopeInv' /\ TraitInv'
  BY <1>1, <1>3, <1>5 DEF Inv, ScopeInv, TraitInv, Has
<1>11. InstInv'
  BY <1>1, <1>6 DEF Inv, InstInv
<1> QED
  BY <1>1, <1>4, <1>7, <1>8, <1>9, <1>10, <1>11 DEF Inv

LEMMA FitsWithin ==
  ASSUME Inv, todo # << >>, NEW a \in Seq(Calls), Ordered(a, Order),
         \A x \in Calls, c \in Classes : Has(a, x) /\ Under(todo[1], c) => Under(x, c),
         \A x \in Calls : Has(a, x) /\ x.op = "insert" => entry[ClassOf(x.entry)] = NoEntry
  PROVE  Fits(a)
<1> SUFFICES ASSUME NEW i \in 1 .. Len(a), NEW j \in 2 .. Len(todo) PROVE <<a[i], todo[j]>> \in Order
  BY DEF Fits
<1>1. PICK x \in Calls : x = a[i]
  BY ElementOfSeq
<1>2. Has(a, x)
  BY <1>1 DEF Has
<1>3. <<todo[1], todo[j]>> \in Order
  BY FirstIs
<1>4. PICK y \in Calls : y = todo[j]
  BY <1>3 DEF Order
<1>5. Precedes(todo[1], y)
  BY <1>3, <1>4 DEF Order
<1>6. Apt(y)
  <2>1. j \in 1 .. Len(todo)
    BY FirstIs, LenProperties
  <2>2. Has(todo, y)
    BY <1>4, <2>1 DEF Has
  <2> QED
    BY <2>2 DEF Inv, AptInv
<1>7. y.op \in OnEntry => y.entry \in Entries /\ ClassOf(y.entry) \in Classes /\ y.entry # NoEntry
  <2>1. y.op \in OnEntry => y.entry \in Entries
    BY CallIs
  <2> QED
    BY <2>1, EntriesAre
<1>8. y.op = "insert" => Under(x, ClassOf(y.entry))
  BY <1>2, <1>5, <1>7 DEF Precedes, OnEntry
<1>9. y.op = "scopes" /\ x.op = "insert" => ClassOf(x.entry) # ClassOf(y.entry)
  BY <1>2, <1>6, <1>7 DEF Apt, OnEntry
<1> QED
  BY <1>1, <1>4, <1>8, <1>9 DEF Order, Precedes

LEMMA PlainStep ==
  ASSUME Inv, todo # << >>, NEW a \in Seq(Calls), todo' = a \o Tail(todo),
         \A x \in Calls, c \in Classes : Has(a, x) /\ Under(todo[1], c) => Under(x, c),
         \A x \in Calls : Has(a, x) => Apt(x)' /\ x.op \notin {"insert", "scopes"},
         Given(a, Known),
         UNCHANGED <<prog, source, linked, classVars, scopeVars, objects>>,
         running' \in BOOLEAN, running => running', SameLinks,
         todo[1].op \notin {"link", "scopes"}
  PROVE  Inv'
<1>1. Ordered(a, Order)
  <2>1. \A i \in 1 .. Len(a) : a[i] \in Calls /\ Has(a, a[i])
    BY ElementOfSeq DEF Has
  <2> QED
    BY <2>1, OrderedWithin
<1>2. Fits(a)
  BY <1>1, FitsWithin
<1> QED
  BY <1>2, FrameStep

LEMMA SameEnt ==
  ASSUME Inv, ent' = ent
  PROVE  SameLinks
  BY DEF Inv, EntInv, TypeOK, SameLinks

LEMMA ReturnStep ==
  ASSUME Inv, todo # << >>, Return,
         \A c : Gives(todo[1], c) => c \in Known,
         UNCHANGED <<prog, source, linked, classVars, scopeVars, objects>>,
         running' \in BOOLEAN, running => running', SameLinks,
         todo[1].op \notin {"link", "scopes"}
  PROVE  Inv'
<1>1. PICK a \in Seq(Calls) : a = << >>
  BY EmptyIs
<1>2. \A x : ~Has(a, x)
  BY <1>1, EmptyIs DEF Has
<1>3. todo' = a \o Tail(todo)
  <2>1. Tail(todo) \in Seq(Calls)
    BY FirstIs
  <2> QED
    BY <1>1, <2>1, ConcatEmptySeq DEF Return
<1>4. Given(a, Known)
  BY <1>1, EmptyIs DEF Given, Kept
<1> QED
  BY <1>2, <1>3, <1>4, PlainStep

-----------------------------------------------------------------------------
(* The plain steps, one by one.                                            *)

LEMMA HasIs ==
  ASSUME NEW C, NEW x \in C, NEW y \in C
  PROVE  /\ \A z : ~Has(<< >>, z)
         /\ <<x>> \in Seq(C) /\ \A z : Has(<<x>>, z) <=> z = x
         /\ <<x, y>> \in Seq(C) /\ \A z : Has(<<x, y>>, z) <=> z = x \/ z = y
<1>1. \A z : ~Has(<< >>, z)
  BY EmptyIs DEF Has
<1>2. <<x>> \in Seq(C) /\ \A z : Has(<<x>>, z) <=> z = x
  BY OneIs DEF Has
<1>3. <<x, y>> \in Seq(C) /\ \A z : Has(<<x, y>>, z) <=> z = x \/ z = y
  <2>1. /\ <<x, y>> \in Seq(C) /\ Len(<<x, y>>) = 2 /\ <<x, y>>[1] = x /\ <<x, y>>[2] = y
    BY TwoIs
  <2>2. \A i \in 1 .. 2 : i = 1 \/ i = 2
    OBVIOUS
  <2> QED
    BY <2>1, <2>2 DEF Has
<1> QED
  BY <1>1, <1>2, <1>3

LEMMA HasConcat ==
  ASSUME NEW C, NEW a \in Seq(C), NEW b \in Seq(C)
  PROVE  a \o b \in Seq(C) /\ \A x : Has(a \o b, x) <=> Has(a, x) \/ Has(b, x)
<1>1. PICK c : c = a \o b
  OBVIOUS
<1>2. Concat(C, a, b, c)
  BY <1>1, ConcatIs
<1>3. c \in Seq(C) /\ \A x : Has(c, x) <=> Has(a, x) \/ Has(b, x)
  BY <1>2 DEF Concat, Has
<1> QED
  BY <1>1, <1>3

LEMMA LateBindingsAre ==
  ASSUME NEW e \in Entries
  PROVE  /\ LateBindings(e) \in Seq(Calls)
         /\ \A x : Has(LateBindings(e), x) => x \in {Bind(e), InitStatics(e)}
<1>1. Bind(e) \in Calls /\ InitStatics(e) \in Calls
  BY CallsAre
<1> QED
  BY <1>1, HasIs DEF LateBindings

LEMMA NoneGiven ==
  ASSUME todo[1].op \notin {"create", "insert"}, NEW a,
         \A i \in 1 .. Len(a) : a[i].op \notin {"link", "connect"}
  PROVE  Given(a, Known)
  BY DEF Given, Kept, Gives

LEMMA FoundStep ==
  ASSUME Inv, todo # << >>, Call.op = "create", CreateFound(Call.class, Call.late)
  PROVE  Inv'
<1>1. todo[1] \in Calls /\ Call = todo[1] /\ todo[1].class \in Classes
  BY FirstIs, CallIs DEF OnClass
<1>2. \A c : Gives(todo[1], c) => c \in Known
  BY <1>1 DEF Gives, Known, CreateFound
<1>3. SameLinks
  BY SameEnt DEF CreateFound
<1>4. running \in BOOLEAN /\ UNCHANGED running
  BY DEF CreateFound, sourceVars, Inv, TypeOK
<1> QED
  BY <1>1, <1>2, <1>3, <1>4, ReturnStep DEF CreateFound, sourceVars

LEMMA ReadyStep ==
  ASSUME Inv, todo # << >>, Call.op = "ready", DoReady
  PROVE  Inv'
<1>1. todo[1] \in Calls /\ Call = todo[1] /\ todo[1].op = "ready"
  BY FirstIs
<1>2. \A c : Gives(todo[1], c) => c \in Known
  BY <1>1 DEF Gives
<1>3. SameLinks
  BY SameEnt DEF DoReady
<1>4. running \in BOOLEAN /\ (running' = running \/ running' = TRUE)
  BY DEF DoReady, sourceVars, Inv, TypeOK
<1>5. Return /\ UNCHANGED <<prog, source, linked, classVars, scopeVars, objects>>
  BY DEF DoReady, sourceVars
<1> QED
  BY <1>1, <1>2, <1>3, <1>4, <1>5, ReturnStep

LEMMA OfferStep ==
  ASSUME Inv, todo # << >>, Call.op = "offer", DoOffer(Call.class)
  PROVE  Inv'
<1>1. todo[1] \in Calls /\ Call = todo[1] /\ todo[1].op = "offer" /\ todo[1].class \in Classes
  BY FirstIs, CallIs DEF OnClass
<1>2. PICK c \in Classes : c = todo[1].class
  BY <1>1
<1>3. PICK x \in Calls : x = Create(c, FALSE)
  BY CallsAre
<1>4. x.op = "create"
  BY <1>3 DEF Create
<1>5. PICK a \in Seq(Calls) : a = (IF entry[c] = NoEntry THEN <<x>> ELSE << >>) /\ \A z : Has(a, z) => z = x
  BY HasIs, EmptyIs
<1>6. todo' = a \o Tail(todo)
  BY <1>1, <1>2, <1>3, <1>5 DEF DoOffer, Then
<1>7. running \in BOOLEAN /\ UNCHANGED <<sourceVars, classVars, ent, scopeVars, objects>>
  BY DEF DoOffer, Inv, TypeOK
<1>8. UNCHANGED <<prog, source, linked, running>>
  BY <1>7 DEF sourceVars
<1>9. Apt(x)'
  BY <1>4 DEF Apt
<1>10. \A d \in Classes : ~Under(todo[1], d)
  BY <1>1 DEF Under
<1>11. Given(a, Known)
  <2>1. \A i \in 1 .. Len(a) : a[i] = x
    BY <1>5 DEF Has
  <2> QED
    BY <1>1, <1>4, <2>1, NoneGiven
<1>12. SameLinks
  BY <1>7, SameEnt
<1> QED
  BY <1>1, <1>4, <1>5, <1>6, <1>7, <1>8, <1>9, <1>10, <1>11, <1>12, PlainStep

LEMMA BindAllStep ==
  ASSUME Inv, todo # << >>, Call.op = "bindall", DoBindAll
  PROVE  Inv'
<1>1. todo[1] \in Calls /\ Call = todo[1] /\ todo[1].op = "bindall"
  BY FirstIs
<1>2. PICK n \in Nat : n = Len(table) /\ DOMAIN table = 1 .. n
  BY LenProperties DEF Inv, TypeOK
<1>3. PICK m \in BOOLEAN : m = ClassesMoved
  <2>1. ClassesMoved \in BOOLEAN
    BY DEF ClassesMoved
  <2> QED
    BY <2>1
<1>4. PICK a : a = [i \in 1 .. n |-> BindAt(i, m)]
  OBVIOUS
<1>5. a \in Seq(Calls) /\ Len(a) = n
  <2>1. \A i \in 1 .. n : BindAt(i, m) \in Calls
    BY CallsAre
  <2>2. a \in [1 .. n -> Calls]
    BY <1>4, <2>1
  <2> QED
    BY <2>2, FunctionIsSeq
<1>6. \A i \in 1 .. Len(a) : a[i].op = "bindat" /\ a[i].index \in 1 .. n
  BY <1>4, <1>5 DEF BindAt
<1>7. todo' = a \o Tail(todo)
  BY <1>2, <1>3, <1>4 DEF DoBindAll, Then
<1>8. running \in BOOLEAN /\ UNCHANGED <<sourceVars, classVars, ent, scopeVars, objects>>
  BY DEF DoBindAll, Inv, TypeOK
<1>9. UNCHANGED <<prog, source, linked, running, table>>
  BY <1>8 DEF sourceVars, classVars
<1>10. \A x \in Calls : Has(a, x) => Apt(x)' /\ x.op \notin {"insert", "scopes"}
  BY <1>2, <1>6, <1>9 DEF Apt, Has
<1>11. \A d \in Classes : ~Under(todo[1], d)
  BY <1>1 DEF Under
<1>12. Given(a, Known)
  BY <1>1, <1>6, NoneGiven
<1>13. SameLinks
  BY <1>8, SameEnt
<1> QED
  BY <1>1, <1>5, <1>7, <1>8, <1>9, <1>10, <1>11, <1>12, <1>13, PlainStep

LEMMA BindAtStep ==
  ASSUME Inv, todo # << >>, Call.op = "bindat", DoBindAt(Call.index)
  PROVE  Inv'
<1>1. todo[1] \in Calls /\ Call = todo[1] /\ todo[1].op = "bindat" /\ Apt(todo[1])
  BY FirstIs
<1>2. PICK e \in Entries : e = entry[table[todo[1].index]]
  <2>1. todo[1].index \in 1 .. Len(table)
    BY <1>1 DEF Apt
  <2>2. table \in Seq(Classes) /\ DOMAIN table = 1 .. Len(table)
    BY LenProperties DEF Inv, TypeOK
  <2>3. table[todo[1].index] \in Classes
    BY <2>1, <2>2, ElementOfSeq
  <2>4. entry[table[todo[1].index]] # NoEntry
    BY <2>1, <2>2, <2>3 DEF Inv, TypeOK
  <2> QED
    BY <2>3, <2>4, TypesAre
<1>3. PICK a \in Seq(Calls) : a = LateBindings(e) /\ \A x : Has(a, x) => x \in {Bind(e), InitStatics(e)}
  BY LateBindingsAre
<1>4. todo' = a \o Tail(todo)
  BY <1>1, <1>2, <1>3 DEF DoBindAt, Then
<1>5. Bind(e).op = "bind" /\ InitStatics(e).op = "initstatics"
  BY DEF Bind, InitStatics
<1>6. running \in BOOLEAN /\ UNCHANGED <<sourceVars, classVars, ent, scopeVars, objects>>
  BY DEF DoBindAt, Inv, TypeOK
<1>7. UNCHANGED <<prog, source, linked, running>>
  BY <1>6 DEF sourceVars
<1>8. \A x \in Calls : Has(a, x) => Apt(x)' /\ x.op \notin {"insert", "scopes"}
  BY <1>3, <1>5 DEF Apt
<1>9. \A d \in Classes : ~Under(todo[1], d)
  BY <1>1 DEF Under
<1>10. Given(a, Known)
  <2>1. \A i \in 1 .. Len(a) : a[i] \in {Bind(e), InitStatics(e)}
    BY <1>3 DEF Has
  <2> QED
    BY <1>1, <1>5, <2>1, NoneGiven
<1>11. SameLinks
  BY <1>6, SameEnt
<1> QED
  BY <1>1, <1>4, <1>6, <1>7, <1>8, <1>9, <1>10, <1>11, PlainStep

LEMMA BindStep ==
  ASSUME Inv, todo # << >>, Call.op = "bind", DoBind(Call.entry)
  PROVE  Inv'
<1>1. todo[1] \in Calls /\ Call = todo[1] /\ todo[1].op = "bind" /\ todo[1].entry \in Entries
  BY FirstIs, CallIs DEF OnEntry
<1>2. PICK e \in Entries : e = todo[1].entry
  BY <1>1
<1>3. EntInv /\ IsEnt(ent[e])
  BY DEF Inv, EntInv
<1>4. PICK s : s = Slots(e)
  OBVIOUS
<1>5. PICK r : r = ent[e] /\ IsEnt(r)
  BY <1>3
<1>6. PICK q : q = Rebound(r, r.table + 1, s)
  OBVIOUS
<1>7. Keeps(r, q) /\ q.value = r.value
  BY <1>5, <1>6, EntBound
<1>9. ent' = [ent EXCEPT ![e] = q]
  <2>1. ent' = [ent EXCEPT ![e].table = @ + 1, ![e].slots = s]
    BY <1>1, <1>2, <1>4 DEF DoBind
  <2>2. ent = [x \in Entries |-> ent[x]]
    BY <1>3 DEF EntInv
  <2> QED
    BY <1>5, <1>6, <2>1, <2>2 DEF Rebound
<1>10. SameLinks
  BY <1>3, <1>5, <1>7, <1>9 DEF SameLinks, EntInv, Inv, TypeOK, Keeps
<1>11. Return /\ running \in BOOLEAN /\ UNCHANGED <<sourceVars, classVars, scopeVars, objects>>
  BY DEF DoBind, Inv, TypeOK
<1>12. UNCHANGED <<prog, source, linked, running>>
  BY <1>11 DEF sourceVars
<1>13. \A c : ~Gives(todo[1], c)
  BY <1>1 DEF Gives
<1> QED
  BY <1>1, <1>10, <1>11, <1>12, <1>13, ReturnStep

LEMMA FillStep ==
  ASSUME Inv, todo # << >>, Call.op = "fill", DoFill(Call.entry)
  PROVE  Inv'
<1>1. todo[1] \in Calls /\ Call = todo[1] /\ todo[1].op = "fill" /\ todo[1].entry \in Entries
  BY FirstIs, CallIs DEF OnEntry
<1>2. PICK e \in Entries : e = todo[1].entry
  BY <1>1
<1>3. EntInv /\ IsEnt(ent[e])
  BY DEF Inv, EntInv
<1>4. PICK s : ent' = [ent EXCEPT ![e].value = "current", ![e].cells = s]
  BY <1>1, <1>2 DEF DoFill
<1>5. PICK r : r = ent[e] /\ IsEnt(r)
  BY <1>3
<1>6. PICK q : q = Filled(r, "current", s)
  OBVIOUS
<1>7. Keeps(r, q) /\ q.value = "current"
  BY <1>5, <1>6, EntFilled
<1>9. ent' = [ent EXCEPT ![e] = q]
  <2>1. ent = [x \in Entries |-> ent[x]]
    BY <1>3 DEF EntInv
  <2> QED
    BY <1>4, <1>5, <1>6, <2>1 DEF Filled
<1>10. SameLinks
  BY <1>3, <1>5, <1>7, <1>9 DEF SameLinks, EntInv, Inv, TypeOK, Keeps
<1>11. Return /\ running \in BOOLEAN /\ UNCHANGED <<sourceVars, classVars, scopeVars, objects>>
  BY DEF DoFill, Inv, TypeOK
<1>12. UNCHANGED <<prog, source, linked, running>>
  BY <1>11 DEF sourceVars
<1>13. \A c : ~Gives(todo[1], c)
  BY <1>1 DEF Gives
<1> QED
  BY <1>1, <1>10, <1>11, <1>12, <1>13, ReturnStep

LEMMA DefaultedKeeps ==
  ASSUME Inv, NEW p, NEW b, b = Defaulted(p) \/ b = ent
  PROVE  /\ b = [x \in Entries |-> b[x]]
         /\ \A x \in Entries : /\ Keeps(ent[x], b[x]) /\ b[x].table = ent[x].table
                               /\ b[x].value \in {None, "unset", "default", "current"}
<1>0. /\ ent = [x \in Entries |-> ent[x]]
      /\ \A x \in Entries : IsEnt(ent[x]) /\ ent[x].value \in {None, "unset", "default", "current"}
  BY DEF Inv, EntInv, TypeOK
<1>1. CASE b = ent
  BY <1>0, <1>1 DEF Keeps
<1>2. CASE b = Defaulted(p)
  <2>1. b = [x \in Entries |-> b[x]]
    BY <1>2 DEF Defaulted
  <2>2. ASSUME NEW x \in Entries
        PROVE  /\ Keeps(ent[x], b[x]) /\ b[x].table = ent[x].table
               /\ b[x].value \in {None, "unset", "default", "current"}
    <3>1. PICK r : r = ent[x] /\ IsEnt(r)
      BY <1>0
    <3>2. PICK w : w = [d \in Inherited(ClassOf(x)) |-> Home(x, d)]
      OBVIOUS
    <3>3. b[x] = Filled(r, "default", w) \/ b[x] = r
      BY <1>2, <3>1, <3>2 DEF Defaulted, Filled
    <3>4. CASE b[x] = Filled(r, "default", w)
      <4>1. PICK q : q = Filled(r, "default", w)
        OBVIOUS
      <4>2. Keeps(r, q) /\ q.value = "default" /\ q.table = r.table
        BY <3>1, <4>1, EntFilled
      <4> QED
        BY <3>1, <3>4, <4>1, <4>2
    <3>5. CASE b[x] = r
      BY <1>0, <3>1, <3>5 DEF Keeps
    <3> QED
      BY <3>3, <3>4, <3>5
  <2> QED
    BY <2>1, <2>2
<1> QED
  BY <1>1, <1>2

\* A class and the making of an object of it.
LEMMA HeldIs ==
  ASSUME NEW h \in Classes, NEW known
  PROVE  /\ <<Create(h, TRUE), Connect(h)>> \in Seq(Calls)
         /\ Kept(<<Create(h, TRUE), Connect(h)>>, known)
         /\ \A x : Has(<<Create(h, TRUE), Connect(h)>>, x) <=> x = Create(h, TRUE) \/ x = Connect(h)
<1>1. PICK x \in Calls : x = Create(h, TRUE)
  BY CallsAre
<1>2. PICK y \in Calls : y = Connect(h)
  BY CallsAre
<1>3. x.op = "create" /\ x.class = h /\ y.op = "connect" /\ y.class = h
  BY <1>1, <1>2 DEF Create, Connect
<1>4. PICK a \in Seq(Calls) : a = <<x, y>> /\ Len(a) = 2 /\ a[1] = x /\ a[2] = y
                              /\ \A z : Has(a, z) <=> z = x \/ z = y
  <2>1. \A z : Has(<<x, y>>, z) <=> z = x \/ z = y
    BY HasIs
  <2> QED
    BY <2>1, TwoIs
<1>5. ASSUME NEW j \in 1 .. Len(a), a[j].op \in {"link", "connect"}
      PROVE  \E i \in 1 .. j - 1 : Gives(a[i], a[j].class)
  <2>1. j = 2 /\ 1 \in 1 .. j - 1
    BY <1>3, <1>4, <1>5
  <2>2. Gives(x, h)
    BY <1>3 DEF Gives
  <2> QED
    BY <1>3, <1>4, <2>1, <2>2
<1>6. Kept(a, known)
  BY <1>5 DEF Kept
<1> QED
  BY <1>1, <1>2, <1>4, <1>6

LEMMA OneKept ==
  ASSUME NEW x \in Calls, x.op \notin {"link", "connect"}, NEW known
  PROVE  <<x>> \in Seq(Calls) /\ Kept(<<x>>, known)
<1>1. PICK a \in Seq(Calls) : a = <<x>> /\ Len(a) = 1 /\ a[1] = x
  BY OneIs
<1>2. Kept(a, known)
  BY <1>1 DEF Kept
<1> QED
  BY <1>1, <1>2

LEMMA InitStaticsStep ==
  ASSUME Inv, todo # << >>, Call.op = "initstatics", DoInitStatics(Call.entry)
  PROVE  Inv'
<1>1. todo[1] \in Calls /\ Call = todo[1] /\ todo[1].op = "initstatics" /\ todo[1].entry \in Entries
  BY FirstIs, CallIs DEF OnEntry
<1>2. PICK e \in Entries : e = todo[1].entry
  BY <1>1
<1>3. PICK c \in Classes : c = ClassOf(e)
  BY EntriesAre
<1>4. running \in BOOLEAN /\ prog \in Programs /\ \A d : ~Gives(todo[1], d)
  BY <1>1 DEF Inv, TypeOK, Gives
<1>5. CASE ~HasStatics(c) \/ c \notin prog.used \/ ent[e].value # None
  <2>1. Return /\ UNCHANGED <<sourceVars, classVars, ent, scopeVars, objects>>
    BY <1>1, <1>2, <1>3, <1>5 DEF DoInitStatics
  <2>2. UNCHANGED <<prog, source, linked, running>>
    BY <2>1 DEF sourceVars
  <2>3. SameLinks
    BY <2>1, SameEnt
  <2> QED
    BY <1>1, <1>4, <2>1, <2>2, <2>3, ReturnStep
<1>6. CASE ~(~HasStatics(c) \/ c \notin prog.used \/ ent[e].value # None)
  <2>1. PICK b : /\ b = Defaulted(ParentOf(e)) \/ b = ent
                 /\ ent' = [b EXCEPT ![e].value = "unset"]
    BY <1>1, <1>2, <1>3, <1>6 DEF DoInitStatics
  <2>2. PICK h : h = IF c \in prog.statics THEN prog.held[c] ELSE None
    OBVIOUS
  <2>3. /\ todo' = ((IF h = None THEN << >> ELSE <<Create(h, TRUE), Connect(h)>>) \o <<Fill(e)>>)
                     \o Tail(todo)
        /\ UNCHANGED <<sourceVars, classVars, scopeVars, objects>>
    BY <1>1, <1>2, <1>3, <1>6, <2>2 DEF DoInitStatics, Then
  <2>4. UNCHANGED <<prog, source, linked, running>>
    BY <2>3 DEF sourceVars
  <2>5. h = None \/ (h \in Classes /\ h \in Leads(c))
    <3>1. prog.held[c] \in Classes \cup {None}
      BY <1>4, ProgramIs
    <3>2. c \in prog.statics /\ prog.held[c] # None => prog.held[c] \in Leads(c)
      BY <1>4, <1>6, LeadsAre
    <3> QED
      BY <2>2, <3>1, <3>2
  <2>6. SameLinks
    <3>1. /\ b = [x \in Entries |-> b[x]]
          /\ \A x \in Entries : /\ Keeps(ent[x], b[x])
                                /\ b[x].value \in {None, "unset", "default", "current"}
      BY <2>1, DefaultedKeeps
    <3>2. PICK r : r = b[e] /\ IsEnt(r)
      BY <3>1 DEF Keeps
    <3>3. PICK q : q = Valued(r, "unset")
      OBVIOUS
    <3>4. Keeps(r, q) /\ q.value = "unset"
      BY <3>2, <3>3, EntUnset
    <3>5. ent' = [b EXCEPT ![e] = q]
      BY <2>1, <3>1, <3>2, <3>3 DEF Valued
    <3> QED
      BY <3>1, <3>2, <3>4, <3>5 DEF SameLinks, Keeps
  <2>7. PICK f \in Calls : f = Fill(e) /\ f.op = "fill"
    <3>1. Fill(e).op = "fill"
      BY DEF Fill
    <3> QED
      BY <3>1, CallsAre
  <2>8. PICK s \in Seq(Calls) : /\ s = <<f>> /\ Kept(s, Known) /\ \A x : Has(s, x) <=> x = f
    <3>1. <<f>> \in Seq(Calls) /\ Kept(<<f>>, Known)
      BY <2>7, OneKept
    <3>2. \A x : Has(<<f>>, x) <=> x = f
      BY HasIs
    <3> QED
      BY <3>1, <3>2
  <2>9. CASE h = None
    <3>1. todo' = s \o Tail(todo)
      <4>1. << >> \o s = s
        BY <2>8, ConcatEmptySeq
      <4> QED
        BY <2>3, <2>7, <2>8, <2>9, <4>1
    <3>2. Given(s, Known)
      BY <1>4, <2>8 DEF Given
    <3>3. \A x \in Calls : Has(s, x) => Apt(x)' /\ x.op \notin {"insert", "scopes"}
      BY <2>7, <2>8 DEF Apt
    <3>4. \A x \in Calls, d \in Classes : Has(s, x) => Under(x, d)
      BY <2>7, <2>8 DEF Under
    <3> QED
      BY <1>1, <1>4, <2>3, <2>4, <2>6, <3>1, <3>2, <3>3, <3>4, PlainStep
  <2>10. CASE h # None
    <3>0. h \in Classes /\ h \in Leads(c)
      BY <2>5, <2>10
    <3>1. PICK t \in Seq(Calls) : /\ t = <<Create(h, TRUE), Connect(h)>> /\ Kept(t, Known)
                                  /\ \A x : Has(t, x) <=> x = Create(h, TRUE) \/ x = Connect(h)
      BY <3>0, HeldIs
    <3>2. PICK a \in Seq(Calls) : a = t \o s /\ \A x : Has(a, x) <=> Has(t, x) \/ Has(s, x)
      <4>1. t \o s \in Seq(Calls) /\ \A x : Has(t \o s, x) <=> Has(t, x) \/ Has(s, x)
        BY HasConcat
      <4> QED
        BY <4>1
    <3>3. Kept(a, Known)
      <4>1. Concat(Calls, t, s, a)
        BY <3>2, ConcatIs
      <4> QED
        BY <2>8, <3>1, <4>1, KeptConcat
    <3>4. todo' = a \o Tail(todo)
      BY <2>3, <2>7, <2>8, <2>10, <3>1, <3>2
    <3>5. Given(a, Known)
      BY <1>4, <3>3 DEF Given
    <3>6. /\ Create(h, TRUE).op = "create" /\ Create(h, TRUE).class = h
          /\ Connect(h).op = "connect" /\ Connect(h).class = h
      BY DEF Create, Connect
    <3>7. \A x \in Calls : Has(a, x) => Apt(x)' /\ x.op \notin {"insert", "scopes"}
      BY <2>7, <2>8, <3>1, <3>2, <3>6 DEF Apt
    <3>8. \A x \in Calls, d \in Classes : Has(a, x) /\ Under(todo[1], d) => Under(x, d)
      <4> SUFFICES ASSUME NEW x \in Calls, NEW d \in Classes, Has(a, x), Under(todo[1], d)
                   PROVE  Under(x, d)
        OBVIOUS
      <4>1. c \in Below(d)
        BY <1>1, <1>2, <1>3 DEF Under
      <4>2. h \in Below(d)
        BY <1>4, <3>0, <4>1, BelowIs
      <4>3. x = f \/ x = Create(h, TRUE) \/ x = Connect(h)
        BY <2>8, <3>1, <3>2
      <4> QED
        BY <2>7, <3>6, <4>2, <4>3 DEF Under
    <3> QED
      BY <1>1, <1>4, <2>3, <2>4, <2>6, <3>4, <3>5, <3>7, <3>8, PlainStep
  <2> QED
    BY <2>9, <2>10
<1> QED
  BY <1>5, <1>6

-----------------------------------------------------------------------------
(* Steps that leave the class table alone.                                 *)

LEMMA TableStep ==
  ASSUME Inv, todo # << >>, NEW a, Fits(a), Given(a, Known), todo' = a \o Tail(todo),
         \A x \in Calls : Has(a, x) => Apt(x)',
         UNCHANGED <<prog, running, table, entry>>,
         \A c \in Classes : copies'[c] \in Nat /\ copies[c] <= copies'[c],
         \A e \in Entries : ent[e].linked => ent'[e].linked
  PROVE  /\ CallsInv' /\ AptInv' /\ EntryInv'
         /\ Turns(Calls, todo, a, todo') /\ Copied' = Copied
<1>1. Grows
  BY TypesAre DEF Grows
<1>2. Known' = Known /\ Copied' = Copied
  BY DEF Known, Copied, IsShared
<1>3. CallsInv' /\ AptInv' /\ Turns(Calls, todo, a, todo')
  <2>1. \A x \in Calls : Has(Tail(todo), x) /\ Apt(x) => Apt(x)'
    BY <1>1, AptStays
  <2>2. CallsInv /\ AptInv /\ Given(a, Known')
    BY <1>2 DEF Inv
  <2> QED
    BY <2>1, <2>2, CallsStep
<1>4. EntryInv'
  <2> SUFFICES ASSUME NEW c \in Classes, entry[c] # NoEntry
               PROVE  /\ ClassOf(entry[c]) = c /\ (IsShared(entry[c]) <=> c \in prog.immutable)
                      /\ entry[c][2] <= copies'[c]
    BY DEF EntryInv, ClassOf, IsShared
  <2>1. /\ ClassOf(entry[c]) = c /\ (IsShared(entry[c]) <=> c \in prog.immutable)
        /\ entry[c][2] <= copies[c]
    BY DEF Inv, EntryInv
  <2>2. entry[c] \in Entries /\ copies[c] \in Nat /\ copies'[c] \in Nat /\ copies[c] <= copies'[c]
    BY TypesAre
  <2>3. entry[c][2] \in Nat
    BY <2>2, EntriesAre, BoundsAssumption
  <2> QED
    BY <2>1, <2>2, <2>3
<1> QED
  BY <1>2, <1>3, <1>4 DEF Inv

LEMMA HasStays ==
  ASSUME NEW C, NEW a, Turns(C, todo, a, todo')
  PROVE  /\ todo[1].op # "link" =>
              \A e, d : Has(todo, Link(e, d)) => Has(todo', Link(e, d))
         /\ todo[1].op # "scopes" =>
              \A e : Has(todo, Scopes(e)) => Has(todo', Scopes(e))
         /\ \A x : Has(todo, x) /\ x # todo[1] => Has(todo', x)
         /\ \A x : Has(a, x) => Has(todo', x)
<1>1. \A x : (Has(todo, x) /\ x # todo[1] => Has(todo', x)) /\ (Has(a, x) => Has(todo', x))
  BY HasTurns
<1>2. \A e, d : Link(e, d).op = "link" /\ Scopes(e).op = "scopes"
  BY DEF Link, Scopes
<1> QED
  BY <1>1, <1>2

LEMMA NoCalls ==
  ASSUME Inv, todo # << >>, Return, todo[1].op \notin {"create", "insert"}
  PROVE  \E a : todo' = a \o Tail(todo) /\ Fits(a) /\ (\A x : ~Has(a, x)) /\ Given(a, Known)
<1>1. PICK a \in Seq(Calls) : a = << >>
  BY EmptyIs
<1>2. (\A x : ~Has(a, x)) /\ \A i : i \notin 1 .. Len(a)
  BY <1>1, EmptyIs DEF Has
<1>3. todo' = a \o Tail(todo)
  <2>1. Tail(todo) \in Seq(Calls)
    BY FirstIs
  <2> QED
    BY <1>1, <2>1, ConcatEmptySeq DEF Return
<1>4. Given(a, Known)
  BY <1>2 DEF Given, Kept, Gives
<1>5. Fits(a)
  BY <1>2 DEF Fits, Ordered
<1> QED
  BY <1>2, <1>3, <1>4, <1>5

\* SupersInv, where nothing but the calls changes.
LEMMA SupersStay ==
  ASSUME Inv, prog' = prog, entry' = entry,
         \A e \in Entries : ent'[e].linked => ent[e].linked /\ ent'[e].supers = ent[e].supers,
         \A e, d : Has(todo, Link(e, d)) => Has(todo', Link(e, d))
  PROVE  SupersInv'
<1>1. HoldsDescendant' = HoldsDescendant /\ \A c \in Classes : Bases(c)' = Bases(c)
  BY SameProgram
<1> SUFFICES ASSUME ~HoldsDescendant, NEW e \in Entries, ent'[e].linked
             PROVE  /\ ent'[e].supers \subseteq {entry'[d] : d \in Bases(ClassOf(e))}
                    /\ \A d \in Bases(ClassOf(e)) :
                         entry'[d] \in ent'[e].supers \/ Has(todo', Link(e, d))
  BY <1>1, EntriesAre DEF SupersInv, Has
<1>2. /\ ent[e].supers \subseteq {entry[d] : d \in Bases(ClassOf(e))}
      /\ \A d \in Bases(ClassOf(e)) : entry[d] \in ent[e].supers \/ Has(todo, Link(e, d))
  BY DEF Inv, SupersInv
<1> QED
  BY <1>2

LEMMA ConnectStep ==
  ASSUME Inv, todo # << >>, Call.op = "connect", DoConnect(Call.class)
  PROVE  Inv'
<1>1. /\ todo[1] \in Calls /\ Call = todo[1] /\ todo[1].op = "connect" /\ todo[1].class \in Classes
      /\ entry[todo[1].class] # NoEntry
  BY FirstIs, CallIs DEF OnClass
<1>2. PICK c \in Classes : c = todo[1].class
  BY <1>1
<1>3. entry[c] \in Entries /\ ClassOf(entry[c]) = c
  BY <1>1, <1>2, TypesAre DEF Inv, EntryInv
<1>4. Return /\ UNCHANGED <<sourceVars, classVars, ent, scopeVars>>
  BY DEF DoConnect
<1>5. UNCHANGED <<prog, source, linked, running, table, entry, copies, scope, traited, ent>>
  BY <1>4 DEF sourceVars, classVars, scopeVars
<1>a. PICK a : todo' = a \o Tail(todo) /\ Fits(a) /\ (\A x : ~Has(a, x)) /\ Given(a, Known)
  <2>1. todo[1].op \notin {"create", "insert"}
    BY <1>1
  <2> QED
    BY <1>4, <2>1, NoCalls, Zenon
<1>6. /\ CallsInv' /\ AptInv' /\ EntryInv' /\ Turns(Calls, todo, a, todo') /\ Copied' = Copied
  <2>2. \A k \in Classes : copies'[k] \in Nat /\ copies[k] <= copies'[k]
    BY <1>5, TypesAre
  <2> QED
    BY <1>5, <1>a, <2>2, TableStep
<1>7. /\ \A e, d : Has(todo, Link(e, d)) => Has(todo', Link(e, d))
      /\ \A e : Has(todo, Scopes(e)) => Has(todo', Scopes(e))
  BY <1>1, <1>6, HasStays
<1>8. SupersInv'
  BY <1>5, <1>7, SupersStay
<1>9. ScopeInv' /\ TraitInv' /\ EntInv'
  BY <1>5, <1>6, <1>7 DEF Inv, ScopeInv, TraitInv, EntInv, Has
<1>10. PICK o : o = [entry |-> entry[c], sized |-> Bound(entry[c])]
  OBVIOUS
<1>11. objects' = objects \cup {o} /\ o \in [entry : Entries, sized : BOOLEAN] /\ o.entry = entry[c]
  BY <1>1, <1>2, <1>3, <1>10 DEF DoConnect, Bound, IsShared
<1>12. InstInv'
  <2>1. HoldsDescendant' = HoldsDescendant
    BY <1>5, SameProgram
  <2> QED
    BY <1>3, <1>5, <1>11, <2>1 DEF Inv, InstInv
<1>13. TypeOK'
  BY <1>5, <1>11 DEF Inv, TypeOK
<1> QED
  BY <1>5, <1>6, <1>8, <1>9, <1>12, <1>13 DEF Inv

LEMMA LinkStep ==
  ASSUME Inv, todo # << >>, Call.op = "link", DoLink(Call.entry, Call.class)
  PROVE  Inv'
<1>1. /\ todo[1] \in Calls /\ Call = todo[1] /\ todo[1].op = "link" /\ Apt(todo[1])
      /\ todo[1].entry \in Entries /\ todo[1].class \in Classes /\ entry[todo[1].class] # NoEntry
  BY FirstIs, CallIs DEF OnEntry, OnClass
<1>2. PICK e \in Entries : e = todo[1].entry
  BY <1>1
<1>3. PICK d \in Classes : d = todo[1].class
  BY <1>1
<1>4. Return /\ UNCHANGED <<sourceVars, classVars, scopeVars, objects>>
  BY DEF DoLink
<1>5. UNCHANGED <<prog, source, linked, running, table, entry, copies, scope, traited, objects>>
  BY <1>4 DEF sourceVars, classVars, scopeVars
<1>6. ent[e].linked /\ d \in Bases(ClassOf(e)) /\ entry[d] \in Entries
  BY <1>1, <1>2, <1>3, TypesAre DEF Apt
<1>7. PICK s : s = ent[e].supers \cup {entry[d]}
  OBVIOUS
<1>8. PICK r : r = ent[e] /\ IsEnt(r)
  BY DEF Inv, EntInv
<1>9. PICK q : q = Deriving(r, s)
  OBVIOUS
<1>10. IsEnt(q) /\ q.linked = r.linked /\ q.supers = s /\ q.value = r.value
  BY <1>8, <1>9, EntSupers
<1>11. ent' = [ent EXCEPT ![e] = q] /\ ent = [x \in Entries |-> ent[x]]
  <2>1. ent' = [ent EXCEPT ![e].supers = s]
    BY <1>1, <1>2, <1>3, <1>7 DEF DoLink
  <2>2. ent = [x \in Entries |-> ent[x]]
    BY DEF Inv, EntInv
  <2> QED
    BY <1>8, <1>9, <2>1, <2>2 DEF Deriving
<1>12. ent'[e] = q /\ \A x \in Entries : x # e => ent'[x] = ent[x]
  BY <1>11
<1>13. \A x \in Entries : ent'[x].linked = ent[x].linked
  BY <1>8, <1>10, <1>12
<1>a. PICK a : todo' = a \o Tail(todo) /\ Fits(a) /\ (\A x : ~Has(a, x)) /\ Given(a, Known)
  <2>1. todo[1].op \notin {"create", "insert"}
    BY <1>1
  <2> QED
    BY <1>4, <2>1, NoCalls, Zenon
<1>14. /\ CallsInv' /\ AptInv' /\ EntryInv' /\ Turns(Calls, todo, a, todo') /\ Copied' = Copied
  <2>2. \A k \in Classes : copies'[k] \in Nat /\ copies[k] <= copies'[k]
    BY <1>5, TypesAre
  <2> QED
    BY <1>5, <1>a, <1>13, <2>2, TableStep
<1>15. /\ \A x : Has(todo, x) /\ x # todo[1] => Has(todo', x)
       /\ \A x : Has(todo, Scopes(x)) => Has(todo', Scopes(x))
  BY <1>1, <1>14, HasStays
<1>16. EntInv'
  BY <1>5, <1>6, <1>8, <1>10, <1>11, <1>12 DEF Inv, EntInv
<1>17. ScopeInv' /\ TraitInv'
  BY <1>5, <1>14, <1>15 DEF Inv, ScopeInv, TraitInv, Has
<1>18. TypeOK'
  <2>1. s \subseteq Entries
    BY <1>6, <1>7 DEF Inv, TypeOK
  <2>2. \A x \in Entries : /\ ent'[x].supers \subseteq Entries
                           /\ ent'[x].value \in {None, "unset", "default", "current"}
    BY <1>8, <1>10, <1>12, <2>1 DEF Inv, TypeOK
  <2> QED
    BY <1>5, <2>2 DEF Inv, TypeOK
<1>19. HoldsDescendant' = HoldsDescendant /\ \A c \in Classes : Bases(c)' = Bases(c)
  BY <1>5, SameProgram
<1>20. SupersInv'
  <2> SUFFICES ASSUME ~HoldsDescendant, NEW x \in Entries, ent'[x].linked
               PROVE  /\ ent'[x].supers \subseteq {entry'[k] : k \in Bases(ClassOf(x))}
                      /\ \A k \in Bases(ClassOf(x)) :
                           entry'[k] \in ent'[x].supers \/ Has(todo', Link(x, k))
    BY <1>19, EntriesAre DEF SupersInv, Has
  <2>1. /\ ent[x].supers \subseteq {entry[k] : k \in Bases(ClassOf(x))}
        /\ \A k \in Bases(ClassOf(x)) : entry[k] \in ent[x].supers \/ Has(todo, Link(x, k))
    BY <1>13 DEF Inv, SupersInv
  <2>2. \A k : Link(x, k) = todo[1] => x = e /\ k = d
    BY <1>2, <1>3 DEF Link
  <2>3. CASE x # e
    BY <1>5, <1>12, <1>15, <2>1, <2>2, <2>3
  <2>4. CASE x = e
    <3>1. ent'[x].supers = ent[x].supers \cup {entry[d]}
      BY <1>7, <1>10, <1>12, <2>4
    <3>2. \A k \in Bases(ClassOf(x)) : entry[k] \in ent'[x].supers \/ Has(todo', Link(x, k))
      BY <1>15, <2>1, <2>2, <3>1
    <3> QED
      BY <1>5, <1>6, <2>1, <2>4, <3>1, <3>2
  <2> QED
    BY <2>3, <2>4
<1>21. InstInv'
  BY <1>5, <1>19 DEF Inv, InstInv
<1> QED
  BY <1>5, <1>14, <1>16, <1>17, <1>18, <1>20, <1>21 DEF Inv

\* What the copying of the methods of e leaves alone.
LEMMA CopyMethodsIs ==
  ASSUME Inv, NEW e \in Entries, CopyMethods(e)
  PROVE  /\ scope' \in [Classes -> Entries \cup {NoEntry, Foreign}]
         /\ traited' \in [Classes -> Entries \cup {NoEntry, Foreign}]
         /\ \A c \in Classes : /\ scope[c] # NoEntry => scope'[c] = scope[c]
                               /\ c # ClassOf(e) => traited'[c] = traited[c]
<1>1. /\ scope \in [Classes -> Entries \cup {NoEntry, Foreign}]
      /\ traited \in [Classes -> Entries \cup {NoEntry, Foreign}]
  BY DEF Inv, TypeOK
<1>2. /\ scope' \in [Classes -> Entries \cup {NoEntry, Foreign}]
      /\ \A c \in Classes : scope[c] # NoEntry => scope'[c] = scope[c]
  BY <1>1 DEF CopyMethods
<1>3. /\ traited' \in [Classes -> Entries \cup {NoEntry, Foreign}]
      /\ \A c \in Classes : c # ClassOf(e) => traited'[c] = traited[c]
  <2>1. traited' = traited \/ traited' = [traited EXCEPT ![ClassOf(e)] = Foreign]
    BY DEF CopyMethods
  <2> QED
    BY <1>1, <2>1
<1> QED
  BY <1>2, <1>3

LEMMA CompleteStep ==
  ASSUME Inv, todo # << >>, Call.op = "complete", DoComplete(Call.entry)
  PROVE  Inv'
<1>1. /\ todo[1] \in Calls /\ Call = todo[1] /\ todo[1].op = "complete" /\ Apt(todo[1])
      /\ todo[1].entry \in Entries
  BY FirstIs, CallIs DEF OnEntry
<1>2. PICK e \in Entries : e = todo[1].entry
  BY <1>1
<1>3. Return /\ CopyMethods(e) /\ UNCHANGED <<sourceVars, classVars, ent, objects>>
  BY <1>1, <1>2 DEF DoComplete
<1>4. UNCHANGED <<prog, source, linked, running, table, entry, copies, ent, objects>>
  BY <1>3 DEF sourceVars, classVars
<1>5. ClassOf(e) \in prog.anonymous
  BY <1>1, <1>2 DEF Apt
<1>6. PICK a : todo' = a \o Tail(todo) /\ Fits(a) /\ (\A x : ~Has(a, x)) /\ Given(a, Known)
  <2>1. todo[1].op \notin {"create", "insert"}
    BY <1>1
  <2> QED
    BY <1>3, <2>1, NoCalls, Zenon
<1>7. /\ CallsInv' /\ AptInv' /\ EntryInv' /\ Turns(Calls, todo, a, todo') /\ Copied' = Copied
  <2>1. \A k \in Classes : copies'[k] \in Nat /\ copies[k] <= copies'[k]
    BY <1>4, TypesAre
  <2> QED
    BY <1>4, <1>6, <2>1, TableStep
<1>8. /\ \A x, d : Has(todo, Link(x, d)) => Has(todo', Link(x, d))
      /\ \A x : Has(todo, Scopes(x)) => Has(todo', Scopes(x))
  BY <1>1, <1>7, HasStays
<1>9. /\ scope' \in [Classes -> Entries \cup {NoEntry, Foreign}]
      /\ traited' \in [Classes -> Entries \cup {NoEntry, Foreign}]
      /\ \A c \in Classes : /\ scope[c] # NoEntry => scope'[c] = scope[c]
                            /\ c # ClassOf(e) => traited'[c] = traited[c]
  BY <1>3, CopyMethodsIs
<1>10. SupersInv' /\ EntInv' /\ InstInv'
  <2>1. SupersInv'
    BY <1>4, <1>8, SupersStay
  <2>2. HoldsDescendant' = HoldsDescendant
    BY <1>4, SameProgram
  <2> QED
    BY <1>4, <2>1, <2>2 DEF Inv, EntInv, InstInv
<1>11. ScopeInv'
  BY <1>4, <1>7, <1>8, <1>9 DEF Inv, ScopeInv, Copied, Has
<1>12. TraitInv'
  BY <1>4, <1>5, <1>7, <1>8, <1>9 DEF Inv, TraitInv, Copied, Has
<1>13. TypeOK'
  BY <1>4, <1>9 DEF Inv, TypeOK
<1> QED
  BY <1>4, <1>7, <1>10, <1>11, <1>12, <1>13 DEF Inv

LEMMA ScopesStep ==
  ASSUME Inv, todo # << >>, Call.op = "scopes", DoScopes(Call.entry)
  PROVE  Inv'
<1>1. /\ todo[1] \in Calls /\ Call = todo[1] /\ todo[1].op = "scopes" /\ Apt(todo[1])
      /\ todo[1].entry \in Entries
  BY FirstIs, CallIs DEF OnEntry
<1>2. PICK e \in Entries : e = todo[1].entry
  BY <1>1
<1>3. PICK c \in Classes : c = ClassOf(e)
  BY EntriesAre
<1>4. Return /\ UNCHANGED <<sourceVars, classVars, ent, objects>>
  BY DEF DoScopes
<1>5. UNCHANGED <<prog, source, linked, running, table, entry, copies, ent, objects>>
  BY <1>4 DEF sourceVars, classVars
<1>6. entry[c] = e
  BY <1>1, <1>2, <1>3 DEF Apt
<1>7. PICK a : todo' = a \o Tail(todo) /\ Fits(a) /\ (\A x : ~Has(a, x)) /\ Given(a, Known)
  <2>1. todo[1].op \notin {"create", "insert"}
    BY <1>1
  <2> QED
    BY <1>4, <2>1, NoCalls, Zenon
<1>8. /\ CallsInv' /\ AptInv' /\ EntryInv' /\ Turns(Calls, todo, a, todo') /\ Copied' = Copied
  <2>1. \A k \in Classes : copies'[k] \in Nat /\ copies[k] <= copies'[k]
    BY <1>5, TypesAre
  <2> QED
    BY <1>5, <1>7, <2>1, TableStep
<1>9. /\ \A x, d : Has(todo, Link(x, d)) => Has(todo', Link(x, d))
      /\ \A x : Has(todo, x) /\ x # todo[1] => Has(todo', x)
  BY <1>1, <1>8, HasStays
<1>10. \A x : Scopes(x) = todo[1] => x = e
  BY <1>2 DEF Scopes
<1>11. /\ scope' = [d \in Classes |-> IF d \in Methods(c) \ prog.immutable THEN entry[d] ELSE scope[d]]
       /\ traited' = IF traited[c] = NoEntry THEN traited ELSE [traited EXCEPT ![c] = e]
  BY <1>1, <1>2, <1>3 DEF DoScopes
<1>12. SupersInv' /\ EntInv' /\ InstInv'
  <2>1. SupersInv'
    BY <1>5, <1>9, SupersStay
  <2>2. HoldsDescendant' = HoldsDescendant
    BY <1>5, SameProgram
  <2> QED
    BY <1>5, <2>1, <2>2 DEF Inv, EntInv, InstInv
<1>13. \A d \in Copied : d # c => entry[d] # e
  BY <1>6 DEF Inv, EntryInv, Copied
<1>14. ScopeInv'
  <2> SUFFICES ASSUME NEW d \in Copied PROVE scope'[d] = entry[d] \/ Has(todo', Scopes(entry[d]))
    BY <1>5, <1>8 DEF ScopeInv, Has
  <2>1. CASE d = c
    <3>1. c \in Methods(c) \ prog.immutable
      BY <2>1 DEF Inv, EntryInv, Copied, Methods
    <3> QED
      BY <1>11, <2>1, <3>1
  <2>2. CASE d # c
    <3>1. scope[d] = entry[d] \/ Has(todo, Scopes(entry[d]))
      BY DEF Inv, ScopeInv
    <3>2. Has(todo, Scopes(entry[d])) => Has(todo', Scopes(entry[d]))
      BY <1>9, <1>10, <1>13, <2>2
    <3>3. d \in Classes /\ (scope[d] = entry[d] => scope'[d] = entry[d])
      BY <1>11 DEF Copied
    <3> QED
      BY <3>1, <3>2, <3>3
  <2> QED
    BY <2>1, <2>2
<1>15. TraitInv'
  <2> SUFFICES ASSUME NEW d \in Copied
               PROVE  \/ traited'[d] \in {NoEntry, entry[d]}
                      \/ d \in prog.anonymous \/ Has(todo', Scopes(entry[d]))
    BY <1>5, <1>8 DEF TraitInv, Has
  <2>0. d \in Classes /\ traited \in [Classes -> Entries \cup {NoEntry, Foreign}]
    BY DEF Copied, Inv, TypeOK
  <2>1. CASE d = c
    BY <1>6, <1>11, <2>0, <2>1
  <2>2. CASE d # c
    <3>1. \/ traited[d] \in {NoEntry, entry[d]}
          \/ d \in prog.anonymous \/ Has(todo, Scopes(entry[d]))
      BY DEF Inv, TraitInv
    <3>2. Has(todo, Scopes(entry[d])) => Has(todo', Scopes(entry[d]))
      BY <1>9, <1>10, <1>13, <2>2
    <3>3. traited'[d] = traited[d]
      BY <1>11, <2>0, <2>2
    <3> QED
      BY <3>1, <3>2, <3>3
  <2> QED
    BY <2>1, <2>2
<1>16. TypeOK'
  <2>1. /\ scope \in [Classes -> Entries \cup {NoEntry, Foreign}]
        /\ traited \in [Classes -> Entries \cup {NoEntry, Foreign}]
        /\ entry \in [Classes -> Entries \cup {NoEntry}]
    BY DEF Inv, TypeOK
  <2>2. /\ scope' \in [Classes -> Entries \cup {NoEntry, Foreign}]
        /\ traited' \in [Classes -> Entries \cup {NoEntry, Foreign}]
    BY <1>11, <2>1
  <2> QED
    BY <1>5, <2>2 DEF Inv, TypeOK
<1> QED
  BY <1>5, <1>8, <1>12, <1>14, <1>15, <1>16 DEF Inv

LEMMA KeptMore ==
  ASSUME NEW s, NEW known, Kept(s, {})
  PROVE  Kept(s, known)
  BY DEF Kept

LEMMA LateBindingsKept ==
  ASSUME NEW e \in Entries, NEW known
  PROVE  Kept(LateBindings(e), known) /\ Kept(<< >>, known)
<1>1. \A i \in 1 .. Len(LateBindings(e)) : LateBindings(e)[i] \in {Bind(e), InitStatics(e)}
  BY LateBindingsAre DEF Has
<1>2. Bind(e).op = "bind" /\ InitStatics(e).op = "initstatics"
  BY DEF Bind, InitStatics
<1> QED
  BY <1>1, <1>2, EmptyIs DEF Kept

LEMMA CreateCompleteStep ==
  ASSUME Inv, todo # << >>, Call.op = "create", CreateComplete(Call.class, Call.late)
  PROVE  Inv'
<1>1. /\ todo[1] \in Calls /\ Call = todo[1] /\ todo[1].op = "create" /\ todo[1].class \in Classes
  BY FirstIs, CallIs DEF OnClass
<1>2. PICK c \in Classes : c = todo[1].class
  BY <1>1
<1>3. PICK late : late = todo[1].late
  OBVIOUS
<1>4. CanComplete(c) /\ CreateComplete(c, late)
  BY <1>1, <1>2, <1>3 DEF CreateComplete
<1>5. PICK e \in Entries : e = entry[c]
  BY <1>4, TypesAre DEF CanComplete
<1>6. /\ ClassOf(e) = c /\ c \in prog.anonymous /\ c \in linked /\ ~ent[e].linked /\ e[2] <= copies[c]
      /\ entry[c] # NoEntry /\ prog \in Programs
  BY <1>4, <1>5 DEF CanComplete, Inv, EntryInv
<1>7. UNCHANGED <<prog, source, linked, running, table, entry, copies, scope, traited, objects>>
  BY <1>4 DEF CreateComplete, sourceVars, classVars, scopeVars
<1>8. PICK r : r = ent[e] /\ IsEnt(r)
  BY DEF Inv, EntInv
<1>v. PICK v : v = TRUE
  OBVIOUS
<1>9. PICK q : q = Linking(r, v)
  OBVIOUS
<1>10. IsEnt(q) /\ q.linked = TRUE /\ q.supers = r.supers /\ q.value = r.value
  <2>1. IsEnt(q) /\ q.linked = v /\ q.supers = r.supers /\ q.value = r.value
    BY <1>8, <1>9, EntLinked
  <2> QED
    BY <1>v, <2>1
<1>11. ent' = [ent EXCEPT ![e] = q] /\ ent = [x \in Entries |-> ent[x]]
  <2>1. ent' = [ent EXCEPT ![e].linked = TRUE]
    BY <1>4, <1>5 DEF CreateComplete
  <2>2. ent = [x \in Entries |-> ent[x]]
    BY DEF Inv, EntInv
  <2> QED
    BY <1>v, <1>8, <1>9, <2>1, <2>2 DEF Linking
<1>12. ent'[e] = q /\ \A x \in Entries : x # e => ent'[x] = ent[x]
  BY <1>11
<1>13. PICK l : l = LinkSupers(e)
  OBVIOUS
<1>14. Links(e, Bases(c), l)
  BY <1>6, <1>13, LinkSupersIs, SupersAre
<1>15. PICK f \in Calls : f = Complete(e) /\ f.op = "complete" /\ f.entry = e
  <2>1. Complete(e).op = "complete" /\ Complete(e).entry = e
    BY DEF Complete
  <2> QED
    BY <2>1, CallsAre
<1>16. PICK s \in Seq(Calls) : s = <<f>> /\ Kept(s, Known) /\ \A x : Has(s, x) <=> x = f
  <2>1. <<f>> \in Seq(Calls) /\ Kept(<<f>>, Known)
    BY <1>15, OneKept
  <2>2. \A x : Has(<<f>>, x) <=> x = f
    BY HasIs
  <2> QED
    BY <2>1, <2>2
<1>17. PICK b \in Seq(Calls) : /\ b = (IF late THEN LateBindings(e) ELSE << >>) /\ Kept(b, Known)
                               /\ \A x : Has(b, x) => x \in {Bind(e), InitStatics(e)}
  <2>1. /\ LateBindings(e) \in Seq(Calls) /\ << >> \in Seq(Calls)
        /\ Kept(LateBindings(e), Known) /\ Kept(<< >>, Known)
    BY LateBindingsAre, LateBindingsKept, EmptyIs
  <2>2. \A x : (Has(LateBindings(e), x) => x \in {Bind(e), InitStatics(e)}) /\ ~Has(<< >>, x)
    BY LateBindingsAre, HasIs
  <2> QED
    BY <2>1, <2>2
<1>18. l \in Seq(Calls) /\ Kept(l, Known)
  BY <1>14, KeptMore DEF Links
<1>19. PICK k \in Seq(Calls) : k = l \o s /\ Kept(k, Known) /\ \A x : Has(k, x) <=> Has(l, x) \/ Has(s, x)
  <2>1. l \o s \in Seq(Calls) /\ \A x : Has(l \o s, x) <=> Has(l, x) \/ Has(s, x)
    BY <1>18, HasConcat
  <2>2. Concat(Calls, l, s, l \o s)
    BY <1>18, ConcatIs
  <2>3. Kept(l \o s, Known)
    BY <1>16, <1>18, <2>2, KeptConcat
  <2> QED
    BY <2>1, <2>3
<1>20. PICK a \in Seq(Calls) : a = k \o b /\ Kept(a, Known) /\ \A x : Has(a, x) <=> Has(k, x) \/ Has(b, x)
  <2>1. k \o b \in Seq(Calls) /\ \A x : Has(k \o b, x) <=> Has(k, x) \/ Has(b, x)
    BY HasConcat
  <2>2. Concat(Calls, k, b, k \o b)
    BY ConcatIs
  <2>3. Kept(k \o b, Known)
    BY <1>17, <1>19, <2>2, KeptConcat
  <2> QED
    BY <2>1, <2>3
<1>21. todo' = a \o Tail(todo)
  BY <1>4, <1>5, <1>13, <1>15, <1>16, <1>17, <1>19, <1>20 DEF CreateComplete, Then
<1>22. ASSUME NEW x \in Calls, Has(a, x)
       PROVE  \/ x.op = "create" /\ x.class \in Bases(c)
              \/ x.op = "link" /\ x.entry = e /\ x.class \in Bases(c)
              \/ x.op = "complete" /\ x.entry = e
              \/ x.op = "bind"
              \/ x.op = "initstatics" /\ x.entry = e
  <2>1. Has(l, x) \/ x = f \/ x \in {Bind(e), InitStatics(e)}
    BY <1>16, <1>17, <1>19, <1>20, <1>22
  <2>2. Has(l, x) => \E d \in Bases(c) : x = Create(d, TRUE) \/ x = Link(e, d)
    BY <1>14 DEF Links, Has
  <2> QED
    BY <1>15, <2>1, <2>2 DEF Create, Link, Bind, InitStatics
<1>23. Fits(a)
  <2>1. Ordered(a, Order)
    <3>1. \A i \in 1 .. Len(a) : a[i] \in Calls /\ Has(a, a[i])
      BY ElementOfSeq DEF Has
    <3>2. \A i \in 1 .. Len(a) : a[i].op \notin {"insert", "scopes"}
      BY <1>22, <3>1
    <3> QED
      BY <3>2, OrderedWithin
  <2>2. \A x \in Calls, d \in Classes : Has(a, x) /\ Under(todo[1], d) => Under(x, d)
    <3> SUFFICES ASSUME NEW x \in Calls, NEW d \in Classes, Has(a, x), Under(todo[1], d)
                 PROVE  Under(x, d)
      OBVIOUS
    <3>1. c \in Below(d)
      BY <1>1, <1>2 DEF Under
    <3>2. Bases(c) \subseteq Below(d)
      BY <1>6, <3>1, BelowIs
    <3> QED
      BY <1>6, <1>22, <3>1, <3>2 DEF Under
  <2>3. \A x \in Calls : Has(a, x) => x.op # "insert"
    BY <1>22
  <2> QED
    BY <2>1, <2>2, <2>3, FitsWithin
<1>24. Given(a, Known)
  BY <1>1, <1>2, <1>6, <1>20 DEF Given, Gives, Known
<1>25. HoldsDescendant' = HoldsDescendant /\ \A d \in Classes : Bases(d)' = Bases(d)
  BY <1>7, SameProgram
<1>26. \A x \in Calls : Has(a, x) => Apt(x)'
  <2> SUFFICES ASSUME NEW x \in Calls, Has(a, x) PROVE Apt(x)'
    OBVIOUS
  <2>1. x.op = "link" => ent'[x.entry].linked /\ x.class \in Bases(ClassOf(x.entry))'
    BY <1>6, <1>10, <1>12, <1>22, <1>25
  <2>2. x.op = "complete" => ClassOf(x.entry) \in prog'.anonymous
    BY <1>6, <1>7, <1>22
  <2>3. x.op \in {"create", "link", "complete", "bind", "initstatics"}
    BY <1>22
  <2> QED
    BY <2>1, <2>2, <2>3 DEF Apt
<1>27. /\ CallsInv' /\ AptInv' /\ EntryInv' /\ Turns(Calls, todo, a, todo') /\ Copied' = Copied
  <2>1. \A d \in Classes : copies'[d] \in Nat /\ copies[d] <= copies'[d]
    BY <1>7, TypesAre
  <2>2. \A x \in Entries : ent[x].linked => ent'[x].linked
    BY <1>6, <1>12
  <2> QED
    BY <1>7, <1>21, <1>23, <1>24, <1>26, <2>1, <2>2, TableStep
<1>28. /\ \A x, d : Has(todo, Link(x, d)) => Has(todo', Link(x, d))
       /\ \A x : Has(todo, Scopes(x)) => Has(todo', Scopes(x))
       /\ \A x : Has(a, x) => Has(todo', x)
  BY <1>1, <1>27, HasStays
<1>29. EntInv'
  BY <1>6, <1>7, <1>10, <1>11, <1>12 DEF Inv, EntInv
<1>30. ScopeInv' /\ TraitInv'
  BY <1>7, <1>27, <1>28 DEF Inv, ScopeInv, TraitInv, Has
<1>31. TypeOK'
  <2>1. \A x \in Entries : /\ ent'[x].supers \subseteq Entries
                           /\ ent'[x].value \in {None, "unset", "default", "current"}
    BY <1>8, <1>10, <1>12 DEF Inv, TypeOK
  <2> QED
    BY <1>7, <2>1 DEF Inv, TypeOK
<1>32. SupersInv'
  <2> SUFFICES ASSUME ~HoldsDescendant, NEW x \in Entries, ent'[x].linked
               PROVE  /\ ent'[x].supers \subseteq {entry'[d] : d \in Bases(ClassOf(x))}
                      /\ \A d \in Bases(ClassOf(x)) :
                           entry'[d] \in ent'[x].supers \/ Has(todo', Link(x, d))
    BY <1>25, EntriesAre DEF SupersInv, Has
  <2>1. CASE x # e
    <3>1. /\ ent[x].supers \subseteq {entry[d] : d \in Bases(ClassOf(x))}
          /\ \A d \in Bases(ClassOf(x)) : entry[d] \in ent[x].supers \/ Has(todo, Link(x, d))
      BY <1>12, <2>1 DEF Inv, SupersInv
    <3> QED
      BY <1>7, <1>12, <1>28, <2>1, <3>1
  <2>2. CASE x = e
    <3>1. ent'[x].supers = {}
      BY <1>6, <1>8, <1>10, <1>12, <2>2 DEF Inv, EntInv
    <3>2. \A d \in Bases(ClassOf(x)) : Has(l, Link(x, d))
      BY <1>6, <1>14, <2>2 DEF Links
    <3> QED
      BY <1>19, <1>20, <1>28, <3>1, <3>2
  <2> QED
    BY <2>1, <2>2
<1>33. InstInv'
  BY <1>7, <1>25 DEF Inv, InstInv
<1> QED
  BY <1>6, <1>7, <1>27, <1>29, <1>30, <1>31, <1>32, <1>33 DEF Inv

LEMMA CreateCopyStep ==
  ASSUME Inv, todo # << >>, Call.op = "create", CreateCopy(Call.class, Call.late)
  PROVE  Inv'
<1>1. /\ todo[1] \in Calls /\ Call = todo[1] /\ todo[1].op = "create" /\ todo[1].class \in Classes
      /\ todo[1].late \in BOOLEAN
  BY FirstIs, CallIs DEF OnClass
<1>2. PICK c \in Classes : c = todo[1].class
  BY <1>1
<1>3. PICK late \in BOOLEAN : late = todo[1].late
  BY <1>1
<1>4. CreateCopy(c, late) /\ prog \in Programs
  BY <1>1, <1>2, <1>3 DEF Inv
<1>5. PICK e : e = <<c, copies[c] + 1>>
  OBVIOUS
<1>6. entry[c] = NoEntry /\ c \notin prog.immutable /\ copies[c] < MaxCopies
  BY <1>4 DEF CreateCopy
<1>7. /\ copies' = [copies EXCEPT ![c] = copies[c] + 1] /\ ent' = [ent EXCEPT ![e].linked = c \in linked]
      /\ todo' = (LinkSupers(e) \o <<Insert(e, late)>>) \o Tail(todo)
      /\ UNCHANGED <<sourceVars, table, entry, scopeVars, objects>>
  BY <1>4, <1>5 DEF CreateCopy, Then
<1>8. UNCHANGED <<prog, source, linked, running, table, entry, scope, traited, objects>>
  BY <1>7 DEF sourceVars, scopeVars
<1>9. /\ copies \in [Classes -> 0 .. MaxCopies] /\ copies[c] \in Nat /\ MaxCopies \in Nat
  BY BoundsAssumption, TypesAre DEF Inv, TypeOK
<1>10. copies[c] + 1 \in 0 .. MaxCopies /\ copies[c] + 1 # 0 /\ ~(copies[c] + 1 <= copies[c])
  BY <1>6, <1>9
<1>11. e \in Entries /\ ClassOf(e) = c /\ e[2] = copies[c] + 1 /\ ~IsShared(e)
  BY <1>5, <1>10, EntriesAre DEF IsShared
<1>12. /\ copies' \in [Classes -> 0 .. MaxCopies] /\ copies'[c] = copies[c] + 1
       /\ \A d \in Classes : copies'[d] \in Nat /\ copies[d] <= copies'[d]
  BY <1>7, <1>9, <1>10
<1>13. ~ent[e].linked /\ ent[e].supers = {}
  BY <1>10, <1>11 DEF Inv, EntInv
<1>14. PICK v \in BOOLEAN : v = (c \in linked)
  <2>1. (c \in linked) \in BOOLEAN
    OBVIOUS
  <2> QED
    BY <2>1
<1>15. PICK r : r = ent[e] /\ IsEnt(r)
  BY <1>11 DEF Inv, EntInv
<1>16. PICK q : q = Linking(r, v)
  OBVIOUS
<1>17. IsEnt(q) /\ q.linked = v /\ q.supers = r.supers /\ q.value = r.value
  BY <1>15, <1>16, EntLinked
<1>18. ent' = [ent EXCEPT ![e] = q] /\ ent = [x \in Entries |-> ent[x]]
  <2>1. ent' = [ent EXCEPT ![e].linked = v]
    BY <1>7, <1>14
  <2>2. ent = [x \in Entries |-> ent[x]]
    BY DEF Inv, EntInv
  <2> QED
    BY <1>11, <1>15, <1>16, <2>1, <2>2 DEF Linking
<1>19. ent'[e] = q /\ \A x \in Entries : x # e => ent'[x] = ent[x]
  BY <1>11, <1>18
<1>20. PICK D : D = IF c \in linked THEN Bases(c) ELSE {}
  OBVIOUS
<1>21. PICK l : l = LinkSupers(e)
  OBVIOUS
<1>22. Links(e, D, l)
  BY <1>4, <1>11, <1>20, <1>21, LinkSupersIs, SupersAre
<1>23. D \subseteq Bases(c) /\ Bases(c) \subseteq Below(c)
  BY <1>4, <1>20, BelowIs
<1>24. PICK f \in Calls : f = Insert(e, late) /\ f.op = "insert" /\ f.entry = e
  <2>1. Insert(e, late).op = "insert" /\ Insert(e, late).entry = e
    BY DEF Insert
  <2> QED
    BY <1>11, <2>1, CallsAre
<1>25. PICK s \in Seq(Calls) : /\ s = <<f>> /\ Kept(s, Known) /\ Len(s) = 1 /\ s[1] = f
                               /\ \A x : Has(s, x) <=> x = f
  <2>1. <<f>> \in Seq(Calls) /\ Kept(<<f>>, Known)
    BY <1>24, OneKept
  <2>2. \A x : Has(<<f>>, x) <=> x = f
    BY HasIs
  <2> QED
    BY <2>1, <2>2, OneIs
<1>26. l \in Seq(Calls) /\ Kept(l, Known)
  BY <1>22, KeptMore DEF Links
<1>27. PICK a \in Seq(Calls) : /\ a = l \o s /\ Kept(a, Known) /\ Concat(Calls, l, s, a)
                               /\ \A x : Has(a, x) <=> Has(l, x) \/ Has(s, x)
  <2>1. l \o s \in Seq(Calls) /\ \A x : Has(l \o s, x) <=> Has(l, x) \/ Has(s, x)
    BY <1>26, HasConcat
  <2>2. Concat(Calls, l, s, l \o s)
    BY <1>26, ConcatIs
  <2>3. Kept(l \o s, Known)
    BY <1>25, <1>26, <2>2, KeptConcat
  <2> QED
    BY <2>1, <2>2, <2>3
<1>28. todo' = a \o Tail(todo)
  BY <1>7, <1>21, <1>24, <1>25, <1>27
<1>29. ASSUME NEW x, Has(l, x)
       PROVE  \/ x.op = "create" /\ x.class \in D
              \/ x.op = "link" /\ x.entry = e /\ x.class \in D
  <2>1. PICK d \in D : x = Create(d, TRUE) \/ x = Link(e, d)
    BY <1>22, <1>29 DEF Links, Has
  <2> QED
    BY <2>1 DEF Create, Link
<1>30. Ordered(a, Order)
  <2> SUFFICES ASSUME NEW i \in 1 .. Len(a), NEW j \in 1 .. Len(a), i < j
               PROVE  <<a[i], a[j]>> \in Order
    BY DEF Ordered
  <2>1. a[i] \in Calls /\ a[j] \in Calls
    BY ElementOfSeq
  <2>2. i \in 1 .. Len(l) /\ a[i] = l[i]
    BY <1>25, <1>27 DEF Concat
  <2>3. Has(l, a[i])
    BY <2>2 DEF Has
  <2>4. Under(a[i], c) /\ a[i].op # "insert"
    BY <1>23, <1>29, <2>3 DEF Under
  <2>5. Has(l, a[j]) \/ a[j] = f
    <3>1. Has(a, a[j])
      BY DEF Has
    <3> QED
      BY <1>25, <1>27, <3>1
  <2>6. Has(l, a[j]) => a[j].op \notin {"insert", "scopes"}
    BY <1>29
  <2>7. Precedes(a[i], a[j])
    BY <1>11, <1>24, <2>4, <2>5, <2>6 DEF Precedes
  <2> QED
    BY <2>1, <2>7 DEF Order
<1>31. Fits(a)
  <2>1. \A x \in Calls, d \in Classes : Has(a, x) /\ Under(todo[1], d) => Under(x, d)
    <3> SUFFICES ASSUME NEW x \in Calls, NEW d \in Classes, Has(a, x), Under(todo[1], d)
                 PROVE  Under(x, d)
      OBVIOUS
    <3>1. c \in Below(d)
      BY <1>1, <1>2 DEF Under
    <3>2. D \subseteq Below(d)
      BY <1>4, <1>23, <3>1, BelowIs
    <3>3. Has(l, x) \/ x = f
      BY <1>25, <1>27
    <3> QED
      BY <1>11, <1>24, <1>29, <3>1, <3>2, <3>3 DEF Under
  <2>2. \A x \in Calls : Has(a, x) /\ x.op = "insert" => entry[ClassOf(x.entry)] = NoEntry
    BY <1>6, <1>11, <1>24, <1>25, <1>27, <1>29
  <2> QED
    BY <1>30, <2>1, <2>2, FitsWithin
<1>32. Given(a, Known)
  <2>1. Gives(f, c) /\ Has(a, f)
    BY <1>11, <1>24, <1>25, <1>27 DEF Gives
  <2>2. PICK i \in 1 .. Len(a) : Gives(a[i], c)
    BY <2>1 DEF Has
  <2>3. \A d : Gives(todo[1], d) => d = c
    BY <1>1, <1>2 DEF Gives
  <2> QED
    BY <1>27, <2>2, <2>3 DEF Given
<1>33. HoldsDescendant' = HoldsDescendant /\ \A d \in Classes : Bases(d)' = Bases(d)
  BY <1>8, SameProgram
<1>34. \A x \in Calls : Has(a, x) => Apt(x)'
  <2> SUFFICES ASSUME NEW x \in Calls, Has(a, x) PROVE Apt(x)'
    OBVIOUS
  <2>1. CASE x = f
    <3>1. copies[c] + 1 <= copies'[c]
      BY <1>9, <1>12
    <3> QED
      BY <1>6, <1>8, <1>11, <1>24, <2>1, <3>1 DEF Apt
  <2>2. CASE Has(l, x)
    <3>1. x.op = "link" => ent'[x.entry].linked /\ x.class \in Bases(ClassOf(x.entry))'
      BY <1>11, <1>14, <1>17, <1>19, <1>20, <1>29, <1>33, <2>2
    <3>2. x.op \in {"create", "link"}
      BY <1>29, <2>2
    <3> QED
      BY <3>1, <3>2 DEF Apt
  <2> QED
    BY <1>25, <1>27, <2>1, <2>2
<1>35. /\ CallsInv' /\ AptInv' /\ EntryInv' /\ Turns(Calls, todo, a, todo') /\ Copied' = Copied
  <2>1. \A x \in Entries : ent[x].linked => ent'[x].linked
    BY <1>13, <1>19
  <2> QED
    BY <1>8, <1>12, <1>28, <1>31, <1>32, <1>34, <2>1, TableStep
<1>36. /\ \A x, d : Has(todo, Link(x, d)) => Has(todo', Link(x, d))
       /\ \A x : Has(todo, Scopes(x)) => Has(todo', Scopes(x))
       /\ \A x : Has(a, x) => Has(todo', x)
  BY <1>1, <1>35, HasStays
<1>37. EntInv'
  <2>1. ASSUME NEW x \in Entries
        PROVE  /\ IsEnt(ent'[x]) /\ ent'[x].linked \in BOOLEAN
               /\ ent'[x].linked => ClassOf(x) \in linked /\ x[2] <= copies'[ClassOf(x)]
               /\ ~ent'[x].linked => ent'[x].supers = {}
    <3>1. CASE x = e
      <4>1. e[2] <= copies'[c]
        BY <1>9, <1>11, <1>12
      <4> QED
        BY <1>11, <1>13, <1>14, <1>15, <1>17, <1>19, <3>1, <4>1
    <3>2. CASE x # e
      <4>1. /\ IsEnt(ent[x]) /\ ent[x].linked \in BOOLEAN
            /\ ent[x].linked => ClassOf(x) \in linked /\ x[2] <= copies[ClassOf(x)]
            /\ ~ent[x].linked => ent[x].supers = {}
        BY DEF Inv, EntInv
      <4>2. ClassOf(x) \in Classes /\ x[2] \in Nat
        BY EntriesAre, BoundsAssumption
      <4>3. x[2] <= copies[ClassOf(x)] => x[2] <= copies'[ClassOf(x)]
        BY <1>12, <4>2, TypesAre
      <4> QED
        BY <1>19, <3>2, <4>1, <4>3
    <3> QED
      BY <3>1, <3>2
  <2>2. ent' = [x \in Entries |-> ent'[x]]
    BY <1>18
  <2> QED
    BY <1>8, <2>1, <2>2 DEF EntInv
<1>38. ScopeInv' /\ TraitInv'
  BY <1>8, <1>35, <1>36 DEF Inv, ScopeInv, TraitInv, Has
<1>39. TypeOK'
  <2>1. \A x \in Entries : /\ ent'[x].supers \subseteq Entries
                           /\ ent'[x].value \in {None, "unset", "default", "current"}
    BY <1>15, <1>17, <1>19 DEF Inv, TypeOK
  <2> QED
    BY <1>8, <1>12, <2>1 DEF Inv, TypeOK
<1>40. SupersInv'
  <2> SUFFICES ASSUME ~HoldsDescendant, NEW x \in Entries, ent'[x].linked
               PROVE  /\ ent'[x].supers \subseteq {entry'[d] : d \in Bases(ClassOf(x))}
                      /\ \A d \in Bases(ClassOf(x)) :
                           entry'[d] \in ent'[x].supers \/ Has(todo', Link(x, d))
    BY <1>33, EntriesAre DEF SupersInv, Has
  <2>1. CASE x # e
    <3>1. /\ ent[x].supers \subseteq {entry[d] : d \in Bases(ClassOf(x))}
          /\ \A d \in Bases(ClassOf(x)) : entry[d] \in ent[x].supers \/ Has(todo, Link(x, d))
      BY <1>19, <2>1 DEF Inv, SupersInv
    <3> QED
      BY <1>8, <1>19, <1>36, <2>1, <3>1
  <2>2. CASE x = e
    <3>1. ent'[x].supers = {} /\ c \in linked
      BY <1>13, <1>14, <1>15, <1>17, <1>19, <2>2
    <3>2. \A d \in Bases(ClassOf(x)) : Has(l, Link(x, d))
      BY <1>11, <1>20, <1>22, <2>2, <3>1 DEF Links
    <3> QED
      BY <1>27, <1>36, <3>1, <3>2
  <2> QED
    BY <2>1, <2>2
<1>41. InstInv'
  BY <1>8, <1>33 DEF Inv, InstInv
<1> QED
  BY <1>4, <1>8, <1>35, <1>37, <1>38, <1>39, <1>40, <1>41 DEF Inv

-----------------------------------------------------------------------------
(* Steps that enter a class.                                               *)

LEMMA PutIs ==
  ASSUME Inv, NEW c \in Classes, NEW e \in Entries, Put(c, e)
  PROVE  /\ table' \in Seq(Classes) /\ IsInjective(table')
         /\ entry' \in [Classes -> Entries \cup {NoEntry}]
         /\ \A d \in Classes : entry'[d] # NoEntry <=> \E i \in DOMAIN table' : table'[i] = d
         /\ Len(table) \in Nat /\ Len(table') \in Nat /\ Len(table) <= Len(table')
         /\ entry'[c] = e /\ e # NoEntry /\ \A d \in Classes : d # c => entry'[d] = entry[d]
         /\ Known' = Known \cup {c}
<1>1. /\ table \in Seq(Classes) /\ IsInjective(table)
      /\ entry \in [Classes -> Entries \cup {NoEntry}]
      /\ \A d \in Classes : entry[d] # NoEntry <=> \E i \in DOMAIN table : table[i] = d
  BY DEF Inv, TypeOK
<1>2. /\ entry' = [entry EXCEPT ![c] = e]
      /\ table' = IF entry[c] = NoEntry THEN Append(table, c) ELSE table
  BY DEF Put
<1>3. e # NoEntry
  BY EntriesAre
<1>4. /\ entry' \in [Classes -> Entries \cup {NoEntry}] /\ entry'[c] = e
      /\ \A d \in Classes : d # c => entry'[d] = entry[d]
  BY <1>1, <1>2
<1>5. Known' = Known \cup {c}
  BY <1>3, <1>4 DEF Known
<1>6. Len(table) \in Nat /\ DOMAIN table = 1 .. Len(table)
  BY <1>1, LenProperties
<1>7. CASE entry[c] # NoEntry
  BY <1>1, <1>2, <1>3, <1>4, <1>5, <1>6, <1>7
<1>8. CASE entry[c] = NoEntry
  <2>1. table' = Append(table, c)
    BY <1>2, <1>8
  <2>2. PICK n \in Nat : n = Len(table)
    BY <1>6
  <2>3. /\ table' \in Seq(Classes) /\ Len(table') = n + 1 /\ DOMAIN table' = 1 .. n + 1
        /\ table'[n + 1] = c /\ \A i \in 1 .. n : table'[i] = table[i]
    <3>1. /\ Append(table, c) \in Seq(Classes) /\ Len(Append(table, c)) = n + 1
          /\ Append(table, c)[n + 1] = c /\ \A i \in 1 .. n : Append(table, c)[i] = table[i]
      BY <1>1, <2>2, AppendProperties
    <3>2. DOMAIN Append(table, c) = 1 .. n + 1
      BY <3>1, LenProperties
    <3> QED
      BY <2>1, <3>1, <3>2
  <2>4. \A i \in 1 .. n + 1 : i \in 1 .. n \/ i = n + 1
    OBVIOUS
  <2>5. n + 1 \in 1 .. n + 1 /\ \A i \in 1 .. n : i \in 1 .. n + 1
    OBVIOUS
  <2>6. \A i \in 1 .. n : table[i] # c
    BY <1>1, <1>6, <1>8, <2>2
  <2>7. \A i, j \in DOMAIN table : table[i] = table[j] => i = j
    BY <1>1 DEF IsInjective
  <2>8. \A i, j \in DOMAIN table' : table'[i] = table'[j] => i = j
    <3> SUFFICES ASSUME NEW i \in 1 .. n + 1, NEW j \in 1 .. n + 1, table'[i] = table'[j]
                 PROVE  i = j
      BY <2>3
    <3>1. CASE i = n + 1
      BY <2>3, <2>4, <2>6, <3>1
    <3>2. CASE j = n + 1
      BY <2>3, <2>4, <2>6, <3>2
    <3>3. CASE i \in 1 .. n /\ j \in 1 .. n
      BY <1>6, <2>2, <2>3, <2>7, <3>3
    <3> QED
      BY <2>4, <3>1, <3>2, <3>3
  <2>9. IsInjective(table')
    BY <2>8 DEF IsInjective
  <2>10. ASSUME NEW d \in Classes PROVE entry'[d] # NoEntry <=> \E i \in DOMAIN table' : table'[i] = d
    <3>1. CASE d = c
      BY <1>3, <1>4, <2>3, <2>5, <3>1
    <3>2. CASE d # c
      <4>1. entry'[d] # NoEntry <=> \E i \in 1 .. n : table[i] = d
        BY <1>1, <1>4, <1>6, <2>2, <3>2
      <4>2. (\E i \in 1 .. n : table[i] = d) <=> \E i \in 1 .. n + 1 : table'[i] = d
        BY <2>3, <2>4, <2>5, <3>2
      <4> QED
        BY <2>3, <4>1, <4>2
    <3> QED
      BY <3>1, <3>2
  <2>11. Len(table') \in Nat /\ Len(table) <= Len(table')
    BY <2>2, <2>3
  <2> QED
    BY <1>3, <1>4, <1>5, <1>6, <2>3, <2>9, <2>10, <2>11
<1> QED
  BY <1>7, <1>8

\* An entry that a class has already is not replaced, save with HoldsDescendant.
LEMMA PutStay ==
  ASSUME Inv, prog' = prog, objects' = objects, ent' = ent, NEW c \in Classes,
         HoldsDescendant \/ entry[c] = NoEntry,
         \A d \in Classes : d # c => entry'[d] = entry[d],
         \A e, d : Has(todo, Link(e, d)) => Has(todo', Link(e, d))
  PROVE  SupersInv' /\ InstInv'
<1>1. HoldsDescendant' = HoldsDescendant /\ \A d \in Classes : Bases(d)' = Bases(d)
  BY SameProgram
<1>2. CASE HoldsDescendant
  BY <1>1, <1>2 DEF SupersInv, InstInv
<1>3. CASE ~HoldsDescendant
  <2>1. \A d \in Classes : entry[d] # NoEntry => entry'[d] = entry[d]
    BY <1>3
  <2>2. SupersInv'
    <3> SUFFICES ASSUME NEW e \in Entries, ent[e].linked
                 PROVE  /\ ent[e].supers \subseteq {entry'[d] : d \in Bases(ClassOf(e))}
                        /\ \A d \in Bases(ClassOf(e)) :
                             entry'[d] \in ent[e].supers \/ Has(todo', Link(e, d))
      BY <1>1, EntriesAre DEF SupersInv, Has
    <3>1. /\ ent[e].supers \subseteq {entry[d] : d \in Bases(ClassOf(e))}
          /\ \A d \in Bases(ClassOf(e)) : entry[d] \in ent[e].supers \/ Has(todo, Link(e, d))
      BY <1>3 DEF Inv, SupersInv
    <3>2. ent[e].supers \subseteq Entries /\ NoEntry \notin Entries
      BY EntriesAre DEF Inv, TypeOK
    <3>3. Bases(ClassOf(e)) \subseteq Classes
      <4>1. prog \in Programs /\ ClassOf(e) \in Classes
        BY EntriesAre DEF Inv
      <4> QED
        BY <4>1, LeadsAre
    <3>4. \A d \in Bases(ClassOf(e)) : entry[d] \in ent[e].supers => entry'[d] = entry[d]
      BY <2>1, <3>2, <3>3
    <3>5. ASSUME NEW s \in ent[e].supers PROVE \E d \in Bases(ClassOf(e)) : s = entry'[d]
      BY <3>1, <3>4, <3>5
    <3> QED
      BY <3>1, <3>4, <3>5
  <2>3. InstInv'
    <3> SUFFICES ASSUME NEW o \in objects PROVE o.entry = entry'[ClassOf(o.entry)]
      BY DEF InstInv
    <3>1. o.entry = entry[ClassOf(o.entry)] /\ o.entry \in Entries
      BY <1>3 DEF Inv, InstInv, TypeOK
    <3>2. ClassOf(o.entry) \in Classes /\ o.entry # NoEntry
      BY <3>1, EntriesAre
    <3> QED
      BY <2>1, <3>1, <3>2
  <2> QED
    BY <2>2, <2>3
<1> QED
  BY <1>2, <1>3

LEMMA CreateSharedStep ==
  ASSUME Inv, todo # << >>, Call.op = "create", CreateShared(Call.class, Call.late)
  PROVE  Inv'
<1>1. /\ todo[1] \in Calls /\ Call = todo[1] /\ todo[1].op = "create" /\ todo[1].class \in Classes
      /\ todo[1].late \in BOOLEAN
  BY FirstIs, CallIs DEF OnClass
<1>2. PICK c \in Classes : c = todo[1].class
  BY <1>1
<1>3. PICK late \in BOOLEAN : late = todo[1].late
  BY <1>1
<1>4. CreateShared(c, late) /\ prog \in Programs
  BY <1>1, <1>2, <1>3 DEF Inv
<1>5. PICK e \in Entries : e = <<c, 0>> /\ ClassOf(e) = c /\ e[2] = 0 /\ IsShared(e)
  <2>1. 0 \in 0 .. MaxCopies
    BY BoundsAssumption
  <2>2. <<c, 0>> \in Entries /\ ClassOf(<<c, 0>>) = c
    BY <2>1, EntriesAre
  <2> QED
    BY <2>2 DEF IsShared
<1>6. entry[c] = NoEntry /\ c \in prog.immutable /\ Put(c, e)
  BY <1>4, <1>5 DEF CreateShared
<1>7. UNCHANGED <<prog, source, linked, running, copies, ent, scope, traited, objects>>
  BY <1>4 DEF CreateShared, sourceVars, scopeVars
<1>8. /\ table' \in Seq(Classes) /\ IsInjective(table')
      /\ entry' \in [Classes -> Entries \cup {NoEntry}]
      /\ \A d \in Classes : entry'[d] # NoEntry <=> \E i \in DOMAIN table' : table'[i] = d
      /\ Len(table) \in Nat /\ Len(table') \in Nat /\ Len(table) <= Len(table')
      /\ entry'[c] = e /\ e # NoEntry /\ \A d \in Classes : d # c => entry'[d] = entry[d]
      /\ Known' = Known \cup {c}
  BY <1>6, PutIs
<1>9. PICK p \in Seq(Leads(c)) : p = Dependencies(c)
  BY <1>4, <1>6, DependenciesAre
<1>10. PICK n \in Nat : n = Len(p) /\ DOMAIN p = 1 .. n
  BY LenProperties
<1>11. \A i \in 1 .. n : p[i] \in Leads(c) /\ p[i] \in Classes
  BY <1>4, <1>10, ElementOfSeq, LeadsAre
<1>12. PICK l : l = [i \in 1 .. n |-> Create(p[i], late)]
  OBVIOUS
<1>13. l \in Seq(Calls) /\ Len(l) = n
  <2>1. \A i \in 1 .. n : Create(p[i], late) \in Calls
    BY <1>11, CallsAre
  <2>2. l \in [1 .. n -> Calls]
    BY <1>12, <2>1
  <2> QED
    BY <2>2, FunctionIsSeq
<1>14. \A i \in 1 .. Len(l) : l[i].op = "create" /\ l[i].class \in Leads(c)
  BY <1>11, <1>12, <1>13 DEF Create
<1>15. PICK b \in Seq(Calls) : /\ b = (IF late THEN LateBindings(e) ELSE << >>) /\ Kept(b, Known')
                               /\ \A x : Has(b, x) => x \in {Bind(e), InitStatics(e)}
  <2>1. /\ LateBindings(e) \in Seq(Calls) /\ << >> \in Seq(Calls)
        /\ Kept(LateBindings(e), Known') /\ Kept(<< >>, Known')
    BY LateBindingsAre, LateBindingsKept, EmptyIs
  <2>2. \A x : (Has(LateBindings(e), x) => x \in {Bind(e), InitStatics(e)}) /\ ~Has(<< >>, x)
    BY LateBindingsAre, HasIs
  <2> QED
    BY <2>1, <2>2
<1>16. PICK a \in Seq(Calls) : /\ a = l \o b /\ Kept(a, Known')
                               /\ \A x : Has(a, x) <=> Has(l, x) \/ Has(b, x)
  <2>1. l \o b \in Seq(Calls) /\ \A x : Has(l \o b, x) <=> Has(l, x) \/ Has(b, x)
    BY <1>13, HasConcat
  <2>2. Concat(Calls, l, b, l \o b)
    BY <1>13, ConcatIs
  <2>3. Kept(l, Known')
    BY <1>14 DEF Kept
  <2>4. Kept(l \o b, Known')
    BY <1>15, <2>2, <2>3, KeptConcat
  <2> QED
    BY <2>1, <2>4
<1>17. todo' = a \o Tail(todo)
  BY <1>4, <1>5, <1>9, <1>10, <1>12, <1>15, <1>16 DEF CreateShared, Then
<1>18. ASSUME NEW x, Has(a, x)
       PROVE  \/ x.op = "create" /\ x.class \in Leads(c)
              \/ x.op = "bind"
              \/ x.op = "initstatics" /\ x.entry = e
  <2>1. Has(l, x) \/ x \in {Bind(e), InitStatics(e)}
    BY <1>15, <1>16, <1>18
  <2>2. Has(l, x) => x.op = "create" /\ x.class \in Leads(c)
    BY <1>14 DEF Has
  <2> QED
    BY <2>1, <2>2 DEF Bind, InitStatics
<1>19. Fits(a)
  <2>1. Ordered(a, Order)
    <3>1. \A i \in 1 .. Len(a) : Has(a, a[i])
      BY DEF Has
    <3>2. \A i \in 1 .. Len(a) : a[i].op \notin {"insert", "scopes"}
      BY <1>18, <3>1
    <3> QED
      BY <3>2, OrderedWithin
  <2>2. \A x \in Calls, d \in Classes : Has(a, x) /\ Under(todo[1], d) => Under(x, d)
    <3> SUFFICES ASSUME NEW x \in Calls, NEW d \in Classes, Has(a, x), Under(todo[1], d)
                 PROVE  Under(x, d)
      OBVIOUS
    <3>1. c \in Below(d)
      BY <1>1, <1>2 DEF Under
    <3>2. Leads(c) \subseteq Below(d)
      BY <1>4, <3>1, BelowIs
    <3> QED
      BY <1>5, <1>18, <3>1, <3>2 DEF Under
  <2>3. \A x \in Calls : Has(a, x) => x.op # "insert"
    BY <1>18
  <2> QED
    BY <2>1, <2>2, <2>3, FitsWithin
<1>20. Given(a, Known')
  BY <1>1, <1>2, <1>8, <1>16 DEF Given, Gives
<1>21. Grows
  BY <1>7, <1>8, TypesAre DEF Grows
<1>22. \A x \in Calls : Has(a, x) \/ (Has(Tail(todo), x) /\ Apt(x)) => Apt(x)'
  <2>1. ASSUME NEW x \in Calls, Has(a, x) PROVE Apt(x)'
    <3>1. x.op \in {"create", "bind", "initstatics"}
      BY <1>18, <2>1
    <3> QED
      BY <3>1 DEF Apt
  <2>2. ASSUME NEW x \in Calls, Apt(x) PROVE Apt(x)'
    <3>1. x.op \in {"insert", "scopes"} =>
            x.entry \in Entries /\ ClassOf(x.entry) \in Classes /\ x.entry # NoEntry
      <4>1. x.op \in {"insert", "scopes"} => x.entry \in Entries
        BY CallIs DEF OnEntry
      <4> QED
        BY <4>1, EntriesAre
    <3>2. x.op \in {"insert", "scopes"} => ClassOf(x.entry) # c
      BY <1>6, <2>2, <3>1 DEF Apt
    <3>3. x.op \in {"insert", "scopes"} => entry'[ClassOf(x.entry)] = entry[ClassOf(x.entry)]
      BY <1>8, <3>1, <3>2
    <3> QED
      BY <1>21, <2>2, <3>3, AptStays
  <2> QED
    BY <2>1, <2>2
<1>23. CallsInv' /\ AptInv' /\ Turns(Calls, todo, a, todo')
  <2>1. CallsInv /\ AptInv
    BY DEF Inv
  <2> QED
    BY <1>7, <1>17, <1>19, <1>20, <1>22, <2>1, CallsStep
<1>24. /\ \A x, d : Has(todo, Link(x, d)) => Has(todo', Link(x, d))
       /\ \A x : Has(todo, Scopes(x)) => Has(todo', Scopes(x))
  BY <1>1, <1>23, HasStays
<1>25. SupersInv' /\ InstInv'
  BY <1>6, <1>7, <1>8, <1>24, PutStay
<1>26. EntInv'
  BY <1>7 DEF Inv, EntInv
<1>27. EntryInv'
  <2>1. 0 <= copies[c]
    BY TypesAre
  <2> SUFFICES ASSUME NEW d \in Classes, entry'[d] # NoEntry
               PROVE  /\ ClassOf(entry'[d]) = d /\ (IsShared(entry'[d]) <=> d \in prog.immutable)
                      /\ entry'[d][2] <= copies[d]
    BY <1>7 DEF EntryInv, ClassOf, IsShared
  <2>2. CASE d = c
    BY <1>5, <1>6, <1>8, <2>1, <2>2
  <2>3. CASE d # c
    BY <1>8, <2>3 DEF Inv, EntryInv
  <2> QED
    BY <2>2, <2>3
<1>28. Copied' = Copied
  <2>1. \A d \in Classes : d \in Copied' <=> d \in Copied
    BY <1>5, <1>6, <1>8 DEF Copied, IsShared
  <2> QED
    BY <2>1 DEF Copied
<1>29. ScopeInv' /\ TraitInv'
  <2>1. \A d \in Copied : d \in Classes /\ d # c /\ entry'[d] = entry[d]
    BY <1>6, <1>8 DEF Copied
  <2>2. ScopeInv'
    <3> SUFFICES ASSUME NEW d \in Copied PROVE scope[d] = entry[d] \/ Has(todo', Scopes(entry[d]))
      BY <1>7, <1>28, <2>1 DEF ScopeInv, Has
    <3> QED
      BY <1>24 DEF Inv, ScopeInv
  <2>3. TraitInv'
    <3> SUFFICES ASSUME NEW d \in Copied
                 PROVE  \/ traited[d] \in {NoEntry, entry[d]}
                        \/ d \in prog.anonymous \/ Has(todo', Scopes(entry[d]))
      BY <1>7, <1>28, <2>1 DEF TraitInv, Has
    <3> QED
      BY <1>24 DEF Inv, TraitInv
  <2> QED
    BY <2>2, <2>3
<1>30. TypeOK'
  BY <1>7, <1>8 DEF Inv, TypeOK
<1> QED
  BY <1>4, <1>7, <1>23, <1>25, <1>26, <1>27, <1>29, <1>30 DEF Inv

LEMMA InsertStep ==
  ASSUME Inv, todo # << >>, Call.op = "insert", DoInsert(Call.entry, Call.late)
  PROVE  Inv'
<1>1. /\ todo[1] \in Calls /\ Call = todo[1] /\ todo[1].op = "insert" /\ todo[1].entry \in Entries
      /\ Apt(todo[1]) /\ todo[1].late \in BOOLEAN
  BY FirstIs, CallIs DEF OnEntry
<1>2. PICK e \in Entries : e = todo[1].entry
  BY <1>1
<1>3. PICK c \in Classes : c = ClassOf(e)
  BY EntriesAre
<1>4. PICK late \in BOOLEAN : late = todo[1].late
  BY <1>1
<1>5. DoInsert(e, late) /\ prog \in Programs
  BY <1>1, <1>2, <1>4 DEF Inv
<1>6. /\ c \notin prog.immutable /\ ~IsShared(e) /\ e[2] <= copies[c]
      /\ entry[c] = NoEntry \/ HoldsDescendant
  BY <1>1, <1>2, <1>3 DEF Apt
<1>7. Put(c, e) /\ CopyMethods(e)
  BY <1>3, <1>5 DEF DoInsert
<1>8. UNCHANGED <<prog, source, linked, running, copies, ent, objects>>
  BY <1>5 DEF DoInsert, sourceVars
<1>9. /\ table' \in Seq(Classes) /\ IsInjective(table')
      /\ entry' \in [Classes -> Entries \cup {NoEntry}]
      /\ \A d \in Classes : entry'[d] # NoEntry <=> \E i \in DOMAIN table' : table'[i] = d
      /\ Len(table) \in Nat /\ Len(table') \in Nat /\ Len(table) <= Len(table')
      /\ entry'[c] = e /\ e # NoEntry /\ \A d \in Classes : d # c => entry'[d] = entry[d]
      /\ Known' = Known \cup {c}
  BY <1>7, PutIs
<1>10. /\ scope' \in [Classes -> Entries \cup {NoEntry, Foreign}]
       /\ traited' \in [Classes -> Entries \cup {NoEntry, Foreign}]
       /\ \A d \in Classes : /\ scope[d] # NoEntry => scope'[d] = scope[d]
                             /\ d # ClassOf(e) => traited'[d] = traited[d]
  BY <1>7, CopyMethodsIs
<1>11. PICK b \in Seq(Calls) : /\ b = (IF late THEN LateBindings(e) ELSE << >>) /\ Kept(b, Known')
                               /\ \A x : Has(b, x) => x \in {Bind(e), InitStatics(e)}
  <2>1. /\ LateBindings(e) \in Seq(Calls) /\ << >> \in Seq(Calls)
        /\ Kept(LateBindings(e), Known') /\ Kept(<< >>, Known')
    BY LateBindingsAre, LateBindingsKept, EmptyIs
  <2>2. \A x : (Has(LateBindings(e), x) => x \in {Bind(e), InitStatics(e)}) /\ ~Has(<< >>, x)
    BY LateBindingsAre, HasIs
  <2> QED
    BY <2>1, <2>2
<1>12. PICK f \in Calls : f = Scopes(e) /\ f.op = "scopes" /\ f.entry = e
  <2>1. Scopes(e).op = "scopes" /\ Scopes(e).entry = e
    BY DEF Scopes
  <2> QED
    BY <2>1, CallsAre
<1>13. PICK s \in Seq(Calls) : /\ s = <<f>> /\ Len(s) = 1 /\ s[1] = f
                               /\ \A x : Has(s, x) <=> x = f
  <2>1. \A x : Has(<<f>>, x) <=> x = f
    BY HasIs
  <2> QED
    BY <2>1, OneIs
<1>14. PICK a \in Seq(Calls) : /\ a = b \o s /\ Kept(a, Known')
                               /\ \A x : Has(a, x) <=> Has(b, x) \/ Has(s, x)
  <2>1. b \o s \in Seq(Calls) /\ \A x : Has(b \o s, x) <=> Has(b, x) \/ Has(s, x)
    BY HasConcat
  <2>2. Concat(Calls, b, s, b \o s)
    BY ConcatIs
  <2>3. Kept(s, Known')
    <3>1. \A i \in 1 .. 1 : s[i].op \notin {"link", "connect"}
      BY <1>12, <1>13
    <3> QED
      BY <1>13, <3>1 DEF Kept
  <2>4. Kept(b \o s, Known')
    BY <1>11, <2>2, <2>3, KeptConcat
  <2> QED
    BY <2>1, <2>4
<1>15. todo' = a \o Tail(todo)
  BY <1>5, <1>11, <1>12, <1>13, <1>14 DEF DoInsert, Then
<1>16. ASSUME NEW x, Has(a, x)
       PROVE  \/ x.op = "bind"
              \/ x.op \in {"initstatics", "scopes"} /\ x.entry = e
  <2>1. x = f \/ x \in {Bind(e), InitStatics(e)}
    BY <1>11, <1>13, <1>14, <1>16
  <2> QED
    BY <1>12, <2>1 DEF Bind, InitStatics
<1>17. Fits(a)
  <2>1. Ordered(a, Order)
    <3> SUFFICES ASSUME NEW i \in 1 .. Len(a), NEW j \in 1 .. Len(a) PROVE <<a[i], a[j]>> \in Order
      BY DEF Ordered
    <3>1. a[i] \in Calls /\ a[j] \in Calls /\ Has(a, a[i]) /\ Has(a, a[j])
      BY ElementOfSeq DEF Has
    <3>2. a[i].op # "insert" /\ a[j].op # "insert"
      BY <1>16, <3>1
    <3> QED
      BY <3>1, <3>2 DEF Order, Precedes
  <2>2. \A x \in Calls, d \in Classes : Has(a, x) /\ Under(todo[1], d) => Under(x, d)
    <3> SUFFICES ASSUME NEW x \in Calls, NEW d \in Classes, Has(a, x), Under(todo[1], d)
                 PROVE  Under(x, d)
      OBVIOUS
    <3>1. c \in Below(d)
      BY <1>1, <1>2, <1>3 DEF Under
    <3> QED
      BY <1>3, <1>16, <3>1 DEF Under
  <2>3. \A x \in Calls : Has(a, x) => x.op # "insert"
    BY <1>16
  <2> QED
    BY <2>1, <2>2, <2>3, FitsWithin
<1>18. Given(a, Known')
  BY <1>1, <1>2, <1>3, <1>9, <1>14 DEF Given, Gives
<1>19. Grows
  BY <1>8, <1>9, TypesAre DEF Grows
<1>20. HoldsDescendant' = HoldsDescendant
  BY <1>8, SameProgram
<1>21. \A x \in Calls : Has(a, x) \/ (Has(Tail(todo), x) /\ Apt(x)) => Apt(x)'
  <2>1. ASSUME NEW x \in Calls, Has(a, x) PROVE Apt(x)'
    <3>1. x.op \in {"bind", "initstatics", "scopes"}
      BY <1>16, <2>1
    <3>2. x.op = "scopes" => entry'[ClassOf(x.entry)] = x.entry
      BY <1>3, <1>9, <1>16, <2>1
    <3> QED
      BY <3>1, <3>2 DEF Apt
  <2>2. ASSUME NEW x \in Calls, Has(Tail(todo), x), Apt(x) PROVE Apt(x)'
    <3>1. x.op \in {"insert", "scopes"} => x.entry \in Entries /\ ClassOf(x.entry) \in Classes
      <4>1. x.op \in {"insert", "scopes"} => x.entry \in Entries
        BY CallIs DEF OnEntry
      <4> QED
        BY <4>1, EntriesAre
    <3>2. Precedes(todo[1], x)
      BY <2>2, FirstIs
    <3>3. x.op = "scopes" => ClassOf(x.entry) # c
      BY <1>1, <1>2, <1>3, <3>2 DEF Precedes
    <3>4. x.op = "insert" /\ ClassOf(x.entry) = c => HoldsDescendant
      <4>1. x.op = "insert" /\ ClassOf(x.entry) = c => c \in Below(c)
        BY <1>1, <1>2, <1>3, <3>2 DEF Precedes, Under
      <4> QED
        BY <1>5, <1>6, <4>1, BelowIs
    <3>5. x.op \in {"insert", "scopes"} =>
            \/ entry'[ClassOf(x.entry)] = entry[ClassOf(x.entry)]
            \/ x.op = "insert" /\ HoldsDescendant
      BY <1>9, <3>1, <3>3, <3>4
    <3> QED
      BY <1>19, <2>2, <3>5, AptStays
  <2> QED
    BY <2>1, <2>2
<1>22. CallsInv' /\ AptInv' /\ Turns(Calls, todo, a, todo')
  <2>1. CallsInv /\ AptInv
    BY DEF Inv
  <2> QED
    BY <1>8, <1>15, <1>17, <1>18, <1>21, <2>1, CallsStep
<1>23. /\ \A x, d : Has(todo, Link(x, d)) => Has(todo', Link(x, d))
       /\ \A x : Has(todo, Scopes(x)) => Has(todo', Scopes(x))
       /\ Has(todo', Scopes(e))
  <2>1. Has(a, Scopes(e))
    BY <1>12, <1>13, <1>14
  <2> QED
    BY <1>1, <1>22, <2>1, HasStays
<1>24. SupersInv' /\ InstInv'
  BY <1>6, <1>8, <1>9, <1>23, PutStay
<1>25. EntInv'
  BY <1>8 DEF Inv, EntInv
<1>26. EntryInv'
  <2> SUFFICES ASSUME NEW d \in Classes, entry'[d] # NoEntry
               PROVE  /\ ClassOf(entry'[d]) = d /\ (IsShared(entry'[d]) <=> d \in prog.immutable)
                      /\ entry'[d][2] <= copies[d]
    BY <1>8 DEF EntryInv, ClassOf, IsShared
  <2>2. CASE d = c
    BY <1>3, <1>6, <1>9, <2>2
  <2>3. CASE d # c
    BY <1>9, <2>3 DEF Inv, EntryInv
  <2> QED
    BY <2>2, <2>3
<1>27. \A d \in Copied' : /\ d \in Classes
                          /\ d # c => d \in Copied /\ entry'[d] = entry[d] /\ entry[d] # NoEntry
  BY <1>9 DEF Copied, IsShared
<1>28. ScopeInv'
  <2> SUFFICES ASSUME NEW d \in Copied' PROVE scope'[d] = entry'[d] \/ Has(todo', Scopes(entry'[d]))
    BY DEF ScopeInv, Has, Scopes
  <2>1. CASE d = c
    BY <1>9, <1>23, <2>1
  <2>2. CASE d # c
    <3>1. scope[d] = entry[d] \/ Has(todo, Scopes(entry[d]))
      BY <1>27, <2>2 DEF Inv, ScopeInv
    <3> QED
      BY <1>10, <1>23, <1>27, <2>2, <3>1
  <2> QED
    BY <2>1, <2>2
<1>29. TraitInv'
  <2> SUFFICES ASSUME NEW d \in Copied'
               PROVE  \/ traited'[d] \in {NoEntry, entry'[d]}
                      \/ d \in prog.anonymous \/ Has(todo', Scopes(entry'[d]))
    BY <1>8 DEF TraitInv, Has, Scopes
  <2>1. CASE d = c
    BY <1>9, <1>23, <2>1
  <2>2. CASE d # c
    <3>1. \/ traited[d] \in {NoEntry, entry[d]}
          \/ d \in prog.anonymous \/ Has(todo, Scopes(entry[d]))
      BY <1>27, <2>2 DEF Inv, TraitInv
    <3> QED
      BY <1>3, <1>10, <1>23, <1>27, <2>2, <3>1
  <2> QED
    BY <2>1, <2>2
<1>30. TypeOK'
  BY <1>8, <1>9, <1>10 DEF Inv, TypeOK
<1> QED
  BY <1>5, <1>8, <1>22, <1>24, <1>25, <1>26, <1>28, <1>29, <1>30 DEF Inv

-----------------------------------------------------------------------------
(* The thread and its creator, once both run.                              *)

LEMMA MeetStep ==
  ASSUME Inv, NEW c \in Classes, Meet(c)
  PROVE  Inv'
<1>1. UNCHANGED <<prog, source, linked, running, table, entry, copies, ent, scope, traited, objects>>
  BY DEF Meet, sourceVars, classVars, scopeVars
<1>2. todo = << >> /\ \A x : ~Has(todo, x)
  BY EmptyIs DEF Meet, Has
<1>3. PICK a \in Seq(Calls) : /\ a = <<Create(c, TRUE), Connect(c)>> /\ Kept(a, Known)
                              /\ \A x : Has(a, x) <=> x = Create(c, TRUE) \/ x = Connect(c)
  BY HeldIs
<1>4. todo' = a
  BY <1>3 DEF Meet
<1>5. Create(c, TRUE).op = "create" /\ Connect(c).op = "connect"
  BY DEF Create, Connect
<1>6. Known' = Known /\ Copied' = Copied /\ Order' = Order /\ HoldsDescendant' = HoldsDescendant
      /\ \A d \in Classes : Bases(d)' = Bases(d)
  BY <1>1, SameProgram DEF Known, Copied, IsShared
<1>7. Ordered(a, Order)
  <2>1. \A i \in 1 .. Len(a) : Has(a, a[i])
    BY DEF Has
  <2>2. \A i \in 1 .. Len(a) : a[i].op \notin {"insert", "scopes"}
    BY <1>3, <1>5, <2>1
  <2> QED
    BY <2>2, OrderedWithin
<1>8. CallsInv'
  BY <1>3, <1>4, <1>6, <1>7 DEF CallsInv, Ordered, Kept
<1>9. AptInv'
  <2> SUFFICES ASSUME NEW x \in Calls, Has(a, x) PROVE Apt(x)'
    BY <1>4 DEF AptInv, Has
  <2>1. x.op \in {"create", "connect"}
    BY <1>3, <1>5
  <2> QED
    BY <2>1 DEF Apt
<1>10. EntryInv' /\ EntInv'
  BY <1>1 DEF Inv, EntryInv, EntInv, ClassOf, IsShared
<1>11. SupersInv'
  BY <1>1, <1>2, <1>6, SupersStay
<1>12. ScopeInv' /\ TraitInv'
  BY <1>1, <1>2, <1>6 DEF Inv, ScopeInv, TraitInv
<1>13. InstInv' /\ TypeOK'
  BY <1>1, <1>6 DEF Inv, InstInv, TypeOK
<1> QED
  BY <1>1, <1>8, <1>9, <1>10, <1>11, <1>12, <1>13 DEF Inv

LEMMA CreatorStep ==
  ASSUME Inv, running, UNCHANGED <<prog, running, todo, classVars, ent, scopeVars, objects>>,
         source' \in Seq(Classes), linked \subseteq linked', linked' \subseteq Classes
  PROVE  Inv'
<1>1. UNCHANGED <<prog, running, todo, table, entry, copies, ent, scope, traited, objects>>
  BY DEF classVars, scopeVars
<1>2. Known' = Known /\ Copied' = Copied /\ Order' = Order /\ HoldsDescendant' = HoldsDescendant
  BY <1>1, SameProgram DEF Known, Copied, IsShared
<1>3. CallsInv'
  BY <1>1, <1>2 DEF Inv, CallsInv
<1>4. AptInv'
  <2> SUFFICES ASSUME NEW x \in Calls, Has(todo, x) PROVE Apt(x)'
    BY <1>1 DEF AptInv, Has
  <2>1. Grows
    BY <1>1, TypesAre DEF Grows
  <2>2. Apt(x)
    BY DEF Inv, AptInv
  <2> QED
    BY <1>1, <2>1, <2>2, AptStays
<1>5. EntryInv' /\ EntInv'
  BY <1>1 DEF Inv, EntryInv, EntInv, ClassOf, IsShared
<1>6. SupersInv'
  BY <1>1, SupersStay
<1>7. ScopeInv' /\ TraitInv'
  BY <1>1, <1>2 DEF Inv, ScopeInv, TraitInv
<1>8. InstInv' /\ TypeOK'
  BY <1>1, <1>2 DEF Inv, InstInv, TypeOK
<1> QED
  BY <1>1, <1>3, <1>4, <1>5, <1>6, <1>7, <1>8 DEF Inv

LEMMA DeclareStep ==
  ASSUME Inv, Declare
  PROVE  Inv'
<1>1. prog \in Programs /\ source \in Seq(Classes) /\ linked \subseteq Classes
  BY DEF Inv, TypeOK
<1>2. prog.order \in Seq(Classes)
  BY <1>1, ProgramsAssumption DEF IsProgram
<1>3. PICK n \in Nat : n = Len(source) + 1
  BY <1>1, LenProperties
<1>4. n \in 1 .. Len(prog.order) /\ 1 \in 1 .. Len(prog.order) + 1 /\ n \in 0 .. Len(prog.order)
  BY <1>1, <1>2, <1>3, LenProperties DEF Declare
<1>5. source' \in Seq(Classes)
  <2>1. source' = SubSeq(prog.order, 1, n)
    BY <1>3 DEF Declare
  <2> QED
    BY <1>2, <1>4, <2>1, SubSeqProperties
<1>6. prog.order[n] \in Classes
  BY <1>2, <1>4, ElementOfSeq
<1>7. linked' = linked \cup ({prog.order[n]} \ prog.anonymous)
  BY <1>3 DEF Declare
<1> QED
  BY <1>1, <1>5, <1>6, <1>7, CreatorStep DEF Declare

LEMMA LinkAnonymousStep ==
  ASSUME Inv, NEW c \in Classes, LinkAnonymous(c)
  PROVE  Inv'
<1>1. source \in Seq(Classes) /\ linked \subseteq Classes
  BY DEF Inv, TypeOK
<1> QED
  BY <1>1, CreatorStep DEF LinkAnonymous

LEMMA StutterStep ==
  ASSUME Inv, UNCHANGED vars
  PROVE  Inv'
<1>1. UNCHANGED <<prog, source, linked, running, todo, table, entry, copies, ent, scope, traited, objects>>
  BY DEF vars, sourceVars, classVars, scopeVars
<1>2. Known' = Known /\ Copied' = Copied /\ Order' = Order /\ HoldsDescendant' = HoldsDescendant
  BY <1>1, SameProgram DEF Known, Copied, IsShared
<1>3. CallsInv' /\ EntryInv' /\ EntInv'
  BY <1>1, <1>2 DEF Inv, CallsInv, EntryInv, EntInv, ClassOf, IsShared
<1>4. AptInv'
  <2> SUFFICES ASSUME NEW x \in Calls, Has(todo, x) PROVE Apt(x)'
    BY <1>1 DEF AptInv, Has
  <2>1. Grows
    BY <1>1, TypesAre DEF Grows
  <2>2. Apt(x)
    BY DEF Inv, AptInv
  <2> QED
    BY <1>1, <2>1, <2>2, AptStays
<1>5. SupersInv'
  BY <1>1, SupersStay
<1>6. ScopeInv' /\ TraitInv' /\ InstInv' /\ TypeOK'
  BY <1>1, <1>2 DEF Inv, ScopeInv, TraitInv, InstInv, TypeOK
<1> QED
  BY <1>1, <1>3, <1>4, <1>5, <1>6 DEF Inv

LEMMA NextInv ==
  ASSUME Inv, [Next]_vars
  PROVE  Inv'
<1>1. CASE Step
  <2> todo # << >>
    BY <1>1 DEF Step, Pending
  <2>1. CASE Call.op = "create" /\ CreateFound(Call.class, Call.late)
    BY <2>1, FoundStep
  <2>2. CASE Call.op = "create" /\ CreateComplete(Call.class, Call.late)
    BY <2>2, CreateCompleteStep
  <2>3. CASE Call.op = "create" /\ CreateShared(Call.class, Call.late)
    BY <2>3, CreateSharedStep
  <2>4. CASE Call.op = "create" /\ CreateCopy(Call.class, Call.late)
    BY <2>4, CreateCopyStep
  <2>5. CASE Call.op = "link" /\ DoLink(Call.entry, Call.class)
    BY <2>5, LinkStep
  <2>6. CASE Call.op = "insert" /\ DoInsert(Call.entry, Call.late)
    BY <2>6, InsertStep
  <2>7. CASE Call.op = "complete" /\ DoComplete(Call.entry)
    BY <2>7, CompleteStep
  <2>8. CASE Call.op = "scopes" /\ DoScopes(Call.entry)
    BY <2>8, ScopesStep
  <2>9. CASE Call.op = "bind" /\ DoBind(Call.entry)
    BY <2>9, BindStep
  <2>10. CASE Call.op = "initstatics" /\ DoInitStatics(Call.entry)
    BY <2>10, InitStaticsStep
  <2>11. CASE Call.op = "fill" /\ DoFill(Call.entry)
    BY <2>11, FillStep
  <2>12. CASE Call.op = "connect" /\ DoConnect(Call.class)
    BY <2>12, ConnectStep
  <2>13. CASE Call.op = "offer" /\ DoOffer(Call.class)
    BY <2>13, OfferStep
  <2>14. CASE Call.op = "bindall" /\ DoBindAll
    BY <2>14, BindAllStep
  <2>15. CASE Call.op = "bindat" /\ DoBindAt(Call.index)
    BY <2>15, BindAtStep
  <2>16. CASE Call.op = "ready" /\ DoReady
    BY <2>16, ReadyStep
  <2> QED
    BY <1>1, <2>1, <2>2, <2>3, <2>4, <2>5, <2>6, <2>7, <2>8, <2>9, <2>10, <2>11,
       <2>12, <2>13, <2>14, <2>15, <2>16 DEF Step
<1>2. CASE Declare
  BY <1>2, DeclareStep
<1>3. ASSUME NEW c \in Classes, Meet(c) PROVE Inv'
  BY <1>3, MeetStep
<1>4. ASSUME NEW c \in Classes, LinkAnonymous(c) PROVE Inv'
  BY <1>4, LinkAnonymousStep
<1>5. CASE UNCHANGED vars
  BY <1>5, StutterStep
<1> QED
  BY <1>1, <1>2, <1>3, <1>4, <1>5 DEF Next

LEMMA InvHolds ==
  Spec => []Inv
<1>1. Init => Inv
  BY InitInv
<1>2. Inv /\ [Next]_vars => Inv'
  BY NextInv
<1> QED
  BY <1>1, <1>2, PTL DEF Spec

\* For every program: when the thread is between two preparations, no entry,
\* parent, interface or scope that it has belongs to its creator, or to a copy
\* that was replaced (prepare.c).
THEOREM PointersAlwaysOwn ==
  Spec => []PointersOwn
<1>1. ASSUME Inv PROVE PointersOwn
  <2>1. ASSUME Quiet, NEW c \in Copied
        PROVE  /\ \/ ent[entry[c]].linked =>
                       ent[entry[c]].supers = {entry[d] : d \in Range(Supers(c))}
                  \/ HoldsDescendant
               /\ scope[c] = entry[c]
               /\ traited[c] \in {NoEntry, entry[c]} \/ c \in prog.anonymous
    <3>1. \A x : ~Has(todo, x)
      BY <2>1, EmptyIs DEF Quiet, Has
    <3>2. scope[c] = entry[c]
      BY <1>1, <3>1 DEF Inv, ScopeInv
    <3>3. traited[c] \in {NoEntry, entry[c]} \/ c \in prog.anonymous
      BY <1>1, <3>1 DEF Inv, TraitInv
    <3>4. ASSUME ent[entry[c]].linked, ~HoldsDescendant
          PROVE  ent[entry[c]].supers = {entry[d] : d \in Range(Supers(c))}
      <4>1. c \in Classes /\ entry[c] \in Entries /\ ClassOf(entry[c]) = c
        BY <1>1, TypesAre DEF Inv, EntryInv, Copied
      <4>2. c \in linked /\ prog \in Programs
        BY <1>1, <3>4, <4>1 DEF Inv, EntInv
      <4>3. Range(Supers(c)) = Bases(c)
        BY <4>1, <4>2, SupersAre
      <4>4. /\ ent[entry[c]].supers \subseteq {entry[d] : d \in Bases(c)}
            /\ \A d \in Bases(c) : entry[d] \in ent[entry[c]].supers
        BY <1>1, <3>1, <3>4, <4>1 DEF Inv, SupersInv
      <4> QED
        BY <4>3, <4>4
    <3> QED
      BY <3>2, <3>3, <3>4
  <2> QED
    BY <1>1, <2>1 DEF PointersOwn, Inv
<1> QED
  BY <1>1, InvHolds, PTL

-----------------------------------------------------------------------------
(* Objects are made of classes that know their number of properties.       *)

\* A thread that gets only what it needs, of a class that is copied.
Selective == ~prog.inheritAll /\ ~HoldsDescendant /\ ~LoopNeedsMore

\* The class t of the thread is copied without late bindings.
Early(x) == x.op \in {"create", "insert"} /\ ~x.late

\* A call that leads to its late bindings, and calls that may be ahead of it.
Binder(x, t) ==
  \/ x.op = "bindall"
  \/ x.op = "bindat" /\ x.index \in 1 .. Len(table) /\ table[x.index] = t
Aside(x, t) ==
  \/ Under(x, t)
  \/ x.op = "bindat" /\ x.index \in 1 .. Len(table) /\ table[x.index] \in Below(t)
Waits(t) ==
  {p \in Calls \X Calls : /\ Binder(p[2], t) => Aside(p[1], t) \/ Early(p[1])
                          /\ ~(p[2].op = "create" /\ Early(p[2]))}

EarlyInv(t) ==
  /\ Ordered(todo, Waits(t))
  /\ \A x \in Calls : Has(todo, x) =>
       /\ x.op # "offer"
       /\ Early(x) => Gives(x, t) /\ \E y \in Calls : Has(todo, y) /\ y.op = "bindall"
       /\ x.op = "bindall" => Known \subseteq Below(t) \cup {t}

\* A class in the table knows its number of properties, or is about to.
BoundInv(t) ==
  \A c \in Known :
    \/ Bound(entry[c])
    \/ Len(todo) > 0 /\ todo[1] = Bind(entry[c])
    \/ c = t /\ \E x \in Calls : Has(todo, x) /\ Binder(x, t)

SizeInv ==
  /\ \A e \in Entries : ent[e].table \in Nat
  /\ Selective => /\ \A t \in {prog.thread} : EarlyInv(t) /\ BoundInv(t)
                  /\ \A o \in objects : o.sized

TableGrows ==
  \A i \in 1 .. Len(table) : i \in 1 .. Len(table') /\ table'[i] = table[i]

LEMMA AsideStays ==
  ASSUME prog' = prog, TableGrows, NEW t \in Classes, NEW x
  PROVE  /\ Under(x, t)' <=> Under(x, t)
         /\ Aside(x, t) => Aside(x, t)'
         /\ (x.op = "bindat" => x.index \in 1 .. Len(table)) => (Binder(x, t)' <=> Binder(x, t))
<1>1. Below(t)' = Below(t)
  BY SameProgram
<1>2. Under(x, t)' <=> Under(x, t)
  BY <1>1 DEF Under
<1>3. Aside(x, t) => Aside(x, t)'
  BY <1>1, <1>2 DEF Aside, TableGrows
<1>4. ASSUME x.op = "bindat" => x.index \in 1 .. Len(table) PROVE Binder(x, t)' <=> Binder(x, t)
  BY <1>4 DEF Binder, TableGrows
<1> QED
  BY <1>2, <1>3, <1>4

\* The calls of a may take the place of the first one.
Takes(a, t) ==
  /\ a \in Seq(Calls) /\ todo' = a \o Tail(todo) /\ Ordered(a, Waits(t))
  /\ \A x \in Calls : Has(a, x) =>
       /\ x.op \notin {"offer", "bindall"}
       /\ x.op = "bindat" => x.index \in 1 .. Len(table)
       /\ Aside(todo[1], t) \/ Early(todo[1]) => Aside(x, t) \/ Early(x)
       /\ Early(x) => Early(todo[1]) /\ Gives(x, t)

LEMMA HasAfter ==
  ASSUME Inv, todo # << >>, NEW a \in Seq(Calls), todo' = a \o Tail(todo)
  PROVE  /\ Turns(Calls, todo, a, todo')
         /\ \A x : Has(todo', x) <=> Has(a, x) \/ Has(Tail(todo), x)
         /\ \A x : Has(todo, x) <=> x = todo[1] \/ Has(Tail(todo), x)
         /\ \A x : Has(Tail(todo), x) => \E j \in 2 .. Len(todo) : todo[j] = x
         /\ \A j \in 2 .. Len(todo) : j \in 1 .. Len(todo) /\ 1 \in 1 .. Len(todo) /\ 1 < j
<1>1. todo \in Seq(Calls) /\ Tail(todo) \in Seq(Calls)
  BY FirstIs
<1>2. Turns(Calls, todo, a, todo')
  <2>1. Turns(Calls, todo, a, a \o Tail(todo))
    BY <1>1, TurnsIs
  <2> QED
    BY <2>1
<1>3. \A x : Has(todo', x) <=> Has(a, x) \/ Has(Tail(todo), x)
  <2>1. \A x : Has(a \o Tail(todo), x) <=> Has(a, x) \/ Has(Tail(todo), x)
    BY <1>1, HasConcat
  <2> QED
    BY <2>1 DEF Has
<1>4. /\ Len(todo) \in Nat \ {0}
      /\ \A k \in 1 .. Len(Tail(todo)) : k + 1 \in 2 .. Len(todo) /\ Tail(todo)[k] = todo[k + 1]
      /\ \A j \in 2 .. Len(todo) : j - 1 \in 1 .. Len(Tail(todo)) /\ Tail(todo)[j - 1] = todo[j]
  BY <1>1, TailIs
<1>5. \A j \in 1 .. Len(todo) : j = 1 \/ j \in 2 .. Len(todo)
  BY <1>4
<1>6. \A j \in 2 .. Len(todo) : j \in 1 .. Len(todo) /\ 1 \in 1 .. Len(todo) /\ 1 < j
  BY <1>4
<1>7. 1 \in 1 .. Len(todo)
  BY <1>4
<1>8. \A x : Has(Tail(todo), x) => \E j \in 2 .. Len(todo) : todo[j] = x
  BY <1>4 DEF Has
<1>9. \A x : Has(todo, x) <=> x = todo[1] \/ Has(Tail(todo), x)
  BY <1>4, <1>5, <1>6, <1>7, <1>8 DEF Has
<1> QED
  BY <1>2, <1>3, <1>6, <1>8, <1>9

LEMMA WaitsStep ==
  ASSUME Inv, todo # << >>, prog' = prog, TableGrows, NEW t \in Classes, EarlyInv(t),
         NEW a, Takes(a, t)
  PROVE  Ordered(todo, Waits(t))'
<1>1. a \in Seq(Calls) /\ todo' = a \o Tail(todo) /\ Ordered(a, Waits(t))
  BY DEF Takes
<1>2. /\ Turns(Calls, todo, a, todo')
      /\ \A x : Has(todo', x) <=> Has(a, x) \/ Has(Tail(todo), x)
      /\ \A j \in 2 .. Len(todo) : j \in 1 .. Len(todo) /\ 1 \in 1 .. Len(todo) /\ 1 < j
  BY <1>1, HasAfter
<1>3. PICK R : R = Waits(t)
  OBVIOUS
<1>4. \A i, j \in 1 .. Len(todo) : i < j => <<todo[i], todo[j]>> \in R
  BY <1>3 DEF EarlyInv, Ordered
<1>5. ASSUME NEW i \in 1 .. Len(a), NEW j \in 2 .. Len(todo) PROVE <<a[i], todo[j]>> \in R
  <2>1. <<todo[1], todo[j]>> \in R
    BY <1>2, <1>4
  <2>2. PICK x \in Calls : x = a[i] /\ Has(a, x)
    BY <1>1, ElementOfSeq DEF Has
  <2>3. PICK y \in Calls : y = todo[j]
    BY <1>3, <2>1 DEF Waits
  <2>4. /\ Binder(y, t) => Aside(todo[1], t) \/ Early(todo[1])
        /\ ~(y.op = "create" /\ Early(y))
    BY <1>3, <2>1, <2>3 DEF Waits
  <2>5. Binder(y, t) => Aside(x, t) \/ Early(x)
    BY <2>2, <2>4 DEF Takes
  <2> QED
    BY <1>3, <2>2, <2>3, <2>4, <2>5 DEF Waits
<1>6. Ordered(todo', R)
  <2>1. Ordered(todo, R) /\ Ordered(a, R)
    BY <1>1, <1>3 DEF EarlyInv
  <2> QED
    BY <1>2, <1>5, <2>1, OrderedTurns
<1>7. ASSUME NEW i \in 1 .. Len(todo'), NEW j \in 1 .. Len(todo'), i < j
      PROVE  <<todo'[i], todo'[j]>> \in Waits(t)'
  <2>1. <<todo'[i], todo'[j]>> \in R
    BY <1>6, <1>7 DEF Ordered
  <2>2. PICK x \in Calls, y \in Calls : x = todo'[i] /\ y = todo'[j]
    BY <1>3, <2>1 DEF Waits
  <2>3. /\ Binder(y, t) => Aside(x, t) \/ Early(x)
        /\ ~(y.op = "create" /\ Early(y))
    BY <1>3, <2>1, <2>2 DEF Waits
  <2>4. y.op = "bindat" => y.index \in 1 .. Len(table)
    <3>1. Has(a, y) \/ Has(Tail(todo), y)
      <4>1. Has(todo', y)
        BY <2>2 DEF Has
      <4> QED
        BY <1>2, <4>1
    <3>2. Has(Tail(todo), y) => Apt(y)
      BY FirstIs
    <3> QED
      BY <3>1, <3>2 DEF Takes, Apt
  <2>5. Binder(y, t)' => Binder(y, t)
    BY <2>4, AsideStays
  <2>6. Aside(x, t) => Aside(x, t)'
    BY AsideStays
  <2>7. Binder(y, t)' => Aside(x, t)' \/ Early(x)
    BY <2>3, <2>5, <2>6
  <2> QED
    BY <2>2, <2>3, <2>7 DEF Waits
<1> QED
  BY <1>7 DEF Ordered

LEMMA EarlyStep ==
  ASSUME Inv, todo # << >>, prog' = prog, TableGrows, NEW t \in Classes, EarlyInv(t),
         NEW a, Takes(a, t), \A c \in Known' : c \in Known \/ Gives(todo[1], c)
  PROVE  EarlyInv(t)'
<1>1. a \in Seq(Calls) /\ todo' = a \o Tail(todo)
  BY DEF Takes
<1>2. /\ \A x : Has(todo', x) <=> Has(a, x) \/ Has(Tail(todo), x)
      /\ \A x : Has(todo, x) <=> x = todo[1] \/ Has(Tail(todo), x)
      /\ \A x : Has(Tail(todo), x) => \E j \in 2 .. Len(todo) : todo[j] = x
      /\ \A j \in 2 .. Len(todo) : j \in 1 .. Len(todo) /\ 1 \in 1 .. Len(todo) /\ 1 < j
  BY <1>1, HasAfter
<1>3. todo[1] \in Calls /\ \A x \in Calls : Has(Tail(todo), x) => Precedes(todo[1], x)
  BY FirstIs
<1>4. ASSUME NEW x \in Calls, Has(todo, x)
      PROVE  /\ x.op # "offer"
             /\ Early(x) => Gives(x, t) /\ \E y \in Calls : Has(todo, y) /\ y.op = "bindall"
             /\ x.op = "bindall" => Known \subseteq Below(t) \cup {t}
  BY <1>4 DEF EarlyInv
<1>5. ASSUME NEW x \in Calls, Has(Tail(todo), x)
      PROVE  /\ Binder(x, t) => Aside(todo[1], t) \/ Early(todo[1])
             /\ ~(x.op = "create" /\ Early(x))
  <2>1. PICK j \in 2 .. Len(todo) : todo[j] = x
    BY <1>2, <1>5
  <2>2. <<todo[1], todo[j]>> \in Waits(t)
    BY <1>2 DEF EarlyInv, Ordered
  <2> QED
    BY <2>1, <2>2 DEF Waits
<1>6. ASSUME NEW x \in Calls, Has(Tail(todo), x), Early(x), todo[1].op = "bindall" PROVE FALSE
  <2>1. x.op = "insert"
    BY <1>5, <1>6 DEF Early
  <2>2. Under(todo[1], ClassOf(x.entry))
    BY <1>3, <1>6, <2>1 DEF Precedes
  <2> QED
    BY <1>6, <2>2 DEF Under
<1>7. ASSUME NEW x \in Calls, Has(todo', x)
      PROVE  /\ x.op # "offer"
             /\ Early(x) => Gives(x, t) /\ \E y \in Calls : Has(todo', y) /\ y.op = "bindall"
             /\ x.op = "bindall" => Known' \subseteq Below(t) \cup {t}
  <2>1. CASE Has(a, x)
    <3>1. /\ x.op \notin {"offer", "bindall"}
          /\ Early(x) => Early(todo[1]) /\ Gives(x, t)
      BY <2>1 DEF Takes
    <3>2. ASSUME Early(todo[1]) PROVE \E y \in Calls : Has(todo', y) /\ y.op = "bindall"
      <4>1. PICK y \in Calls : Has(todo, y) /\ y.op = "bindall"
        BY <1>2, <1>3, <1>4, <3>2
      <4>2. y # todo[1]
        BY <3>2, <4>1 DEF Early
      <4> QED
        BY <1>2, <4>1, <4>2
    <3> QED
      BY <3>1, <3>2
  <2>2. CASE Has(Tail(todo), x)
    <3>1. Has(todo, x)
      BY <1>2, <2>2
    <3>2. ASSUME Early(x) PROVE Gives(x, t) /\ \E y \in Calls : Has(todo', y) /\ y.op = "bindall"
      <4>1. Gives(x, t)
        BY <1>4, <3>1, <3>2
      <4>2. PICK y \in Calls : Has(todo, y) /\ y.op = "bindall"
        BY <1>4, <3>1, <3>2
      <4>3. y # todo[1]
        BY <1>6, <2>2, <3>2, <4>2
      <4> QED
        BY <1>2, <4>1, <4>2, <4>3
    <3>3. ASSUME x.op = "bindall", NEW c \in Known' PROVE c \in Below(t) \cup {t}
      <4>1. CASE c \in Known
        BY <1>4, <3>1, <3>3, <4>1
      <4>2. CASE Gives(todo[1], c)
        <5>1. Aside(todo[1], t) \/ Early(todo[1])
          BY <1>5, <2>2, <3>3 DEF Binder
        <5>2. Aside(todo[1], t) => c \in Below(t)
          BY <4>2 DEF Gives, Aside, Under
        <5>3. Early(todo[1]) => Gives(todo[1], t)
          BY <1>2, <1>3, <1>4
        <5>4. Gives(todo[1], t) => c = t
          BY <4>2 DEF Gives
        <5> QED
          BY <5>1, <5>2, <5>3, <5>4
      <4> QED
        BY <4>1, <4>2
    <3> QED
      BY <1>4, <3>1, <3>2, <3>3
  <2> QED
    BY <1>2, <1>7, <2>1, <2>2
<1>8. Below(t)' = Below(t)
  BY SameProgram
<1>9. Ordered(todo, Waits(t))'
  BY WaitsStep
<1>10. \A x : Has(todo, x)' <=> Has(todo', x)
  BY DEF Has
<1> QED
  BY <1>7, <1>8, <1>9, <1>10 DEF EarlyInv, Gives, Early, ClassOf

\* A class that a step enters is bound, or about to be.
Enters ==
  \A c \in Known' :
    \/ c \in Known /\ entry'[c] = entry[c]
    \/ /\ Gives(todo[1], c)
       /\ \/ Bound(entry[c])'
          \/ Len(todo') > 0 /\ todo'[1] = Bind(entry'[c])
          \/ Early(todo[1])

EntGrows ==
  \A e \in Entries : /\ ent'[e].table \in Nat
                     /\ Bound(e) \/ todo[1] = Bind(e) => Bound(e)'

\* The late bindings of the thread's class are not lost.
Rebinds(a, t) ==
  Binder(todo[1], t) /\ t \in Known =>
    \/ Len(todo') > 0 /\ todo'[1] = Bind(entry[t])
    \/ \E x \in Calls : Has(a, x) /\ Binder(x, t)

LEMMA BoundStep ==
  ASSUME Inv, todo # << >>, prog' = prog, TableGrows, NEW t \in Classes, EarlyInv(t), BoundInv(t),
         NEW a, Takes(a, t), Enters, EntGrows, Rebinds(a, t)
  PROVE  BoundInv(t)'
<1>1. a \in Seq(Calls) /\ todo' = a \o Tail(todo)
  BY DEF Takes
<1>2. /\ \A x : Has(todo', x) <=> Has(a, x) \/ Has(Tail(todo), x)
      /\ \A x : Has(todo, x) <=> x = todo[1] \/ Has(Tail(todo), x)
  BY <1>1, HasAfter
<1>3. todo[1] \in Calls /\ \A x \in Calls : Has(Tail(todo), x) => Apt(x)
  BY FirstIs
<1>4. \A x : Has(todo, x)' <=> Has(todo', x)
  BY DEF Has
<1>5. ASSUME NEW x \in Calls, Has(Tail(todo), x) \/ Has(a, x), Binder(x, t)
      PROVE  \E y \in Calls : Has(todo, y)' /\ Binder(y, t)'
  <2>1. x.op = "bindat" => x.index \in 1 .. Len(table)
    BY <1>3, <1>5 DEF Takes, Apt
  <2>2. Binder(x, t)'
    BY <1>5, <2>1, AsideStays
  <2> QED
    BY <1>2, <1>4, <1>5, <2>2
<1>6. ASSUME NEW c \in Known'
      PROVE  \/ Bound(entry[c])'
             \/ Len(todo') > 0 /\ todo'[1] = Bind(entry'[c])
             \/ c = t /\ \E x \in Calls : Has(todo, x)' /\ Binder(x, t)'
  <2>1. CASE c \in Known /\ entry'[c] = entry[c]
    <3>1. PICK e \in Entries : e = entry[c] /\ e = entry'[c]
      BY <2>1, TypesAre DEF Known
    <3>2. Bound(e)' => Bound(entry[c])'
      BY <3>1 DEF Bound, IsShared
    <3>3. CASE Bound(entry[c])
      BY <3>1, <3>2, <3>3 DEF EntGrows
    <3>4. CASE todo[1] = Bind(entry[c])
      BY <3>1, <3>2, <3>4 DEF EntGrows
    <3>5. CASE c = t /\ \E x \in Calls : Has(todo, x) /\ Binder(x, t)
      <4>1. PICK x \in Calls : Has(todo, x) /\ Binder(x, t)
        BY <3>5
      <4>2. CASE Has(Tail(todo), x)
        BY <1>5, <3>5, <4>1, <4>2
      <4>3. CASE x = todo[1]
        <5>1. \/ Len(todo') > 0 /\ todo'[1] = Bind(entry[t])
              \/ \E y \in Calls : Has(a, y) /\ Binder(y, t)
          BY <2>1, <3>5, <4>1, <4>3 DEF Rebinds
        <5> QED
          BY <1>5, <2>1, <3>5, <5>1
      <4> QED
        BY <1>2, <4>1, <4>2, <4>3
    <3> QED
      BY <2>1, <3>3, <3>4, <3>5 DEF BoundInv
  <2>2. CASE Gives(todo[1], c) /\ Early(todo[1])
    <3>1. Has(todo, todo[1])
      BY <1>2
    <3>2. PICK z \in Calls : z = todo[1]
      BY <1>3
    <3>3. Gives(z, t) /\ \E y \in Calls : Has(todo, y) /\ y.op = "bindall"
      BY <2>2, <3>1, <3>2 DEF EarlyInv
    <3>4. PICK y \in Calls : Has(todo, y) /\ y.op = "bindall"
      BY <3>3
    <3>5. c = t
      BY <2>2, <3>2, <3>3 DEF Gives
    <3>6. y # todo[1] /\ Binder(y, t)
      BY <2>2, <3>4 DEF Early, Binder
    <3> QED
      BY <1>2, <1>5, <3>4, <3>5, <3>6
  <2> QED
    BY <2>1, <2>2 DEF Enters
<1> QED
  BY <1>6 DEF BoundInv

LEMMA SizeStep ==
  ASSUME Inv, SizeInv, todo # << >>, prog' = prog, TableGrows, EntGrows,
         Selective => /\ Enters /\ \A o \in objects' : o.sized
                      /\ \A t \in {prog.thread} : \E a : Takes(a, t) /\ Rebinds(a, t)
  PROVE  SizeInv'
<1>1. \A e \in Entries : ent'[e].table \in Nat
  BY DEF EntGrows
<1>2. Selective' = Selective
  <2>1. HoldsDescendant' = HoldsDescendant
    BY SameProgram
  <2> QED
    BY <2>1 DEF Selective, LoopNeedsMore
<1>3. ASSUME Selective, NEW t \in {prog.thread} PROVE EarlyInv(t)' /\ BoundInv(t)'
  <2>1. t \in Classes
    <3>1. prog \in Programs
      BY DEF Inv
    <3> QED
      BY <3>1, ProgramsAssumption DEF IsProgram
  <2>2. PICK a : Takes(a, t) /\ Rebinds(a, t)
    BY <1>3
  <2>3. EarlyInv(t) /\ BoundInv(t)
    BY <1>3 DEF SizeInv
  <2>4. \A c \in Known' : c \in Known \/ Gives(todo[1], c)
    BY <1>3 DEF Enters
  <2>5. EarlyInv(t)'
    BY <2>1, <2>2, <2>3, <2>4, EarlyStep
  <2>6. BoundInv(t)'
    BY <1>3, <2>1, <2>2, <2>3, BoundStep
  <2> QED
    BY <2>5, <2>6
<1> QED
  BY <1>1, <1>2, <1>3 DEF SizeInv

-----------------------------------------------------------------------------
(* The steps again.                                                        *)

\* Calls for the same class or on its behalf take the place of the first one.
Passes(a, t) ==
  /\ a \in Seq(Calls) /\ todo' = a \o Tail(todo)
  /\ \A x \in Calls : Has(a, x) =>
       /\ x.op \notin {"offer", "bindall", "bindat"}
       /\ Aside(todo[1], t) \/ Early(todo[1]) => Under(x, t) \/ Early(x)
       /\ Early(x) => Early(todo[1]) /\ x.op = "insert" /\ Gives(x, t)

LEMMA PassesTakes ==
  ASSUME NEW a, NEW t, Passes(a, t)
  PROVE  Takes(a, t)
<1>1. a \in Seq(Calls) /\ todo' = a \o Tail(todo)
  BY DEF Passes
<1>2. ASSUME NEW x \in Calls, Has(a, x)
      PROVE  /\ x.op \notin {"offer", "bindall", "bindat"}
             /\ Aside(todo[1], t) \/ Early(todo[1]) => Under(x, t) \/ Early(x)
             /\ Early(x) => Early(todo[1]) /\ x.op = "insert" /\ Gives(x, t)
  BY <1>2 DEF Passes
<1>3. ASSUME NEW i \in 1 .. Len(a), NEW j \in 1 .. Len(a) PROVE <<a[i], a[j]>> \in Waits(t)
  <2>1. a[i] \in Calls /\ a[j] \in Calls
    BY <1>1, ElementOfSeq
  <2>2. PICK y \in Calls : y = a[j] /\ Has(a, y)
    BY <2>1 DEF Has
  <2>3. ~Binder(y, t) /\ ~(y.op = "create" /\ Early(y))
    BY <1>2, <2>2 DEF Binder
  <2> QED
    BY <2>1, <2>2, <2>3 DEF Waits
<1>4. Ordered(a, Waits(t))
  BY <1>3 DEF Ordered
<1> QED
  BY <1>1, <1>2, <1>4 DEF Takes, Aside

LEMMA SameTables ==
  ASSUME SizeInv, todo[1].op # "bind", \A e \in Entries : ent'[e].table = ent[e].table
  PROVE  EntGrows
<1> SUFFICES ASSUME NEW e \in Entries
             PROVE  ent'[e].table \in Nat /\ (Bound(e) \/ todo[1] = Bind(e) => Bound(e)')
  BY DEF EntGrows
<1>1. ent'[e].table \in Nat
  BY DEF SizeInv
<1>2. todo[1] # Bind(e)
  BY DEF Bind
<1>3. Bound(e) => Bound(e)'
  BY DEF Bound, IsShared
<1> QED
  BY <1>1, <1>2, <1>3

LEMMA SameTable ==
  ASSUME Inv, table' = table
  PROVE  TableGrows
  BY DEF TableGrows

LEMMA SameKnown ==
  ASSUME entry' = entry
  PROVE  Enters /\ Known' = Known
  BY DEF Enters, Known

\* Steps that put calls in place of the first one and enter no class.
LEMMA PassSize ==
  ASSUME Inv, SizeInv, todo # << >>, UNCHANGED <<prog, table, entry>>, EntGrows,
         todo[1].op \notin {"bindall", "bindat"},
         Selective => \A o \in objects' : o.sized,
         Selective => \A t \in {prog.thread} : \E a : Passes(a, t)
  PROVE  SizeInv'
<1>1. TableGrows /\ Enters
  BY SameTable, SameKnown
<1>2. \A a, t : Rebinds(a, t)
  BY DEF Rebinds, Binder
<1>3. Selective => \A t \in {prog.thread} : \E a : Takes(a, t) /\ Rebinds(a, t)
  BY <1>2, PassesTakes
<1> QED
  BY <1>1, <1>3, SizeStep

LEMMA ReturnSize ==
  ASSUME Inv, SizeInv, todo # << >>, Return, UNCHANGED <<prog, table, entry>>, EntGrows,
         todo[1].op \notin {"bindall", "bindat"},
         Selective => \A o \in objects' : o.sized
  PROVE  SizeInv'
<1>1. PICK a \in Seq(Calls) : a = << >>
  BY EmptyIs
<1>2. \A x : ~Has(a, x)
  BY <1>1, EmptyIs DEF Has
<1>3. todo' = a \o Tail(todo)
  <2>1. Tail(todo) \in Seq(Calls)
    BY FirstIs
  <2> QED
    BY <1>1, <2>1, ConcatEmptySeq DEF Return
<1>4. \A t : Passes(a, t)
  BY <1>2, <1>3 DEF Passes
<1> QED
  BY <1>4, PassSize

LEMMA PlainSize ==
  ASSUME Inv, SizeInv, todo # << >>, Return, UNCHANGED <<prog, table, entry, ent, objects>>,
         todo[1].op \notin {"bindall", "bindat", "bind"}
  PROVE  SizeInv'
<1>1. EntGrows
  BY SameTables
<1>2. Selective => \A o \in objects' : o.sized
  BY DEF SizeInv
<1> QED
  BY <1>1, <1>2, ReturnSize

\* The calls that only return: create of a class that is known, complete,
\* scopes, ready.
LEMMA PlainsSize ==
  ASSUME Inv, SizeInv, todo # << >>,
         \/ Call.op = "create" /\ CreateFound(Call.class, Call.late)
         \/ Call.op = "complete" /\ DoComplete(Call.entry)
         \/ Call.op = "scopes" /\ DoScopes(Call.entry)
         \/ Call.op = "ready" /\ DoReady
  PROVE  SizeInv'
<1>1. Call = todo[1]
  BY FirstIs
<1>2. Return /\ UNCHANGED <<prog, table, entry, ent, objects>>
  BY DEF CreateFound, DoComplete, DoScopes, DoReady, sourceVars, classVars
<1>3. todo[1].op \notin {"bindall", "bindat", "bind"}
  BY <1>1
<1> QED
  BY <1>2, <1>3, PlainSize

LEMMA LinkSize ==
  ASSUME Inv, SizeInv, todo # << >>, Call.op = "link", DoLink(Call.entry, Call.class)
  PROVE  SizeInv'
<1>1. todo[1] \in Calls /\ Call = todo[1] /\ todo[1].op = "link" /\ todo[1].entry \in Entries
  BY FirstIs, CallIs DEF OnEntry
<1>2. PICK e \in Entries : e = todo[1].entry
  BY <1>1
<1>3. PICK s : s = ent[e].supers \cup {entry[todo[1].class]}
  OBVIOUS
<1>4. PICK r : r = ent[e] /\ IsEnt(r)
  BY DEF Inv, EntInv
<1>5. PICK q : q = Deriving(r, s)
  OBVIOUS
<1>6. q.table = r.table
  BY <1>4, <1>5, EntSupers
<1>7. ent' = [ent EXCEPT ![e] = q] /\ ent = [x \in Entries |-> ent[x]]
  <2>1. ent' = [ent EXCEPT ![e].supers = s]
    BY <1>1, <1>2, <1>3 DEF DoLink
  <2>2. ent = [x \in Entries |-> ent[x]]
    BY DEF Inv, EntInv
  <2> QED
    BY <1>4, <1>5, <2>1, <2>2 DEF Deriving
<1>8. \A x \in Entries : ent'[x].table = ent[x].table
  BY <1>4, <1>6, <1>7
<1>9. EntGrows
  BY <1>1, <1>8, SameTables
<1>10. Return /\ UNCHANGED <<prog, table, entry, objects>>
  BY DEF DoLink, sourceVars, classVars
<1>11. Selective => \A o \in objects' : o.sized
  BY <1>10 DEF SizeInv
<1> QED
  BY <1>1, <1>9, <1>10, <1>11, ReturnSize

LEMMA FillSize ==
  ASSUME Inv, SizeInv, todo # << >>, Call.op = "fill", DoFill(Call.entry)
  PROVE  SizeInv'
<1>1. todo[1] \in Calls /\ Call = todo[1] /\ todo[1].op = "fill" /\ todo[1].entry \in Entries
  BY FirstIs, CallIs DEF OnEntry
<1>2. PICK e \in Entries : e = todo[1].entry
  BY <1>1
<1>3. PICK s : ent' = [ent EXCEPT ![e].value = "current", ![e].cells = s]
  BY <1>1, <1>2 DEF DoFill
<1>4. PICK r : r = ent[e] /\ IsEnt(r)
  BY DEF Inv, EntInv
<1>5. PICK q : q = Filled(r, "current", s)
  OBVIOUS
<1>6. q.table = r.table
  BY <1>4, <1>5, EntFilled
<1>7. ent' = [ent EXCEPT ![e] = q] /\ ent = [x \in Entries |-> ent[x]]
  <2>1. ent = [x \in Entries |-> ent[x]]
    BY DEF Inv, EntInv
  <2> QED
    BY <1>3, <1>4, <1>5, <2>1 DEF Filled
<1>8. \A x \in Entries : ent'[x].table = ent[x].table
  BY <1>4, <1>6, <1>7
<1>9. EntGrows
  BY <1>1, <1>8, SameTables
<1>10. Return /\ UNCHANGED <<prog, table, entry, objects>>
  BY DEF DoFill, sourceVars, classVars
<1>11. Selective => \A o \in objects' : o.sized
  BY <1>10 DEF SizeInv
<1> QED
  BY <1>1, <1>9, <1>10, <1>11, ReturnSize

LEMMA BindSize ==
  ASSUME Inv, SizeInv, todo # << >>, Call.op = "bind", DoBind(Call.entry)
  PROVE  SizeInv'
<1>1. todo[1] \in Calls /\ Call = todo[1] /\ todo[1].op = "bind" /\ todo[1].entry \in Entries
  BY FirstIs, CallIs DEF OnEntry
<1>2. PICK e \in Entries : e = todo[1].entry
  BY <1>1
<1>3. PICK s : s = Slots(e)
  OBVIOUS
<1>4. PICK r : r = ent[e] /\ IsEnt(r)
  BY DEF Inv, EntInv
<1>5. PICK q : q = Rebound(r, r.table + 1, s)
  OBVIOUS
<1>6. q.table = r.table + 1
  BY <1>4, <1>5, EntBound
<1>7. ent' = [ent EXCEPT ![e] = q] /\ ent = [x \in Entries |-> ent[x]]
  <2>1. ent' = [ent EXCEPT ![e].table = @ + 1, ![e].slots = s]
    BY <1>1, <1>2, <1>3 DEF DoBind
  <2>2. ent = [x \in Entries |-> ent[x]]
    BY DEF Inv, EntInv
  <2> QED
    BY <1>4, <1>5, <2>1, <2>2 DEF Rebound
<1>8. ent'[e].table = ent[e].table + 1 /\ \A x \in Entries : x # e => ent'[x].table = ent[x].table
  BY <1>4, <1>6, <1>7
<1>9. EntGrows
  <2> SUFFICES ASSUME NEW x \in Entries
               PROVE  ent'[x].table \in Nat /\ (Bound(x) \/ todo[1] = Bind(x) => Bound(x)')
    BY DEF EntGrows
  <2>1. ent[x].table \in Nat
    BY DEF SizeInv
  <2>2. CASE x = e
    BY <1>8, <2>1, <2>2 DEF Bound
  <2>3. CASE x # e
    <3>1. todo[1] # Bind(x)
      BY <1>2, <2>3 DEF Bind
    <3> QED
      BY <1>8, <2>1, <2>3, <3>1 DEF Bound, IsShared
  <2> QED
    BY <2>2, <2>3
<1>10. Return /\ UNCHANGED <<prog, table, entry, objects>>
  BY DEF DoBind, sourceVars, classVars
<1>11. Selective => \A o \in objects' : o.sized
  BY <1>10 DEF SizeInv
<1> QED
  BY <1>1, <1>9, <1>10, <1>11, ReturnSize

\* An object is made of a class that is bound: what is ahead of the late
\* bindings of the thread's class does not need it.
LEMMA ConnectSize ==
  ASSUME Inv, SizeInv, todo # << >>, Call.op = "connect", DoConnect(Call.class)
  PROVE  SizeInv'
<1>1. /\ todo[1] \in Calls /\ Call = todo[1] /\ todo[1].op = "connect" /\ todo[1].class \in Classes
      /\ entry[todo[1].class] # NoEntry
  BY FirstIs, CallIs DEF OnClass
<1>2. PICK c \in Classes : c = todo[1].class /\ c \in Known
  BY <1>1 DEF Known
<1>3. Return /\ UNCHANGED <<prog, table, entry, ent>>
  BY DEF DoConnect, sourceVars, classVars
<1>4. EntGrows
  BY <1>1, <1>3, SameTables
<1>5. ASSUME Selective PROVE Bound(entry[c])
  <2>0. prog \in Programs
    BY DEF Inv
  <2>1. PICK t \in Classes : t = prog.thread
    BY <2>0, ProgramsAssumption DEF IsProgram
  <2>2. EarlyInv(t) /\ BoundInv(t)
    BY <1>5, <2>1 DEF SizeInv
  <2>3. todo[1] # Bind(entry[c])
    BY <1>1 DEF Bind
  <2>4. ASSUME c = t, NEW x \in Calls, Has(todo, x), Binder(x, t) PROVE FALSE
    <3>1. PICK j \in 1 .. Len(todo) : todo[j] = x
      BY <2>4 DEF Has
    <3>2. j # 1
      BY <1>1, <2>4, <3>1 DEF Binder
    <3>3. 1 \in 1 .. Len(todo) /\ 1 < j
      BY <3>1, <3>2, FirstIs, LenProperties
    <3>4. <<todo[1], x>> \in Waits(t)
      BY <2>2, <3>1, <3>3 DEF EarlyInv, Ordered
    <3>5. Aside(todo[1], t) \/ Early(todo[1])
      BY <2>4, <3>4 DEF Waits
    <3>6. t \in Below(t)
      BY <1>1, <1>2, <2>4, <3>5 DEF Aside, Early, Under
    <3>7. t \notin prog.immutable /\ ~HoldsDescendant
      BY <1>5, <2>1 DEF Selective, LoopNeedsMore
    <3> QED
      BY <2>0, <3>6, <3>7, BelowIs
  <2> QED
    BY <1>2, <2>2, <2>3, <2>4 DEF BoundInv
<1>6. Selective => \A o \in objects' : o.sized
  <2>1. ASSUME Selective, NEW o \in objects' PROVE o.sized
    <3>1. o \in objects \/ o = [entry |-> entry[c], sized |-> Bound(entry[c])]
      BY <1>1, <1>2, <2>1 DEF DoConnect
    <3>2. [entry |-> entry[c], sized |-> Bound(entry[c])].sized = Bound(entry[c])
      OBVIOUS
    <3> QED
      BY <1>5, <2>1, <3>1, <3>2 DEF SizeInv
  <2> QED
    BY <2>1
<1> QED
  BY <1>1, <1>3, <1>4, <1>6, ReturnSize

LEMMA InitStaticsSize ==
  ASSUME Inv, SizeInv, todo # << >>, Call.op = "initstatics", DoInitStatics(Call.entry)
  PROVE  SizeInv'
<1>1. todo[1] \in Calls /\ Call = todo[1] /\ todo[1].op = "initstatics" /\ todo[1].entry \in Entries
  BY FirstIs, CallIs DEF OnEntry
<1>2. PICK e \in Entries : e = todo[1].entry
  BY <1>1
<1>3. PICK c \in Classes : c = ClassOf(e)
  BY EntriesAre
<1>4. prog \in Programs
  BY DEF Inv
<1>5. CASE ~HasStatics(c) \/ c \notin prog.used \/ ent[e].value # None
  <2>1. Return /\ UNCHANGED <<prog, table, entry, ent, objects>>
    BY <1>1, <1>2, <1>3, <1>5 DEF DoInitStatics, sourceVars, classVars
  <2> QED
    BY <1>1, <2>1, PlainSize
<1>6. CASE ~(~HasStatics(c) \/ c \notin prog.used \/ ent[e].value # None)
  <2>1. PICK b : /\ b = Defaulted(ParentOf(e)) \/ b = ent
                 /\ ent' = [b EXCEPT ![e].value = "unset"]
    BY <1>1, <1>2, <1>3, <1>6 DEF DoInitStatics
  <2>2. PICK h : h = IF c \in prog.statics THEN prog.held[c] ELSE None
    OBVIOUS
  <2>3. /\ todo' = ((IF h = None THEN << >> ELSE <<Create(h, TRUE), Connect(h)>>) \o <<Fill(e)>>)
                     \o Tail(todo)
        /\ UNCHANGED <<prog, table, entry, objects>>
    BY <1>1, <1>2, <1>3, <1>6, <2>2 DEF DoInitStatics, Then, sourceVars, classVars
  <2>4. h = None \/ (h \in Classes /\ h \in Leads(c))
    <3>1. prog.held[c] \in Classes \cup {None}
      BY <1>4, ProgramIs
    <3>2. c \in prog.statics /\ prog.held[c] # None => prog.held[c] \in Leads(c)
      BY <1>4, <1>6, LeadsAre
    <3> QED
      BY <2>2, <3>1, <3>2
  <2>5. EntGrows
    <3>1. /\ b = [x \in Entries |-> b[x]]
          /\ \A x \in Entries : Keeps(ent[x], b[x]) /\ b[x].table = ent[x].table
      BY <2>1, DefaultedKeeps
    <3>2. PICK r : r = b[e] /\ IsEnt(r)
      BY <3>1 DEF Keeps
    <3>3. PICK q : q = Valued(r, "unset")
      OBVIOUS
    <3>4. q.table = r.table
      BY <3>2, <3>3, EntUnset
    <3>5. ent' = [b EXCEPT ![e] = q]
      BY <2>1, <3>1, <3>2, <3>3 DEF Valued
    <3>6. \A x \in Entries : ent'[x].table = ent[x].table
      BY <3>1, <3>2, <3>4, <3>5
    <3> QED
      BY <1>1, <3>6, SameTables
  <2>6. PICK f \in Calls : f = Fill(e) /\ f.op = "fill"
    <3>1. Fill(e).op = "fill"
      BY DEF Fill
    <3> QED
      BY <3>1, CallsAre
  <2>7. PICK s \in Seq(Calls) : s = <<f>> /\ \A x : Has(s, x) <=> x = f
    BY HasIs
  <2>8. Selective => \A o \in objects' : o.sized
    BY <2>3 DEF SizeInv
  <2>9. CASE h = None
    <3>1. todo' = s \o Tail(todo)
      <4>1. << >> \o s = s
        BY <2>7, ConcatEmptySeq
      <4> QED
        BY <2>3, <2>6, <2>7, <2>9, <4>1
    <3>2. \A t : Passes(s, t)
      BY <2>6, <2>7, <3>1 DEF Passes, Under, Early
    <3> QED
      BY <1>1, <2>3, <2>5, <2>8, <3>2, PassSize
  <2>10. CASE h # None
    <3>0. h \in Classes /\ h \in Leads(c)
      BY <2>4, <2>10
    <3>1. PICK l \in Seq(Calls) : /\ l = <<Create(h, TRUE), Connect(h)>>
                                  /\ \A x : Has(l, x) <=> x = Create(h, TRUE) \/ x = Connect(h)
      BY <3>0, HeldIs
    <3>2. PICK a \in Seq(Calls) : a = l \o s /\ \A x : Has(a, x) <=> Has(l, x) \/ Has(s, x)
      <4>1. l \o s \in Seq(Calls) /\ \A x : Has(l \o s, x) <=> Has(l, x) \/ Has(s, x)
        BY HasConcat
      <4> QED
        BY <4>1
    <3>3. todo' = a \o Tail(todo)
      BY <2>3, <2>6, <2>7, <2>10, <3>1, <3>2
    <3>4. /\ Create(h, TRUE).op = "create" /\ Create(h, TRUE).class = h /\ Create(h, TRUE).late
          /\ Connect(h).op = "connect" /\ Connect(h).class = h
      BY DEF Create, Connect
    <3>5. ASSUME NEW t \in Classes PROVE Passes(a, t)
      <4>1. ASSUME NEW x \in Calls, Has(a, x)
            PROVE  /\ x.op \notin {"offer", "bindall", "bindat"} /\ ~Early(x)
                   /\ Aside(todo[1], t) \/ Early(todo[1]) => Under(x, t)
        <5>1. x = f \/ x = Create(h, TRUE) \/ x = Connect(h)
          BY <2>7, <3>1, <3>2, <4>1
        <5>2. x.op \notin {"offer", "bindall", "bindat"} /\ ~Early(x)
          BY <2>6, <3>4, <5>1 DEF Early
        <5>3. ASSUME Aside(todo[1], t) \/ Early(todo[1]) PROVE Under(x, t)
          <6>1. c \in Below(t)
            BY <1>1, <1>2, <1>3, <5>3 DEF Aside, Early, Under
          <6>2. h \in Below(t)
            BY <1>4, <3>0, <6>1, BelowIs
          <6> QED
            BY <2>6, <3>4, <5>1, <6>2 DEF Under
        <5> QED
          BY <5>2, <5>3
      <4> QED
        BY <3>3, <4>1 DEF Passes
    <3>6. prog.thread \in Classes
      BY <1>4, ProgramsAssumption DEF IsProgram
    <3>7. Selective => \A t \in {prog.thread} : \E y : Passes(y, t)
      BY <3>5, <3>6
    <3> QED
      BY <1>1, <2>3, <2>5, <2>8, <3>7, PassSize
  <2> QED
    BY <2>9, <2>10
<1> QED
  BY <1>5, <1>6

LEMMA SupersCalls ==
  ASSUME prog \in Programs, NEW e \in Entries
  PROVE  /\ LinkSupers(e) \in Seq(Calls)
         /\ \A x : Has(LinkSupers(e), x) =>
              \/ x.op = "create" /\ x.late /\ x.class \in Bases(ClassOf(e))
              \/ x.op = "link"
<1>1. ClassOf(e) \in Classes
  BY EntriesAre
<1>2. PICK D : D = Range(Supers(ClassOf(e)))
  OBVIOUS
<1>3. D \subseteq Bases(ClassOf(e))
  BY <1>1, <1>2, SupersAre
<1>4. Links(e, D, LinkSupers(e))
  BY <1>2, LinkSupersIs
<1>5. ASSUME NEW x, Has(LinkSupers(e), x)
      PROVE  \/ x.op = "create" /\ x.late /\ x.class \in Bases(ClassOf(e))
             \/ x.op = "link"
  <2>1. PICK d \in D : x = Create(d, TRUE) \/ x = Link(e, d)
    BY <1>4, <1>5 DEF Links, Has
  <2> QED
    BY <1>3, <2>1 DEF Create, Link
<1> QED
  BY <1>4, <1>5 DEF Links

LEMMA BindingCalls ==
  ASSUME NEW e \in Entries, NEW late
  PROVE  /\ (IF late THEN LateBindings(e) ELSE << >>) \in Seq(Calls)
         /\ \A x : Has(IF late THEN LateBindings(e) ELSE << >>, x) =>
              late /\ (x.op = "bind" \/ (x.op = "initstatics" /\ x.entry = e))
<1>1. LateBindings(e) \in Seq(Calls) /\ << >> \in Seq(Calls)
  BY LateBindingsAre, EmptyIs
<1>2. \A x : (Has(LateBindings(e), x) => x \in {Bind(e), InitStatics(e)}) /\ ~Has(<< >>, x)
  BY LateBindingsAre, HasIs
<1>3. Bind(e).op = "bind" /\ InitStatics(e).op = "initstatics" /\ InitStatics(e).entry = e
  BY DEF Bind, InitStatics
<1>4. CASE late
  <2>1. (IF late THEN LateBindings(e) ELSE << >>) = LateBindings(e)
    BY <1>4
  <2> QED
    BY <1>1, <1>2, <1>3, <1>4, <2>1
<1>5. CASE ~late
  <2>1. (IF late THEN LateBindings(e) ELSE << >>) = << >>
    BY <1>5
  <2> QED
    BY <1>1, <1>2, <2>1
<1> QED
  BY <1>4, <1>5

LEMMA CreateCompleteSize ==
  ASSUME Inv, SizeInv, todo # << >>, Call.op = "create", CreateComplete(Call.class, Call.late)
  PROVE  SizeInv'
<1>1. /\ todo[1] \in Calls /\ Call = todo[1] /\ todo[1].op = "create" /\ todo[1].class \in Classes
      /\ Has(todo, todo[1])
  BY FirstIs, CallIs DEF OnClass
<1>2. PICK c \in Classes : c = todo[1].class
  BY <1>1
<1>3. PICK late : late = todo[1].late
  OBVIOUS
<1>4. CanComplete(c) /\ CreateComplete(c, late) /\ prog \in Programs
  BY <1>1, <1>2, <1>3 DEF CreateComplete, Inv
<1>5. PICK e \in Entries : e = entry[c]
  BY <1>4, TypesAre DEF CanComplete
<1>6. ClassOf(e) = c
  BY <1>4, <1>5 DEF CanComplete, Inv, EntryInv
<1>7. UNCHANGED <<prog, table, entry, objects>>
  BY <1>4 DEF CreateComplete, sourceVars, classVars
<1>8. EntGrows
  <2>1. PICK r : r = ent[e] /\ IsEnt(r)
    BY DEF Inv, EntInv
  <2>2. PICK v : v = TRUE
    OBVIOUS
  <2>3. PICK q : q = Linking(r, v)
    OBVIOUS
  <2>4. q.table = r.table
    BY <2>1, <2>3, EntLinked
  <2>5. ent' = [ent EXCEPT ![e] = q] /\ ent = [x \in Entries |-> ent[x]]
    <3>1. ent' = [ent EXCEPT ![e].linked = TRUE]
      BY <1>4, <1>5 DEF CreateComplete
    <3>2. ent = [x \in Entries |-> ent[x]]
      BY DEF Inv, EntInv
    <3> QED
      BY <2>1, <2>2, <2>3, <3>1, <3>2 DEF Linking
  <2>6. \A x \in Entries : ent'[x].table = ent[x].table
    BY <2>1, <2>4, <2>5
  <2> QED
    BY <1>1, <2>6, SameTables
<1>9. PICK l \in Seq(Calls) : /\ l = LinkSupers(e)
                              /\ \A x : Has(l, x) =>
                                   \/ x.op = "create" /\ x.late /\ x.class \in Bases(c)
                                   \/ x.op = "link"
  BY <1>4, <1>6, SupersCalls
<1>10. PICK f \in Calls : f = Complete(e) /\ f.op = "complete"
  <2>1. Complete(e).op = "complete"
    BY DEF Complete
  <2> QED
    BY <2>1, CallsAre
<1>11. PICK s \in Seq(Calls) : s = <<f>> /\ \A x : Has(s, x) <=> x = f
  <2>1. <<f>> \in Seq(Calls) /\ \A x : Has(<<f>>, x) <=> x = f
    BY HasIs
  <2> QED
    BY <2>1
<1>12. PICK b \in Seq(Calls) : /\ b = (IF late THEN LateBindings(e) ELSE << >>)
                               /\ \A x : Has(b, x) =>
                                    late /\ (x.op = "bind" \/ (x.op = "initstatics" /\ x.entry = e))
  <2>1. (IF late THEN LateBindings(e) ELSE << >>) \in Seq(Calls)
    BY BindingCalls
  <2>2. PICK b \in Seq(Calls) : b = (IF late THEN LateBindings(e) ELSE << >>)
    BY <2>1
  <2>3. \A x : Has(b, x) => late /\ (x.op = "bind" \/ (x.op = "initstatics" /\ x.entry = e))
    BY <2>2, BindingCalls
  <2> QED
    BY <2>2, <2>3
<1>13. PICK k \in Seq(Calls) : k = l \o s /\ \A x : Has(k, x) <=> Has(l, x) \/ Has(s, x)
  <2>1. l \o s \in Seq(Calls) /\ \A x : Has(l \o s, x) <=> Has(l, x) \/ Has(s, x)
    BY HasConcat
  <2> QED
    BY <2>1
<1>14. PICK a \in Seq(Calls) : a = k \o b /\ \A x : Has(a, x) <=> Has(k, x) \/ Has(b, x)
  <2>1. k \o b \in Seq(Calls) /\ \A x : Has(k \o b, x) <=> Has(k, x) \/ Has(b, x)
    BY HasConcat
  <2> QED
    BY <2>1
<1>15. todo' = a \o Tail(todo)
  BY <1>4, <1>5, <1>9, <1>10, <1>11, <1>12, <1>13, <1>14 DEF CreateComplete, Then
<1>16. ASSUME Selective, NEW t \in {prog.thread} PROVE Passes(a, t)
  <2>0. t \in Classes
    BY <1>4, ProgramsAssumption DEF IsProgram
  <2>1. Early(todo[1]) => c = t /\ ~late
    <3>1. EarlyInv(t)
      BY <1>16 DEF SizeInv
    <3>2. Early(todo[1]) => Gives(todo[1], t)
      BY <1>1, <3>1 DEF EarlyInv
    <3> QED
      BY <1>1, <1>2, <1>3, <3>2 DEF Gives, Early
  <2>2. ASSUME NEW x \in Calls, Has(a, x)
        PROVE  /\ x.op \notin {"offer", "bindall", "bindat"} /\ ~Early(x)
               /\ Aside(todo[1], t) \/ Early(todo[1]) => Under(x, t)
    <3>1. \/ x.op = "create" /\ x.late /\ x.class \in Bases(c)
          \/ x.op \in {"link", "complete"}
          \/ late /\ (x.op = "bind" \/ (x.op = "initstatics" /\ x.entry = e))
      BY <1>9, <1>10, <1>11, <1>12, <1>13, <1>14, <2>2
    <3>2. x.op \notin {"offer", "bindall", "bindat"} /\ ~Early(x)
      BY <3>1 DEF Early
    <3>3. ASSUME Early(todo[1]) PROVE Under(x, t)
      <4>1. Bases(c) \subseteq Below(t) /\ ~late
        BY <1>4, <2>0, <2>1, <3>3, BelowIs
      <4> QED
        BY <3>1, <4>1 DEF Under
    <3>4. ASSUME Aside(todo[1], t) PROVE Under(x, t)
      <4>1. c \in Below(t)
        BY <1>1, <1>2, <3>4 DEF Aside, Under
      <4>2. Bases(c) \subseteq Below(t)
        BY <1>4, <2>0, <4>1, BelowIs
      <4> QED
        BY <1>6, <3>1, <4>1, <4>2 DEF Under
    <3> QED
      BY <3>2, <3>3, <3>4
  <2> QED
    BY <1>15, <2>2 DEF Passes
<1>17. Selective => \A t \in {prog.thread} : \E y : Passes(y, t)
  BY <1>16
<1>18. Selective => \A o \in objects' : o.sized
  BY <1>7 DEF SizeInv
<1> QED
  BY <1>1, <1>7, <1>8, <1>17, <1>18, PassSize

LEMMA CreateCopySize ==
  ASSUME Inv, SizeInv, todo # << >>, Call.op = "create", CreateCopy(Call.class, Call.late)
  PROVE  SizeInv'
<1>1. /\ todo[1] \in Calls /\ Call = todo[1] /\ todo[1].op = "create" /\ todo[1].class \in Classes
      /\ todo[1].late \in BOOLEAN /\ Has(todo, todo[1])
  BY FirstIs, CallIs DEF OnClass
<1>2. PICK c \in Classes : c = todo[1].class
  BY <1>1
<1>3. PICK late \in BOOLEAN : late = todo[1].late
  BY <1>1
<1>4. CreateCopy(c, late) /\ prog \in Programs
  BY <1>1, <1>2, <1>3 DEF Inv
<1>5. PICK e : e = <<c, copies[c] + 1>>
  OBVIOUS
<1>6. /\ ent' = [ent EXCEPT ![e].linked = c \in linked]
      /\ todo' = (LinkSupers(e) \o <<Insert(e, late)>>) \o Tail(todo)
      /\ UNCHANGED <<prog, table, entry, objects>>
  BY <1>4, <1>5 DEF CreateCopy, Then, sourceVars
<1>7. e \in Entries /\ ClassOf(e) = c
  <2>1. copies[c] \in Nat /\ MaxCopies \in Nat /\ copies[c] < MaxCopies
    BY <1>4, BoundsAssumption, TypesAre DEF CreateCopy
  <2>2. copies[c] + 1 \in 0 .. MaxCopies
    BY <2>1
  <2> QED
    BY <1>5, <2>2, EntriesAre
<1>8. EntGrows
  <2>1. PICK r : r = ent[e] /\ IsEnt(r)
    BY <1>7 DEF Inv, EntInv
  <2>2. PICK v : v = (c \in linked)
    OBVIOUS
  <2>3. PICK q : q = Linking(r, v)
    OBVIOUS
  <2>4. q.table = r.table
    BY <2>1, <2>3, EntLinked
  <2>5. ent' = [ent EXCEPT ![e] = q] /\ ent = [x \in Entries |-> ent[x]]
    <3>1. ent' = [ent EXCEPT ![e].linked = v]
      BY <1>6, <2>2
    <3>2. ent = [x \in Entries |-> ent[x]]
      BY DEF Inv, EntInv
    <3> QED
      BY <1>7, <2>1, <2>3, <3>1, <3>2 DEF Linking
  <2>6. \A x \in Entries : ent'[x].table = ent[x].table
    BY <1>7, <2>1, <2>4, <2>5
  <2> QED
    BY <1>1, <2>6, SameTables
<1>9. PICK l \in Seq(Calls) : /\ l = LinkSupers(e)
                              /\ \A x : Has(l, x) =>
                                   \/ x.op = "create" /\ x.late /\ x.class \in Bases(c)
                                   \/ x.op = "link"
  BY <1>4, <1>7, SupersCalls
<1>10. PICK f \in Calls : f = Insert(e, late) /\ f.op = "insert" /\ f.entry = e /\ f.late = late
  <2>1. Insert(e, late).op = "insert" /\ Insert(e, late).entry = e /\ Insert(e, late).late = late
    BY DEF Insert
  <2> QED
    BY <1>7, <2>1, CallsAre
<1>11. PICK s \in Seq(Calls) : s = <<f>> /\ \A x : Has(s, x) <=> x = f
  <2>1. <<f>> \in Seq(Calls) /\ \A x : Has(<<f>>, x) <=> x = f
    BY HasIs
  <2> QED
    BY <2>1
<1>12. PICK a \in Seq(Calls) : a = l \o s /\ \A x : Has(a, x) <=> Has(l, x) \/ Has(s, x)
  <2>1. l \o s \in Seq(Calls) /\ \A x : Has(l \o s, x) <=> Has(l, x) \/ Has(s, x)
    BY HasConcat
  <2> QED
    BY <2>1
<1>13. todo' = a \o Tail(todo)
  BY <1>6, <1>9, <1>10, <1>11, <1>12
<1>14. ASSUME Selective, NEW t \in {prog.thread} PROVE Passes(a, t)
  <2>0. t \in Classes
    BY <1>4, ProgramsAssumption DEF IsProgram
  <2>1. Early(todo[1]) <=> ~late
    BY <1>1, <1>3 DEF Early
  <2>2. ~late => c = t
    <3>1. EarlyInv(t)
      BY <1>14 DEF SizeInv
    <3>2. Early(todo[1]) => Gives(todo[1], t)
      BY <1>1, <3>1 DEF EarlyInv
    <3> QED
      BY <1>1, <1>2, <2>1, <3>2 DEF Gives
  <2>3. ASSUME NEW x \in Calls, Has(l, x)
        PROVE  /\ x.op \notin {"offer", "bindall", "bindat"} /\ ~Early(x)
               /\ Aside(todo[1], t) \/ Early(todo[1]) => Under(x, t)
    <3>1. \/ x.op = "create" /\ x.late /\ x.class \in Bases(c)
          \/ x.op = "link"
      BY <1>9, <2>3
    <3>2. x.op \notin {"offer", "bindall", "bindat"} /\ ~Early(x)
      BY <3>1 DEF Early
    <3>3. ASSUME Aside(todo[1], t) \/ Early(todo[1]) PROVE Under(x, t)
      <4>1. c \in Below(t) \/ c = t
        BY <1>1, <1>2, <2>1, <2>2, <3>3 DEF Aside, Under
      <4>2. Bases(c) \subseteq Below(t)
        BY <1>4, <2>0, <4>1, BelowIs
      <4> QED
        BY <3>1, <4>2 DEF Under
    <3> QED
      BY <3>2, <3>3
  <2>4. /\ Early(f) <=> ~late
        /\ Gives(f, c)
        /\ Aside(todo[1], t) => Under(f, t)
    <3>1. (Early(f) <=> ~late) /\ Gives(f, c)
      BY <1>7, <1>10 DEF Early, Gives
    <3>2. Aside(todo[1], t) => c \in Below(t)
      BY <1>1, <1>2 DEF Aside, Under
    <3> QED
      BY <1>7, <1>10, <3>1, <3>2 DEF Under
  <2>5. \A x \in Calls : Has(a, x) =>
          /\ x.op \notin {"offer", "bindall", "bindat"}
          /\ Aside(todo[1], t) \/ Early(todo[1]) => Under(x, t) \/ Early(x)
          /\ Early(x) => Early(todo[1]) /\ x.op = "insert" /\ Gives(x, t)
    BY <1>10, <1>11, <1>12, <2>1, <2>2, <2>3, <2>4
  <2> QED
    BY <1>13, <2>5 DEF Passes
<1>15. Selective => \A t \in {prog.thread} : \E y : Passes(y, t)
  BY <1>14
<1>16. Selective => \A o \in objects' : o.sized
  BY <1>6 DEF SizeInv
<1> QED
  BY <1>1, <1>6, <1>8, <1>15, <1>16, PassSize

LEMMA PutGrows ==
  ASSUME Inv, NEW c \in Classes, NEW e \in Entries, Put(c, e)
  PROVE  TableGrows
<1>1. table \in Seq(Classes) /\ Len(table) \in Nat
  BY LenProperties DEF Inv, TypeOK
<1>2. table' = Append(table, c) \/ table' = table
  BY DEF Put
<1>3. CASE table' = table
  BY <1>3 DEF TableGrows
<1>4. CASE table' = Append(table, c)
  <2>1. Len(table') = Len(table) + 1 /\ \A i \in 1 .. Len(table) : table'[i] = table[i]
    BY <1>1, <1>4, AppendProperties
  <2> QED
    BY <1>1, <2>1 DEF TableGrows
<1> QED
  BY <1>2, <1>3, <1>4

LEMMA CreateSharedSize ==
  ASSUME Inv, SizeInv, todo # << >>, Call.op = "create", CreateShared(Call.class, Call.late)
  PROVE  SizeInv'
<1>1. /\ todo[1] \in Calls /\ Call = todo[1] /\ todo[1].op = "create" /\ todo[1].class \in Classes
      /\ todo[1].late \in BOOLEAN /\ Has(todo, todo[1])
  BY FirstIs, CallIs DEF OnClass
<1>2. PICK c \in Classes : c = todo[1].class
  BY <1>1
<1>3. PICK late \in BOOLEAN : late = todo[1].late
  BY <1>1
<1>4. CreateShared(c, late) /\ prog \in Programs
  BY <1>1, <1>2, <1>3 DEF Inv
<1>5. PICK e \in Entries : e = <<c, 0>> /\ ClassOf(e) = c /\ IsShared(e)
  <2>1. 0 \in 0 .. MaxCopies
    BY BoundsAssumption
  <2>2. <<c, 0>> \in Entries /\ ClassOf(<<c, 0>>) = c
    BY <2>1, EntriesAre
  <2> QED
    BY <2>2 DEF IsShared
<1>6. c \in prog.immutable /\ Put(c, e)
  BY <1>4, <1>5 DEF CreateShared
<1>7. UNCHANGED <<prog, ent, objects>>
  BY <1>4 DEF CreateShared, sourceVars
<1>8. entry'[c] = e /\ (\A d \in Classes : d # c => entry'[d] = entry[d]) /\ Known' = Known \cup {c}
  BY <1>6, PutIs
<1>9. PICK p \in Seq(Leads(c)) : p = Dependencies(c)
  BY <1>4, <1>6, DependenciesAre
<1>10. PICK n \in Nat : n = Len(p) /\ DOMAIN p = 1 .. n
  BY LenProperties
<1>11. \A i \in 1 .. n : p[i] \in Leads(c) /\ p[i] \in Classes
  BY <1>4, <1>10, ElementOfSeq, LeadsAre
<1>12. PICK l : l = [i \in 1 .. n |-> Create(p[i], late)]
  OBVIOUS
<1>13. l \in Seq(Calls) /\ Len(l) = n
  <2>1. \A i \in 1 .. n : Create(p[i], late) \in Calls
    BY <1>11, CallsAre
  <2>2. l \in [1 .. n -> Calls]
    BY <1>12, <2>1
  <2> QED
    BY <2>2, FunctionIsSeq
<1>14. \A i \in 1 .. Len(l) : l[i].op = "create" /\ l[i].class \in Leads(c) /\ l[i].late = late
  BY <1>11, <1>12, <1>13 DEF Create
<1>15. PICK b \in Seq(Calls) : /\ b = (IF late THEN LateBindings(e) ELSE << >>)
                               /\ \A x : Has(b, x) =>
                                    late /\ (x.op = "bind" \/ (x.op = "initstatics" /\ x.entry = e))
  <2>1. (IF late THEN LateBindings(e) ELSE << >>) \in Seq(Calls)
    BY BindingCalls
  <2>2. PICK b \in Seq(Calls) : b = (IF late THEN LateBindings(e) ELSE << >>)
    BY <2>1
  <2>3. \A x : Has(b, x) => late /\ (x.op = "bind" \/ (x.op = "initstatics" /\ x.entry = e))
    BY <2>2, BindingCalls
  <2> QED
    BY <2>2, <2>3
<1>16. PICK a \in Seq(Calls) : a = l \o b /\ \A x : Has(a, x) <=> Has(l, x) \/ Has(b, x)
  <2>1. l \o b \in Seq(Calls) /\ \A x : Has(l \o b, x) <=> Has(l, x) \/ Has(b, x)
    BY <1>13, HasConcat
  <2> QED
    BY <2>1
<1>17. todo' = a \o Tail(todo)
  BY <1>4, <1>5, <1>9, <1>10, <1>12, <1>15, <1>16 DEF CreateShared, Then
<1>18. ASSUME Selective, NEW t \in {prog.thread} PROVE Passes(a, t) /\ Rebinds(a, t)
  <2>0. t \in Classes
    BY <1>4, ProgramsAssumption DEF IsProgram
  <2>1. ~Early(todo[1]) /\ late
    <3>1. EarlyInv(t)
      BY <1>18 DEF SizeInv
    <3>2. Early(todo[1]) => Gives(todo[1], t)
      BY <1>1, <3>1 DEF EarlyInv
    <3>3. c # t
      BY <1>6, <1>18 DEF Selective, LoopNeedsMore
    <3> QED
      BY <1>1, <1>2, <1>3, <3>2, <3>3 DEF Gives, Early
  <2>2. ASSUME NEW x \in Calls, Has(a, x)
        PROVE  /\ x.op \notin {"offer", "bindall", "bindat"} /\ ~Early(x)
               /\ Aside(todo[1], t) => Under(x, t)
    <3>1. \/ x.op = "create" /\ x.late /\ x.class \in Leads(c)
          \/ x.op = "bind"
          \/ x.op = "initstatics" /\ x.entry = e
      <4>1. Has(l, x) \/ Has(b, x)
        BY <1>16, <2>2
      <4>2. Has(l, x) => x.op = "create" /\ x.late /\ x.class \in Leads(c)
        BY <1>14, <2>1 DEF Has
      <4> QED
        BY <1>15, <4>1, <4>2
    <3>2. x.op \notin {"offer", "bindall", "bindat"} /\ ~Early(x)
      BY <3>1 DEF Early
    <3>3. ASSUME Aside(todo[1], t) PROVE Under(x, t)
      <4>1. c \in Below(t)
        BY <1>1, <1>2, <3>3 DEF Aside, Under
      <4>2. Leads(c) \subseteq Below(t)
        BY <1>4, <2>0, <4>1, BelowIs
      <4> QED
        BY <1>5, <3>1, <4>1, <4>2 DEF Under
    <3> QED
      BY <3>2, <3>3
  <2>3. Passes(a, t)
    BY <1>17, <2>1, <2>2 DEF Passes
  <2> QED
    BY <1>1, <2>3 DEF Rebinds, Binder
<1>19. Enters
  <2>1. Bound(entry[c])' /\ Gives(todo[1], c)
    BY <1>1, <1>2, <1>5, <1>8 DEF Bound, IsShared, Gives
  <2>2. \A d \in Known' : d = c \/ (d \in Known /\ entry'[d] = entry[d])
    BY <1>8 DEF Known
  <2> QED
    BY <2>1, <2>2 DEF Enters
<1>20. TableGrows /\ EntGrows
  BY <1>1, <1>6, <1>7, PutGrows, SameTables
<1>21. Selective => /\ Enters /\ \A o \in objects' : o.sized
                    /\ \A t \in {prog.thread} : \E y : Takes(y, t) /\ Rebinds(y, t)
  <2>1. Selective => \A o \in objects' : o.sized
    BY <1>7 DEF SizeInv
  <2>2. Selective => \A t \in {prog.thread} : \E y : Takes(y, t) /\ Rebinds(y, t)
    BY <1>18, PassesTakes
  <2> QED
    BY <1>19, <2>1, <2>2
<1> QED
  BY <1>7, <1>20, <1>21, SizeStep

LEMMA InsertSize ==
  ASSUME Inv, SizeInv, todo # << >>, Call.op = "insert", DoInsert(Call.entry, Call.late)
  PROVE  SizeInv'
<1>1. /\ todo[1] \in Calls /\ Call = todo[1] /\ todo[1].op = "insert" /\ todo[1].entry \in Entries
      /\ Apt(todo[1]) /\ todo[1].late \in BOOLEAN /\ Has(todo, todo[1])
  BY FirstIs, CallIs DEF OnEntry
<1>2. PICK e \in Entries : e = todo[1].entry
  BY <1>1
<1>3. PICK c \in Classes : c = ClassOf(e)
  BY EntriesAre
<1>4. PICK late \in BOOLEAN : late = todo[1].late
  BY <1>1
<1>5. DoInsert(e, late) /\ prog \in Programs
  BY <1>1, <1>2, <1>4 DEF Inv
<1>6. ~IsShared(e) /\ (entry[c] = NoEntry \/ HoldsDescendant)
  BY <1>1, <1>2, <1>3 DEF Apt
<1>7. Put(c, e) /\ UNCHANGED <<prog, ent, objects>>
  BY <1>3, <1>5 DEF DoInsert, sourceVars
<1>8. entry'[c] = e /\ (\A d \in Classes : d # c => entry'[d] = entry[d]) /\ Known' = Known \cup {c}
  BY <1>7, PutIs
<1>9. PICK b \in Seq(Calls) : /\ b = (IF late THEN LateBindings(e) ELSE << >>)
                              /\ \A x : Has(b, x) =>
                                   late /\ (x.op = "bind" \/ (x.op = "initstatics" /\ x.entry = e))
  <2>1. (IF late THEN LateBindings(e) ELSE << >>) \in Seq(Calls)
    BY BindingCalls
  <2>2. PICK b \in Seq(Calls) : b = (IF late THEN LateBindings(e) ELSE << >>)
    BY <2>1
  <2>3. \A x : Has(b, x) => late /\ (x.op = "bind" \/ (x.op = "initstatics" /\ x.entry = e))
    BY <2>2, BindingCalls
  <2> QED
    BY <2>2, <2>3
<1>10. PICK f \in Calls : f = Scopes(e) /\ f.op = "scopes"
  <2>1. Scopes(e).op = "scopes"
    BY DEF Scopes
  <2> QED
    BY <2>1, CallsAre
<1>11. PICK s \in Seq(Calls) : s = <<f>> /\ \A x : Has(s, x) <=> x = f
  <2>1. <<f>> \in Seq(Calls) /\ \A x : Has(<<f>>, x) <=> x = f
    BY HasIs
  <2> QED
    BY <2>1
<1>12. PICK a \in Seq(Calls) : /\ a = b \o s /\ Concat(Calls, b, s, a)
                               /\ \A x : Has(a, x) <=> Has(b, x) \/ Has(s, x)
  <2>1. b \o s \in Seq(Calls) /\ \A x : Has(b \o s, x) <=> Has(b, x) \/ Has(s, x)
    BY HasConcat
  <2>2. Concat(Calls, b, s, b \o s)
    BY ConcatIs
  <2> QED
    BY <2>1, <2>2
<1>13. todo' = a \o Tail(todo)
  BY <1>5, <1>9, <1>10, <1>11, <1>12 DEF DoInsert, Then
<1>14. ASSUME NEW x, Has(a, x)
       PROVE  \/ late /\ (x.op = "bind" \/ (x.op = "initstatics" /\ x.entry = e))
              \/ x.op = "scopes"
  BY <1>9, <1>10, <1>11, <1>12, <1>14
<1>15. ASSUME Selective, NEW t \in {prog.thread} PROVE Passes(a, t) /\ Rebinds(a, t)
  <2>1. Early(todo[1]) => ~late
    BY <1>4 DEF Early
  <2>2. Aside(todo[1], t) => c \in Below(t)
    BY <1>1, <1>2, <1>3 DEF Aside, Under
  <2>3. ASSUME NEW x \in Calls, Has(a, x)
        PROVE  /\ x.op \notin {"offer", "bindall", "bindat"} /\ ~Early(x)
               /\ Aside(todo[1], t) \/ Early(todo[1]) => Under(x, t)
    BY <1>3, <1>14, <2>1, <2>2, <2>3 DEF Early, Under
  <2>4. Passes(a, t)
    BY <1>13, <2>3 DEF Passes
  <2> QED
    BY <1>1, <2>4 DEF Rebinds, Binder
<1>16. ASSUME late PROVE Len(todo') > 0 /\ todo'[1] = Bind(e)
  <2>1. Bind(e) \in Calls /\ InitStatics(e) \in Calls
    BY CallsAre
  <2>2. b = <<Bind(e), InitStatics(e)>>
    BY <1>6, <1>9, <1>16 DEF LateBindings
  <2>3. Len(b) = 2 /\ b[1] = Bind(e)
    BY <2>1, <2>2, TwoIs
  <2>4. 1 \in 1 .. Len(a) /\ a[1] = Bind(e)
    BY <1>12, <2>3, LenProperties DEF Concat
  <2>5. Turns(Calls, todo, a, todo')
    BY <1>13, HasAfter
  <2>6. 1 \in 1 .. Len(todo') /\ todo'[1] = Bind(e)
    BY <2>4, <2>5 DEF Turns
  <2> QED
    BY <2>5, <2>6, LenProperties DEF Turns
<1>17. ASSUME Selective PROVE Enters
  <2>1. entry[c] = NoEntry /\ Gives(todo[1], c)
    BY <1>1, <1>2, <1>3, <1>6, <1>17 DEF Selective, Gives
  <2>2. \A d \in Known' : d = c \/ (d \in Known /\ entry'[d] = entry[d])
    BY <1>8 DEF Known
  <2>3. ~late => Early(todo[1])
    BY <1>1, <1>4 DEF Early
  <2> QED
    BY <1>8, <1>16, <2>1, <2>2, <2>3 DEF Enters
<1>18. TableGrows /\ EntGrows
  BY <1>1, <1>7, PutGrows, SameTables
<1>19. Selective => \A o \in objects' : o.sized
  BY <1>7 DEF SizeInv
<1>20. Selective => \A t \in {prog.thread} : \E y : Takes(y, t) /\ Rebinds(y, t)
  BY <1>15, PassesTakes
<1> QED
  BY <1>7, <1>17, <1>18, <1>19, <1>20, SizeStep

LEMMA OfferSize ==
  ASSUME Inv, SizeInv, todo # << >>, Call.op = "offer", DoOffer(Call.class)
  PROVE  SizeInv'
<1>1. todo[1] \in Calls /\ Call = todo[1] /\ todo[1].op = "offer" /\ Has(todo, todo[1])
  BY FirstIs
<1>2. UNCHANGED <<prog, table, ent>>
  BY DEF DoOffer, sourceVars, classVars
<1>3. ~Selective
  BY <1>1 DEF SizeInv, EarlyInv
<1>4. TableGrows /\ EntGrows
  BY <1>1, <1>2, SameTable, SameTables
<1> QED
  BY <1>2, <1>3, <1>4, SizeStep

LEMMA BindAllSize ==
  ASSUME Inv, SizeInv, todo # << >>, Call.op = "bindall", DoBindAll
  PROVE  SizeInv'
<1>1. todo[1] \in Calls /\ Call = todo[1] /\ todo[1].op = "bindall" /\ Has(todo, todo[1])
  BY FirstIs
<1>2. PICK n \in Nat : n = Len(table) /\ DOMAIN table = 1 .. n
  BY LenProperties DEF Inv, TypeOK
<1>3. PICK m \in BOOLEAN : m = ClassesMoved
  <2>1. ClassesMoved \in BOOLEAN
    BY DEF ClassesMoved
  <2> QED
    BY <2>1
<1>4. PICK a : a = [i \in 1 .. n |-> BindAt(i, m)]
  OBVIOUS
<1>5. a \in Seq(Calls) /\ Len(a) = n
  <2>1. \A i \in 1 .. n : BindAt(i, m) \in Calls
    BY CallsAre
  <2>2. a \in [1 .. n -> Calls]
    BY <1>4, <2>1
  <2> QED
    BY <2>2, FunctionIsSeq
<1>6. \A i \in 1 .. n : a[i] \in Calls /\ a[i].op = "bindat" /\ a[i].index = i /\ Has(a, a[i])
  BY <1>4, <1>5, ElementOfSeq DEF BindAt, Has
<1>7. todo' = a \o Tail(todo) /\ UNCHANGED <<prog, table, entry, ent, objects>>
  BY <1>2, <1>3, <1>4 DEF DoBindAll, Then, sourceVars, classVars
<1>8. ASSUME NEW i \in 1 .. n PROVE table[i] \in Known
  <2>1. table[i] \in Classes
    BY <1>2, ElementOfSeq DEF Inv, TypeOK
  <2>2. entry[table[i]] # NoEntry
    BY <1>2, <2>1 DEF Inv, TypeOK
  <2> QED
    BY <2>1, <2>2 DEF Known
<1>9. ASSUME Selective, NEW t \in {prog.thread} PROVE Takes(a, t) /\ Rebinds(a, t)
  <2>1. Known \subseteq Below(t) \cup {t}
    BY <1>1, <1>9 DEF SizeInv, EarlyInv
  <2>2. ASSUME NEW i \in 1 .. n, NEW j \in 1 .. n, i < j PROVE <<a[i], a[j]>> \in Waits(t)
    <3>1. ASSUME Binder(a[j], t) PROVE Aside(a[i], t)
      <4>1. table[j] = t
        BY <1>6, <3>1 DEF Binder
      <4>2. table[i] # t
        <5>1. i # j /\ i \in DOMAIN table /\ j \in DOMAIN table
          BY <1>2, <2>2
        <5> QED
          BY <4>1, <5>1 DEF Inv, TypeOK, IsInjective
      <4>3. table[i] \in Below(t)
        BY <1>8, <2>1, <4>2
      <4> QED
        BY <1>2, <1>6, <4>3 DEF Aside
    <3> QED
      BY <1>6, <3>1 DEF Waits
  <2>3. Ordered(a, Waits(t))
    BY <1>5, <2>2 DEF Ordered
  <2>4. ~Aside(todo[1], t) /\ ~Early(todo[1])
    BY <1>1 DEF Aside, Early, Under
  <2>5. \A x \in Calls : Has(a, x) => x.op = "bindat" /\ x.index \in 1 .. Len(table)
    BY <1>2, <1>5, <1>6 DEF Has
  <2>6. Takes(a, t)
    BY <1>5, <1>7, <2>3, <2>4, <2>5 DEF Takes, Early
  <2>7. ASSUME t \in Known PROVE \E x \in Calls : Has(a, x) /\ Binder(x, t)
    <3>1. PICK i \in 1 .. n : table[i] = t
      BY <1>2, <2>7 DEF Known, Inv, TypeOK
    <3>2. Binder(a[i], t)
      BY <1>2, <1>6, <3>1 DEF Binder
    <3> QED
      BY <1>6, <3>2
  <2> QED
    BY <2>6, <2>7 DEF Rebinds
<1>10. TableGrows /\ EntGrows /\ Enters
  BY <1>1, <1>7, SameTable, SameTables, SameKnown
<1>11. Selective => \A o \in objects' : o.sized
  BY <1>7 DEF SizeInv
<1>12. Selective => \A t \in {prog.thread} : \E y : Takes(y, t) /\ Rebinds(y, t)
  BY <1>9
<1> QED
  BY <1>7, <1>10, <1>11, <1>12, SizeStep

LEMMA BindAtSize ==
  ASSUME Inv, SizeInv, todo # << >>, Call.op = "bindat", DoBindAt(Call.index)
  PROVE  SizeInv'
<1>1. todo[1] \in Calls /\ Call = todo[1] /\ todo[1].op = "bindat" /\ Apt(todo[1])
  BY FirstIs
<1>2. PICK i \in 1 .. Len(table) : i = todo[1].index
  BY <1>1 DEF Apt
<1>3. PICK c \in Classes : c = table[i] /\ c \in Known
  <2>1. table \in Seq(Classes) /\ DOMAIN table = 1 .. Len(table)
    BY LenProperties DEF Inv, TypeOK
  <2>2. table[i] \in Classes
    BY <2>1, ElementOfSeq
  <2>3. entry[table[i]] # NoEntry
    BY <2>1, <2>2 DEF Inv, TypeOK
  <2> QED
    BY <2>2, <2>3 DEF Known
<1>4. PICK e \in Entries : e = entry[c] /\ ClassOf(e) = c /\ (IsShared(e) <=> c \in prog.immutable)
  <2>1. entry[c] \in Entries
    BY <1>3, TypesAre DEF Known
  <2> QED
    BY <1>3, <2>1 DEF Known, Inv, EntryInv
<1>5. LateBindings(e) \in Seq(Calls) /\ \A x : Has(LateBindings(e), x) => x \in {Bind(e), InitStatics(e)}
  BY LateBindingsAre
<1>6. PICK a \in Seq(Calls) : a = LateBindings(e)
  BY <1>5
<1>7. todo' = a \o Tail(todo) /\ UNCHANGED <<prog, table, entry, ent, objects>>
  BY <1>1, <1>2, <1>3, <1>4, <1>6 DEF DoBindAt, Then, sourceVars, classVars
<1>8. \A x : Has(a, x) => x.op = "bind" \/ (x.op = "initstatics" /\ x.entry = e)
  BY <1>5, <1>6 DEF Bind, InitStatics
<1>9. ASSUME Selective, NEW t \in {prog.thread} PROVE Passes(a, t) /\ Rebinds(a, t)
  <2>1. Aside(todo[1], t) => c \in Below(t)
    BY <1>1, <1>2, <1>3 DEF Aside, Under
  <2>2. ~Early(todo[1])
    BY <1>1 DEF Early
  <2>3. ASSUME NEW x \in Calls, Has(a, x)
        PROVE  /\ x.op \notin {"offer", "bindall", "bindat"} /\ ~Early(x)
               /\ Aside(todo[1], t) => Under(x, t)
    BY <1>4, <1>8, <2>1, <2>3 DEF Early, Under
  <2>4. Passes(a, t)
    BY <1>7, <2>2, <2>3 DEF Passes
  <2>5. ASSUME Binder(todo[1], t) PROVE Len(todo') > 0 /\ todo'[1] = Bind(entry[t])
    <3>1. c = t
      BY <1>1, <1>2, <1>3, <2>5 DEF Binder
    <3>2. ~IsShared(e)
      BY <1>4, <1>9, <3>1 DEF Selective, LoopNeedsMore
    <3>3. Bind(e) \in Calls /\ InitStatics(e) \in Calls
      BY CallsAre
    <3>4. a = <<Bind(e), InitStatics(e)>>
      BY <1>6, <3>2 DEF LateBindings
    <3>5. 1 \in 1 .. Len(a) /\ a[1] = Bind(e)
      BY <3>3, <3>4, TwoIs
    <3>6. Turns(Calls, todo, a, todo')
      BY <1>7, HasAfter
    <3>7. 1 \in 1 .. Len(todo') /\ todo'[1] = Bind(e)
      BY <3>5, <3>6 DEF Turns
    <3> QED
      BY <1>4, <3>1, <3>6, <3>7, LenProperties DEF Turns
  <2> QED
    BY <2>4, <2>5 DEF Rebinds
<1>10. TableGrows /\ EntGrows /\ Enters
  BY <1>1, <1>7, SameTable, SameTables, SameKnown
<1>11. Selective => \A o \in objects' : o.sized
  BY <1>7 DEF SizeInv
<1>12. Selective => \A t \in {prog.thread} : \E y : Takes(y, t) /\ Rebinds(y, t)
  BY <1>9, PassesTakes
<1> QED
  BY <1>7, <1>10, <1>11, <1>12, SizeStep

LEMMA InitSize ==
  ASSUME Init
  PROVE  SizeInv
<1>1. prog \in Programs /\ prog.thread \in Classes
  BY ProgramsAssumption DEF Init, IsProgram
<1>2. \A e \in Entries : ent[e].table \in Nat
  BY DEF Init, Fresh
<1>3. Known = {} /\ objects = {}
  BY DEF Init, Known
<1>4. ASSUME Selective, NEW t \in {prog.thread} PROVE EarlyInv(t) /\ BoundInv(t)
  <2>1. PICK x \in Calls : x = Create(t, FALSE) /\ x.op = "create" /\ ~x.late /\ x.class = t
    <3>1. Create(t, FALSE).op = "create" /\ ~Create(t, FALSE).late /\ Create(t, FALSE).class = t
      BY DEF Create
    <3> QED
      BY <1>1, <3>1, CallsAre
  <2>2. PICK y \in Calls : y = BindAll /\ y.op = "bindall"
    <3>1. BindAll.op = "bindall"
      BY DEF BindAll
    <3> QED
      BY <3>1, CallsAre
  <2>3. PICK z \in Calls : z = Ready /\ z.op = "ready"
    <3>1. Ready.op = "ready"
      BY DEF Ready
    <3> QED
      BY <3>1, CallsAre
  <2>4. PICK a \in Seq(Calls) : /\ a = <<x>> /\ Len(a) = 1 /\ a[1] = x
                                /\ \A w : Has(a, w) <=> w = x
    BY OneIs, HasIs
  <2>5. PICK b \in Seq(Calls) : /\ b = <<y, z>> /\ Len(b) = 2 /\ b[1] = y /\ b[2] = z
                                /\ \A w : Has(b, w) <=> w = y \/ w = z
    <3>1. <<y, z>> \in Seq(Calls) /\ \A w : Has(<<y, z>>, w) <=> w = y \/ w = z
      BY HasIs
    <3> QED
      BY <3>1, TwoIs
  <2>6. todo = a \o b
    BY <1>4, <2>1, <2>2, <2>3, <2>4, <2>5 DEF Init, Startup, Selective
  <2>7. Concat(Calls, a, b, todo) /\ \A w : Has(todo, w) <=> w = x \/ w = y \/ w = z
    <3>1. Concat(Calls, a, b, a \o b)
      BY ConcatIs
    <3>2. \A w : Has(a \o b, w) <=> Has(a, w) \/ Has(b, w)
      BY HasConcat
    <3> QED
      BY <2>4, <2>5, <2>6, <3>1, <3>2
  <2>8. Len(todo) = 3 /\ todo[1] = x /\ todo[2] = y /\ todo[3] = z
    BY <2>4, <2>5, <2>7 DEF Concat
  <2>9. /\ <<x, y>> \in Waits(t) /\ <<x, z>> \in Waits(t) /\ <<y, z>> \in Waits(t)
    BY <2>1, <2>2, <2>3 DEF Waits, Binder, Early
  <2>10. Ordered(todo, Waits(t))
    <3>1. \A i, j \in 1 .. 3 : i < j => (i = 1 /\ j = 2) \/ (i = 1 /\ j = 3) \/ (i = 2 /\ j = 3)
      OBVIOUS
    <3> QED
      BY <2>8, <2>9, <3>1 DEF Ordered
  <2>11. EarlyInv(t)
    BY <1>3, <2>1, <2>2, <2>3, <2>7, <2>10 DEF EarlyInv, Early, Gives
  <2> QED
    BY <1>3, <2>11 DEF BoundInv
<1> QED
  BY <1>2, <1>3, <1>4 DEF SizeInv

LEMMA MeetSize ==
  ASSUME Inv, SizeInv, NEW c \in Classes, Meet(c)
  PROVE  SizeInv'
<1>1. UNCHANGED <<prog, table, entry, ent, objects>> /\ prog \in Programs
  BY DEF Meet, sourceVars, classVars, Inv
<1>2. todo = << >> /\ \A x : ~Has(todo, x)
  BY EmptyIs DEF Meet, Has
<1>3. PICK a \in Seq(Calls) : /\ a = <<Create(c, TRUE), Connect(c)>>
                              /\ \A x : Has(a, x) <=> x = Create(c, TRUE) \/ x = Connect(c)
  BY HeldIs
<1>4. todo' = a
  BY <1>3 DEF Meet
<1>5. Create(c, TRUE).op = "create" /\ Create(c, TRUE).late /\ Connect(c).op = "connect"
  BY DEF Create, Connect
<1>6. \A x : Has(a, x) => x.op \in {"create", "connect"} /\ ~Early(x)
  BY <1>3, <1>5 DEF Early
<1>7. Known' = Known /\ Selective' = Selective
  BY <1>1, SameProgram DEF Known, Selective, LoopNeedsMore
<1>8. ASSUME Selective, NEW t \in {prog.thread} PROVE EarlyInv(t)' /\ BoundInv(t)'
  <2>1. ASSUME NEW i \in 1 .. Len(a), NEW j \in 1 .. Len(a) PROVE <<a[i], a[j]>> \in Waits(t)'
    <3>1. PICK x \in Calls, y \in Calls : x = a[i] /\ y = a[j] /\ Has(a, y)
      BY ElementOfSeq DEF Has
    <3>2. y.op \in {"create", "connect"} /\ ~Early(y)
      BY <1>6, <3>1
    <3>3. ~Binder(y, t)'
      BY <3>2 DEF Binder
    <3> QED
      BY <3>1, <3>2, <3>3 DEF Waits
  <2>2. Ordered(todo, Waits(t))'
    BY <1>4, <2>1 DEF Ordered
  <2>3. EarlyInv(t)'
    <3>1. \A x : Has(todo', x) => x.op \in {"create", "connect"} /\ ~Early(x)
      BY <1>4, <1>6
    <3> QED
      BY <2>2, <3>1 DEF EarlyInv, Has
  <2>4. \A d \in Known : Bound(entry[d])
    <3>1. BoundInv(t)
      BY <1>8 DEF SizeInv
    <3>2. Len(todo) = 0
      BY <1>2, EmptyIs
    <3> QED
      BY <1>2, <3>1, <3>2 DEF BoundInv
  <2>5. BoundInv(t)'
    BY <1>1, <1>7, <2>4 DEF BoundInv, Bound, IsShared
  <2> QED
    BY <2>3, <2>5
<1> QED
  BY <1>1, <1>7, <1>8 DEF SizeInv

\* The creator changes nothing that the thread keeps.
LEMMA OutsideSize ==
  ASSUME SizeInv, UNCHANGED <<prog, todo, table, entry, ent, objects>>, prog \in Programs
  PROVE  SizeInv'
<1>1. Known' = Known /\ Selective' = Selective
  BY SameProgram DEF Known, Selective, LoopNeedsMore
<1>2. ASSUME Selective, NEW t \in {prog.thread} PROVE EarlyInv(t)' /\ BoundInv(t)'
  <2>0. t \in Classes
    BY ProgramsAssumption DEF IsProgram
  <2>1. EarlyInv(t) /\ BoundInv(t)
    BY <1>2 DEF SizeInv
  <2>2. Below(t)' = Below(t)
    BY <2>0, SameProgram
  <2>3. \A x : /\ Aside(x, t)' <=> Aside(x, t)
               /\ Binder(x, t)' <=> Binder(x, t)
    BY <2>2 DEF Aside, Binder, Under
  <2>4. Waits(t)' = Waits(t)
    BY <2>3 DEF Waits
  <2>5. EarlyInv(t)'
    BY <1>1, <2>1, <2>2, <2>4 DEF EarlyInv, Ordered, Has
  <2>6. BoundInv(t)'
    BY <1>1, <2>1, <2>3 DEF BoundInv, Bound, IsShared, Has
  <2> QED
    BY <2>5, <2>6
<1> QED
  BY <1>1, <1>2 DEF SizeInv

LEMMA NextSize ==
  ASSUME Inv, SizeInv, [Next]_vars
  PROVE  SizeInv'
<1>0. prog \in Programs
  BY DEF Inv
<1>1. CASE Step
  <2> todo # << >>
    BY <1>1 DEF Step, Pending
  <2>1. CASE \/ Call.op = "create" /\ CreateFound(Call.class, Call.late)
             \/ Call.op = "complete" /\ DoComplete(Call.entry)
             \/ Call.op = "scopes" /\ DoScopes(Call.entry)
             \/ Call.op = "ready" /\ DoReady
    BY <2>1, PlainsSize
  <2>2. CASE Call.op = "create" /\ CreateComplete(Call.class, Call.late)
    BY <2>2, CreateCompleteSize
  <2>3. CASE Call.op = "create" /\ CreateShared(Call.class, Call.late)
    BY <2>3, CreateSharedSize
  <2>4. CASE Call.op = "create" /\ CreateCopy(Call.class, Call.late)
    BY <2>4, CreateCopySize
  <2>5. CASE Call.op = "link" /\ DoLink(Call.entry, Call.class)
    BY <2>5, LinkSize
  <2>6. CASE Call.op = "insert" /\ DoInsert(Call.entry, Call.late)
    BY <2>6, InsertSize
  <2>7. CASE Call.op = "bind" /\ DoBind(Call.entry)
    BY <2>7, BindSize
  <2>8. CASE Call.op = "initstatics" /\ DoInitStatics(Call.entry)
    BY <2>8, InitStaticsSize
  <2>9. CASE Call.op = "fill" /\ DoFill(Call.entry)
    BY <2>9, FillSize
  <2>10. CASE Call.op = "connect" /\ DoConnect(Call.class)
    BY <2>10, ConnectSize
  <2>11. CASE Call.op = "offer" /\ DoOffer(Call.class)
    BY <2>11, OfferSize
  <2>12. CASE Call.op = "bindall" /\ DoBindAll
    BY <2>12, BindAllSize
  <2>13. CASE Call.op = "bindat" /\ DoBindAt(Call.index)
    BY <2>13, BindAtSize
  <2> QED
    BY <1>1, <2>1, <2>2, <2>3, <2>4, <2>5, <2>6, <2>7, <2>8, <2>9, <2>10, <2>11, <2>12,
       <2>13 DEF Step
<1>2. CASE Declare \/ UNCHANGED vars
  <2>1. UNCHANGED <<prog, todo, table, entry, ent, objects>>
    BY <1>2 DEF Declare, vars, sourceVars, classVars, scopeVars
  <2> QED
    BY <1>0, <2>1, OutsideSize
<1>3. ASSUME NEW c \in Classes, LinkAnonymous(c) PROVE SizeInv'
  <2>1. UNCHANGED <<prog, todo, table, entry, ent, objects>>
    BY <1>3 DEF LinkAnonymous, classVars, scopeVars
  <2> QED
    BY <1>0, <2>1, OutsideSize
<1>4. ASSUME NEW c \in Classes, Meet(c) PROVE SizeInv'
  BY <1>4, MeetSize
<1> QED
  BY <1>1, <1>2, <1>3, <1>4 DEF Next

\* For every program: an object that the thread meets is of the entry that its
\* class table has, so no class was copied twice; and in a thread that copies
\* what it needs it was made when the class knew its number of properties, the
\* late bindings of its copy having been made before (prepare.c).
THEOREM InstancesAlwaysRight ==
  Spec => []InstancesRight
<1>1. Init => SizeInv
  BY InitSize
<1>2. Inv /\ SizeInv /\ [Next]_vars => SizeInv'
  BY NextSize
<1>3. ASSUME Inv, SizeInv PROVE InstancesRight
  <2>1. HoldsDescendant \/ \A o \in objects : o.entry = entry[ClassOf(o.entry)]
    BY <1>3 DEF Inv, InstInv
  <2>2. Selective => \A o \in objects : o.sized
    BY <1>3 DEF SizeInv
  <2> QED
    BY <2>1, <2>2 DEF InstancesRight, Selective
<1>4. Spec => [](Inv /\ SizeInv)
  BY <1>1, <1>2, InvHolds, PTL DEF Spec
<1> QED
  BY <1>3, <1>4, PTL

=============================================================================

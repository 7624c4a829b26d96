--------------------------- MODULE IterationProofs ---------------------------
(***************************************************************************)
(* Theorems about the order of properties and foreach over them, for every *)
(* set of keys, every size of the table and every number of insertions.    *)
(***************************************************************************)
EXTENDS Iteration, FiniteSetTheorems, SequenceTheorems, WellFoundedInduction, TLAPS

-----------------------------------------------------------------------------
(* Sets of positions.                                                      *)

LEMMA LeastNatural ==
  ASSUME NEW T \in SUBSET Nat, T # {}
  PROVE  \E m \in T : \A k \in T : m <= k
<1>1. PICK m \in T : \A k \in T : <<k, m>> \notin OpToRel(<, Nat)
  BY WFMin, NatLessThanWellFounded, Zenon
<1>2. \A k \in T : ~(k < m)
  BY <1>1, Zenon DEF OpToRel
<1> QED
  BY <1>2

LEMMA LeastIs ==
  ASSUME NEW T \in SUBSET Nat, T # {}
  PROVE  Min(T) \in T /\ \A k \in T : Min(T) <= k
<1>1. \E m \in T : \A k \in T : m <= k
  BY LeastNatural
<1> QED
  BY <1>1 DEF Min

LEMMA GreatestIs ==
  ASSUME NEW n \in Nat, NEW T \in SUBSET (1 .. n), T # {}
  PROVE  Max(T) \in T /\ \A k \in T : k <= Max(T)
<1> DEFINE D == {n - k : k \in T}
<1>1. D \in SUBSET Nat /\ D # {}
  <2>1. \A k \in T : n - k \in Nat
    OBVIOUS
  <2> QED
    BY <2>1
<1> HIDE DEF D
<1>2. PICK d \in D : \A e \in D : d <= e
  BY <1>1, LeastNatural
<1>3. PICK m \in T : d = n - m
  BY <1>2 DEF D
<1>4. \A k \in T : n - m <= n - k
  BY <1>2, <1>3 DEF D
<1>5. \A k \in T : k <= m
  BY <1>4
<1> QED
  BY <1>5 DEF Max

Buckets == Elements \cup {Hole}

LEMMA HoleApart == Hole \notin Elements
  BY KeysAssumption DEF Hole, Elements

LEMMA BucketIs ==
  ASSUME NEW h \in Seq(Buckets)
  PROVE  /\ Len(h) \in Nat /\ DOMAIN h = 1 .. Len(h)
         /\ \A q \in 1 .. Len(h) : h[q] \in Buckets /\ (h[q] # Hole <=> h[q] \in Elements)
<1>1. Len(h) \in Nat /\ DOMAIN h = 1 .. Len(h)
  BY LenProperties
<1>2. \A q \in 1 .. Len(h) : h[q] \in Buckets
  BY ElementOfSeq
<1> QED
  BY <1>1, <1>2, HoleApart DEF Buckets

LEMMA AheadIs ==
  ASSUME NEW h \in Seq(Buckets), NEW p \in Nat \ {0}
  PROVE  /\ Ahead(h, p) \in SUBSET Nat /\ Ahead(h, p) \in SUBSET (1 .. Len(h))
         /\ \A q : q \in Ahead(h, p) <=> q \in 1 .. Len(h) /\ p <= q /\ h[q] # Hole
<1>1. Len(h) \in Nat
  BY BucketIs
<1>2. \A q : q \in p .. Len(h) <=> q \in 1 .. Len(h) /\ p <= q
  BY <1>1
<1> QED
  BY <1>1, <1>2 DEF Ahead

\* The last bucket in use is not a hole.
Trimmed(h) == Len(h) > 0 => h[Len(h)] # Hole

LEMMA TrimmedHasFirst ==
  ASSUME NEW h \in Seq(Buckets), Trimmed(h)
  PROVE  h = << >> <=> Ahead(h, 1) = {}
<1>1. Len(h) \in Nat /\ (Len(h) = 0 <=> h = << >>)
  BY BucketIs, EmptySeq
<1>2. \A q : q \in Ahead(h, 1) <=> q \in 1 .. Len(h) /\ 1 <= q /\ h[q] # Hole
  BY AheadIs
<1>3. Len(h) # 0 => Len(h) \in 1 .. Len(h) /\ 1 <= Len(h) /\ Len(h) > 0
  BY <1>1
<1>4. Len(h) # 0 => Len(h) \in Ahead(h, 1)
  BY <1>2, <1>3 DEF Trimmed
<1>5. Len(h) = 0 => Ahead(h, 1) = {}
  BY <1>1, <1>2
<1> QED
  BY <1>1, <1>4, <1>5

\* The table t is h without the element at p.
Loses(t, h, p) ==
  /\ t \in Seq(Buckets) /\ Trimmed(t) /\ Len(t) <= Len(h)
  /\ \A q \in 1 .. Len(t) : q \in 1 .. Len(h) /\ t[q] = IF q = p THEN Hole ELSE h[q]
  /\ \A q \in 1 .. Len(h) : q # p /\ h[q] # Hole => q \in 1 .. Len(t)

LEMMA WithoutIs ==
  ASSUME NEW h \in Seq(Buckets), NEW p \in 1 .. Len(h)
  PROVE  Loses(Without(h, p), h, p)
<1>1. Len(h) \in Nat /\ DOMAIN h = 1 .. Len(h) /\ \A q \in 1 .. Len(h) : h[q] \in Buckets
  BY BucketIs
<1>2. PICK d : d = [h EXCEPT ![p] = Hole]
  OBVIOUS
<1>3. /\ d \in Seq(Buckets) /\ Len(d) = Len(h)
      /\ \A q \in 1 .. Len(h) : d[q] = IF q = p THEN Hole ELSE h[q]
  <2>1. Hole \in Buckets
    BY DEF Buckets
  <2>2. d \in Seq(Buckets) /\ Len(d) = Len(h)
    BY <1>1, <1>2, <2>1, ExceptSeq
  <2> QED
    BY <1>1, <1>2, <2>2
<1>4. PICK K : K = Ahead(d, 1)
  OBVIOUS
<1>5. K \in SUBSET (1 .. Len(h)) /\ \A q : q \in K <=> q \in 1 .. Len(h) /\ 1 <= q /\ d[q] # Hole
  BY <1>3, <1>4, AheadIs
<1>6. PICK m : m = IF K = {} THEN 0 ELSE Max(K)
  OBVIOUS
<1>7. /\ m \in 0 .. Len(h) /\ \A q \in K : q <= m
      /\ m > 0 => m \in K
  <2>1. CASE K = {}
    BY <1>1, <1>6, <2>1
  <2>2. CASE K # {}
    <3>1. m \in K /\ \A q \in K : q <= m
      BY <1>1, <1>5, <1>6, <2>2, GreatestIs
    <3> QED
      BY <1>1, <1>5, <3>1
  <2> QED
    BY <2>1, <2>2
<1>8. PICK t : t = SubSeq(d, 1, m)
  OBVIOUS
<1>9. t \in Seq(Buckets) /\ Len(t) = m /\ \A q \in 1 .. m : t[q] = d[q]
  <2>1. 1 \in Int /\ m \in Int /\ \A q \in 1 .. m : q \in 1 .. Len(h)
    BY <1>1, <1>7
  <2>2. \A q \in 1 .. m : d[q] \in Buckets
    BY <1>3, <2>1, ElementOfSeq
  <2>3. /\ t \in Seq(Buckets) /\ Len(t) = (IF 1 <= m THEN m - 1 + 1 ELSE 0)
        /\ \A q \in 1 .. m - 1 + 1 : t[q] = d[1 + q - 1]
    BY <1>3, <1>8, <2>1, <2>2, SubSeqProperties
  <2> QED
    BY <1>7, <2>1, <2>3
<1>10. Without(h, p) = t
  BY <1>2, <1>4, <1>6, <1>8 DEF Without
<1>11. Trimmed(t)
  BY <1>5, <1>7, <1>9 DEF Trimmed
<1>12. \A q \in 1 .. Len(t) : q \in 1 .. Len(h) /\ t[q] = IF q = p THEN Hole ELSE h[q]
  BY <1>1, <1>3, <1>7, <1>9
<1>13. ASSUME NEW q \in 1 .. Len(h), q # p, h[q] # Hole PROVE q \in 1 .. Len(t)
  <2>1. q \in K
    BY <1>1, <1>3, <1>5, <1>13
  <2> QED
    BY <1>7, <1>9, <2>1
<1> QED
  BY <1>1, <1>7, <1>9, <1>10, <1>11, <1>12, <1>13 DEF Loses

-----------------------------------------------------------------------------
(* Packed: the elements of a table, in order.                              *)

\* A value for every number up to n, each made from the one before.
Makes(step, n, S) == n \in Nat /\ step \in [(1 .. n) \X S -> S]
Made(F, b, step, n, S) ==
  F \in [0 .. n -> S] /\ F[0] = b /\ \A k \in 1 .. n : F[k] = step[<<k, F[k - 1]>>]

LEMMA RecursionExists ==
  ASSUME NEW n, NEW S, NEW b \in S, NEW step, Makes(step, n, S)
  PROVE  \E F : Made(F, b, step, n, S)
<1> n \in Nat /\ step \in [(1 .. n) \X S -> S]
  BY DEF Makes
<1> USE DEF Made
<1> DEFINE Upto(m) ==
      \E F \in [0 .. m -> S] : F[0] = b /\ \A k \in 1 .. m : F[k] = step[<<k, F[k - 1]>>]
    T == {m \in 0 .. n : ~Upto(m)}
<1> SUFFICES ASSUME ~Upto(n) PROVE FALSE
  OBVIOUS
<1>0. n \in T
  OBVIOUS
<1>1. T \in SUBSET Nat /\ \A m \in T : m \in 0 .. n /\ ~Upto(m)
  OBVIOUS
<1>2. \A m \in 0 .. n : m \notin T => Upto(m)
  OBVIOUS
<1> HIDE DEF T
<1>3. PICK m \in T : \A k \in T : m <= k
  BY <1>0, <1>1, LeastNatural
<1>4. CASE m = 0
  <2>1. [k \in 0 .. 0 |-> b] \in [0 .. 0 -> S]
    OBVIOUS
  <2>2. Upto(0)
    <3> WITNESS [k \in 0 .. 0 |-> b] \in [0 .. 0 -> S]
    <3> QED
      OBVIOUS
  <2> QED
    BY <1>1, <1>4, <2>2
<1>5. CASE m # 0
  <2>1. m \in 1 .. n /\ m - 1 \in 0 .. n /\ ~(m <= m - 1)
    BY <1>1, <1>5
  <2>2. Upto(m - 1)
    BY <1>2, <1>3, <2>1
  <2>3. PICK F \in [0 .. m - 1 -> S] :
          F[0] = b /\ \A k \in 1 .. m - 1 : F[k] = step[<<k, F[k - 1]>>]
    BY <2>2
  <2>4. PICK v \in S : v = step[<<m, F[m - 1]>>]
    <3>1. F[m - 1] \in S
      BY <2>1
    <3> QED
      BY <2>1, <3>1
  <2>5. PICK H : H = [k \in 0 .. m |-> IF k = m THEN v ELSE F[k]]
    OBVIOUS
  <2>6. H \in [0 .. m -> S]
    <3>1. \A k \in 0 .. m : k # m => k \in 0 .. m - 1
      BY <2>1
    <3> QED
      BY <2>5, <3>1
  <2>7. H[m] = v /\ \A k \in 0 .. m - 1 : H[k] = F[k]
    BY <2>1, <2>5
  <2>8. H[0] = b
    BY <2>1, <2>3, <2>7
  <2>9. \A k \in 1 .. m : H[k] = step[<<k, H[k - 1]>>]
    <3> SUFFICES ASSUME NEW k \in 1 .. m PROVE H[k] = step[<<k, H[k - 1]>>]
      OBVIOUS
    <3>1. k - 1 \in 0 .. m - 1 /\ (k # m => k \in 1 .. m - 1 /\ k \in 0 .. m - 1)
      BY <2>1
    <3>2. CASE k = m
      BY <2>4, <2>7, <3>1, <3>2
    <3>3. CASE k # m
      BY <2>3, <2>7, <3>1, <3>3
    <3> QED
      BY <3>2, <3>3
  <2>10. Upto(m)
    BY <2>6, <2>8, <2>9
  <2> QED
    BY <1>1, <2>10
<1> QED
  BY <1>4, <1>5

\* s has the elements among the first n buckets of h, in the order of the
\* positions f.
Enumerates(f, s, h, n) ==
  /\ s \in Seq(Elements)
  /\ f \in [1 .. Len(s) -> 1 .. n]
  /\ \A i, j \in 1 .. Len(s) : i < j => f[i] < f[j]
  /\ \A i \in 1 .. Len(s) : i <= f[i] /\ s[i] = h[f[i]] /\ h[f[i]] # Hole
  /\ \A q \in 1 .. n : h[q] # Hole => \E i \in 1 .. Len(s) : f[i] = q

LEMMA EnumerateNone ==
  ASSUME NEW h
  PROVE  \E f : Enumerates(f, << >>, h, 0)
<1>1. PICK s : s = << >>
  OBVIOUS
<1>2. s \in Seq(Elements) /\ Len(s) = 0
  BY <1>1, EmptySeq
<1>3. PICK f : f = [i \in 1 .. 0 |-> 1]
  OBVIOUS
<1>4. \A i \in 1 .. 0 : FALSE
  OBVIOUS
<1>5. f \in [1 .. 0 -> 1 .. 0]
  BY <1>3, <1>4
<1>6. Enumerates(f, s, h, 0)
  BY <1>2, <1>4, <1>5 DEF Enumerates
<1> QED
  BY <1>1, <1>6

LEMMA EnumerateHole ==
  ASSUME NEW h, NEW s, NEW n \in Nat, NEW f, Enumerates(f, s, h, n), h[n + 1] = Hole
  PROVE  Enumerates(f, s, h, n + 1)
<1>1. Len(s) \in Nat
  BY LenProperties DEF Enumerates
<1>2. f \in [1 .. Len(s) -> 1 .. n + 1]
  BY <1>1 DEF Enumerates
<1>3. \A q \in 1 .. n + 1 : q \in 1 .. n \/ q = n + 1
  OBVIOUS
<1> QED
  BY <1>1, <1>2, <1>3 DEF Enumerates

LEMMA EnumerateMore ==
  ASSUME NEW h, NEW s, NEW n \in Nat, NEW f, Enumerates(f, s, h, n), h[n + 1] \in Elements
  PROVE  \E g : Enumerates(g, Append(s, h[n + 1]), h, n + 1)
<1>1. /\ s \in Seq(Elements) /\ f \in [1 .. Len(s) -> 1 .. n]
      /\ \A i, j \in 1 .. Len(s) : i < j => f[i] < f[j]
      /\ \A i \in 1 .. Len(s) : i <= f[i] /\ s[i] = h[f[i]] /\ h[f[i]] # Hole
      /\ \A q \in 1 .. n : h[q] # Hole => \E i \in 1 .. Len(s) : f[i] = q
  BY DEF Enumerates
<1>2. Len(s) \in Nat
  BY <1>1, LenProperties
<1>3. PICK t, m : t = Append(s, h[n + 1]) /\ m = Len(s) + 1
  OBVIOUS
<1>4. /\ t \in Seq(Elements) /\ Len(t) = m /\ t[m] = h[n + 1]
      /\ \A i \in 1 .. Len(s) : t[i] = s[i]
  BY <1>1, <1>3, AppendProperties
<1>5. PICK g : g = [i \in 1 .. m |-> IF i = m THEN n + 1 ELSE f[i]]
  OBVIOUS
<1>6. m \in Nat /\ \A i \in 1 .. m : i # m => i \in 1 .. Len(s)
  BY <1>2, <1>3
<1>7. /\ g \in [1 .. m -> 1 .. n + 1] /\ g[m] = n + 1
      /\ \A i \in 1 .. Len(s) : g[i] = f[i] /\ f[i] \in 1 .. n
  <2>1. \A i \in 1 .. Len(s) : f[i] \in 1 .. n /\ f[i] \in 1 .. n + 1
    BY <1>1
  <2>2. m \in 1 .. m /\ n + 1 \in 1 .. n + 1 /\ \A i \in 1 .. Len(s) : i \in 1 .. m /\ i # m
    BY <1>2, <1>3
  <2> QED
    BY <1>5, <1>6, <2>1, <2>2
<1>8. \A i, j \in 1 .. m : i < j => g[i] < g[j]
  <2> SUFFICES ASSUME NEW i \in 1 .. m, NEW j \in 1 .. m, i < j PROVE g[i] < g[j]
    OBVIOUS
  <2>1. i # m /\ i \in 1 .. Len(s)
    BY <1>6
  <2>2. CASE j = m
    BY <1>7, <2>1, <2>2
  <2>3. CASE j # m
    BY <1>1, <1>6, <1>7, <2>1, <2>3
  <2> QED
    BY <2>2, <2>3
<1>9. \A i \in 1 .. m : i <= g[i] /\ t[i] = h[g[i]] /\ h[g[i]] # Hole
  <2> SUFFICES ASSUME NEW i \in 1 .. m PROVE i <= g[i] /\ t[i] = h[g[i]] /\ h[g[i]] # Hole
    OBVIOUS
  <2>1. CASE i = m
    <3>1. Len(s) <= n
      <4>1. CASE Len(s) = 0
        BY <4>1
      <4>2. CASE Len(s) # 0
        <5>1. Len(s) \in 1 .. Len(s)
          BY <1>2, <4>2
        <5>2. Len(s) <= f[Len(s)] /\ f[Len(s)] \in 1 .. n
          BY <1>1, <5>1
        <5> QED
          BY <1>2, <5>2
      <4> QED
        BY <4>1, <4>2
    <3>2. i <= n + 1
      BY <1>2, <1>3, <2>1, <3>1
    <3> QED
      BY <1>4, <1>7, <2>1, <3>2, HoleApart
  <2>2. CASE i # m
    <3>1. i \in 1 .. Len(s)
      BY <1>6, <2>2
    <3> QED
      BY <1>1, <1>4, <1>7, <3>1
  <2> QED
    BY <2>1, <2>2
<1>10. \A q \in 1 .. n + 1 : h[q] # Hole => \E i \in 1 .. m : g[i] = q
  <2> SUFFICES ASSUME NEW q \in 1 .. n + 1, h[q] # Hole PROVE \E i \in 1 .. m : g[i] = q
    OBVIOUS
  <2>1. CASE q = n + 1
    <3>1. m \in 1 .. m
      BY <1>2, <1>3
    <3> QED
      BY <1>7, <2>1, <3>1
  <2>2. CASE q # n + 1
    <3>1. PICK i \in 1 .. Len(s) : f[i] = q
      BY <1>1, <2>2
    <3>2. i \in 1 .. m
      BY <1>2, <1>3
    <3> QED
      BY <1>7, <3>1, <3>2
  <2> QED
    BY <2>1, <2>2
<1>11. Enumerates(g, t, h, n + 1)
  BY <1>4, <1>7, <1>8, <1>9, <1>10 DEF Enumerates
<1> QED
  BY <1>3, <1>11

LEMMA PackedIs ==
  ASSUME NEW h \in Seq(Buckets)
  PROVE  \E f : Enumerates(f, Packed(h), h, Len(h))
<1> DEFINE Kept == CHOOSE Kept : Kept = [n \in 0 .. Len(h) |->
                     IF n = 0 THEN << >>
                     ELSE IF h[n] = Hole THEN Kept[n - 1] ELSE Append(Kept[n - 1], h[n])]
           step == [x \in (1 .. Len(h)) \X Seq(Elements) |->
                      IF h[x[1]] = Hole THEN x[2] ELSE Append(x[2], h[x[1]])]
<1>1. Len(h) \in Nat /\ \A q \in 1 .. Len(h) : h[q] # Hole => h[q] \in Elements
  BY BucketIs
<1>2. << >> \in Seq(Elements)
  BY EmptySeq
<1>3. step \in [(1 .. Len(h)) \X Seq(Elements) -> Seq(Elements)]
  <2>1. ASSUME NEW q \in 1 .. Len(h), NEW s \in Seq(Elements)
        PROVE  (IF h[q] = Hole THEN s ELSE Append(s, h[q])) \in Seq(Elements)
    BY <1>1, AppendProperties
  <2> QED
    BY <2>1
<1>4. \A q \in 1 .. Len(h), s \in Seq(Elements) :
        step[<<q, s>>] = IF h[q] = Hole THEN s ELSE Append(s, h[q])
  OBVIOUS
<1> HIDE DEF step
<1>5. PICK F : Made(F, << >>, step, Len(h), Seq(Elements))
  <2>1. Makes(step, Len(h), Seq(Elements))
    BY <1>1, <1>3 DEF Makes
  <2> QED
    BY <1>2, <2>1, RecursionExists
<1> USE DEF Made
<1>6. F = [n \in 0 .. Len(h) |->
             IF n = 0 THEN << >>
             ELSE IF h[n] = Hole THEN F[n - 1] ELSE Append(F[n - 1], h[n])]
  <2>1. ASSUME NEW n \in 0 .. Len(h), n # 0
        PROVE  F[n] = IF h[n] = Hole THEN F[n - 1] ELSE Append(F[n - 1], h[n])
    <3>1. n \in 1 .. Len(h) /\ n - 1 \in 0 .. Len(h)
      BY <1>1, <2>1
    <3>2. F[n - 1] \in Seq(Elements)
      BY <1>5, <3>1
    <3> QED
      BY <1>4, <1>5, <3>1, <3>2
  <2> QED
    BY <1>5, <2>1
<1>7. Kept = [n \in 0 .. Len(h) |->
                IF n = 0 THEN << >>
                ELSE IF h[n] = Hole THEN Kept[n - 1] ELSE Append(Kept[n - 1], h[n])]
  BY <1>6
<1>8. Packed(h) = Kept[Len(h)]
  BY DEF Packed
<1> HIDE DEF Kept
<1>9. Kept[0] = << >>
  BY <1>1, <1>7
<1>10. \A n \in 0 .. Len(h) : \E f : Enumerates(f, Kept[n], h, n)
  <2> DEFINE T == {n \in 0 .. Len(h) : ~\E f : Enumerates(f, Kept[n], h, n)}
  <2> SUFFICES ASSUME T # {} PROVE FALSE
    OBVIOUS
  <2>1. T \in SUBSET Nat /\ \A n \in T : n \in 0 .. Len(h) /\ ~\E f : Enumerates(f, Kept[n], h, n)
    BY <1>1
  <2>2. \A n \in 0 .. Len(h) : n \notin T => \E f : Enumerates(f, Kept[n], h, n)
    OBVIOUS
  <2> HIDE DEF T
  <2>3. PICK m \in T : \A k \in T : m <= k
    BY <2>1, LeastNatural
  <2>4. CASE m = 0
    BY <1>9, <2>1, <2>4, EnumerateNone
  <2>5. CASE m # 0
    <3>1. m - 1 \in 0 .. Len(h) /\ m - 1 \in Nat /\ m \in 1 .. Len(h) /\ (m - 1) + 1 = m
          /\ ~(m <= m - 1)
      BY <1>1, <2>1, <2>5
    <3>2. PICK f : Enumerates(f, Kept[m - 1], h, m - 1)
      BY <2>2, <2>3, <3>1
    <3>3. PICK s, n : s = Kept[m - 1] /\ n = m - 1
      OBVIOUS
    <3>4. n \in Nat /\ n + 1 = m /\ Enumerates(f, s, h, n)
      BY <3>1, <3>2, <3>3
    <3>5. CASE h[m] = Hole
      <4>1. Kept[m] = s
        BY <1>7, <2>1, <2>5, <3>3, <3>5
      <4>2. Enumerates(f, s, h, n + 1)
        BY <3>4, <3>5, EnumerateHole
      <4> QED
        BY <2>1, <3>4, <4>1, <4>2
    <3>6. CASE h[m] # Hole
      <4>1. Kept[m] = Append(s, h[m])
        BY <1>7, <2>1, <2>5, <3>3, <3>6
      <4>2. h[n + 1] \in Elements
        BY <1>1, <3>1, <3>4, <3>6
      <4>3. \E g : Enumerates(g, Append(s, h[n + 1]), h, n + 1)
        BY <3>4, <4>2, EnumerateMore
      <4> QED
        BY <2>1, <3>4, <4>1, <4>3
    <3> QED
      BY <3>5, <3>6
  <2> QED
    BY <2>4, <2>5
<1>11. Len(h) \in 0 .. Len(h)
  BY <1>1
<1> QED
  BY <1>8, <1>10, <1>11

\* Two enumerations of a table are the same.
LEMMA NotEarlier ==
  ASSUME NEW h, NEW n \in Nat, NEW f, NEW s, NEW g, NEW t,
         Enumerates(f, s, h, n), Enumerates(g, t, h, n),
         NEW i \in 1 .. Len(s), i \in 1 .. Len(t), \A j \in 1 .. i - 1 : f[j] = g[j]
  PROVE  ~(f[i] < g[i])
<1> SUFFICES ASSUME f[i] < g[i] PROVE FALSE
  OBVIOUS
<1>1. /\ s \in Seq(Elements) /\ t \in Seq(Elements)
      /\ f \in [1 .. Len(s) -> 1 .. n] /\ g \in [1 .. Len(t) -> 1 .. n]
      /\ \A a, b \in 1 .. Len(s) : a < b => f[a] < f[b]
      /\ \A a, b \in 1 .. Len(t) : a < b => g[a] < g[b]
      /\ \A a \in 1 .. Len(s) : h[f[a]] # Hole
      /\ \A q \in 1 .. n : h[q] # Hole => \E a \in 1 .. Len(t) : g[a] = q
  BY DEF Enumerates
<1>2. Len(s) \in Nat /\ Len(t) \in Nat
  BY <1>1, LenProperties
<1>3. f[i] \in 1 .. n /\ g[i] \in 1 .. n
  BY <1>1
<1>4. PICK a \in 1 .. Len(t) : g[a] = f[i]
  BY <1>1, <1>3
<1>5. CASE a < i
  <2>1. a \in 1 .. i - 1 /\ a \in 1 .. Len(s)
    BY <1>2, <1>5
  <2>2. f[a] = f[i] /\ f[a] < f[i]
    BY <1>1, <1>4, <1>5, <2>1
  <2> QED
    BY <1>3, <2>2
<1>6. CASE a = i
  BY <1>3, <1>4, <1>6
<1>7. CASE a > i
  BY <1>1, <1>3, <1>4, <1>7
<1> QED
  BY <1>2, <1>5, <1>6, <1>7

LEMMA NotShorter ==
  ASSUME NEW h, NEW n \in Nat, NEW f, NEW s, NEW g, NEW t,
         Enumerates(f, s, h, n), Enumerates(g, t, h, n),
         \A j \in 1 .. Len(s) : j \in 1 .. Len(t) => f[j] = g[j]
  PROVE  ~(Len(s) < Len(t))
<1> SUFFICES ASSUME Len(s) < Len(t) PROVE FALSE
  OBVIOUS
<1>1. /\ s \in Seq(Elements) /\ t \in Seq(Elements)
      /\ g \in [1 .. Len(t) -> 1 .. n]
      /\ \A a, b \in 1 .. Len(t) : a < b => g[a] < g[b]
      /\ \A a \in 1 .. Len(t) : h[g[a]] # Hole
      /\ \A q \in 1 .. n : h[q] # Hole => \E a \in 1 .. Len(s) : f[a] = q
  BY DEF Enumerates
<1>2. Len(s) \in Nat /\ Len(t) \in Nat
  BY <1>1, LenProperties
<1>3. PICK m : m = Len(s) + 1
  OBVIOUS
<1>4. m \in 1 .. Len(t) /\ \A a \in 1 .. Len(s) : a \in 1 .. Len(t) /\ a < m
  BY <1>2, <1>3
<1>5. g[m] \in 1 .. n
  BY <1>1, <1>4
<1>6. PICK a \in 1 .. Len(s) : f[a] = g[m]
  BY <1>1, <1>4, <1>5
<1>7. g[a] = g[m] /\ g[a] < g[m]
  BY <1>1, <1>4, <1>6
<1> QED
  BY <1>5, <1>7

LEMMA EnumerationUnique ==
  ASSUME NEW h, NEW n \in Nat, NEW f, NEW s, NEW g, NEW t,
         Enumerates(f, s, h, n), Enumerates(g, t, h, n)
  PROVE  s = t
<1>1. /\ s \in Seq(Elements) /\ t \in Seq(Elements)
      /\ f \in [1 .. Len(s) -> 1 .. n] /\ g \in [1 .. Len(t) -> 1 .. n]
      /\ \A i \in 1 .. Len(s) : s[i] = h[f[i]]
      /\ \A i \in 1 .. Len(t) : t[i] = h[g[i]]
  BY DEF Enumerates
<1>2. Len(s) \in Nat /\ Len(t) \in Nat
  BY <1>1, LenProperties
<1>3. \A i \in 1 .. Len(s) : i \in 1 .. Len(t) => f[i] = g[i]
  <2> DEFINE T == {i \in 1 .. Len(s) : i \in 1 .. Len(t) /\ f[i] # g[i]}
  <2> SUFFICES ASSUME T # {} PROVE FALSE
    OBVIOUS
  <2>1. T \in SUBSET Nat /\ \A i \in T : i \in 1 .. Len(s) /\ i \in 1 .. Len(t) /\ f[i] # g[i]
    BY <1>2
  <2>2. \A i \in 1 .. Len(s) : i \in 1 .. Len(t) /\ i \notin T => f[i] = g[i]
    OBVIOUS
  <2> HIDE DEF T
  <2>3. PICK m \in T : \A k \in T : m <= k
    BY <2>1, LeastNatural
  <2>4. m \in 1 .. Len(s) /\ m \in 1 .. Len(t) /\ f[m] # g[m]
    BY <2>1
  <2>5. \A j \in 1 .. m - 1 : j \in 1 .. Len(s) /\ j \in 1 .. Len(t) /\ ~(m <= j)
    BY <1>2, <2>4
  <2>6. \A j \in 1 .. m - 1 : f[j] = g[j] /\ g[j] = f[j]
    BY <2>2, <2>3, <2>5
  <2>7. ~(f[m] < g[m])
    BY <2>4, <2>6, NotEarlier, Zenon
  <2>8. ~(g[m] < f[m])
    BY <2>4, <2>6, NotEarlier, Zenon
  <2>9. f[m] \in 1 .. n /\ g[m] \in 1 .. n
    BY <1>1, <2>4
  <2> QED
    BY <2>4, <2>7, <2>8, <2>9
<1>4. \A i \in 1 .. Len(t) : i \in 1 .. Len(s) => g[i] = f[i]
  BY <1>3
<1>5. ~(Len(s) < Len(t))
  BY <1>3, NotShorter
<1>6. ~(Len(t) < Len(s))
  BY <1>4, NotShorter
<1>7. Len(s) = Len(t)
  BY <1>2, <1>5, <1>6
<1>8. \A i \in 1 .. Len(s) : s[i] = t[i]
  BY <1>1, <1>3, <1>7
<1> QED
  BY <1>1, <1>7, <1>8, SeqEqual

LEMMA PackedUnique ==
  ASSUME NEW h \in Seq(Buckets), NEW f, NEW s, Enumerates(f, s, h, Len(h))
  PROVE  Packed(h) = s
<1>1. Len(h) \in Nat
  BY BucketIs
<1>2. PICK g : Enumerates(g, Packed(h), h, Len(h))
  BY PackedIs
<1> QED
  BY <1>1, <1>2, EnumerationUnique

LEMMA EnumerateAgree ==
  ASSUME NEW h, NEW k, NEW s, NEW n \in Nat, NEW f, Enumerates(f, s, h, n),
         \A q \in 1 .. n : k[q] = h[q]
  PROVE  Enumerates(f, s, k, n)
<1>1. \A i \in 1 .. Len(s) : f[i] \in 1 .. n
  BY DEF Enumerates
<1> QED
  BY <1>1 DEF Enumerates

\* A new element goes last.
LEMMA PackedAppend ==
  ASSUME NEW h \in Seq(Buckets), NEW e \in Elements
  PROVE  Packed(Append(h, e)) = Append(Packed(h), e)
<1>1. Len(h) \in Nat
  BY BucketIs
<1>2. PICK t, n : t = Append(h, e) /\ n = Len(h)
  OBVIOUS
<1>3. e \in Buckets
  BY DEF Buckets
<1>4. t \in Seq(Buckets) /\ Len(t) = n + 1 /\ t[n + 1] = e /\ \A q \in 1 .. n : t[q] = h[q]
  BY <1>2, <1>3, AppendProperties
<1>5. PICK f : Enumerates(f, Packed(h), h, n)
  BY <1>2, PackedIs
<1>6. n \in Nat
  BY <1>1, <1>2
<1>7. Enumerates(f, Packed(h), t, n)
  BY <1>4, <1>5, <1>6, EnumerateAgree
<1>8. PICK g : Enumerates(g, Append(Packed(h), t[n + 1]), t, n + 1)
  BY <1>4, <1>6, <1>7, EnumerateMore
<1>9. Packed(t) = Append(Packed(h), e)
  BY <1>4, <1>8, PackedUnique
<1> QED
  BY <1>2, <1>9

\* There is nothing to do in a table without holes.
LEMMA PackedAlready ==
  ASSUME NEW s \in Seq(Elements)
  PROVE  s \in Seq(Buckets) /\ Packed(s) = s
<1>1. Len(s) \in Nat /\ \A i \in 1 .. Len(s) : s[i] \in Elements /\ s[i] # Hole
  BY LenProperties, ElementOfSeq, HoleApart
<1>2. s \in Seq(Buckets)
  BY DEF Buckets
<1>3. PICK f : f = [i \in 1 .. Len(s) |-> i]
  OBVIOUS
<1>4. Enumerates(f, s, s, Len(s))
  BY <1>1, <1>3 DEF Enumerates
<1> QED
  BY <1>2, <1>4, PackedUnique

LEMMA RemoveAtIs ==
  ASSUME NEW S, NEW s \in Seq(S), NEW k \in 1 .. Len(s)
  PROVE  /\ RemoveAt(s, k) \in Seq(S) /\ Len(RemoveAt(s, k)) = Len(s) - 1
         /\ \A n \in 1 .. Len(s) - 1 : RemoveAt(s, k)[n] = IF n < k THEN s[n] ELSE s[n + 1]
<1>1. Len(s) \in Nat /\ k \in Nat /\ \A n \in 1 .. Len(s) : s[n] \in S
  BY LenProperties, ElementOfSeq
<1>2. PICK a, b : a = SubSeq(s, 1, k - 1) /\ b = SubSeq(s, k + 1, Len(s))
  OBVIOUS
<1>3. k - 1 \in Int /\ k + 1 \in Int /\ Len(s) \in Int
      /\ (\A n \in 1 .. k - 1 : n \in 1 .. Len(s)) /\ (\A n \in k + 1 .. Len(s) : n \in 1 .. Len(s))
  BY <1>1
<1>4. /\ a \in Seq(S) /\ Len(a) = k - 1
      /\ \A n \in 1 .. k - 1 : a[n] = s[n]
  <2>1. /\ a \in Seq(S) /\ Len(a) = (IF 1 <= k - 1 THEN (k - 1) - 1 + 1 ELSE 0)
        /\ \A n \in 1 .. (k - 1) - 1 + 1 : a[n] = s[1 + n - 1]
    BY <1>1, <1>2, <1>3, SubSeqProperties
  <2> QED
    BY <1>1, <2>1
<1>5. /\ b \in Seq(S) /\ Len(b) = Len(s) - k
      /\ \A n \in 1 .. Len(s) - k : b[n] = s[k + n]
  <2>1. /\ b \in Seq(S) /\ Len(b) = (IF k + 1 <= Len(s) THEN Len(s) - (k + 1) + 1 ELSE 0)
        /\ \A n \in 1 .. Len(s) - (k + 1) + 1 : b[n] = s[(k + 1) + n - 1]
    BY <1>1, <1>2, <1>3, SubSeqProperties
  <2> QED
    BY <1>1, <2>1
<1>6. RemoveAt(s, k) = a \o b
  BY <1>2 DEF RemoveAt
<1>7. /\ a \o b \in Seq(S) /\ Len(a \o b) = Len(a) + Len(b)
      /\ \A n \in 1 .. Len(a) + Len(b) : (a \o b)[n] = IF n <= Len(a) THEN a[n] ELSE b[n - Len(a)]
  BY <1>4, <1>5, ConcatProperties
<1>8. ASSUME NEW n \in 1 .. Len(s) - 1
      PROVE  (a \o b)[n] = IF n < k THEN s[n] ELSE s[n + 1]
  <2>1. n \in 1 .. Len(a) + Len(b)
    BY <1>1, <1>4, <1>5
  <2>2. CASE n < k
    BY <1>1, <1>4, <1>7, <2>1, <2>2
  <2>3. CASE ~(n < k)
    <3>1. n - Len(a) \in 1 .. Len(s) - k /\ k + (n - Len(a)) = n + 1 /\ ~(n <= Len(a))
      BY <1>1, <1>4, <2>3
    <3> QED
      BY <1>5, <1>7, <2>1, <2>3, <3>1
  <2> QED
    BY <2>2, <2>3
<1> QED
  BY <1>1, <1>4, <1>5, <1>6, <1>7, <1>8

\* An element is taken out of a table: the others stay in their order.
LEMMA PackedLoses ==
  ASSUME NEW h \in Seq(Buckets), NEW t, NEW f, Enumerates(f, Packed(h), h, Len(h)),
         NEW k \in 1 .. Len(Packed(h)), Loses(t, h, f[k])
  PROVE  Packed(t) = RemoveAt(Packed(h), k)
<1>1. PICK s, n : s = Packed(h) /\ n = Len(h)
  OBVIOUS
<1>2. /\ s \in Seq(Elements)
      /\ f \in [1 .. Len(s) -> 1 .. n]
      /\ \A i, j \in 1 .. Len(s) : i < j => f[i] < f[j]
      /\ \A i \in 1 .. Len(s) : i <= f[i] /\ s[i] = h[f[i]] /\ h[f[i]] # Hole
      /\ \A q \in 1 .. n : h[q] # Hole => \E i \in 1 .. Len(s) : f[i] = q
  BY <1>1 DEF Enumerates
<1>3. /\ t \in Seq(Buckets)
      /\ \A q \in 1 .. Len(t) : q \in 1 .. n /\ t[q] = IF q = f[k] THEN Hole ELSE h[q]
      /\ \A q \in 1 .. n : q # f[k] /\ h[q] # Hole => q \in 1 .. Len(t)
  BY <1>1 DEF Loses
<1>4. Len(s) \in Nat /\ k \in 1 .. Len(s)
  BY <1>1, <1>2, LenProperties
<1>5. PICK u, m : u = RemoveAt(s, k) /\ m = Len(s) - 1
  OBVIOUS
<1>6. /\ u \in Seq(Elements) /\ Len(u) = m
      /\ \A i \in 1 .. m : u[i] = IF i < k THEN s[i] ELSE s[i + 1]
  BY <1>2, <1>4, <1>5, RemoveAtIs
<1>7. PICK c : c = [i \in 1 .. m |-> IF i < k THEN i ELSE i + 1]
  OBVIOUS
<1>8. \A i \in 1 .. m : c[i] \in 1 .. Len(s) /\ c[i] # k /\ i <= c[i] /\ u[i] = s[c[i]]
  <2> SUFFICES ASSUME NEW i \in 1 .. m
               PROVE  c[i] \in 1 .. Len(s) /\ c[i] # k /\ i <= c[i] /\ u[i] = s[c[i]]
    OBVIOUS
  <2>1. i \in 1 .. Len(s) /\ i + 1 \in 1 .. Len(s)
    BY <1>4, <1>5
  <2> QED
    BY <1>4, <1>6, <1>7, <2>1
<1>9. \A i, j \in 1 .. m : i < j => c[i] < c[j]
  BY <1>4, <1>7
<1>10. ASSUME NEW j \in 1 .. Len(s), j # k PROVE \E i \in 1 .. m : c[i] = j
  <2>1. CASE j < k
    <3>1. j \in 1 .. m
      BY <1>4, <1>5, <2>1
    <3> QED
      BY <1>7, <2>1, <3>1
  <2>2. CASE ~(j < k)
    <3>1. j - 1 \in 1 .. m /\ ~(j - 1 < k) /\ (j - 1) + 1 = j
      BY <1>4, <1>5, <1>10, <2>2
    <3>2. c[j - 1] = j
      BY <1>7, <3>1
    <3> QED
      BY <3>1, <3>2
  <2> QED
    BY <2>1, <2>2
<1>11. PICK g : g = [i \in 1 .. m |-> f[c[i]]]
  OBVIOUS
<1>12. ASSUME NEW i \in 1 .. m
       PROVE  /\ g[i] = f[c[i]] /\ g[i] \in 1 .. Len(t) /\ i <= g[i]
              /\ u[i] = t[g[i]] /\ t[g[i]] # Hole
  <2>1. /\ g[i] = f[c[i]] /\ c[i] \in 1 .. Len(s) /\ c[i] # k /\ i <= c[i] /\ u[i] = s[c[i]]
    BY <1>8, <1>11
  <2>2. /\ f[c[i]] \in 1 .. n /\ f[k] \in 1 .. n /\ c[i] <= f[c[i]]
        /\ s[c[i]] = h[f[c[i]]] /\ h[f[c[i]]] # Hole
    BY <1>2, <1>4, <2>1
  <2>3. f[c[i]] # f[k]
    <3>1. c[i] < k => f[c[i]] < f[k]
      BY <1>2, <1>4, <2>1
    <3>2. k < c[i] => f[k] < f[c[i]]
      BY <1>2, <1>4, <2>1
    <3>3. c[i] < k \/ k < c[i]
      BY <1>4, <2>1
    <3> QED
      BY <2>2, <3>1, <3>2, <3>3
  <2>4. f[c[i]] \in 1 .. Len(t) /\ t[f[c[i]]] = h[f[c[i]]]
    BY <1>3, <2>2, <2>3
  <2>5. i <= f[c[i]]
    BY <2>1, <2>2
  <2> QED
    BY <2>1, <2>2, <2>4, <2>5
<1>13. \A i, j \in 1 .. m : i < j => g[i] < g[j]
  BY <1>2, <1>8, <1>9, <1>12
<1>14. ASSUME NEW q \in 1 .. Len(t), t[q] # Hole PROVE \E i \in 1 .. m : g[i] = q
  <2>1. q \in 1 .. n /\ q # f[k] /\ h[q] # Hole
    BY <1>3, <1>14
  <2>2. PICK j \in 1 .. Len(s) : f[j] = q
    BY <1>2, <2>1
  <2>3. PICK i \in 1 .. m : c[i] = j
    BY <1>10, <2>1, <2>2
  <2> QED
    BY <1>12, <2>2, <2>3
<1>15. g \in [1 .. m -> 1 .. Len(t)]
  BY <1>11, <1>12
<1>16. Enumerates(g, u, t, Len(t))
  BY <1>6, <1>12, <1>13, <1>14, <1>15 DEF Enumerates
<1>17. Packed(t) = u
  BY <1>3, <1>16, PackedUnique
<1> QED
  BY <1>1, <1>5, <1>17

-----------------------------------------------------------------------------
(* What the calls take.                                                    *)

\* The first and the last element, as shift() and pop() find them.
LEMMA EndsAre ==
  ASSUME NEW h \in Seq(Buckets), NEW f, Enumerates(f, Packed(h), h, Len(h)), Ahead(h, 1) # {}
  PROVE  /\ Packed(h) \in Seq(Elements)
         /\ 1 \in 1 .. Len(Packed(h)) /\ Len(Packed(h)) \in 1 .. Len(Packed(h))
         /\ Min(Ahead(h, 1)) = f[1] /\ Max(Ahead(h, 1)) = f[Len(Packed(h))]
         /\ h[f[1]] = Packed(h)[1] /\ h[f[Len(Packed(h))]] = Packed(h)[Len(Packed(h))]
<1>1. PICK s, n, A : s = Packed(h) /\ n = Len(h) /\ A = Ahead(h, 1)
  OBVIOUS
<1>2. /\ s \in Seq(Elements)
      /\ f \in [1 .. Len(s) -> 1 .. n]
      /\ \A i, j \in 1 .. Len(s) : i < j => f[i] < f[j]
      /\ \A i \in 1 .. Len(s) : s[i] = h[f[i]] /\ h[f[i]] # Hole
      /\ \A q \in 1 .. n : h[q] # Hole => \E i \in 1 .. Len(s) : f[i] = q
  BY <1>1 DEF Enumerates
<1>3. n \in Nat /\ Len(s) \in Nat
  BY <1>1, <1>2, BucketIs, LenProperties
<1>4. A \in SUBSET Nat /\ A \in SUBSET (1 .. n)
      /\ \A q : q \in A <=> q \in 1 .. n /\ 1 <= q /\ h[q] # Hole
  BY <1>1, AheadIs
<1>5. \A q \in A : \E i \in 1 .. Len(s) : f[i] = q
  BY <1>2, <1>4
<1>6. 1 \in 1 .. Len(s) /\ Len(s) \in 1 .. Len(s)
  BY <1>1, <1>3, <1>5
<1>7. \A i \in 1 .. Len(s) : f[i] \in A
  <2>1. \A i \in 1 .. Len(s) : f[i] \in 1 .. n
    BY <1>2
  <2>2. \A i \in 1 .. Len(s) : 1 <= f[i]
    BY <2>1
  <2> QED
    BY <1>2, <1>4, <2>1, <2>2
<1>8. Min(A) \in A /\ (\A q \in A : Min(A) <= q) /\ Max(A) \in A /\ (\A q \in A : q <= Max(A))
  BY <1>1, <1>3, <1>4, LeastIs, GreatestIs
<1>9. Min(A) = f[1]
  <2>1. PICK i \in 1 .. Len(s) : f[i] = Min(A)
    BY <1>5, <1>8
  <2>2. Min(A) <= f[1] /\ f[1] \in Nat /\ Min(A) \in Nat
    BY <1>4, <1>6, <1>7, <1>8
  <2>3. i # 1 => f[1] < f[i]
    BY <1>2, <1>3, <1>6
  <2> QED
    BY <2>1, <2>2, <2>3
<1>10. Max(A) = f[Len(s)]
  <2>1. PICK i \in 1 .. Len(s) : f[i] = Max(A)
    BY <1>5, <1>8
  <2>2. f[Len(s)] <= Max(A) /\ f[Len(s)] \in Nat /\ Max(A) \in Nat
    BY <1>4, <1>6, <1>7, <1>8
  <2>3. i # Len(s) => f[i] < f[Len(s)]
    BY <1>2, <1>3, <1>6
  <2> QED
    BY <2>1, <2>2, <2>3
<1> QED
  BY <1>1, <1>2, <1>6, <1>9, <1>10

LEMMA PackedEmpty ==
  ASSUME NEW h \in Seq(Buckets), Ahead(h, 1) = {}
  PROVE  Packed(h) = << >>
<1>1. PICK f : Enumerates(f, Packed(h), h, Len(h))
  BY PackedIs
<1>2. /\ Packed(h) \in Seq(Elements)
      /\ \A i \in 1 .. Len(Packed(h)) : f[i] \in 1 .. Len(h) /\ h[f[i]] # Hole
  BY <1>1 DEF Enumerates
<1>3. Len(Packed(h)) \in Nat /\ Len(h) \in Nat
  BY <1>2, LenProperties, BucketIs
<1>4. ~(1 \in 1 .. Len(Packed(h)))
  <2> SUFFICES ASSUME 1 \in 1 .. Len(Packed(h)) PROVE FALSE
    OBVIOUS
  <2>1. f[1] \in 1 .. Len(h) /\ 1 <= f[1] /\ h[f[1]] # Hole
    BY <1>2, <1>3
  <2> QED
    BY <2>1, AheadIs
<1>5. Len(Packed(h)) = 0
  BY <1>3, <1>4
<1> QED
  BY <1>2, <1>5, EmptySeq

\* The table t has some of the elements of h, where they were.
Thins(t, h) ==
  /\ t \in Seq(Buckets) /\ Trimmed(t) /\ Len(t) <= Len(h)
  /\ \A q \in 1 .. Len(t) : q \in 1 .. Len(h) /\ (t[q] = h[q] \/ t[q] = Hole)

LEMMA LosesThins ==
  ASSUME NEW t, NEW h, NEW p, Loses(t, h, p)
  PROVE  Thins(t, h)
  BY DEF Loses, Thins

LEMMA ThinsThins ==
  ASSUME NEW t, NEW u, NEW h \in Seq(Buckets), Thins(t, u), Thins(u, h)
  PROVE  Thins(t, h)
<1>1. Len(t) \in Nat /\ Len(u) \in Nat /\ Len(h) \in Nat
  BY LenProperties DEF Thins
<1>2. Len(t) <= Len(h)
  BY <1>1 DEF Thins
<1>3. \A q \in 1 .. Len(t) : q \in 1 .. Len(h) /\ (t[q] = h[q] \/ t[q] = Hole)
  BY DEF Thins
<1> QED
  BY <1>2, <1>3 DEF Thins

\* s is a, m elements long, followed by b.
Cut(s, a, b, m) ==
  /\ a \in Seq(Elements) /\ b \in Seq(Elements) /\ m \in 0 .. Len(s)
  /\ Len(a) = m /\ Len(b) = Len(s) - m
  /\ \A i \in 1 .. m : a[i] = s[i]
  /\ \A i \in 1 .. Len(s) - m : b[i] = s[m + i]

LEMMA CutNone ==
  ASSUME NEW s \in Seq(Elements)
  PROVE  Cut(s, << >>, s, 0)
<1>1. Len(s) \in Nat
  BY LenProperties
<1>2. PICK a : a = << >>
  OBVIOUS
<1>3. a \in Seq(Elements) /\ Len(a) = 0
  BY <1>2, EmptySeq
<1>4. Cut(s, a, s, 0)
  BY <1>1, <1>3 DEF Cut
<1> QED
  BY <1>2, <1>4

LEMMA CutMore ==
  ASSUME NEW s \in Seq(Elements), NEW a, NEW b, NEW m, Cut(s, a, b, m), Len(b) > 0
  PROVE  Cut(s, Append(a, b[1]), RemoveAt(b, 1), m + 1)
<1>1. Len(s) \in Nat
  BY LenProperties
<1>2. /\ a \in Seq(Elements) /\ b \in Seq(Elements) /\ m \in 0 .. Len(s)
      /\ Len(a) = m /\ Len(b) = Len(s) - m
      /\ \A i \in 1 .. m : a[i] = s[i]
      /\ \A i \in 1 .. Len(s) - m : b[i] = s[m + i]
  BY DEF Cut
<1>3. m \in Nat /\ m + 1 \in 0 .. Len(s) /\ 1 \in 1 .. Len(b) /\ 1 \in 1 .. Len(s) - m
  BY <1>1, <1>2
<1>4. b[1] \in Elements /\ b[1] = s[m + 1]
  BY <1>2, <1>3, ElementOfSeq
<1>5. PICK c, d : c = Append(a, b[1]) /\ d = RemoveAt(b, 1)
  OBVIOUS
<1>6. c \in Seq(Elements) /\ Len(c) = m + 1 /\ c[m + 1] = s[m + 1] /\ \A i \in 1 .. m : c[i] = a[i]
  BY <1>2, <1>4, <1>5, AppendProperties
<1>7. /\ d \in Seq(Elements) /\ Len(d) = Len(b) - 1
      /\ \A i \in 1 .. Len(b) - 1 : d[i] = IF i < 1 THEN b[i] ELSE b[i + 1]
  BY <1>2, <1>3, <1>5, RemoveAtIs
<1>8. \A i \in 1 .. m + 1 : c[i] = s[i]
  <2>1. \A i \in 1 .. m + 1 : i \in 1 .. m \/ i = m + 1
    BY <1>3
  <2> QED
    BY <1>2, <1>6, <2>1
<1>9. ASSUME NEW i \in 1 .. Len(s) - (m + 1) PROVE d[i] = s[(m + 1) + i]
  <2>1. /\ i \in 1 .. Len(b) - 1 /\ ~(i < 1) /\ i + 1 \in 1 .. Len(s) - m
        /\ m + (i + 1) = (m + 1) + i
    BY <1>1, <1>2, <1>3
  <2>2. d[i] = b[i + 1] /\ b[i + 1] = s[m + (i + 1)]
    BY <1>2, <1>7, <2>1
  <2> QED
    BY <2>1, <2>2
<1>10. Len(d) = Len(s) - (m + 1)
  BY <1>1, <1>2, <1>3, <1>7
<1>11. Cut(s, c, d, m + 1)
  BY <1>3, <1>6, <1>7, <1>8, <1>9, <1>10 DEF Cut
<1> QED
  BY <1>5, <1>11

\* Tables with what has been taken out of them so far.
Rounds == [h : {h \in Seq(Buckets) : Trimmed(h)}, got : Seq(Elements)]

\* One round of the loop in pthreads_store_chunk.
RoundOf(r) ==
  IF r.h = << >> THEN r
  ELSE [h |-> Without(r.h, Min(Ahead(r.h, 1))), got |-> Append(r.got, r.h[Min(Ahead(r.h, 1))])]

LEMMA FirstIs ==
  ASSUME NEW h \in Seq(Buckets), Trimmed(h), h # << >>
  PROVE  /\ Min(Ahead(h, 1)) \in 1 .. Len(h) /\ h[Min(Ahead(h, 1))] \in Elements
         /\ Loses(Without(h, Min(Ahead(h, 1))), h, Min(Ahead(h, 1)))
<1>1. Ahead(h, 1) # {}
  BY TrimmedHasFirst
<1>2. /\ Ahead(h, 1) \in SUBSET Nat
      /\ \A q : q \in Ahead(h, 1) <=> q \in 1 .. Len(h) /\ 1 <= q /\ h[q] # Hole
  BY AheadIs
<1>3. PICK p : p = Min(Ahead(h, 1))
  OBVIOUS
<1>4. p \in 1 .. Len(h) /\ h[p] # Hole
  BY <1>1, <1>2, <1>3, LeastIs
<1>5. h[p] \in Elements
  BY <1>4, BucketIs
<1>6. Loses(Without(h, p), h, p)
  BY <1>4, WithoutIs
<1> QED
  BY <1>3, <1>4, <1>5, <1>6

LEMMA RoundOfIs ==
  ASSUME NEW r \in Rounds
  PROVE  RoundOf(r) \in Rounds
<1>1. r.h \in Seq(Buckets) /\ Trimmed(r.h) /\ r.got \in Seq(Elements)
  BY DEF Rounds
<1>2. CASE r.h = << >>
  BY <1>2 DEF RoundOf
<1>3. CASE r.h # << >>
  <2>1. PICK h, p : h = r.h /\ p = Min(Ahead(r.h, 1))
    OBVIOUS
  <2>2. h[p] \in Elements /\ Loses(Without(h, p), h, p)
    BY <1>1, <1>3, <2>1, FirstIs
  <2>3. Append(r.got, h[p]) \in Seq(Elements)
    BY <1>1, <2>2, AppendProperties
  <2>4. Without(h, p) \in Seq(Buckets) /\ Trimmed(Without(h, p))
    BY <2>2 DEF Loses
  <2>5. RoundOf(r) = [h |-> Without(h, p), got |-> Append(r.got, h[p])]
    BY <1>3, <2>1 DEF RoundOf
  <2> QED
    BY <2>3, <2>4, <2>5 DEF Rounds
<1> QED
  BY <1>2, <1>3

\* After i rounds: the first m elements of s have been taken.
After(r, h, s, i, m) ==
  /\ Thins(r.h, h) /\ Cut(s, r.got, Packed(r.h), m)
  /\ i > 0 /\ Len(s) > 0 => m > 0

LEMMA RoundTakes ==
  ASSUME NEW h \in Seq(Buckets), Trimmed(h), NEW s \in Seq(Elements),
         NEW r \in Rounds, NEW i \in Nat, NEW m, After(r, h, s, i, m)
  PROVE  \E n : After(RoundOf(r), h, s, i + 1, n)
<1>1. r.h \in Seq(Buckets) /\ Trimmed(r.h) /\ r.got \in Seq(Elements)
  BY DEF Rounds
<1>2. Thins(r.h, h) /\ Cut(s, r.got, Packed(r.h), m) /\ (i > 0 /\ Len(s) > 0 => m > 0)
  BY DEF After
<1>3. m \in Nat /\ Len(s) \in Nat /\ Len(Packed(r.h)) = Len(s) - m
  <2>1. Len(s) \in Nat
    BY LenProperties
  <2> QED
    BY <1>2, <2>1 DEF Cut
<1>4. CASE r.h = << >>
  <2>1. RoundOf(r) = r
    BY <1>4 DEF RoundOf
  <2>2. Packed(r.h) = << >>
    BY <1>1, <1>4, TrimmedHasFirst, PackedEmpty
  <2>3. Len(s) = m
    BY <1>3, <2>2, EmptySeq
  <2>4. Len(s) > 0 => m > 0
    BY <2>3
  <2>5. After(RoundOf(r), h, s, i + 1, m)
    BY <1>2, <2>1, <2>4 DEF After
  <2> QED
    BY <1>3, <2>5
<1>5. CASE r.h # << >>
  <2>1. PICK k, p : k = r.h /\ p = Min(Ahead(r.h, 1))
    OBVIOUS
  <2>2. k \in Seq(Buckets) /\ Loses(Without(k, p), k, p) /\ Ahead(k, 1) # {}
    BY <1>1, <1>5, <2>1, FirstIs, TrimmedHasFirst
  <2>3. PICK f : Enumerates(f, Packed(k), k, Len(k))
    BY <2>2, PackedIs
  <2>4. 1 \in 1 .. Len(Packed(k)) /\ p = f[1] /\ k[p] = Packed(k)[1]
    BY <2>1, <2>2, <2>3, EndsAre
  <2>5. Packed(Without(k, p)) = RemoveAt(Packed(k), 1)
    BY <2>2, <2>3, <2>4, PackedLoses
  <2>6. RoundOf(r) = [h |-> Without(k, p), got |-> Append(r.got, k[p])]
    BY <1>5, <2>1 DEF RoundOf
  <2>7. Thins(Without(k, p), h)
    BY <1>2, <2>1, <2>2, LosesThins, ThinsThins
  <2>8. Len(Packed(k)) > 0
    BY <1>3, <2>1, <2>4
  <2>9. Cut(s, Append(r.got, k[p]), RemoveAt(Packed(k), 1), m + 1)
    BY <1>2, <2>1, <2>4, <2>8, CutMore
  <2>10. m + 1 > 0
    BY <1>3
  <2>11. After(RoundOf(r), h, s, i + 1, m + 1)
    BY <2>5, <2>6, <2>7, <2>9, <2>10 DEF After
  <2> QED
    BY <2>10, <2>11
<1> QED
  BY <1>4, <1>5

LEMMA TakenIs ==
  ASSUME NEW h \in Seq(Buckets), Trimmed(h), NEW n \in Nat
  PROVE  /\ Taken(h, n) \in Rounds
         /\ \E m : After(Taken(h, n), h, Packed(h), n, m)
<1> DEFINE Round == CHOOSE Round : Round = [i \in 0 .. n |->
                      IF i = 0 THEN [h |-> h, got |-> << >>]
                      ELSE IF Round[i - 1].h = << >> THEN Round[i - 1]
                      ELSE LET left == Round[i - 1].h
                               p == Min(Ahead(left, 1))
                           IN [h |-> Without(left, p), got |-> Append(Round[i - 1].got, left[p])]]
           step == [x \in (1 .. n) \X Rounds |-> RoundOf(x[2])]
           b == [h |-> h, got |-> << >>]
<1>1. b \in Rounds
  BY EmptySeq DEF Rounds
<1>2. step \in [(1 .. n) \X Rounds -> Rounds]
  <2>1. \A r \in Rounds : RoundOf(r) \in Rounds
    BY RoundOfIs
  <2> QED
    BY <2>1
<1>3. \A i \in 1 .. n, r \in Rounds : step[<<i, r>>] = RoundOf(r)
  OBVIOUS
<1>4. Taken(h, n) = Round[n]
  BY DEF Taken
<1> HIDE DEF step
<1>5. PICK F : Made(F, b, step, n, Rounds)
  <2>1. Makes(step, n, Rounds)
    BY <1>2 DEF Makes
  <2> QED
    BY <1>1, <2>1, RecursionExists
<1>6. ASSUME NEW i \in 0 .. n, i # 0
      PROVE  F[i] = RoundOf(F[i - 1]) /\ F[i - 1] \in Rounds
  <2>1. i \in 1 .. n /\ i - 1 \in 0 .. n
    BY <1>6
  <2> QED
    BY <1>3, <1>5, <2>1 DEF Made
<1>7. F = [i \in 0 .. n |->
             IF i = 0 THEN [h |-> h, got |-> << >>]
             ELSE IF F[i - 1].h = << >> THEN F[i - 1]
             ELSE LET left == F[i - 1].h
                      p == Min(Ahead(left, 1))
                  IN [h |-> Without(left, p), got |-> Append(F[i - 1].got, left[p])]]
  BY <1>5, <1>6 DEF Made, RoundOf
<1>8. Round = [i \in 0 .. n |->
                IF i = 0 THEN [h |-> h, got |-> << >>]
                ELSE IF Round[i - 1].h = << >> THEN Round[i - 1]
                ELSE LET left == Round[i - 1].h
                         p == Min(Ahead(left, 1))
                     IN [h |-> Without(left, p), got |-> Append(Round[i - 1].got, left[p])]]
  BY <1>7
<1> HIDE DEF Round
<1>9. Round[0] = b /\ \A i \in 0 .. n : i # 0 => Round[i] = RoundOf(Round[i - 1])
  <2>1. Round[0] = b
    BY <1>8
  <2>2. ASSUME NEW i \in 0 .. n, i # 0 PROVE Round[i] = RoundOf(Round[i - 1])
    <3>1. Round[i] = IF Round[i - 1].h = << >> THEN Round[i - 1]
                     ELSE LET left == Round[i - 1].h
                              p == Min(Ahead(left, 1))
                          IN [h |-> Without(left, p), got |-> Append(Round[i - 1].got, left[p])]
      BY <1>8, <2>2, Zenon
    <3> QED
      BY <3>1, Zenon DEF RoundOf
  <2> QED
    BY <2>1, <2>2
<1> DEFINE Good(i) == Round[i] \in Rounds /\ \E m : After(Round[i], h, Packed(h), i, m)
<1>10. Packed(h) \in Seq(Elements)
  BY PackedIs DEF Enumerates
<1>11. Good(0)
  <2>1. Thins(h, h)
    <3>1. Len(h) \in Nat
      BY BucketIs
    <3> QED
      BY <3>1 DEF Thins
  <2>2. Cut(Packed(h), << >>, Packed(h), 0)
    BY <1>10, CutNone
  <2>3. After(b, h, Packed(h), 0, 0)
    BY <2>1, <2>2 DEF After
  <2> QED
    BY <1>1, <1>9, <2>3
<1>12. ASSUME NEW i \in 0 .. n, i # 0, Good(i - 1) PROVE Good(i)
  <2>1. PICK j, r : j = i - 1 /\ r = Round[i - 1]
    OBVIOUS
  <2>2. j \in Nat /\ j + 1 = i
    BY <1>12, <2>1
  <2>3. r \in Rounds /\ Round[i] = RoundOf(r)
    BY <1>9, <1>12, <2>1
  <2>4. PICK m : After(r, h, Packed(h), j, m)
    BY <1>12, <2>1
  <2>5. \E k : After(RoundOf(r), h, Packed(h), j + 1, k)
    BY <1>10, <2>2, <2>3, <2>4, RoundTakes
  <2> QED
    BY <2>2, <2>3, <2>5, RoundOfIs
<1>13. \A i \in 0 .. n : Good(i)
  <2> DEFINE T == {i \in 0 .. n : ~Good(i)}
  <2> SUFFICES ASSUME T # {} PROVE FALSE
    OBVIOUS
  <2>1. T \in SUBSET Nat /\ \A i \in T : i \in 0 .. n /\ ~Good(i)
    OBVIOUS
  <2>2. \A i \in 0 .. n : i \notin T => Good(i)
    OBVIOUS
  <2> HIDE DEF T, Good
  <2>3. PICK m \in T : \A k \in T : m <= k
    BY <2>1, LeastNatural
  <2>4. m # 0
    BY <1>11, <2>1
  <2>5. m - 1 \in 0 .. n /\ ~(m <= m - 1)
    BY <2>1, <2>4
  <2>6. Good(m - 1)
    BY <2>2, <2>3, <2>5
  <2> QED
    BY <1>12, <2>1, <2>4, <2>6
<1>14. n \in 0 .. n
  OBVIOUS
<1> QED
  BY <1>4, <1>13, <1>14

-----------------------------------------------------------------------------
(* Tables that stay in order.                                              *)

\* Elements are in the order of their insertion; n have been inserted.
HashSorted(h, n) ==
  /\ \A p, q \in Ahead(h, 1) : p < q => h[p].id < h[q].id
  /\ \A p \in Ahead(h, 1) : h[p].id <= n

\* The elements of t are elements of h, in the same order, no further back.
Stems(t, h) ==
  /\ t \in Seq(Buckets)
  /\ \E f \in [1 .. Len(t) -> 1 .. Len(h)] :
       /\ \A q \in 1 .. Len(t) : t[q] # Hole => q <= f[q] /\ t[q] = h[f[q]]
       /\ \A q, r \in 1 .. Len(t) : q < r => f[q] < f[r]

LEMMA ThinsStems ==
  ASSUME NEW t, NEW h, Thins(t, h)
  PROVE  Stems(t, h)
<1>1. t \in Seq(Buckets) /\ \A q \in 1 .. Len(t) : q \in 1 .. Len(h) /\ (t[q] = h[q] \/ t[q] = Hole)
  BY DEF Thins
<1>2. PICK f : f = [q \in 1 .. Len(t) |-> q]
  OBVIOUS
<1>3. Len(t) \in Nat
  BY <1>1, LenProperties
<1>4. f \in [1 .. Len(t) -> 1 .. Len(h)] /\ \A q \in 1 .. Len(t) : f[q] = q
  BY <1>1, <1>2
<1>5. /\ \A q \in 1 .. Len(t) : t[q] # Hole => q <= f[q] /\ t[q] = h[f[q]]
      /\ \A q, r \in 1 .. Len(t) : q < r => f[q] < f[r]
  BY <1>1, <1>3, <1>4
<1> QED
  BY <1>1, <1>4, <1>5 DEF Stems

LEMMA PackedStems ==
  ASSUME NEW h \in Seq(Buckets)
  PROVE  Stems(Packed(h), h) /\ Packed(h) \in Seq(Elements)
<1>1. PICK f : Enumerates(f, Packed(h), h, Len(h))
  BY PackedIs
<1>2. PICK s : s = Packed(h)
  OBVIOUS
<1>3. /\ s \in Seq(Elements) /\ f \in [1 .. Len(s) -> 1 .. Len(h)]
      /\ \A i, j \in 1 .. Len(s) : i < j => f[i] < f[j]
      /\ \A i \in 1 .. Len(s) : i <= f[i] /\ s[i] = h[f[i]]
  BY <1>1, <1>2 DEF Enumerates
<1>4. s \in Seq(Buckets)
  BY <1>3, PackedAlready
<1>5. Stems(s, h)
  BY <1>3, <1>4 DEF Stems
<1> QED
  BY <1>2, <1>3, <1>5

LEMMA StemsItself ==
  ASSUME NEW h \in Seq(Buckets)
  PROVE  Stems(h, h)
<1>1. Len(h) \in Nat
  BY BucketIs
<1>2. PICK f : f = [q \in 1 .. Len(h) |-> q]
  OBVIOUS
<1>3. f \in [1 .. Len(h) -> 1 .. Len(h)] /\ \A q \in 1 .. Len(h) : f[q] = q
  BY <1>2
<1>4. /\ \A q \in 1 .. Len(h) : h[q] # Hole => q <= f[q] /\ h[q] = h[f[q]]
      /\ \A q, r \in 1 .. Len(h) : q < r => f[q] < f[r]
  BY <1>1, <1>3
<1> QED
  BY <1>3, <1>4 DEF Stems

LEMMA StemsAhead ==
  ASSUME NEW h \in Seq(Buckets), NEW t, Stems(t, h), NEW p \in Nat \ {0}, NEW q \in Ahead(t, p)
  PROVE  \E r \in Ahead(h, p) : t[q] = h[r]
<1>1. t \in Seq(Buckets)
  BY DEF Stems
<1>2. PICK f \in [1 .. Len(t) -> 1 .. Len(h)] :
        \A x \in 1 .. Len(t) : t[x] # Hole => x <= f[x] /\ t[x] = h[f[x]]
  BY DEF Stems
<1>3. q \in 1 .. Len(t) /\ p <= q /\ t[q] # Hole
  BY <1>1, AheadIs
<1>4. q <= f[q] /\ t[q] = h[f[q]] /\ f[q] \in 1 .. Len(h)
  BY <1>2, <1>3
<1>5. Len(t) \in Nat /\ Len(h) \in Nat
  BY <1>1, BucketIs
<1>6. p <= f[q]
  BY <1>3, <1>4, <1>5
<1>7. f[q] \in Ahead(h, p)
  BY <1>3, <1>4, <1>6, AheadIs
<1> QED
  BY <1>4, <1>7

LEMMA StemsSorted ==
  ASSUME NEW h \in Seq(Buckets), NEW t, Stems(t, h), NEW n, HashSorted(h, n)
  PROVE  HashSorted(t, n)
<1>1. t \in Seq(Buckets)
  BY DEF Stems
<1>2. PICK f \in [1 .. Len(t) -> 1 .. Len(h)] :
        /\ \A x \in 1 .. Len(t) : t[x] # Hole => x <= f[x] /\ t[x] = h[f[x]]
        /\ \A x, y \in 1 .. Len(t) : x < y => f[x] < f[y]
  BY DEF Stems
<1>3. \A q : q \in Ahead(t, 1) => q \in 1 .. Len(t) /\ t[q] # Hole
  BY <1>1, AheadIs
<1>4. \A q \in Ahead(t, 1) : f[q] \in 1 .. Len(h) /\ t[q] = h[f[q]] /\ h[f[q]] # Hole
  BY <1>2, <1>3
<1>5. \A x \in 1 .. Len(h) : h[x] # Hole => x \in Ahead(h, 1)
  <2>1. Len(h) \in Nat
    BY BucketIs
  <2>2. \A x \in 1 .. Len(h) : 1 <= x
    BY <2>1
  <2> QED
    BY <2>2, AheadIs
<1>6. \A q \in Ahead(t, 1) : f[q] \in Ahead(h, 1)
  BY <1>4, <1>5
<1>7. \A p, q \in Ahead(t, 1) : p < q => f[p] < f[q]
  BY <1>2, <1>3
<1> QED
  BY <1>4, <1>6, <1>7 DEF HashSorted

\* The table t with a new element.
LEMMA AppendAhead ==
  ASSUME NEW t \in Seq(Buckets), NEW e \in Elements
  PROVE  /\ Append(t, e) \in Seq(Buckets) /\ Len(Append(t, e)) = Len(t) + 1
         /\ Trimmed(Append(t, e))
         /\ \A q \in 1 .. Len(t) : Append(t, e)[q] = t[q]
         /\ Append(t, e)[Len(t) + 1] = e
         /\ \A p \in Nat \ {0} : \A q \in Ahead(Append(t, e), p) :
              (q \in Ahead(t, p) /\ Append(t, e)[q] = t[q]) \/ q = Len(t) + 1
<1>1. Len(t) \in Nat /\ e \in Buckets /\ e # Hole
  BY BucketIs, HoleApart DEF Buckets
<1>2. PICK u : u = Append(t, e)
  OBVIOUS
<1>3. u \in Seq(Buckets) /\ Len(u) = Len(t) + 1 /\ u[Len(t) + 1] = e /\ \A q \in 1 .. Len(t) : u[q] = t[q]
  BY <1>1, <1>2, AppendProperties
<1>4. Trimmed(u)
  BY <1>1, <1>3 DEF Trimmed
<1>5. ASSUME NEW p \in Nat \ {0}, NEW q \in Ahead(u, p), q # Len(t) + 1
      PROVE  q \in Ahead(t, p) /\ u[q] = t[q]
  <2>1. q \in 1 .. Len(u) /\ p <= q /\ u[q] # Hole
    BY <1>3, AheadIs
  <2>2. q \in 1 .. Len(t)
    BY <1>1, <1>3, <1>5, <2>1
  <2> QED
    BY <1>3, <2>1, <2>2, AheadIs
<1> QED
  BY <1>2, <1>3, <1>4, <1>5

LEMMA AppendSorted ==
  ASSUME NEW t \in Seq(Buckets), NEW n \in Nat, HashSorted(t, n),
         NEW e \in Elements, e.id = n + 1
  PROVE  HashSorted(Append(t, e), n + 1)
<1>1. PICK u, z : u = Append(t, e) /\ z = Len(t) + 1
  OBVIOUS
<1>2. /\ u \in Seq(Buckets) /\ Len(u) = z /\ u[z] = e
      /\ \A q \in Ahead(u, 1) : (q \in Ahead(t, 1) /\ u[q] = t[q]) \/ q = z
  <2>1. /\ u \in Seq(Buckets) /\ Len(u) = z /\ u[z] = e
        /\ \A p \in Nat \ {0} : \A q \in Ahead(u, p) :
             (q \in Ahead(t, p) /\ u[q] = t[q]) \/ q = z
    BY <1>1, AppendAhead
  <2>2. 1 \in Nat \ {0}
    OBVIOUS
  <2> QED
    BY <2>1, <2>2, Zenon
<1>3. Len(t) \in Nat /\ Ahead(t, 1) \in SUBSET (1 .. Len(t)) /\ Ahead(u, 1) \in SUBSET (1 .. z)
  BY <1>2, BucketIs, AheadIs
<1>4. \A q \in Ahead(t, 1) : t[q].id <= n /\ t[q].id \in Nat
  <2>1. \A q \in Ahead(t, 1) : t[q] \in Elements
    BY <1>3, BucketIs, AheadIs
  <2>2. \A x \in Elements : x.id \in Nat
    BY MaxInsertsAssumption DEF Elements
  <2> QED
    BY <2>1, <2>2 DEF HashSorted
<1>5. \A q \in Ahead(u, 1) : u[q].id <= n + 1
  BY <1>2, <1>4
<1>6. ASSUME NEW p \in Ahead(u, 1), NEW q \in Ahead(u, 1), p < q PROVE u[p].id < u[q].id
  <2>1. p # z
    BY <1>1, <1>3, <1>6
  <2>2. p \in Ahead(t, 1) /\ u[p] = t[p]
    BY <1>2, <2>1
  <2>3. CASE q = z
    BY <1>2, <1>4, <2>2, <2>3
  <2>4. CASE q # z
    <3>1. q \in Ahead(t, 1) /\ u[q] = t[q]
      BY <1>2, <2>4
    <3> QED
      BY <1>6, <2>2, <3>1 DEF HashSorted
  <2> QED
    BY <2>3, <2>4
<1> QED
  BY <1>1, <1>5, <1>6 DEF HashSorted

\* Elements are counted by the engine as they are packed.
LEMMA PackedCount ==
  ASSUME NEW h \in Seq(Buckets)
  PROVE  Len(Packed(h)) = Cardinality(Ahead(h, 1))
<1>1. PICK f : Enumerates(f, Packed(h), h, Len(h))
  BY PackedIs
<1>2. PICK s, A : s = Packed(h) /\ A = Ahead(h, 1)
  OBVIOUS
<1>3. /\ s \in Seq(Elements) /\ f \in [1 .. Len(s) -> 1 .. Len(h)]
      /\ \A i, j \in 1 .. Len(s) : i < j => f[i] < f[j]
      /\ \A i \in 1 .. Len(s) : h[f[i]] # Hole
      /\ \A q \in 1 .. Len(h) : h[q] # Hole => \E i \in 1 .. Len(s) : f[i] = q
  BY <1>1, <1>2 DEF Enumerates
<1>4. Len(s) \in Nat /\ Len(h) \in Nat
  BY <1>3, LenProperties, BucketIs
<1>5. \A q : q \in A <=> q \in 1 .. Len(h) /\ 1 <= q /\ h[q] # Hole
  BY <1>2, AheadIs
<1>6. f \in [1 .. Len(s) -> A]
  <2>1. \A i \in 1 .. Len(s) : f[i] \in 1 .. Len(h) /\ 1 <= f[i]
    BY <1>3, <1>4
  <2>2. \A i \in 1 .. Len(s) : f[i] \in A
    BY <1>3, <1>5, <2>1
  <2> QED
    BY <1>3, <2>2
<1>7. f \in Surjection(1 .. Len(s), A)
  BY <1>3, <1>5, <1>6 DEF Surjection
<1>8. \A i, j \in 1 .. Len(s) : f[i] = f[j] => i = j
  <2> SUFFICES ASSUME NEW i \in 1 .. Len(s), NEW j \in 1 .. Len(s), f[i] = f[j], i # j PROVE FALSE
    OBVIOUS
  <2>1. f[i] \in Nat /\ f[j] \in Nat
    BY <1>3
  <2>2. i < j \/ j < i
    BY <1>4
  <2> QED
    BY <1>3, <2>1, <2>2
<1>9. f \in Injection(1 .. Len(s), A)
  BY <1>6, <1>8 DEF Injection, IsInjective
<1>10. 1 \in Int /\ Len(s) \in Int
  BY <1>4
<1>11. IsFiniteSet(1 .. Len(s)) /\ Cardinality(1 .. Len(s)) = IF 1 > Len(s) THEN 0 ELSE Len(s) - 1 + 1
  BY <1>10, FS_Interval
<1>12. Cardinality(1 .. Len(s)) = Len(s)
  BY <1>4, <1>11
<1>13. Cardinality(A) = Cardinality(1 .. Len(s))
  BY <1>7, <1>9, <1>11, FS_Surjection, Zenon
<1> QED
  BY <1>2, <1>12, <1>13

-----------------------------------------------------------------------------
(* The inductive invariant.                                                *)

\* Elements from a position on are newer than all those visited, or not older.
Above(h, p, v) == \A q \in Ahead(h, p), i \in 1 .. Len(v) : v[i].id < h[q].id
NotBelow(h, p, v) == \A q \in Ahead(h, p), i \in 1 .. Len(v) : v[i].id <= h[q].id

\* The loop has met all elements before a position.
MetBefore(h, p, v) == \A q \in Ahead(h, 1) : q < p => \E i \in 1 .. Len(v) : v[i] = h[q]

\* What a critical section with this position finds.
Found(h, p) == IF Ahead(h, p) = {} THEN Hole ELSE h[Min(Ahead(h, p))]

TableInv == size # 0 /\ Trimmed(hash) /\ HashSorted(hash, inserted)

VisitInv ==
  /\ \A i, j \in 1 .. Len(visited) : i < j => visited[i].id < visited[j].id
  /\ \A i \in 1 .. Len(visited) : visited[i].id <= inserted
  /\ at = "fetch" /\ position # 0 => Above(hash, position, visited)
  /\ at \in {"key", "body"} => position # 0 /\ NotBelow(hash, position, visited)

\* An undisturbed loop: positions stay what they were.
MeetInv ==
  Undisturbed =>
    /\ missed = {}
    /\ "insertInLoop" \in habits => \A q \in 1 .. Len(hash) : hash[q] # Hole
    /\ at = "fetch" /\ position # 0 =>
         position \in Ahead(hash, 1) /\ MetBefore(hash, position, visited)
    /\ at \in {"key", "body"} =>
         /\ position \in Ahead(hash, 1) /\ data = hash[position]
         /\ MetBefore(hash, position + 1, visited)

PairInv ==
  /\ "synchronized" \in habits /\ at = "key" => data = Found(hash, position)
  /\ (Undisturbed \/ "synchronized" \in habits) /\ at = "body" =>
       key = (IF data = Hole THEN NullKey ELSE data.key)

IterInv == TypeOK /\ TableInv /\ VisitInv /\ MeetInv /\ PairInv

LEMMA IterInvInit == Init => IterInv
<1> SUFFICES ASSUME Init PROVE IterInv
  OBVIOUS
<1>1. PICK e : e = << >>
  OBVIOUS
<1>2. e \in Seq(Elements) /\ e \in Seq(Buckets) /\ Len(e) = 0
  BY <1>1, EmptySeq
<1>3. /\ hash = e /\ size = MinSize /\ inserted = 0 /\ habits \in Habits
      /\ returned = [call |-> "none", got |-> e]
      /\ at = "out" /\ position = 0 /\ data = Hole /\ key = "" /\ visited = e /\ missed = {}
  BY <1>1 DEF Init, HT_INVALID_IDX
<1>4. returned.call = "none" /\ returned.got = e
  BY <1>3
<1>5. hash \in Seq(Buckets) /\ Len(hash) = 0 /\ visited \in Seq(Elements) /\ Len(visited) = 0
  BY <1>2, <1>3
<1>6. size \in Nat /\ Len(hash) <= size /\ size # 0 /\ inserted \in 0 .. MaxInserts /\ position \in Nat
  <2>1. size = MinSize /\ inserted = 0 /\ position = 0 /\ Len(hash) = 0
    BY <1>3, <1>5, Zenon
  <2> QED
    BY <2>1, MinSizeAssumption, MaxInsertsAssumption
<1>7. TypeOK
  BY <1>2, <1>3, <1>4, <1>5, <1>6 DEF TypeOK, Buckets
<1>8. Ahead(hash, 1) = {}
  <2>1. 1 \in Nat \ {0} /\ \A q : q \notin 1 .. 0
    OBVIOUS
  <2>2. \A q : q \in Ahead(hash, 1) => q \in 1 .. 0
    BY <1>5, <2>1, AheadIs, Zenon
  <2> QED
    BY <2>1, <2>2
<1>9. TableInv
  BY <1>5, <1>6, <1>8 DEF TableInv, Trimmed, HashSorted
<1>10. at = "out" /\ missed = {} /\ \A i : i \notin 1 .. Len(hash) /\ i \notin 1 .. Len(visited)
  <2>1. \A i : i \notin 1 .. 0
    OBVIOUS
  <2> QED
    BY <1>3, <1>5, <2>1, Zenon
<1>11. VisitInv /\ MeetInv
  BY <1>10 DEF VisitInv, MeetInv
<1>12. PairInv
  BY <1>10 DEF PairInv
<1> QED
  BY <1>7, <1>9, <1>10, <1>11, <1>12 DEF IterInv

LEMMA TypeFacts ==
  ASSUME TypeOK
  PROVE  /\ hash \in Seq(Buckets) /\ Len(hash) \in Nat /\ size \in Nat /\ Len(hash) <= size
         /\ inserted \in Nat /\ inserted \in 0 .. MaxInserts /\ position \in Nat
         /\ visited \in Seq(Elements) /\ Len(visited) \in Nat /\ DOMAIN visited = 1 .. Len(visited)
         /\ \A i \in 1 .. Len(visited) : visited[i] \in Elements /\ visited[i].id \in Nat
         /\ \A q \in 1 .. Len(hash) : hash[q] # Hole => hash[q] \in Elements /\ hash[q].id \in Nat
<1>1. hash \in Seq(Buckets) /\ visited \in Seq(Elements)
  BY DEF TypeOK, Buckets
<1>2. \A x \in Elements : x.id \in Nat
  BY MaxInsertsAssumption DEF Elements
<1>3. Len(visited) \in Nat /\ DOMAIN visited = 1 .. Len(visited)
      /\ \A i \in 1 .. Len(visited) : visited[i] \in Elements
  BY <1>1, LenProperties, ElementOfSeq
<1>4. Len(hash) \in Nat /\ \A q \in 1 .. Len(hash) : hash[q] # Hole => hash[q] \in Elements
  BY <1>1, BucketIs
<1>5. size \in Nat /\ Len(hash) <= size /\ inserted \in 0 .. MaxInserts /\ position \in Nat
  BY Zenon DEF TypeOK
<1>6. inserted \in Nat
  BY <1>5, MaxInsertsAssumption
<1> QED
  BY <1>1, <1>2, <1>3, <1>4, <1>5, <1>6

\* The elements from any position on have been there, or are new.
Brings(t, h, n) ==
  \A p \in Nat \ {0} : \A q \in Ahead(t, p) : (\E r \in Ahead(h, p) : t[q] = h[r]) \/ t[q].id > n

LEMMA VisitStays ==
  ASSUME TypeOK, VisitInv, hash' \in Seq(Buckets), Brings(hash', hash, inserted),
         inserted' \in Nat, inserted <= inserted',
         UNCHANGED <<iterVars, histVars>>
  PROVE  VisitInv'
<1>1. at' = at /\ position' = position /\ visited' = visited
  BY DEF iterVars, histVars
<1>2. /\ inserted \in Nat /\ position \in Nat
      /\ \A i \in 1 .. Len(visited) : visited[i].id \in Nat
  BY TypeFacts
<1>3. \A i \in 1 .. Len(visited) : visited[i].id <= inserted
  BY DEF VisitInv
<1>4. \A i \in 1 .. Len(visited) : visited[i].id <= inserted'
  BY <1>2, <1>3
<1>4a. \A p \in Nat \ {0} : \A q \in Ahead(hash', p) : hash'[q].id \in Nat
  <2>1. \A x \in Elements : x.id \in Nat
    BY MaxInsertsAssumption DEF Elements
  <2>2. \A p \in Nat \ {0} : \A q \in Ahead(hash', p) : q \in 1 .. Len(hash') /\ hash'[q] # Hole
    BY AheadIs
  <2> QED
    BY <2>1, <2>2, BucketIs
<1>5. ASSUME at = "fetch", position # 0 PROVE Above(hash', position, visited)
  <2>1. Above(hash, position, visited) /\ position \in Nat \ {0}
    BY <1>2, <1>5 DEF VisitInv
  <2> SUFFICES ASSUME NEW q \in Ahead(hash', position), NEW i \in 1 .. Len(visited)
               PROVE  visited[i].id < hash'[q].id
    BY DEF Above
  <2>2. CASE \E r \in Ahead(hash, position) : hash'[q] = hash[r]
    BY <2>1, <2>2 DEF Above
  <2>3. CASE hash'[q].id > inserted
    <3>1. visited[i].id <= inserted /\ visited[i].id \in Nat /\ hash'[q].id \in Nat
      BY <1>2, <1>3, <1>4a, <2>1
    <3> QED
      BY <1>2, <2>3, <3>1
  <2> QED
    BY <2>1, <2>2, <2>3 DEF Brings
<1>6. ASSUME at \in {"key", "body"} PROVE position # 0 /\ NotBelow(hash', position, visited)
  <2>1. NotBelow(hash, position, visited) /\ position \in Nat \ {0}
    BY <1>2, <1>6 DEF VisitInv
  <2> SUFFICES ASSUME NEW q \in Ahead(hash', position), NEW i \in 1 .. Len(visited)
               PROVE  visited[i].id <= hash'[q].id
    BY <2>1 DEF NotBelow
  <2>2. CASE \E r \in Ahead(hash, position) : hash'[q] = hash[r]
    BY <2>1, <2>2 DEF NotBelow
  <2>3. CASE hash'[q].id > inserted
    <3>1. visited[i].id <= inserted /\ visited[i].id \in Nat /\ hash'[q].id \in Nat
      BY <1>2, <1>3, <1>4a, <2>1
    <3> QED
      BY <1>2, <2>3, <3>1
  <2> QED
    BY <2>1, <2>2, <2>3 DEF Brings
<1> QED
  BY <1>1, <1>4, <1>5, <1>6 DEF VisitInv

\* With loops inside synchronized() nothing comes between a value and its key.
LEMMA PairStays ==
  ASSUME PairInv, MayEnter, UNCHANGED <<habits, iterVars>>
  PROVE  PairInv'
<1>1. at' = at /\ position' = position /\ data' = data /\ key' = key /\ habits' = habits
  BY DEF iterVars
<1>2. "synchronized" \in habits => at # "key"
  BY DEF MayEnter
<1> QED
  BY <1>1, <1>2 DEF PairInv, Undisturbed

LEMMA TypeStays ==
  ASSUME TypeOK, UNCHANGED <<habits, iterVars, histVars>>,
         hash' \in Seq(Buckets), size' \in Nat, Len(hash') <= size', inserted' \in 0 .. MaxInserts,
         returned'.call \in {"none", "unset", "shift", "pop", "chunk"}, returned'.got \in Seq(Elements)
  PROVE  TypeOK'
<1>1. /\ habits' = habits /\ at' = at /\ position' = position /\ data' = data /\ key' = key
      /\ visited' = visited /\ missed' = missed
  BY DEF iterVars, histVars
<1>2. /\ habits \in Habits /\ at \in {"out", "fetch", "key", "body"} /\ position \in Nat
      /\ data \in Elements \cup {Hole} /\ key \in Keys \cup {"", NullKey}
      /\ visited \in Seq(Elements) /\ missed \subseteq Elements
  BY Zenon DEF TypeOK
<1> QED
  BY <1>1, <1>2, Zenon DEF TypeOK, Buckets

\* What is added comes behind what is there.
Extends(t, h) == Len(h) <= Len(t) /\ \A q \in 1 .. Len(h) : t[q] = h[q]

LEMMA ExtendsAhead ==
  ASSUME NEW t \in Seq(Buckets), NEW h \in Seq(Buckets), Extends(t, h), NEW p \in Ahead(h, 1)
  PROVE  p \in Ahead(t, 1) /\ t[p] = h[p]
<1>1. 1 \in Nat \ {0} /\ Len(h) \in Nat /\ Len(t) \in Nat /\ Len(h) <= Len(t)
  BY BucketIs DEF Extends
<1>2. p \in 1 .. Len(h) /\ 1 <= p /\ h[p] # Hole
  BY <1>1, AheadIs
<1>3. p \in 1 .. Len(t) /\ t[p] = h[p]
  BY <1>1, <1>2 DEF Extends
<1> QED
  BY <1>1, <1>2, <1>3, AheadIs

LEMMA ExtendsMet ==
  ASSUME NEW t \in Seq(Buckets), NEW h \in Seq(Buckets), Extends(t, h),
         NEW p \in Nat, p <= Len(h) + 1, NEW v, MetBefore(h, p, v)
  PROVE  MetBefore(t, p, v)
<1> SUFFICES ASSUME NEW q \in Ahead(t, 1), q < p
             PROVE  \E i \in 1 .. Len(v) : v[i] = t[q]
  BY DEF MetBefore
<1>1. 1 \in Nat \ {0} /\ Len(h) \in Nat /\ Len(t) \in Nat /\ Len(h) <= Len(t)
  BY BucketIs DEF Extends
<1>2. q \in 1 .. Len(t) /\ 1 <= q /\ t[q] # Hole
  BY <1>1, AheadIs
<1>3. q \in 1 .. Len(h) /\ t[q] = h[q]
  BY <1>1, <1>2 DEF Extends
<1>4. q \in Ahead(h, 1)
  BY <1>1, <1>2, <1>3, AheadIs
<1> QED
  BY <1>3, <1>4 DEF MetBefore

\* In an undisturbed loop the table at most grows.
LEMMA MeetStays ==
  ASSUME TypeOK, MeetInv, UNCHANGED <<habits, iterVars, histVars>>, hash' \in Seq(Buckets),
         Undisturbed /\ at # "out" => Extends(hash', hash),
         Undisturbed /\ "insertInLoop" \in habits => \A q \in 1 .. Len(hash') : hash'[q] # Hole
  PROVE  MeetInv'
<1>1. /\ habits' = habits /\ at' = at /\ position' = position /\ data' = data
      /\ visited' = visited /\ missed' = missed
  BY DEF iterVars, histVars
<1>2. hash \in Seq(Buckets) /\ Len(hash) \in Nat /\ position \in Nat /\ 1 \in Nat \ {0}
  BY TypeFacts
<1>3. Undisturbed' <=> Undisturbed
  BY <1>1, Zenon DEF Undisturbed
<1>4. ASSUME Undisturbed, at = "fetch", position # 0
      PROVE  position \in Ahead(hash', 1) /\ MetBefore(hash', position, visited)
  <2>1. position \in Ahead(hash, 1) /\ MetBefore(hash, position, visited) /\ Extends(hash', hash)
    BY <1>4 DEF MeetInv
  <2>2. position <= Len(hash) + 1
    BY <1>2, <2>1, AheadIs
  <2> QED
    BY <1>2, <2>1, <2>2, ExtendsAhead, ExtendsMet
<1>5. ASSUME Undisturbed, at \in {"key", "body"}
      PROVE  /\ position \in Ahead(hash', 1) /\ data = hash'[position]
             /\ MetBefore(hash', position + 1, visited)
  <2>1. /\ position \in Ahead(hash, 1) /\ data = hash[position]
        /\ MetBefore(hash, position + 1, visited) /\ Extends(hash', hash)
    BY <1>5 DEF MeetInv
  <2>2. position + 1 <= Len(hash) + 1 /\ position + 1 \in Nat
    BY <1>2, <2>1, AheadIs
  <2> QED
    BY <1>2, <2>1, <2>2, ExtendsAhead, ExtendsMet
<1>6. Undisturbed => missed = {}
  BY DEF MeetInv
<1> QED
  BY <1>1, <1>3, <1>4, <1>5, <1>6, Zenon DEF MeetInv

\* A table without holes is not found holed.
LEMMA NoHolesCount ==
  ASSUME TypeOK, \A q \in 1 .. Len(hash) : hash[q] # Hole
  PROVE  ~Holed
<1>1. hash \in Seq(Buckets) /\ Len(hash) \in Nat /\ 1 \in Nat \ {0}
  BY TypeFacts
<1>2. \A q : q \in Ahead(hash, 1) <=> q \in 1 .. Len(hash)
  BY <1>1, AheadIs
<1>3. Ahead(hash, 1) = 1 .. Len(hash)
  BY <1>2
<1>4. 1 \in Int /\ Len(hash) \in Int
  BY <1>1
<1>5. Cardinality(1 .. Len(hash)) = IF 1 > Len(hash) THEN 0 ELSE Len(hash) - 1 + 1
  BY <1>4, FS_Interval
<1>6. NumOfElements = Len(hash)
  BY <1>1, <1>3, <1>5 DEF NumOfElements
<1>7. Len(hash) \div 32 \in Nat
  BY <1>1
<1>8. ~(Len(hash) > Len(hash) + Len(hash) \div 32)
  BY <1>1, <1>7
<1> QED
  BY <1>6, <1>8 DEF Holed

\* pthreads_store_write of a new property puts it behind the elements there are.
Placed(t, e) ==
  /\ t \in Seq(Buckets) /\ Stems(t, hash) /\ hash' = Append(t, e)
  /\ size' \in Nat /\ size' # 0 /\ Len(t) + 1 <= size'
  /\ Holed \/ t = hash
  /\ (t = hash) \/ t = Packed(hash)

LEMMA InsertIs ==
  ASSUME TypeOK, TableInv, NEW k \in Keys, Insert(k)
  PROVE  \E t, e : e \in Elements /\ e.key = k /\ e.id = inserted + 1 /\ Placed(t, e)
<1> DEFINE e == [key |-> k, id |-> inserted + 1]
<1>1. /\ hash \in Seq(Buckets) /\ Len(hash) \in Nat /\ size \in Nat /\ Len(hash) <= size
      /\ inserted \in Nat
  BY TypeFacts
<1>2. inserted + 1 \in 1 .. MaxInserts
  BY <1>1, MaxInsertsAssumption DEF Insert
<1>3. e \in Elements /\ e.key = k /\ e.id = inserted + 1
  BY <1>2 DEF Elements
<1>4. size # 0
  BY DEF TableInv
<1>5. Stems(hash, hash) /\ Stems(Packed(hash), hash) /\ Packed(hash) \in Seq(Elements)
  BY <1>1, StemsItself, PackedStems
<1>6. Packed(hash) \in Seq(Buckets)
  BY <1>5 DEF Stems
<1>7. Len(Packed(hash)) = NumOfElements /\ Len(Packed(hash)) \in Nat
  BY <1>1, <1>6, PackedCount, BucketIs DEF NumOfElements
<1>8. Insert(k) => \/ ~Full /\ hash' = Append(hash, e) /\ size' = size
                   \/ Full /\ Holed /\ hash' = Append(Packed(hash), e) /\ size' = size
                   \/ Full /\ ~Holed /\ hash' = Append(hash, e) /\ size' = 2 * size
  BY DEF Insert
<1> HIDE DEF e
<1>9. CASE ~Full /\ hash' = Append(hash, e) /\ size' = size
  <2>1. Len(hash) + 1 <= size' /\ size' \in Nat /\ size' # 0
    BY <1>1, <1>4, <1>9 DEF Full
  <2>2. Placed(hash, e)
    BY <1>1, <1>5, <1>9, <2>1 DEF Placed
  <2> QED
    BY <1>3, <2>2, Zenon
<1>10. CASE Full /\ Holed /\ hash' = Append(Packed(hash), e) /\ size' = size
  <2>1. NumOfElements \div 32 \in Nat
    BY <1>7
  <2>2. Len(hash) > NumOfElements + NumOfElements \div 32
    BY <1>10 DEF Holed
  <2>3. Len(Packed(hash)) + 1 <= size' /\ size' \in Nat /\ size' # 0
    BY <1>1, <1>4, <1>7, <1>10, <2>1, <2>2
  <2>4. Placed(Packed(hash), e)
    BY <1>5, <1>6, <1>10, <2>3 DEF Placed
  <2> QED
    BY <1>3, <2>4, Zenon
<1>11. CASE Full /\ ~Holed /\ hash' = Append(hash, e) /\ size' = 2 * size
  <2>1. Len(hash) + 1 <= size' /\ size' \in Nat /\ size' # 0
    BY <1>1, <1>4, <1>11
  <2>2. Placed(hash, e)
    BY <1>1, <1>5, <1>11, <2>1 DEF Placed
  <2> QED
    BY <1>3, <2>2, Zenon
<1> QED
  BY <1>8, <1>9, <1>10, <1>11

LEMMA InsertKeeps ==
  ASSUME IterInv, UNCHANGED habits, NEW k \in Keys, Insert(k)
  PROVE  IterInv'
<1>1. TypeOK /\ TableInv /\ VisitInv /\ MeetInv /\ PairInv
  BY DEF IterInv
<1>2. PICK t, e : e \in Elements /\ e.key = k /\ e.id = inserted + 1 /\ Placed(t, e)
  BY <1>1, InsertIs, Zenon
<1>3. /\ t \in Seq(Buckets) /\ Stems(t, hash) /\ hash' = Append(t, e)
      /\ size' \in Nat /\ size' # 0 /\ Len(t) + 1 <= size'
      /\ (Holed \/ t = hash)
  BY <1>2 DEF Placed
<1>4. /\ inserted' = inserted + 1 /\ inserted < MaxInserts /\ MayInsert
      /\ returned' = returned /\ UNCHANGED <<habits, iterVars, histVars>>
  BY DEF Insert
<1>5. /\ hash \in Seq(Buckets) /\ inserted \in Nat /\ Len(hash) \in Nat
  BY <1>1, TypeFacts
<1>6. /\ hash' \in Seq(Buckets) /\ Len(hash') = Len(t) + 1 /\ Trimmed(hash')
      /\ \A q \in 1 .. Len(t) : hash'[q] = t[q]
      /\ hash'[Len(t) + 1] = e
      /\ \A p \in Nat \ {0} : \A q \in Ahead(hash', p) :
           (q \in Ahead(t, p) /\ hash'[q] = t[q]) \/ q = Len(t) + 1
  <2>1. t \in Seq(Buckets) /\ e \in Elements
    BY <1>2, <1>3
  <2>2. PICK u : u = Append(t, e)
    OBVIOUS
  <2>3. /\ u \in Seq(Buckets) /\ Len(u) = Len(t) + 1 /\ Trimmed(u)
        /\ \A q \in 1 .. Len(t) : u[q] = t[q]
        /\ u[Len(t) + 1] = e
        /\ \A p \in Nat \ {0} : \A q \in Ahead(u, p) :
             (q \in Ahead(t, p) /\ u[q] = t[q]) \/ q = Len(t) + 1
    <3> DEFINE w == Append(t, e)
    <3>1. /\ w \in Seq(Buckets) /\ Len(w) = Len(t) + 1 /\ Trimmed(w)
          /\ \A q \in 1 .. Len(t) : w[q] = t[q]
          /\ w[Len(t) + 1] = e
          /\ \A p \in Nat \ {0} : \A q \in Ahead(w, p) :
               (q \in Ahead(t, p) /\ w[q] = t[q]) \/ q = Len(t) + 1
      BY <2>1, AppendAhead, Zenon
    <3>2. u = w
      BY <2>2
    <3> HIDE DEF w
    <3> QED
      BY <3>1, <3>2, Zenon
  <2>4. hash' = u
    BY <1>3, <2>2, Zenon
  <2> QED
    BY <2>3, <2>4, Zenon
<1>7. inserted' \in Nat /\ inserted <= inserted' /\ inserted' \in 0 .. MaxInserts
  BY <1>4, <1>5, MaxInsertsAssumption
<1>8. TypeOK'
  <2>1. returned.call \in {"none", "unset", "shift", "pop", "chunk"} /\ returned.got \in Seq(Elements)
    BY <1>1, Zenon DEF TypeOK
  <2>2. Len(hash') <= size'
    BY <1>3, <1>6
  <2> QED
    BY <1>1, <1>3, <1>4, <1>6, <1>7, <2>1, <2>2, TypeStays
<1>9. TableInv'
  <2>1. HashSorted(t, inserted)
    BY <1>1, <1>3, <1>5, StemsSorted DEF TableInv
  <2>2. HashSorted(hash', inserted')
    BY <1>2, <1>3, <1>4, <1>5, <2>1, AppendSorted
  <2> QED
    BY <1>3, <1>6, <2>2 DEF TableInv
<1>10. Brings(hash', hash, inserted)
  <2> SUFFICES ASSUME NEW p \in Nat \ {0}, NEW q \in Ahead(hash', p)
               PROVE  (\E r \in Ahead(hash, p) : hash'[q] = hash[r]) \/ hash'[q].id > inserted
    BY DEF Brings
  <2>1. CASE q \in Ahead(t, p) /\ hash'[q] = t[q]
    BY <1>3, <1>5, <2>1, StemsAhead
  <2>2. CASE q = Len(t) + 1
    <3>1. hash'[q].id = inserted + 1
      BY <1>2, <1>6, <2>2
    <3> QED
      BY <1>5, <3>1
  <2> QED
    BY <1>6, <2>1, <2>2
<1>11. VisitInv'
  BY <1>1, <1>4, <1>6, <1>7, <1>10, VisitStays
<1>12. MayEnter /\ (at # "out" => "insertInLoop" \in habits)
  BY <1>4 DEF MayInsert, InLoop
<1>13. ASSUME Undisturbed, "insertInLoop" \in habits
       PROVE  Extends(hash', hash) /\ \A q \in 1 .. Len(hash') : hash'[q] # Hole
  <2>1. \A q \in 1 .. Len(hash) : hash[q] # Hole
    BY <1>1, <1>13 DEF MeetInv
  <2>2. t = hash
    BY <1>1, <1>3, <2>1, NoHolesCount
  <2>3. Extends(hash', hash)
    BY <1>5, <1>6, <2>2 DEF Extends
  <2>4. ASSUME NEW q \in 1 .. Len(hash') PROVE hash'[q] # Hole
    <3>1. q \in 1 .. Len(hash) \/ q = Len(t) + 1
      BY <1>5, <1>6, <2>2
    <3> QED
      BY <1>2, <1>6, <2>1, <2>2, <3>1, HoleApart
  <2> QED
    BY <2>3, <2>4
<1>14. MeetInv'
  BY <1>1, <1>4, <1>6, <1>12, <1>13, MeetStays
<1>15. PairInv'
  BY <1>1, <1>4, <1>12, PairStays
<1> QED
  BY <1>8, <1>9, <1>11, <1>14, <1>15 DEF IterInv

LEMMA TakeOutKeeps ==
  ASSUME IterInv, UNCHANGED habits, NEW call \in {"unset", "shift", "pop", "chunk"},
         NEW h, Thins(h, hash), NEW got \in Seq(Elements), TakeOut(call, h, got)
  PROVE  IterInv'
<1>1. TypeOK /\ TableInv /\ VisitInv /\ MeetInv /\ PairInv
  BY DEF IterInv
<1>2. /\ hash' = h /\ returned' = [call |-> call, got |-> got] /\ MayRemove
      /\ size' = size /\ inserted' = inserted /\ UNCHANGED <<habits, iterVars, histVars>>
  BY DEF TakeOut
<1>3. /\ hash \in Seq(Buckets) /\ inserted \in Nat /\ inserted \in 0 .. MaxInserts
      /\ Len(hash) \in Nat /\ size \in Nat /\ Len(hash) <= size
  BY <1>1, TypeFacts
<1>4. h \in Seq(Buckets) /\ Trimmed(h) /\ Len(h) <= Len(hash) /\ Len(h) \in Nat
  BY BucketIs DEF Thins
<1>5. Stems(h, hash)
  BY ThinsStems
<1>6. TypeOK'
  <2>1. returned'.call = call /\ returned'.got = got
    BY <1>2
  <2>2. returned'.call \in {"none", "unset", "shift", "pop", "chunk"} /\ returned'.got \in Seq(Elements)
    BY <2>1
  <2>3. /\ hash' \in Seq(Buckets) /\ size' \in Nat /\ Len(hash') <= size'
        /\ inserted' \in 0 .. MaxInserts
    BY <1>2, <1>3, <1>4
  <2> QED
    BY <1>1, <1>2, <2>2, <2>3, TypeStays
<1>7. TableInv'
  <2>1. HashSorted(h, inserted)
    BY <1>1, <1>3, <1>5, StemsSorted DEF TableInv
  <2> QED
    BY <1>1, <1>2, <1>4, <2>1 DEF TableInv
<1>8. Brings(h, hash, inserted)
  BY <1>3, <1>5, StemsAhead DEF Brings
<1>9. VisitInv'
  <2>1. /\ hash' \in Seq(Buckets) /\ Brings(hash', hash, inserted)
        /\ inserted' \in Nat /\ inserted <= inserted'
    BY <1>2, <1>3, <1>4, <1>8
  <2> QED
    BY <1>1, <1>2, <2>1, VisitStays
<1>10. MayEnter /\ (IF at # "out" THEN "removeInLoop" \in habits ELSE "remove" \in habits)
  BY <1>2 DEF MayRemove, InLoop
<1>11. Undisturbed => at = "out" /\ "insertInLoop" \notin habits
  BY <1>10 DEF Undisturbed
<1>12. hash' \in Seq(Buckets)
  BY <1>2, <1>4
<1>13. MeetInv'
  BY <1>1, <1>2, <1>11, <1>12, MeetStays
<1>14. PairInv'
  BY <1>1, <1>2, <1>10, PairStays
<1> QED
  BY <1>6, <1>7, <1>9, <1>13, <1>14 DEF IterInv

LEMMA OneGoes ==
  ASSUME NEW h \in Seq(Buckets), NEW p \in Ahead(h, 1)
  PROVE  p \in 1 .. Len(h) /\ h[p] \in Elements /\ Thins(Without(h, p), h) /\ <<h[p]>> \in Seq(Elements)
<1>1. 1 \in Nat \ {0}
  OBVIOUS
<1>2. p \in 1 .. Len(h) /\ h[p] # Hole
  BY <1>1, AheadIs
<1>3. h[p] \in Elements
  BY <1>2, BucketIs
<1>4. Loses(Without(h, p), h, p)
  BY <1>2, WithoutIs
<1> QED
  BY <1>2, <1>3, <1>4, LosesThins

LEMMA EndsThere ==
  ASSUME NEW h \in Seq(Buckets), NEW p \in Nat \ {0}, Ahead(h, p) # {}
  PROVE  /\ Min(Ahead(h, p)) \in Ahead(h, p) /\ \A q \in Ahead(h, p) : Min(Ahead(h, p)) <= q
         /\ Max(Ahead(h, p)) \in Ahead(h, p)
<1>1. Ahead(h, p) \in SUBSET Nat /\ Ahead(h, p) \in SUBSET (1 .. Len(h)) /\ Len(h) \in Nat
  BY AheadIs, BucketIs
<1> QED
  BY <1>1, LeastIs, GreatestIs

LEMMA RemovalKeeps ==
  ASSUME IterInv, UNCHANGED habits,
         (\E k \in Keys : Delete(k)) \/ Shift \/ Pop \/ \E n \in 1 .. Cardinality(Keys) : Chunk(n)
  PROVE  IterInv'
<1>1. hash \in Seq(Buckets) /\ Trimmed(hash) /\ 1 \in Nat \ {0}
  BY TypeFacts DEF IterInv, TableInv
<1>2. << >> \in Seq(Elements)
  BY EmptySeq
<1>3. CASE \E k \in Keys : Delete(k)
  <2>1. PICK p \in Ahead(hash, 1) : TakeOut("unset", Without(hash, p), << >>)
    BY <1>3 DEF Delete
  <2>2. Thins(Without(hash, p), hash)
    BY <1>1, OneGoes
  <2> QED
    BY <1>2, <2>1, <2>2, TakeOutKeeps
<1>4. CASE Shift
  <2>1. PICK p : p = Min(Ahead(hash, 1))
    OBVIOUS
  <2>2. p \in Ahead(hash, 1) /\ TakeOut("shift", Without(hash, p), <<hash[p]>>)
    BY <1>1, <1>4, <2>1, EndsThere DEF Shift
  <2>3. Thins(Without(hash, p), hash) /\ <<hash[p]>> \in Seq(Elements)
    BY <1>1, <2>2, OneGoes
  <2> QED
    BY <2>2, <2>3, TakeOutKeeps
<1>5. CASE Pop
  <2>1. PICK p : p = Max(Ahead(hash, 1))
    OBVIOUS
  <2>2. p \in Ahead(hash, 1) /\ TakeOut("pop", Without(hash, p), <<hash[p]>>)
    BY <1>1, <1>5, <2>1, EndsThere DEF Pop
  <2>3. Thins(Without(hash, p), hash) /\ <<hash[p]>> \in Seq(Elements)
    BY <1>1, <2>2, OneGoes
  <2> QED
    BY <2>2, <2>3, TakeOutKeeps
<1>6. CASE \E n \in 1 .. Cardinality(Keys) : Chunk(n)
  <2>1. PICK n \in 1 .. Cardinality(Keys) : Chunk(n)
    BY <1>6
  <2>2. n \in Nat
    OBVIOUS
  <2>3. Taken(hash, n) \in Rounds /\ \E m : After(Taken(hash, n), hash, Packed(hash), n, m)
    BY <1>1, <2>2, TakenIs
  <2>4. Thins(Taken(hash, n).h, hash) /\ Taken(hash, n).got \in Seq(Elements)
    BY <2>3 DEF After, Rounds
  <2>5. TakeOut("chunk", Taken(hash, n).h, Taken(hash, n).got)
    BY <2>1 DEF Chunk
  <2> QED
    BY <2>4, <2>5, TakeOutKeeps
<1> QED
  BY <1>3, <1>4, <1>5, <1>6

-----------------------------------------------------------------------------
(* The steps of a loop.                                                    *)

LEMMA AheadWithin ==
  ASSUME NEW h \in Seq(Buckets), NEW p \in Nat \ {0}, NEW q \in Ahead(h, p)
  PROVE  /\ q \in 1 .. Len(h) /\ q \in Nat /\ p <= q /\ q \in Ahead(h, 1)
         /\ h[q] # Hole /\ h[q] \in Elements /\ h[q].id \in Nat /\ h[q].key \in Keys
<1>1. q \in 1 .. Len(h) /\ p <= q /\ h[q] # Hole /\ Len(h) \in Nat
  BY AheadIs, BucketIs
<1>2. 1 \in Nat \ {0} /\ 1 <= q /\ q \in Nat
  BY <1>1
<1>3. q \in Ahead(h, 1)
  BY <1>1, <1>2, AheadIs
<1>4. h[q] \in Elements
  BY <1>1, BucketIs
<1>5. h[q].id \in Nat /\ h[q].key \in Keys
  BY <1>4, MaxInsertsAssumption DEF Elements
<1> QED
  BY <1>1, <1>2, <1>3, <1>4, <1>5

\* A position in use is the first one from itself on.
LEMMA AheadFirst ==
  ASSUME NEW h \in Seq(Buckets), NEW p \in Ahead(h, 1)
  PROVE  /\ p \in Nat \ {0} /\ p \in Ahead(h, p) /\ Min(Ahead(h, p)) = p
<1>1. 1 \in Nat \ {0} /\ Len(h) \in Nat
  BY BucketIs
<1>2. p \in 1 .. Len(h) /\ h[p] # Hole /\ p \in Nat \ {0} /\ p <= p
  BY <1>1, AheadIs
<1>3. p \in Ahead(h, p)
  BY <1>2, AheadIs
<1>4. Min(Ahead(h, p)) \in Ahead(h, p) /\ Min(Ahead(h, p)) <= p
  BY <1>2, <1>3, EndsThere
<1>5. p <= Min(Ahead(h, p)) /\ Min(Ahead(h, p)) \in Nat
  BY <1>2, <1>4, AheadWithin
<1> QED
  BY <1>2, <1>3, <1>4, <1>5

\* pthreads_store_data, _key and _forward leave the table as it is.
LEMMA TableStays ==
  ASSUME TypeOK, UNCHANGED <<habits, tableVars>>,
         at' \in {"out", "fetch", "key", "body"}, position' \in Nat,
         data' \in Elements \cup {Hole}, key' \in Keys \cup {"", NullKey},
         visited' \in Seq(Elements), missed' \subseteq Elements
  PROVE  TypeOK'
<1>1. /\ habits' = habits /\ hash' = hash /\ size' = size /\ inserted' = inserted
      /\ returned' = returned
  BY DEF tableVars
<1>2. /\ habits \in Habits /\ hash \in Seq(Elements \cup {Hole})
      /\ size \in Nat /\ Len(hash) <= size /\ inserted \in 0 .. MaxInserts
      /\ returned.call \in {"none", "unset", "shift", "pop", "chunk"}
      /\ returned.got \in Seq(Elements)
  BY Zenon DEF TypeOK
<1> QED
  BY <1>1, <1>2, Zenon DEF TypeOK

LEMMA RewindKeeps ==
  ASSUME IterInv, UNCHANGED habits, Rewind
  PROVE  IterInv'
<1>1. TypeOK /\ TableInv /\ MeetInv
  BY DEF IterInv
<1>2. PICK e : e = << >>
  OBVIOUS
<1>3. e \in Seq(Elements) /\ Len(e) = 0 /\ \A i : i \notin 1 .. Len(e)
  <2>1. e \in Seq(Elements) /\ Len(e) = 0
    BY <1>2, EmptySeq
  <2>2. \A i : i \notin 1 .. 0
    OBVIOUS
  <2> QED
    BY <2>1, <2>2, Zenon
<1>4. /\ position' = FirstOf(Ahead(hash, 1)) /\ at' = "fetch" /\ visited' = e /\ missed' = {}
      /\ hash' = hash /\ size' = size /\ inserted' = inserted /\ data' = data /\ key' = key
      /\ habits' = habits /\ UNCHANGED tableVars
  BY <1>2 DEF Rewind, tableVars
<1>5. hash \in Seq(Buckets) /\ 1 \in Nat \ {0}
  BY <1>1, TypeFacts
<1>6. FirstOf(Ahead(hash, 1)) # 0 =>
        /\ FirstOf(Ahead(hash, 1)) \in Ahead(hash, 1)
        /\ \A q \in Ahead(hash, 1) : FirstOf(Ahead(hash, 1)) <= q
  BY <1>5, EndsThere DEF FirstOf, HT_INVALID_IDX
<1>7. \A q \in Ahead(hash, 1) : q \in Nat
  BY <1>5, AheadWithin
<1>8. position' \in Nat
  BY <1>4, <1>6, <1>7
<1>9. data \in Elements \cup {Hole} /\ key \in Keys \cup {"", NullKey}
  BY <1>1, Zenon DEF TypeOK
<1>10. TypeOK'
  <2>1. /\ at' \in {"out", "fetch", "key", "body"} /\ data' \in Elements \cup {Hole}
        /\ key' \in Keys \cup {"", NullKey} /\ visited' \in Seq(Elements) /\ missed' \subseteq Elements
    BY <1>3, <1>4, <1>9
  <2> QED
    BY <1>1, <1>4, <1>8, <2>1, TableStays
<1>11. TableInv'
  BY <1>1, <1>4 DEF TableInv
<1>12. VisitInv'
  BY <1>3, <1>4, Zenon DEF VisitInv, Above
<1>13. MeetInv'
  <2>1. Undisturbed' <=> Undisturbed
    BY <1>4, Zenon DEF Undisturbed
  <2>2. Undisturbed /\ "insertInLoop" \in habits => \A q \in 1 .. Len(hash) : hash[q] # Hole
    BY <1>1 DEF MeetInv
  <2>3. position' # 0 => position' \in Ahead(hash, 1) /\ MetBefore(hash, position', e)
    <3> SUFFICES ASSUME position' # 0
                 PROVE  position' \in Ahead(hash, 1) /\ MetBefore(hash, position', e)
      OBVIOUS
    <3>1. position' \in Ahead(hash, 1) /\ \A q \in Ahead(hash, 1) : position' <= q
      BY <1>4, <1>6
    <3>2. \A q \in Ahead(hash, 1) : ~(q < position')
      BY <1>7, <1>8, <3>1
    <3> QED
      BY <3>1, <3>2 DEF MetBefore
  <2> QED
    BY <1>4, <2>1, <2>2, <2>3, Zenon DEF MeetInv
<1>14. PairInv'
  BY <1>4 DEF PairInv
<1> QED
  BY <1>10, <1>11, <1>12, <1>13, <1>14 DEF IterInv

LEMMA FinishKeeps ==
  ASSUME IterInv, UNCHANGED habits, Finish
  PROVE  IterInv'
<1>1. TypeOK /\ TableInv /\ VisitInv /\ MeetInv
  BY DEF IterInv
<1>2. /\ at' = "out" /\ data' = Hole /\ key' = "" /\ position' = position
      /\ visited' = visited /\ missed' = missed
      /\ hash' = hash /\ size' = size /\ inserted' = inserted
      /\ habits' = habits /\ UNCHANGED tableVars
  BY DEF Finish, tableVars, histVars
<1>3. TypeOK'
  <2>1. position \in Nat /\ visited \in Seq(Elements) /\ missed \subseteq Elements
    BY <1>1, Zenon DEF TypeOK
  <2>2. /\ at' \in {"out", "fetch", "key", "body"} /\ data' \in Elements \cup {Hole}
        /\ key' \in Keys \cup {"", NullKey} /\ visited' \in Seq(Elements) /\ missed' \subseteq Elements
        /\ position' \in Nat
    BY <1>2, <2>1
  <2> QED
    BY <1>1, <1>2, <2>2, TableStays
<1>4. TableInv'
  BY <1>1, <1>2 DEF TableInv
<1>5. VisitInv'
  BY <1>1, <1>2 DEF VisitInv
<1>6. MeetInv'
  <2>1. Undisturbed' <=> Undisturbed
    BY <1>2, Zenon DEF Undisturbed
  <2>2. Undisturbed => /\ missed = {}
                       /\ "insertInLoop" \in habits => \A q \in 1 .. Len(hash) : hash[q] # Hole
    BY <1>1 DEF MeetInv
  <2>3. at' # "fetch" /\ at' \notin {"key", "body"}
    BY <1>2
  <2> QED
    BY <1>2, <2>1, <2>2, <2>3, Zenon DEF MeetInv
<1>7. PairInv'
  BY <1>2 DEF PairInv
<1> QED
  BY <1>3, <1>4, <1>5, <1>6, <1>7 DEF IterInv

LEMMA CurrentKeyKeeps ==
  ASSUME IterInv, UNCHANGED habits, CurrentKey
  PROVE  IterInv'
<1>1. TypeOK /\ TableInv /\ VisitInv /\ MeetInv /\ PairInv
  BY DEF IterInv
<1>2. /\ at = "key" /\ at' = "body" /\ data' = data /\ position' = position
      /\ key' = IF Ahead(hash, position) = {} THEN NullKey ELSE hash[Min(Ahead(hash, position))].key
      /\ visited' = visited /\ missed' = missed
      /\ hash' = hash /\ size' = size /\ inserted' = inserted
      /\ habits' = habits /\ UNCHANGED tableVars
  BY DEF CurrentKey, tableVars, histVars
<1>3. position \in Nat \ {0} /\ NotBelow(hash, position, visited) /\ hash \in Seq(Buckets)
  BY <1>1, <1>2, TypeFacts DEF VisitInv
<1>4. Ahead(hash, position) # {} =>
        /\ hash[Min(Ahead(hash, position))] # Hole
        /\ hash[Min(Ahead(hash, position))].key \in Keys
  BY <1>3, EndsThere, AheadWithin
<1>5. TypeOK'
  <2>1. /\ position \in Nat /\ visited \in Seq(Elements) /\ missed \subseteq Elements
        /\ data \in Elements \cup {Hole}
    BY <1>1, Zenon DEF TypeOK
  <2>2. /\ at' \in {"out", "fetch", "key", "body"} /\ data' \in Elements \cup {Hole}
        /\ visited' \in Seq(Elements) /\ missed' \subseteq Elements
        /\ position' \in Nat
    BY <1>2, <2>1
  <2>3. key' \in Keys \cup {"", NullKey}
    BY <1>2, <1>4
  <2> QED
    BY <1>1, <1>2, <2>2, <2>3, TableStays
<1>6. TableInv'
  BY <1>1, <1>2 DEF TableInv
<1>7. VisitInv'
  BY <1>1, <1>2, <1>3 DEF VisitInv
<1>8. Undisturbed' <=> Undisturbed
  BY <1>2, Zenon DEF Undisturbed
<1>9. Undisturbed => /\ missed = {}
                     /\ "insertInLoop" \in habits => \A q \in 1 .. Len(hash) : hash[q] # Hole
                     /\ position \in Ahead(hash, 1) /\ data = hash[position]
                     /\ MetBefore(hash, position + 1, visited)
  BY <1>1, <1>2 DEF MeetInv
<1>10. MeetInv'
  <2>1. at' # "fetch"
    BY <1>2
  <2> QED
    BY <1>2, <1>8, <1>9, <2>1, Zenon DEF MeetInv
<1>11. PairInv'
  <2>1. Undisturbed => data = Found(hash, position)
    BY <1>3, <1>9, AheadFirst DEF Found
  <2>2. "synchronized" \in habits => data = Found(hash, position)
    BY <1>1, <1>2 DEF PairInv
  <2>3. ASSUME data = Found(hash, position)
        PROVE  key' = IF data = Hole THEN NullKey ELSE data.key
    BY <1>2, <1>4, <2>3 DEF Found
  <2>4. Undisturbed \/ "synchronized" \in habits =>
          key' = IF data = Hole THEN NullKey ELSE data.key
    BY <2>1, <2>2, <2>3, Zenon
  <2>5. at' # "key"
    BY <1>2
  <2> QED
    BY <1>2, <1>8, <2>4, <2>5, Zenon DEF PairInv
<1> QED
  BY <1>5, <1>6, <1>7, <1>10, <1>11 DEF IterInv

LEMMA CurrentDataKeeps ==
  ASSUME IterInv, UNCHANGED habits, CurrentData
  PROVE  IterInv'
<1>1. TypeOK /\ TableInv /\ VisitInv /\ MeetInv
  BY DEF IterInv
<1>2. /\ at = "fetch" /\ at' = "key" /\ position # 0 /\ position' = position /\ key' = key
      /\ missed' = missed /\ hash' = hash /\ size' = size /\ inserted' = inserted
      /\ habits' = habits /\ UNCHANGED tableVars
  BY DEF CurrentData, tableVars, HT_INVALID_IDX
<1>3. /\ position \in Nat \ {0} /\ hash \in Seq(Buckets) /\ 1 \in Nat \ {0}
      /\ inserted \in Nat /\ visited \in Seq(Elements) /\ Len(visited) \in Nat
      /\ \A i \in 1 .. Len(visited) : visited[i] \in Elements /\ visited[i].id \in Nat
  BY <1>1, <1>2, TypeFacts
<1>4. /\ \A i, j \in 1 .. Len(visited) : i < j => visited[i].id < visited[j].id
      /\ \A i \in 1 .. Len(visited) : visited[i].id <= inserted
      /\ Above(hash, position, visited)
  BY <1>1, <1>2 DEF VisitInv
<1>5. Undisturbed' <=> Undisturbed
  BY <1>2, Zenon DEF Undisturbed
<1>6. Undisturbed => /\ missed = {}
                     /\ "insertInLoop" \in habits => \A q \in 1 .. Len(hash) : hash[q] # Hole
                     /\ position \in Ahead(hash, 1) /\ MetBefore(hash, position, visited)
  BY <1>1, <1>2 DEF MeetInv
<1>7. TableInv'
  BY <1>1, <1>2 DEF TableInv
<1>8. missed \subseteq Elements /\ key \in Keys \cup {"", NullKey}
  BY <1>1, Zenon DEF TypeOK
<1>9. CASE Ahead(hash, position) = {}
  <2>1. data' = Hole /\ visited' = visited
    BY <1>9 DEF CurrentData
  <2>2. TypeOK'
    <3>1. /\ at' \in {"out", "fetch", "key", "body"} /\ data' \in Elements \cup {Hole}
          /\ visited' \in Seq(Elements) /\ missed' \subseteq Elements
          /\ position' \in Nat /\ key' \in Keys \cup {"", NullKey}
      BY <1>2, <1>3, <1>8, <2>1
    <3> QED
      BY <1>1, <1>2, <3>1, TableStays
  <2>3. NotBelow(hash, position, visited)
    BY <1>9 DEF NotBelow
  <2>4. VisitInv'
    BY <1>2, <1>4, <2>1, <2>3 DEF VisitInv
  <2>5. ~Undisturbed
    BY <1>3, <1>6, <1>9, AheadFirst
  <2>6. MeetInv'
    BY <1>5, <2>5 DEF MeetInv
  <2>7. PairInv'
    <3>1. data' = Found(hash, position) /\ at' # "body"
      BY <1>2, <1>9, <2>1 DEF Found
    <3> QED
      BY <1>2, <3>1, Zenon DEF PairInv
  <2> QED
    BY <1>7, <2>2, <2>4, <2>6, <2>7 DEF IterInv
<1>10. CASE Ahead(hash, position) # {}
  <2>1. PICK m : m = Min(Ahead(hash, position))
    OBVIOUS
  <2>2. PICK d : d = hash[m]
    OBVIOUS
  <2>3. PICK v : v = Append(visited, d)
    OBVIOUS
  <2>4. data' = d /\ visited' = v
    BY <1>10, <2>1, <2>2, <2>3 DEF CurrentData
  <2>5. m \in Ahead(hash, position) /\ \A q \in Ahead(hash, position) : m <= q
    BY <1>3, <1>10, <2>1, EndsThere
  <2>6. /\ m \in Ahead(hash, 1) /\ m \in Nat /\ d \in Elements /\ d.id \in Nat
    BY <1>3, <2>2, <2>5, AheadWithin
  <2>7. /\ v \in Seq(Elements) /\ Len(v) = Len(visited) + 1
        /\ \A i \in 1 .. Len(visited) : v[i] = visited[i]
        /\ v[Len(visited) + 1] = d
    BY <1>3, <2>3, <2>6, AppendProperties
  <2>8. \A i \in 1 .. Len(v) : i \in 1 .. Len(visited) \/ i = Len(visited) + 1
    BY <1>3, <2>7
  <2>9. \A i \in 1 .. Len(visited) : v[i].id < d.id /\ v[i].id \in Nat
    BY <1>3, <1>4, <2>2, <2>5, <2>7 DEF Above
  <2>10. TypeOK'
    <3>1. /\ at' \in {"out", "fetch", "key", "body"} /\ data' \in Elements \cup {Hole}
          /\ visited' \in Seq(Elements) /\ missed' \subseteq Elements
          /\ position' \in Nat /\ key' \in Keys \cup {"", NullKey}
      BY <1>2, <1>3, <1>8, <2>4, <2>6, <2>7
    <3> QED
      BY <1>1, <1>2, <3>1, TableStays
  <2>11. \A i, j \in 1 .. Len(v) : i < j => v[i].id < v[j].id
    <3> SUFFICES ASSUME NEW i \in 1 .. Len(v), NEW j \in 1 .. Len(v), i < j PROVE v[i].id < v[j].id
      OBVIOUS
    <3>1. i \in 1 .. Len(visited)
      BY <1>3, <2>7
    <3>2. CASE j \in 1 .. Len(visited)
      BY <1>4, <2>7, <3>1, <3>2
    <3>3. CASE j = Len(visited) + 1
      BY <2>7, <2>9, <3>1, <3>3
    <3> QED
      BY <2>8, <3>2, <3>3
  <2>12. d.id <= inserted
    BY <1>1, <2>2, <2>6 DEF TableInv, HashSorted
  <2>13. \A i \in 1 .. Len(v) : v[i].id <= inserted
    BY <1>4, <2>7, <2>8, <2>12
  <2>14. NotBelow(hash, position, v)
    <3> SUFFICES ASSUME NEW q \in Ahead(hash, position), NEW i \in 1 .. Len(v)
                 PROVE  v[i].id <= hash[q].id
      BY DEF NotBelow
    <3>1. q \in Nat /\ hash[q].id \in Nat /\ q \in Ahead(hash, 1)
      BY <1>3, AheadWithin
    <3>2. m <= q
      BY <2>5
    <3>3. d.id <= hash[q].id
      <4>1. CASE m = q
        BY <2>2, <2>6, <4>1
      <4>2. CASE m < q
        <5>1. hash[m].id < hash[q].id
          BY <1>1, <2>6, <3>1, <4>2 DEF TableInv, HashSorted
        <5> QED
          BY <2>2, <2>6, <3>1, <5>1
      <4> QED
        BY <2>6, <3>1, <3>2, <4>1, <4>2
    <3>4. v[i].id <= d.id /\ v[i].id \in Nat
      BY <2>6, <2>7, <2>8, <2>9
    <3> QED
      BY <2>6, <3>1, <3>3, <3>4
  <2>15. VisitInv'
    BY <1>2, <2>4, <2>11, <2>13, <2>14 DEF VisitInv
  <2>16. ASSUME Undisturbed
         PROVE  d = hash[position] /\ MetBefore(hash, position + 1, v)
    <3>1. m = position
      BY <1>3, <1>6, <2>1, <2>16, AheadFirst
    <3>2. ASSUME NEW q \in Ahead(hash, 1), q < position + 1
          PROVE  \E i \in 1 .. Len(v) : v[i] = hash[q]
      <4>1. q \in Nat
        BY <1>3, AheadWithin
      <4>2. CASE q < position
        <5>1. PICK i \in 1 .. Len(visited) : visited[i] = hash[q]
          BY <1>6, <2>16, <4>2 DEF MetBefore
        <5>2. i \in 1 .. Len(v) /\ v[i] = hash[q]
          BY <1>3, <2>7, <5>1
        <5> QED
          BY <5>2
      <4>3. CASE q = position
        <5>1. Len(visited) + 1 \in 1 .. Len(v)
          BY <1>3, <2>7
        <5> QED
          BY <2>2, <2>7, <3>1, <4>3, <5>1
      <4> QED
        BY <1>3, <3>2, <4>1, <4>2, <4>3
    <3> QED
      BY <2>2, <3>1, <3>2 DEF MetBefore
  <2>17. MeetInv'
    <3>1. at' # "fetch"
      BY <1>2
    <3> QED
      BY <1>2, <1>5, <1>6, <2>4, <2>16, <3>1, Zenon DEF MeetInv
  <2>18. PairInv'
    <3>1. data' = Found(hash, position) /\ at' # "body"
      BY <1>2, <1>10, <2>1, <2>2, <2>4 DEF Found
    <3> QED
      BY <1>2, <3>1, Zenon DEF PairInv
  <2> QED
    BY <1>7, <2>10, <2>15, <2>17, <2>18 DEF IterInv
<1> QED
  BY <1>9, <1>10

LEMMA MoveForwardKeeps ==
  ASSUME IterInv, UNCHANGED habits, MoveForward
  PROVE  IterInv'
<1>1. TypeOK /\ TableInv /\ VisitInv /\ MeetInv
  BY DEF IterInv
<1>2. PICK A : A = Ahead(hash, position)
  OBVIOUS
<1>3. PICK B : B = A \ {FirstOf(A)}
  OBVIOUS
<1>4. PICK n : n = FirstOf(B)
  OBVIOUS
<1>5. /\ at = "body" /\ at' = "fetch" /\ position' = n /\ data' = data /\ key' = key
      /\ visited' = visited /\ hash' = hash /\ size' = size /\ inserted' = inserted
      /\ habits' = habits /\ UNCHANGED tableVars
      /\ missed' = IF n = 0 THEN {hash[q] : q \in Ahead(hash, 1)} \ Range(visited) ELSE {}
  BY <1>2, <1>3, <1>4 DEF MoveForward, Ending, tableVars, HT_INVALID_IDX
<1>6. /\ position \in Nat \ {0} /\ hash \in Seq(Buckets) /\ 1 \in Nat \ {0}
      /\ NotBelow(hash, position, visited)
      /\ visited \in Seq(Elements) /\ Len(visited) \in Nat /\ DOMAIN visited = 1 .. Len(visited)
      /\ \A i \in 1 .. Len(visited) : visited[i] \in Elements /\ visited[i].id \in Nat
  BY <1>1, <1>5, TypeFacts DEF VisitInv
<1>7. \A q \in A : /\ q \in Nat \ {0} /\ position <= q /\ q \in Ahead(hash, 1)
                   /\ hash[q] \in Elements /\ hash[q].id \in Nat
  BY <1>2, <1>6, AheadWithin
<1>8. A # {} => FirstOf(A) \in A /\ \A q \in A : FirstOf(A) <= q
  BY <1>2, <1>6, EndsThere DEF FirstOf
<1>9. /\ B = {} => n = 0
      /\ B # {} => n \in B /\ \A q \in B : n <= q
  <2>1. B \in SUBSET Nat
    BY <1>3, <1>7
  <2> QED
    BY <1>4, <2>1, LeastIs DEF FirstOf, HT_INVALID_IDX
<1>10. n # 0 => /\ n \in A /\ n # FirstOf(A) /\ FirstOf(A) \in A /\ FirstOf(A) < n
                /\ \A q \in B : n <= q
  BY <1>3, <1>7, <1>8, <1>9
<1>11. n \in Nat
  BY <1>7, <1>10
<1>12. TypeOK'
  <2>1. data \in Elements \cup {Hole} /\ key \in Keys \cup {"", NullKey}
    BY <1>1, Zenon DEF TypeOK
  <2>2. \A q \in Ahead(hash, 1) : hash[q] \in Elements
    BY <1>6, AheadWithin
  <2>3. missed' \subseteq Elements
    BY <1>5, <2>2
  <2>4. /\ at' \in {"out", "fetch", "key", "body"} /\ data' \in Elements \cup {Hole}
        /\ visited' \in Seq(Elements)
        /\ position' \in Nat /\ key' \in Keys \cup {"", NullKey}
    BY <1>5, <1>6, <1>11, <2>1
  <2> QED
    BY <1>1, <1>5, <2>3, <2>4, TableStays
<1>13. TableInv'
  BY <1>1, <1>5 DEF TableInv
<1>14. ASSUME n # 0 PROVE Above(hash, n, visited)
  <2> SUFFICES ASSUME NEW q \in Ahead(hash, n), NEW i \in 1 .. Len(visited)
               PROVE  visited[i].id < hash[q].id
    BY DEF Above
  <2>1. PICK m : m = FirstOf(A)
    OBVIOUS
  <2>2. m \in A /\ m < n /\ n \in Nat \ {0} /\ m \in Nat /\ m \in Ahead(hash, 1) /\ hash[m].id \in Nat
    BY <1>7, <1>10, <1>14, <2>1
  <2>3. q \in Nat /\ n <= q /\ q \in Ahead(hash, 1) /\ hash[q].id \in Nat
    BY <1>6, <2>2, AheadWithin
  <2>4. m < q
    BY <2>2, <2>3
  <2>5. hash[m].id < hash[q].id
    BY <1>1, <2>2, <2>3, <2>4 DEF TableInv, HashSorted
  <2>6. visited[i].id <= hash[m].id
    BY <1>2, <1>6, <2>2 DEF NotBelow
  <2> QED
    BY <1>6, <2>2, <2>3, <2>5, <2>6
<1>15. VisitInv'
  <2>1. /\ \A i, j \in 1 .. Len(visited) : i < j => visited[i].id < visited[j].id
        /\ \A i \in 1 .. Len(visited) : visited[i].id <= inserted
    BY <1>1 DEF VisitInv
  <2>2. at' \notin {"key", "body"}
    BY <1>5
  <2> QED
    BY <1>5, <1>14, <2>1, <2>2, Zenon DEF VisitInv
<1>16. Undisturbed' <=> Undisturbed
  BY <1>5, Zenon DEF Undisturbed
<1>17. Undisturbed => /\ "insertInLoop" \in habits => \A q \in 1 .. Len(hash) : hash[q] # Hole
                      /\ position \in Ahead(hash, 1)
                      /\ MetBefore(hash, position + 1, visited)
  BY <1>1, <1>5 DEF MeetInv
<1>18. ASSUME Undisturbed
       PROVE  /\ n # 0 => n \in Ahead(hash, 1) /\ MetBefore(hash, n, visited)
              /\ missed' = {}
  <2>1. FirstOf(A) = position
    BY <1>2, <1>6, <1>17, <1>18, AheadFirst DEF FirstOf
  <2>2. ASSUME NEW q \in Ahead(hash, 1), q \notin B
        PROVE  \E i \in 1 .. Len(visited) : visited[i] = hash[q]
    <3>1. q \in Nat \ {0} /\ q \in 1 .. Len(hash) /\ hash[q] # Hole
      BY <1>6, AheadWithin
    <3>2. ~(position < q)
      <4> SUFFICES ASSUME position < q PROVE FALSE
        OBVIOUS
      <4>1. position <= q /\ q # position
        BY <1>6, <3>1
      <4>2. q \in A
        BY <1>2, <1>6, <3>1, <4>1, AheadIs
      <4> QED
        BY <1>3, <2>1, <2>2, <4>1, <4>2
    <3>3. q < position + 1
      BY <1>6, <3>1, <3>2
    <3> QED
      BY <1>17, <1>18, <3>3 DEF MetBefore
  <2>3. ASSUME n # 0 PROVE n \in Ahead(hash, 1) /\ MetBefore(hash, n, visited)
    <3>1. n \in Ahead(hash, 1)
      BY <1>7, <1>10, <2>3
    <3>2. ASSUME NEW q \in Ahead(hash, 1), q < n PROVE q \notin B
      <4>1. q \in Nat
        BY <1>6, AheadWithin
      <4> QED
        BY <1>10, <1>11, <2>3, <3>2, <4>1
    <3> QED
      BY <2>2, <3>1, <3>2 DEF MetBefore
  <2>4. ASSUME n = 0 PROVE {hash[q] : q \in Ahead(hash, 1)} \ Range(visited) = {}
    <3>1. B = {}
      BY <1>3, <1>7, <1>9, <2>4
    <3>2. \A q \in Ahead(hash, 1) : \E i \in 1 .. Len(visited) : visited[i] = hash[q]
      BY <2>2, <3>1
    <3>3. \A q \in Ahead(hash, 1) : hash[q] \in Range(visited)
      BY <1>6, <3>2 DEF Range
    <3> QED
      BY <3>3
  <2> QED
    BY <1>5, <2>3, <2>4
<1>19. MeetInv'
  <2>1. at' \notin {"key", "body"}
    BY <1>5
  <2>2. Undisturbed =>
          /\ n # 0 => n \in Ahead(hash, 1) /\ MetBefore(hash, n, visited)
          /\ missed' = {}
    BY <1>18, Zenon
  <2> QED
    BY <1>5, <1>16, <1>17, <2>1, <2>2, Zenon DEF MeetInv
<1>20. PairInv'
  BY <1>5 DEF PairInv
<1> QED
  BY <1>12, <1>13, <1>15, <1>19, <1>20 DEF IterInv

-----------------------------------------------------------------------------
(* The invariants.                                                         *)

LEMMA IterInvKept ==
  ASSUME IterInv, [Next]_vars
  PROVE  IterInv'
<1>1. CASE UNCHANGED vars
  <2>1. /\ habits' = habits /\ hash' = hash /\ size' = size /\ inserted' = inserted
        /\ returned' = returned /\ at' = at /\ position' = position /\ data' = data
        /\ key' = key /\ visited' = visited /\ missed' = missed
    BY <1>1 DEF vars, tableVars, iterVars, histVars
  <2>2. TypeOK' <=> TypeOK
    BY <2>1, Zenon DEF TypeOK
  <2>3. (TableInv' <=> TableInv) /\ (VisitInv' <=> VisitInv)
    BY <2>1 DEF TableInv, VisitInv
  <2>4. MeetInv' <=> MeetInv
    BY <2>1, Zenon DEF MeetInv, Undisturbed
  <2>5. PairInv' <=> PairInv
    BY <2>1, Zenon DEF PairInv, Undisturbed
  <2> QED
    BY <2>2, <2>3, <2>4, <2>5 DEF IterInv
<1>2. CASE Next
  <2>1. UNCHANGED habits /\ (Change \/ Loop)
    BY <1>2 DEF Next
  <2>2. ASSUME NEW k \in Keys, Insert(k) PROVE IterInv'
    BY <2>1, <2>2, InsertKeeps
  <2>3. ASSUME (\E k \in Keys : Delete(k)) \/ Shift \/ Pop \/ \E n \in 1 .. Cardinality(Keys) : Chunk(n)
        PROVE  IterInv'
    BY <2>1, <2>3, RemovalKeeps
  <2>4. CASE Change
    BY <2>2, <2>3, <2>4 DEF Change
  <2>5. CASE Loop
    BY <2>1, <2>5, RewindKeeps, CurrentDataKeeps, CurrentKeyKeeps, MoveForwardKeeps, FinishKeeps DEF Loop
  <2> QED
    BY <2>1, <2>4, <2>5
<1> QED
  BY <1>1, <1>2

LEMMA IterInvAlways == Spec => []IterInv
<1>1. Init => IterInv
  BY IterInvInit
<1>2. IterInv /\ [Next]_vars => IterInv'
  BY IterInvKept
<1> QED
  BY <1>1, <1>2, PTL DEF Spec

\* A foreach over a Threaded object meets its elements in the order of their
\* insertion and none of them twice, whatever is inserted, removed, compacted
\* or enlarged between the critical sections of pthreads_store_data and
\* pthreads_store_forward; an undisturbed one ends only when it has met all.
THEOREM LoopAlwaysMeetsAll == Spec => []LoopMeetsAll
<1>1. IterInv => LoopMeetsAll
  <2> SUFFICES ASSUME IterInv PROVE LoopMeetsAll
    OBVIOUS
  <2>1. DOMAIN visited = 1 .. Len(visited)
    BY TypeFacts DEF IterInv
  <2> QED
    BY <2>1 DEF IterInv, VisitInv, MeetInv, LoopMeetsAll
<1> QED
  BY <1>1, IterInvAlways, PTL

\* The key that pthreads_store_key and the value that pthreads_store_data give
\* one round of an undisturbed loop, or of one inside synchronized(), belong
\* together; and every state has its type.
THEOREM PairAlwaysMatches == Spec => []PairMatches
<1>1. IterInv => PairMatches
  BY DEF IterInv, PairInv, PairMatches
<1> QED
  BY <1>1, IterInvAlways, PTL

-----------------------------------------------------------------------------
(* The table implements the sequence of its elements.                      *)

LEMMA AppendFront ==
  ASSUME NEW s \in Seq(Elements), NEW e \in Elements
  PROVE  Append(s, e) # << >> /\ Front(Append(s, e)) = s /\ Last(Append(s, e)) = e
<1>1. Len(s) \in Nat
  BY LenProperties
<1>2. PICK t, a : t = Append(s, e) /\ a = SubSeq(t, 1, Len(t) - 1)
  OBVIOUS
<1>3. /\ t \in Seq(Elements) /\ t # << >> /\ Len(t) = Len(s) + 1
      /\ \A k \in 1 .. Len(s) : t[k] = s[k]
      /\ t[Len(s) + 1] = e
  BY <1>2, AppendProperties
<1>4. 1 \in Int /\ Len(t) - 1 \in Int /\ \A k \in 1 .. Len(t) - 1 : k \in 1 .. Len(t)
  BY <1>1, <1>3
<1>5. \A k \in 1 .. Len(t) - 1 : t[k] \in Elements
  BY <1>3, <1>4, ElementOfSeq
<1>6. /\ a \in Seq(Elements) /\ Len(a) = (IF 1 <= Len(t) - 1 THEN (Len(t) - 1) - 1 + 1 ELSE 0)
      /\ \A k \in 1 .. (Len(t) - 1) - 1 + 1 : a[k] = t[1 + k - 1]
  BY <1>2, <1>3, <1>4, <1>5, SubSeqProperties
<1>7. Len(a) = Len(s) /\ \A k \in 1 .. Len(a) : a[k] = s[k]
  BY <1>1, <1>3, <1>6
<1>8. a = s
  BY <1>6, <1>7, SeqEqual
<1>9. Front(t) = a /\ Last(t) = e
  BY <1>2, <1>3 DEF Front, Last
<1> QED
  BY <1>2, <1>3, <1>8, <1>9

\* The two parts of a cut are the subsequences before and behind it.
LEMMA CutIs ==
  ASSUME NEW s \in Seq(Elements), NEW a, NEW b, NEW m, Cut(s, a, b, m)
  PROVE  a = SubSeq(s, 1, m) /\ b = SubSeq(s, m + 1, Len(s))
<1>1. /\ a \in Seq(Elements) /\ b \in Seq(Elements) /\ m \in 0 .. Len(s)
      /\ Len(a) = m /\ Len(b) = Len(s) - m
      /\ \A i \in 1 .. m : a[i] = s[i]
      /\ \A i \in 1 .. Len(s) - m : b[i] = s[m + i]
  BY DEF Cut
<1>2. Len(s) \in Nat /\ \A n \in 1 .. Len(s) : s[n] \in Elements
  BY LenProperties, ElementOfSeq
<1>3. PICK c, d : c = SubSeq(s, 1, m) /\ d = SubSeq(s, m + 1, Len(s))
  OBVIOUS
<1>4. /\ 1 \in Int /\ m \in Int /\ m + 1 \in Int /\ Len(s) \in Int /\ m \in Nat
      /\ (\A n \in 1 .. m : n \in 1 .. Len(s)) /\ (\A n \in m + 1 .. Len(s) : n \in 1 .. Len(s))
  BY <1>1, <1>2
<1>5. /\ c \in Seq(Elements) /\ Len(c) = (IF 1 <= m THEN m - 1 + 1 ELSE 0)
      /\ \A i \in 1 .. m - 1 + 1 : c[i] = s[1 + i - 1]
  BY <1>2, <1>3, <1>4, SubSeqProperties
<1>6. Len(c) = Len(a) /\ \A i \in 1 .. Len(c) : c[i] = a[i]
  <2>1. Len(c) = m
    BY <1>4, <1>5
  <2>2. ASSUME NEW i \in 1 .. m PROVE c[i] = a[i]
    <3>1. i \in 1 .. m - 1 + 1 /\ 1 + i - 1 = i
      BY <1>4
    <3>2. c[i] = s[i]
      BY <1>5, <3>1
    <3> QED
      BY <1>1, <3>2
  <2> QED
    BY <1>1, <2>1, <2>2
<1>7. /\ d \in Seq(Elements) /\ Len(d) = (IF m + 1 <= Len(s) THEN Len(s) - (m + 1) + 1 ELSE 0)
      /\ \A i \in 1 .. Len(s) - (m + 1) + 1 : d[i] = s[(m + 1) + i - 1]
  BY <1>2, <1>3, <1>4, SubSeqProperties
<1>8. Len(d) = Len(b) /\ \A i \in 1 .. Len(d) : d[i] = b[i]
  <2>1. Len(d) = Len(s) - m
    BY <1>1, <1>2, <1>4, <1>7
  <2>2. ASSUME NEW i \in 1 .. Len(s) - m PROVE d[i] = b[i]
    <3>1. i \in 1 .. Len(s) - (m + 1) + 1 /\ (m + 1) + i - 1 = m + i
      BY <1>2, <1>4
    <3>2. d[i] = s[m + i]
      BY <1>7, <3>1
    <3> QED
      BY <1>1, <3>2
  <2> QED
    BY <1>1, <2>1, <2>2
<1>9. c = a /\ d = b
  BY <1>1, <1>5, <1>6, <1>7, <1>8, SeqEqual
<1> QED
  BY <1>3, <1>9

LEMMA TailRemoves ==
  ASSUME NEW s \in Seq(Elements), 1 \in 1 .. Len(s)
  PROVE  s # << >> /\ Head(s) = s[1] /\ Tail(s) = RemoveAt(s, 1)
<1>1. Len(s) \in Nat
  BY LenProperties
<1>2. s # << >>
  BY <1>1, EmptySeq
<1>3. PICK a, b : a = Tail(s) /\ b = RemoveAt(s, 1)
  OBVIOUS
<1>4. /\ a \in Seq(Elements) /\ Len(a) = Len(s) - 1
      /\ \A i \in 1 .. Len(a) : a[i] = s[i + 1]
  BY <1>2, <1>3, HeadTailProperties
<1>5. /\ b \in Seq(Elements) /\ Len(b) = Len(s) - 1
      /\ \A n \in 1 .. Len(s) - 1 : b[n] = IF n < 1 THEN s[n] ELSE s[n + 1]
  BY <1>3, RemoveAtIs
<1>6. \A i \in 1 .. Len(a) : a[i] = b[i]
  BY <1>1, <1>4, <1>5
<1>7. a = b
  BY <1>4, <1>5, <1>6, SeqEqual
<1> QED
  BY <1>2, <1>3, <1>7, HeadTailProperties

LEMMA FrontRemoves ==
  ASSUME NEW s \in Seq(Elements), Len(s) \in 1 .. Len(s)
  PROVE  s # << >> /\ Last(s) = s[Len(s)] /\ Front(s) = RemoveAt(s, Len(s))
<1>1. Len(s) \in Nat /\ \A n \in 1 .. Len(s) : s[n] \in Elements
  BY LenProperties, ElementOfSeq
<1>2. s # << >>
  BY <1>1, EmptySeq
<1>3. PICK a, b : a = SubSeq(s, 1, Len(s) - 1) /\ b = RemoveAt(s, Len(s))
  OBVIOUS
<1>4. 1 \in Int /\ Len(s) - 1 \in Int /\ \A n \in 1 .. Len(s) - 1 : n \in 1 .. Len(s)
  BY <1>1
<1>5. /\ a \in Seq(Elements) /\ Len(a) = (IF 1 <= Len(s) - 1 THEN (Len(s) - 1) - 1 + 1 ELSE 0)
      /\ \A k \in 1 .. (Len(s) - 1) - 1 + 1 : a[k] = s[1 + k - 1]
  BY <1>1, <1>3, <1>4, SubSeqProperties
<1>6. /\ b \in Seq(Elements) /\ Len(b) = Len(s) - 1
      /\ \A n \in 1 .. Len(s) - 1 : b[n] = IF n < Len(s) THEN s[n] ELSE s[n + 1]
  BY <1>3, RemoveAtIs
<1>7. Len(a) = Len(b) /\ \A i \in 1 .. Len(a) : a[i] = b[i]
  BY <1>1, <1>5, <1>6
<1>8. a = b
  BY <1>5, <1>6, <1>7, SeqEqual
<1> QED
  BY <1>2, <1>3, <1>8 DEF Front, Last

\* The sequence the table implements.
Now == Packed(hash)

LEMMA InsertSimulates ==
  ASSUME IterInv, NEW k \in Keys, Insert(k)
  PROVE  Order!Insert
<1>1. TypeOK /\ TableInv
  BY DEF IterInv
<1>2. hash \in Seq(Buckets) /\ 1 \in Nat \ {0}
  BY <1>1, TypeFacts
<1>3. PICK t, e : e \in Elements /\ e.key = k /\ e.id = inserted + 1 /\ Placed(t, e)
  BY <1>1, InsertIs, Zenon
<1>4. /\ t \in Seq(Buckets) /\ hash' = Append(t, e)
      /\ ((t = hash) \/ t = Packed(hash))
  BY <1>3 DEF Placed
<1>5. Packed(hash) \in Seq(Elements)
  BY <1>2, PackedStems
<1>6. Packed(t) = Packed(hash)
  BY <1>4, <1>5, PackedAlready
<1>7. Packed(Append(t, e)) = Append(Packed(t), e)
  BY <1>3, <1>4, PackedAppend
<1>8. Now' = Append(Now, e) /\ Now \in Seq(Elements)
  <2>1. Packed(hash)' = Packed(Append(t, e))
    BY <1>4
  <2> QED
    BY <1>5, <1>6, <1>7, <2>1 DEF Now
<1>9. Now' # << >> /\ Front(Now') = Now /\ Last(Now') = e
  BY <1>3, <1>8, AppendFront
<1>10. \A i \in DOMAIN Now : Now[i].key # e.key
  <2> SUFFICES ASSUME NEW i \in DOMAIN Now PROVE Now[i].key # k
    BY <1>3
  <2>1. PICK f : Enumerates(f, Now, hash, Len(hash))
    BY <1>2, PackedIs DEF Now
  <2>2. i \in 1 .. Len(Now)
    BY <1>8, LenProperties
  <2>3. f[i] \in 1 .. Len(hash) /\ Now[i] = hash[f[i]] /\ hash[f[i]] # Hole
    BY <2>1, <2>2 DEF Enumerates
  <2>4. Len(hash) \in Nat /\ 1 <= f[i]
    BY <1>2, <2>3, BucketIs
  <2>5. f[i] \in Ahead(hash, 1)
    BY <1>2, <2>3, <2>4, AheadIs
  <2>6. hash[f[i]].key # k
    BY <2>5 DEF Insert
  <2> QED
    BY <2>3, <2>6
<1>11. returned' = returned
  BY DEF Insert
<1> QED
  BY <1>9, <1>10, <1>11 DEF Order!Insert, Order!Front, Front, Order!Last, Last, Now

LEMMA DeleteSimulates ==
  ASSUME IterInv, NEW k \in Keys, Delete(k)
  PROVE  Order!Unset
<1>1. hash \in Seq(Buckets) /\ 1 \in Nat \ {0}
  BY TypeFacts DEF IterInv
<1>2. PICK p \in Ahead(hash, 1) : TakeOut("unset", Without(hash, p), << >>)
  BY DEF Delete
<1>3. hash' = Without(hash, p) /\ returned' = [call |-> "unset", got |-> << >>]
  BY <1>2 DEF TakeOut
<1>4. PICK f : Enumerates(f, Packed(hash), hash, Len(hash))
  BY <1>1, PackedIs
<1>5. p \in 1 .. Len(hash) /\ hash[p] # Hole
  BY <1>1, AheadIs
<1>6. PICK i \in 1 .. Len(Packed(hash)) : f[i] = p
  BY <1>4, <1>5 DEF Enumerates
<1>7. Loses(Without(hash, p), hash, f[i])
  BY <1>1, <1>5, <1>6, WithoutIs
<1>8. Packed(Without(hash, p)) = RemoveAt(Packed(hash), i)
  BY <1>1, <1>4, <1>7, PackedLoses
<1>9. Now' = RemoveAt(Now, i)
  BY <1>3, <1>8 DEF Now
<1>10. i \in DOMAIN Now
  <2>1. Now \in Seq(Elements)
    BY <1>4 DEF Enumerates, Now
  <2> QED
    BY <1>6, <2>1, LenProperties DEF Now
<1> QED
  BY <1>3, <1>9, <1>10 DEF Order!Unset, Order!RemoveAt, RemoveAt, Now

LEMMA ShiftSimulates ==
  ASSUME IterInv, Shift
  PROVE  Order!Shift
<1>1. hash \in Seq(Buckets) /\ Ahead(hash, 1) # {}
  BY TypeFacts DEF IterInv, Shift
<1>2. PICK p : p = Min(Ahead(hash, 1))
  OBVIOUS
<1>3. hash' = Without(hash, p) /\ returned' = [call |-> "shift", got |-> <<hash[p]>>]
  BY <1>2 DEF Shift, TakeOut
<1>4. PICK f : Enumerates(f, Packed(hash), hash, Len(hash))
  BY <1>1, PackedIs
<1>5. PICK s : s = Packed(hash)
  OBVIOUS
<1>6. s \in Seq(Elements) /\ 1 \in 1 .. Len(s) /\ p = f[1] /\ hash[p] = s[1]
  BY <1>1, <1>2, <1>4, <1>5, EndsAre
<1>7. p \in 1 .. Len(hash)
  BY <1>4, <1>5, <1>6 DEF Enumerates
<1>8. Loses(Without(hash, p), hash, f[1])
  BY <1>1, <1>6, <1>7, WithoutIs
<1>9. Packed(Without(hash, p)) = RemoveAt(s, 1)
  BY <1>1, <1>4, <1>5, <1>6, <1>8, PackedLoses
<1>10. s # << >> /\ Head(s) = s[1] /\ Tail(s) = RemoveAt(s, 1)
  BY <1>6, TailRemoves
<1>11. Now = s /\ Now' = Tail(s)
  BY <1>3, <1>5, <1>9, <1>10 DEF Now
<1>12. Now # << >> /\ Now' = Tail(Now) /\ returned' = [call |-> "shift", got |-> <<Head(Now)>>]
  BY <1>3, <1>6, <1>10, <1>11
<1> QED
  BY <1>12 DEF Order!Shift, Now

LEMMA PopSimulates ==
  ASSUME IterInv, Pop
  PROVE  Order!Pop
<1>1. hash \in Seq(Buckets) /\ Ahead(hash, 1) # {}
  BY TypeFacts DEF IterInv, Pop
<1>2. PICK p : p = Max(Ahead(hash, 1))
  OBVIOUS
<1>3. hash' = Without(hash, p) /\ returned' = [call |-> "pop", got |-> <<hash[p]>>]
  BY <1>2 DEF Pop, TakeOut
<1>4. PICK f : Enumerates(f, Packed(hash), hash, Len(hash))
  BY <1>1, PackedIs
<1>5. PICK s : s = Packed(hash)
  OBVIOUS
<1>6. s \in Seq(Elements) /\ Len(s) \in 1 .. Len(s) /\ p = f[Len(s)] /\ hash[p] = s[Len(s)]
  BY <1>1, <1>2, <1>4, <1>5, EndsAre
<1>7. p \in 1 .. Len(hash)
  BY <1>4, <1>5, <1>6 DEF Enumerates
<1>8. Loses(Without(hash, p), hash, f[Len(s)])
  BY <1>1, <1>6, <1>7, WithoutIs
<1>9. Packed(Without(hash, p)) = RemoveAt(s, Len(s))
  BY <1>1, <1>4, <1>5, <1>6, <1>8, PackedLoses
<1>10. s # << >> /\ Last(s) = s[Len(s)] /\ Front(s) = RemoveAt(s, Len(s))
  BY <1>6, FrontRemoves
<1>11. Now = s /\ Now' = Front(s)
  BY <1>3, <1>5, <1>9, <1>10 DEF Now
<1>12. Now # << >> /\ Now' = Front(Now) /\ returned' = [call |-> "pop", got |-> <<Last(Now)>>]
  BY <1>3, <1>6, <1>10, <1>11
<1> QED
  BY <1>12 DEF Order!Pop, Order!Front, Front, Order!Last, Last, Now

LEMMA ChunkSimulates ==
  ASSUME IterInv, NEW n \in 1 .. Cardinality(Keys), Chunk(n)
  PROVE  Order!Chunk
<1>1. hash \in Seq(Buckets) /\ Ahead(hash, 1) # {} /\ Trimmed(hash)
  BY TypeFacts DEF IterInv, TableInv, Chunk
<1>2. n \in Nat /\ n > 0
  OBVIOUS
<1>3. PICK r, s : r = Taken(hash, n) /\ s = Packed(hash)
  OBVIOUS
<1>4. hash' = r.h /\ returned' = [call |-> "chunk", got |-> r.got]
  BY <1>3 DEF Chunk, TakeOut
<1>5. PICK m : After(r, hash, s, n, m)
  BY <1>1, <1>2, <1>3, TakenIs
<1>6. Cut(s, r.got, Packed(r.h), m) /\ (n > 0 /\ Len(s) > 0 => m > 0)
  BY <1>5 DEF After
<1>7. PICK f : Enumerates(f, Packed(hash), hash, Len(hash))
  BY <1>1, PackedIs
<1>8. s \in Seq(Elements) /\ 1 \in 1 .. Len(s) /\ Len(s) \in Nat
  <2>1. s \in Seq(Elements) /\ 1 \in 1 .. Len(s)
    BY <1>1, <1>3, <1>7, EndsAre
  <2> QED
    BY <2>1, LenProperties
<1>9. m \in 1 .. Len(s)
  <2>1. m \in 0 .. Len(s)
    BY <1>6 DEF Cut
  <2>2. Len(s) > 0
    BY <1>8
  <2> QED
    BY <1>2, <1>6, <1>8, <2>1, <2>2
<1>10. r.got = SubSeq(s, 1, m) /\ Packed(r.h) = SubSeq(s, m + 1, Len(s))
  BY <1>6, <1>8, CutIs
<1>11. Now = s /\ Now' = SubSeq(s, m + 1, Len(s))
  BY <1>3, <1>4, <1>10 DEF Now
<1>12. /\ m \in 1 .. Len(Now) /\ Now' = SubSeq(Now, m + 1, Len(Now))
       /\ returned' = [call |-> "chunk", got |-> SubSeq(Now, 1, m)]
  BY <1>4, <1>9, <1>10, <1>11
<1> QED
  BY <1>12 DEF Order!Chunk, Now

LEMMA TableSimulates ==
  ASSUME IterInv, [Next]_vars
  PROVE  [Order!Next]_<<Now, returned>>
<1>1. ASSUME UNCHANGED tableVars PROVE UNCHANGED <<Now, returned>>
  BY <1>1 DEF tableVars, Now
<1>2. CASE UNCHANGED vars
  BY <1>1, <1>2 DEF vars
<1>3. CASE Next
  <2>1. CASE Loop
    BY <1>1, <2>1 DEF Loop, Rewind, CurrentData, CurrentKey, MoveForward, Finish
  <2>2. CASE Change
    BY <2>2, InsertSimulates, DeleteSimulates, ShiftSimulates, PopSimulates, ChunkSimulates
       DEF Change, Order!Next
  <2> QED
    BY <1>3, <2>1, <2>2 DEF Next
<1> QED
  BY <1>2, <1>3

\* Whatever holes, compactions and enlargements the hash table goes through,
\* the property table of a ThreadedArray is the sequence of its elements in
\* insertion order: pthreads_store_write appends, pthreads_store_delete takes
\* any one out, pthreads_store_shift the oldest, pthreads_store_pop the newest,
\* pthreads_store_chunk the oldest few, and each returns what it took.
THEOREM ImplementsOrder == Spec => ImplementsInsertionOrder
<1>1. Init => Order!Init
  <2> SUFFICES ASSUME Init PROVE Order!Init
    OBVIOUS
  <2>1. hash \in Seq(Buckets) /\ Len(hash) = 0 /\ 1 \in Nat \ {0}
    <3>1. PICK e : e = << >>
      OBVIOUS
    <3>2. e \in Seq(Buckets) /\ Len(e) = 0 /\ hash = e
      BY <3>1, EmptySeq DEF Init
    <3> QED
      BY <3>2
  <2>2. \A q : q \notin 1 .. 0
    OBVIOUS
  <2>3. \A q : q \in Ahead(hash, 1) => q \in 1 .. 0
    BY <2>1, AheadIs, Zenon
  <2>4. Ahead(hash, 1) = {}
    BY <2>2, <2>3
  <2>5. Packed(hash) = << >>
    BY <2>1, <2>4, PackedEmpty
  <2> QED
    BY <2>5 DEF Init, Order!Init
<1>2. IterInv /\ [Next]_vars => [Order!Next]_<<Now, returned>>
  BY TableSimulates
<1> QED
  BY <1>1, <1>2, IterInvAlways, PTL DEF Spec, ImplementsInsertionOrder, Order!Spec, Now

=============================================================================

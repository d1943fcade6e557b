----------------------------- MODULE ScanProofs -----------------------------
(***************************************************************************)
(* Proof that DBComputeComputeIndexParallel misses no payment of the range *)
(* that its iterators reach (ScanExact), for every number of workers,      *)
(* every size of the pieces and every range.                               *)
(***************************************************************************)
EXTENDS WorkStealingProofs, NaturalsInduction, WellFoundedInduction

----------------------------------------------------------------------------
(* Copies in bags.                                                         *)

LEMMA CopiesType ==
    ASSUME NEW B, IsABag(B), NEW x
    PROVE  /\ Copies(x, B) \in Nat
           /\ Copies(x, B) # 0 <=> x \in DOMAIN B
BY DEF Copies, BagIn, BagToSet, IsABag

LEMMA CopiesEmpty == \A x : Copies(x, EmptyBag) = 0
BY EmptyBagIs DEF Copies, BagIn, BagToSet

LEMMA CopiesSet == \A x, S : Copies(x, SetToBag(S)) = IF x \in S THEN 1 ELSE 0
BY SetToBagIs DEF Copies, BagIn, BagToSet, SetToBag

LEMMA CopiesSum ==
    ASSUME NEW B, NEW C, IsABag(B), IsABag(C), NEW x
    PROVE  Copies(x, B (+) C) = Copies(x, B) + Copies(x, C)
<1>1. DOMAIN (B (+) C) = DOMAIN B \cup DOMAIN C
  BY BagSum
<1>2. ASSUME x \in DOMAIN B \cup DOMAIN C
      PROVE  (B (+) C)[x] = (IF x \in DOMAIN B THEN B[x] ELSE 0)
                            + (IF x \in DOMAIN C THEN C[x] ELSE 0)
  BY <1>2 DEF (+)
<1>3. Copies(x, B) = (IF x \in DOMAIN B THEN B[x] ELSE 0)
  BY DEF Copies, BagIn, BagToSet
<1>4. Copies(x, C) = (IF x \in DOMAIN C THEN C[x] ELSE 0)
  BY DEF Copies, BagIn, BagToSet
<1>5. CASE x \in DOMAIN B \cup DOMAIN C
  BY <1>1, <1>2, <1>3, <1>4, <1>5 DEF Copies, BagIn, BagToSet
<1>6. CASE x \notin DOMAIN B \cup DOMAIN C
  BY <1>1, <1>3, <1>4, <1>6 DEF Copies, BagIn, BagToSet
<1> QED
  BY <1>5, <1>6

\* The copies of a payment that the scanners hold, told apart by scanner and number.
CopySet(f, x) == {p \in Scanners \X Nat : 1 <= p[2] /\ p[2] <= Copies(x, f[p[1]])}

LEMMA Column ==
    ASSUME NEW w, NEW n \in Nat
    PROVE  IsFiniteSet({w} \X (1 .. n)) /\ Cardinality({w} \X (1 .. n)) = n
<1> DEFINE f == [i \in 1 .. n |-> <<w, i>>]
<1>1. f \in Bijection(1 .. n, {w} \X (1 .. n))
  <2>1. f \in [1 .. n -> {w} \X (1 .. n)]
    OBVIOUS
  <2>2. \A i, j \in 1 .. n : f[i] = f[j] => i = j
    OBVIOUS
  <2>3. \A t \in {w} \X (1 .. n) : \E i \in 1 .. n : f[i] = t
    OBVIOUS
  <2> QED
    BY <2>1, <2>2, <2>3 DEF Bijection, Injection, Surjection, IsInjective
<1>2. IsFiniteSet(1 .. n) /\ Cardinality(1 .. n) = n
  BY FS_Interval
<1>3. ExistsBijection(1 .. n, {w} \X (1 .. n))
  BY <1>1 DEF ExistsBijection
<1> QED
  BY <1>2, <1>3, FS_Bijection

\* What the others hold, and what one scanner holds.
LEMMA CopySplit ==
    ASSUME NEW f, NEW x, NEW w \in Scanners, Copies(x, f[w]) \in Nat, IsFiniteSet(CopySet(f, x))
    PROVE  LET rest == {p \in CopySet(f, x) : p[1] # w}
           IN  /\ IsFiniteSet(rest) /\ Cardinality(rest) \in Nat
               /\ Cardinality(CopySet(f, x)) = Cardinality(rest) + Copies(x, f[w])
<1> DEFINE rest == {p \in CopySet(f, x) : p[1] # w}
           mine == {w} \X (1 .. Copies(x, f[w]))
<1>1. CopySet(f, x) = rest \cup mine /\ rest \cap mine = {}
  BY DEF CopySet
<1>2. IsFiniteSet(rest) /\ Cardinality(rest) \in Nat
  BY FS_Subset, FS_CardinalityType
<1>3. IsFiniteSet(mine) /\ Cardinality(mine) = Copies(x, f[w])
  BY Column
<1>4. Cardinality(rest \cup mine) = Cardinality(rest) + Cardinality(mine)
  <2> HIDE DEF rest, mine
  <2>1. Cardinality(rest \cup mine)
            = Cardinality(rest) + Cardinality(mine) - Cardinality(rest \cap mine)
    BY <1>2, <1>3, FS_Union
  <2>2. Cardinality(rest \cap mine) = 0
    BY <1>1, FS_EmptySet
  <2>3. Cardinality(rest) \in Nat /\ Cardinality(mine) \in Nat
    BY <1>2, <1>3
  <2> QED
    BY <2>1, <2>2, <2>3
<1> QED
  BY <1>1, <1>2, <1>3, <1>4

LEMMA CopyCount ==
    ASSUME NEW f, NEW g, NEW x, NEW w \in Scanners, IsFiniteSet(CopySet(f, x)),
           Copies(x, f[w]) \in Nat, Copies(x, g[w]) \in Nat,
           \A v \in Scanners : v # w => g[v] = f[v]
    PROVE  /\ IsFiniteSet(CopySet(g, x))
           /\ Cardinality(CopySet(g, x)) + Copies(x, f[w])
                  = Cardinality(CopySet(f, x)) + Copies(x, g[w])
<1> DEFINE rest == {p \in CopySet(f, x) : p[1] # w}
           mine == {w} \X (1 .. Copies(x, g[w]))
<1>1. CopySet(g, x) = rest \cup mine
  BY DEF CopySet
<1>2. IsFiniteSet(rest) /\ IsFiniteSet(mine)
  BY CopySplit, Column
<1>3. IsFiniteSet(CopySet(g, x))
  <2> HIDE DEF rest, mine
  <2> QED
    BY <1>1, <1>2, FS_Union
<1>4. {p \in CopySet(g, x) : p[1] # w} = rest
  BY DEF CopySet
<1>5. Cardinality(CopySet(g, x)) = Cardinality(rest) + Copies(x, g[w])
  BY <1>3, <1>4, CopySplit
<1>6. Cardinality(CopySet(f, x)) = Cardinality(rest) + Copies(x, f[w]) /\ Cardinality(rest) \in Nat
  BY CopySplit
<1> QED
  BY <1>3, <1>5, <1>6

----------------------------------------------------------------------------
(* The loop over one row.                                                  *)

LEMMA Concatenated ==
    ASSUME NEW S, NEW s \in Seq(S), NEW t \in Seq(S)
    PROVE  s \o t \in Seq(S) /\ Len(s \o t) = Len(s) + Len(t)
OBVIOUS

LEMMA RemoveAtOf ==
    ASSUME NEW S, NEW s \in Seq(S), NEW i \in DOMAIN s
    PROVE  /\ RemoveAt(s, i) \in Seq(S)
           /\ \A x : (x \in ToSet(RemoveAt(s, i)) => x \in ToSet(s))
                     /\ (x \in ToSet(s) => x = s[i] \/ x \in ToSet(RemoveAt(s, i)))
<1> DEFINE a == SubSeq(s, 1, i - 1)
           c == SubSeq(s, i + 1, Len(s))
           r == RemoveAt(s, i)
<1>1. Len(s) \in Nat /\ i \in 1..Len(s) /\ DOMAIN s = 1..Len(s)
  OBVIOUS
<1>2. a \in Seq(S) /\ Len(a) = i - 1 /\ \A j \in 1..(i - 1) : a[j] = s[j]
  BY <1>1
<1>3. c \in Seq(S) /\ Len(c) = Len(s) - i /\ \A j \in 1..(Len(s) - i) : c[j] = s[i + j]
  BY <1>1
<1>4. r = a \o c
  BY DEF RemoveAt
<1> HIDE DEF a, c, r
<1>5. /\ r \in Seq(S) /\ Len(r) = Len(a) + Len(c)
      /\ \A j \in 1..Len(r) : r[j] = IF j <= Len(a) THEN a[j] ELSE c[j - Len(a)]
  <2>1. Len(a) \in Nat /\ Len(c) \in Nat
    BY <1>2, <1>3
  <2>2. r \in Seq(S) /\ Len(r) = Len(a) + Len(c)
    BY <1>2, <1>3, <1>4, Concatenated
  <2>3. ASSUME NEW j \in 1..Len(r) PROVE r[j] = IF j <= Len(a) THEN a[j] ELSE c[j - Len(a)]
    BY <1>2, <1>3, <1>4, <2>1, <2>2
  <2> QED
    BY <2>2, <2>3
<1>6. ASSUME NEW j \in DOMAIN r PROVE r[j] \in ToSet(s)
  <2>1. j \in 1..(Len(s) - 1) /\ j \in 1..Len(r)
    BY <1>1, <1>2, <1>3, <1>5
  <2>2. CASE j <= i - 1
    BY <1>1, <1>2, <1>5, <2>1, <2>2 DEF ToSet
  <2>3. CASE ~(j <= i - 1)
    <3>1. j - (i - 1) \in 1..(Len(s) - i) /\ i + (j - (i - 1)) = j + 1 /\ j + 1 \in DOMAIN s
      BY <1>1, <2>1, <2>3
    <3>2. r[j] = s[j + 1]
      BY <1>2, <1>3, <1>5, <2>1, <2>3, <3>1
    <3> QED
      BY <3>1, <3>2 DEF ToSet
  <2> QED
    BY <2>2, <2>3
<1>7. ASSUME NEW j \in DOMAIN s, j # i PROVE s[j] \in ToSet(r)
  <2>1. CASE j < i
    <3>1. j \in 1..Len(r) /\ j \in 1..(i - 1) /\ j <= Len(a)
      BY <1>1, <1>2, <1>3, <1>5, <2>1
    <3>2. r[j] = s[j] /\ j \in DOMAIN r
      BY <1>2, <1>5, <3>1
    <3> QED
      BY <3>2 DEF ToSet
  <2>2. CASE ~(j < i)
    <3>1. /\ j - 1 \in 1..Len(r) /\ ~(j - 1 <= Len(a)) /\ (j - 1) - Len(a) = j - i
          /\ j - i \in 1..(Len(s) - i) /\ i + (j - i) = j
      <4>1. j \in Nat /\ i \in Nat /\ i < j /\ j <= Len(s) /\ i >= 1
        BY <1>1, <1>7, <2>2
      <4>2. Len(a) = i - 1 /\ Len(r) = Len(s) - 1
        BY <1>1, <1>2, <1>3, <1>5
      <4> QED
        BY <1>1, <4>1, <4>2
    <3>2. r[j - 1] = s[j] /\ j - 1 \in DOMAIN r
      BY <1>3, <1>5, <3>1
    <3> QED
      BY <3>2 DEF ToSet
  <2> QED
    BY <2>1, <2>2
<1> QED
  BY <1>5, <1>6, <1>7 DEF ToSet, r

LEMMA Least ==
    ASSUME NEW T \in SUBSET Nat, T # {}
    PROVE  \E m \in T : \A j \in T : m =< j
<1>1. PICK m \in T : \A j \in T : <<j, m>> \notin OpToRel(<, Nat)
  BY NatLessThanWellFounded, WFMin
<1>2. ASSUME NEW j \in T PROVE m =< j
  <2>1. ~(j < m) /\ j \in Nat /\ m \in Nat
    BY <1>1 DEF OpToRel
  <2> QED
    BY <2>1
<1> QED
  BY <1>2

LEMMA RemoveFirstOf ==
    ASSUME NEW s \in Seq(Int), NEW k \in ToSet(s)
    PROVE  /\ RemoveFirst(s, k) \in Seq(Int)
           /\ \A x : (x \in ToSet(RemoveFirst(s, k)) => x \in ToSet(s))
                     /\ (x \in ToSet(s) => x = k \/ x \in ToSet(RemoveFirst(s, k)))
<1> DEFINE I == {i \in 1 .. Len(s) : s[i] = k}
           n == CHOOSE i \in I : \A j \in I : i =< j
<1>1. PICK p \in 1 .. Len(s) : s[p] = k
  BY DEF ToSet
<1>2. I # {} /\ I \subseteq Nat
  BY <1>1
<1>4. \E i \in I : \A j \in I : i =< j
  BY <1>2, Least
<1>5. n \in I
  BY <1>4
<1>6. n \in DOMAIN s /\ s[n] = k
  BY <1>5
<1>7. RemoveFirst(s, k) = RemoveAt(s, n)
  BY <1>1, <1>2 DEF RemoveFirst, SelectInSeq, Min
<1> HIDE DEF n, I
<1> QED
  BY <1>6, <1>7, RemoveAtOf

\* A row does not have more values than outputs.
LEMMA FewOutputs ==
    ASSUME NEW s \in Seq(Int), NEW k \in Nat, NEW n \in Nat, k .. n \subseteq ToSet(s)
    PROVE  n < k + Len(s)
<1> DEFINE f == [i \in 1 .. Len(s) |-> s[i]]
<1>1. Len(s) \in Nat /\ IsFiniteSet(1 .. Len(s)) /\ Cardinality(1 .. Len(s)) = Len(s)
  <2>1. 1 \in Int /\ Len(s) \in Int /\ Len(s) \in Nat
    OBVIOUS
  <2>2. IsFiniteSet(1 .. Len(s))
        /\ Cardinality(1 .. Len(s)) = IF 1 > Len(s) THEN 0 ELSE Len(s) - 1 + 1
    BY <2>1, FS_Interval
  <2> QED
    BY <2>1, <2>2
<1>2. f \in Surjection(1 .. Len(s), ToSet(s))
  BY DEF Surjection, ToSet
<1> HIDE DEF f
<1>3. IsFiniteSet(ToSet(s)) /\ Cardinality(ToSet(s)) <= Len(s)
  BY <1>1, <1>2, FS_Surjection
<1>4. Cardinality(k .. n) <= Cardinality(ToSet(s))
  BY <1>3, FS_Subset
<1>5. Cardinality(k .. n) = IF k > n THEN 0 ELSE n - k + 1
  <2>1. k \in Int /\ n \in Int
    OBVIOUS
  <2> QED
    BY <2>1, FS_Interval
<1>6. Cardinality(ToSet(s)) \in Nat
  BY <1>3, FS_CardinalityType
<1> QED
  BY <1>1, <1>3, <1>4, <1>5, <1>6

\* Where the loop that starts with k stops: the first number that is not among the outputs.
IsStop(k, s, m) == m \in Nat /\ k <= m /\ m \notin ToSet(s) /\ k .. (m - 1) \subseteq ToSet(s)
Stop(k, s) == CHOOSE m \in Nat : IsStop(k, s, m)

LEMMA StopExists ==
    ASSUME NEW s \in Seq(Int), NEW k \in Nat
    PROVE  Stop(k, s) \in Nat /\ IsStop(k, s, Stop(k, s))
<1> DEFINE T == {m \in Nat : k <= m /\ m \notin ToSet(s)}
<1>1. T # {}
  <2>1. Len(s) \in Nat /\ k + Len(s) \in Nat
    OBVIOUS
  <2>2. ~(k .. (k + Len(s)) \subseteq ToSet(s))
    BY <2>1, FewOutputs
  <2> QED
    BY <2>1, <2>2
<1>2. PICK m \in T : \A j \in T : m =< j
  <2>1. T \in SUBSET Nat
    OBVIOUS
  <2> HIDE DEF T
  <2> QED
    BY <1>1, <2>1, Least
<1>4. IsStop(k, s, m)
  <2>1. ASSUME NEW j \in k .. (m - 1), j \notin ToSet(s) PROVE FALSE
    <3>1. j \in T
      BY <2>1
    <3>2. m \in Nat /\ j \in Nat /\ m =< j
      BY <1>2, <3>1
    <3> QED
      BY <2>1, <3>2
  <2> QED
    BY <1>2, <2>1 DEF IsStop
<1>5. m \in Nat
  BY <1>2
<1> QED
  BY <1>4, <1>5 DEF Stop

LEMMA StopUnique ==
    ASSUME NEW s, NEW k \in Nat, NEW m, NEW n, IsStop(k, s, m), IsStop(k, s, n)
    PROVE  m = n
BY DEF IsStop

\* One turn of the loop does not move its end.
LEMMA StopStep ==
    ASSUME NEW s \in Seq(Int), NEW k \in Nat
    PROVE  /\ k \notin ToSet(s) => Stop(k, s) = k
           /\ k \in ToSet(s) => /\ RemoveFirst(s, k) \in Seq(Int) /\ k < Stop(k, s)
                                /\ Stop(k + 1, RemoveFirst(s, k)) = Stop(k, s)
<1>1. Stop(k, s) \in Nat /\ IsStop(k, s, Stop(k, s))
  BY StopExists
<1>2. CASE k \notin ToSet(s)
  <2>1. IsStop(k, s, k)
    BY <1>2 DEF IsStop
  <2> QED
    BY <1>1, <1>2, <2>1, StopUnique
<1>3. CASE k \in ToSet(s)
  <2> DEFINE r == RemoveFirst(s, k)
             m == Stop(k, s)
  <2>1. /\ r \in Seq(Int)
        /\ \A x : (x \in ToSet(r) => x \in ToSet(s)) /\ (x \in ToSet(s) => x = k \/ x \in ToSet(r))
    BY <1>3, RemoveFirstOf
  <2> HIDE DEF r, m
  <2>2. m \in Nat /\ IsStop(k, s, m)
    BY <1>1 DEF m
  <2>3. k < m
    BY <1>3, <2>2 DEF IsStop
  <2>4. IsStop(k + 1, r, m)
    BY <2>1, <2>2, <2>3 DEF IsStop
  <2>5. IsStop(k + 1, r, Stop(k + 1, r))
    BY <2>1, StopExists
  <2>6. Stop(k + 1, r) = m
    BY <2>4, <2>5, StopUnique
  <2> QED
    BY <1>3, <2>1, <2>3, <2>6 DEF r, m
<1> QED
  BY <1>2, <1>3

LEMMA RunShift ==
    ASSUME NEW j \in Nat, NEW n \in Nat
    PROVE  <<j>> \o [i \in 1 .. n |-> (j + 1) + i - 1] = [i \in 1 .. (n + 1) |-> j + i - 1]
<1> DEFINE tail == [i \in 1 .. n |-> (j + 1) + i - 1]
           all == [i \in 1 .. (n + 1) |-> j + i - 1]
<1>1. tail \in Seq(Int) /\ Len(tail) = n /\ \A i \in 1 .. n : tail[i] = (j + 1) + i - 1
  OBVIOUS
<1>2. all \in Seq(Int) /\ Len(all) = n + 1 /\ \A i \in 1 .. (n + 1) : all[i] = j + i - 1
  <2>1. \A i \in 1 .. (n + 1) : j + i - 1 \in Int
    OBVIOUS
  <2> QED
    BY <2>1
<1> HIDE DEF tail, all
<1>3. <<j>> \o tail \in Seq(Int) /\ Len(<<j>> \o tail) = n + 1
  BY <1>1
<1>4. ASSUME NEW i \in 1 .. (n + 1) PROVE (<<j>> \o tail)[i] = all[i]
  <2>1. CASE i = 1
    BY <1>1, <1>2, <2>1
  <2>2. CASE i # 1
    <3>1. i - 1 \in 1 .. n
      BY <2>2
    <3>2. (<<j>> \o tail)[i] = tail[i - 1]
      BY <1>1, <2>2, <3>1
    <3> QED
      BY <1>1, <1>2, <3>1, <3>2
  <2> QED
    BY <2>1, <2>2
<1>5. <<j>> \o tail = all
  <2> DEFINE u == <<j>> \o tail
  <2>1. u \in Seq(Int) /\ Len(u) = n + 1 /\ \A i \in 1 .. (n + 1) : u[i] = all[i]
    BY <1>3, <1>4
  <2> HIDE DEF u
  <2>2. DOMAIN u = 1 .. (n + 1) /\ DOMAIN all = 1 .. (n + 1)
    BY <1>2, <2>1
  <2>3. u = [i \in 1 .. (n + 1) |-> u[i]] /\ all = [i \in 1 .. (n + 1) |-> all[i]]
    BY <1>2, <2>1, <2>2
  <2>4. u = all
    BY <2>1, <2>3
  <2> QED
    BY <2>4 DEF u
<1> QED
  BY <1>5 DEF tail, all

\* The definition by recursion has a solution, so that ScanFrom is one.
LEMMA ScanFromIs ==
    ASSUME NEW s \in Seq(Int), NEW k \in Nat
    PROVE  ScanFrom[<<k, s>>] = IF k \in ToSet(s) THEN <<k>> \o ScanFrom[<<k + 1, RemoveFirst(s, k)>>]
                            ELSE <<>>
<1> DEFINE Run(j, t) == [i \in 1 .. (Stop(j, t) - j) |-> j + i - 1]
           g == [x \in Nat \X Seq(Int) |-> Run(x[1], x[2])]
<1>1. ASSUME NEW j \in Nat, NEW t \in Seq(Int)
      PROVE  Run(j, t) = IF j \in ToSet(t) THEN <<j>> \o Run(j + 1, RemoveFirst(t, j)) ELSE <<>>
  <2>1. CASE j \notin ToSet(t)
    <3>1. Stop(j, t) - j = 0
      BY <2>1, StopStep
    <3>2. Run(j, t) = <<>>
      BY <3>1
    <3> QED
      BY <2>1, <3>2
  <2>2. CASE j \in ToSet(t)
    <3> DEFINE m == Stop(j, t)
    <3>1. m \in Nat /\ j < m /\ Stop(j + 1, RemoveFirst(t, j)) = m
      BY <2>2, StopStep, StopExists
    <3> HIDE DEF m
    <3>2. Run(j, t) = [i \in 1 .. (m - j) |-> j + i - 1]
      BY DEF m
    <3>3. Run(j + 1, RemoveFirst(t, j)) = [i \in 1 .. (m - (j + 1)) |-> (j + 1) + i - 1]
      BY <3>1
    <3>4. m - j = (m - (j + 1)) + 1 /\ m - (j + 1) \in Nat
      BY <3>1
    <3> QED
      BY <2>2, <3>2, <3>3, <3>4, RunShift
  <2> QED
    BY <2>1, <2>2
<1> HIDE DEF Run
<1> DEFINE Turn(f, x) == IF x[1] \in ToSet(x[2])
                         THEN <<x[1]>> \o f[<<x[1] + 1, RemoveFirst(x[2], x[1])>>] ELSE <<>>
<1>2. g = [x \in Nat \X Seq(Int) |-> Turn(g, x)]
  <2>1. \A j \in Nat, t \in Seq(Int) : g[<<j, t>>] = Run(j, t)
    OBVIOUS
  <2>2. ASSUME NEW x \in Nat \X Seq(Int) PROVE Run(x[1], x[2]) = Turn(g, x)
    <3>1. PICK j \in Nat, t \in Seq(Int) : x = <<j, t>>
      OBVIOUS
    <3>2. j \in ToSet(t) => RemoveFirst(t, j) \in Seq(Int) /\ j + 1 \in Nat
      BY StopStep
    <3>3. j \in ToSet(t) => g[<<j + 1, RemoveFirst(t, j)>>] = Run(j + 1, RemoveFirst(t, j))
      BY <2>1, <3>2
    <3>4. Run(j, t) = IF j \in ToSet(t) THEN <<j>> \o g[<<j + 1, RemoveFirst(t, j)>>] ELSE <<>>
      BY <1>1, <3>3
    <3> QED
      BY <3>1, <3>4
  <2> HIDE DEF Turn
  <2> QED
    BY <2>2
<1> HIDE DEF g
<1>3. ScanFrom = CHOOSE f : f = [x \in Nat \X Seq(Int) |-> Turn(f, x)]
  BY DEF ScanFrom
<1>4. ScanFrom = [x \in Nat \X Seq(Int) |-> Turn(ScanFrom, x)]
  <2> HIDE DEF Turn
  <2> QED
    BY <1>2, <1>3
<1>5. <<k, s>> \in Nat \X Seq(Int) /\ <<k, s>>[1] = k /\ <<k, s>>[2] = s
  OBVIOUS
<1>6. ScanFrom[<<k, s>>] = Turn(ScanFrom, <<k, s>>)
  <2> HIDE DEF Turn
  <2> QED
    BY <1>4, <1>5
<1> QED
  BY <1>5, <1>6

LEMMA ToSetCons ==
    ASSUME NEW k \in Int, NEW t \in Seq(Int)
    PROVE  <<k>> \o t \in Seq(Int) /\ ToSet(<<k>> \o t) = {k} \cup ToSet(t)
<1> DEFINE u == <<k>> \o t
<1>1. /\ u \in Seq(Int) /\ Len(u) = Len(t) + 1 /\ u[1] = k
      /\ \A i \in 1 .. Len(t) : u[i + 1] = t[i]
  OBVIOUS
<1> HIDE DEF u
<1>2. DOMAIN u = 1 .. (Len(t) + 1) /\ DOMAIN t = 1 .. Len(t) /\ 1 \in DOMAIN u
  BY <1>1
<1>3. \A i \in 1 .. Len(u) : i = 1 \/ (i - 1 \in 1 .. Len(t) /\ (i - 1) + 1 = i)
  BY <1>1
<1>4. ASSUME NEW x \in ToSet(u) PROVE x \in {k} \cup ToSet(t)
  <2>1. PICK i \in DOMAIN u : x = u[i]
    BY DEF ToSet
  <2>2. CASE i = 1
    BY <1>1, <2>1, <2>2
  <2>3. CASE i # 1
    <3>1. i - 1 \in DOMAIN t /\ u[i] = t[i - 1]
      BY <1>1, <1>3, <1>2, <2>1, <2>3
    <3> QED
      BY <2>1, <3>1 DEF ToSet
  <2> QED
    BY <2>2, <2>3
<1>5. ASSUME NEW i \in 1 .. Len(t) PROVE t[i] \in ToSet(u)
  <2>1. i + 1 \in DOMAIN u /\ u[i + 1] = t[i]
    BY <1>1, <1>2
  <2> QED
    BY <2>1 DEF ToSet
<1>6. k \in ToSet(u)
  BY <1>1, <1>2 DEF ToSet
<1>7. ToSet(t) \subseteq ToSet(u)
  BY <1>5, <1>2 DEF ToSet
<1> QED
  BY <1>1, <1>4, <1>6, <1>7 DEF u

\* The loop finds the numbers from k on, as long as they are among the outputs.
Finds(k, s) ==
    /\ ScanFrom[<<k, s>>] \in Seq(Int)
    /\ ToSet(ScanFrom[<<k, s>>]) = k .. (Stop(k, s) - 1)

LEMMA ScanFromFinds == \A k \in Nat, s \in Seq(Int) : Finds(k, s)
<1> DEFINE Missed == {n \in Nat : \E k \in Nat, s \in Seq(Int) :
                                      Stop(k, s) - k = n /\ ~Finds(k, s)}
<1>1. ASSUME NEW k \in Nat, NEW s \in Seq(Int), ~Finds(k, s)
      PROVE  Stop(k, s) - k \in Missed
  <2>1. Stop(k, s) \in Nat /\ k <= Stop(k, s)
    BY StopExists DEF IsStop
  <2>2. Stop(k, s) - k \in Nat
    BY <2>1
  <2> QED
    BY <1>1, <2>2
<1>2. ASSUME Missed # {} PROVE FALSE
  <2>1. PICK n \in Missed : \A m \in Missed : n =< m
    <3>1. Missed \in SUBSET Nat
      OBVIOUS
    <3> HIDE DEF Missed
    <3> QED
      BY <1>2, <3>1, Least
  <2>2. PICK k \in Nat, s \in Seq(Int) : Stop(k, s) - k = n /\ ~Finds(k, s)
    BY <2>1
  <2>3. n \in Nat
    BY <2>1
  <2> HIDE DEF Missed
  <2>4. Stop(k, s) \in Nat
    BY StopExists
  <2>5. CASE k \notin ToSet(s)
    <3>1. ScanFrom[<<k, s>>] = <<>> /\ Stop(k, s) = k
      BY <2>5, ScanFromIs, StopStep
    <3>2. <<>> \in Seq(Int) /\ ToSet(<<>>) = {} /\ k .. (k - 1) = {}
      BY DEF ToSet
    <3> QED
      BY <2>2, <3>1, <3>2 DEF Finds
  <2>6. CASE k \in ToSet(s)
    <3> DEFINE r == RemoveFirst(s, k)
               t == ScanFrom[<<k + 1, r>>]
    <3>1. r \in Seq(Int) /\ k < Stop(k, s) /\ Stop(k + 1, r) = Stop(k, s) /\ k + 1 \in Nat
      BY <2>6, StopStep
    <3>2. ScanFrom[<<k, s>>] = <<k>> \o t
      BY <2>6, ScanFromIs
    <3> HIDE DEF r
    <3>3. Finds(k + 1, r)
      <4>1. ASSUME ~Finds(k + 1, r) PROVE FALSE
        <5>1. Stop(k + 1, r) - (k + 1) \in Missed
          BY <1>1, <3>1, <4>1
        <5>2. n =< Stop(k, s) - (k + 1)
          BY <2>1, <3>1, <5>1
        <5> QED
          BY <2>2, <2>3, <2>4, <5>2
      <4> QED
        BY <4>1
    <3>4. t \in Seq(Int) /\ ToSet(t) = (k + 1) .. (Stop(k, s) - 1)
      BY <3>1, <3>3 DEF Finds
    <3> HIDE DEF t
    <3>5. <<k>> \o t \in Seq(Int) /\ ToSet(<<k>> \o t) = {k} \cup ToSet(t)
      <4>1. k \in Int
        OBVIOUS
      <4> QED
        BY <3>4, <4>1, ToSetCons
    <3>6. {k} \cup ((k + 1) .. (Stop(k, s) - 1)) = k .. (Stop(k, s) - 1)
      BY <2>4, <3>1
    <3> QED
      BY <2>2, <3>2, <3>4, <3>5, <3>6 DEF Finds
  <2> QED
    BY <2>5, <2>6
<1> QED
  BY <1>1, <1>2

\* What the loop over a row finds are the payments of the row.
LEMMA ScanFindsPayments ==
    ASSUME NEW h \in Heights, NEW i \in DOMAIN Rows[h]
    PROVE  ToSet(ReceiverScan(Rows[h][i])) = RowPayments(Rows[h][i])
<1> DEFINE row == Rows[h][i]
<1>1. row \in Seq(Int)
  BY ScanAssumption
<1> HIDE DEF row
<1>2. ToSet(ReceiverScan(row)) = 0 .. (Stop(0, row) - 1)
  BY <1>1, ScanFromFinds DEF ReceiverScan, Finds
<1>3. Stop(0, row) \in Nat /\ Stop(0, row) \notin ToSet(row) /\ 0 .. (Stop(0, row) - 1) \subseteq ToSet(row)
  BY <1>1, StopExists DEF IsStop
<1>4. ASSUME NEW k \in 0 .. (Stop(0, row) - 1) PROVE k \in RowPayments(row)
  <2>1. k \in Nat /\ 0 .. k \subseteq ToSet(row)
    BY <1>3
  <2>2. k < 0 + Len(row) /\ Len(row) \in Nat
    BY <1>1, <2>1, FewOutputs
  <2> QED
    BY <2>1, <2>2 DEF RowPayments
<1>5. ASSUME NEW k \in RowPayments(row) PROVE k \in 0 .. (Stop(0, row) - 1)
  <2>1. k \in Nat /\ 0 .. k \subseteq ToSet(row)
    BY <1>1 DEF RowPayments
  <2>2. ~(Stop(0, row) <= k)
    BY <1>3, <2>1
  <2> QED
    BY <1>3, <2>1, <2>2
<1> QED
  BY <1>2, <1>4, <1>5 DEF row

----------------------------------------------------------------------------
(* The pieces of a range.                                                  *)

\* Where piece j begins, and the piece.
From(c, j) == c.start + (j - 1) * RangeSize(c)
Cut(c, j) == [start |-> From(c, j), end |-> SmallerOf(From(c, j + 1), c.end)]

LEMMA Times ==
    ASSUME NEW s \in Nat \ {0}, NEW m \in Nat
    PROVE  /\ m * s \in Nat /\ (m + 1) * s = m * s + s /\ m <= m * s
           /\ \A n \in Nat : m < n => m * s + s <= n * s
<1>1. m * s \in Nat /\ (m + 1) * s = m * s + s
  OBVIOUS
<1>2. m <= m * s
  <2>1. PICK r \in Nat : s = r + 1
    <3>1. s - 1 \in Nat /\ s = (s - 1) + 1
      OBVIOUS
    <3> QED
      BY <3>1
  <2>2. m * s = m * r + m /\ m * r \in Nat
    BY <2>1
  <2> QED
    BY <2>2
<1>3. ASSUME NEW n \in Nat, m < n PROVE m * s + s <= n * s
  <2>1. PICK d \in Nat : n = m + 1 + d
    <3>1. n - m - 1 \in Nat /\ n = m + 1 + (n - m - 1)
      BY <1>3
    <3> QED
      BY <3>1
  <2>2. n * s = m * s + s + d * s /\ d * s \in Nat
    BY <2>1
  <2> QED
    BY <1>1, <2>2
<1> QED
  BY <1>1, <1>2, <1>3

LEMMA FromSteps ==
    ASSUME NEW c \in Scans \cup {NoScan}, NEW j \in Nat \ {0}
    PROVE  /\ From(c, j) \in Nat /\ c.start <= From(c, j) /\ From(c, 1) = c.start
           /\ From(c, j + 1) = From(c, j) + RangeSize(c) /\ j - 1 <= From(c, j) - c.start
           /\ RangeSize(c) \in Nat \ {0} /\ c.start \in Nat /\ c.end \in Nat
           /\ \A k \in Nat \ {0} : j < k => From(c, j) + RangeSize(c) <= From(c, k)
<1>1. /\ c.start \in Nat /\ RangeSize(c) \in Nat \ {0} /\ c.end \in Nat
  BY ScanConstants
<1> DEFINE s == RangeSize(c)
<1>2. j - 1 \in Nat /\ (j - 1) + 1 = j /\ (j + 1) - 1 = j
  OBVIOUS
<1> HIDE DEF s
<1>3. s \in Nat \ {0}
  BY <1>1 DEF s
<1>4. /\ (j - 1) * s \in Nat /\ j * s = (j - 1) * s + s /\ j - 1 <= (j - 1) * s
      /\ \A n \in Nat : j - 1 < n => (j - 1) * s + s <= n * s
  BY <1>2, <1>3, Times
<1>5. From(c, j) = c.start + (j - 1) * s /\ From(c, j + 1) = c.start + j * s
  BY <1>2 DEF From, s
<1>6. From(c, 1) = c.start
  <2>1. From(c, 1) = c.start + 0 * s
    BY DEF From, s
  <2> QED
    BY <2>1, <1>1, <1>3
<1>7. ASSUME NEW k \in Nat \ {0}, j < k PROVE From(c, j) + s <= From(c, k)
  <2>1. k - 1 \in Nat /\ j - 1 < k - 1
    BY <1>7
  <2>2. From(c, k) = c.start + (k - 1) * s /\ (k - 1) * s \in Nat
    BY <2>1, <1>3 DEF From, s
  <2>3. (j - 1) * s + s <= (k - 1) * s
    BY <2>1, <1>4
  <2> QED
    BY <2>2, <2>3, <1>1, <1>3, <1>4, <1>5
<1>8. /\ From(c, j) \in Nat /\ c.start <= From(c, j) /\ From(c, j + 1) = From(c, j) + s
      /\ j - 1 <= From(c, j) - c.start
  BY <1>1, <1>3, <1>4, <1>5
<1> QED
  BY <1>1, <1>6, <1>7, <1>8 DEF s

\* The list of the pieces as NewWorkStealingQueue builds it.
QueueInv ==
    /\ spc = "idle" => ranges = <<>>
    /\ spc # "idle" /\ ~Wraps(scan) =>
           /\ current = From(scan, Len(ranges) + 1)
           /\ \A j \in DOMAIN ranges : ranges[j] = Cut(scan, j) /\ From(scan, j) < scan.end
    /\ spc \notin {"idle", "queue"} => current >= scan.end

LEMMA NextQueueInv == ScanTypes /\ QueueInv /\ [Next]_vars => QueueInv'
<1> SUFFICES ASSUME ScanTypes, QueueInv, [Next]_vars PROVE QueueInv'
  OBVIOUS
<1> USE DEF queueVars, scannerVars
<1>1. ASSUME UNCHANGED <<scan, spc, ranges, current>> PROVE QueueInv'
  BY <1>1 DEF QueueInv
<1>2. ASSUME NEW c \in Scans, CallScan(c) PROVE QueueInv'
  <2>1. spc' = "queue" /\ ranges' = <<>> /\ scan' = c /\ current' = c.start
    BY <1>2 DEF CallScan, QueueInv
  <2>2. From(c, 1) = c.start
    BY FromSteps
  <2>3. Len(ranges') + 1 = 1 /\ DOMAIN ranges' = {}
    BY <2>1
  <2> QED
    BY <2>1, <2>2, <2>3 DEF QueueInv
<1>3. ASSUME CutPiece PROVE QueueInv'
  <2>1. /\ spc = "queue" /\ current < scan.end /\ ranges' = Append(ranges, NextPiece)
        /\ current' = Wrap(current + RangeSize(scan)) /\ UNCHANGED <<scan, spc>>
    BY <1>3 DEF CutPiece, NextPiece
  <2>2. ASSUME ~Wraps(scan)
        PROVE  /\ current' = From(scan, Len(ranges') + 1)
               /\ \A j \in DOMAIN ranges' : ranges'[j] = Cut(scan, j) /\ From(scan, j) < scan.end
    <3> DEFINE n == Len(ranges) + 1
    <3>1. n \in Nat \ {0} /\ n - 1 \in Nat /\ scan \in Scans \cup {NoScan}
      BY DEF ScanTypes
    <3>2. /\ current = From(scan, n)
          /\ \A j \in DOMAIN ranges : ranges[j] = Cut(scan, j) /\ From(scan, j) < scan.end
      BY <2>1, <2>2 DEF QueueInv
    <3>3. From(scan, n + 1) <= MaxUint32
      <4>1. /\ From(scan, n) = scan.start + (n - 1) * RangeSize(scan)
            /\ From(scan, n + 1) = scan.start + ((n - 1) + 1) * RangeSize(scan)
        <5>1. (n + 1) - 1 = (n - 1) + 1
          BY <3>1
        <5> QED
          BY <5>1 DEF From
      <4>2. n - 1 \in Heights
        <5>1. n - 1 <= From(scan, n) - scan.start /\ scan.start \in Nat /\ From(scan, n) \in Nat
          BY <3>1, FromSteps
        <5>2. From(scan, n) < scan.end /\ scan.end \in 0 .. MaxUint32 /\ MaxUint32 \in Nat
          BY <2>1, <3>1, <3>2, ScanConstants
        <5>3. n - 1 \in 0 .. MaxUint32
          BY <5>1, <5>2, <3>1
        <5> QED
          BY <5>3, ScanConstants
      <4>3. ~(scan.start + ((n - 1) + 1) * RangeSize(scan) > MaxUint32)
        BY <2>1, <2>2, <3>2, <4>1, <4>2 DEF Wraps
      <4>4. From(scan, n + 1) \in Nat /\ MaxUint32 \in Nat
        BY <3>1, n + 1 \in Nat \ {0}, FromSteps, ScanConstants
      <4> QED
        BY <4>1, <4>3, <4>4
    <3>4. current + RangeSize(scan) = From(scan, n + 1) /\ From(scan, n + 1) \in Nat
      BY <3>1, <3>2, FromSteps
    <3>5. Wrap(current + RangeSize(scan)) = From(scan, n + 1)
      BY <3>3, <3>4, WrapHeight
    <3>6. NextPiece = Cut(scan, n)
      BY <3>2, <3>5 DEF NextPiece, Cut
    <3>7. ranges \in Seq(Calls) /\ NextPiece \in Calls
      BY NextPieceType DEF ScanTypes
    <3>8. /\ Len(ranges') = n /\ \A j \in DOMAIN ranges' : j # n => j \in DOMAIN ranges /\ ranges'[j] = ranges[j]
          /\ ranges'[n] = NextPiece
      BY <2>1, <3>7
    <3> HIDE DEF n
    <3> QED
      BY <2>1, <3>2, <3>5, <3>6, <3>8
  <2> QED
    BY <2>1, <2>2 DEF QueueInv
<1>4. ASSUME Spawn PROVE QueueInv'
  BY <1>4 DEF Spawn, QueueInv
<1>5. ASSUME ReturnScan PROVE QueueInv'
  BY <1>5 DEF ReturnScan, QueueInv
<1>6. ASSUME Cancel PROVE QueueInv'
  BY <1>6, <1>1 DEF Cancel
<1>7. ASSUME NEW w \in Scanners,
             \/ CheckContext(w) \/ GetNextRange(w) \/ ScanPiece(w) \/ SendResults(w) \/ ScanFail(w)
             \/ ScanShort(w)
      PROVE  QueueInv'
  BY <1>7, <1>1 DEF CheckContext, GetNextRange, ScanPiece, SendResults, ScanFail, ScanShort
<1>8. ASSUME UNCHANGED scanVars PROVE QueueInv'
  BY <1>8, <1>1 DEF scanVars
<1> QED
  BY <1>2, <1>3, <1>4, <1>5, <1>6, <1>7, <1>8 DEF Next, Caller, Scanner, vars

\* The pieces that contain a height.
Cover(h) == {j \in DOMAIN ranges : ranges[j].start <= h /\ h <= ranges[j].end}

\* Different pieces begin at different heights.
LEMMA DistinctPieces ==
    ASSUME ScanTypes, QueueInv, ~Wraps(scan), NEW i \in DOMAIN ranges, NEW j \in DOMAIN ranges,
           ranges[i] = ranges[j]
    PROVE  i = j
<1>1. spc # "idle"
  BY DEF QueueInv
<1>2. ranges[i].start = From(scan, i) /\ ranges[j].start = From(scan, j)
  BY <1>1 DEF QueueInv, Cut
<1>3. i \in Nat \ {0} /\ j \in Nat \ {0} /\ scan \in Scans \cup {NoScan}
  BY DEF ScanTypes
<1>4. From(scan, i) \in Nat /\ From(scan, j) \in Nat /\ RangeSize(scan) \in Nat \ {0}
  BY <1>3, FromSteps
<1>5. /\ i < j => From(scan, i) + RangeSize(scan) <= From(scan, j)
      /\ j < i => From(scan, j) + RangeSize(scan) <= From(scan, i)
  BY <1>3, FromSteps
<1> QED
  BY <1>2, <1>3, <1>4, <1>5

\* How many pieces of a call contain a height: a range of one height has no piece.
Scanned(c, h) == IF c.start >= c.end THEN 0 ELSE AtMost(c, h)

\* Once the list is complete it contains every height of the range as often as Scanned
\* says: inner boundaries twice, the others once.
LEMMA CoverCount ==
    ASSUME ScanTypes, QueueInv, ~Wraps(scan), spc \notin {"idle", "queue"}, NEW h \in Heights
    PROVE  IsFiniteSet(Cover(h)) /\ Cardinality(Cover(h)) = Scanned(scan, h)
<1> DEFINE s == RangeSize(scan)
           a == scan.start
           e == scan.end
           n == Len(ranges)
           F(j) == From(scan, j)
<1>c. scan \in Scans \cup {NoScan}
  BY DEF ScanTypes
<1>1. n \in Nat /\ h \in Nat /\ a \in Nat /\ e \in Nat /\ s \in Nat \ {0} /\ DOMAIN ranges = 1 .. n
  BY <1>c, ScanConstants DEF ScanTypes
<1>2. ASSUME NEW j \in 1 .. n
      PROVE  /\ ranges[j].start = F(j) /\ ranges[j].end = SmallerOf(F(j + 1), e) /\ F(j) < e
  BY <1>1 DEF QueueInv, Cut
<1>3. e <= F(n + 1) /\ F(n + 1) \in Nat
  BY <1>1, <1>c, n + 1 \in Nat \ {0}, FromSteps DEF QueueInv
<1>f. ASSUME NEW j \in Nat \ {0}
      PROVE  /\ F(j) \in Nat /\ a <= F(j) /\ F(1) = a /\ F(j + 1) = F(j) + s
             /\ \A k \in Nat \ {0} : j < k => F(j) + s <= F(k)
  BY <1>c, FromSteps
<1>4. ASSUME NEW j \in 1 .. n
      PROVE  j \in Cover(h) <=> F(j) <= h /\ h <= F(j) + s /\ h <= e
  <2>0. j \in Nat \ {0}
    BY <1>1
  <2>1. j \in Nat \ {0} /\ F(j + 1) = F(j) + s /\ F(j) \in Nat
    BY <2>0, <1>f
  <2> QED
    BY <1>1, <1>2, <2>1 DEF Cover, SmallerOf
<1>5. Cover(h) \subseteq 1 .. n /\ IsFiniteSet(Cover(h))
  <2>1. Cover(h) \subseteq 1 .. n /\ IsFiniteSet(1 .. n)
    BY <1>1, FS_Interval DEF Cover
  <2> QED
    BY <2>1, FS_Subset
<1> HIDE DEF s, a, e, n, F
<1>6. CASE a >= e \/ h < a \/ h > e
  <2>1. ASSUME NEW j \in Cover(h) PROVE FALSE
    <3>1. j \in 1 .. n /\ j \in Nat \ {0}
      BY <1>1, <1>5
    <3>2. a <= F(j) /\ F(j) < e /\ F(j) <= h /\ h <= e /\ F(j) \in Nat
      BY <3>1, <1>2, <1>4, <1>f
    <3> QED
      BY <1>1, <1>6, <3>2
  <2>2. Cover(h) = {}
    BY <2>1
  <2>3. Scanned(scan, h) = 0
    BY <1>1, <1>6 DEF Scanned, AtMost, a, e
  <2> QED
    BY <1>5, <2>2, <2>3, FS_EmptySet
<1>7. CASE ~(a >= e \/ h < a \/ h > e)
  <2> DEFINE q == (h - a) \div s
             r == (h - a) % s
  <2>1. q \in Nat /\ r \in Nat /\ r < s /\ h - a = s * q + r /\ h - a \in Nat
    BY <1>1, <1>7
  <2> HIDE DEF q
  <2>2. /\ F(q + 1) = a + q * s /\ F(q + 1) + r = h
    <3>1. F(q + 1) = a + ((q + 1) - 1) * s /\ (q + 1) - 1 = q
      BY <2>1 DEF F, From, a, s
    <3>2. s * q = q * s /\ q * s \in Nat
      BY <1>1, <2>1
    <3>3. F(q + 1) = a + q * s
      BY <3>1
    <3> QED
      BY <1>1, <2>1, <3>2, <3>3
  <2>3. q + 1 \in Nat \ {0} /\ F(q + 1) \in Nat /\ F(q + 1) <= h /\ h < F(q + 1) + s
    <3>1. q + 1 \in Nat \ {0}
      BY <2>1
    <3>2. F(q + 1) \in Nat
      BY <3>1, <1>f
    <3> HIDE DEF r
    <3> QED
      BY <1>1, <2>1, <2>2, <3>1, <3>2
  <2>4. ASSUME NEW j \in 1 .. n, j \in Cover(h) PROVE j = q + 1 \/ (j = q /\ r = 0)
    <3>1. j \in Nat \ {0} /\ F(j) \in Nat /\ F(j) <= h /\ h <= F(j) + s
      <4>1. j \in Nat \ {0}
        BY <1>1
      <4> QED
        BY <4>1, <1>4, <1>f, <2>4
    <3>2. ~(q + 1 < j)
      <4>1. q + 1 < j => F(q + 1) + s <= F(j)
        BY <1>f, <2>3, <3>1
      <4> QED
        BY <1>1, <2>3, <3>1, <4>1
    <3>3. CASE j < q
      <4>1. q \in Nat \ {0} /\ F(j) + s <= F(q) /\ F(q) \in Nat /\ F(q + 1) = F(q) + s
        BY <1>f, <2>1, <3>1, <3>3
      <4> QED
        BY <1>1, <2>3, <3>1, <4>1
    <3>4. CASE j = q
      <4>1. F(q + 1) = F(q) + s
        BY <1>f, <3>1, <3>4
      <4> QED
        BY <1>1, <2>1, <2>2, <2>3, <3>1, <3>4, <4>1
    <3> QED
      BY <2>1, <3>1, <3>2, <3>3, <3>4
  <2>5. q < n \/ (q = n /\ h = e)
    <3>1. CASE n < q
      <4>1. n + 1 \in Nat \ {0} /\ n + 1 < q + 1 /\ F(n + 1) + s <= F(q + 1)
        <5>1. n + 1 \in Nat \ {0} /\ n + 1 < q + 1
          BY <1>1, <2>1, <3>1
        <5> QED
          BY <5>1, <1>f, <2>3
      <4> QED
        BY <1>1, <1>3, <1>7, <2>3, <4>1
    <3>2. CASE n = q
      BY <1>1, <1>3, <1>7, <2>3, <3>2
    <3> QED
      BY <1>1, <2>1, <3>1, <3>2
  <2>6. q < n => q + 1 \in Cover(h)
    BY <1>1, <1>4, <1>7, <2>1, <2>3
  <2>7. q \in 1 .. n /\ r = 0 => q \in Cover(h)
    <3> SUFFICES ASSUME q \in 1 .. n, r = 0 PROVE q \in Cover(h)
      OBVIOUS
    <3>1. q \in Nat \ {0} /\ F(q) \in Nat /\ F(q + 1) = F(q) + s /\ F(q + 1) = h
      <4>1. q \in Nat \ {0}
        BY <1>1
      <4>2. F(q) \in Nat /\ F(q + 1) = F(q) + s
        BY <4>1, <1>f
      <4>3. F(q + 1) = h
        BY <2>2, <2>3
      <4> QED
        BY <4>1, <4>2, <4>3
    <3> QED
      BY <1>1, <1>4, <1>7, <3>1
  <2>8. q < n => F(q + 1) < e
    BY <1>1, <1>2, <2>1
  <2>9. Scanned(scan, h) = IF h = a \/ h = e \/ r # 0 THEN 1 ELSE 2
    BY <1>1, <1>7 DEF Scanned, AtMost, a, e, s
  <2> HIDE DEF r
  <2>10. CASE h = a \/ h = e \/ r # 0
    <3>1. PICK j : Cover(h) = {j}
      <4>1. CASE q < n /\ (r # 0 \/ h = a)
        <5>1. q \notin Cover(h) \/ r # 0
          <6> SUFFICES ASSUME r = 0, q \in Cover(h) PROVE FALSE
            OBVIOUS
          <6>1. h = a /\ q \in Nat \ {0}
            BY <4>1, <1>1, <1>5
          <6>2. a <= F(q) /\ F(q) \in Nat /\ F(q + 1) = F(q) + s
            BY <6>1, <1>f
          <6> QED
            BY <6>1, <6>2, <1>1, <2>3
        <5>2. Cover(h) = {q + 1}
          BY <1>5, <2>4, <2>6, <4>1, <5>1
        <5> QED
          BY <5>2
      <4>2. CASE q < n /\ h = e
        <5>1. r # 0
          BY <1>1, <2>1, <2>2, <2>3, <2>8, <4>2
        <5> QED
          BY <4>1, <4>2, <5>1
      <4>3. CASE q = n /\ h = e
        <5>1. q \in 1 .. n /\ r = 0
          <6>1. r = 0
            BY <1>1, <1>3, <2>1, <2>2, <2>3, <4>3
          <6>2. q # 0
            <7>1. F(1) = a
              BY <1>f, 1 \in Nat \ {0}
            <7> QED
              BY <7>1, <1>1, <1>7, <2>2, <2>3, <4>3, <6>1
          <6> QED
            BY <6>1, <6>2, <4>3, <2>1
        <5>2. q + 1 \notin Cover(h)
          BY <1>1, <1>5, <4>3
        <5>3. Cover(h) = {q}
          BY <1>5, <2>4, <2>7, <5>1, <5>2
        <5> QED
          BY <5>3
      <4> QED
        BY <2>5, <2>10, <4>1, <4>2, <4>3
    <3> QED
      BY <1>5, <2>9, <2>10, <3>1, FS_Singleton
  <2>11. CASE ~(h = a \/ h = e \/ r # 0)
    <3>1. q < n /\ q # 0 /\ r = 0
      <4>1. q # 0
        <5>1. F(1) = a
          BY <1>f, 1 \in Nat \ {0}
        <5> QED
          BY <5>1, <1>1, <2>2, <2>3, <2>11
      <4> QED
        BY <4>1, <2>5, <2>11
    <3>2. q \in 1 .. n /\ q \in Cover(h) /\ q + 1 \in Cover(h)
      BY <1>1, <2>1, <2>6, <2>7, <3>1
    <3>3. Cover(h) = {q} \cup {q + 1} /\ q + 1 \notin {q}
      BY <1>5, <2>1, <2>4, <3>2
    <3>4. Cardinality({q} \cup {q + 1}) = 2
      <4>1. IsFiniteSet({q}) /\ Cardinality({q}) = 1
        BY FS_Singleton
      <4>2. Cardinality({q} \cup {q + 1}) = Cardinality({q}) + 1
        BY <3>3, <4>1, FS_AddElement
      <4> QED
        BY <4>1, <4>2
    <3> QED
      BY <1>5, <2>9, <2>11, <3>3, <3>4
  <2> QED
    BY <2>10, <2>11
<1> QED
  BY <1>6, <1>7

----------------------------------------------------------------------------
(* The workers.                                                            *)

\* A scanner that reports has seen the end of the list; one that left without a report saw
\* the cancelled context; results are held only between the first piece and the report.
\* Where there are pieces there is a scanner, and nil means that all have ended and none
\* has failed.
WorkerInv ==
    /\ \A w \in Scanners :
           /\ wspc[w] \in {"send", "sent"} => index >= Len(ranges)
           /\ wspc[w] = "gone" => cancelled
           /\ wspc[w] \in {"off", "sent", "failed", "gone"} => found[w] = EmptyBag
    /\ spc \in {"wait", "nil"} /\ ranges # <<>> => \E w \in Scanners : wspc[w] # "off"
    /\ spc = "nil" => \A w \in Scanners : wspc[w] \in {"off", "sent", "gone"}
    /\ visibleAtCall \subseteq visible

LEMMA VisibleGrows == [Next]_vars => visible \subseteq visible'
<1>1. [RebuildNext]_rebuildVars => visible \subseteq visible'
  BY DEF RebuildNext, rebuildVars, Producer, Produce, CloseChan, Worker, WorkerRecv, WorkerEnd,
         Build, Finish, Commit, Fail, Return, Background, storeVars, workerVars, producerVars
<1> QED
  BY <1>1, NextIsRebuild

LEMMA NextWorkerInv ==
    ScanTypes /\ QuietInv /\ WorkerInv /\ [Next]_vars => WorkerInv'
<1> SUFFICES ASSUME ScanTypes, QuietInv, WorkerInv, [Next]_vars PROVE WorkerInv'
  OBVIOUS
<1> USE DEF queueVars, scannerVars
<1>v. visible \subseteq visible'
  BY VisibleGrows
<1>1. ASSUME UNCHANGED scanVars PROVE WorkerInv'
  BY <1>1, <1>v DEF scanVars, WorkerInv
<1>2. ASSUME NEW c \in Scans, CallScan(c) PROVE WorkerInv'
  BY <1>2, <1>v DEF CallScan, WorkerInv, rebuildVars, storeVars
<1>3. ASSUME CutPiece PROVE WorkerInv'
  <2>1. /\ spc = "queue" /\ spc' = "queue"
        /\ UNCHANGED <<wspc, found, cancelled, visibleAtCall>>
    BY <1>3 DEF CutPiece
  <2>2. \A w \in Scanners : wspc[w] = "off"
    BY <2>1 DEF QuietInv
  <2> QED
    BY <2>1, <2>2, <1>v DEF WorkerInv
<1>4. ASSUME Spawn PROVE WorkerInv'
  <2>1. /\ spc = "queue" /\ spc' = "wait" /\ UNCHANGED <<found, cancelled, visibleAtCall, ranges, index>>
    BY <1>4 DEF Spawn
  <2>2. \A w \in Scanners : found[w] = EmptyBag
    BY <2>1 DEF QuietInv
  <2>3. PICK started \in SUBSET Scanners :
            /\ Cardinality(started) = SmallerOf(IF scan.workers = 0 THEN 1 ELSE scan.workers, Len(ranges))
            /\ wspc' = [w \in Scanners |-> IF w \in started THEN "check" ELSE "off"]
    BY <1>4 DEF Spawn
  <2>4. ranges # <<>> => started # {}
    <3> SUFFICES ASSUME ranges # <<>>, started = {} PROVE FALSE
      OBVIOUS
    <3>1. Len(ranges) \in Nat /\ Len(ranges) # 0 /\ scan.workers \in Nat
      BY ScanConstants DEF ScanTypes
    <3> QED
      BY <2>3, <3>1, FS_EmptySet DEF SmallerOf
  <2>5. ranges' # <<>> => \E w \in Scanners : wspc'[w] # "off"
    BY <2>1, <2>3, <2>4
  <2>6. \A w \in Scanners : wspc'[w] \in {"check", "off"}
    BY <2>3
  <2> QED
    BY <2>1, <2>2, <2>5, <2>6, <1>v DEF WorkerInv
<1>5. ASSUME ReturnScan PROVE WorkerInv'
  <2>1. UNCHANGED <<wspc, found, ranges, index, cancelled, visibleAtCall>> /\ spc = "wait"
    BY <1>5 DEF ReturnScan
  <2>2. spc' = "nil" => \A w \in Scanners : wspc[w] \in {"off", "sent", "gone"}
    BY <1>5 DEF ReturnScan
  <2> QED
    BY <1>5, <2>1, <2>2, <1>v DEF WorkerInv
<1>6. ASSUME Cancel PROVE WorkerInv'
  BY <1>6, <1>v DEF Cancel, WorkerInv
<1>7. ASSUME NEW w \in Scanners,
             \/ CheckContext(w) \/ GetNextRange(w) \/ ScanPiece(w) \/ SendResults(w) \/ ScanFail(w)
             \/ ScanShort(w)
      PROVE  WorkerInv'
  <2>1. /\ UNCHANGED <<spc, ranges, cancelled, visibleAtCall>> /\ spc # "nil"
        /\ index' \in Nat /\ index' >= index
        /\ \A v \in Scanners : v # w => wspc'[v] = wspc[v] /\ found'[v] = found[v]
        /\ wspc[w] \in {"check", "take", "scan", "send"}
    BY <1>7 DEF CheckContext, GetNextRange, ScanPiece, SendResults, ScanFail, ScanShort, ScanTypes,
                WorkerInv
  <2>2. /\ wspc'[w] \in {"send", "sent"} => index' >= Len(ranges)
        /\ wspc'[w] = "gone" => cancelled
        /\ wspc'[w] # "off"
    BY <1>7 DEF CheckContext, GetNextRange, ScanPiece, SendResults, ScanFail, ScanShort, ScanTypes,
                WorkerInv
  <2>3. wspc'[w] \in {"sent", "failed", "gone"} => found'[w] = EmptyBag
    BY <1>7 DEF CheckContext, GetNextRange, ScanPiece, SendResults, ScanFail, ScanShort, ScanTypes
  <2>4. index \in Nat /\ Len(ranges) \in Nat
    BY DEF ScanTypes
  <2> QED
    BY <2>1, <2>2, <2>3, <2>4, <1>v DEF WorkerInv
<1> QED
  BY <1>1, <1>2, <1>3, <1>4, <1>5, <1>6, <1>7 DEF Next, Caller, Scanner, vars

\* A scanner scans a piece that was taken from the list, and no two scan the same one.
PieceInv ==
    ~Wraps(scan) =>
        /\ \A w \in Scanning : \E j \in DOMAIN ranges : j <= index /\ piece[w] = ranges[j]
        /\ \A v, w \in Scanning : v # w => piece[v] # piece[w]

LEMMA NextPieceInv ==
    ScanTypes /\ QuietInv /\ QueueInv /\ PieceInv /\ [Next]_vars => PieceInv'
<1> SUFFICES ASSUME ScanTypes, QuietInv, QueueInv, PieceInv, [Next]_vars PROVE PieceInv'
  OBVIOUS
<1> USE DEF queueVars, scannerVars
<1>1. ASSUME UNCHANGED <<scan, wspc, piece, ranges, index>> PROVE PieceInv'
  BY <1>1 DEF PieceInv, Scanning
<1>2. ASSUME (\E c \in Scans : CallScan(c)) \/ CutPiece \/ Spawn PROVE PieceInv'
  <2>1. spc \in {"idle", "queue"} /\ \A w \in Scanners : wspc'[w] # "scan"
    BY <1>2 DEF CallScan, CutPiece, Spawn, QuietInv
  <2>2. Scanning' = {}
    BY <2>1 DEF Scanning
  <2> QED
    BY <2>2 DEF PieceInv
<1>3. ASSUME ReturnScan \/ Cancel \/ UNCHANGED scanVars PROVE PieceInv'
  BY <1>1, <1>3 DEF ReturnScan, Cancel, scanVars
<1>4. ASSUME NEW w \in Scanners, CheckContext(w) \/ SendResults(w) PROVE PieceInv'
  <2>1. Scanning' = Scanning /\ UNCHANGED <<scan, piece, ranges, index>>
    BY <1>4 DEF CheckContext, SendResults, Scanning, ScanTypes
  <2> QED
    BY <2>1 DEF PieceInv
<1>5. ASSUME NEW w \in Scanners, ScanPiece(w) \/ ScanFail(w) \/ ScanShort(w) PROVE PieceInv'
  <2>1. /\ Scanning' = Scanning \ {w} /\ UNCHANGED <<scan, ranges, index>>
        /\ \A v \in Scanners : v # w => piece'[v] = piece[v]
    BY <1>5 DEF ScanPiece, ScanFail, ScanShort, Scanning, ScanTypes
  <2> QED
    BY <2>1 DEF PieceInv, Scanning
<1>6. ASSUME NEW w \in Scanners, GetNextRange(w) PROVE PieceInv'
  <2>1. index' = index + 1 /\ UNCHANGED <<scan, ranges>> /\ index \in Nat /\ w \notin Scanning
    BY <1>6 DEF GetNextRange, ScanTypes, Scanning
  <2>2. CASE index < Len(ranges)
    <3>1. /\ Scanning' = Scanning \cup {w} /\ piece'[w] = ranges[index + 1]
          /\ \A v \in Scanners : v # w => piece'[v] = piece[v]
      BY <1>6, <2>2 DEF GetNextRange, Scanning, ScanTypes
    <3>2. index + 1 \in DOMAIN ranges /\ DOMAIN ranges \subseteq Nat
      BY <2>1, <2>2 DEF ScanTypes
    <3> SUFFICES ASSUME ~Wraps(scan)
                 PROVE  /\ \A v \in Scanning' : \E j \in DOMAIN ranges : j <= index + 1 /\ piece'[v] = ranges[j]
                        /\ \A u, v \in Scanning' : u # v => piece'[u] # piece'[v]
      BY <2>1 DEF PieceInv
    <3>3. ASSUME NEW v \in Scanning
          PROVE  /\ v # w /\ piece'[v] = piece[v]
                 /\ \E j \in DOMAIN ranges : j <= index /\ piece[v] = ranges[j]
      BY <2>1, <3>1 DEF PieceInv, Scanning
    <3>4. ASSUME NEW v \in Scanning PROVE piece'[v] # piece'[w]
      <4>1. PICK j \in DOMAIN ranges : j <= index /\ piece'[v] = ranges[j]
        BY <3>3
      <4>2. j # index + 1
        BY <2>1, <3>2, <4>1
      <4> QED
        BY <3>1, <3>2, <4>1, <4>2, DistinctPieces
    <3>5. ASSUME NEW v \in Scanning'
          PROVE  \E j \in DOMAIN ranges : j <= index + 1 /\ piece'[v] = ranges[j]
      <4>1. CASE v = w
        BY <3>1, <3>2, <2>1, <4>1
      <4>2. CASE v \in Scanning
        BY <3>2, <3>3, <2>1, <4>2
      <4> QED
        BY <3>1, <4>1, <4>2
    <3>6. ASSUME NEW u \in Scanning', NEW v \in Scanning', u # v PROVE piece'[u] # piece'[v]
      <4>1. CASE u = w \/ v = w
        BY <3>1, <3>4, <3>6, <4>1
      <4>2. CASE u \in Scanning /\ v \in Scanning
        BY <3>3, <3>6, <4>2 DEF PieceInv
      <4> QED
        BY <3>1, <4>1, <4>2
    <3> QED
      BY <3>5, <3>6
  <2>3. CASE ~(index < Len(ranges))
    <3>1. Scanning' = Scanning /\ piece' = piece /\ DOMAIN ranges \subseteq Nat
      BY <1>6, <2>3 DEF GetNextRange, Scanning, ScanTypes
    <3> QED
      BY <2>1, <3>1 DEF PieceInv
  <2> QED
    BY <2>2, <2>3
<1> QED
  BY <1>1, <1>2, <1>3, <1>4, <1>5, <1>6 DEF Next, Caller, Scanner, vars

----------------------------------------------------------------------------
(* The results.                                                            *)

AllPayments == UNION {Payments[h] : h \in Heights}

\* Whatever is held or returned is a payment.
SoundInv ==
    /\ DOMAIN allFoundOutputs \subseteq AllPayments
    /\ \A w \in Scanners : DOMAIN found[w] \subseteq AllPayments

LEMMA PaymentOf ==
    ASSUME NEW h \in Heights, NEW x \in Payments[h]
    PROVE  /\ x[1] = h /\ x[2] \in DOMAIN Rows[h]
           /\ x[3] \in ToSet(ReceiverScan(Rows[h][x[2]]))
BY DEF Payments

\* One scan finds each payment of the visible heights of its piece once.
LEMMA ScanCopies ==
    ASSUME NEW h \in Heights, NEW x \in Payments[h], NEW p \in Calls, visible \subseteq Heights
    PROVE  Copies(x, DBComputeComputeIndex(p.start, p.end))
               = IF h \in visible /\ p.start <= h /\ h <= p.end THEN 1 ELSE 0
<1> DEFINE S == UNION {Payments[g] : g \in (p.start .. p.end) \cap visible}
<1>1. p.start \in Nat /\ p.end \in Nat /\ h \in Nat
  BY ScanConstants DEF Calls
<1>2. x \in S <=> h \in visible /\ p.start <= h /\ h <= p.end
  <2>1. ASSUME x \in S PROVE h \in visible /\ p.start <= h /\ h <= p.end
    <3>1. PICK g \in (p.start .. p.end) \cap visible : x \in Payments[g]
      BY <2>1
    <3>2. g = h
      BY <3>1, PaymentOf
    <3> QED
      BY <1>1, <3>1, <3>2
  <2>2. ASSUME h \in visible, p.start <= h, h <= p.end PROVE x \in S
    <3>1. h \in (p.start .. p.end) \cap visible
      BY <1>1, <2>2
    <3> QED
      BY <3>1
  <2> QED
    BY <2>1, <2>2
<1> HIDE DEF S
<1>3. DBComputeComputeIndex(p.start, p.end) = SetToBag(S)
  BY DEF DBComputeComputeIndex, S
<1> QED
  BY <1>2, <1>3, CopiesSet

LEMMA ScanBag ==
    ASSUME NEW first, NEW last, visible \subseteq Heights
    PROVE  /\ IsABag(DBComputeComputeIndex(first, last))
           /\ DOMAIN DBComputeComputeIndex(first, last) \subseteq AllPayments
<1> DEFINE S == UNION {Payments[g] : g \in (first .. last) \cap visible}
<1>1. S \subseteq AllPayments
  BY DEF AllPayments
<1> HIDE DEF S
<1>2. DBComputeComputeIndex(first, last) = SetToBag(S)
  BY DEF DBComputeComputeIndex, S
<1> QED
  BY <1>1, <1>2, SetToBagIs

\* A scan that ends early finds some of them, and all of the heights before its end.
LEMMA ShortCopies ==
    ASSUME NEW h \in Heights, NEW x \in Payments[h], NEW p \in Calls, visible \subseteq Heights,
           NEW g \in Nat, NEW m
    PROVE  LET n == Copies(x, ShortComputeScan(p.start, p.end, g, m))
               all == Copies(x, DBComputeComputeIndex(p.start, p.end))
           IN  n \in {0, 1} /\ n <= all /\ (h < g => n = all)
<1> DEFINE S == UNION {Payments[i] : i \in (p.start .. p.end) \cap visible}
           T == {y \in S : y[1] < g \/ (y[1] = g /\ y[2] < m)}
<1>1. x[1] = h
  BY PaymentOf
<1>2. (x \in T => x \in S) /\ (h < g => (x \in S => x \in T))
  BY <1>1
<1>3. ShortComputeScan(p.start, p.end, g, m) = SetToBag(T)
  BY DEF ShortComputeScan
<1>4. DBComputeComputeIndex(p.start, p.end) = SetToBag(S)
  BY DEF DBComputeComputeIndex
<1> HIDE DEF S, T
<1> QED
  BY <1>2, <1>3, <1>4, CopiesSet

LEMMA ShortBag ==
    ASSUME NEW first, NEW last, NEW g, NEW m, visible \subseteq Heights
    PROVE  /\ IsABag(ShortComputeScan(first, last, g, m))
           /\ DOMAIN ShortComputeScan(first, last, g, m) \subseteq AllPayments
<1> DEFINE S == {y \in UNION {Payments[i] : i \in (first .. last) \cap visible} :
                     y[1] < g \/ (y[1] = g /\ y[2] < m)}
<1>1. S \subseteq AllPayments
  BY DEF AllPayments
<1> HIDE DEF S
<1>2. ShortComputeScan(first, last, g, m) = SetToBag(S)
  BY DEF ShortComputeScan, S
<1> QED
  BY <1>1, <1>2, SetToBagIs

\* What a step of a scanner does to its results.
LEMMA FoundSteps ==
    ASSUME RebuildTypeOK, ScanTypes, NEW w \in Scanners,
           \/ CheckContext(w) \/ GetNextRange(w) \/ ScanPiece(w) \/ ScanFail(w)
    PROVE  /\ allFoundOutputs' = allFoundOutputs
           /\ \A v \in Scanners : v # w => found'[v] = found[v]
           /\ \/ found'[w] = EmptyBag \/ found'[w] = found[w]
              \/ /\ ScanPiece(w)
                 /\ found'[w] = found[w] (+) DBComputeComputeIndex(piece[w].start, piece[w].end)
BY DEF CheckContext, GetNextRange, ScanPiece, ScanFail, ScanTypes, queueVars, scannerVars

LEMMA NextSoundInv ==
    RebuildTypeOK /\ ScanTypes /\ SoundInv /\ [Next]_vars => SoundInv'
<1> SUFFICES ASSUME RebuildTypeOK, ScanTypes, SoundInv, [Next]_vars PROVE SoundInv'
  OBVIOUS
<1> USE DEF queueVars, scannerVars
<1>1. ASSUME UNCHANGED <<allFoundOutputs, found>> PROVE SoundInv'
  BY <1>1 DEF SoundInv
<1>2. ASSUME UNCHANGED scanVars \/ (\E c \in Scans : CallScan(c)) \/ CutPiece \/ Spawn \/ Cancel
      PROVE  SoundInv'
  BY <1>1, <1>2 DEF scanVars, CallScan, CutPiece, Spawn, Cancel
<1>3. ASSUME ReturnScan PROVE SoundInv'
  BY <1>3, EmptyBagIs DEF ReturnScan, SoundInv
<1>4. ASSUME NEW w \in Scanners,
             CheckContext(w) \/ GetNextRange(w) \/ ScanPiece(w) \/ ScanFail(w)
      PROVE  SoundInv'
  <2> DEFINE D == DBComputeComputeIndex(piece[w].start, piece[w].end)
  <2>1. IsABag(D) /\ DOMAIN D \subseteq AllPayments
    BY ScanBag DEF RebuildTypeOK
  <2>2. IsABag(found[w]) /\ DOMAIN found[w] \subseteq AllPayments
    BY DEF ScanTypes, SoundInv
  <2> HIDE DEF D
  <2>3. found'[w] = EmptyBag \/ found'[w] = found[w] \/ found'[w] = found[w] (+) D
    BY <1>4, FoundSteps DEF D
  <2>4. DOMAIN found'[w] \subseteq AllPayments
    <3>1. DOMAIN (found[w] (+) D) = DOMAIN found[w] \cup DOMAIN D
      BY <2>1, <2>2, BagSum
    <3>2. DOMAIN EmptyBag = {}
      BY EmptyBagIs
    <3> QED
      BY <2>1, <2>2, <2>3, <3>1, <3>2
  <2>5. allFoundOutputs' = allFoundOutputs /\ \A v \in Scanners : v # w => found'[v] = found[v]
    BY <1>4, FoundSteps
  <2> QED
    BY <2>4, <2>5 DEF SoundInv
<1>6. ASSUME NEW w \in Scanners, ScanShort(w) PROVE SoundInv'
  <2>1. PICK g, m : found' = [found EXCEPT ![w] =
                        @ (+) ShortComputeScan(piece[w].start, piece[w].end, g, m)]
    BY <1>6 DEF ScanShort
  <2> DEFINE D == ShortComputeScan(piece[w].start, piece[w].end, g, m)
  <2>2. IsABag(D) /\ DOMAIN D \subseteq AllPayments
    BY ShortBag DEF RebuildTypeOK
  <2>3. found'[w] = found[w] (+) D /\ \A v \in Scanners : v # w => found'[v] = found[v]
    BY <2>1 DEF ScanTypes
  <2> HIDE DEF D
  <2>4. DOMAIN found'[w] = DOMAIN found[w] \cup DOMAIN D
    BY <2>2, <2>3, BagSum DEF ScanTypes
  <2>5. allFoundOutputs' = allFoundOutputs
    BY <1>6 DEF ScanShort
  <2> QED
    BY <2>2, <2>3, <2>4, <2>5 DEF SoundInv
<1>5. ASSUME NEW w \in Scanners, SendResults(w) PROVE SoundInv'
  <2>1. /\ allFoundOutputs' = allFoundOutputs (+) found[w] /\ found'[w] = EmptyBag
        /\ \A v \in Scanners : v # w => found'[v] = found[v]
    BY <1>5 DEF SendResults, ScanTypes
  <2>2. IsABag(allFoundOutputs) /\ IsABag(found[w])
    BY DEF ScanTypes
  <2> QED
    <3>1. DOMAIN allFoundOutputs' = DOMAIN allFoundOutputs \cup DOMAIN found[w]
      BY <2>1, <2>2, BagSum
    <3>2. DOMAIN found'[w] = {}
      BY <2>1, EmptyBagIs
    <3> QED
      BY <2>1, <3>1, <3>2 DEF SoundInv
<1> QED
  BY <1>2, <1>3, <1>4, <1>5, <1>6 DEF Next, Caller, Scanner, vars

\* The pieces with a height that were taken and are not being scanned any more.
Finished(h) == {j \in Cover(h) : j <= index /\ \A w \in Scanning : piece[w] # ranges[j]}

\* The copies of a payment in the results of the call and of the scanners.
Total(x) == Copies(x, allFoundOutputs) + Cardinality(CopySet(found, x))

\* A scanner has lost what it had found.
Lost == \E w \in Scanners : wspc[w] \in {"failed", "gone"}

\* There is at most one copy per finished piece, none of a height whose rows are not
\* visible, and, as long as no scanner has lost its results, exactly one per finished piece
\* for every height whose rows were visible at the call and always read to the end.
CountOf(h, x) ==
    /\ IsFiniteSet(CopySet(found, x))
    /\ Total(x) <= Cardinality(Finished(h))
    /\ h \notin visible => Total(x) = 0
    /\ h \in visibleAtCall \ unread /\ ~Lost => Total(x) = Cardinality(Finished(h))

CountInv == ~Wraps(scan) => \A h \in Heights : \A x \in Payments[h] : CountOf(h, x)

LEMMA FinishedFinite ==
    ASSUME ScanTypes, NEW h
    PROVE  IsFiniteSet(Finished(h)) /\ Cardinality(Finished(h)) \in Nat
<1>1. Finished(h) \subseteq 1 .. Len(ranges) /\ IsFiniteSet(1 .. Len(ranges))
  BY FS_Interval DEF Finished, Cover, ScanTypes
<1> QED
  BY <1>1, FS_Subset, FS_CardinalityType

LEMMA NoCopies ==
    ASSUME NEW f, NEW x, \A w \in Scanners : f[w] = EmptyBag
    PROVE  CopySet(f, x) = {} /\ IsFiniteSet(CopySet(f, x)) /\ Cardinality(CopySet(f, x)) = 0
<1>1. CopySet(f, x) = {}
  <2>1. ASSUME NEW p \in CopySet(f, x) PROVE FALSE
    <3>1. p[1] \in Scanners /\ p[2] \in Nat /\ 1 <= p[2] /\ p[2] <= Copies(x, f[p[1]])
      BY DEF CopySet
    <3>2. Copies(x, f[p[1]]) = 0
      BY <3>1, CopiesEmpty
    <3> QED
      BY <3>1, <3>2
  <2> QED
    BY <2>1
<1> QED
  BY <1>1, FS_EmptySet

LEMMA NextCountInv ==
    /\ RebuildTypeOK /\ ScanTypes /\ ScanTypes' /\ QuietInv /\ QueueInv /\ WorkerInv /\ PieceInv
    /\ CountInv /\ [Next]_vars
    => CountInv'
<1> SUFFICES ASSUME RebuildTypeOK, ScanTypes, ScanTypes', QuietInv, QueueInv, WorkerInv, PieceInv,
                    CountInv, [Next]_vars, ~Wraps(scan'), NEW h \in Heights, NEW x \in Payments[h]
             PROVE  CountOf(h, x)'
  BY DEF CountInv
<1> USE DEF queueVars, scannerVars
<1>v. visible \subseteq visible' /\ visible \subseteq Heights
  BY VisibleGrows DEF RebuildTypeOK
<1>b. IsABag(allFoundOutputs) /\ Copies(x, allFoundOutputs) \in Nat
  BY CopiesType DEF ScanTypes
<1>w. ASSUME NEW w \in Scanners PROVE IsABag(found[w]) /\ Copies(x, found[w]) \in Nat
  BY CopiesType DEF ScanTypes
<1>f. IsFiniteSet(Finished(h)) /\ Cardinality(Finished(h)) \in Nat
  BY FinishedFinite
<1>o. ASSUME scan' = scan PROVE CountOf(h, x) /\ ~Wraps(scan)
  BY <1>o DEF CountInv
<1>n. ASSUME scan' = scan PROVE Cardinality(CopySet(found, x)) \in Nat /\ Total(x) \in Nat
  <2>1. Cardinality(CopySet(found, x)) \in Nat
    BY <1>o, <1>n, FS_CardinalityType DEF CountOf
  <2> QED
    BY <2>1, <1>b DEF Total
<1>1. ASSUME UNCHANGED <<allFoundOutputs, found, scan, ranges, index, wspc, piece, visibleAtCall,
                       unread>>
      PROVE  CountOf(h, x)'
  <2>1. Total(x)' = Total(x) /\ Finished(h)' = Finished(h) /\ Lost' = Lost
        /\ CopySet(found, x)' = CopySet(found, x)
    BY <1>1 DEF Total, Finished, Cover, Scanning, Lost, CopySet
  <2> QED
    BY <1>1, <1>o, <1>v, <2>1 DEF CountOf
<1>2. ASSUME UNCHANGED scanVars \/ Cancel PROVE CountOf(h, x)'
  BY <1>1, <1>2 DEF scanVars, Cancel
\* Before the scanners start.
<1>3. ASSUME (\E c \in Scans : CallScan(c)) \/ CutPiece \/ Spawn PROVE CountOf(h, x)'
  <2>1. /\ index' = 0 /\ allFoundOutputs' = EmptyBag
        /\ \A w \in Scanners : found'[w] = EmptyBag
    BY <1>3 DEF CallScan, CutPiece, Spawn, QuietInv
  <2>2. Finished(h)' = {}
    <3>1. \A j \in DOMAIN ranges' : ~(j <= 0)
      BY DEF ScanTypes
    <3> QED
      BY <2>1, <3>1 DEF Finished, Cover
  <2>3. IsFiniteSet(CopySet(found', x)) /\ Cardinality(CopySet(found', x)) = 0
    BY <2>1, NoCopies
  <2>4. CopySet(found, x)' = CopySet(found', x) /\ Copies(x, allFoundOutputs') = 0
    BY <2>1, CopiesEmpty DEF CopySet
  <2>5. Total(x)' = 0
    BY <2>3, <2>4 DEF Total
  <2> QED
    BY <2>2, <2>3, <2>4, <2>5, FS_EmptySet DEF CountOf
\* The results of one scanner change from found[w] to B.
<1>c. ASSUME NEW w \in Scanners, scan' = scan, IsABag(found'[w]),
             \A v \in Scanners : v # w => found'[v] = found[v]
      PROVE  /\ IsFiniteSet(CopySet(found, x)') /\ Copies(x, found'[w]) \in Nat
             /\ Cardinality(CopySet(found, x)') \in Nat
             /\ Cardinality(CopySet(found, x)') + Copies(x, found[w])
                    = Cardinality(CopySet(found, x)) + Copies(x, found'[w])
  <2>1. CopySet(found, x)' = CopySet(found', x)
    BY DEF CopySet
  <2>2. Copies(x, found'[w]) \in Nat /\ Copies(x, found[w]) \in Nat
    BY <1>c, <1>w, CopiesType
  <2>3. IsFiniteSet(CopySet(found, x))
    BY <1>c, <1>o DEF CountOf
  <2>4. /\ IsFiniteSet(CopySet(found', x))
        /\ Cardinality(CopySet(found', x)) + Copies(x, found[w])
               = Cardinality(CopySet(found, x)) + Copies(x, found'[w])
    BY <1>c, <2>2, <2>3, CopyCount
  <2> QED
    BY <2>1, <2>2, <2>4, FS_CardinalityType
<1>4. ASSUME NEW w \in Scanners, CheckContext(w) PROVE CountOf(h, x)'
  <2>1. /\ UNCHANGED <<scan, ranges, index, piece, allFoundOutputs, visibleAtCall, visible,
                      unread>>
        /\ Scanning' = Scanning
    BY <1>4 DEF CheckContext, Scanning, ScanTypes, rebuildVars, storeVars
  <2>2. Finished(h)' = Finished(h)
    BY <2>1 DEF Finished, Cover
  <2>3. CASE ~cancelled
    <3>1. \A v \in Scanners : found'[v] = found[v]
      BY <1>4, <2>3 DEF CheckContext, ScanTypes
    <3>2. Lost' = Lost
      BY <1>4, <2>3 DEF CheckContext, ScanTypes, Lost
    <3>3. CopySet(found, x)' = CopySet(found, x)
      BY <3>1 DEF CopySet
    <3>4. Total(x)' = Total(x)
      BY <2>1, <3>3 DEF Total
    <3> QED
      BY <1>o, <2>1, <2>2, <3>2, <3>3, <3>4 DEF CountOf
  <2>4. CASE cancelled
    <3>1. /\ found'[w] = EmptyBag /\ \A v \in Scanners : v # w => found'[v] = found[v]
          /\ Lost'
      BY <1>4, <2>4 DEF CheckContext, ScanTypes, Lost
    <3>2. /\ IsFiniteSet(CopySet(found, x)') /\ Cardinality(CopySet(found, x)') \in Nat
          /\ Cardinality(CopySet(found, x)') <= Cardinality(CopySet(found, x))
      BY <1>c, <1>n, <1>w, <2>1, <3>1, EmptyBagIs, CopiesEmpty
    <3>3. Total(x)' <= Total(x) /\ Total(x)' \in Nat
      BY <1>b, <1>n, <2>1, <3>2 DEF Total
    <3> QED
      BY <1>o, <1>f, <1>n, <2>1, <2>2, <3>1, <3>2, <3>3 DEF CountOf
  <2> QED
    BY <2>3, <2>4
<1>5. ASSUME NEW w \in Scanners, GetNextRange(w) PROVE CountOf(h, x)'
  <2>1. /\ UNCHANGED <<scan, ranges, found, allFoundOutputs, visibleAtCall, visible, unread>>
        /\ index' = index + 1 /\ w \notin Scanning /\ index \in Nat
        /\ \A v \in Scanners : v # w => piece'[v] = piece[v]
    BY <1>5 DEF GetNextRange, ScanTypes, Scanning, rebuildVars, storeVars
  <2>2. Lost' = Lost
    BY <1>5 DEF GetNextRange, ScanTypes, Lost
  <2>3. Finished(h)' = Finished(h)
    <3>0. DOMAIN ranges = 1 .. Len(ranges) /\ Len(ranges) \in Nat
      BY DEF ScanTypes
    <3>1. CASE index < Len(ranges)
      <4>1. Scanning' = Scanning \cup {w} /\ piece'[w] = ranges[index + 1]
        BY <1>5, <3>1 DEF GetNextRange, Scanning, ScanTypes
      <4>2. index + 1 \in DOMAIN ranges
        BY <2>1, <3>0, <3>1
      <4>3. \A j \in DOMAIN ranges : j # index + 1 => piece'[w] # ranges[j]
        BY <1>o, <2>1, <4>1, <4>2, DistinctPieces
      <4>4. ASSUME NEW j \in Finished(h)' PROVE j \in Finished(h)
        <5>1. /\ j \in Cover(h) /\ j \in DOMAIN ranges /\ j <= index + 1
              /\ \A v \in Scanning' : piece'[v] # ranges[j]
          BY <2>1 DEF Finished, Cover
        <5>2. j # index + 1
          BY <4>1, <5>1
        <5>3. \A v \in Scanning : piece[v] # ranges[j]
          BY <2>1, <4>1, <5>1 DEF Scanning
        <5> QED
          BY <2>1, <3>0, <5>1, <5>2, <5>3 DEF Finished
      <4>5. ASSUME NEW j \in Finished(h) PROVE j \in Finished(h)'
        <5>1. /\ j \in Cover(h) /\ j \in DOMAIN ranges /\ j <= index
              /\ \A v \in Scanning : piece[v] # ranges[j]
          BY DEF Finished, Cover
        <5>2. \A v \in Scanning' : piece'[v] # ranges[j]
          BY <2>1, <3>0, <4>1, <4>3, <5>1 DEF Scanning
        <5>3. j <= index + 1 /\ Cover(h)' = Cover(h)
          BY <2>1, <3>0, <5>1 DEF Cover
        <5> QED
          BY <2>1, <5>1, <5>2, <5>3 DEF Finished
      <4> QED
        BY <4>4, <4>5
    <3>2. CASE ~(index < Len(ranges))
      <4>1. Scanning' = Scanning /\ piece' = piece /\ \A j \in DOMAIN ranges : j <= index /\ j <= index + 1
        BY <1>5, <2>1, <3>0, <3>2 DEF GetNextRange, Scanning, ScanTypes
      <4> QED
        BY <2>1, <4>1 DEF Finished, Cover
    <3> QED
      BY <3>1, <3>2
  <2>4. Total(x)' = Total(x) /\ CopySet(found, x)' = CopySet(found, x)
    BY <2>1 DEF Total, CopySet
  <2> QED
    BY <1>o, <2>1, <2>2, <2>3, <2>4 DEF CountOf
\* The piece of w is finished now.
<1>6. ASSUME NEW w \in Scanners, ScanPiece(w) \/ ScanFail(w) \/ ScanShort(w)
      PROVE  /\ \E j \in DOMAIN ranges :
                    /\ piece[w] = ranges[j] /\ j \notin Finished(h)
                    /\ Finished(h)' = IF j \in Cover(h) THEN Finished(h) \cup {j} ELSE Finished(h)
             /\ UNCHANGED <<scan, ranges, allFoundOutputs, visibleAtCall, visible>>
  <2>1. /\ UNCHANGED <<scan, ranges, allFoundOutputs, visibleAtCall, visible, index>>
        /\ Scanning' = Scanning \ {w} /\ w \in Scanning
        /\ \A v \in Scanners : v # w => piece'[v] = piece[v]
    BY <1>6 DEF ScanPiece, ScanFail, ScanShort, ScanTypes, Scanning, rebuildVars, storeVars
  <2>2. PICK j \in DOMAIN ranges : j <= index /\ piece[w] = ranges[j]
    BY <1>o, <2>1 DEF PieceInv
  <2>3. \A i \in DOMAIN ranges : ranges[i] = piece[w] => i = j
    BY <1>o, <2>1, <2>2, DistinctPieces
  <2>4. \A v \in Scanning : v # w => piece[v] # piece[w]
    BY <1>o, <2>1 DEF PieceInv
  <2>5. j \notin Finished(h)
    BY <2>1, <2>2 DEF Finished
  <2>6. Cover(h)' = Cover(h) /\ Cover(h) \subseteq DOMAIN ranges
    BY <2>1 DEF Cover
  <2>7. ASSUME NEW i \in Cover(h)
        PROVE  i \in Finished(h)' <=> (i \in Finished(h) \/ i = j)
    <3>1. i \in Finished(h)' <=> i <= index /\ \A v \in Scanning \ {w} : piece[v] # ranges[i]
      BY <2>1, <2>6 DEF Finished, Scanning
    <3>2. i \in Finished(h) <=> i <= index /\ \A v \in Scanning : piece[v] # ranges[i]
      BY DEF Finished
    <3> QED
      BY <2>2, <2>3, <2>4, <2>6, <3>1, <3>2
  <2>8. Finished(h)' \subseteq Cover(h) /\ Finished(h) \subseteq Cover(h)
    BY <2>6 DEF Finished
  <2>9. Finished(h)' = IF j \in Cover(h) THEN Finished(h) \cup {j} ELSE Finished(h)
    BY <2>5, <2>7, <2>8
  <2> QED
    BY <2>1, <2>2, <2>5, <2>9
<1>7. ASSUME NEW w \in Scanners, ScanPiece(w) \/ ScanFail(w) \/ ScanShort(w) PROVE CountOf(h, x)'
  <2>1. /\ UNCHANGED <<scan, ranges, allFoundOutputs, visibleAtCall, visible>>
        /\ \A v \in Scanners : v # w => found'[v] = found[v]
    BY <1>6, <1>7, FoundSteps DEF ScanShort, ScanTypes
  <2>2. PICK j \in DOMAIN ranges :
            /\ piece[w] = ranges[j] /\ j \notin Finished(h)
            /\ Finished(h)' = IF j \in Cover(h) THEN Finished(h) \cup {j} ELSE Finished(h)
    BY <1>6, <1>7
  <2>3. Cardinality(Finished(h)') = Cardinality(Finished(h)) + (IF j \in Cover(h) THEN 1 ELSE 0)
    <3>1. Cardinality(Finished(h) \cup {j}) = Cardinality(Finished(h)) + 1
      BY <1>f, <2>2, FS_AddElement
    <3> QED
      BY <1>f, <2>2, <3>1
  <2>4. CASE found'[w] = EmptyBag /\ wspc'[w] = "failed"
    <3>1. Lost'
      BY <2>4 DEF Lost
    <3>2. /\ IsFiniteSet(CopySet(found, x)') /\ Cardinality(CopySet(found, x)') \in Nat
          /\ Cardinality(CopySet(found, x)') <= Cardinality(CopySet(found, x))
      BY <1>c, <1>n, <1>w, <2>1, <2>4, EmptyBagIs, CopiesEmpty
    <3>3. Total(x)' <= Total(x) /\ Total(x)' \in Nat
      BY <1>b, <1>n, <2>1, <3>2 DEF Total
    <3> QED
      BY <1>o, <1>f, <1>n, <2>1, <2>3, <3>1, <3>2, <3>3 DEF CountOf
  <2>5. ASSUME NEW D, IsABag(D), Copies(x, D) \in {0, 1},
               found'[w] = found[w] (+) D, wspc' = [wspc EXCEPT ![w] = "check"], wspc[w] = "scan",
               Copies(x, D) <= (IF h \in visible /\ j \in Cover(h) THEN 1 ELSE 0),
               unread \subseteq unread',
               h \in visible \ unread' =>
                   Copies(x, D) = (IF h \in visible /\ j \in Cover(h) THEN 1 ELSE 0)
        PROVE  CountOf(h, x)'
    <3>4. Copies(x, found'[w]) = Copies(x, found[w]) + Copies(x, D) /\ IsABag(found'[w])
      BY <1>w, <2>5, CopiesSum, BagSum
    <3>5. /\ IsFiniteSet(CopySet(found, x)') /\ Cardinality(CopySet(found, x)') \in Nat
          /\ Cardinality(CopySet(found, x)') + Copies(x, found[w])
                 = Cardinality(CopySet(found, x)) + Copies(x, found'[w])
      BY <1>c, <2>1, <3>4
    <3>6. Total(x)' = Total(x) + Copies(x, D)
      <4>1. Copies(x, D) \in Nat /\ Copies(x, found[w]) \in Nat /\ Cardinality(CopySet(found, x)) \in Nat
        BY <1>w, <1>n, <2>1, <2>5
      <4> QED
        BY <1>b, <2>1, <3>4, <3>5, <4>1 DEF Total
    <3>8. Lost => Lost'
      BY <2>5 DEF Lost, ScanTypes
    <3>9. visibleAtCall \subseteq visible
      BY DEF WorkerInv
    <3>10. Copies(x, D) \in Nat
      BY <2>5
    <3> QED
      BY <1>o, <1>f, <1>n, <2>1, <2>3, <2>5, <3>5, <3>6, <3>8, <3>9, <3>10 DEF CountOf
  <2>p. piece[w] \in Calls /\ (j \in Cover(h) <=> piece[w].start <= h /\ h <= piece[w].end)
    BY <2>2 DEF ScanTypes, Cover
  <2>6. CASE /\ found'[w] = found[w] (+) DBComputeComputeIndex(piece[w].start, piece[w].end)
             /\ wspc' = [wspc EXCEPT ![w] = "check"] /\ wspc[w] = "scan" /\ unread' = unread
    <3> DEFINE D == DBComputeComputeIndex(piece[w].start, piece[w].end)
    <3>1. IsABag(D)
      BY <1>v, ScanBag
    <3>2. Copies(x, D) = IF h \in visible /\ j \in Cover(h) THEN 1 ELSE 0
      BY <1>v, <2>p, ScanCopies
    <3> HIDE DEF D
    <3>3. found'[w] = found[w] (+) D
      BY <2>6 DEF D
    <3> QED
      BY <2>5, <2>6, <3>1, <3>2, <3>3
  <2>7. CASE ScanShort(w)
    <3>1. PICK g, m :
              /\ g \in piece[w].start .. piece[w].end
              /\ found' = [found EXCEPT ![w] =
                     @ (+) ShortComputeScan(piece[w].start, piece[w].end, g, m)]
              /\ unread' = unread \cup (g .. piece[w].end)
      BY <2>7 DEF ScanShort
    <3>2. /\ piece[w].start \in Nat /\ piece[w].end \in Nat /\ h \in Nat /\ g \in Nat
      BY <2>p, <3>1, ScanConstants DEF Calls
    <3> DEFINE D == ShortComputeScan(piece[w].start, piece[w].end, g, m)
               all == Copies(x, DBComputeComputeIndex(piece[w].start, piece[w].end))
    <3>3. IsABag(D)
      BY <1>v, ShortBag
    <3>4. Copies(x, D) \in {0, 1} /\ Copies(x, D) <= all /\ (h < g => Copies(x, D) = all)
      BY <1>v, <2>p, <3>2, ShortCopies
    <3>5. all = IF h \in visible /\ j \in Cover(h) THEN 1 ELSE 0
      BY <1>v, <2>p, ScanCopies
    <3>6. found'[w] = found[w] (+) D
      BY <3>1 DEF ScanTypes
    <3> HIDE DEF D, all
    <3>7. wspc' = [wspc EXCEPT ![w] = "check"] /\ wspc[w] = "scan"
      BY <2>7 DEF ScanShort
    <3>8. h \notin unread' => Copies(x, D) = all
      <4>1. CASE h < g
        BY <3>4, <4>1
      <4>2. CASE ~(h < g) /\ h \notin unread'
        <5>1. ~(h <= piece[w].end)
          BY <3>1, <3>2, <4>2
        <5> QED
          BY <2>p, <3>4, <3>5, <5>1
      <4> QED
        BY <4>1, <4>2
    <3> QED
      BY <2>5, <3>1, <3>3, <3>4, <3>5, <3>6, <3>7, <3>8
  <2> QED
    BY <1>7, <2>4, <2>6, <2>7 DEF ScanPiece, ScanFail, ScanTypes
<1>8. ASSUME NEW w \in Scanners, SendResults(w) PROVE CountOf(h, x)'
  <2>1. /\ UNCHANGED <<scan, ranges, index, piece, visibleAtCall, visible, unread>> /\ Scanning' = Scanning
        /\ allFoundOutputs' = allFoundOutputs (+) found[w] /\ found'[w] = EmptyBag
        /\ \A v \in Scanners : v # w => found'[v] = found[v]
    BY <1>8 DEF SendResults, Scanning, ScanTypes, rebuildVars, storeVars
  <2>2. Lost => Lost'
    BY <1>8 DEF SendResults, Lost, ScanTypes
  <2>3. Finished(h)' = Finished(h)
    BY <2>1 DEF Finished, Cover
  <2>4. Copies(x, allFoundOutputs') = Copies(x, allFoundOutputs) + Copies(x, found[w])
    BY <1>b, <1>w, <2>1, CopiesSum
  <2>5. /\ IsFiniteSet(CopySet(found, x)') /\ Cardinality(CopySet(found, x)') \in Nat
        /\ Cardinality(CopySet(found, x)') + Copies(x, found[w]) = Cardinality(CopySet(found, x)) + 0
    BY <1>c, <2>1, EmptyBagIs, CopiesEmpty
  <2>6. Total(x)' = Total(x)
    BY <1>b, <1>w, <1>n, <2>1, <2>4, <2>5 DEF Total
  <2> QED
    BY <1>o, <2>1, <2>2, <2>3, <2>5, <2>6 DEF CountOf
<1>9. ASSUME ReturnScan PROVE CountOf(h, x)'
  <2>1. UNCHANGED <<scan, ranges, index, piece, wspc, found, visibleAtCall, visible, unread>>
    BY <1>9 DEF ReturnScan, rebuildVars, storeVars
  <2>2. CASE allFoundOutputs' = allFoundOutputs
    BY <1>1, <2>1, <2>2
  <2>3. CASE allFoundOutputs' = EmptyBag /\ \E w \in Scanners : wspc[w] = "failed"
    <3>1. Lost' /\ Finished(h)' = Finished(h) /\ CopySet(found, x)' = CopySet(found, x)
      BY <2>1, <2>3 DEF Lost, Finished, Cover, Scanning, CopySet
    <3>2. Total(x)' = Cardinality(CopySet(found, x))
      BY <1>n, <2>1, <2>3, <3>1, CopiesEmpty DEF Total
    <3>3. Total(x)' \in Nat /\ Total(x)' <= Total(x)
      BY <1>n, <1>b, <2>1, <3>2 DEF Total
    <3> QED
      BY <1>o, <1>f, <1>n, <2>1, <3>1, <3>3 DEF CountOf
  <2> QED
    BY <1>9, <2>2, <2>3 DEF ReturnScan
<1> QED
  BY <1>2, <1>3, <1>4, <1>5, <1>7, <1>8, <1>9 DEF Next, Caller, Scanner, vars

----------------------------------------------------------------------------
\* The inductive invariant of the scan.
ScanInv ==
    /\ ScanTypes /\ QuietInv /\ ProgressInv
    /\ QueueInv /\ WorkerInv /\ PieceInv /\ SoundInv /\ CountInv

LEMMA InitScanInv == Init => ScanInv
<1> SUFFICES ASSUME Init PROVE ScanInv
  OBVIOUS
<1>1. ScanTypes /\ QuietInv /\ ProgressInv
  BY InitScanTypes, InitProgressInv
<1>2. /\ spc = "idle" /\ ranges = <<>> /\ visibleAtCall = {} /\ allFoundOutputs = EmptyBag
      /\ index = 0 /\ \A w \in Scanners : wspc[w] = "off" /\ found[w] = EmptyBag
  BY DEF Init
<1>3. QueueInv /\ WorkerInv
  BY <1>2 DEF QueueInv, WorkerInv
<1>4. PieceInv
  BY <1>2 DEF PieceInv, Scanning
<1>5. SoundInv
  BY <1>2, EmptyBagIs DEF SoundInv
<1>6. ASSUME NEW h \in Heights, NEW x \in Payments[h] PROVE CountOf(h, x)
  <2>1. IsFiniteSet(CopySet(found, x)) /\ Cardinality(CopySet(found, x)) = 0
    BY <1>2, NoCopies
  <2>2. Total(x) = 0
    BY <1>2, <2>1, CopiesEmpty DEF Total
  <2>3. Finished(h) = {}
    BY <1>2 DEF Finished, Cover
  <2> QED
    BY <2>1, <2>2, <2>3, FS_EmptySet DEF CountOf
<1> QED
  BY <1>1, <1>3, <1>4, <1>5, <1>6 DEF ScanInv, CountInv

LEMMA NextScanInv == RebuildInv /\ ScanInv /\ [Next]_vars => ScanInv'
<1> SUFFICES ASSUME RebuildInv, ScanInv, [Next]_vars PROVE ScanInv'
  OBVIOUS
<1> USE DEF ScanInv, RebuildInv
<1>1. ScanTypes'
  BY NextScanTypes
<1>2. QuietInv' /\ ProgressInv' /\ QueueInv' /\ WorkerInv' /\ PieceInv' /\ SoundInv'
  BY NextQuietInv, NextProgressInv, NextQueueInv, NextWorkerInv, NextPieceInv, NextSoundInv
<1>3. CountInv'
  BY <1>1, NextCountInv
<1> QED
  BY <1>1, <1>2, <1>3

\* When the call returns nil without a cancellation, every piece is finished and counted.
LEMMA AllFinished ==
    ASSUME ScanInv, spc = "nil", ~Wraps(scan)
    PROVE  /\ \A w \in Scanners : found[w] = EmptyBag
           /\ \A h : Finished(h) \subseteq Cover(h)
           /\ ~cancelled => /\ ~Lost /\ progress = Len(ranges)
                            /\ \A h : Finished(h) = Cover(h)
<1> USE DEF ScanInv
<1>1. \A w \in Scanners : wspc[w] \in {"off", "sent", "gone"} /\ found[w] = EmptyBag
  BY DEF WorkerInv
<1>2. Scanning = {}
  BY <1>1 DEF Scanning
<1>3. \A h : Finished(h) \subseteq Cover(h)
  BY DEF Finished
<1>4. ASSUME ~cancelled
      PROVE  ~Lost /\ progress = Len(ranges) /\ \A h : Finished(h) = Cover(h)
  <2>1. \A w \in Scanners : wspc[w] \in {"off", "sent"}
    BY <1>1, <1>4 DEF WorkerInv
  <2>2. index \in Nat /\ Len(ranges) \in Nat /\ progress \in Nat /\ ranges \in Seq(Calls)
    BY DEF ScanTypes
  <2>3. index >= Len(ranges)
    <3>1. CASE ranges = <<>>
      BY <2>2, <3>1
    <3>2. CASE ranges # <<>>
      <4>1. PICK w \in Scanners : wspc[w] # "off"
        BY <3>2 DEF WorkerInv
      <4> QED
        BY <2>1, <4>1 DEF WorkerInv
    <3> QED
      BY <3>1, <3>2
  <2>4. ~Lost /\ \A w \in Scanners : wspc[w] # "failed"
    BY <2>1 DEF Lost
  <2>5. Cardinality(Scanning) = 0
    BY <1>2, FS_EmptySet
  <2>6. progress = Len(ranges)
    BY <2>2, <2>3, <2>4, <2>5 DEF ProgressInv
  <2>7. \A h : Finished(h) = Cover(h)
    <3>1. \A j \in DOMAIN ranges : j <= index
      BY <2>2, <2>3
    <3> QED
      BY <1>2, <3>1 DEF Finished, Cover
  <2> QED
    BY <2>4, <2>6, <2>7
<1> QED
  BY <1>1, <1>3, <1>4

\* However many workers take pieces of the range in whatever order, while commits of the
\* rebuild go on and the context may be cancelled, a nil error of
\* DBComputeComputeIndexParallel comes with every payment of a range of several heights
\* whose rows were visible at the call and before the row of its piece at which an iterator
\* may have failed, at most once (twice at an inner boundary), and with nothing else.
THEOREM ScanExactCorrect == Spec => []ScanExact
<1>1. RebuildInv /\ ScanInv => ScanExact
  <2> SUFFICES ASSUME RebuildInv, ScanInv, spc = "nil", ~Wraps(scan)
               PROVE  /\ \A h \in Heights : \A i \in DOMAIN Rows[h] : \A k \in RowPayments(Rows[h][i]) :
                             LET n == Copies(<<h, i, k>>, allFoundOutputs)
                             IN  /\ n <= (IF h \in visible THEN AtMost(scan, h) ELSE 0)
                                 /\ /\ ~cancelled /\ h \in visibleAtCall \ unread
                                    /\ scan.start < scan.end /\ h \in scan.start .. scan.end
                                    => n >= 1
                      /\ \A x \in BagToSet(allFoundOutputs) : x[3] \in RowPayments(Rows[x[1]][x[2]])
                      /\ ~cancelled => progress = Len(ranges)
    BY DEF ScanExact
  <2> USE DEF ScanInv
  <2>1. ASSUME NEW h \in Heights, NEW i \in DOMAIN Rows[h], NEW k \in RowPayments(Rows[h][i])
        PROVE  LET n == Copies(<<h, i, k>>, allFoundOutputs)
               IN  /\ n <= (IF h \in visible THEN AtMost(scan, h) ELSE 0)
                   /\ /\ ~cancelled /\ h \in visibleAtCall \ unread
                      /\ scan.start < scan.end /\ h \in scan.start .. scan.end
                      => n >= 1
    <3> DEFINE x == <<h, i, k>>
    <3>1. x \in Payments[h]
      <4>1. k \in ToSet(ReceiverScan(Rows[h][i]))
        BY ScanFindsPayments
      <4> QED
        BY <4>1 DEF Payments
    <3> HIDE DEF x
    <3>2. CountOf(h, x)
      BY <3>1 DEF CountInv
    <3>3. Total(x) = Copies(x, allFoundOutputs) /\ Copies(x, allFoundOutputs) \in Nat
      <4>1. Cardinality(CopySet(found, x)) = 0
        BY AllFinished, NoCopies
      <4>2. Copies(x, allFoundOutputs) \in Nat
        BY CopiesType DEF ScanTypes
      <4> QED
        BY <4>1, <4>2 DEF Total
    <3>4. IsFiniteSet(Cover(h)) /\ Cardinality(Cover(h)) = Scanned(scan, h)
      BY CoverCount
    <3>5. Finished(h) \subseteq Cover(h) /\ (~cancelled => ~Lost /\ Finished(h) = Cover(h))
      BY AllFinished
    <3>6. Cardinality(Finished(h)) <= Scanned(scan, h) /\ Cardinality(Finished(h)) \in Nat
          /\ Scanned(scan, h) \in Nat
      BY <3>4, <3>5, FS_Subset, FS_CardinalityType
    <3>7. Copies(x, allFoundOutputs) <= (IF h \in visible THEN AtMost(scan, h) ELSE 0)
      <4>1. Scanned(scan, h) <= AtMost(scan, h)
        BY <3>6 DEF Scanned, AtMost
      <4>2. AtMost(scan, h) \in Nat
        BY DEF AtMost
      <4> QED
        BY <4>1, <4>2, <3>2, <3>3, <3>6 DEF CountOf
    <3>8. ~cancelled /\ h \in visibleAtCall \ unread => Copies(x, allFoundOutputs) = Scanned(scan, h)
      BY <3>2, <3>3, <3>4, <3>5 DEF CountOf
    <3>9. scan.start < scan.end /\ h \in scan.start .. scan.end => Scanned(scan, h) >= 1
      <4>1. scan.start \in Nat /\ scan.end \in Nat /\ h \in Nat
        BY ScanConstants DEF ScanTypes
      <4> QED
        BY <4>1 DEF Scanned, AtMost
    <3> QED
      BY <3>3, <3>7, <3>8, <3>9 DEF x
  <2>2. ASSUME NEW x \in BagToSet(allFoundOutputs)
        PROVE  x[3] \in RowPayments(Rows[x[1]][x[2]])
    <3>1. PICK h \in Heights : x \in Payments[h]
      BY DEF SoundInv, AllPayments, BagToSet
    <3>2. x[1] = h /\ x[2] \in DOMAIN Rows[h] /\ x[3] \in ToSet(ReceiverScan(Rows[h][x[2]]))
      BY <3>1, PaymentOf
    <3> QED
      BY <3>2, ScanFindsPayments
  <2>3. ~cancelled => progress = Len(ranges)
    BY AllFinished
  <2> QED
    BY <2>1, <2>2, <2>3
<1> QED
  BY <1>1, InitScanInv, NextScanInv, RebuildCorrect, PTL DEF Spec
=============================================================================

------------------------ MODULE ChainFollowerProofs ------------------------
(***************************************************************************)
(* Proofs about ChainFollower for every block tree, every batch size and   *)
(* channel capacity, every start height and every set of command lines.    *)
(***************************************************************************)
EXTENDS ChainFollower, GapScanProofs, FiniteSetTheorems, WellFoundedInduction

LEMMA FollowerConstants ==
    /\ MaxHeight \in Nat /\ AllHeights = 0..MaxHeight /\ AllHeights \subseteq Nat /\ 0 \in AllHeights
    /\ NoBlock \notin Blocks /\ FirstBest \in Blocks /\ Genesis \in Blocks
    /\ \A b \in Blocks : HeightOf[b] \in AllHeights /\ HeightOf[b] \in Nat
    /\ SyncStartHeight \in AllHeights /\ SyncStartHeight \in Nat /\ MaxStops \in Nat
    /\ WriterCap \in Nat \ {0} /\ BatchSize \in Nat \ {0} /\ Commands # {}
    /\ \A c \in Commands : /\ c.name \in {"run", "sync"}
                           /\ c.start \in AllHeights /\ c.end \in AllHeights
BY GapAssumption, FollowerAssumption DEF AllHeights, CommandLine

\* A set of naturals has a smallest element, and one of heights a largest.
LEMMA Smallest ==
    ASSUME NEW S \in SUBSET Nat, S # {}
    PROVE  \E n \in S : \A m \in S : n <= m
<1>1. PICK n \in S : \A m \in S : <<m, n>> \notin OpToRel(<, Nat)
  BY NatLessThanWellFounded, WFMin
<1>2. ASSUME NEW m \in S PROVE n <= m
  <2>1. ~(m < n)
    BY <1>1 DEF OpToRel
  <2> QED
    BY <2>1
<1> QED
  BY <1>2

LEMMA MaxIs ==
    ASSUME NEW S \in SUBSET AllHeights, S # {}
    PROVE  Max(S) \in S /\ \A m \in S : m <= Max(S)
<1> DEFINE T == {n \in Nat : n <= MaxHeight /\ MaxHeight - n \in S}
<1>1. T # {}
  <2>1. PICK h \in S : TRUE
    OBVIOUS
  <2>2. MaxHeight - h \in T
    BY <2>1, FollowerConstants
  <2> QED
    BY <2>2
<1>2. PICK n \in T : \A m \in T : n <= m
  BY <1>1, Smallest
<1>3. MaxHeight - n \in S /\ n \in Nat /\ MaxHeight \in Nat
  BY <1>2, FollowerConstants
<1>4. ASSUME NEW m \in S PROVE MaxHeight - n >= m
  <2>1. m \in 0..MaxHeight /\ MaxHeight \in Nat
    BY FollowerConstants
  <2>2. MaxHeight - m \in T
    BY <2>1
  <2> QED
    BY <1>2, <1>3, <2>1, <2>2
<1>5. \E x \in S : \A y \in S : x >= y
  BY <1>3, <1>4
<1>6. Max(S) \in S /\ \A y \in S : Max(S) >= y
  BY <1>5 DEF Max
<1> QED
  BY <1>6, FollowerConstants

\* The chain of a block goes from parent to parent down to height 0.
LEMMA ChainParent ==
    ASSUME NEW b \in Blocks
    PROVE  /\ b \in Chain[b] /\ Chain[b] \subseteq Blocks
           /\ \A x \in Chain[b] : HeightOf[x] # 0 =>
                  /\ Parent[x] \in Chain[b] /\ Parent[x] \in Blocks
                  /\ HeightOf[Parent[x]] = HeightOf[x] - 1
<1>1. b \in Chain[b] /\ Chain[b] \subseteq Blocks
  BY DEF Chain
<1>2. ASSUME NEW x \in Chain[b], HeightOf[x] # 0
      PROVE  /\ Parent[x] \in Chain[b] /\ Parent[x] \in Blocks
             /\ HeightOf[Parent[x]] = HeightOf[x] - 1
  <2>1. x \in Blocks /\ x # Genesis
    BY <1>1, <1>2, FollowerAssumption
  <2>2. Parent[x] \in Blocks /\ HeightOf[x] = HeightOf[Parent[x]] + 1 /\ Parent[x] # NoBlock
    BY <2>1, FollowerAssumption, FollowerConstants
  <2>3. ASSUME NEW S \in SUBSET Blocks, b \in S, \A y \in S : Parent[y] \in S \cup {NoBlock}
        PROVE  Parent[x] \in S
    <3>1. x \in S
      BY <2>3 DEF Chain
    <3> QED
      BY <2>2, <2>3, <3>1
  <2>4. Parent[x] \in Chain[b]
    BY <2>2, <2>3 DEF Chain
  <2>5. HeightOf[Parent[x]] \in Nat
    BY <2>2, FollowerConstants
  <2> QED
    BY <2>2, <2>4, <2>5
<1> QED
  BY <1>1, <1>2

\* Every block has an ancestor at each height below it.
LEMMA AncestorIs ==
    ASSUME NEW b \in Blocks, NEW h \in Nat, h <= HeightOf[b]
    PROVE  /\ Ancestor(b, h) \in Blocks /\ HeightOf[Ancestor(b, h)] = h
           /\ Ancestor(b, h) \in Chain[b]
<1> DEFINE Reaches(n) == \E x \in Chain[b] : HeightOf[x] = HeightOf[b] - n
           T == {n \in Nat : n <= HeightOf[b] /\ ~Reaches(n)}
<1>c. HeightOf[b] \in Nat
  BY FollowerConstants
<1>1. b \in Chain[b] /\ Chain[b] \subseteq Blocks
  BY ChainParent
<1>2. ASSUME NEW x \in Chain[b], HeightOf[x] # 0
      PROVE  Parent[x] \in Chain[b] /\ HeightOf[Parent[x]] = HeightOf[x] - 1
  BY <1>2, ChainParent
<1>3. T = {}
  <2> SUFFICES ASSUME T # {} PROVE FALSE
    OBVIOUS
  <2>1. PICK n \in T : \A m \in T : n <= m
    BY Smallest
  <2>2. n \in Nat /\ n <= HeightOf[b] /\ ~Reaches(n)
    BY <2>1
  <2>3. n # 0
    <3>1. Reaches(0)
      BY <1>1, <1>c
    <3> QED
      BY <2>2, <3>1
  <2>4. n - 1 \in Nat /\ n - 1 \notin T /\ n - 1 <= HeightOf[b]
    BY <1>c, <2>1, <2>2, <2>3
  <2>5. PICK x \in Chain[b] : HeightOf[x] = HeightOf[b] - (n - 1)
    BY <2>4
  <2>6. HeightOf[x] # 0 /\ HeightOf[x] - 1 = HeightOf[b] - n
    BY <1>c, <2>2, <2>5
  <2>7. Parent[x] \in Chain[b] /\ HeightOf[Parent[x]] = HeightOf[b] - n
    BY <1>2, <2>6
  <2> QED
    BY <2>2, <2>7
<1>4. HeightOf[b] - h \in Nat /\ HeightOf[b] - h <= HeightOf[b] /\ HeightOf[b] - (HeightOf[b] - h) = h
  BY <1>c
<1>5. Reaches(HeightOf[b] - h)
  BY <1>3, <1>4
<1>6. PICK x \in Chain[b] : HeightOf[x] = h
  BY <1>4, <1>5
<1>7. Ancestor(b, h) = CHOOSE y \in Chain[b] : HeightOf[y] = h
  BY <1>c DEF Ancestor, Ancestors
<1> QED
  BY <1>1, <1>6, <1>7

----------------------------------------------------------------------------
(* The operators of BatchStore.                                            *)

\* Sequences as sets.
LEMMA ToSetAppend ==
    ASSUME NEW S, NEW s \in Seq(S), NEW x \in S
    PROVE  ToSet(Append(s, x)) = ToSet(s) \cup {x}
<1> DEFINE t == Append(s, x)
<1>1. /\ DOMAIN t = DOMAIN s \cup {Len(s) + 1} /\ t[Len(s) + 1] = x
      /\ \A i \in DOMAIN s : t[i] = s[i]
  OBVIOUS
<1> HIDE DEF t
<1>2. ToSet(t) = ToSet(s) \cup {x}
  BY <1>1 DEF ToSet
<1> QED
  BY <1>2 DEF t

LEMMA ToSetOne == \A x : ToSet(<<x>>) = {x} /\ ToSet(<<>>) = {}
BY DEF ToSet

LEMMA ToSetTail ==
    ASSUME NEW S, NEW s \in Seq(S), s # <<>>
    PROVE  ToSet(s) = {Head(s)} \cup ToSet(Tail(s)) /\ Head(s) \in S /\ Tail(s) \in Seq(S)
<1>1. /\ Len(s) \in Nat \ {0} /\ Head(s) = s[1] /\ Tail(s) \in Seq(S) /\ Len(Tail(s)) = Len(s) - 1
      /\ \A i \in 1..Len(Tail(s)) : Tail(s)[i] = s[i + 1]
  OBVIOUS
<1>2. ASSUME NEW i \in DOMAIN s PROVE s[i] = Head(s) \/ s[i] \in ToSet(Tail(s))
  <2>1. CASE i = 1
    BY <1>1, <2>1
  <2>2. CASE i # 1
    <3>1. i - 1 \in 1..Len(Tail(s)) /\ (i - 1) + 1 = i
      BY <1>1, <2>2
    <3>2. Tail(s)[i - 1] = s[i] /\ i - 1 \in DOMAIN Tail(s)
      BY <1>1, <3>1
    <3> QED
      BY <3>2 DEF ToSet
  <2> QED
    BY <2>1, <2>2
<1>3. ASSUME NEW i \in DOMAIN Tail(s) PROVE Tail(s)[i] \in ToSet(s)
  <2>1. i + 1 \in DOMAIN s /\ Tail(s)[i] = s[i + 1]
    BY <1>1
  <2> QED
    BY <2>1 DEF ToSet
<1>4. Head(s) \in ToSet(s) /\ Head(s) \in S
  BY <1>1 DEF ToSet
<1> QED
  BY <1>1, <1>2, <1>3, <1>4 DEF ToSet

LEMMA Concatenated ==
    ASSUME NEW S, NEW s \in Seq(S), NEW t \in Seq(S)
    PROVE  s \o t \in Seq(S) /\ Len(s \o t) = Len(s) + Len(t)
OBVIOUS

LEMMA RemoveAtOf ==
    ASSUME NEW S, NEW s \in Seq(S), NEW i \in DOMAIN s
    PROVE  /\ RemoveAt(s, i) \in Seq(S)
           /\ \A x : (x \in ToSet(RemoveAt(s, i)) => x \in ToSet(s))
                     /\ (x \in ToSet(s) => x = s[i] \/ x \in ToSet(RemoveAt(s, i)))
<1> DEFINE a == SubSeq(s, 1, i - 1)
           c == SubSeq(s, i + 1, Len(s))
           r == RemoveAt(s, i)
<1>1. Len(s) \in Nat /\ i \in 1..Len(s) /\ DOMAIN s = 1..Len(s)
  OBVIOUS
<1>2. a \in Seq(S) /\ Len(a) = i - 1 /\ \A j \in 1..(i - 1) : a[j] = s[j]
  BY <1>1
<1>3. c \in Seq(S) /\ Len(c) = Len(s) - i /\ \A j \in 1..(Len(s) - i) : c[j] = s[i + j]
  BY <1>1
<1>4. r = a \o c
  BY DEF RemoveAt
<1> HIDE DEF a, c, r
<1>5. /\ r \in Seq(S) /\ Len(r) = Len(a) + Len(c)
      /\ \A j \in 1..Len(r) : r[j] = IF j <= Len(a) THEN a[j] ELSE c[j - Len(a)]
  <2>1. Len(a) \in Nat /\ Len(c) \in Nat
    BY <1>2, <1>3
  <2>2. r \in Seq(S) /\ Len(r) = Len(a) + Len(c)
    BY <1>2, <1>3, <1>4, Concatenated
  <2>3. ASSUME NEW j \in 1..Len(r) PROVE r[j] = IF j <= Len(a) THEN a[j] ELSE c[j - Len(a)]
    BY <1>2, <1>3, <1>4, <2>1, <2>2
  <2> QED
    BY <2>2, <2>3
<1>6. ASSUME NEW j \in DOMAIN r PROVE r[j] \in ToSet(s)
  <2>1. j \in 1..(Len(s) - 1) /\ j \in 1..Len(r)
    BY <1>1, <1>2, <1>3, <1>5
  <2>2. CASE j <= i - 1
    BY <1>1, <1>2, <1>5, <2>1, <2>2 DEF ToSet
  <2>3. CASE ~(j <= i - 1)
    <3>1. j - (i - 1) \in 1..(Len(s) - i) /\ i + (j - (i - 1)) = j + 1 /\ j + 1 \in DOMAIN s
      BY <1>1, <2>1, <2>3
    <3>2. r[j] = s[j + 1]
      BY <1>2, <1>3, <1>5, <2>1, <2>3, <3>1
    <3> QED
      BY <3>1, <3>2 DEF ToSet
  <2> QED
    BY <2>2, <2>3
<1>7. ASSUME NEW j \in DOMAIN s, j # i PROVE s[j] \in ToSet(r)
  <2>1. CASE j < i
    <3>1. j \in 1..Len(r) /\ j \in 1..(i - 1) /\ j <= Len(a)
      BY <1>1, <1>2, <1>3, <1>5, <2>1
    <3>2. r[j] = s[j] /\ j \in DOMAIN r
      BY <1>2, <1>5, <3>1
    <3> QED
      BY <3>2 DEF ToSet
  <2>2. CASE ~(j < i)
    <3>1. /\ j - 1 \in 1..Len(r) /\ ~(j - 1 <= Len(a)) /\ (j - 1) - Len(a) = j - i
          /\ j - i \in 1..(Len(s) - i) /\ i + (j - i) = j
      <4>1. j \in Nat /\ i \in Nat /\ i < j /\ j <= Len(s) /\ i >= 1
        BY <1>1, <1>7, <2>2
      <4>2. Len(a) = i - 1 /\ Len(r) = Len(s) - 1
        BY <1>1, <1>2, <1>3, <1>5
      <4> QED
        BY <1>1, <4>1, <4>2
    <3>2. r[j - 1] = s[j] /\ j - 1 \in DOMAIN r
      BY <1>3, <1>5, <3>1
    <3> QED
      BY <3>2 DEF ToSet
  <2> QED
    BY <2>1, <2>2
<1> QED
  BY <1>5, <1>6, <1>7 DEF ToSet, r

\* The heights a store holds, visible or not.
Stored(s) == {h \in AllHeights : s.heights[h] # NoBlock}
HeightsOf(blocks) == {HeightOf[b] : b \in ToSet(blocks)}
Holds(s) == Stored(s) \cup HeightsOf(s.batch) \cup UNION {HeightsOf(s.pending[i]) : i \in DOMAIN s.pending}

\* A hash is indexed together with its height, and the counter trails the batch by at most
\* one block.
StoreType == [heights : [AllHeights -> Blocks \cup {NoBlock}], hashes : SUBSET Blocks,
              batch : Seq(Blocks), counter : 0..BatchSize, pending : Seq(Seq(Blocks))]
StoreOK(s) ==
    /\ s \in StoreType
    /\ \A b \in s.hashes : HeightOf[b] \in Stored(s)
    /\ Len(s.batch) <= s.counter + 1

\* Of the blocks of a height in a batch the last one stays.
LEMMA OverwriteIs ==
    ASSUME NEW f \in [AllHeights -> Blocks \cup {NoBlock}], NEW blocks \in Seq(Blocks),
           NEW o, o = Overwrite(f, blocks)
    PROVE  /\ o \in [AllHeights -> Blocks \cup {NoBlock}]
           /\ \A h \in AllHeights :
                  \/ h \notin HeightsOf(blocks) /\ o[h] = f[h]
                  \/ /\ h \in HeightsOf(blocks)
                     /\ \E i \in DOMAIN blocks :
                            /\ o[h] = blocks[i] /\ HeightOf[blocks[i]] = h
                            /\ \A j \in DOMAIN blocks : j > i => HeightOf[blocks[j]] # h
<1> DEFINE Hits(h) == {i \in DOMAIN blocks : HeightOf[blocks[i]] = h}
<1>1. o = [h \in AllHeights |-> IF Hits(h) = {} THEN f[h] ELSE blocks[Max(Hits(h))]]
  BY DEF Overwrite
<1>2. ASSUME NEW h \in AllHeights, Hits(h) # {}
      PROVE  Max(Hits(h)) \in Hits(h) /\ \A y \in Hits(h) : Max(Hits(h)) >= y
  <2>1. Hits(h) \in SUBSET Nat /\ \A i \in Hits(h) : i <= Len(blocks) /\ Len(blocks) \in Nat
    OBVIOUS
  <2>2. \E x \in Hits(h) : \A y \in Hits(h) : x >= y
    <3> DEFINE T == {n \in Nat : n <= Len(blocks) /\ Len(blocks) - n \in Hits(h)}
    <3>1. T # {}
      <4>1. PICK i \in Hits(h) : TRUE
        BY <1>2
      <4>2. Len(blocks) - i \in T
        BY <2>1, <4>1
      <4> QED
        BY <4>2
    <3>2. PICK n \in T : \A m \in T : n <= m
      BY <3>1, Smallest
    <3> HIDE DEF Hits
    <3>3. n \in Nat /\ Len(blocks) - n \in Hits(h) /\ Len(blocks) \in Nat
      BY <3>2
    <3>4. ASSUME NEW y \in Hits(h) PROVE Len(blocks) - n >= y
      <4>1. y \in Nat /\ y <= Len(blocks) /\ Len(blocks) \in Nat
        BY <2>1
      <4>2. Len(blocks) - y \in Nat /\ Len(blocks) - (Len(blocks) - y) = y
        BY <4>1
      <4>3. Len(blocks) - y \in T
        BY <4>1, <4>2
      <4>4. n <= Len(blocks) - y
        BY <3>2, <4>3
      <4> QED
        BY <3>3, <4>1, <4>4
    <3> QED
      BY <3>3, <3>4
  <2> HIDE DEF Hits
  <2> QED
    BY <2>2 DEF Max
<1>3. ASSUME NEW h \in AllHeights PROVE Hits(h) # {} <=> h \in HeightsOf(blocks)
  BY DEF HeightsOf, ToSet
<1>4. ASSUME NEW h \in AllHeights, Hits(h) # {}
      PROVE  \E i \in DOMAIN blocks :
                 /\ o[h] = blocks[i] /\ HeightOf[blocks[i]] = h
                 /\ \A j \in DOMAIN blocks : j > i => HeightOf[blocks[j]] # h
  <2> DEFINE i == Max(Hits(h))
  <2>1. i \in DOMAIN blocks /\ HeightOf[blocks[i]] = h /\ o[h] = blocks[i]
    BY <1>1, <1>2, <1>4
  <2>2. ASSUME NEW j \in DOMAIN blocks, j > i PROVE HeightOf[blocks[j]] # h
    <3>1. i \in Nat /\ j \in Nat /\ ~(i >= j)
      BY <2>1, <2>2
    <3> QED
      BY <1>2, <1>4, <3>1
  <2> QED
    BY <2>1, <2>2
<1>5. ASSUME NEW h \in AllHeights, Hits(h) = {} PROVE o[h] = f[h]
  BY <1>1, <1>5
<1>6. o \in [AllHeights -> Blocks \cup {NoBlock}]
  <2>1. ASSUME NEW h \in AllHeights PROVE o[h] \in Blocks \cup {NoBlock}
    BY <1>4, <1>5
  <2>2. DOMAIN o = AllHeights /\ o = [h \in AllHeights |-> o[h]]
    BY <1>1
  <2> QED
    BY <2>1, <2>2
<1> HIDE DEF Hits
<1> QED
  BY <1>3, <1>4, <1>5, <1>6

LEMMA CommitBlocksIs ==
    ASSUME NEW s, StoreOK(s), NEW blocks \in Seq(Blocks)
    PROVE  LET t == CommitBlocks(s, blocks)
           IN  /\ StoreOK(t) /\ Stored(t) = Stored(s) \cup HeightsOf(blocks)
               /\ t.batch = s.batch /\ t.counter = s.counter /\ t.pending = s.pending
               /\ s.hashes \subseteq t.hashes
               /\ t.heights = Overwrite(s.heights, blocks) /\ t.hashes = s.hashes \cup ToSet(blocks)
<1> DEFINE t == CommitBlocks(s, blocks)
           o == Overwrite(s.heights, blocks)
<1>0. s \in StoreType /\ s.heights \in [AllHeights -> Blocks \cup {NoBlock}]
  BY DEF StoreOK, StoreType
<1>3. /\ o \in [AllHeights -> Blocks \cup {NoBlock}]
      /\ \A h \in AllHeights : \/ h \notin HeightsOf(blocks) /\ o[h] = s.heights[h]
                               \/ h \in HeightsOf(blocks) /\ \E i \in DOMAIN blocks : o[h] = blocks[i]
  BY <1>0, OverwriteIs
<1> HIDE DEF o
<1>4. {h \in AllHeights : o[h] # NoBlock} = Stored(s) \cup HeightsOf(blocks)
  <2>1. HeightsOf(blocks) \subseteq AllHeights
    BY FollowerConstants DEF HeightsOf, ToSet
  <2>2. \A i \in DOMAIN blocks : blocks[i] # NoBlock
    BY FollowerConstants
  <2>3. ASSUME NEW h \in AllHeights
        PROVE  o[h] # NoBlock <=> s.heights[h] # NoBlock \/ h \in HeightsOf(blocks)
    BY <1>3, <2>2
  <2> QED
    BY <2>1, <2>3 DEF Stored
<1>5. /\ t = [s EXCEPT !.heights = o, !.hashes = s.hashes \cup ToSet(blocks)]
  BY DEF CommitBlocks, o
<1>6. /\ t.heights = o /\ t.hashes = s.hashes \cup ToSet(blocks)
      /\ t.batch = s.batch /\ t.counter = s.counter /\ t.pending = s.pending /\ t \in StoreType
  <2>1. ToSet(blocks) \subseteq Blocks
    BY DEF ToSet
  <2> QED
    BY <1>0, <1>3, <1>5, <2>1 DEF StoreType
<1>7. Stored(t) = Stored(s) \cup HeightsOf(blocks)
  BY <1>4, <1>6 DEF Stored
<1>8. \A b \in t.hashes : HeightOf[b] \in Stored(t)
  BY <1>6, <1>7 DEF StoreOK, HeightsOf
<1> HIDE DEF t
<1> QED
  BY <1>6, <1>7, <1>8 DEF StoreOK, t, o

LEMMA ApplyBlockIs ==
    ASSUME NEW s, StoreOK(s), NEW b \in Blocks
    PROVE  LET t == ApplyBlock(s, b)
           IN  /\ StoreOK(t) /\ Holds(t) = Holds(s) \cup {HeightOf[b]}
               /\ t.heights = s.heights /\ t.hashes = s.hashes
<1> DEFINE t == ApplyBlock(s, b)
<1>0. /\ s \in StoreType /\ s.batch \in Seq(Blocks) /\ s.pending \in Seq(Seq(Blocks))
      /\ s.counter \in 0..BatchSize /\ BatchSize \in Nat \ {0}
  BY FollowerConstants DEF StoreOK, StoreType
<1>1. CASE s.counter + 1 > BatchSize
  <2>1. t = [s EXCEPT !.pending = Append(s.pending, s.batch), !.batch = <<b>>, !.counter = 0]
    BY <1>1 DEF ApplyBlock
  <2>2. Append(s.pending, s.batch) \in Seq(Seq(Blocks)) /\ <<b>> \in Seq(Blocks) /\ Len(<<b>>) = 1
    BY <1>0
  <2>3. /\ t.pending = Append(s.pending, s.batch) /\ t.batch = <<b>> /\ t.counter = 0
        /\ t.heights = s.heights /\ t.hashes = s.hashes /\ t \in StoreType
    <3> DEFINE p == Append(s.pending, s.batch)
               o == <<b>>
    <3>1. p \in Seq(Seq(Blocks)) /\ o \in Seq(Blocks) /\ 0 \in 0..BatchSize
      BY <1>0, <2>2
    <3>2. t = [s EXCEPT !.pending = p, !.batch = o, !.counter = 0]
      BY <2>1
    <3> HIDE DEF p, o, t
    <3>3. t.pending = p /\ t.batch = o /\ t.counter = 0 /\ t.heights = s.heights /\ t.hashes = s.hashes
      BY <1>0, <3>2 DEF StoreType
    <3>4. t \in StoreType
      BY <1>0, <3>1, <3>2 DEF StoreType
    <3> QED
      BY <3>3, <3>4 DEF p, o
  <2> HIDE DEF t
  <2>4. Stored(t) = Stored(s) /\ HeightsOf(t.batch) = {HeightOf[b]}
    <3>1. ToSet(t.batch) = {b}
      BY <2>3, ToSetOne
    <3> QED
      BY <2>3, <3>1 DEF Stored, HeightsOf
  <2>5. UNION {HeightsOf(t.pending[i]) : i \in DOMAIN t.pending}
            = HeightsOf(s.batch) \cup UNION {HeightsOf(s.pending[i]) : i \in DOMAIN s.pending}
    <3>1. /\ DOMAIN t.pending = DOMAIN s.pending \cup {Len(s.pending) + 1}
          /\ t.pending[Len(s.pending) + 1] = s.batch
          /\ \A i \in DOMAIN s.pending : t.pending[i] = s.pending[i]
      BY <1>0, <2>3
    <3> QED
      BY <3>1
  <2>6. Holds(t) = Holds(s) \cup {HeightOf[b]}
    BY <2>4, <2>5 DEF Holds
  <2>7. StoreOK(t)
    BY <2>2, <2>3, <2>4 DEF StoreOK
  <2> QED
    BY <2>3, <2>6, <2>7 DEF t
<1>2. CASE ~(s.counter + 1 > BatchSize)
  <2>1. t = [s EXCEPT !.batch = Append(s.batch, b), !.counter = s.counter + 1]
    BY <1>2 DEF ApplyBlock
  <2>2. Append(s.batch, b) \in Seq(Blocks) /\ Len(Append(s.batch, b)) = Len(s.batch) + 1
        /\ s.counter + 1 \in 0..BatchSize /\ Len(s.batch) \in Nat
    BY <1>0, <1>2
  <2>3. /\ t.batch = Append(s.batch, b) /\ t.counter = s.counter + 1 /\ t.pending = s.pending
        /\ t.heights = s.heights /\ t.hashes = s.hashes /\ t \in StoreType
    BY <1>0, <2>1, <2>2 DEF StoreType
  <2> HIDE DEF t
  <2>4. Stored(t) = Stored(s)
    BY <2>3 DEF Stored
  <2>5. HeightsOf(t.batch) = HeightsOf(s.batch) \cup {HeightOf[b]}
    <3>1. ToSet(t.batch) = ToSet(s.batch) \cup {b}
      <4>1. ToSet(Append(s.batch, b)) = ToSet(s.batch) \cup {b}
        BY <1>0, ToSetAppend
      <4> QED
        BY <2>3, <4>1
    <3> QED
      BY <3>1 DEF HeightsOf
  <2>6. Holds(t) = Holds(s) \cup {HeightOf[b]}
    BY <2>3, <2>4, <2>5 DEF Holds
  <2>7. Len(t.batch) <= t.counter + 1
    BY <1>0, <2>2, <2>3 DEF StoreOK
  <2> QED
    BY <2>3, <2>4, <2>6, <2>7 DEF StoreOK, t
<1> QED
  BY <1>1, <1>2

LEMMA FlushBatchIs ==
    ASSUME NEW s, StoreOK(s)
    PROVE  LET t == FlushBatch(s)
           IN  /\ StoreOK(t) /\ Holds(t) = Holds(s) /\ t.counter = 0
               /\ Stored(s) \subseteq Stored(t) /\ s.hashes \subseteq t.hashes /\ t.pending = s.pending
<1> DEFINE t == FlushBatch(s)
<1>1. CASE s.counter = 0
  BY <1>1 DEF FlushBatch
<1>2. CASE s.counter # 0
  <2> DEFINE u == CommitBlocks(s, s.batch)
  <2>1. s.batch \in Seq(Blocks)
    BY DEF StoreOK, StoreType
  <2>2. /\ StoreOK(u) /\ Stored(u) = Stored(s) \cup HeightsOf(s.batch)
        /\ u.pending = s.pending /\ s.hashes \subseteq u.hashes
    BY <2>1, CommitBlocksIs
  <2>3. t = [u EXCEPT !.batch = <<>>, !.counter = 0]
    BY <1>2 DEF FlushBatch
  <2> HIDE DEF u, t
  <2>4. 0 \in 0..BatchSize /\ <<>> \in Seq(Blocks)
    BY FollowerConstants
  <2>5. /\ t.batch = <<>> /\ t.counter = 0 /\ t.pending = s.pending /\ t.heights = u.heights
        /\ t.hashes = u.hashes /\ t \in StoreType
    BY <2>2, <2>3, <2>4 DEF StoreOK, StoreType
  <2>6. Stored(t) = Stored(u)
    BY <2>5 DEF Stored
  <2>7. HeightsOf(t.batch) = {}
    BY <2>5 DEF HeightsOf, ToSet
  <2>8. Holds(t) = Holds(s)
    BY <2>2, <2>5, <2>6, <2>7 DEF Holds
  <2>9. StoreOK(t)
    BY <2>2, <2>5, <2>6 DEF StoreOK
  <2> QED
    BY <2>2, <2>5, <2>6, <2>8, <2>9 DEF t
<1> QED
  BY <1>1, <1>2

LEMMA CommitPendingIs ==
    ASSUME NEW s, StoreOK(s), NEW i \in DOMAIN s.pending
    PROVE  LET t == CommitPending(s, i)
           IN  /\ StoreOK(t) /\ Holds(t) = Holds(s) /\ t.counter = s.counter /\ t.batch = s.batch
               /\ Stored(s) \subseteq Stored(t) /\ s.hashes \subseteq t.hashes
<1> DEFINE t == CommitPending(s, i)
           u == CommitBlocks(s, s.pending[i])
<1>1. s.pending \in Seq(Seq(Blocks)) /\ s.pending[i] \in Seq(Blocks)
  BY DEF StoreOK, StoreType
<1>2. /\ StoreOK(u) /\ Stored(u) = Stored(s) \cup HeightsOf(s.pending[i])
      /\ u.batch = s.batch /\ u.counter = s.counter /\ u.pending = s.pending
      /\ s.hashes \subseteq u.hashes
  BY <1>1, CommitBlocksIs
<1>3. t = [u EXCEPT !.pending = RemoveAt(u.pending, i)]
  BY DEF CommitPending
<1> HIDE DEF u, t
<1> DEFINE r == RemoveAt(s.pending, i)
<1>4. /\ r \in Seq(Seq(Blocks))
      /\ \A x : (x \in ToSet(r) => x \in ToSet(s.pending))
                /\ (x \in ToSet(s.pending) => x = s.pending[i] \/ x \in ToSet(r))
  BY <1>1, RemoveAtOf
<1> HIDE DEF r
<1>5. /\ t.pending = r /\ t.batch = s.batch /\ t.counter = s.counter /\ t.heights = u.heights
      /\ t.hashes = u.hashes /\ t \in StoreType
  BY <1>2, <1>3, <1>4 DEF StoreOK, StoreType, r
<1>6. Stored(t) = Stored(u)
  BY <1>5 DEF Stored
<1>7. /\ UNION {HeightsOf(s.pending[j]) : j \in DOMAIN s.pending} = UNION {HeightsOf(x) : x \in ToSet(s.pending)}
      /\ UNION {HeightsOf(r[j]) : j \in DOMAIN r} = UNION {HeightsOf(x) : x \in ToSet(r)}
  BY DEF ToSet
<1>8. HeightsOf(s.pending[i]) \subseteq UNION {HeightsOf(x) : x \in ToSet(s.pending)}
  BY DEF ToSet
<1>9. Holds(t) = Holds(s)
  <2>1. Holds(t) = Stored(s) \cup HeightsOf(s.pending[i]) \cup HeightsOf(s.batch)
                   \cup UNION {HeightsOf(x) : x \in ToSet(r)}
    BY <1>2, <1>5, <1>6, <1>7 DEF Holds
  <2>2. Holds(s) = Stored(s) \cup HeightsOf(s.batch) \cup UNION {HeightsOf(x) : x \in ToSet(s.pending)}
    BY <1>7 DEF Holds
  <2>3. UNION {HeightsOf(x) : x \in ToSet(s.pending)}
            = HeightsOf(s.pending[i]) \cup UNION {HeightsOf(x) : x \in ToSet(r)}
    BY <1>4, <1>8
  <2> QED
    BY <2>1, <2>2, <2>3
<1>10. StoreOK(t)
  BY <1>2, <1>5, <1>6 DEF StoreOK
<1> QED
  BY <1>2, <1>5, <1>6, <1>9, <1>10 DEF t

----------------------------------------------------------------------------
(* Types.                                                                  *)

Phases == {"off", "check", "scan", "fill", "filling", "tip", "initial", "continuous",
           "done", "closing", "synced", "fatal"}

\* What a kill leaves: a state of the index in which every hash has its height.
SnapshotOK ==
    disk # NoSnapshot =>
        /\ disk.heights \in [AllHeights -> Blocks \cup {NoBlock}] /\ disk.hashes \subseteq Blocks
        /\ \A b \in disk.hashes : disk.heights[HeightOf[b]] # NoBlock

\* The command: which phases it goes through, and the bound on the ends of a process.
CommandInv ==
    /\ best \in Blocks /\ cmd \in Commands /\ synced \in BOOLEAN /\ phase \in Phases
    /\ asked \subseteq AllHeights /\ stops \in 0..MaxStops
    /\ exposed \subseteq {"stopped", "offline", "returned", "skipped", "overtaken"}
    /\ disk # NoSnapshot \/ phase = "closing" => stops < MaxStops
    /\ cmd.name = "sync" /\ phase \notin {"off", "synced"} => stops < MaxStops
    /\ phase = "done" => cmd.name = "sync" /\ synced
    /\ synced /\ phase \in {"check", "scan", "fill", "filling"} => cmd.name = "sync"
    /\ phase = "continuous" => cmd.name = "run"

\* SingleBlockPullAndHandle and the writer run in continuous sync only.
WalkInv ==
    /\ pc \in {"idle", "pull", "check"} /\ at \in AllHeights \cup {-1}
    /\ held \in Blocks \cup {NoBlock}
    /\ writerChan \in Seq(Blocks) /\ Len(writerChan) <= WriterCap
    /\ pc # "idle" => at <= HeightOf[best]
    /\ pc = "check" => at \in AllHeights /\ held \in Blocks /\ HeightOf[held] = at
    /\ pc # "idle" \/ writerChan # <<>> => phase \in {"continuous", "fatal"}

\* The ranges of a check lie between the heights there are.
RangesInv ==
    /\ allRanges \in Seq(Ranges) /\ todo \subseteq AllHeights
    /\ phase \in {"fill", "filling"} =>
           \A i \in DOMAIN allRanges : 0 <= allRanges[i].start /\ allRanges[i].end <= MaxHeight

\* The loop of the scan while background commits may add blocks: what is missing is in a
\* range, and the last height is not.
LoopInv ==
    phase = "scan" =>
        /\ startHeight = SyncStartHeight /\ endHeight \in AllHeights
        /\ endHeight # 0 => heightIndex[endHeight] # NoBlock
        /\ height \in Nat /\ startHeight <= height
        /\ height <= endHeight + 1 \/ height = startHeight
        /\ currentRange \in Ranges
        /\ currentRange # NoRange =>
               /\ startHeight <= currentRange.start /\ currentRange.start < height
               /\ IF currentRange.end = 0 THEN currentRange.start = height - 1
                  ELSE currentRange.end = height - 1
               /\ endHeight # 0 => height <= endHeight
        /\ \A i \in DOMAIN allRanges :
               startHeight <= allRanges[i].start /\ allRanges[i].end < height
        /\ \A h \in startHeight..(height - 1) : heightIndex[h] = NoBlock =>
               \/ \E i \in DOMAIN allRanges : InRange(h, allRanges[i])
               \/ currentRange # NoRange /\ currentRange.start <= h

FollowInv ==
    /\ StoreOK(StoreState) /\ SnapshotOK /\ CommandInv /\ WalkInv /\ RangesInv /\ LoopInv
    /\ hung \subseteq AllHeights

\* A failed fetch is the stuttering of everything but the pull that hangs in it.
rest == <<best, db, disk, scanVars, command, phase, todo, walk, stops, exposed>>

LEMMA Moves ==
    [Next]_vars => \/ Indexer \/ Write \/ CommitJob \/ Interrupt \/ LastSynced \/ Kill
                   \/ (\E b \in Blocks : NodeMoves(b))
                   \/ UNCHANGED rest
<1>1. (\E h \in AllHeights : SyncHangs(h)) \/ PullHangs => UNCHANGED rest
  BY DEF SyncHangs, PullHangs, rest
<1>2. UNCHANGED vars => UNCHANGED rest
  BY DEF vars, follower, rest
<1> QED
  BY <1>1, <1>2 DEF Next

LEMMA ChainTipIs ==
    ASSUME StoreOK(StoreState)
    PROVE  /\ ChainTip \in AllHeights /\ ChainTip \in Nat
           /\ \A h \in AllHeights : heightIndex[h] # NoBlock => h <= ChainTip
           /\ ChainTip # 0 => heightIndex[ChainTip] # NoBlock
<1> DEFINE S == {h \in AllHeights : heightIndex[h] # NoBlock} \cup {0}
<1>1. S \in SUBSET AllHeights /\ S # {}
  BY FollowerConstants
<1>2. Max(S) \in S /\ \A m \in S : m <= Max(S)
  BY <1>1, MaxIs
<1>3. ChainTip = Max(S)
  BY DEF ChainTip
<1> HIDE DEF S
<1>4. ChainTip \in S /\ \A m \in S : m <= ChainTip
  BY <1>2, <1>3
<1> QED
  BY <1>4, FollowerConstants DEF S

\* The fields of the store.
LEMMA StoreStateIs ==
    /\ StoreState.heights = heightIndex /\ StoreState.hashes = blockIndex
    /\ StoreState.batch = batch /\ StoreState.counter = batchCounter /\ StoreState.pending = pending
BY DEF StoreState

LEMMA StoreTypes ==
    ASSUME StoreOK(StoreState)
    PROVE  /\ heightIndex \in [AllHeights -> Blocks \cup {NoBlock}] /\ blockIndex \subseteq Blocks
           /\ batch \in Seq(Blocks) /\ batchCounter \in 0..BatchSize /\ pending \in Seq(Seq(Blocks))
           /\ \A b \in blockIndex : heightIndex[HeightOf[b]] # NoBlock
           /\ Len(batch) <= batchCounter + 1
BY DEF StoreOK, StoreType, StoreState, Stored

LEMMA TypeFromInv == FollowInv => TypeOK
<1> SUFFICES ASSUME FollowInv PROVE TypeOK
  OBVIOUS
<1>1. synced \in BOOLEAN
  BY Zenon DEF FollowInv, CommandInv
<1>2. /\ heightIndex \in [AllHeights -> Blocks \cup {NoBlock}] /\ blockIndex \subseteq Blocks
      /\ batch \in Seq(Blocks) /\ batchCounter \in 0..BatchSize /\ pending \in Seq(Seq(Blocks))
  BY StoreTypes DEF FollowInv
<1> QED
  BY <1>1, <1>2 DEF FollowInv, CommandInv, WalkInv, RangesInv, TypeOK, Phases

LEMMA InitFollowInv == Init => FollowInv
<1> SUFFICES ASSUME Init PROVE FollowInv
  OBVIOUS
<1> USE FollowerConstants
<1>1. StoreOK(StoreState)
  <2>1. StoreState \in StoreType
    BY DEF Init, StoreState, StoreType
  <2> QED
    BY <2>1 DEF Init, StoreState, StoreOK
<1>2. SnapshotOK
  BY DEF Init, SnapshotOK
<1>3. CommandInv
  <2>1. cmd \in Commands
    BY DEF Init
  <2>2. synced \in BOOLEAN /\ ~synced
    BY Zenon DEF Init
  <2> QED
    BY <2>1, <2>2 DEF Init, CommandInv, Phases
<1>4. WalkInv
  BY DEF Init, WalkInv
<1>5. RangesInv /\ LoopInv
  BY DEF Init, RangesInv, LoopInv
<1> QED
  BY <1>1, <1>2, <1>3, <1>4, <1>5 DEF Init, FollowInv

\* The store after a step.
LEMMA StoreAfter ==
    ASSUME NEW r, StoreBecomes(r), r \in StoreType
    PROVE  StoreState' = r
BY DEF StoreBecomes, StoreState, StoreType

\* Which steps change the store.
LEMMA StoreSteps ==
    ASSUME StoreOK(StoreState), [Next]_vars
    PROVE  \/ UNCHANGED db
           \/ CheckEnd \/ SyncReturns \/ (\E h \in AllHeights : SyncBlock(h))
           \/ Write \/ CommitJob \/ Closed \/ Kill
<1>1. CASE Indexer
  BY <1>1 DEF Indexer, Start, DBIntegrityCheck, Scan, ScanEnd, FillRange, InitialSync, SyncAboveTip,
     Tick, PullAndHandle, CheckPrevious, PullBelowGenesis
<1>2. CASE Interrupt \/ LastSynced \/ \E b \in Blocks : NodeMoves(b)
  BY <1>2 DEF Interrupt, LastSynced, NodeMoves
<1>3. CASE UNCHANGED rest
  BY <1>3 DEF rest
<1> QED
  BY <1>1, <1>2, <1>3, Moves

LEMMA SameStore == UNCHANGED db => StoreState' = StoreState
BY DEF db, StoreState

\* What the flush at the end of SyncBlocks and of the check does.
LEMMA FlushStep ==
    ASSUME StoreOK(StoreState), CheckEnd \/ SyncReturns
    PROVE  /\ StoreOK(StoreState)' /\ Holds(StoreState)' = Holds(StoreState)
           /\ Stored(StoreState) \subseteq Stored(StoreState)' /\ batchCounter' = 0
           /\ blockIndex \subseteq blockIndex'
<1> DEFINE t == FlushBatch(StoreState)
<1>1. StoreBecomes(t)
  BY DEF CheckEnd, SyncReturns
<1>2. /\ StoreOK(t) /\ Holds(t) = Holds(StoreState) /\ t.counter = 0
      /\ Stored(StoreState) \subseteq Stored(t) /\ StoreState.hashes \subseteq t.hashes
  BY FlushBatchIs
<1> HIDE DEF t
<1>3. StoreState' = t
  BY <1>1, <1>2, StoreAfter DEF StoreOK
<1>4. batchCounter' = t.counter /\ blockIndex' = t.hashes
  BY <1>1 DEF StoreBecomes
<1> QED
  BY <1>2, <1>3, <1>4, StoreStateIs

\* What a block applied by SyncBlocks does.
LEMMA SyncBlockStep ==
    ASSUME StoreOK(StoreState), best \in Blocks, NEW h \in AllHeights, SyncBlock(h)
    PROVE  /\ StoreOK(StoreState)' /\ Holds(StoreState)' = Holds(StoreState) \cup {h}
           /\ heightIndex' = heightIndex /\ blockIndex' = blockIndex
<1> DEFINE b == Ancestor(best, h)
           t == ApplyBlock(StoreState, b)
<1>1. StoreBecomes(t)
  BY DEF SyncBlock
<1>2. b \in Blocks /\ HeightOf[b] = h
  BY AncestorIs, FollowerConstants DEF SyncBlock
<1> HIDE DEF b
<1>3. /\ StoreOK(t) /\ Holds(t) = Holds(StoreState) \cup {HeightOf[b]}
      /\ t.heights = StoreState.heights /\ t.hashes = StoreState.hashes
  BY <1>2, ApplyBlockIs
<1> HIDE DEF t
<1>4. StoreState' = t
  BY <1>1, <1>3, StoreAfter DEF StoreOK
<1>5. heightIndex' = t.heights /\ blockIndex' = t.hashes
  BY <1>1 DEF StoreBecomes
<1> QED
  BY <1>2, <1>3, <1>4, <1>5, StoreStateIs

\* What the writer goroutine does with a block.
LEMMA WriteStep ==
    ASSUME StoreOK(StoreState), writerChan \in Seq(Blocks), Write
    PROVE  /\ StoreOK(StoreState)'
           /\ Holds(StoreState)' = Holds(StoreState) \cup {HeightOf[Head(writerChan)]}
           /\ Stored(StoreState) \subseteq Stored(StoreState)' /\ batchCounter' = 0
           /\ blockIndex \subseteq blockIndex'
<1> DEFINE b == Head(writerChan)
           s == ApplyBlock(StoreState, b)
           t == FlushBatch(s)
<1>1. StoreBecomes(t)
  BY DEF Write
<1>2. b \in Blocks
  BY DEF Write
<1>3. /\ StoreOK(s) /\ Holds(s) = Holds(StoreState) \cup {HeightOf[b]}
      /\ s.heights = StoreState.heights /\ s.hashes = StoreState.hashes
  BY <1>2, ApplyBlockIs
<1> HIDE DEF s
<1>4. /\ StoreOK(t) /\ Holds(t) = Holds(s) /\ t.counter = 0
      /\ Stored(s) \subseteq Stored(t) /\ s.hashes \subseteq t.hashes
  BY <1>3, FlushBatchIs
<1> HIDE DEF t
<1>5. StoreState' = t
  BY <1>1, <1>4, StoreAfter DEF StoreOK
<1>6. batchCounter' = t.counter /\ blockIndex' = t.hashes
  BY <1>1 DEF StoreBecomes
<1>7. Stored(s) = Stored(StoreState)
  BY <1>3 DEF Stored
<1> QED
  BY <1>3, <1>4, <1>5, <1>6, <1>7, StoreStateIs DEF b

\* What a background commit does.
LEMMA CommitStep ==
    ASSUME StoreOK(StoreState), CommitJob
    PROVE  /\ StoreOK(StoreState)' /\ Holds(StoreState)' = Holds(StoreState)
           /\ Stored(StoreState) \subseteq Stored(StoreState)'
           /\ batchCounter' = batchCounter /\ batch' = batch /\ blockIndex \subseteq blockIndex'
<1>1. PICK i \in DOMAIN pending : StoreBecomes(CommitPending(StoreState, i))
  BY DEF CommitJob
<1> DEFINE t == CommitPending(StoreState, i)
<1>2. i \in DOMAIN StoreState.pending
  BY StoreStateIs
<1>3. /\ StoreOK(t) /\ Holds(t) = Holds(StoreState) /\ t.counter = StoreState.counter
      /\ t.batch = StoreState.batch
      /\ Stored(StoreState) \subseteq Stored(t) /\ StoreState.hashes \subseteq t.hashes
  BY <1>2, CommitPendingIs
<1>4. StoreBecomes(t)
  BY <1>1
<1> HIDE DEF t
<1>5. StoreState' = t
  BY <1>3, <1>4, StoreAfter DEF StoreOK
<1>6. batchCounter' = t.counter /\ blockIndex' = t.hashes /\ batch' = t.batch
  BY <1>4 DEF StoreBecomes
<1> QED
  BY <1>3, <1>5, <1>6, StoreStateIs

\* What the end of a process leaves in the store.
LEMMA ClosedStep ==
    ASSUME StoreOK(StoreState), Closed
    PROVE  /\ StoreOK(StoreState)' /\ Holds(StoreState)' = Stored(StoreState)
           /\ Stored(StoreState)' = Stored(StoreState) /\ batch' = <<>> /\ pending' = <<>>
<1>1. /\ heightIndex' = heightIndex /\ blockIndex' = blockIndex /\ batch' = <<>>
      /\ batchCounter' = 0 /\ pending' = pending /\ pending = <<>>
  BY DEF Closed
<1>2. /\ heightIndex \in [AllHeights -> Blocks \cup {NoBlock}] /\ blockIndex \subseteq Blocks
      /\ \A b \in blockIndex : heightIndex[HeightOf[b]] # NoBlock
  BY StoreTypes
<1>3. StoreState' \in StoreType /\ Stored(StoreState)' = Stored(StoreState)
  BY <1>1, <1>2, FollowerConstants DEF StoreState, StoreType, Stored
<1>4. Len(StoreState'.batch) = 0 /\ StoreState'.counter = 0 /\ HeightsOf(StoreState'.batch) = {}
      /\ DOMAIN StoreState'.pending = {}
  BY <1>1 DEF StoreState, HeightsOf, ToSet
<1>5. StoreOK(StoreState)'
  BY <1>1, <1>2, <1>3, <1>4, FollowerConstants DEF StoreOK, StoreState, Stored
<1> QED
  BY <1>1, <1>3, <1>4, <1>5 DEF Holds

LEMMA KillStep ==
    ASSUME SnapshotOK, Kill
    PROVE  /\ StoreOK(StoreState)' /\ Holds(StoreState)' = Stored(StoreState)'
           /\ batch' = <<>> /\ pending' = <<>>
<1>1. /\ heightIndex' = disk.heights /\ blockIndex' = disk.hashes /\ batch' = <<>>
      /\ batchCounter' = 0 /\ pending' = <<>> /\ disk # NoSnapshot
  BY DEF Kill
<1>2. /\ heightIndex' \in [AllHeights -> Blocks \cup {NoBlock}] /\ blockIndex' \subseteq Blocks
      /\ \A b \in blockIndex' : heightIndex'[HeightOf[b]] # NoBlock
  BY <1>1 DEF SnapshotOK
<1>3. StoreState' \in StoreType
  BY <1>1, <1>2, FollowerConstants DEF StoreState, StoreType
<1>4. Len(StoreState'.batch) = 0 /\ StoreState'.counter = 0 /\ HeightsOf(StoreState'.batch) = {}
      /\ DOMAIN StoreState'.pending = {}
  BY <1>1 DEF StoreState, HeightsOf, ToSet
<1>5. StoreOK(StoreState)'
  BY <1>1, <1>2, <1>3, <1>4, FollowerConstants DEF StoreOK, StoreState, Stored
<1> QED
  BY <1>1, <1>4, <1>5 DEF Holds

----------------------------------------------------------------------------
(* A step preserves the types.                                             *)

LEMMA StoreInv == ASSUME FollowInv, [Next]_vars PROVE StoreOK(StoreState)'
<1>1. StoreOK(StoreState) /\ best \in Blocks /\ SnapshotOK /\ writerChan \in Seq(Blocks)
  BY DEF FollowInv, CommandInv, WalkInv
<1>2. CASE UNCHANGED db
  BY <1>1, <1>2, SameStore
<1>3. CASE CheckEnd \/ SyncReturns
  BY <1>1, <1>3, FlushStep
<1>4. CASE \E h \in AllHeights : SyncBlock(h)
  BY <1>1, <1>4, SyncBlockStep
<1>5. CASE Write
  BY <1>1, <1>5, WriteStep
<1>6. CASE CommitJob
  BY <1>1, <1>6, CommitStep
<1>7. CASE Closed
  BY <1>1, <1>7, ClosedStep
<1>8. CASE Kill
  BY <1>1, <1>8, KillStep
<1> QED
  BY <1>1, <1>2, <1>3, <1>4, <1>5, <1>6, <1>7, <1>8, StoreSteps

\* Blocks are removed from the index by a kill only.
LEMMA IndexGrows ==
    ASSUME FollowInv, [Next]_vars, ~Kill
    PROVE  Stored(StoreState) \subseteq Stored(StoreState)'
<1>1. StoreOK(StoreState) /\ best \in Blocks /\ writerChan \in Seq(Blocks)
  BY DEF FollowInv, CommandInv, WalkInv
<1>2. CASE UNCHANGED db
  BY <1>1, <1>2, SameStore
<1>3. CASE CheckEnd \/ SyncReturns
  BY <1>1, <1>3, FlushStep
<1>4. ASSUME NEW h \in AllHeights, SyncBlock(h) PROVE Stored(StoreState) \subseteq Stored(StoreState)'
  <2>1. heightIndex' = heightIndex
    BY <1>1, <1>4, SyncBlockStep
  <2> QED
    BY <2>1 DEF Stored, StoreState
<1>5. CASE Write
  BY <1>1, <1>5, WriteStep
<1>6. CASE CommitJob
  BY <1>1, <1>6, CommitStep
<1>7. CASE Closed
  BY <1>1, <1>7, ClosedStep
<1> QED
  BY <1>1, <1>2, <1>3, <1>4, <1>5, <1>6, <1>7, StoreSteps

LEMMA SnapshotInv == ASSUME FollowInv, [Next]_vars PROVE SnapshotOK'
<1>1. SnapshotOK /\ StoreOK(StoreState)
  BY DEF FollowInv
<1>2. CASE UNCHANGED disk
  BY <1>1, <1>2 DEF SnapshotOK
<1>3. CASE LastSynced
  <2>1. disk'.heights = heightIndex /\ disk'.hashes = blockIndex
    BY <1>3 DEF LastSynced
  <2> QED
    BY <1>1, <2>1, StoreTypes DEF SnapshotOK
<1>4. CASE Closed \/ Kill
  BY <1>4 DEF Closed, Kill, SnapshotOK
<1>5. UNCHANGED disk \/ LastSynced \/ Closed \/ Kill
  <2>1. CASE Indexer
    BY <2>1 DEF Indexer, Start, DBIntegrityCheck, Scan, ScanEnd, FillRange, CheckEnd, InitialSync,
       SyncBlock, SyncAboveTip, SyncReturns, Tick, PullAndHandle, CheckPrevious, PullBelowGenesis
  <2>2. CASE Write \/ CommitJob \/ Interrupt \/ \E b \in Blocks : NodeMoves(b)
    BY <2>2 DEF Write, CommitJob, Interrupt, NodeMoves
  <2>3. CASE UNCHANGED rest
    BY <2>3 DEF rest
  <2> QED
    BY <2>1, <2>2, <2>3, Moves
<1> QED
  BY <1>2, <1>3, <1>4, <1>5

LEMMA SameCommand ==
    UNCHANGED command =>
        /\ cmd' = cmd /\ asked' = asked /\ (synced' <=> synced)
        /\ synced \in BOOLEAN => synced' \in BOOLEAN
<1> SUFFICES ASSUME UNCHANGED command
             PROVE  /\ cmd' = cmd /\ asked' = asked /\ (synced' <=> synced)
                    /\ synced \in BOOLEAN => synced' \in BOOLEAN
  OBVIOUS
<1>1. cmd' = cmd /\ asked' = asked
  BY DEF command
<1>2. synced' = synced
  BY DEF command
<1>3. (synced' <=> synced) /\ (synced \in BOOLEAN => synced' \in BOOLEAN)
  BY Zenon, <1>2
<1> QED
  BY <1>1, <1>3

LEMMA CommandStep == ASSUME FollowInv, [Next]_vars PROVE CommandInv'
<1> USE FollowerConstants, SameCommand DEF Phases
<1>0. CommandInv /\ StoreOK(StoreState)
  BY DEF FollowInv
<1>1. ASSUME NEW c \in Commands, Start(c) PROVE CommandInv'
  BY <1>0, <1>1 DEF CommandInv, Start
<1>2. CASE DBIntegrityCheck \/ Scan \/ ScanEnd \/ FillRange \/ CheckEnd
  <2>1. UNCHANGED <<best, command, disk, stops, exposed>>
    BY <1>2 DEF DBIntegrityCheck, Scan, ScanEnd, FillRange, CheckEnd
  <2>2. /\ phase \in {"check", "scan", "fill"}
        /\ \/ phase' \in {"scan", "fill", "filling"}
           \/ phase' = IF synced THEN "done" ELSE "tip"
    BY <1>2 DEF DBIntegrityCheck, Scan, ScanEnd, FillRange, CheckEnd
  <2> QED
    BY <1>0, <2>1, <2>2 DEF CommandInv
<1>3. CASE InitialSync
  <2>1. asked' \subseteq AllHeights
    <3>1. ChainTip \in AllHeights
      BY <1>0, ChainTipIs
    <3>2. Max({ChainTip, SyncStartHeight}) \in AllHeights
      <4>1. {ChainTip, SyncStartHeight} \in SUBSET AllHeights
        BY <3>1
      <4> QED
        BY <4>1, MaxIs
    <3>3. HeightOf[best] \in AllHeights /\ cmd \in Commands
      BY <1>0 DEF CommandInv
    <3>4. \A a \in AllHeights, b \in AllHeights : (a + 1)..b \subseteq AllHeights /\ a..b \subseteq AllHeights
      OBVIOUS
    <3> QED
      BY <1>3, <3>2, <3>3, <3>4 DEF InitialSync
  <2>2. UNCHANGED <<best, disk, cmd, stops, exposed>> /\ phase' = "initial"
    BY <1>3 DEF InitialSync
  <2>3. synced' \in BOOLEAN
    BY Zenon, <1>0, <1>3 DEF InitialSync, CommandInv
  <2> QED
    BY <1>0, <1>3, <2>1, <2>2, <2>3 DEF CommandInv, InitialSync
<1>4. ASSUME NEW h \in AllHeights, SyncBlock(h) \/ SyncAboveTip(h) PROVE CommandInv'
  <2>1. UNCHANGED <<best, command, disk, stops, exposed>> /\ phase \in {"filling", "initial"}
        /\ phase' \in {phase, "fatal"}
    BY <1>4 DEF SyncBlock, SyncAboveTip
  <2> QED
    BY <1>0, <2>1 DEF CommandInv
<1>5. CASE SyncReturns
  BY <1>0, <1>5 DEF CommandInv, SyncReturns
<1>6. CASE Closed
  <2>1. stops < MaxStops /\ stops \in 0..MaxStops
    BY <1>0, <1>6 DEF CommandInv, Closed
  <2>2. UNCHANGED <<best, command, exposed>> /\ phase' \in {"off", "synced"} /\ stops' = stops + 1
        /\ disk' = NoSnapshot
    BY <1>6 DEF Closed
  <2>3. stops' \in 0..MaxStops
    BY <2>1, <2>2
  <2> QED
    BY <1>0, <2>2, <2>3 DEF CommandInv
<1>7. CASE Tick \/ PullAndHandle \/ CheckPrevious \/ PullBelowGenesis \/ CommitJob
  <2>1. UNCHANGED <<best, command, disk, stops, exposed>> /\ phase' \in {phase, "fatal"}
        /\ (phase' = "fatal" => phase \in {"continuous", "fatal"})
    BY <1>7 DEF Tick, PullAndHandle, CheckPrevious, PullBelowGenesis, CommitJob
  <2> QED
    BY <1>0, <2>1 DEF CommandInv
<1>8. CASE Write
  BY <1>0, <1>8 DEF CommandInv, Write
<1>9. CASE Interrupt
  BY <1>0, <1>9 DEF CommandInv, Interrupt
<1>10. CASE LastSynced
  BY <1>0, <1>10 DEF CommandInv, LastSynced
<1>11. CASE Kill
  <2>1. stops < MaxStops /\ stops \in 0..MaxStops
    BY <1>0, <1>11 DEF CommandInv, Kill
  <2>2. UNCHANGED <<best, command>> /\ phase' = "off" /\ stops' = stops + 1
        /\ disk' = NoSnapshot /\ exposed' \subseteq exposed \cup {"stopped"}
    BY <1>11 DEF Kill
  <2>3. stops' \in 0..MaxStops
    BY <2>1, <2>2
  <2> QED
    BY <1>0, <2>2, <2>3 DEF CommandInv
<1>12. ASSUME NEW b \in Blocks, NodeMoves(b) PROVE CommandInv'
  BY <1>0, <1>12 DEF CommandInv, NodeMoves
<1>13. CASE UNCHANGED rest
  <2>1. UNCHANGED <<best, command, disk, stops, exposed, phase>>
    BY <1>13 DEF rest
  <2> QED
    BY <1>0, <2>1 DEF CommandInv
<1> QED
  BY <1>1, <1>2, <1>3, <1>4, <1>5, <1>6, <1>7, <1>8, <1>9, <1>10, <1>11, <1>12, <1>13, Moves DEF Indexer

LEMMA WalkStep == ASSUME FollowInv, [Next]_vars PROVE WalkInv'
<1> USE FollowerConstants
<1>0. WalkInv /\ best \in Blocks /\ StoreOK(StoreState)
  BY DEF FollowInv, CommandInv
<1>1. ASSUME UNCHANGED <<best, walk>>, phase' = phase \/ phase \notin {"continuous", "fatal"}
             \/ phase' \in {"continuous", "fatal"}
      PROVE  WalkInv'
  BY <1>0, <1>1 DEF WalkInv, walk
<1>2. CASE Tick
  BY <1>0, <1>2 DEF WalkInv, Tick
<1>3. CASE PullAndHandle
  <2>1. Ancestor(best, at) \in Blocks /\ HeightOf[Ancestor(best, at)] = at /\ at \in AllHeights
    BY <1>0, <1>3, AncestorIs DEF WalkInv, PullAndHandle
  <2>2. writerChan' \in Seq(Blocks) /\ Len(writerChan') <= WriterCap
    <3> DEFINE b == Ancestor(best, at)
    <3>1. b \in Blocks /\ writerChan' = Append(writerChan, b) /\ Len(writerChan) < WriterCap
      BY <1>3, <2>1 DEF PullAndHandle
    <3> HIDE DEF b
    <3> QED
      BY <1>0, <3>1 DEF WalkInv
  <2> QED
    BY <1>0, <1>3, <2>1, <2>2 DEF WalkInv, PullAndHandle
<1>4. CASE CheckPrevious
  <2>1. Parent[held] \notin blockIndex => at - 1 \in AllHeights \cup {-1} /\ at - 1 <= HeightOf[best]
    <3>1. at \in AllHeights /\ at <= HeightOf[best] /\ HeightOf[best] \in Nat
      BY <1>0, <1>4 DEF WalkInv, CheckPrevious
    <3> QED
      BY <3>1
  <2> QED
    BY <1>0, <1>4, <2>1 DEF WalkInv, CheckPrevious
<1>5. CASE Write
  <2>1. Tail(writerChan) \in Seq(Blocks) /\ Len(Tail(writerChan)) = Len(writerChan) - 1
    BY <1>0, <1>5 DEF WalkInv, Write
  <2> QED
    BY <1>0, <1>5, <2>1 DEF WalkInv, Write
<1>6. CASE Interrupt \/ Kill
  <2>1. pc' = "idle" /\ at' = 0 /\ held' = NoBlock /\ writerChan' = <<>>
    BY <1>6 DEF Interrupt, Kill
  <2> QED
    BY <2>1 DEF WalkInv
<1>7. ASSUME NEW b \in Blocks, NodeMoves(b) PROVE WalkInv'
  BY <1>0, <1>7 DEF WalkInv, NodeMoves, follower, walk
<1>8. CASE UNCHANGED rest
  BY <1>1, <1>8 DEF rest
<1>9. CASE PullBelowGenesis \/ LastSynced \/ CommitJob
  BY <1>1, <1>9 DEF PullBelowGenesis, LastSynced, CommitJob, follower
<1>10. CASE (\E c \in Commands : Start(c)) \/ DBIntegrityCheck \/ Scan \/ ScanEnd \/ FillRange
            \/ CheckEnd \/ InitialSync \/ (\E h \in AllHeights : SyncBlock(h) \/ SyncAboveTip(h))
            \/ SyncReturns \/ Closed
  BY <1>1, <1>10 DEF Start, DBIntegrityCheck, Scan, ScanEnd, FillRange, CheckEnd, InitialSync,
     SyncBlock, SyncAboveTip, SyncReturns, Closed, follower
<1> QED
  BY <1>2, <1>3, <1>4, <1>5, <1>6, <1>7, <1>8, <1>9, <1>10, Moves DEF Indexer

\* The scan goes on, or nothing of it changes.
LEMMA ScanSteps ==
    ASSUME [Next]_vars, phase' = "scan"
    PROVE  DBIntegrityCheck \/ Scan \/ (phase = "scan" /\ UNCHANGED scanVars /\ ~Kill)
<1>1. CASE Indexer
  BY <1>1 DEF Indexer, Start, ScanEnd, FillRange, CheckEnd, InitialSync, SyncBlock, SyncAboveTip,
     SyncReturns, Closed, Tick, PullAndHandle, CheckPrevious, PullBelowGenesis
<1>2. CASE Write \/ CommitJob \/ LastSynced \/ \E b \in Blocks : NodeMoves(b)
  BY <1>2 DEF Write, CommitJob, LastSynced, NodeMoves, Kill
<1>3. CASE Interrupt \/ Kill
  BY <1>3 DEF Interrupt, Kill
<1>4. CASE UNCHANGED rest
  BY <1>4 DEF rest, Kill
<1> QED
  BY <1>1, <1>2, <1>3, <1>4, Moves

\* Every height of the scan so far.
LEMMA ScannedHeights ==
    ASSUME LoopInv, phase = "scan"
    PROVE  /\ startHeight \in Nat /\ endHeight \in Nat /\ height \in Nat /\ endHeight <= MaxHeight
           /\ \A h \in startHeight..(height - 1) : h \in AllHeights /\ h \in Nat
           /\ height <= endHeight => height \in AllHeights
           /\ currentRange.start \in Int /\ currentRange.end \in Int
BY FollowerConstants DEF LoopInv, Ranges

LEMMA LoopStep == ASSUME FollowInv, [Next]_vars PROVE LoopInv'
<1> SUFFICES ASSUME phase' = "scan" PROVE LoopInv'
  BY DEF LoopInv
<1> USE FollowerConstants
<1>0. LoopInv /\ StoreOK(StoreState) /\ RangesInv
  BY DEF FollowInv
<1>1. CASE DBIntegrityCheck
  <2>1. /\ startHeight' = SyncStartHeight /\ endHeight' = ChainTip /\ height' = SyncStartHeight
        /\ currentRange' = NoRange /\ allRanges' = <<>> /\ heightIndex' = heightIndex
    BY <1>1 DEF DBIntegrityCheck, StartScan, db
  <2>2. ChainTip \in AllHeights /\ (ChainTip # 0 => heightIndex[ChainTip] # NoBlock)
    BY <1>0, ChainTipIs
  <2>3. NoRange \in Ranges
    BY DEF NoRange, Ranges
  <2> QED
    BY <2>1, <2>2, <2>3 DEF LoopInv
<1>2. CASE Scan
  <2>0. phase = "scan" /\ heightIndex' = heightIndex /\ startHeight' = startHeight /\ endHeight' = endHeight
    BY <1>2 DEF Scan, db, ScanStep, ScanPresent, ScanMissing
  <2>1. /\ startHeight \in Nat /\ endHeight \in Nat /\ height \in Nat /\ endHeight <= MaxHeight
        /\ startHeight <= height /\ startHeight = SyncStartHeight
        /\ endHeight # 0 => heightIndex[endHeight] # NoBlock
        /\ currentRange.start \in Int /\ currentRange.end \in Int /\ currentRange \in Ranges
    BY <1>0, <2>0, ScannedHeights DEF LoopInv
  <2>2. \A i \in DOMAIN allRanges : /\ allRanges[i].start \in Int /\ allRanges[i].end \in Int
                                    /\ startHeight <= allRanges[i].start /\ allRanges[i].end < height
    <3>1. \A i \in DOMAIN allRanges : allRanges[i] \in Ranges
      BY <1>0 DEF RangesInv
    <3> QED
      BY <1>0, <2>0, <3>1 DEF LoopInv, Ranges
  <2>3. CASE ScanPresent
    <3>1. /\ height <= endHeight /\ heightIndex[height] # NoBlock
          /\ height' = height + 1 /\ currentRange' = NoRange
      BY <2>3 DEF ScanPresent
    <3>2. NoRange \in Ranges
      BY DEF NoRange, Ranges
    <3>3. CASE currentRange = NoRange
      <4>1. allRanges' = allRanges
        BY <2>3, <3>3 DEF ScanPresent
      <4>2. \A h \in startHeight..(height' - 1) : h = height \/ h \in startHeight..(height - 1)
        BY <2>1, <3>1
      <4> QED
        BY <1>0, <2>0, <2>1, <2>2, <3>1, <3>2, <3>3, <4>1, <4>2 DEF LoopInv
    <3>4. CASE currentRange # NoRange
      <4> DEFINE r == CloseRange(currentRange)
      <4>1. allRanges' = Append(allRanges, r)
        BY <2>3, <3>4 DEF ScanPresent
      <4>2. r \in Ranges /\ r.start = currentRange.start /\ r.end = height - 1
        <5>1. CASE currentRange.end = 0
          <6>1. r = [currentRange EXCEPT !.end = currentRange.start]
            BY <5>1 DEF CloseRange
          <6>2. currentRange.start = height - 1
            BY <1>0, <2>0, <3>4, <5>1 DEF LoopInv
          <6> QED
            BY <2>1, <6>1, <6>2 DEF Ranges
        <5>2. CASE currentRange.end # 0
          BY <1>0, <2>0, <2>1, <3>4, <5>2 DEF LoopInv, CloseRange
        <5> QED
          BY <5>1, <5>2
      <4> HIDE DEF r
      <4>3. /\ DOMAIN allRanges' = DOMAIN allRanges \cup {Len(allRanges) + 1}
            /\ allRanges'[Len(allRanges) + 1] = r
            /\ \A i \in DOMAIN allRanges : allRanges'[i] = allRanges[i]
        BY <1>0, <4>1, <4>2 DEF RangesInv
      <4>4. startHeight <= currentRange.start
        BY <1>0, <2>0, <3>4 DEF LoopInv
      <4>5. \A i \in DOMAIN allRanges' : startHeight <= allRanges'[i].start /\ allRanges'[i].end < height + 1
        BY <2>1, <2>2, <4>2, <4>3, <4>4
      <4>6. ASSUME NEW h \in startHeight..height, heightIndex[h] = NoBlock
            PROVE  \E i \in DOMAIN allRanges' : InRange(h, allRanges'[i])
        <5>1. h \in startHeight..(height - 1)
          BY <2>1, <3>1, <4>6
        <5>2. CASE \E i \in DOMAIN allRanges : InRange(h, allRanges[i])
          BY <4>3, <5>2
        <5>3. CASE currentRange.start <= h
          <6>1. InRange(h, r)
            BY <2>1, <4>2, <5>1, <5>3 DEF InRange
          <6> QED
            BY <4>3, <6>1
        <5> QED
          BY <1>0, <2>0, <4>6, <5>1, <5>2, <5>3 DEF LoopInv
      <4> QED
        BY <2>0, <2>1, <3>1, <3>2, <4>5, <4>6 DEF LoopInv
    <3> QED
      BY <3>3, <3>4
  <2>4. CASE ScanMissing
    <3>1. /\ height <= endHeight /\ heightIndex[height] = NoBlock
          /\ height' = height + 1 /\ allRanges' = allRanges
      BY <2>4 DEF ScanMissing
    <3>2. endHeight # 0 => height + 1 <= endHeight
      BY <2>1, <3>1
    <3>3. /\ currentRange' \in Ranges
          /\ startHeight <= currentRange'.start /\ currentRange'.start < height + 1
          /\ IF currentRange'.end = 0 THEN currentRange'.start = height
             ELSE currentRange'.end = height
          /\ \/ currentRange'.start = height
             \/ currentRange # NoRange /\ currentRange'.start = currentRange.start
      <4>1. CASE currentRange = NoRange
        <5>1. currentRange' = [start |-> height, end |-> 0]
          BY <2>4, <4>1 DEF ScanMissing
        <5>2. currentRange' \in Ranges /\ currentRange'.start = height /\ currentRange'.end = 0
          BY <2>1, <5>1 DEF Ranges
        <5>3. startHeight <= height /\ height < height + 1
          BY <2>1
        <5> QED
          BY ONLY <5>2, <5>3
      <4>2. CASE currentRange # NoRange
        <5>1. currentRange' = [currentRange EXCEPT !.end = height]
          BY <2>4, <4>2 DEF ScanMissing
        <5>2. startHeight <= currentRange.start /\ currentRange.start < height
          BY <1>0, <2>0, <4>2 DEF LoopInv
        <5>3. currentRange' \in Ranges /\ currentRange'.start = currentRange.start /\ currentRange'.end = height
          BY <2>1, <5>1 DEF Ranges
        <5> QED
          BY <2>1, <4>2, <5>2, <5>3
      <4> QED
        BY <4>1, <4>2
    <3>4. ASSUME NEW h \in startHeight..height, heightIndex[h] = NoBlock
          PROVE  (\E i \in DOMAIN allRanges : InRange(h, allRanges[i])) \/ currentRange'.start <= h
      <4>1. CASE h = height
        BY <2>1, <3>3, <4>1 DEF Ranges
      <4>2. CASE h # height
        <5>1. h \in startHeight..(height - 1)
          BY <2>1, <4>2
        <5>2. \/ \E i \in DOMAIN allRanges : InRange(h, allRanges[i])
              \/ currentRange # NoRange /\ currentRange.start <= h
          BY <1>0, <2>0, <3>4, <5>1 DEF LoopInv
        <5>3. currentRange # NoRange => currentRange'.start = currentRange.start
          <6>1. ASSUME currentRange # NoRange PROVE currentRange' = [currentRange EXCEPT !.end = height]
            BY <2>4, <6>1 DEF ScanMissing
          <6> QED
            BY <2>1, <6>1 DEF Ranges
        <5> QED
          BY <5>2, <5>3
      <4> QED
        BY <4>1, <4>2
    <3>5. currentRange' # NoRange
      <4>1. currentRange'.start >= 0 /\ currentRange'.start \in Int
        BY <2>1, <3>3 DEF Ranges
      <4> QED
        BY <4>1 DEF NoRange
    <3> QED
      BY <2>0, <2>1, <2>2, <3>1, <3>2, <3>3, <3>4, <3>5 DEF LoopInv
  <2> QED
    BY <1>2, <2>3, <2>4 DEF Scan, ScanStep
<1>3. CASE phase = "scan" /\ UNCHANGED scanVars /\ ~Kill
  <2>1. Stored(StoreState) \subseteq Stored(StoreState)'
    BY <1>3, IndexGrows
  <2>2. \A h \in AllHeights : heightIndex'[h] = NoBlock => heightIndex[h] = NoBlock
    BY <2>1 DEF Stored, StoreState
  <2>3. /\ endHeight \in AllHeights /\ \A h \in startHeight..(height - 1) : h \in AllHeights
    BY <1>0, <1>3, ScannedHeights DEF LoopInv
  <2>4. UNCHANGED <<startHeight, endHeight, height, currentRange, allRanges>>
    BY <1>3 DEF scanVars
  <2> QED
    BY <1>0, <1>3, <2>2, <2>3, <2>4 DEF LoopInv
<1> QED
  BY <1>1, <1>2, <1>3, ScanSteps

LEMMA RangesStep == ASSUME FollowInv, [Next]_vars PROVE RangesInv'
<1> USE FollowerConstants
<1>0. LoopInv /\ StoreOK(StoreState) /\ RangesInv /\ CommandInv
  BY DEF FollowInv
<1>1. CASE DBIntegrityCheck
  BY <1>0, <1>1 DEF DBIntegrityCheck, StartScan, RangesInv
<1>2. CASE Scan
  <2>0. phase = "scan" /\ phase' = "scan" /\ todo' = todo
    BY <1>2 DEF Scan
  <2>1. currentRange \in Ranges
    BY <1>0, <2>0 DEF LoopInv
  <2> DEFINE r == CloseRange(currentRange)
  <2>2. r \in Ranges
    BY <2>1 DEF CloseRange, Ranges
  <2>3. allRanges' = allRanges \/ allRanges' = Append(allRanges, r)
    BY <1>2 DEF Scan, ScanStep, ScanPresent, ScanMissing
  <2> HIDE DEF r
  <2>4. allRanges' \in Seq(Ranges)
    BY <1>0, <2>2, <2>3 DEF RangesInv
  <2> QED
    BY <1>0, <2>0, <2>4 DEF RangesInv
<1>3. CASE ScanEnd
  <2>1. phase = "scan" /\ UNCHANGED <<allRanges, todo>>
    BY <1>3 DEF ScanEnd, scanVars
  <2>2. \A i \in DOMAIN allRanges : allRanges[i] \in Ranges
    BY <1>0 DEF RangesInv
  <2>3. \A i \in DOMAIN allRanges : allRanges[i].start >= 0 /\ allRanges[i].end <= MaxHeight
    BY <1>0, <2>1, <2>2 DEF LoopInv, Ranges
  <2> QED
    BY <1>0, <2>1, <2>2, <2>3 DEF RangesInv, Ranges
<1>4. CASE FillRange
  <2>1. phase = "fill" /\ allRanges # <<>> /\ allRanges' = Tail(allRanges)
        /\ todo' = Head(allRanges).start..Head(allRanges).end
    BY <1>4 DEF FillRange
  <2>2. /\ 1 \in DOMAIN allRanges /\ Head(allRanges) = allRanges[1] /\ Head(allRanges) \in Ranges
        /\ Tail(allRanges) \in Seq(Ranges)
        /\ \A i \in DOMAIN Tail(allRanges) : i + 1 \in DOMAIN allRanges /\ Tail(allRanges)[i] = allRanges[i + 1]
    BY <1>0, <2>1 DEF RangesInv
  <2>3. todo' \subseteq AllHeights
    <3>1. 0 <= Head(allRanges).start /\ Head(allRanges).end <= MaxHeight
      BY <1>0, <2>1, <2>2 DEF RangesInv
    <3>2. Head(allRanges).start \in Int /\ Head(allRanges).end \in Int
      BY <2>2 DEF Ranges
    <3> QED
      BY <2>1, <3>1, <3>2
  <2> QED
    BY <1>0, <2>1, <2>2, <2>3 DEF RangesInv
<1>5. CASE InitialSync
  <2>1. ChainTip \in AllHeights
    BY <1>0, ChainTipIs
  <2>2. Max({ChainTip, SyncStartHeight}) \in AllHeights
    <3>1. {ChainTip, SyncStartHeight} \in SUBSET AllHeights
      BY <2>1
    <3> QED
      BY <3>1, MaxIs
  <2>3. HeightOf[best] \in AllHeights /\ cmd \in Commands
    BY <1>0 DEF CommandInv
  <2>4. \A a \in AllHeights, b \in AllHeights : (a + 1)..b \subseteq AllHeights /\ a..b \subseteq AllHeights
    OBVIOUS
  <2>5. todo' \subseteq AllHeights /\ phase' = "initial" /\ allRanges' = allRanges
    BY <1>5, <2>2, <2>3, <2>4 DEF InitialSync, scanVars
  <2> QED
    BY <1>0, <2>5 DEF RangesInv
<1>6. CASE CheckEnd \/ Interrupt \/ Kill
  <2>1. allRanges' = <<>> /\ (todo' = todo \/ todo' = {})
    BY <1>6 DEF CheckEnd, Interrupt, Kill, StartScan
  <2>2. allRanges' \in Seq(Ranges) /\ DOMAIN allRanges' = {}
    BY <2>1
  <2>3. todo' \subseteq AllHeights
    BY <1>0, <2>1 DEF RangesInv
  <2> QED
    BY <2>2, <2>3 DEF RangesInv
<1>7. CASE UNCHANGED allRanges /\ todo' \subseteq todo /\ (phase' \in {"fill", "filling"} => phase \in {"fill", "filling"})
  BY <1>0, <1>7 DEF RangesInv
<1>8. CASE Indexer /\ ~DBIntegrityCheck /\ ~Scan /\ ~ScanEnd /\ ~FillRange /\ ~InitialSync /\ ~CheckEnd
  BY <1>7, <1>8 DEF Indexer, Start, SyncBlock, SyncAboveTip, SyncReturns, Closed, Tick, PullAndHandle,
     CheckPrevious, PullBelowGenesis, scanVars
<1>9. CASE Write \/ CommitJob \/ LastSynced \/ \E b \in Blocks : NodeMoves(b)
  BY <1>7, <1>9 DEF Write, CommitJob, LastSynced, NodeMoves, scanVars
<1>10. CASE UNCHANGED rest
  BY <1>7, <1>10 DEF rest, scanVars
<1> QED
  BY <1>1, <1>2, <1>3, <1>4, <1>5, <1>6, <1>8, <1>9, <1>10, Moves

LEMMA HungStep == ASSUME FollowInv, [Next]_vars PROVE hung' \subseteq AllHeights
<1> USE DEF follower
<1>0. hung \subseteq AllHeights
  BY DEF FollowInv
<1>1. CASE Indexer
  BY <1>0, <1>1 DEF Indexer, Start, DBIntegrityCheck, Scan, ScanEnd, FillRange, CheckEnd,
     InitialSync, SyncBlock, SyncAboveTip, SyncReturns, Closed, Tick, PullAndHandle,
     CheckPrevious, PullBelowGenesis
<1>2. CASE Write \/ CommitJob \/ Interrupt \/ LastSynced \/ Kill \/ \E b \in Blocks : NodeMoves(b)
  BY <1>0, <1>2 DEF Write, CommitJob, Interrupt, LastSynced, Kill, NodeMoves
<1>3. CASE \E h \in AllHeights : SyncHangs(h)
  BY <1>0, <1>3 DEF SyncHangs
<1>4. CASE PullHangs
  BY <1>0, <1>4, FollowerConstants DEF PullHangs, FollowInv, WalkInv
<1>5. CASE UNCHANGED vars
  BY <1>0, <1>5 DEF vars
<1> QED
  BY <1>1, <1>2, <1>3, <1>4, <1>5 DEF Next

LEMMA FollowInvStep == FollowInv /\ [Next]_vars => FollowInv'
BY HungStep, StoreInv, SnapshotInv, CommandStep, WalkStep, RangesStep, LoopStep DEF FollowInv

\* The state of the node, the indexer and the store has its types, in every behaviour with
\* any number of restarts: a block of any height is always found on the chain of the node's
\* best block, the walk never goes past height -1, and the counter of the store stays
\* within the batch size.
THEOREM TypeCorrect == Spec => []TypeOK
<1>1. Init => FollowInv
  BY InitFollowInv
<1>2. FollowInv /\ [Next]_vars => FollowInv'
  BY FollowInvStep
<1>3. FollowInv => TypeOK
  BY TypeFromInv
<1> QED
  BY <1>1, <1>2, <1>3, PTL DEF Spec

----------------------------------------------------------------------------
(* The integrity check.                                                    *)

\* Nothing is under way when a command starts, so the index stands still during its check.
EmptyInv ==
    phase \in {"off", "synced"} \/ (phase \in {"check", "scan"} /\ ~synced) =>
        batch = <<>> /\ pending = <<>>
CheckInv == EmptyInv /\ (phase = "scan" /\ ~synced => ScanInv)

LEMMA CheckStep == ASSUME FollowInv, CheckInv, [Next]_vars PROVE CheckInv'
<1> USE SameCommand
<1>0. /\ CommandInv /\ StoreOK(StoreState) /\ LoopInv
      /\ EmptyInv /\ (phase = "scan" /\ ~synced => ScanInv)
  BY DEF FollowInv, CheckInv
<1>1. EmptyInv'
  <2>1. ASSUME NEW c \in Commands, Start(c) PROVE EmptyInv'
    BY <1>0, <2>1 DEF EmptyInv, Start, db
  <2>2. CASE DBIntegrityCheck \/ Scan
    <3>1. UNCHANGED <<db, command>> /\ phase \in {"check", "scan"} /\ phase' = "scan"
      BY <2>2 DEF DBIntegrityCheck, Scan
    <3> QED
      BY <1>0, <3>1 DEF EmptyInv, db
  <2>3. CASE ScanEnd \/ FillRange \/ CheckEnd \/ InitialSync \/ (\E h \in AllHeights : SyncBlock(h) \/ SyncAboveTip(h))
    <3>1. phase' \notin {"off", "synced", "check", "scan"}
      BY <2>3 DEF ScanEnd, FillRange, CheckEnd, InitialSync, SyncBlock, SyncAboveTip
    <3> QED
      BY <3>1 DEF EmptyInv
  <2>4. CASE SyncReturns
    <3>1. phase' \notin {"off", "synced", "scan"} /\ (phase' = "check" => synced')
      BY <2>4 DEF SyncReturns
    <3> QED
      BY <3>1 DEF EmptyInv
  <2>5. CASE Closed
    BY <1>0, <2>5, ClosedStep DEF EmptyInv
  <2>6. CASE Kill
    BY <2>6 DEF EmptyInv, Kill
  <2>7. CASE Tick \/ PullAndHandle \/ CheckPrevious \/ PullBelowGenesis \/ Write \/ Interrupt
    <3>1. phase' \in {"continuous", "fatal", "closing"}
      BY <2>7 DEF Tick, PullAndHandle, CheckPrevious, PullBelowGenesis, Write, Interrupt
    <3> QED
      BY <3>1 DEF EmptyInv
  <2>8. CASE CommitJob
    <3>1. pending # <<>> /\ UNCHANGED <<phase, command>>
      BY <2>8 DEF CommitJob
    <3> QED
      BY <1>0, <3>1 DEF EmptyInv
  <2>9. CASE LastSynced \/ (\E b \in Blocks : NodeMoves(b)) \/ UNCHANGED rest
    <3>1. UNCHANGED <<db, phase, command>>
      BY <2>9 DEF LastSynced, NodeMoves, rest
    <3> QED
      BY <1>0, <3>1 DEF EmptyInv, db
  <2> QED
    BY <2>1, <2>2, <2>3, <2>4, <2>5, <2>6, <2>7, <2>8, <2>9, Moves DEF Indexer
<1>2. ASSUME phase' = "scan", ~synced' PROVE ScanInv'
  <2>1. CASE DBIntegrityCheck
    <3>1. /\ startHeight' = SyncStartHeight /\ endHeight' = ChainTip /\ height' = SyncStartHeight
          /\ currentRange' = NoRange /\ allRanges' = <<>> /\ heightIndex' = heightIndex
      BY <2>1 DEF DBIntegrityCheck, StartScan, db
    <3>2. ScanInit'
      BY <1>0, <3>1, FollowerConstants, ChainTipIs, StoreTypes DEF ScanInit
    <3>3. ScanInit' => ScanInv'
      BY ScanInitInv, PTL
    <3> QED
      BY <3>2, <3>3
  <2>2. CASE Scan
    <3>1. phase = "scan" /\ (ScanPresent \/ ScanMissing) /\ UNCHANGED heightIndex /\ UNCHANGED command
      BY <2>2 DEF Scan, ScanStep, db
    <3> QED
      BY <1>0, <1>2, <3>1, PresentInv, MissingInv
  <2>3. CASE phase = "scan" /\ UNCHANGED scanVars /\ ~Kill
    <3>1. ~synced
      <4>1. CASE Indexer
        BY <1>2, <2>3, <4>1 DEF Indexer, Start, DBIntegrityCheck, Scan, ScanEnd, FillRange, CheckEnd, InitialSync,
           SyncBlock, SyncAboveTip, SyncReturns, Closed, Tick, PullAndHandle, CheckPrevious, PullBelowGenesis
      <4>2. CASE Write \/ CommitJob \/ Interrupt \/ LastSynced \/ (\E b \in Blocks : NodeMoves(b)) \/ UNCHANGED rest
        <5>1. UNCHANGED command
          BY <4>2 DEF Write, CommitJob, Interrupt, LastSynced, NodeMoves, rest
        <5> QED
          BY <1>2, <5>1
      <4> QED
        BY <2>3, <4>1, <4>2, Moves
    <3>2. ScanInv /\ pending = <<>>
      BY <1>0, <2>3, <3>1 DEF EmptyInv
    <3>3. UNCHANGED heightIndex
      <4>1. CASE UNCHANGED db
        BY <4>1 DEF db
      <4>2. CASE CheckEnd \/ SyncReturns \/ (\E h \in AllHeights : SyncBlock(h)) \/ Write \/ CommitJob \/ Closed
        BY <2>3, <3>2, <4>2 DEF CheckEnd, SyncReturns, SyncBlock, Write, CommitJob, Closed
      <4> QED
        BY <1>0, <2>3, <4>1, <4>2, StoreSteps
    <3> QED
      BY <2>3, <3>2, <3>3 DEF scanVars, ScanInv, ScanTypes, OpenRange, FinishedRanges, Covered
  <2> QED
    BY <1>2, <2>1, <2>2, <2>3, ScanSteps
<1> QED
  BY <1>1, <1>2 DEF CheckInv

LEMMA GapsFromInv == FollowInv /\ CheckInv => GapsFound
<1> SUFFICES ASSUME FollowInv, CheckInv, phase = "scan", ScanDone, endHeight # 0,
                    NEW h \in startHeight..endHeight
             PROVE  LET found == \E i \in DOMAIN allRanges : InRange(h, allRanges[i])
                    IN  /\ heightIndex[h] = NoBlock => found
                        /\ found /\ ~synced => heightIndex[h] = NoBlock
  BY DEF GapsFound
<1>0. LoopInv
  BY DEF FollowInv
<1>1. /\ startHeight \in Nat /\ endHeight \in Nat /\ height \in Nat
      /\ currentRange.start \in Int /\ currentRange.end \in Int
  BY <1>0, ScannedHeights
<1>2. startHeight <= endHeight /\ height = endHeight + 1 /\ h \in startHeight..(height - 1)
  BY <1>0, <1>1 DEF LoopInv, ScanDone
<1>3. currentRange = NoRange
  BY <1>0, <1>1, <1>2 DEF LoopInv
<1>4. heightIndex[h] = NoBlock => \E i \in DOMAIN allRanges : InRange(h, allRanges[i])
  BY <1>0, <1>2, <1>3 DEF LoopInv
<1>5. ASSUME ~synced, \E i \in DOMAIN allRanges : InRange(h, allRanges[i]) PROVE heightIndex[h] = NoBlock
  <2>1. ScanExact
    BY <1>5, ExactFromInv DEF CheckInv
  <2>2. heightIndex[endHeight] # NoBlock
    BY <1>0 DEF LoopInv
  <2> QED
    BY <1>5, <2>1, <2>2 DEF ScanExact
<1> QED
  BY <1>4, <1>5

\* DBIntegrityCheck finds every gap up to the tip of a DB that is not empty, also while
\* background commits of the sync before it write the index; at the start of a command,
\* when none is under way, it finds nothing else.
THEOREM GapsFoundCorrect == Spec => []GapsFound
<1>1. Init => FollowInv /\ CheckInv
  <2>1. Init => CheckInv
    BY DEF Init, CheckInv, EmptyInv
  <2> QED
    BY <2>1, InitFollowInv
<1>2. FollowInv /\ CheckInv /\ [Next]_vars => (FollowInv /\ CheckInv)'
  BY FollowInvStep, CheckStep
<1>3. FollowInv /\ CheckInv => GapsFound
  BY GapsFromInv
<1> QED
  BY <1>1, <1>2, <1>3, PTL DEF Spec

----------------------------------------------------------------------------
(* No gaps, and what a sync command leaves out.                            *)

\* The heights that are in the DB or on their way to it.
Have == Holds(StoreState) \cup HeightsOf(writerChan)

\* A set of heights without a gap above SyncStartHeight.
Full(P) == \A n \in P : (SyncStartHeight + 1)..n \subseteq P

\* The heights of the ranges still to be filled.
Left == UNION {allRanges[i].start..allRanges[i].end : i \in DOMAIN allRanges}

\* SingleBlockPullAndHandle goes down from the tip: heights above limit are as they have to
\* be, and below it there is the old set without a gap.
Limit == IF pc = "idle" THEN -1 ELSE IF pc = "pull" THEN at ELSE at - 1
WalkGaps == \A n \in Have : \A k \in (SyncStartHeight + 1)..n :
                (k \in Have \/ k <= Limit) /\ (n <= Limit => k \in Have)

\* A command that starts with the check: what it has and what it still has to fetch has no gap.
FullInv ==
    ~cmd.skip =>
        /\ phase = "scan" /\ ~synced => \A n \in Have : n <= endHeight
        /\ phase \in {"fill", "filling"} /\ ~synced => Full(Have \cup Left \cup todo)
        /\ phase = "tip" => Full(Have)
        /\ phase = "initial" /\ (cmd.name = "run" \/ ToTip(cmd)) => Full(Have \cup todo)
        /\ phase = "continuous" => WalkGaps

\* What a sync command has to index, it has or still has to fetch; when Close drops the
\* batch, that is one block at most.
AskedInv ==
    /\ phase = "initial" => asked \subseteq Have \cup todo
    /\ synced /\ phase \in {"check", "scan", "fill", "filling", "done"} => asked \subseteq Have
    /\ phase = "synced" => \E h \in AllHeights : Missing(asked) \subseteq {h}

\* The flush that ends SyncBlocks and the one after each block leave the counter at 0.
RestInv ==
    /\ phase \in {"continuous", "done"} => batchCounter = 0
    /\ phase \notin {"filling", "initial", "fatal"} => todo = {}

HaveInv == FullInv /\ AskedInv /\ RestInv

LEMMA HeightsOfHeights == ASSUME NEW s \in Seq(Blocks) PROVE HeightsOf(s) \subseteq AllHeights
BY FollowerConstants DEF HeightsOf, ToSet

LEMMA HaveHeights ==
    ASSUME FollowInv
    PROVE  Have \subseteq AllHeights /\ Stored(StoreState) \subseteq Have
<1>1. StoreOK(StoreState) /\ writerChan \in Seq(Blocks)
  BY DEF FollowInv, WalkInv
<1>2. batch \in Seq(Blocks) /\ pending \in Seq(Seq(Blocks))
  BY <1>1, StoreTypes
<1>3. HeightsOf(writerChan) \subseteq AllHeights /\ HeightsOf(batch) \subseteq AllHeights
  BY <1>1, <1>2, HeightsOfHeights
<1>4. ASSUME NEW i \in DOMAIN pending PROVE HeightsOf(pending[i]) \subseteq AllHeights
  BY <1>2, HeightsOfHeights
<1>5. Stored(StoreState) \subseteq AllHeights
  BY DEF Stored
<1> QED
  BY <1>3, <1>4, <1>5, StoreStateIs DEF Have, Holds

\* What the steps add to the heights.
LEMMA HaveSame ==
    ASSUME FollowInv, UNCHANGED writerChan,
           UNCHANGED db \/ CheckEnd \/ SyncReturns \/ CommitJob
    PROVE  Have' = Have
<1>1. StoreOK(StoreState)
  BY DEF FollowInv
<1>2. Holds(StoreState)' = Holds(StoreState)
  <2>1. CASE UNCHANGED db
    BY <2>1, SameStore
  <2>2. CASE CheckEnd \/ SyncReturns
    BY <1>1, <2>2, FlushStep
  <2>3. CASE CommitJob
    BY <1>1, <2>3, CommitStep
  <2> QED
    BY <2>1, <2>2, <2>3
<1>3. HeightsOf(writerChan)' = HeightsOf(writerChan)
  BY DEF HeightsOf
<1> QED
  BY <1>2, <1>3 DEF Have

LEMMA HaveSync ==
    ASSUME FollowInv, NEW h \in AllHeights, SyncBlock(h)
    PROVE  Have' = Have \cup {h}
<1>1. StoreOK(StoreState) /\ best \in Blocks
  BY DEF FollowInv, CommandInv
<1>2. Holds(StoreState)' = Holds(StoreState) \cup {h}
  BY <1>1, SyncBlockStep
<1>3. writerChan' = writerChan
  BY DEF SyncBlock, follower, walk
<1>4. HeightsOf(writerChan)' = HeightsOf(writerChan)
  BY <1>3 DEF HeightsOf
<1> QED
  BY <1>2, <1>4 DEF Have

LEMMA HaveWrite == ASSUME FollowInv, Write PROVE Have' = Have
<1>1. StoreOK(StoreState) /\ writerChan \in Seq(Blocks)
  BY DEF FollowInv, WalkInv
<1>2. Holds(StoreState)' = Holds(StoreState) \cup {HeightOf[Head(writerChan)]}
  BY <1>1, WriteStep
<1>3. writerChan # <<>> /\ writerChan' = Tail(writerChan)
  BY DEF Write
<1>4. ToSet(writerChan) = {Head(writerChan)} \cup ToSet(writerChan')
  BY <1>1, <1>3, ToSetTail
<1>5. HeightsOf(writerChan) = {HeightOf[Head(writerChan)]} \cup HeightsOf(writerChan')
  BY <1>4 DEF HeightsOf
<1> QED
  BY <1>2, <1>5 DEF Have

LEMMA HavePull == ASSUME FollowInv, PullAndHandle PROVE Have' = Have \cup {at} /\ at \in AllHeights
<1>1. /\ best \in Blocks /\ writerChan \in Seq(Blocks) /\ at \in AllHeights \cup {-1} /\ at >= 0
      /\ at <= HeightOf[best]
  BY DEF FollowInv, CommandInv, WalkInv, PullAndHandle
<1> DEFINE b == Ancestor(best, at)
<1>2. b \in Blocks /\ HeightOf[b] = at /\ at \in AllHeights
  BY <1>1, AncestorIs, FollowerConstants
<1>3. writerChan' = Append(writerChan, b) /\ UNCHANGED db
  BY DEF PullAndHandle
<1> HIDE DEF b
<1>4. ToSet(writerChan') = ToSet(writerChan) \cup {b}
  BY <1>1, <1>2, <1>3, ToSetAppend
<1>5. HeightsOf(writerChan') = HeightsOf(writerChan) \cup {at}
  BY <1>2, <1>4 DEF HeightsOf
<1>6. Holds(StoreState)' = Holds(StoreState)
  BY <1>3, SameStore
<1> QED
  BY <1>2, <1>5, <1>6 DEF Have

\* Before and after a command there is only the DB.
LEMMA HaveStored ==
    ASSUME FollowInv, EmptyInv, phase \in {"check", "scan"}, ~synced
    PROVE  Have = Stored(StoreState)
<1>1. batch = <<>> /\ pending = <<>>
  BY DEF EmptyInv
<1>2. writerChan = <<>>
  BY DEF FollowInv, WalkInv
<1>3. HeightsOf(<<>>) = {}
  BY ToSetOne DEF HeightsOf
<1> QED
  BY <1>1, <1>2, <1>3, StoreStateIs DEF Have, Holds

\* The check: with the heights of the ranges it has found, the DB has no gap.
LEMMA CheckFull ==
    ASSUME FollowInv, phase = "scan", ScanDone, \A n \in Have : n <= endHeight
    PROVE  Full(Have \cup Left)
<1> USE FollowerConstants
<1>0. LoopInv /\ Have \subseteq AllHeights /\ Stored(StoreState) \subseteq Have /\ allRanges \in Seq(Ranges)
  BY HaveHeights DEF FollowInv, RangesInv
<1>1. /\ startHeight \in Nat /\ endHeight \in Nat /\ height \in Nat /\ startHeight = SyncStartHeight
      /\ currentRange.start \in Int /\ currentRange.end \in Int
      /\ \A h \in startHeight..(height - 1) : h \in AllHeights
  BY <1>0, ScannedHeights DEF LoopInv
<1>2. \A i \in DOMAIN allRanges : allRanges[i] \in Ranges
  BY <1>0
<1>3. \A i \in DOMAIN allRanges : /\ allRanges[i].start \in Int /\ allRanges[i].end \in Int
                                  /\ startHeight <= allRanges[i].start /\ allRanges[i].end < height
  BY <1>0, <1>2 DEF LoopInv, Ranges
<1>4. ASSUME NEW n \in Have \cup Left PROVE n \in Int /\ n <= endHeight
  <2>1. CASE n \in Have
    BY <1>0, <2>1
  <2>2. CASE n \in Left
    <3>1. PICK i \in DOMAIN allRanges : n \in allRanges[i].start..allRanges[i].end
      BY <2>2 DEF Left
    <3>2. n \in Int /\ startHeight <= n /\ n < height
      BY <1>1, <1>3, <3>1
    <3>3. height <= endHeight + 1
      BY <1>0, <1>1, <3>2 DEF LoopInv
    <3> QED
      BY <1>1, <3>2, <3>3
  <2> QED
    BY <2>1, <2>2
<1>5. ASSUME NEW n \in Have \cup Left, NEW k \in (SyncStartHeight + 1)..n
      PROVE  k \in Have \cup Left
  <2>1. k \in Nat /\ startHeight <= k /\ k <= endHeight /\ endHeight # 0
    BY <1>1, <1>4, <1>5
  <2>2. height = endHeight + 1
    BY <1>0, <1>1, <2>1 DEF LoopInv, ScanDone
  <2>3. currentRange = NoRange /\ k \in startHeight..(height - 1)
    BY <1>0, <1>1, <2>1, <2>2 DEF LoopInv
  <2>4. CASE heightIndex[k] = NoBlock
    <3>1. PICK i \in DOMAIN allRanges : InRange(k, allRanges[i])
      BY <1>0, <2>3, <2>4 DEF LoopInv
    <3>2. k \in allRanges[i].start..allRanges[i].end
      BY <1>3, <2>1, <3>1 DEF InRange
    <3> QED
      BY <3>2 DEF Left
  <2>5. CASE heightIndex[k] # NoBlock
    <3>1. k \in Stored(StoreState)
      BY <1>1, <2>3, <2>5 DEF Stored, StoreState
    <3> QED
      BY <1>0, <3>1
  <2> QED
    BY <2>4, <2>5
<1> QED
  BY <1>5 DEF Full

\* One range is taken from those that are left.
LEMMA LeftTail ==
    ASSUME allRanges \in Seq(Ranges), allRanges # <<>>
    PROVE  Left = Head(allRanges).start..Head(allRanges).end
                  \cup UNION {Tail(allRanges)[i].start..Tail(allRanges)[i].end : i \in DOMAIN Tail(allRanges)}
<1> DEFINE R(r) == r.start..r.end
<1>1. ToSet(allRanges) = {Head(allRanges)} \cup ToSet(Tail(allRanges))
  BY ToSetTail
<1>2. Left = UNION {R(r) : r \in ToSet(allRanges)}
  BY DEF Left, ToSet
<1>3. UNION {Tail(allRanges)[i].start..Tail(allRanges)[i].end : i \in DOMAIN Tail(allRanges)}
          = UNION {R(r) : r \in ToSet(Tail(allRanges))}
  BY DEF ToSet
<1> HIDE DEF R
<1>4. UNION {R(r) : r \in ToSet(allRanges)} = R(Head(allRanges)) \cup UNION {R(r) : r \in ToSet(Tail(allRanges))}
  BY <1>1
<1> QED
  BY <1>2, <1>3, <1>4 DEF R

\* InitialSync adds the heights up to the node's tip to a DB without gaps.
LEMMA InitialFull ==
    ASSUME FollowInv, Full(Have), NEW first, first = Max({ChainTip, SyncStartHeight}) + 1,
           NEW k \in Nat, SyncStartHeight < k
    PROVE  k < first => k \in Have
<1> USE FollowerConstants
<1>0. StoreOK(StoreState) /\ Have \subseteq AllHeights /\ Stored(StoreState) \subseteq Have
  BY HaveHeights DEF FollowInv
<1>1. ChainTip \in AllHeights /\ ChainTip \in Nat /\ (ChainTip # 0 => heightIndex[ChainTip] # NoBlock)
  BY <1>0, ChainTipIs
<1>2. Max({ChainTip, SyncStartHeight}) \in {ChainTip, SyncStartHeight}
  <2>1. {ChainTip, SyncStartHeight} \in SUBSET AllHeights
    BY <1>1
  <2> QED
    BY <2>1, MaxIs
<1>3. ASSUME k < first PROVE k \in Have
  <2>1. k <= ChainTip /\ ChainTip # 0
    BY <1>1, <1>2, <1>3
  <2>2. ChainTip \in Have
    BY <1>0, <1>1, <2>1 DEF Stored, StoreState
  <2>3. k \in (SyncStartHeight + 1)..ChainTip
    BY <1>1, <2>1
  <2> QED
    BY <2>2, <2>3 DEF Full
<1> QED
  BY <1>3

\* The walk of SingleBlockPullAndHandle keeps its promise at every step.
LEMMA WalkGapsStep ==
    ASSUME FollowInv, WalkGaps, Tick \/ PullAndHandle \/ CheckPrevious
    PROVE  WalkGaps'
<1> USE FollowerConstants
<1>0. /\ WalkInv /\ StoreOK(StoreState) /\ best \in Blocks
      /\ Have \subseteq AllHeights /\ Stored(StoreState) \subseteq Have
  BY HaveHeights DEF FollowInv, CommandInv
<1>1. \A n \in Have : n \in Nat
  BY <1>0
<1>2. CASE Tick
  <2>1. Have' = Have
    BY <1>2, HaveSame DEF Tick
  <2>2. Limit = -1
    BY <1>2 DEF Tick, Limit
  <2>3. ASSUME NEW n \in Have, NEW k \in (SyncStartHeight + 1)..n PROVE k \in Have
    BY <1>1, <2>2, <2>3 DEF WalkGaps
  <2> QED
    BY <2>1, <2>3 DEF WalkGaps
<1>3. CASE PullAndHandle
  <2>1. Have' = Have \cup {at} /\ at \in AllHeights
    BY <1>3, HavePull
  <2>2. Limit = at /\ Limit' = at - 1
    BY <1>3 DEF PullAndHandle, Limit
  <2>3. ASSUME NEW n \in Have', NEW k \in (SyncStartHeight + 1)..n
        PROVE  (k \in Have' \/ k <= at - 1) /\ (n <= at - 1 => k \in Have')
    <3>1. at \in Nat /\ n \in Nat /\ k \in Nat /\ k <= n
      BY <1>1, <2>1
    <3>2. CASE n \in Have
      <4>1. (k \in Have \/ k <= at) /\ (n <= at => k \in Have)
        BY <2>2, <3>2 DEF WalkGaps
      <4> QED
        BY <2>1, <3>1, <4>1
    <3>3. CASE n = at
      BY <2>1, <3>1, <3>3
    <3> QED
      BY <2>1, <3>2, <3>3
  <2> QED
    BY <2>2, <2>3 DEF WalkGaps
<1>4. CASE CheckPrevious
  <2>1. Have' = Have /\ Limit = at - 1 /\ at \in Nat /\ held \in Blocks /\ HeightOf[held] = at
    <3>1. UNCHANGED <<db, writerChan>> /\ pc = "check"
      BY <1>4 DEF CheckPrevious
    <3>2. Have' = Have
      BY <3>1, HaveSame
    <3> QED
      BY <1>0, <3>1, <3>2 DEF Limit, WalkInv
  <2>2. CASE Parent[held] \in blockIndex
    <3>1. Parent[held] \in Blocks /\ Parent[held] # NoBlock /\ HeightOf[Parent[held]] \in Stored(StoreState)
      <4>1. blockIndex \subseteq Blocks /\ \A b \in blockIndex : heightIndex[HeightOf[b]] # NoBlock
        BY <1>0, StoreTypes
      <4> QED
        BY <2>2, <4>1 DEF Stored, StoreState
    <3>2. HeightOf[held] = HeightOf[Parent[held]] + 1
      BY <2>1, <3>1, FollowerAssumption
    <3>3. at - 1 \in Have
      <4>1. HeightOf[Parent[held]] \in Nat
        BY <3>1
      <4> QED
        BY <1>0, <2>1, <3>1, <3>2, <4>1
    <3>4. ASSUME NEW n \in Have, NEW k \in (SyncStartHeight + 1)..n PROVE k \in Have
      <4>1. k \in Have \/ k <= at - 1
        BY <2>1 DEF WalkGaps
      <4>2. k <= at - 1 => k \in (SyncStartHeight + 1)..(at - 1)
        BY <1>1, <2>1
      <4>3. at - 1 <= Limit
        BY <2>1
      <4> QED
        BY <3>3, <4>1, <4>2, <4>3 DEF WalkGaps
    <3>5. Limit' = -1
      BY <1>4, <2>2 DEF CheckPrevious, Limit
    <3> QED
      BY <2>1, <3>4 DEF WalkGaps
  <2>3. CASE Parent[held] \notin blockIndex
    <3>1. Limit' = Limit
      BY <1>4, <2>1, <2>3 DEF CheckPrevious, Limit
    <3> QED
      BY <2>1, <3>1 DEF WalkGaps
  <2> QED
    BY <2>2, <2>3
<1> QED
  BY <1>2, <1>3, <1>4

LEMMA FullStep == ASSUME FollowInv, EmptyInv, HaveInv, [Next]_vars PROVE FullInv'
<1> SUFFICES ASSUME ~cmd'.skip PROVE FullInv'
  BY DEF FullInv
<1> USE SameCommand, FollowerConstants
<1>0. /\ FullInv /\ RestInv /\ CommandInv /\ StoreOK(StoreState)
      /\ Have \subseteq AllHeights /\ Stored(StoreState) \subseteq Have /\ allRanges \in Seq(Ranges)
  BY HaveHeights DEF HaveInv, FollowInv, RangesInv
<1>1. ASSUME NEW c \in Commands, Start(c) PROVE FullInv'
  BY <1>1 DEF Start, FullInv
<1>2. CASE DBIntegrityCheck
  <2>1. phase = "check" /\ phase' = "scan" /\ UNCHANGED <<db, command, writerChan>> /\ endHeight' = ChainTip
    BY <1>2 DEF DBIntegrityCheck, StartScan, follower, walk
  <2>2. Have' = Have
    BY <2>1, HaveSame
  <2>3. ASSUME ~synced PROVE \A n \in Have : n <= ChainTip
    <3>1. Have = Stored(StoreState)
      BY <2>1, <2>3, HaveStored
    <3> QED
      BY <1>0, <3>1, ChainTipIs DEF Stored, StoreState
  <2> QED
    BY <2>1, <2>2, <2>3 DEF FullInv
<1>3. CASE Scan
  <2>1. phase = "scan" /\ phase' = "scan" /\ UNCHANGED <<db, command, writerChan, endHeight>>
    BY <1>3 DEF Scan, ScanStep, ScanPresent, ScanMissing, follower, walk
  <2>2. Have' = Have
    BY <2>1, HaveSame
  <2> QED
    BY <1>0, <2>1, <2>2 DEF FullInv
<1>4. CASE ScanEnd
  <2>1. /\ phase = "scan" /\ phase' = "fill" /\ UNCHANGED <<db, command, writerChan, allRanges, todo>>
        /\ ScanDone
    BY <1>4 DEF ScanEnd, follower, walk, scanVars
  <2>2. Have' = Have /\ Left' = Left /\ todo' = {}
    BY <1>0, <2>1, HaveSame DEF Left, RestInv
  <2>3. ASSUME ~synced PROVE Full(Have \cup Left)
    <3>1. \A n \in Have : n <= endHeight
      BY <1>0, <2>1, <2>3 DEF FullInv
    <3> QED
      BY <2>1, <3>1, CheckFull
  <2>4. Have' \cup Left' \cup todo' = Have \cup Left
    BY <2>2
  <2> QED
    BY <2>1, <2>3, <2>4 DEF FullInv, Full
<1>5. CASE FillRange
  <2>1. /\ phase = "fill" /\ phase' = "filling" /\ UNCHANGED <<db, command, writerChan>>
        /\ allRanges # <<>> /\ allRanges' = Tail(allRanges)
        /\ todo' = Head(allRanges).start..Head(allRanges).end
    BY <1>5 DEF FillRange, follower, walk
  <2>2. Have' = Have /\ todo = {}
    BY <1>0, <2>1, HaveSame DEF RestInv
  <2>3. Left = todo' \cup Left'
    BY <1>0, <2>1, LeftTail DEF Left
  <2>4. Have' \cup Left' \cup todo' = Have \cup Left \cup todo
    BY <2>2, <2>3
  <2> QED
    BY <1>0, <2>1, <2>4 DEF FullInv, Full
<1>6. CASE CheckEnd
  <2>1. /\ phase = "fill" /\ phase' = (IF synced THEN "done" ELSE "tip") /\ UNCHANGED <<command, writerChan>>
        /\ allRanges = <<>>
    BY <1>6 DEF CheckEnd, follower, walk
  <2>2. Have' = Have /\ todo = {} /\ Left = {}
    BY <1>0, <1>6, <2>1, HaveSame DEF RestInv, Left
  <2>3. Have \cup Left \cup todo = Have
    BY <2>2
  <2>4. ~synced => Full(Have)
    BY <1>0, <2>1, <2>3 DEF FullInv
  <2> QED
    BY <2>1, <2>2, <2>4 DEF FullInv, Full
<1>7. CASE InitialSync
  <2>1. phase = "tip" /\ phase' = "initial" /\ UNCHANGED <<db, cmd, writerChan>>
    BY <1>7 DEF InitialSync, follower, walk
  <2>2. Have' = Have /\ Full(Have)
    BY <1>0, <2>1, HaveSame DEF FullInv
  <2>3. ASSUME cmd.name = "run" \/ ToTip(cmd) PROVE Full(Have \cup todo')
    <3> DEFINE first == Max({ChainTip, SyncStartHeight}) + 1
    <3>1. todo' = first..HeightOf[best] /\ HeightOf[best] \in Nat
      BY <1>0, <1>7, <2>3 DEF InitialSync, CommandInv
    <3>2. first \in Nat
      <4>1. {ChainTip, SyncStartHeight} \in SUBSET AllHeights
        BY <1>0, ChainTipIs
      <4>2. Max({ChainTip, SyncStartHeight}) \in AllHeights
        BY <4>1, MaxIs
      <4> QED
        BY <4>2
    <3>3. \A k \in Nat : SyncStartHeight < k /\ k < first => k \in Have
      BY <2>2, InitialFull
    <3> HIDE DEF first
    <3>4. ASSUME NEW n \in Have \cup todo', NEW k \in (SyncStartHeight + 1)..n PROVE k \in Have \cup todo'
      <4>1. n \in Nat /\ k \in Nat /\ SyncStartHeight < k /\ k <= n
        BY <1>0, <3>1, <3>2
      <4>2. CASE n \in Have
        BY <2>2, <4>2 DEF Full
      <4>3. CASE n \in todo' /\ k < first
        BY <3>3, <4>1, <4>3
      <4>4. CASE n \in todo' /\ ~(k < first)
        BY <3>1, <3>2, <4>1, <4>4
      <4> QED
        BY <4>2, <4>3, <4>4
    <3> QED
      BY <3>4 DEF Full
  <2> QED
    BY <2>1, <2>2, <2>3 DEF FullInv, Full
<1>8. ASSUME NEW h \in AllHeights, SyncBlock(h) PROVE FullInv'
  <2>1. /\ phase \in {"filling", "initial"} /\ phase' = phase /\ UNCHANGED <<command, allRanges>>
        /\ h \in todo /\ todo' = todo \ {h}
    BY <1>8 DEF SyncBlock, scanVars
  <2>2. Have' = Have \cup {h} /\ Left' = Left
    BY <1>8, <2>1, HaveSync DEF Left
  <2>3. Have' \cup Left' \cup todo' = Have \cup Left \cup todo /\ Have' \cup todo' = Have \cup todo
    BY <2>1, <2>2
  <2> QED
    BY <1>0, <2>1, <2>3 DEF FullInv, Full
<1>9. ASSUME NEW h \in AllHeights, SyncAboveTip(h) PROVE FullInv'
  BY <1>9 DEF SyncAboveTip, FullInv
<1>10. CASE SyncReturns
  <2>1. /\ phase \in {"filling", "initial"} /\ todo = {} /\ UNCHANGED <<cmd, writerChan, allRanges, todo>>
    BY <1>10 DEF SyncReturns, follower, walk, scanVars
  <2>2. Have' = Have /\ Left' = Left
    BY <1>10, <2>1, HaveSame DEF Left
  <2>3. CASE phase = "filling"
    <3>1. phase' = "fill"
      BY <1>10, <2>3 DEF SyncReturns
    <3>2. synced' <=> synced
      <4>1. synced' = synced
        BY <1>10, <2>3 DEF SyncReturns
      <4> QED
        BY Zenon, <4>1
    <3> QED
      BY <1>0, <2>1, <2>2, <2>3, <3>1, <3>2 DEF FullInv, Full
  <2>4. CASE phase = "initial"
    <3>1. phase' \in {"continuous", "check", "done"} /\ (phase' = "continuous" => cmd.name = "run")
      BY <1>10, <2>4 DEF SyncReturns
    <3>2. ASSUME phase' = "continuous" PROVE WalkGaps'
      <4>1. Full(Have \cup todo) /\ Have \cup todo = Have
        BY <1>0, <2>1, <2>4, <3>1, <3>2 DEF FullInv
      <4>2. \A n \in Have : \A k \in (SyncStartHeight + 1)..n : k \in Have
        BY <4>1 DEF Full
      <4> QED
        BY <2>2, <4>2 DEF WalkGaps
    <3> QED
      BY <3>1, <3>2 DEF FullInv
  <2> QED
    BY <2>1, <2>3, <2>4
<1>11. CASE Closed \/ PullBelowGenesis \/ Interrupt \/ Kill
  <2>1. phase' \in {"off", "synced", "fatal", "closing"}
    BY <1>11 DEF Closed, PullBelowGenesis, Interrupt, Kill
  <2> QED
    BY <2>1 DEF FullInv
<1>12. CASE Tick \/ PullAndHandle \/ CheckPrevious
  <2>1. phase = "continuous" /\ phase' = "continuous" /\ UNCHANGED command
    BY <1>12 DEF Tick, PullAndHandle, CheckPrevious
  <2>2. WalkGaps
    BY <1>0, <2>1 DEF FullInv
  <2>3. WalkGaps'
    BY <1>12, <2>2, WalkGapsStep
  <2> QED
    BY <2>1, <2>3 DEF FullInv
<1>13. CASE Write
  <2>1. phase = "continuous" /\ phase' = "continuous" /\ UNCHANGED <<command, pc, at>>
    BY <1>13 DEF Write
  <2>2. WalkGaps /\ Have' = Have /\ Limit' = Limit
    BY <1>0, <1>13, <2>1, HaveWrite DEF FullInv, Limit
  <2> QED
    BY <2>1, <2>2 DEF FullInv, WalkGaps
<1>14. CASE CommitJob \/ LastSynced \/ (\E b \in Blocks : NodeMoves(b)) \/ UNCHANGED rest
  <2>1. UNCHANGED <<phase, command, writerChan, todo, allRanges, endHeight, pc, at>>
    BY <1>14 DEF CommitJob, LastSynced, NodeMoves, rest, follower, walk, scanVars
  <2>2. Have' = Have
    <3>1. UNCHANGED db \/ CommitJob
      BY <1>14 DEF LastSynced, NodeMoves, rest
    <3> QED
      BY <2>1, <3>1, HaveSame
  <2>3. Left' = Left /\ Limit' = Limit
    BY <2>1 DEF Left, Limit
  <2> QED
    BY <1>0, <2>1, <2>2, <2>3 DEF FullInv, Full, WalkGaps
<1> QED
  BY <1>1, <1>2, <1>3, <1>4, <1>5, <1>6, <1>7, <1>8, <1>9, <1>10, <1>11, <1>12, <1>13, <1>14, Moves DEF Indexer

LEMMA RestStep == ASSUME FollowInv, HaveInv, [Next]_vars PROVE RestInv'
<1>0. RestInv /\ CommandInv /\ StoreOK(StoreState) /\ writerChan \in Seq(Blocks)
  BY DEF HaveInv, FollowInv, WalkInv
<1>1. CASE (\E c \in Commands : Start(c)) \/ DBIntegrityCheck \/ Scan \/ ScanEnd \/ FillRange
           \/ InitialSync \/ \E h \in AllHeights : SyncAboveTip(h)
  BY <1>0, <1>1 DEF RestInv, Start, DBIntegrityCheck, Scan, ScanEnd, FillRange, InitialSync, SyncAboveTip
<1>2. ASSUME NEW h \in AllHeights, SyncBlock(h) PROVE RestInv'
  BY <1>0, <1>2 DEF RestInv, SyncBlock
<1>3. CASE CheckEnd \/ SyncReturns
  <2>1. batchCounter' = 0
    BY <1>0, <1>3, FlushStep
  <2> QED
    BY <1>0, <1>3, <2>1 DEF RestInv, CheckEnd, SyncReturns
<1>4. CASE Write
  BY <1>0, <1>4, WriteStep DEF RestInv, Write
<1>5. CASE CommitJob
  BY <1>0, <1>5, CommitStep DEF RestInv, CommitJob
<1>6. CASE Closed \/ Interrupt \/ Kill
  BY <1>0, <1>6 DEF RestInv, Closed, Interrupt, Kill
<1>7. CASE Tick \/ PullAndHandle \/ CheckPrevious \/ PullBelowGenesis \/ LastSynced
           \/ (\E b \in Blocks : NodeMoves(b)) \/ UNCHANGED rest
  <2>1. UNCHANGED <<db, todo>> /\ (phase' = phase \/ phase' = "fatal")
    BY <1>7 DEF Tick, PullAndHandle, CheckPrevious, PullBelowGenesis, LastSynced, NodeMoves, rest
  <2> QED
    BY <1>0, <2>1 DEF RestInv, db
<1> QED
  BY <1>1, <1>2, <1>3, <1>4, <1>5, <1>6, <1>7, Moves DEF Indexer

\* At the end of a sync command: the batch holds one block at most, and the rest is in the DB.
LEMMA ClosedMissing ==
    ASSUME FollowInv, HaveInv, Closed, phase = "done"
    PROVE  \E h \in AllHeights : Missing(asked)' \subseteq {h}
<1> USE FollowerConstants
<1>0. /\ StoreOK(StoreState) /\ writerChan = <<>> /\ batchCounter = 0 /\ asked \subseteq Have
      /\ asked \subseteq AllHeights
  BY DEF FollowInv, WalkInv, HaveInv, RestInv, AskedInv, CommandInv
<1>1. batch \in Seq(Blocks) /\ Len(batch) <= 1
  BY <1>0, StoreTypes
<1>2. pending = <<>> /\ heightIndex' = heightIndex /\ asked' = asked
  BY DEF Closed, command
<1>3. Have = Stored(StoreState) \cup HeightsOf(batch)
  <2>1. HeightsOf(<<>>) = {}
    BY ToSetOne DEF HeightsOf
  <2> QED
    BY <1>0, <1>2, <2>1, StoreStateIs DEF Have, Holds
<1>4. Missing(asked)' \subseteq HeightsOf(batch)
  BY <1>0, <1>2, <1>3 DEF Missing, Stored, StoreState
<1>5. CASE batch = <<>>
  BY <1>4, <1>5, ToSetOne DEF HeightsOf
<1>6. CASE batch # <<>>
  <2>1. DOMAIN batch = {1} /\ batch[1] \in Blocks
    <3>1. Len(batch) \in Nat /\ Len(batch) # 0 /\ DOMAIN batch = 1..Len(batch)
      BY <1>1, <1>6
    <3>2. Len(batch) = 1 /\ DOMAIN batch = 1..1
      BY <1>1, <3>1
    <3> QED
      BY <1>1, <3>2
  <2>2. HeightsOf(batch) = {HeightOf[batch[1]]}
    BY <2>1 DEF HeightsOf, ToSet
  <2> QED
    BY <1>4, <2>1, <2>2
<1> QED
  BY <1>5, <1>6

LEMMA AskedStep == ASSUME FollowInv, EmptyInv, HaveInv, [Next]_vars PROVE AskedInv'
<1> USE SameCommand, FollowerConstants
<1>0. /\ FullInv /\ AskedInv /\ RestInv /\ CommandInv /\ StoreOK(StoreState)
      /\ Have \subseteq AllHeights /\ Stored(StoreState) \subseteq Have
  BY HaveHeights DEF HaveInv, FollowInv
<1>1. ASSUME NEW c \in Commands, Start(c) PROVE AskedInv'
  BY <1>1 DEF Start, AskedInv
<1>2. CASE DBIntegrityCheck \/ Scan \/ ScanEnd \/ FillRange \/ CheckEnd
  <2>1. /\ phase \in {"check", "scan", "fill"} /\ phase' \notin {"initial", "synced"}
        /\ UNCHANGED <<command, writerChan>> /\ (UNCHANGED db \/ CheckEnd)
    BY <1>2 DEF DBIntegrityCheck, Scan, ScanEnd, FillRange, CheckEnd, follower, walk
  <2>2. Have' = Have
    BY <2>1, HaveSame
  <2> QED
    BY <1>0, <2>1, <2>2 DEF AskedInv
<1>3. CASE InitialSync
  <2>1. phase = "tip" /\ phase' = "initial" /\ UNCHANGED <<db, cmd, writerChan>>
    BY <1>3 DEF InitialSync, follower, walk
  <2>2. Have' = Have
    BY <2>1, HaveSame
  <2> DEFINE first == Max({ChainTip, SyncStartHeight}) + 1
             toTip == cmd.name = "run" \/ ToTip(cmd)
  <2>3. /\ todo' = IF toTip THEN first..HeightOf[best] ELSE cmd.start..cmd.end
        /\ asked' = IF toTip /\ ~cmd.skip THEN (SyncStartHeight + 1)..HeightOf[best] ELSE todo'
    BY <1>3 DEF InitialSync
  <2>4. first \in Nat /\ HeightOf[best] \in Nat
    <3>1. {ChainTip, SyncStartHeight} \in SUBSET AllHeights
      BY <1>0, ChainTipIs
    <3>2. Max({ChainTip, SyncStartHeight}) \in AllHeights
      BY <3>1, MaxIs
    <3> QED
      BY <1>0, <3>2 DEF CommandInv
  <2>5. ~cmd.skip => \A k \in Nat : SyncStartHeight < k /\ k < first => k \in Have
    <3>1. ~cmd.skip => Full(Have)
      BY <1>0, <2>1 DEF FullInv
    <3> QED
      BY <3>1, InitialFull
  <2> HIDE DEF first, toTip
  <2>6. asked' \subseteq Have' \cup todo'
    <3>1. CASE toTip /\ ~cmd.skip
      <4>1. asked' = (SyncStartHeight + 1)..HeightOf[best] /\ todo' = first..HeightOf[best]
        BY <2>3, <3>1
      <4>2. ASSUME NEW k \in asked' PROVE k \in Have \cup todo'
        <5>1. k \in Nat /\ SyncStartHeight < k /\ k <= HeightOf[best]
          BY <2>4, <4>1
        <5>2. CASE k < first
          BY <2>5, <3>1, <5>1, <5>2
        <5>3. CASE ~(k < first)
          BY <2>4, <4>1, <5>1, <5>3
        <5> QED
          BY <5>2, <5>3
      <4> QED
        BY <2>2, <4>2
    <3>2. CASE ~(toTip /\ ~cmd.skip)
      BY <2>3, <3>2
    <3> QED
      BY <3>1, <3>2
  <2> QED
    BY <2>1, <2>6 DEF AskedInv
<1>4. ASSUME NEW h \in AllHeights, SyncBlock(h) PROVE AskedInv'
  <2>1. /\ phase \in {"filling", "initial"} /\ phase' = phase /\ UNCHANGED command
        /\ todo' = todo \ {h}
    BY <1>4 DEF SyncBlock
  <2>2. Have' = Have \cup {h}
    BY <1>4, HaveSync
  <2> QED
    BY <1>0, <2>1, <2>2 DEF AskedInv
<1>5. ASSUME NEW h \in AllHeights, SyncAboveTip(h) PROVE AskedInv'
  BY <1>5 DEF SyncAboveTip, AskedInv
<1>6. CASE SyncReturns
  <2>1. phase \in {"filling", "initial"} /\ todo = {} /\ UNCHANGED <<writerChan, asked>>
        /\ phase' \notin {"initial", "synced"}
    BY <1>6 DEF SyncReturns, follower, walk
  <2>2. Have' = Have
    BY <1>6, <2>1, HaveSame
  <2>3. CASE phase = "filling"
    <3>1. synced' = synced
      BY <1>6, <2>3 DEF SyncReturns
    <3>2. synced' <=> synced
      BY Zenon, <3>1
    <3> QED
      BY <1>0, <2>1, <2>2, <2>3, <3>2 DEF AskedInv
  <2>4. CASE phase = "initial"
    BY <1>0, <2>1, <2>2, <2>4 DEF AskedInv
  <2> QED
    BY <2>1, <2>3, <2>4
<1>7. CASE Closed
  <2>1. phase \in {"closing", "done"} /\ phase' = IF phase = "closing" THEN "off" ELSE "synced"
    BY <1>7 DEF Closed
  <2> QED
    BY <1>7, <2>1, ClosedMissing DEF AskedInv
<1>8. CASE Tick \/ PullAndHandle \/ CheckPrevious \/ PullBelowGenesis \/ Write \/ Interrupt \/ Kill
  <2>1. phase' \in {"continuous", "fatal", "closing", "off"}
    BY <1>8 DEF Tick, PullAndHandle, CheckPrevious, PullBelowGenesis, Write, Interrupt, Kill
  <2> QED
    BY <2>1 DEF AskedInv
<1>9. CASE CommitJob \/ LastSynced \/ (\E b \in Blocks : NodeMoves(b)) \/ UNCHANGED rest
  <2>1. UNCHANGED <<phase, command, writerChan, todo>> /\ (UNCHANGED db \/ CommitJob)
    BY <1>9 DEF CommitJob, LastSynced, NodeMoves, rest, follower, walk
  <2>2. Have' = Have
    BY <2>1, HaveSame
  <2>3. phase = "synced" => heightIndex' = heightIndex
    <3>1. ASSUME phase = "synced", CommitJob PROVE FALSE
      BY <3>1 DEF EmptyInv, CommitJob
    <3> QED
      BY <2>1, <3>1 DEF db
  <2> QED
    BY <1>0, <2>1, <2>2, <2>3 DEF AskedInv, Missing
<1> QED
  BY <1>1, <1>2, <1>3, <1>4, <1>5, <1>6, <1>7, <1>8, <1>9, Moves DEF Indexer

LEMMA NoGapsFromInv == FollowInv /\ HaveInv => NoGaps
<1> SUFFICES ASSUME FollowInv, HaveInv, Resting, ~cmd.skip
             PROVE  /\ Missing((SyncStartHeight + 1)..ChainTip) \subseteq {HeightOf[b] : b \in Unseen}
                    /\ Len(batch) <= 1
  BY DEF NoGaps
<1> USE FollowerConstants
<1>0. /\ StoreOK(StoreState) /\ WalkGaps /\ batchCounter = 0 /\ Limit = -1 /\ writerChan = <<>>
      /\ Have \subseteq AllHeights /\ Stored(StoreState) \subseteq Have
  BY HaveHeights DEF FollowInv, HaveInv, FullInv, RestInv, Resting, Limit
<1>1. Len(batch) <= 1
  BY <1>0, StoreTypes
<1>2. ASSUME NEW k \in (SyncStartHeight + 1)..ChainTip, heightIndex[k] = NoBlock
      PROVE  k \in {HeightOf[b] : b \in Unseen}
  <2>1. ChainTip \in AllHeights /\ ChainTip \in Nat /\ (ChainTip # 0 => heightIndex[ChainTip] # NoBlock)
    BY <1>0, ChainTipIs
  <2>2. k \in Nat /\ k >= 1 /\ k <= ChainTip /\ k \in AllHeights
    BY <2>1
  <2>3. ChainTip \in Stored(StoreState)
    BY <2>1, <2>2 DEF Stored, StoreState
  <2>4. k \in Have
    <3>1. k \in Have \/ k <= Limit
      BY <1>0, <1>2, <2>3 DEF WalkGaps
    <3> QED
      BY <1>0, <2>2, <3>1
  <2>5. k \notin Stored(StoreState) /\ k \notin HeightsOf(writerChan)
    BY <1>0, <1>2, ToSetOne DEF Stored, StoreState, HeightsOf
  <2>6. k \in HeightsOf(batch) \cup UNION {HeightsOf(pending[i]) : i \in DOMAIN pending}
    BY <2>4, <2>5, StoreStateIs DEF Have, Holds
  <2> QED
    BY <2>6 DEF HeightsOf, Unseen
<1> QED
  BY <1>1, <1>2 DEF Missing

LEMMA SyncFromInv == FollowInv /\ HaveInv => SyncLosesAtMostOne
<1> SUFFICES ASSUME HaveInv, phase = "synced" PROVE Cardinality(Missing(asked)) <= 1
  BY DEF SyncLosesAtMostOne
<1>1. PICK h : Missing(asked) \subseteq {h}
  BY DEF HaveInv, AskedInv
<1>2. Missing(asked) = {} \/ Missing(asked) = {h}
  BY <1>1
<1>3. Cardinality({}) = 0 /\ Cardinality({h}) = 1
  BY FS_EmptySet, FS_Singleton
<1> QED
  BY <1>2, <1>3

LEMMA HaveInvariant == Spec => [](FollowInv /\ EmptyInv /\ HaveInv)
<1>1. Init => FollowInv /\ CheckInv /\ HaveInv
  <2>1. Init => CheckInv
    BY DEF Init, CheckInv, EmptyInv
  <2>2. Init => HaveInv
    BY DEF Init, HaveInv, FullInv, AskedInv, RestInv
  <2> QED
    BY <2>1, <2>2, InitFollowInv
<1>2. FollowInv /\ CheckInv /\ HaveInv /\ [Next]_vars => (FollowInv /\ CheckInv /\ HaveInv)'
  <2> SUFFICES ASSUME FollowInv, CheckInv, HaveInv, [Next]_vars
               PROVE  FollowInv' /\ CheckInv' /\ HaveInv'
    OBVIOUS
  <2>1. EmptyInv
    BY DEF CheckInv
  <2>2. FollowInv' /\ CheckInv'
    BY FollowInvStep, CheckStep
  <2>3. FullInv' /\ AskedInv' /\ RestInv'
    BY <2>1, FullStep, AskedStep, RestStep
  <2> QED
    BY <2>2, <2>3 DEF HaveInv
<1>3. CheckInv => EmptyInv
  BY DEF CheckInv
<1> QED
  BY <1>1, <1>2, <1>3, PTL DEF Spec

\* Whatever the order in which blocks are stored and committed and wherever processes have
\* ended before, a run that started with the integrity check has no gap between the start
\* height and the tip whenever it rests, but for blocks the store still holds, of which at
\* most one waits for a next block.
THEOREM NoGapsCorrect == Spec => []NoGaps
BY HaveInvariant, NoGapsFromInv, PTL

\* A sync command that ends without an error has lost at most one of the blocks it was
\* asked for, for every batch size and every order of the background commits.
THEOREM SyncLosesAtMostOneCorrect == Spec => []SyncLosesAtMostOne
BY HaveInvariant, SyncFromInv, PTL
=============================================================================

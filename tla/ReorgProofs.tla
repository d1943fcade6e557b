---------------------------- MODULE ReorgProofs ----------------------------
(***************************************************************************)
(* ContinuousSync repairs the reorganisations it sees: LinkedAfterReorg of *)
(* ChainFollower, for every block tree.                                    *)
(***************************************************************************)
EXTENDS ChainFollowerProofs

(* The block tree.                                                         *)

LEMMA ChainBelow ==
    ASSUME NEW b \in Blocks, NEW x \in Chain[b]
    PROVE  x # b => HeightOf[x] < HeightOf[b]
<1> DEFINE S == {y \in Blocks : y = b \/ HeightOf[y] < HeightOf[b]}
<1>1. ASSUME NEW y \in S PROVE Parent[y] \in S \cup {NoBlock}
  <2>1. CASE y = Genesis
    BY <2>1, FollowerAssumption
  <2>2. CASE y # Genesis
    <3>1. Parent[y] \in Blocks /\ HeightOf[y] = HeightOf[Parent[y]] + 1
      BY <2>2, FollowerAssumption
    <3>2. HeightOf[Parent[y]] \in Nat /\ HeightOf[y] \in Nat /\ HeightOf[b] \in Nat
      BY <3>1, FollowerConstants
    <3> QED
      BY <3>1, <3>2
  <2> QED
    BY <2>1, <2>2
<1>2. S \in SUBSET Blocks /\ b \in S
  OBVIOUS
<1>3. x \in S
  BY <1>1, <1>2 DEF Chain
<1> QED
  BY <1>3

\* A block of a chain below its top has a child on it.
LEMMA ChainChild ==
    ASSUME NEW b \in Blocks, NEW x \in Chain[b], x # b
    PROVE  \E z \in Chain[b] : Parent[z] = x
<1> SUFFICES ASSUME \A z \in Chain[b] : Parent[z] # x PROVE FALSE
  OBVIOUS
<1> DEFINE S == Chain[b] \ {x}
<1>1. S \in SUBSET Blocks /\ b \in S
  BY ChainParent
<1>2. ASSUME NEW y \in S PROVE Parent[y] \in S \cup {NoBlock}
  <2>1. CASE HeightOf[y] = 0
    <3>1. y = Genesis
      <4>1. ASSUME y # Genesis PROVE FALSE
        <5>1. Parent[y] \in Blocks /\ HeightOf[y] = HeightOf[Parent[y]] + 1
          BY <1>1, <4>1, FollowerAssumption
        <5>2. HeightOf[Parent[y]] \in Nat
          BY <5>1, FollowerConstants
        <5> QED
          BY <2>1, <5>1, <5>2
      <4> QED
        BY <4>1
    <3> QED
      BY <3>1, FollowerAssumption
  <2>2. CASE HeightOf[y] # 0
    BY <2>2, ChainParent
  <2> QED
    BY <2>1, <2>2
<1>3. x \in S
  BY <1>1, <1>2 DEF Chain
<1> QED
  BY <1>3

\* A chain has one block of a height.
LEMMA ChainUnique ==
    ASSUME NEW b \in Blocks, NEW x \in Chain[b], NEW y \in Chain[b], HeightOf[x] = HeightOf[y]
    PROVE  x = y
<1> DEFINE Twice(h) == \E u \in Chain[b], v \in Chain[b] : u # v /\ HeightOf[u] = h /\ HeightOf[v] = h
           T == {n \in Nat : n <= HeightOf[b] /\ Twice(HeightOf[b] - n)}
<1>c. HeightOf[b] \in Nat /\ Chain[b] \subseteq Blocks /\ \A u \in Chain[b] : HeightOf[u] \in Nat
  BY ChainParent, FollowerConstants
<1>1. T = {}
  <2> SUFFICES ASSUME T # {} PROVE FALSE
    OBVIOUS
  <2>1. PICK n \in T : \A m \in T : n <= m
    BY Smallest
  <2>2. PICK u \in Chain[b], v \in Chain[b] :
            u # v /\ HeightOf[u] = HeightOf[b] - n /\ HeightOf[v] = HeightOf[b] - n
    BY <2>1
  <2>3. n \in Nat /\ n <= HeightOf[b] /\ n # 0 /\ u # b /\ v # b
    <3>1. (u # b => HeightOf[u] < HeightOf[b]) /\ (v # b => HeightOf[v] < HeightOf[b])
      BY ChainBelow
    <3> QED
      BY <1>c, <2>1, <2>2, <3>1
  <2>4. PICK p \in Chain[b] : Parent[p] = u
    BY <2>3, ChainChild
  <2>5. PICK q \in Chain[b] : Parent[q] = v
    BY <2>3, ChainChild
  <2>6. HeightOf[p] = HeightOf[u] + 1 /\ HeightOf[q] = HeightOf[v] + 1 /\ p # q
    BY <1>c, <2>2, <2>4, <2>5, FollowerAssumption, GapAssumption
  <2>7. n - 1 \in Nat /\ HeightOf[p] = HeightOf[b] - (n - 1) /\ HeightOf[q] = HeightOf[b] - (n - 1)
        /\ n - 1 <= HeightOf[b]
    BY <1>c, <2>2, <2>3, <2>6
  <2>8. n - 1 \in T
    BY <2>6, <2>7
  <2> QED
    BY <2>1, <2>3, <2>8
<1>2. ASSUME x # y PROVE FALSE
  <2>1. HeightOf[x] <= HeightOf[b]
    BY <1>c, ChainBelow
  <2>2. HeightOf[b] - HeightOf[x] \in Nat /\ HeightOf[b] - (HeightOf[b] - HeightOf[x]) = HeightOf[x]
        /\ HeightOf[b] - HeightOf[x] <= HeightOf[b]
    BY <1>c, <2>1
  <2>3. Twice(HeightOf[x])
    BY <1>2
  <2>4. HeightOf[b] - HeightOf[x] \in T
    BY <2>2, <2>3
  <2> QED
    BY <1>1, <2>4
<1> QED
  BY <1>2

LEMMA ChainWithin ==
    ASSUME NEW b \in Blocks, NEW c \in Chain[b]
    PROVE  c \in Blocks /\ Chain[c] \subseteq Chain[b]
<1>1. Chain[b] \in SUBSET Blocks /\ c \in Blocks
  BY ChainParent
<1>2. ASSUME NEW y \in Chain[b] PROVE Parent[y] \in Chain[b] \cup {NoBlock}
  <2>1. CASE y = Genesis
    BY <2>1, FollowerAssumption
  <2>2. CASE y # Genesis
    <3>1. y \in Blocks /\ HeightOf[y] = HeightOf[Parent[y]] + 1 /\ Parent[y] \in Blocks
      BY <1>1, <2>2, FollowerAssumption
    <3>2. HeightOf[Parent[y]] \in Nat
      BY <3>1, FollowerConstants
    <3>3. HeightOf[y] # 0
      BY <3>1, <3>2
    <3> QED
      BY <3>3, ChainParent
  <2> QED
    BY <2>1, <2>2
<1>3. ASSUME NEW x \in Chain[c] PROVE x \in Chain[b]
  BY <1>1, <1>2, <1>3 DEF Chain
<1> QED
  BY <1>1, <1>3

LEMMA OnBranchIs ==
    ASSUME NEW b \in Blocks, NEW c \in Blocks
    PROVE  OnBranch(c, b) <=> c \in Chain[b]
<1>0. HeightOf[b] \in Nat /\ HeightOf[c] \in Nat
  BY FollowerConstants
<1>1. ASSUME OnBranch(c, b) PROVE c \in Chain[b]
  BY <1>0, <1>1, AncestorIs DEF OnBranch
<1>2. ASSUME c \in Chain[b] PROVE OnBranch(c, b)
  <2>1. HeightOf[c] <= HeightOf[b]
    BY <1>0, <1>2, ChainBelow
  <2>2. Ancestor(b, HeightOf[c]) \in Chain[b] /\ HeightOf[Ancestor(b, HeightOf[c])] = HeightOf[c]
    BY <1>0, <2>1, AncestorIs
  <2>3. Ancestor(b, HeightOf[c]) = c
    BY <1>2, <2>2, ChainUnique
  <2> QED
    BY <2>1, <2>3 DEF OnBranch
<1> QED
  BY <1>1, <1>2

\* Below a block of a chain the two chains are one.
LEMMA ChainJoins ==
    ASSUME NEW b \in Blocks, NEW c \in Chain[b], NEW x \in Chain[b], HeightOf[x] <= HeightOf[c]
    PROVE  x \in Chain[c]
<1>1. c \in Blocks /\ x \in Blocks /\ Chain[c] \subseteq Chain[b]
  BY ChainParent, ChainWithin
<1>2. HeightOf[x] \in Nat
  BY <1>1, FollowerConstants
<1>3. Ancestor(c, HeightOf[x]) \in Chain[c] /\ HeightOf[Ancestor(c, HeightOf[x])] = HeightOf[x]
  BY <1>1, <1>2, AncestorIs
<1>4. Ancestor(c, HeightOf[x]) = x
  BY <1>1, <1>3, ChainUnique
<1> QED
  BY <1>3, <1>4

----------------------------------------------------------------------------
(* The invariant.                                                          *)

\* The index has its blocks at their heights, together with their hashes.
IndexOK(heights, hashes) ==
    \A h \in AllHeights : heights[h] # NoBlock => heights[h] \in hashes /\ HeightOf[heights[h]] = h

\* No block is above the node's best one, which never gets lower.
IndexInv ==
    /\ IndexOK(heightIndex, blockIndex)
    /\ \A b \in Seen : HeightOf[b] <= HeightOf[best]
    /\ disk # NoSnapshot =>
           IndexOK(disk.heights, disk.hashes) /\ \A b \in disk.hashes : HeightOf[b] <= HeightOf[best]
    /\ cmd.skip /\ phase \notin {"off", "synced"} => "skipped" \in exposed

\* Above SyncStartHeight the store has one block of a height, seen or unseen.
Single ==
    \A b \in Unseen : HeightOf[b] > SyncStartHeight =>
        /\ heightIndex[HeightOf[b]] \in {NoBlock, b}
        /\ \A c \in Unseen : HeightOf[c] = HeightOf[b] => c = b

\* A block is what the index will have at its height once all writes are made.
ChanLast(b) == \E i \in DOMAIN writerChan :
    writerChan[i] = b /\ \A j \in DOMAIN writerChan : j > i => HeightOf[writerChan[j]] # HeightOf[b]
Lasting(b) ==
    \/ ChanLast(b)
    \/ /\ HeightOf[b] \notin HeightsOf(writerChan)
       /\ b \in Unseen \/ heightIndex[HeightOf[b]] = b

\* For a known block of the node's chain all blocks below it are there to stay: those
\* above the limit of the walk already, those below it if the block is below it too.
WalkLinked ==
    \A c \in Seen \cap Chain[best] : \A a \in Chain[c] : HeightOf[a] > SyncStartHeight =>
        /\ Lasting(a) \/ HeightOf[a] <= Limit
        /\ HeightOf[c] <= Limit => Lasting(a)

\* The node has left the branch being walked down: nothing above is known of its new one.
HeldOK == pc = "check" /\ held \notin Chain[best] =>
              \A c \in Seen \cap Chain[best] : HeightOf[c] < at

\* Outside continuous sync every block of the store is on the node's chain.
OnChain(heights) ==
    \A h \in AllHeights : h > SyncStartHeight /\ heights[h] # NoBlock => heights[h] \in Chain[best]
Offline ==
    /\ OnChain(heightIndex) /\ \A b \in Unseen : HeightOf[b] > SyncStartHeight => b \in Chain[best]
    /\ disk # NoSnapshot /\ phase # "closing" => OnChain(disk.heights)

ReorgInv ==
    exposed = {} =>
        /\ phase = "continuous" => Single /\ WalkLinked /\ HeldOK
        /\ phase \notin {"continuous", "fatal"} => Offline

----------------------------------------------------------------------------
(* What the steps do to the blocks of the store.                           *)

\* Blocks go from the store's hands to the index: what is no longer unseen has been
\* written, if it was not overwritten by another unseen block of its height.
Publishes ==
    /\ Unseen' \subseteq Unseen /\ blockIndex \subseteq blockIndex' /\ blockIndex' \subseteq blockIndex \cup Unseen
    /\ \A h \in AllHeights :
           \/ heightIndex'[h] = heightIndex[h]
           \/ /\ heightIndex'[h] \in Unseen /\ heightIndex'[h] \in blockIndex'
              /\ HeightOf[heightIndex'[h]] = h
    /\ \A b \in Unseen :
           \/ b \in Unseen'
           \/ heightIndex'[HeightOf[b]] \in Unseen /\ HeightOf[heightIndex'[HeightOf[b]]] = HeightOf[b]

LEMMA UnseenBlocks == ASSUME FollowInv PROVE Unseen \subseteq Blocks /\ Seen \subseteq Blocks
<1>1. batch \in Seq(Blocks) /\ pending \in Seq(Seq(Blocks)) /\ blockIndex \subseteq Blocks
  BY StoreTypes DEF FollowInv
<1>2. writerChan \in Seq(Blocks)
  BY DEF FollowInv, WalkInv
<1>3. ToSet(batch) \subseteq Blocks /\ ToSet(writerChan) \subseteq Blocks
  BY <1>1, <1>2 DEF ToSet
<1>4. ASSUME NEW i \in DOMAIN pending PROVE ToSet(pending[i]) \subseteq Blocks
  BY <1>1 DEF ToSet
<1> QED
  BY <1>1, <1>3, <1>4 DEF Unseen, Seen

\* One batch of the unseen blocks is committed.
LEMMA PublishBatch ==
    ASSUME FollowInv, NEW blocks \in Seq(Blocks), ToSet(blocks) \subseteq Unseen,
           heightIndex' = Overwrite(heightIndex, blocks), blockIndex' = blockIndex \cup ToSet(blocks),
           Unseen' \subseteq Unseen, Unseen \subseteq Unseen' \cup ToSet(blocks)
    PROVE  Publishes
<1> DEFINE o == heightIndex'
<1>0. heightIndex \in [AllHeights -> Blocks \cup {NoBlock}]
  BY StoreTypes DEF FollowInv
<1>1. \A h \in AllHeights :
          \/ h \notin HeightsOf(blocks) /\ o[h] = heightIndex[h]
          \/ h \in HeightsOf(blocks) /\ \E i \in DOMAIN blocks : o[h] = blocks[i] /\ HeightOf[blocks[i]] = h
  BY <1>0, OverwriteIs
<1>2. \A i \in DOMAIN blocks : blocks[i] \in ToSet(blocks)
  BY DEF ToSet
<1>3. \A b \in ToSet(blocks) : HeightOf[b] \in HeightsOf(blocks) /\ HeightOf[b] \in AllHeights
  BY FollowerConstants DEF HeightsOf, ToSet
<1> HIDE DEF o
<1>4. ASSUME NEW h \in AllHeights
      PROVE  \/ o[h] = heightIndex[h]
             \/ o[h] \in Unseen /\ o[h] \in blockIndex' /\ HeightOf[o[h]] = h
  BY <1>1, <1>2
<1>5. ASSUME NEW b \in Unseen, b \notin Unseen'
      PROVE  o[HeightOf[b]] \in Unseen /\ HeightOf[o[HeightOf[b]]] = HeightOf[b]
  <2>1. b \in ToSet(blocks)
    BY <1>5
  <2> QED
    BY <1>1, <1>2, <1>3, <2>1
<1> QED
  BY <1>4, <1>5 DEF Publishes, o

LEMMA FlushPublishes == ASSUME FollowInv, CheckEnd \/ SyncReturns PROVE Publishes
<1> DEFINE s == StoreState
           t == FlushBatch(StoreState)
<1>0. StoreOK(StoreState) /\ batch \in Seq(Blocks)
  BY StoreTypes DEF FollowInv
<1>1. StoreBecomes(t)
  BY DEF CheckEnd, SyncReturns
<1>2. CASE batchCounter = 0
  <2>1. t = s
    BY <1>2, StoreStateIs DEF FlushBatch
  <2>2. UNCHANGED <<heightIndex, blockIndex, batch, pending>>
    BY <1>1, <2>1, StoreStateIs DEF StoreBecomes
  <2> QED
    BY <2>2 DEF Publishes, Unseen
<1>3. CASE batchCounter # 0
  <2> DEFINE u == CommitBlocks(s, s.batch)
  <2>1. t = [u EXCEPT !.batch = <<>>, !.counter = 0]
    BY <1>3, StoreStateIs DEF FlushBatch
  <2>2. /\ StoreOK(u) /\ u.heights = Overwrite(heightIndex, batch) /\ u.hashes = blockIndex \cup ToSet(batch)
        /\ u.pending = pending
    BY <1>0, CommitBlocksIs, StoreStateIs
  <2> HIDE DEF u, t
  <2>3. t.heights = u.heights /\ t.hashes = u.hashes /\ t.batch = <<>> /\ t.pending = u.pending
    BY <2>1, <2>2 DEF StoreOK, StoreType
  <2>4. /\ heightIndex' = Overwrite(heightIndex, batch) /\ blockIndex' = blockIndex \cup ToSet(batch)
        /\ batch' = <<>> /\ pending' = pending
    BY <1>1, <2>2, <2>3 DEF StoreBecomes
  <2>5. ToSet(batch) \subseteq Unseen /\ Unseen' \subseteq Unseen /\ Unseen \subseteq Unseen' \cup ToSet(batch)
    BY <2>4, ToSetOne DEF Unseen
  <2> QED
    BY <1>0, <2>4, <2>5, PublishBatch
<1> QED
  BY <1>2, <1>3

LEMMA CommitPublishes == ASSUME FollowInv, CommitJob PROVE Publishes
<1>0. StoreOK(StoreState) /\ pending \in Seq(Seq(Blocks))
  BY StoreTypes DEF FollowInv
<1>1. PICK i \in DOMAIN pending : StoreBecomes(CommitPending(StoreState, i))
  BY DEF CommitJob
<1> DEFINE s == StoreState
           t == CommitPending(s, i)
           u == CommitBlocks(s, s.pending[i])
<1>2. pending[i] \in Seq(Blocks)
  BY <1>0
<1>3. t = [u EXCEPT !.pending = RemoveAt(u.pending, i)]
  BY DEF CommitPending
<1>4. /\ StoreOK(u) /\ u.heights = Overwrite(heightIndex, pending[i])
      /\ u.hashes = blockIndex \cup ToSet(pending[i]) /\ u.pending = pending /\ u.batch = batch
  BY <1>0, <1>2, CommitBlocksIs, StoreStateIs
<1>5. StoreBecomes(t)
  BY <1>1
<1> HIDE DEF u, t
<1> DEFINE r == RemoveAt(pending, i)
<1>6. t.heights = u.heights /\ t.hashes = u.hashes /\ t.batch = u.batch /\ t.pending = r
  <2>1. t = [u EXCEPT !.pending = r]
    BY <1>3, <1>4
  <2> HIDE DEF r
  <2> QED
    BY <1>4, <2>1 DEF StoreOK, StoreType
<1>7. \A x : (x \in ToSet(r) => x \in ToSet(pending)) /\ (x \in ToSet(pending) => x = pending[i] \/ x \in ToSet(r))
  BY <1>0, RemoveAtOf
<1> HIDE DEF r
<1>8. /\ heightIndex' = Overwrite(heightIndex, pending[i]) /\ blockIndex' = blockIndex \cup ToSet(pending[i])
      /\ batch' = batch /\ pending' = r
  BY <1>4, <1>5, <1>6 DEF StoreBecomes
<1>9. /\ UNION {ToSet(pending[j]) : j \in DOMAIN pending} = UNION {ToSet(x) : x \in ToSet(pending)}
      /\ UNION {ToSet(r[j]) : j \in DOMAIN r} = UNION {ToSet(x) : x \in ToSet(r)}
  BY DEF ToSet
<1>10. ToSet(pending[i]) \subseteq Unseen
  BY DEF Unseen
<1>11. Unseen' = ToSet(batch) \cup UNION {ToSet(x) : x \in ToSet(r)}
       /\ Unseen = ToSet(batch) \cup UNION {ToSet(x) : x \in ToSet(pending)}
  BY <1>8, <1>9 DEF Unseen
<1>12. Unseen' \subseteq Unseen /\ Unseen \subseteq Unseen' \cup ToSet(pending[i])
  BY <1>7, <1>11
<1> QED
  BY <1>2, <1>8, <1>10, <1>12, PublishBatch

\* The writer commits its block, and before it what was left in the batch.
LEMMA WritePublishes ==
    ASSUME FollowInv, RestInv, Write, NEW z, z = Head(writerChan)
    PROVE  /\ z \in Blocks /\ Unseen' \subseteq Unseen /\ pending' = pending /\ batch' = <<>>
           /\ blockIndex \subseteq blockIndex' /\ blockIndex' \subseteq blockIndex \cup Unseen \cup {z}
           /\ z \in blockIndex' /\ heightIndex'[HeightOf[z]] = z
           /\ \A h \in AllHeights : h # HeightOf[z] =>
                  \/ heightIndex'[h] = heightIndex[h]
                  \/ /\ heightIndex'[h] \in Unseen /\ heightIndex'[h] \in blockIndex'
                     /\ HeightOf[heightIndex'[h]] = h
           /\ \A b \in Unseen : HeightOf[b] # HeightOf[z] =>
                  \/ b \in Unseen'
                  \/ heightIndex'[HeightOf[b]] \in Unseen /\ HeightOf[heightIndex'[HeightOf[b]]] = HeightOf[b]
<1> USE FollowerConstants
<1>0. StoreOK(StoreState) /\ batch \in Seq(Blocks) /\ writerChan \in Seq(Blocks) /\ batchCounter = 0
      /\ heightIndex \in [AllHeights -> Blocks \cup {NoBlock}]
  BY StoreTypes DEF FollowInv, WalkInv, RestInv, Write
<1>1. z \in Blocks
  BY <1>0 DEF Write
<1> DEFINE a == Append(batch, z)
           s == ApplyBlock(StoreState, z)
           u == CommitBlocks(s, s.batch)
           t == FlushBatch(s)
<1>2. StoreOK(s) /\ s.heights = heightIndex /\ s.hashes = blockIndex
  BY <1>0, <1>1, ApplyBlockIs, StoreStateIs
<1>3. s.batch = a /\ s.counter = 1 /\ s.pending = pending /\ a \in Seq(Blocks)
  <2>1. ~(StoreState.counter + 1 > BatchSize)
    BY <1>0, StoreStateIs
  <2>2. s = [StoreState EXCEPT !.batch = Append(StoreState.batch, z), !.counter = StoreState.counter + 1]
    BY <2>1 DEF ApplyBlock
  <2>3. s = [StoreState EXCEPT !.batch = a, !.counter = 1] /\ a \in Seq(Blocks)
    BY <1>0, <1>1, <2>2, StoreStateIs
  <2> HIDE DEF s, a
  <2>4. StoreState \in StoreType
    BY <1>0 DEF StoreOK
  <2>5. s.batch = a /\ s.counter = 1 /\ s.pending = StoreState.pending
    BY <2>3, <2>4 DEF StoreType
  <2> QED
    BY <2>3, <2>5, StoreStateIs
<1> HIDE DEF s, a
<1>4. /\ StoreOK(u) /\ u.heights = Overwrite(heightIndex, a) /\ u.hashes = blockIndex \cup ToSet(a)
      /\ u.pending = pending
  BY <1>2, <1>3, CommitBlocksIs
<1>5. t = [u EXCEPT !.batch = <<>>, !.counter = 0]
  BY <1>3 DEF FlushBatch
<1> HIDE DEF u
<1>6. t.heights = u.heights /\ t.hashes = u.hashes /\ t.batch = <<>> /\ t.pending = u.pending
  BY <1>4, <1>5 DEF StoreOK, StoreType
<1>7. StoreBecomes(t)
  BY DEF Write, s
<1> HIDE DEF t
<1>8. /\ heightIndex' = Overwrite(heightIndex, a) /\ blockIndex' = blockIndex \cup ToSet(a)
      /\ batch' = <<>> /\ pending' = pending
  BY <1>4, <1>6, <1>7 DEF StoreBecomes
<1>9. ToSet(a) = ToSet(batch) \cup {z} /\ ToSet(batch) \subseteq Unseen
  BY <1>0, <1>1, ToSetAppend DEF a, Unseen
<1>10. Unseen' \subseteq Unseen /\ Unseen \subseteq Unseen' \cup ToSet(batch)
  BY <1>8, ToSetOne DEF Unseen
<1> DEFINE o == heightIndex'
<1>11. \A h \in AllHeights :
          \/ h \notin HeightsOf(a) /\ o[h] = heightIndex[h]
          \/ /\ h \in HeightsOf(a)
             /\ \E i \in DOMAIN a : /\ o[h] = a[i] /\ HeightOf[a[i]] = h
                                    /\ \A j \in DOMAIN a : j > i => HeightOf[a[j]] # h
  BY <1>0, <1>3, <1>8, OverwriteIs
<1> HIDE DEF o
<1>12. \A i \in DOMAIN a : a[i] \in ToSet(a)
  BY DEF ToSet
<1>13. \A b \in ToSet(a) : HeightOf[b] \in HeightsOf(a) /\ HeightOf[b] \in AllHeights
  <2>1. ToSet(a) \subseteq Blocks
    BY <1>3 DEF ToSet
  <2> QED
    BY <2>1 DEF HeightsOf
<1>14. o[HeightOf[z]] = z
  <2>1. Len(a) = Len(batch) + 1 /\ a[Len(a)] = z /\ Len(a) \in DOMAIN a /\ \A i \in DOMAIN a : i \in Nat /\ i <= Len(a)
    BY <1>0, <1>1 DEF a
  <2>2. HeightOf[z] \in HeightsOf(a) /\ HeightOf[z] \in AllHeights
    BY <1>9, <1>13
  <2>3. PICK i \in DOMAIN a : /\ o[HeightOf[z]] = a[i]
                              /\ \A j \in DOMAIN a : j > i => HeightOf[a[j]] # HeightOf[z]
    BY <1>11, <2>2
  <2>4. ~(Len(a) > i)
    BY <2>1, <2>3
  <2>5. i = Len(a)
    <3>1. i \in Nat /\ i <= Len(a) /\ Len(a) \in Nat
      BY <2>1
    <3> QED
      BY <2>4, <3>1
  <2> QED
    BY <2>1, <2>3, <2>5
<1>15. ASSUME NEW h \in AllHeights, h # HeightOf[z]
       PROVE  o[h] = heightIndex[h] \/ (o[h] \in Unseen /\ o[h] \in blockIndex' /\ HeightOf[o[h]] = h)
  BY <1>8, <1>9, <1>11, <1>12, <1>15
<1>16. ASSUME NEW b \in Unseen, b \notin Unseen', HeightOf[b] # HeightOf[z]
       PROVE  o[HeightOf[b]] \in Unseen /\ HeightOf[o[HeightOf[b]]] = HeightOf[b]
  <2>1. b \in ToSet(a)
    BY <1>9, <1>10, <1>16
  <2>2. PICK i \in DOMAIN a : o[HeightOf[b]] = a[i] /\ HeightOf[a[i]] = HeightOf[b]
    BY <1>11, <1>13, <2>1
  <2> QED
    BY <1>9, <1>12, <1>16, <2>2
<1> QED
  BY <1>1, <1>8, <1>9, <1>10, <1>14, <1>15, <1>16 DEF o

\* SyncBlocks gives the store one block of the node's chain.
LEMMA SyncUnseen ==
    ASSUME FollowInv, NEW h \in AllHeights, SyncBlock(h)
    PROVE  LET b == Ancestor(best, h)
           IN  /\ b \in Chain[best] /\ b \in Blocks /\ HeightOf[b] = h /\ h <= HeightOf[best]
               /\ Unseen' = Unseen \cup {b} /\ UNCHANGED <<heightIndex, blockIndex, writerChan>>
<1> DEFINE b == Ancestor(best, h)
           s == StoreState
           t == ApplyBlock(s, b)
<1>0. /\ StoreOK(StoreState) /\ best \in Blocks /\ batch \in Seq(Blocks) /\ pending \in Seq(Seq(Blocks))
      /\ h <= HeightOf[best]
  BY StoreTypes DEF FollowInv, CommandInv, SyncBlock
<1>1. b \in Chain[best] /\ b \in Blocks /\ HeightOf[b] = h
  BY <1>0, AncestorIs, FollowerConstants
<1>2. StoreBecomes(t) /\ UNCHANGED writerChan
  BY DEF SyncBlock, follower, walk
<1> HIDE DEF b
<1>3. UNCHANGED <<heightIndex, blockIndex>>
  BY <1>0, SyncBlockStep
<1>4. s \in StoreType
  BY <1>0 DEF StoreOK
<1>5. CASE s.counter + 1 > BatchSize
  <2> DEFINE p == Append(pending, batch)
             o == <<b>>
  <2>1. t = [s EXCEPT !.pending = p, !.batch = o, !.counter = 0]
    BY <1>5, StoreStateIs DEF ApplyBlock
  <2>2. /\ DOMAIN p = DOMAIN pending \cup {Len(pending) + 1} /\ p[Len(pending) + 1] = batch
        /\ \A i \in DOMAIN pending : p[i] = pending[i]
    BY <1>0
  <2>3. ToSet(o) = {b}
    BY ToSetOne
  <2> HIDE DEF p, o, t
  <2>4. t.pending = p /\ t.batch = o
    BY <1>4, <2>1 DEF StoreType
  <2>5. pending' = p /\ batch' = o
    BY <1>2, <2>4 DEF StoreBecomes
  <2>6. UNION {ToSet(p[i]) : i \in DOMAIN p} = ToSet(batch) \cup UNION {ToSet(pending[i]) : i \in DOMAIN pending}
    BY <2>2
  <2>7. Unseen' = Unseen \cup {b}
    BY <2>3, <2>5, <2>6 DEF Unseen
  <2> QED
    BY <1>0, <1>1, <1>2, <1>3, <2>7 DEF b
<1>6. CASE ~(s.counter + 1 > BatchSize)
  <2> DEFINE a == Append(batch, b)
  <2>1. t = [s EXCEPT !.batch = a, !.counter = s.counter + 1]
    BY <1>6, StoreStateIs DEF ApplyBlock
  <2>2. ToSet(a) = ToSet(batch) \cup {b}
    BY <1>0, <1>1, ToSetAppend
  <2> HIDE DEF a, t
  <2>3. t.pending = s.pending /\ t.batch = a
    BY <1>4, <2>1 DEF StoreType
  <2>4. pending' = pending /\ batch' = a
    BY <1>2, <2>3, StoreStateIs DEF StoreBecomes
  <2>5. Unseen' = Unseen \cup {b}
    BY <2>2, <2>4 DEF Unseen
  <2> QED
    BY <1>0, <1>1, <1>2, <1>3, <2>5 DEF b
<1> QED
  BY <1>5, <1>6

LEMMA SameUnseen == UNCHANGED db => Unseen' = Unseen /\ UNCHANGED <<heightIndex, blockIndex, pending, batch>>
BY DEF db, Unseen

\* SingleBlockPullAndHandle hands the writer one block of the node's chain.
LEMMA PullSeen ==
    ASSUME FollowInv, PullAndHandle
    PROVE  LET b == Ancestor(best, at)
           IN  /\ b \in Chain[best] /\ b \in Blocks /\ HeightOf[b] = at /\ at \in Nat /\ at <= HeightOf[best]
               /\ writerChan' = Append(writerChan, b) /\ UNCHANGED db /\ Seen' = Seen \cup {b}
<1> DEFINE b == Ancestor(best, at)
<1>1. /\ best \in Blocks /\ writerChan \in Seq(Blocks) /\ at \in AllHeights \cup {-1} /\ at >= 0
      /\ at <= HeightOf[best]
  BY DEF FollowInv, CommandInv, WalkInv, PullAndHandle
<1>2. b \in Chain[best] /\ b \in Blocks /\ HeightOf[b] = at /\ at \in Nat
  BY <1>1, AncestorIs, FollowerConstants
<1>3. writerChan' = Append(writerChan, b) /\ UNCHANGED db
  BY DEF PullAndHandle
<1> HIDE DEF b
<1>4. ToSet(writerChan') = ToSet(writerChan) \cup {b}
  BY <1>1, <1>2, <1>3, ToSetAppend
<1>5. Seen' = Seen \cup {b}
  BY <1>3, <1>4, SameUnseen DEF Seen
<1> QED
  BY <1>1, <1>2, <1>3, <1>5 DEF b

\* The known blocks become more by a block of the node's chain only.
LEMMA SeenSame ==
    ASSUME FollowInv, RestInv, [Next]_vars, ~Kill, ~PullAndHandle, ~\E h \in AllHeights : SyncBlock(h)
    PROVE  Seen' \subseteq Seen
<1>0. StoreOK(StoreState) /\ writerChan \in Seq(Blocks)
  BY DEF FollowInv, WalkInv
<1>1. CASE CheckEnd \/ SyncReturns \/ CommitJob
  <2>1. Publishes
    BY <1>1, FlushPublishes, CommitPublishes
  <2>2. UNCHANGED writerChan
    BY <1>1 DEF CheckEnd, SyncReturns, CommitJob, follower, walk
  <2> QED
    BY <2>1, <2>2 DEF Publishes, Seen
<1>2. CASE Write
  <2> DEFINE z == Head(writerChan)
  <2>1. Unseen' \subseteq Unseen /\ blockIndex' \subseteq blockIndex \cup Unseen \cup {z}
    BY <1>2, WritePublishes
  <2>2. writerChan # <<>> /\ writerChan' = Tail(writerChan)
    BY <1>2 DEF Write
  <2>3. ToSet(writerChan) = {z} \cup ToSet(writerChan')
    BY <1>0, <2>2, ToSetTail
  <2> HIDE DEF z
  <2> QED
    BY <2>1, <2>3 DEF Seen
<1>3. CASE Closed
  <2>1. batch' = <<>> /\ UNCHANGED <<blockIndex, pending, writerChan>>
    BY <1>3 DEF Closed, follower, walk
  <2>2. Unseen' \subseteq Unseen
    BY <2>1, ToSetOne DEF Unseen
  <2> QED
    BY <2>1, <2>2 DEF Seen
<1>4. CASE UNCHANGED db /\ (UNCHANGED writerChan \/ writerChan' = <<>>)
  BY <1>4, SameUnseen, ToSetOne DEF Seen
<1>5. CASE (\E c \in Commands : Start(c)) \/ DBIntegrityCheck \/ Scan \/ ScanEnd \/ FillRange \/ InitialSync
           \/ (\E h \in AllHeights : SyncAboveTip(h)) \/ Tick \/ CheckPrevious \/ PullBelowGenesis
           \/ Interrupt \/ LastSynced \/ (\E b \in Blocks : NodeMoves(b)) \/ UNCHANGED rest
  <2>1. UNCHANGED db /\ (UNCHANGED writerChan \/ writerChan' = <<>>)
    BY <1>5 DEF Start, DBIntegrityCheck, Scan, ScanEnd, FillRange, InitialSync, SyncAboveTip, Tick,
       CheckPrevious, PullBelowGenesis, Interrupt, LastSynced, NodeMoves, rest, follower, walk
  <2> QED
    BY <1>4, <2>1
<1> QED
  BY <1>1, <1>2, <1>3, <1>5, Moves DEF Indexer

LEMMA SeenStep ==
    ASSUME FollowInv, RestInv, [Next]_vars, ~Kill
    PROVE  \/ Seen' \subseteq Seen
           \/ \E b \in Chain[best] : b \in Blocks /\ Seen' \subseteq Seen \cup {b} /\ HeightOf[b] <= HeightOf[best]
<1>1. CASE PullAndHandle
  BY <1>1, PullSeen
<1>2. CASE \E h \in AllHeights : SyncBlock(h)
  <2>1. PICK h \in AllHeights : SyncBlock(h)
    BY <1>2
  <2> DEFINE b == Ancestor(best, h)
  <2>2. /\ b \in Chain[best] /\ b \in Blocks /\ HeightOf[b] <= HeightOf[best]
        /\ Unseen' = Unseen \cup {b} /\ UNCHANGED <<blockIndex, writerChan>>
    BY <2>1, SyncUnseen
  <2> HIDE DEF b
  <2> QED
    BY <2>2 DEF Seen
<1> QED
  BY <1>1, <1>2, SeenSame

\* The node's best block gets higher, and what exposes the index is not forgotten.
LEMMA NodeStep ==
    ASSUME FollowInv, [Next]_vars
    PROVE  /\ best' = best \/ \E b \in Blocks : NodeMoves(b)
           /\ best \in Blocks /\ best' \in Blocks
           /\ HeightOf[best] \in Nat /\ HeightOf[best'] \in Nat /\ HeightOf[best] <= HeightOf[best']
           /\ exposed \subseteq exposed'
<1>0. best \in Blocks
  BY DEF FollowInv, CommandInv
<1>1. (best' = best \/ \E b \in Blocks : NodeMoves(b)) /\ exposed \subseteq exposed'
  <2>1. CASE Indexer
    BY <2>1 DEF Indexer, Start, DBIntegrityCheck, Scan, ScanEnd, FillRange, CheckEnd, InitialSync,
       SyncBlock, SyncAboveTip, SyncReturns, Closed, Tick, PullAndHandle, CheckPrevious, PullBelowGenesis
  <2>2. CASE Write \/ CommitJob \/ Interrupt \/ LastSynced \/ Kill
    BY <2>2 DEF Write, CommitJob, Interrupt, LastSynced, Kill
  <2>3. CASE \E b \in Blocks : NodeMoves(b)
    BY <2>3 DEF NodeMoves
  <2>4. CASE UNCHANGED rest
    BY <2>4 DEF rest
  <2> QED
    BY <2>1, <2>2, <2>3, <2>4, Moves
<1>2. best' \in Blocks /\ (best' = best \/ HeightOf[best'] > HeightOf[best])
  BY <1>0, <1>1 DEF NodeMoves
<1>3. HeightOf[best] \in Nat /\ HeightOf[best'] \in Nat
  BY <1>0, <1>2, FollowerConstants
<1> QED
  BY <1>0, <1>1, <1>2, <1>3

----------------------------------------------------------------------------
(* The index, at all times.                                                *)

LEMMA IndexStep == ASSUME FollowInv, RestInv, IndexInv, [Next]_vars PROVE IndexInv'
<1> USE FollowerConstants
<1>0. /\ StoreOK(StoreState) /\ SnapshotOK /\ writerChan \in Seq(Blocks)
      /\ heightIndex \in [AllHeights -> Blocks \cup {NoBlock}] /\ blockIndex \subseteq Blocks
      /\ IndexOK(heightIndex, blockIndex) /\ \A b \in Seen : HeightOf[b] <= HeightOf[best]
  BY StoreTypes DEF FollowInv, WalkInv, IndexInv
<1>n. /\ best \in Blocks /\ best' \in Blocks
      /\ HeightOf[best] \in Nat /\ HeightOf[best'] \in Nat /\ HeightOf[best] <= HeightOf[best']
      /\ exposed \subseteq exposed'
  BY NodeStep
<1>1. IndexOK(heightIndex, blockIndex)'
  <2>1. CASE UNCHANGED <<heightIndex, blockIndex>>
    BY <1>0, <2>1 DEF IndexOK
  <2>2. CASE CheckEnd \/ SyncReturns \/ CommitJob
    <3>1. Publishes
      BY <2>2, FlushPublishes, CommitPublishes
    <3> QED
      BY <1>0, <3>1 DEF IndexOK, Publishes
  <2>3. CASE Write
    <3> DEFINE z == Head(writerChan)
    <3>1. /\ z \in blockIndex' /\ heightIndex'[HeightOf[z]] = z /\ blockIndex \subseteq blockIndex'
          /\ \A h \in AllHeights : h # HeightOf[z] =>
                 \/ heightIndex'[h] = heightIndex[h]
                 \/ heightIndex'[h] \in blockIndex' /\ HeightOf[heightIndex'[h]] = h
      BY <2>3, WritePublishes
    <3> HIDE DEF z
    <3> QED
      BY <1>0, <3>1 DEF IndexOK
  <2>4. CASE Kill
    <3>1. disk # NoSnapshot /\ heightIndex' = disk.heights /\ blockIndex' = disk.hashes
      BY <2>4 DEF Kill
    <3> QED
      BY <3>1 DEF IndexInv, IndexOK
  <2>5. CASE (\E h \in AllHeights : SyncBlock(h)) \/ Closed
    BY <2>1, <2>5, SyncUnseen DEF Closed
  <2>6. CASE UNCHANGED db
    BY <2>1, <2>6, SameUnseen
  <2> QED
    BY <1>0, <2>2, <2>3, <2>4, <2>5, <2>6, StoreSteps
<1>2. \A b \in Seen' : HeightOf[b] <= HeightOf[best']
  <2>1. CASE Kill
    <3>1. /\ disk # NoSnapshot /\ blockIndex' = disk.hashes /\ batch' = <<>> /\ pending' = <<>>
          /\ writerChan' = <<>> /\ best' = best
      BY <2>1 DEF Kill
    <3>2. Seen' = blockIndex'
      <4>1. ToSet(batch') = {} /\ ToSet(writerChan') = {} /\ DOMAIN pending' = {}
        BY <3>1, ToSetOne
      <4> QED
        BY <4>1 DEF Seen, Unseen
    <3> QED
      BY <3>1, <3>2 DEF IndexInv
  <2>2. CASE ~Kill
    <3>1. \A b \in Seen' : b \in Blocks /\ HeightOf[b] <= HeightOf[best]
      BY <1>0, <2>2, SeenStep, UnseenBlocks
    <3>2. \A b \in Seen' : HeightOf[b] \in Nat
      BY <3>1
    <3> QED
      BY <1>n, <3>1, <3>2
  <2> QED
    BY <2>1, <2>2
<1>3. ASSUME disk' # NoSnapshot
      PROVE  IndexOK(disk'.heights, disk'.hashes) /\ \A b \in disk'.hashes : HeightOf[b] <= HeightOf[best']
  <2>1. CASE UNCHANGED disk
    <3>1. IndexOK(disk.heights, disk.hashes) /\ \A b \in disk.hashes : HeightOf[b] <= HeightOf[best] /\ HeightOf[b] \in Nat
      BY <1>0, <1>3, <2>1 DEF IndexInv, SnapshotOK
    <3> QED
      BY <1>n, <2>1, <3>1
  <2>2. CASE LastSynced
    <3>1. disk'.heights = heightIndex /\ disk'.hashes = blockIndex /\ best' = best
      BY <2>2 DEF LastSynced
    <3>2. blockIndex \subseteq Seen
      BY DEF Seen
    <3> QED
      BY <1>0, <3>1, <3>2
  <2>3. UNCHANGED disk \/ LastSynced
    <3>1. CASE Indexer
      BY <1>3, <3>1 DEF Indexer, Start, DBIntegrityCheck, Scan, ScanEnd, FillRange, CheckEnd, InitialSync,
         SyncBlock, SyncAboveTip, SyncReturns, Closed, Tick, PullAndHandle, CheckPrevious, PullBelowGenesis
    <3>2. CASE Write \/ CommitJob \/ Interrupt \/ Kill \/ \E b \in Blocks : NodeMoves(b)
      BY <1>3, <3>2 DEF Write, CommitJob, Interrupt, Kill, NodeMoves
    <3>3. CASE UNCHANGED rest
      BY <3>3 DEF rest
    <3> QED
      BY <3>1, <3>2, <3>3, Moves
  <2> QED
    BY <2>1, <2>2, <2>3
<1>4. ASSUME cmd'.skip, phase' \notin {"off", "synced"} PROVE "skipped" \in exposed'
  <2>1. ASSUME NEW c \in Commands, Start(c) PROVE "skipped" \in exposed'
    BY <1>4, <2>1 DEF Start
  <2>2. CASE cmd' = cmd /\ phase \notin {"off", "synced"}
    BY <1>4, <1>n, <2>2 DEF IndexInv
  <2>3. CASE Indexer /\ ~\E c \in Commands : Start(c)
    <3>1. cmd' = cmd /\ phase \notin {"off", "synced"}
      BY <2>3, SameCommand DEF Indexer, DBIntegrityCheck, Scan, ScanEnd, FillRange, CheckEnd, InitialSync,
         SyncBlock, SyncAboveTip, SyncReturns, Closed, Tick, PullAndHandle, CheckPrevious, PullBelowGenesis
    <3> QED
      BY <2>2, <3>1
  <2>4. CASE Write \/ CommitJob \/ Interrupt \/ LastSynced \/ Kill \/ (\E b \in Blocks : NodeMoves(b)) \/ UNCHANGED rest
    <3>1. UNCHANGED command /\ (phase' = phase \/ phase \notin {"off", "synced"} \/ phase' = "off")
      BY <2>4 DEF Write, CommitJob, Interrupt, LastSynced, Kill, NodeMoves, rest
    <3> QED
      BY <1>4, <2>2, <3>1, SameCommand
  <2> QED
    BY <2>1, <2>3, <2>4, Moves
<1> QED
  BY <1>1, <1>2, <1>3, <1>4 DEF IndexInv

----------------------------------------------------------------------------
(* Continuous sync.                                                        *)

\* A commit of unseen blocks takes nothing away.
LEMMA PublishKeeps ==
    ASSUME FollowInv, Single, Publishes, UNCHANGED writerChan
    PROVE  /\ Single'
           /\ \A a \in Blocks : HeightOf[a] > SyncStartHeight /\ Lasting(a) => Lasting(a)'
<1> USE FollowerConstants
<1>0. Unseen \subseteq Blocks /\ Unseen' \subseteq Unseen
  BY UnseenBlocks DEF Publishes
<1>1. ASSUME NEW b \in Unseen, HeightOf[b] > SyncStartHeight
      PROVE  heightIndex'[HeightOf[b]] \in {heightIndex[HeightOf[b]], b}
  <2>1. HeightOf[b] \in AllHeights
    BY <1>0
  <2>2. \/ heightIndex'[HeightOf[b]] = heightIndex[HeightOf[b]]
        \/ heightIndex'[HeightOf[b]] \in Unseen /\ HeightOf[heightIndex'[HeightOf[b]]] = HeightOf[b]
    BY <2>1 DEF Publishes
  <2> QED
    BY <1>1, <2>2 DEF Single
<1>2. Single'
  BY <1>0, <1>1 DEF Single
<1>3. ASSUME NEW a \in Blocks, HeightOf[a] > SyncStartHeight, Lasting(a) PROVE Lasting(a)'
  <2>1. CASE ChanLast(a)
    <3>1. ChanLast(a)'
      BY <2>1 DEF ChanLast
    <3> QED
      BY <3>1 DEF Lasting
  <2>2. CASE HeightOf[a] \notin HeightsOf(writerChan) /\ a \in Unseen
    <3>1. a \in Unseen' \/ heightIndex'[HeightOf[a]] = a
      BY <1>3, <2>2 DEF Publishes, Single
    <3> QED
      BY <2>2, <3>1 DEF Lasting, HeightsOf
  <2>3. CASE HeightOf[a] \notin HeightsOf(writerChan) /\ heightIndex[HeightOf[a]] = a
    <3>1. HeightOf[a] \in AllHeights /\ a # NoBlock
      OBVIOUS
    <3>2. \/ heightIndex'[HeightOf[a]] = a
          \/ heightIndex'[HeightOf[a]] \in Unseen /\ HeightOf[heightIndex'[HeightOf[a]]] = HeightOf[a]
      BY <2>3, <3>1 DEF Publishes
    <3>3. heightIndex'[HeightOf[a]] = a
      BY <1>3, <2>3, <3>1, <3>2 DEF Single
    <3> QED
      BY <2>3, <3>3 DEF Lasting, HeightsOf
  <2> QED
    BY <1>3, <2>1, <2>2, <2>3 DEF Lasting
<1> QED
  BY <1>2, <1>3

\* So does the writer, if no commit of another block of its height is under way.
LEMMA WriteKeeps ==
    ASSUME FollowInv, RestInv, Single, Write, exposed' = {}
    PROVE  /\ Single'
           /\ \A a \in Blocks : HeightOf[a] > SyncStartHeight /\ Lasting(a) => Lasting(a)'
<1> USE FollowerConstants
<1> DEFINE z == Head(writerChan)
<1>0. /\ writerChan \in Seq(Blocks) /\ writerChan # <<>> /\ writerChan' = Tail(writerChan)
      /\ Unseen \subseteq Blocks /\ pending \in Seq(Seq(Blocks))
  BY UnseenBlocks, StoreTypes DEF FollowInv, WalkInv, Write
<1>1. /\ z \in Blocks /\ Unseen' \subseteq Unseen /\ pending' = pending /\ batch' = <<>>
      /\ heightIndex'[HeightOf[z]] = z
      /\ \A h \in AllHeights : h # HeightOf[z] =>
             \/ heightIndex'[h] = heightIndex[h]
             \/ heightIndex'[h] \in Unseen /\ HeightOf[heightIndex'[h]] = h
      /\ \A b \in Unseen : HeightOf[b] # HeightOf[z] =>
             \/ b \in Unseen'
             \/ heightIndex'[HeightOf[b]] \in Unseen /\ HeightOf[heightIndex'[HeightOf[b]]] = HeightOf[b]
  BY WritePublishes
<1>2. \A i \in DOMAIN pending : \A b \in ToSet(pending[i]) : HeightOf[b] = HeightOf[z] => b = z
  BY DEF Write
<1>3. Unseen' = UNION {ToSet(pending[i]) : i \in DOMAIN pending}
  BY <1>1, ToSetOne DEF Unseen
<1>4. \A b \in Unseen' : HeightOf[b] = HeightOf[z] => b = z
  BY <1>2, <1>3
<1>5. /\ ToSet(writerChan) = {z} \cup ToSet(writerChan')
      /\ Len(writerChan) \in Nat /\ DOMAIN writerChan = 1..Len(writerChan) /\ z = writerChan[1]
      /\ DOMAIN writerChan' = 1..(Len(writerChan) - 1)
      /\ \A i \in DOMAIN writerChan' : writerChan'[i] = writerChan[i + 1]
  BY <1>0, ToSetTail
<1> HIDE DEF z
<1>6. ASSUME NEW b \in Unseen, HeightOf[b] > SyncStartHeight, HeightOf[b] # HeightOf[z]
      PROVE  heightIndex'[HeightOf[b]] \in {heightIndex[HeightOf[b]], b}
  <2>1. HeightOf[b] \in AllHeights
    BY <1>0
  <2>2. \/ heightIndex'[HeightOf[b]] = heightIndex[HeightOf[b]]
        \/ heightIndex'[HeightOf[b]] \in Unseen /\ HeightOf[heightIndex'[HeightOf[b]]] = HeightOf[b]
    BY <1>1, <1>6, <2>1
  <2> QED
    BY <1>6, <2>2 DEF Single
<1>7. Single'
  <2>1. ASSUME NEW b \in Unseen', HeightOf[b] > SyncStartHeight
        PROVE  heightIndex'[HeightOf[b]] \in {NoBlock, b}
    BY <1>1, <1>4, <1>6, <2>1 DEF Single
  <2> QED
    BY <1>1, <2>1 DEF Single
<1>8. ASSUME NEW a \in Blocks, HeightOf[a] > SyncStartHeight, Lasting(a) PROVE Lasting(a)'
  <2>1. ASSUME NEW i \in DOMAIN writerChan, writerChan[i] = a,
               \A j \in DOMAIN writerChan : j > i => HeightOf[writerChan[j]] # HeightOf[a]
        PROVE  Lasting(a)'
    <3>1. CASE i = 1
      <4>1. \A j \in DOMAIN writerChan' : HeightOf[writerChan'[j]] # HeightOf[a]
        <5> SUFFICES ASSUME NEW j \in DOMAIN writerChan' PROVE HeightOf[writerChan'[j]] # HeightOf[a]
          OBVIOUS
        <5>1. j + 1 \in DOMAIN writerChan /\ j + 1 > i
          BY <1>5, <3>1
        <5> QED
          BY <1>5, <2>1, <5>1
      <4>2. HeightOf[a] \notin HeightsOf(writerChan)'
        BY <4>1 DEF HeightsOf, ToSet
      <4>3. heightIndex'[HeightOf[a]] = a
        BY <1>1, <1>5, <2>1, <3>1
      <4> QED
        BY <4>2, <4>3 DEF Lasting
    <3>2. CASE i # 1
      <4>1. i - 1 \in DOMAIN writerChan' /\ writerChan'[i - 1] = a
        BY <1>5, <2>1, <3>2
      <4>2. ASSUME NEW j \in DOMAIN writerChan', j > i - 1 PROVE HeightOf[writerChan'[j]] # HeightOf[a]
        <5>1. j + 1 \in DOMAIN writerChan /\ j + 1 > i
          BY <1>5, <4>2
        <5> QED
          BY <1>5, <2>1, <5>1
      <4>3. ChanLast(a)'
        BY <4>1, <4>2 DEF ChanLast
      <4> QED
        BY <4>3 DEF Lasting
    <3> QED
      BY <3>1, <3>2
  <2>2. CASE HeightOf[a] \notin HeightsOf(writerChan) /\ (a \in Unseen \/ heightIndex[HeightOf[a]] = a)
    <3>1. HeightOf[a] # HeightOf[z] /\ HeightOf[a] \notin HeightsOf(writerChan)'
      BY <1>5, <2>2 DEF HeightsOf
    <3>2. HeightOf[a] \in AllHeights /\ a # NoBlock
      OBVIOUS
    <3>3. a \in Unseen' \/ heightIndex'[HeightOf[a]] = a
      <4>1. CASE a \in Unseen
        BY <1>1, <1>8, <3>1, <4>1 DEF Single
      <4>2. CASE heightIndex[HeightOf[a]] = a
        BY <1>1, <1>8, <3>1, <3>2, <4>2 DEF Single
      <4> QED
        BY <2>2, <4>1, <4>2
    <3> QED
      BY <3>1, <3>3 DEF Lasting
  <2> QED
    BY <1>8, <2>1, <2>2 DEF Lasting, ChanLast
<1> QED
  BY <1>7, <1>8

\* Where nothing is lost and nothing becomes known, the walk goes on.
LEMMA WalkKept ==
    ASSUME FollowInv, Single, WalkLinked, HeldOK, Single', Seen' \subseteq Seen,
           UNCHANGED <<best, pc, at, held>>,
           \A a \in Blocks : HeightOf[a] > SyncStartHeight /\ Lasting(a) => Lasting(a)'
    PROVE  (Single /\ WalkLinked /\ HeldOK)'
<1>1. best \in Blocks /\ Limit' = Limit
  BY DEF FollowInv, CommandInv, Limit
<1>2. ASSUME NEW c \in Seen \cap Chain[best], NEW a \in Chain[c] PROVE a \in Blocks
  BY <1>1, ChainWithin, ChainParent
<1>3. WalkLinked'
  BY <1>1, <1>2 DEF WalkLinked
<1>4. HeldOK'
  BY DEF HeldOK
<1> QED
  BY <1>3, <1>4

LEMMA TickWalk ==
    ASSUME FollowInv, Single, WalkLinked, Tick
    PROVE  (Single /\ WalkLinked /\ HeldOK)'
<1> USE FollowerConstants
<1>1. /\ Limit = -1 /\ pc' = "pull" /\ UNCHANGED <<best, db, writerChan>> /\ best \in Blocks
      /\ UNCHANGED <<heightIndex, blockIndex>> /\ Unseen' = Unseen
  BY SameUnseen DEF Tick, Limit, FollowInv, CommandInv
<1>2. Seen' = Seen
  BY <1>1 DEF Seen
<1>3. ASSUME NEW c \in Seen \cap Chain[best], NEW a \in Chain[c], HeightOf[a] > SyncStartHeight
      PROVE  Lasting(a)'
  <2>1. a \in Blocks
    BY <1>1, ChainWithin, ChainParent
  <2>2. Lasting(a)
    BY <1>1, <1>3, <2>1 DEF WalkLinked
  <2> QED
    BY <1>1, <2>2 DEF Lasting, ChanLast, HeightsOf
<1>4. WalkLinked'
  BY <1>1, <1>2, <1>3 DEF WalkLinked
<1>5. Single' /\ HeldOK'
  BY <1>1 DEF Single, HeldOK
<1> QED
  BY <1>4, <1>5

\* The block handed to the writer is the last one of its height.
LEMMA PullWalk ==
    ASSUME FollowInv, Single, WalkLinked, PullAndHandle
    PROVE  (Single /\ WalkLinked /\ HeldOK)'
<1> USE FollowerConstants
<1>p. PICK p : p = Ancestor(best, at)
  OBVIOUS
<1>0. best \in Blocks /\ writerChan \in Seq(Blocks)
  BY DEF FollowInv, CommandInv, WalkInv
<1>1. /\ p \in Chain[best] /\ p \in Blocks /\ HeightOf[p] = at /\ at \in Nat
      /\ writerChan' = Append(writerChan, p) /\ UNCHANGED db /\ Seen' = Seen \cup {p}
  BY <1>p, PullSeen
<1>2. Limit = at /\ Limit' = at - 1 /\ pc' = "check" /\ held' = p /\ at' = at /\ best' = best
  BY <1>p DEF PullAndHandle, Limit
<1>3. UNCHANGED <<heightIndex, blockIndex>> /\ Unseen' = Unseen
  BY <1>1, SameUnseen
<1>4. /\ Len(writerChan) \in Nat /\ DOMAIN writerChan = 1..Len(writerChan)
      /\ DOMAIN writerChan' = 1..(Len(writerChan) + 1) /\ writerChan'[Len(writerChan) + 1] = p
      /\ \A i \in DOMAIN writerChan : writerChan'[i] = writerChan[i]
  BY <1>0, <1>1
<1>5. ChanLast(p)'
  BY <1>4 DEF ChanLast
<1>6. HeightsOf(writerChan)' = HeightsOf(writerChan) \cup {at}
  <2>1. ToSet(writerChan') = ToSet(writerChan) \cup {p}
    BY <1>0, <1>1, ToSetAppend
  <2> QED
    BY <1>1, <2>1 DEF HeightsOf
<1>7. ASSUME NEW a \in Blocks, HeightOf[a] # at, Lasting(a) PROVE Lasting(a)'
  <2>1. ASSUME NEW i \in DOMAIN writerChan, writerChan[i] = a,
               \A j \in DOMAIN writerChan : j > i => HeightOf[writerChan[j]] # HeightOf[a]
        PROVE  ChanLast(a)'
    <3>1. i \in DOMAIN writerChan' /\ writerChan'[i] = a
      BY <1>4, <2>1
    <3>2. ASSUME NEW j \in DOMAIN writerChan', j > i PROVE HeightOf[writerChan'[j]] # HeightOf[a]
      <4>1. CASE j = Len(writerChan) + 1
        BY <1>1, <1>4, <1>7, <4>1
      <4>2. CASE j # Len(writerChan) + 1
        <5>1. j \in DOMAIN writerChan
          BY <1>4, <4>2
        <5> QED
          BY <1>4, <2>1, <3>2, <5>1
      <4> QED
        BY <4>1, <4>2
    <3> QED
      BY <3>1, <3>2 DEF ChanLast
  <2>2. CASE HeightOf[a] \notin HeightsOf(writerChan) /\ (a \in Unseen \/ heightIndex[HeightOf[a]] = a)
    BY <1>3, <1>6, <1>7, <2>2 DEF Lasting
  <2> QED
    BY <1>7, <2>1, <2>2 DEF Lasting, ChanLast
<1>8. ASSUME NEW c \in Seen' \cap Chain[best], NEW a \in Chain[c], HeightOf[a] > SyncStartHeight
      PROVE  (Lasting(a)' \/ HeightOf[a] <= at - 1) /\ (HeightOf[c] <= at - 1 => Lasting(a)')
  <2>1. a \in Chain[best] /\ a \in Blocks /\ c \in Blocks /\ HeightOf[a] \in Nat /\ HeightOf[c] \in Nat
        /\ HeightOf[a] <= HeightOf[c]
    <3>1. c \in Blocks /\ a \in Chain[best] /\ a \in Blocks
      BY <1>0, ChainWithin, ChainParent
    <3>2. HeightOf[a] <= HeightOf[c]
      BY <3>1, ChainBelow
    <3> QED
      BY <3>1, <3>2
  <2>2. CASE HeightOf[a] = at
    <3>1. a = p
      BY <1>0, <1>1, <2>1, <2>2, ChainUnique
    <3> QED
      BY <1>5, <3>1 DEF Lasting
  <2>3. CASE HeightOf[a] # at /\ c \in Seen
    <3>1. (Lasting(a) \/ HeightOf[a] <= at) /\ (HeightOf[c] <= at => Lasting(a))
      BY <1>2, <1>8, <2>3 DEF WalkLinked
    <3>2. Lasting(a) => Lasting(a)'
      BY <1>7, <2>1, <2>3
    <3> QED
      BY <1>1, <2>1, <2>3, <3>1, <3>2
  <2>4. CASE HeightOf[a] # at /\ c = p
    BY <1>1, <2>1, <2>4
  <2> QED
    BY <1>1, <2>2, <2>3, <2>4
<1>9. WalkLinked'
  BY <1>2, <1>8 DEF WalkLinked
<1>10. Single' /\ HeldOK'
  BY <1>1, <1>2, <1>3 DEF Single, HeldOK
<1> QED
  BY <1>9, <1>10

\* The walk ends at a block whose parent is indexed: below it nothing is left to do.
LEMMA CheckWalk ==
    ASSUME FollowInv, Single, WalkLinked, HeldOK, CheckPrevious
    PROVE  (Single /\ WalkLinked /\ HeldOK)'
<1> USE FollowerConstants
<1>0. /\ best \in Blocks /\ blockIndex \subseteq Blocks /\ Limit = at - 1 /\ at \in Nat
      /\ held \in Blocks /\ HeightOf[held] = at /\ pc = "check"
  BY StoreTypes DEF FollowInv, CommandInv, WalkInv, CheckPrevious, Limit
<1>1. UNCHANGED <<best, db, writerChan>> /\ pc' # "check"
  BY DEF CheckPrevious
<1>2. /\ UNCHANGED <<heightIndex, blockIndex>> /\ Unseen' = Unseen
  BY <1>1, SameUnseen
<1>3. Seen' = Seen
  BY <1>1, <1>2 DEF Seen
<1>4. \A a : Lasting(a) => Lasting(a)'
  BY <1>1, <1>2 DEF Lasting, ChanLast, HeightsOf
<1>5. Single' /\ HeldOK'
  BY <1>1, <1>2 DEF Single, HeldOK
<1>6. CASE Parent[held] \in blockIndex
  <2> DEFINE q == Parent[held]
  <2>1. q \in Blocks /\ q \in Seen /\ HeightOf[q] = at - 1 /\ at # 0
    <3>1. q \in Blocks /\ held # Genesis
      BY <1>0, <1>6, FollowerAssumption
    <3>2. HeightOf[held] = HeightOf[q] + 1 /\ HeightOf[q] \in Nat
      BY <1>0, <3>1, FollowerAssumption
    <3> QED
      BY <1>0, <1>6, <3>1, <3>2 DEF Seen
  <2>2. ASSUME NEW c \in Seen \cap Chain[best], NEW a \in Chain[c], HeightOf[a] > SyncStartHeight
        PROVE  Lasting(a)
    <3>1. a \in Chain[best] /\ a \in Blocks /\ c \in Blocks /\ HeightOf[a] \in Nat /\ HeightOf[c] \in Nat
      BY <1>0, ChainWithin, ChainParent
    <3>2. (Lasting(a) \/ HeightOf[a] <= at - 1) /\ (HeightOf[c] <= at - 1 => Lasting(a))
      BY <1>0, <2>2 DEF WalkLinked
    <3>3. CASE held \notin Chain[best]
      <4>1. HeightOf[c] < at
        BY <1>0, <3>3 DEF HeldOK
      <4> QED
        BY <1>0, <3>1, <3>2, <4>1
    <3>4. CASE held \in Chain[best] /\ HeightOf[a] <= at - 1
      <4>1. q \in Chain[best]
        BY <1>0, <2>1, <3>4, ChainParent
      <4>2. a \in Chain[q]
        BY <1>0, <2>1, <3>1, <3>4, <4>1, ChainJoins
      <4>3. HeightOf[q] <= Limit
        BY <1>0, <2>1
      <4> QED
        BY <2>1, <2>2, <4>1, <4>2, <4>3 DEF WalkLinked
    <3> QED
      BY <3>2, <3>3, <3>4
  <2>3. WalkLinked'
    BY <1>1, <1>3, <1>4, <2>2 DEF WalkLinked
  <2> QED
    BY <1>5, <2>3
<1>7. CASE Parent[held] \notin blockIndex
  <2>1. Limit' = Limit
    BY <1>0, <1>7 DEF CheckPrevious, Limit
  <2>2. WalkLinked'
    BY <1>1, <1>3, <1>4, <2>1 DEF WalkLinked
  <2> QED
    BY <1>5, <2>2
<1> QED
  BY <1>6, <1>7

\* The node moves to a branch of which only the common part is known.
LEMMA NodeWalk ==
    ASSUME FollowInv, Single, WalkLinked, HeldOK, NEW b \in Blocks, NodeMoves(b), exposed' = {}
    PROVE  (Single /\ WalkLinked /\ HeldOK)'
<1> USE FollowerConstants
<1>0. best \in Blocks /\ WalkInv /\ Seen \subseteq Blocks
  BY UnseenBlocks DEF FollowInv, CommandInv
<1>1. /\ best' = b /\ UNCHANGED <<db, follower>>
      /\ ~\E c \in Seen : OnBranch(c, b) /\ ~OnBranch(c, best)
  BY DEF NodeMoves
<1>2. /\ UNCHANGED <<heightIndex, blockIndex, pc, at, held, writerChan>> /\ Unseen' = Unseen
  BY <1>1, SameUnseen DEF follower, walk
<1>3. Seen' = Seen /\ Limit' = Limit
  BY <1>2 DEF Seen, Limit
<1>4. Seen \cap Chain[b] \subseteq Chain[best]
  BY <1>0, <1>1, OnBranchIs
<1>5. \A a : Lasting(a) => Lasting(a)'
  BY <1>2 DEF Lasting, ChanLast, HeightsOf
<1>6. WalkLinked'
  BY <1>1, <1>3, <1>4, <1>5 DEF WalkLinked
<1>7. ASSUME pc = "check", held \notin Chain[b], NEW c \in Seen \cap Chain[b] PROVE HeightOf[c] < at
  <2>1. c \in Seen \cap Chain[best] /\ c \in Blocks /\ HeightOf[c] \in Nat /\ at \in Nat /\ HeightOf[held] = at
    BY <1>0, <1>4, <1>7 DEF WalkInv
  <2>2. CASE held \notin Chain[best]
    BY <1>7, <2>1, <2>2 DEF HeldOK
  <2>3. CASE held \in Chain[best]
    <3> SUFFICES ASSUME ~(HeightOf[c] < at) PROVE FALSE
      OBVIOUS
    <3>1. HeightOf[held] <= HeightOf[c]
      BY <2>1
    <3>2. held \in Chain[c]
      BY <1>0, <2>1, <2>3, <3>1, ChainJoins
    <3>3. held \in Chain[b]
      BY <1>7, <3>2, ChainWithin
    <3> QED
      BY <1>7, <3>3
  <2> QED
    BY <2>2, <2>3
<1>8. Single' /\ HeldOK'
  BY <1>1, <1>2, <1>3, <1>7 DEF Single, HeldOK
<1> QED
  BY <1>6, <1>8

LEMMA ContinuousWalk ==
    ASSUME FollowInv, RestInv, Single, WalkLinked, HeldOK, [Next]_vars,
           phase = "continuous", phase' = "continuous", exposed' = {}
    PROVE  (Single /\ WalkLinked /\ HeldOK)'
<1>1. CASE Tick \/ PullAndHandle \/ CheckPrevious
  BY <1>1, TickWalk, PullWalk, CheckWalk
<1>2. CASE \E b \in Blocks : NodeMoves(b)
  BY <1>2, NodeWalk
<1>3. CASE Write
  <2>1. Seen' \subseteq Seen
    BY <1>3, SeenSame DEF Write, Kill, PullAndHandle, SyncBlock
  <2>2. UNCHANGED <<best, pc, at, held>>
    BY <1>3 DEF Write
  <2> QED
    BY <1>3, <2>1, <2>2, WriteKeeps, WalkKept
<1>4. CASE CommitJob
  <2>1. Publishes /\ UNCHANGED <<best, pc, at, held, writerChan>>
    BY <1>4, CommitPublishes DEF CommitJob, follower, walk
  <2>2. Seen' \subseteq Seen
    BY <2>1 DEF Publishes, Seen
  <2> QED
    BY <2>1, <2>2, PublishKeeps, WalkKept
<1>5. CASE LastSynced \/ UNCHANGED rest
  <2>1. UNCHANGED <<db, best, pc, at, held, writerChan>>
    BY <1>5 DEF LastSynced, rest, follower, walk
  <2>2. UNCHANGED <<heightIndex, blockIndex>> /\ Unseen' = Unseen
    BY <2>1, SameUnseen
  <2>3. Seen' \subseteq Seen
    BY <2>1, <2>2 DEF Seen
  <2>4. Single' /\ \A a \in Blocks : Lasting(a) => Lasting(a)'
    BY <2>1, <2>2 DEF Single, Lasting, ChanLast, HeightsOf
  <2> QED
    BY <2>1, <2>3, <2>4, WalkKept
<1>6. ASSUME Indexer, ~Tick, ~PullAndHandle, ~CheckPrevious PROVE FALSE
  BY <1>6 DEF Indexer, Start, DBIntegrityCheck, Scan, ScanEnd, FillRange, CheckEnd, InitialSync,
     SyncBlock, SyncAboveTip, SyncReturns, Closed, PullBelowGenesis
<1>7. ~Interrupt /\ ~Kill
  BY DEF Interrupt, Kill
<1> QED
  BY <1>1, <1>2, <1>3, <1>4, <1>5, <1>6, <1>7, Moves

----------------------------------------------------------------------------
(* Entering and leaving continuous sync.                                   *)

\* The initial sync has fetched what was missing, all of it from the node's chain.
LEMMA EnterWalk ==
    ASSUME FollowInv, HaveInv, IndexInv, Offline, SyncReturns, phase = "initial",
           phase' = "continuous", exposed = {}
    PROVE  (Single /\ WalkLinked /\ HeldOK)'
<1> USE FollowerConstants
<1>0. /\ best \in Blocks /\ writerChan = <<>> /\ pc = "idle" /\ todo = {} /\ Unseen \subseteq Blocks
      /\ heightIndex \in [AllHeights -> Blocks \cup {NoBlock}] /\ blockIndex \subseteq Blocks
      /\ \A b \in blockIndex : heightIndex[HeightOf[b]] # NoBlock
      /\ Have \subseteq AllHeights /\ Stored(StoreState) \subseteq Have
  BY UnseenBlocks, StoreTypes, HaveHeights DEF FollowInv, CommandInv, WalkInv, SyncReturns
<1>1. Publishes /\ UNCHANGED <<best, pc, at, held, writerChan>>
  BY FlushPublishes DEF SyncReturns, follower, walk
<1>2. Full(Have)
  <2>1. ~cmd.skip
    BY DEF IndexInv
  <2>2. cmd.name = "run"
    <3>1. cmd \in Commands
      BY DEF FollowInv, CommandInv
    <3> QED
      BY <3>1 DEF SyncReturns
  <2>3. Full(Have \cup todo)
    BY <2>1, <2>2 DEF HaveInv, FullInv
  <2>4. Have \cup todo = Have
    BY <1>0
  <2> QED
    BY <2>3, <2>4
<1>3. \A h \in AllHeights : h > SyncStartHeight /\ heightIndex[h] # NoBlock =>
          heightIndex[h] \in Chain[best] /\ HeightOf[heightIndex[h]] = h
  BY DEF Offline, OnChain, IndexInv, IndexOK
<1>4. \A b \in Unseen : HeightOf[b] > SyncStartHeight => b \in Chain[best]
  BY DEF Offline
<1>5. Single
  <2>1. ASSUME NEW b \in Unseen, HeightOf[b] > SyncStartHeight
        PROVE  heightIndex[HeightOf[b]] \in {NoBlock, b}
    <3>1. HeightOf[b] \in AllHeights /\ b \in Chain[best]
      BY <1>0, <1>4, <2>1
    <3> QED
      BY <1>0, <1>3, <2>1, <3>1, ChainUnique
  <2>2. ASSUME NEW b \in Unseen, HeightOf[b] > SyncStartHeight, NEW c \in Unseen, HeightOf[c] = HeightOf[b]
        PROVE  c = b
    <3>1. b \in Chain[best] /\ c \in Chain[best]
      BY <1>4, <2>2
    <3> QED
      BY <1>0, <2>2, <3>1, ChainUnique
  <2> QED
    BY <2>1, <2>2 DEF Single
<1>6. HeightsOf(writerChan) = {} /\ ToSet(writerChan) = {}
  BY <1>0, ToSetOne DEF HeightsOf
<1>7. ASSUME NEW c \in Seen \cap Chain[best], NEW a \in Chain[c], HeightOf[a] > SyncStartHeight
      PROVE  a \in Blocks /\ Lasting(a)
  <2>1. /\ a \in Chain[best] /\ a \in Blocks /\ c \in Blocks /\ HeightOf[a] <= HeightOf[c]
        /\ HeightOf[a] \in AllHeights /\ HeightOf[a] \in Nat /\ HeightOf[c] \in Nat
    <3>1. c \in Blocks /\ a \in Chain[best] /\ a \in Blocks
      BY <1>0, ChainWithin, ChainParent
    <3>2. HeightOf[a] <= HeightOf[c]
      BY <3>1, ChainBelow
    <3> QED
      BY <3>1, <3>2
  <2>2. HeightOf[c] \in Have
    <3>1. CASE c \in blockIndex
      BY <1>0, <2>1, <3>1, StoreStateIs DEF Stored
    <3>2. CASE c \in Unseen
      BY <3>2, StoreStateIs DEF Unseen, Have, Holds, HeightsOf
    <3> QED
      BY <1>6, <3>1, <3>2 DEF Seen
  <2>3. HeightOf[a] \in (SyncStartHeight + 1)..HeightOf[c]
    BY <1>7, <2>1
  <2>4. HeightOf[a] \in Have
    BY <1>2, <2>2, <2>3 DEF Full
  <2>5. CASE heightIndex[HeightOf[a]] # NoBlock
    <3>1. heightIndex[HeightOf[a]] = a
      BY <1>0, <1>3, <1>7, <2>1, <2>5, ChainUnique
    <3> QED
      BY <1>6, <2>1, <3>1 DEF Lasting
  <2>6. CASE heightIndex[HeightOf[a]] = NoBlock
    <3>1. HeightOf[a] \in HeightsOf(batch) \cup UNION {HeightsOf(pending[i]) : i \in DOMAIN pending}
      BY <1>6, <2>4, <2>6, StoreStateIs DEF Have, Holds, Stored
    <3>2. PICK u \in Unseen : HeightOf[u] = HeightOf[a]
      BY <3>1 DEF HeightsOf, Unseen
    <3>3. u = a
      BY <1>0, <1>4, <1>7, <2>1, <3>2, ChainUnique
    <3> QED
      BY <1>6, <2>1, <3>2, <3>3 DEF Lasting
  <2> QED
    BY <2>5, <2>6
<1>8. Single' /\ \A a \in Blocks : HeightOf[a] > SyncStartHeight /\ Lasting(a) => Lasting(a)'
  BY <1>1, <1>5, PublishKeeps
<1>9. Seen' \subseteq Seen
  BY <1>1 DEF Publishes, Seen
<1>10. WalkLinked /\ HeldOK
  BY <1>0, <1>7 DEF WalkLinked, HeldOK, Limit
<1> QED
  BY <1>1, <1>5, <1>8, <1>9, <1>10, WalkKept

\* Once caught up, the index and the unseen blocks are on the node's chain.
LEMMA CaughtUpOnChain ==
    ASSUME FollowInv, IndexInv, Single, WalkLinked, CaughtUp
    PROVE  /\ OnChain(heightIndex) /\ \A b \in Unseen : HeightOf[b] > SyncStartHeight => b \in Chain[best]
           /\ \A h \in AllHeights : h > SyncStartHeight /\ h <= HeightOf[best] =>
                  Ancestor(best, h) \in Unseen \/ heightIndex[h] = Ancestor(best, h)
<1> USE FollowerConstants
<1>0. /\ best \in Blocks /\ writerChan = <<>> /\ Limit = -1 /\ heightIndex[HeightOf[best]] = best
      /\ Unseen \subseteq Blocks /\ Seen \subseteq Blocks
      /\ IndexOK(heightIndex, blockIndex) /\ \A b \in Seen : HeightOf[b] <= HeightOf[best]
  BY UnseenBlocks DEF FollowInv, CommandInv, CaughtUp, Resting, Limit, IndexInv
<1>1. best \in Seen \cap Chain[best]
  <2>1. best \in blockIndex
    BY <1>0 DEF IndexOK
  <2> QED
    BY <1>0, <2>1, ChainParent DEF Seen
<1>2. HeightsOf(writerChan) = {} /\ DOMAIN writerChan = {}
  <2>1. HeightsOf(writerChan) = {}
    BY <1>0, ToSetOne DEF HeightsOf
  <2>2. DOMAIN writerChan = {}
    BY <1>0
  <2> QED
    BY <2>1, <2>2
<1>3. ASSUME NEW h \in AllHeights, h > SyncStartHeight, h <= HeightOf[best]
      PROVE  /\ Ancestor(best, h) \in Chain[best] /\ HeightOf[Ancestor(best, h)] = h
             /\ Ancestor(best, h) \in Unseen \/ heightIndex[h] = Ancestor(best, h)
  <2>1. h \in Nat /\ Ancestor(best, h) \in Chain[best] /\ HeightOf[Ancestor(best, h)] = h
    BY <1>0, <1>3, AncestorIs
  <2>2. Lasting(Ancestor(best, h))
    BY <1>0, <1>1, <1>3, <2>1 DEF WalkLinked
  <2>3. ~ChanLast(Ancestor(best, h))
    BY <1>2 DEF ChanLast
  <2> QED
    BY <2>1, <2>2, <2>3 DEF Lasting
<1>4. ASSUME NEW h \in AllHeights, h > SyncStartHeight, heightIndex[h] # NoBlock
      PROVE  heightIndex[h] \in Chain[best]
  <2>1. heightIndex[h] \in Seen /\ HeightOf[heightIndex[h]] = h
    BY <1>0, <1>4 DEF IndexOK, Seen
  <2>2. h <= HeightOf[best]
    BY <1>0, <2>1
  <2> QED
    BY <1>3, <1>4, <2>2 DEF Single
<1>5. ASSUME NEW b \in Unseen, HeightOf[b] > SyncStartHeight PROVE b \in Chain[best]
  <2>1. HeightOf[b] <= HeightOf[best] /\ HeightOf[b] \in AllHeights
    BY <1>0 DEF Seen
  <2> DEFINE a == Ancestor(best, HeightOf[b])
  <2>2. a \in Chain[best] /\ HeightOf[a] = HeightOf[b] /\ (a \in Unseen \/ heightIndex[HeightOf[b]] = a)
    BY <1>3, <1>5, <2>1
  <2>3. a # NoBlock
    BY <1>0, <2>2, ChainParent
  <2> HIDE DEF a
  <2> QED
    BY <1>5, <2>2, <2>3 DEF Single
<1> QED
  BY <1>3, <1>4, <1>5 DEF OnChain

\* Outside continuous sync blocks come from the node's chain only, which only grows.
LEMMA OfflineStep ==
    ASSUME FollowInv, IndexInv, Offline, [Next]_vars, exposed' = {}, exposed = {},
           phase \notin {"continuous", "fatal"}, phase' \notin {"continuous", "fatal"}
    PROVE  Offline'
<1> USE FollowerConstants
<1>0. best \in Blocks /\ Unseen \subseteq Blocks
  BY UnseenBlocks DEF FollowInv, CommandInv
<1>o. OnChain(heightIndex) /\ \A b \in Unseen : HeightOf[b] > SyncStartHeight => b \in Chain[best]
  BY DEF Offline
<1>1. CASE \E b \in Blocks : NodeMoves(b)
  <2>1. PICK b \in Blocks : NodeMoves(b)
    BY <1>1
  <2>2. best' = b /\ UNCHANGED <<db, disk, phase>> /\ OnBranch(best, b)
    BY <2>1 DEF NodeMoves
  <2>3. Chain[best] \subseteq Chain[b]
    BY <1>0, <2>2, OnBranchIs, ChainWithin
  <2>4. UNCHANGED heightIndex /\ Unseen' = Unseen
    BY <2>2, SameUnseen
  <2> QED
    BY <2>2, <2>3, <2>4 DEF Offline, OnChain
<1>2. CASE Kill
  <2>1. /\ disk # NoSnapshot /\ heightIndex' = disk.heights /\ disk' = NoSnapshot /\ best' = best
        /\ batch' = <<>> /\ pending' = <<>>
        /\ phase = "closing" => disk.heights = heightIndex
    BY <1>2 DEF Kill
  <2>2. OnChain(disk.heights)
    BY <2>1 DEF Offline
  <2>3. Unseen' = {}
    <3>1. ToSet(batch') = {} /\ DOMAIN pending' = {}
      BY <2>1, ToSetOne
    <3> QED
      BY <3>1 DEF Unseen
  <2> QED
    BY <2>1, <2>2, <2>3 DEF Offline, OnChain
<1>3. CASE Closed
  <2>1. batch' = <<>> /\ disk' = NoSnapshot /\ UNCHANGED <<best, heightIndex, pending>>
    BY <1>3 DEF Closed
  <2>2. Unseen' \subseteq Unseen
    BY <2>1, ToSetOne DEF Unseen
  <2> QED
    BY <2>1, <2>2 DEF Offline, OnChain
<1>4. CASE LastSynced
  <2>1. UNCHANGED <<best, db>> /\ disk'.heights = heightIndex
    BY <1>4 DEF LastSynced
  <2>2. UNCHANGED heightIndex /\ Unseen' = Unseen
    BY <2>1, SameUnseen
  <2> QED
    BY <2>1, <2>2 DEF Offline, OnChain
<1>5. CASE \E h \in AllHeights : SyncBlock(h)
  <2>1. PICK h \in AllHeights : SyncBlock(h)
    BY <1>5
  <2> DEFINE b == Ancestor(best, h)
  <2>2. b \in Chain[best] /\ Unseen' = Unseen \cup {b} /\ UNCHANGED heightIndex
    BY <2>1, SyncUnseen
  <2> HIDE DEF b
  <2>3. UNCHANGED <<best, disk, phase>>
    BY <2>1 DEF SyncBlock
  <2> QED
    BY <2>2, <2>3 DEF Offline, OnChain
<1>6. CASE CheckEnd \/ SyncReturns \/ CommitJob
  <2>1. Publishes
    BY <1>6, FlushPublishes, CommitPublishes
  <2>2. UNCHANGED <<best, disk>> /\ (phase = "closing" => phase' = "closing")
    BY <1>6 DEF CheckEnd, SyncReturns, CommitJob
  <2>3. OnChain(heightIndex)'
    BY <1>o, <2>1, <2>2 DEF Publishes, OnChain
  <2>4. \A b \in Unseen' : HeightOf[b] > SyncStartHeight => b \in Chain[best]
    BY <1>o, <2>1 DEF Publishes
  <2> QED
    BY <2>2, <2>3, <2>4 DEF Offline, OnChain
<1>7. CASE (\E c \in Commands : Start(c)) \/ DBIntegrityCheck \/ Scan \/ ScanEnd \/ FillRange \/ InitialSync
           \/ (\E h \in AllHeights : SyncAboveTip(h)) \/ Interrupt \/ UNCHANGED rest
  <2>1. UNCHANGED <<best, db, disk>> /\ (phase = "closing" => phase' = "closing")
    BY <1>7 DEF Start, DBIntegrityCheck, Scan, ScanEnd, FillRange, InitialSync, SyncAboveTip, Interrupt, rest
  <2>2. UNCHANGED heightIndex /\ Unseen' = Unseen
    BY <2>1, SameUnseen
  <2> QED
    BY <2>1, <2>2 DEF Offline, OnChain
<1>8. ~Tick /\ ~PullAndHandle /\ ~CheckPrevious /\ ~PullBelowGenesis /\ ~Write
  BY DEF Tick, PullAndHandle, CheckPrevious, PullBelowGenesis, Write
<1> QED
  BY <1>1, <1>2, <1>3, <1>4, <1>5, <1>6, <1>7, <1>8, Moves DEF Indexer

\* A process that ends caught up leaves blocks of the node's chain only.
LEMMA LeaveWalk ==
    ASSUME FollowInv, IndexInv, Single, WalkLinked, [Next]_vars, exposed' = {},
           phase = "continuous", phase' \notin {"continuous", "fatal"}
    PROVE  Offline'
<1>1. CASE Interrupt
  <2>1. CaughtUp /\ UNCHANGED <<best, db, disk>> /\ phase' = "closing"
    BY <1>1 DEF Interrupt
  <2>2. UNCHANGED heightIndex /\ Unseen' = Unseen
    BY <2>1, SameUnseen
  <2>3. OnChain(heightIndex) /\ \A b \in Unseen : HeightOf[b] > SyncStartHeight => b \in Chain[best]
    BY <2>1, CaughtUpOnChain
  <2> QED
    BY <2>1, <2>2, <2>3 DEF Offline, OnChain
<1>2. CASE Kill
  <2>1. /\ CaughtUp /\ disk.heights = heightIndex /\ heightIndex' = disk.heights /\ disk' = NoSnapshot
        /\ best' = best /\ batch' = <<>> /\ pending' = <<>>
    BY <1>2 DEF Kill
  <2>2. Unseen' = {}
    <3>1. ToSet(batch') = {} /\ DOMAIN pending' = {}
      BY <2>1, ToSetOne
    <3> QED
      BY <3>1 DEF Unseen
  <2>3. OnChain(heightIndex)
    BY <2>1, CaughtUpOnChain
  <2> QED
    BY <2>1, <2>2, <2>3 DEF Offline, OnChain
<1>3. Interrupt \/ Kill
  <2>1. ~Indexer
    BY DEF Indexer, Start, DBIntegrityCheck, Scan, ScanEnd, FillRange, CheckEnd, InitialSync, SyncBlock,
       SyncAboveTip, SyncReturns, Closed, Tick, PullAndHandle, CheckPrevious, PullBelowGenesis
  <2> QED
    BY <2>1, Moves DEF Write, CommitJob, LastSynced, NodeMoves, rest
<1> QED
  BY <1>1, <1>2, <1>3

LEMMA ReorgStep ==
    ASSUME FollowInv, HaveInv, IndexInv, ReorgInv, [Next]_vars
    PROVE  ReorgInv'
<1> SUFFICES ASSUME exposed' = {} PROVE ReorgInv'
  BY DEF ReorgInv
<1>0. exposed = {} /\ RestInv
  BY NodeStep DEF HaveInv
<1>1. phase = "continuous" => Single /\ WalkLinked /\ HeldOK
  BY <1>0 DEF ReorgInv
<1>2. phase \notin {"continuous", "fatal"} => Offline
  BY <1>0 DEF ReorgInv
<1>3. ASSUME phase' = "continuous" PROVE (Single /\ WalkLinked /\ HeldOK)'
  <2>1. CASE phase = "continuous"
    BY <1>0, <1>1, <1>3, <2>1, ContinuousWalk
  <2>2. CASE phase # "continuous"
    <3>1. SyncReturns /\ phase = "initial"
      <4>1. CASE Indexer
        BY <1>3, <2>2, <4>1 DEF Indexer, Start, DBIntegrityCheck, Scan, ScanEnd, FillRange, CheckEnd,
           InitialSync, SyncBlock, SyncAboveTip, SyncReturns, Closed, Tick, PullAndHandle, CheckPrevious,
           PullBelowGenesis
      <4>2. ~Write /\ ~CommitJob /\ ~Interrupt /\ ~LastSynced /\ ~Kill /\ ~(\E b \in Blocks : NodeMoves(b))
        BY <1>3, <2>2 DEF Write, CommitJob, Interrupt, LastSynced, Kill, NodeMoves
      <4>3. ~UNCHANGED rest
        BY <1>3, <2>2 DEF rest
      <4> QED
        BY <4>1, <4>2, <4>3, Moves
    <3> QED
      BY <1>0, <1>2, <1>3, <3>1, EnterWalk
  <2> QED
    BY <2>1, <2>2
<1>4. ASSUME phase' \notin {"continuous", "fatal"} PROVE Offline'
  <2>1. CASE phase = "continuous"
    BY <1>1, <1>4, <2>1, LeaveWalk
  <2>2. CASE phase \notin {"continuous", "fatal"}
    BY <1>0, <1>2, <1>4, <2>2, OfflineStep
  <2>3. phase # "fatal"
    <3> SUFFICES ASSUME phase = "fatal" PROVE FALSE
      OBVIOUS
    <3>1. ~Indexer
      BY DEF Indexer, Start, DBIntegrityCheck, Scan, ScanEnd, FillRange, CheckEnd, InitialSync, SyncBlock,
         SyncAboveTip, SyncReturns, Closed, Tick, PullAndHandle, CheckPrevious, PullBelowGenesis
    <3>2. ~Kill
      BY DEF Kill, CaughtUp, Resting
    <3> QED
      BY <1>4, <3>1, <3>2, Moves DEF Write, CommitJob, Interrupt, LastSynced, NodeMoves, rest
  <2> QED
    BY <2>1, <2>2, <2>3
<1> QED
  BY <1>3, <1>4 DEF ReorgInv

LEMMA LinkedFromInv == FollowInv /\ IndexInv /\ ReorgInv => LinkedAfterReorg
<1> SUFFICES ASSUME FollowInv, IndexInv, ReorgInv, CaughtUp, Unseen = {}, exposed = {},
                    NEW h \in (SyncStartHeight + 2)..ChainTip
             PROVE  Parent[heightIndex[h]] = heightIndex[h - 1]
  BY DEF LinkedAfterReorg, Linked
<1> USE FollowerConstants
<1>0. StoreOK(StoreState) /\ best \in Blocks /\ HeightOf[best] \in Nat /\ Single /\ WalkLinked
  BY DEF FollowInv, CommandInv, ReorgInv, CaughtUp, Resting
<1>1. /\ h \in Nat /\ h - 1 \in Nat /\ h # 0 /\ h \in AllHeights /\ h - 1 \in AllHeights
      /\ h > SyncStartHeight /\ h - 1 > SyncStartHeight /\ h <= ChainTip
  BY <1>0, ChainTipIs
<1>2. h <= HeightOf[best] /\ h - 1 <= HeightOf[best]
  <2>1. ChainTip \in AllHeights /\ ChainTip \in Nat /\ heightIndex[ChainTip] # NoBlock
    BY <1>0, <1>1, ChainTipIs
  <2>2. heightIndex[ChainTip] \in Seen /\ HeightOf[heightIndex[ChainTip]] = ChainTip
    BY <2>1 DEF IndexInv, IndexOK, Seen
  <2>3. ChainTip <= HeightOf[best]
    BY <2>2 DEF IndexInv
  <2> QED
    BY <1>0, <1>1, <2>1, <2>3
<1>3. heightIndex[h] = Ancestor(best, h) /\ heightIndex[h - 1] = Ancestor(best, h - 1)
  BY <1>0, <1>1, <1>2, CaughtUpOnChain
<1> DEFINE a == heightIndex[h]
           b == heightIndex[h - 1]
<1>4. /\ a \in Blocks /\ HeightOf[a] = h /\ a \in Chain[best]
      /\ b \in Blocks /\ HeightOf[b] = h - 1 /\ b \in Chain[best]
  BY <1>0, <1>1, <1>2, <1>3, AncestorIs
<1> HIDE DEF a, b
<1>5. Parent[a] \in Chain[best] /\ Parent[a] \in Blocks
  BY <1>0, <1>1, <1>4, ChainParent
<1>6. HeightOf[Parent[a]] = h - 1
  <2>1. HeightOf[a] = HeightOf[Parent[a]] + 1 /\ HeightOf[Parent[a]] \in Nat
    BY <1>1, <1>4, <1>5, FollowerAssumption
  <2> QED
    BY <1>1, <1>4, <2>1
<1>7. Parent[a] = b
  BY <1>0, <1>4, <1>5, <1>6, ChainUnique
<1> QED
  BY <1>7 DEF a, b

LEMMA InitReorgInv == Init => IndexInv /\ ReorgInv
<1> SUFFICES ASSUME Init PROVE IndexInv /\ ReorgInv
  OBVIOUS
<1>1. /\ blockIndex = {} /\ batch = <<>> /\ pending = <<>> /\ writerChan = <<>> /\ disk = NoSnapshot
      /\ phase = "off" /\ \A h \in AllHeights : heightIndex[h] = NoBlock
  BY DEF Init
<1>2. Unseen = {} /\ Seen = {}
  <2>1. ToSet(batch) = {} /\ ToSet(writerChan) = {} /\ DOMAIN pending = {}
    BY <1>1, ToSetOne
  <2> QED
    BY <1>1, <2>1 DEF Unseen, Seen
<1> QED
  BY <1>1, <1>2 DEF IndexInv, IndexOK, ReorgInv, Offline, OnChain

\* For every block tree, every start height and every batch size: as long as no
\* reorganisation happens while nobody watches, no process ends in the middle of following
\* one, the node does not return to a branch it has left and no commit is overtaken, the
\* walk of SingleBlockPullAndHandle leaves an index that is one chain.
THEOREM LinkedAfterReorgCorrect == Spec => []LinkedAfterReorg
<1>1. Init => IndexInv /\ ReorgInv
  BY InitReorgInv
<1>2. (FollowInv /\ EmptyInv /\ HaveInv) /\ (IndexInv /\ ReorgInv) /\ [Next]_vars => (IndexInv /\ ReorgInv)'
  <2> SUFFICES ASSUME FollowInv, HaveInv, IndexInv, ReorgInv, [Next]_vars PROVE IndexInv' /\ ReorgInv'
    OBVIOUS
  <2>1. RestInv
    BY DEF HaveInv
  <2> QED
    BY <2>1, IndexStep, ReorgStep
<1>3. FollowInv /\ IndexInv /\ ReorgInv => LinkedAfterReorg
  BY LinkedFromInv
<1> QED
  BY <1>1, <1>2, <1>3, HaveInvariant, PTL DEF Spec
=============================================================================

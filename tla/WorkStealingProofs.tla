------------------------- MODULE WorkStealingProofs -------------------------
(***************************************************************************)
(* Proofs about ComputeRebuild and WorkStealing for every number of        *)
(* workers, every batch size and channel capacity and every range.         *)
(***************************************************************************)
EXTENDS WorkStealing, FiniteSetTheorems, TLAPS

\* uint32 arithmetic: a remainder is a uint32, and small numbers stay as they are.
LEMMA Uint32 ==
    ASSUME NEW x \in Nat
    PROVE  /\ x % (MaxUint32 + 1) \in Heights
           /\ x <= MaxUint32 => x % (MaxUint32 + 1) = x
BY RebuildAssumption DEF Heights

LEMMA RebuildConstants ==
    /\ MaxUint32 \in Nat /\ HeightCap \in Nat \ {0} /\ BatchSize \in Nat \ {0}
    /\ MaxSends \in Nat /\ IsFiniteSet(Workers) /\ Workers # {}
    /\ Heights \subseteq Nat /\ \A h \in Heights : h <= MaxUint32
    /\ 0 \in Heights
    /\ \A c \in Rebuilds : c.start \in Heights /\ c.end \in Heights
BY RebuildAssumption DEF Heights, Calls

\* A send on heightChan and a receive from it.
LEMMA SentHeight ==
    ASSUME NEW q \in Seq(Heights), NEW h \in Heights
    PROVE  /\ Append(q, h) \in Seq(Heights) /\ Len(Append(q, h)) = Len(q) + 1
           /\ \A i \in DOMAIN q : i \in DOMAIN Append(q, h) /\ Append(q, h)[i] = q[i]
           /\ Len(q) + 1 \in DOMAIN Append(q, h) /\ Append(q, h)[Len(q) + 1] = h
OBVIOUS

LEMMA ReceivedHeight ==
    ASSUME NEW q \in Seq(Heights), q # <<>>
    PROVE  /\ Head(q) \in Heights /\ Tail(q) \in Seq(Heights) /\ Head(q) = q[1]
           /\ Len(Tail(q)) <= Len(q)
           /\ \A i \in DOMAIN q : i # 1 => i - 1 \in DOMAIN Tail(q) /\ Tail(q)[i - 1] = q[i]
OBVIOUS

\* The arguments of the call and the producer's count.
LEMMA RebuildArgs ==
    ASSUME RebuildTypeOK
    PROVE  /\ rebuild.start \in Heights /\ rebuild.end \in Heights
           /\ rebuild.start \in Nat /\ rebuild.end \in Nat /\ sent \in Nat
           /\ rebuild.start <= MaxUint32 /\ rebuild.end <= MaxUint32 /\ MaxUint32 \in Nat
<1>1. rebuild.start \in Heights /\ rebuild.end \in Heights
  BY RebuildConstants DEF RebuildTypeOK
<1>2. sent \in Nat /\ MaxUint32 \in Nat
  BY RebuildConstants DEF RebuildTypeOK
<1> QED
  BY <1>1, <1>2, RebuildConstants DEF Heights

LEMMA ProducerHeightType == RebuildTypeOK => ProducerHeight \in Heights
BY Uint32, RebuildArgs DEF ProducerHeight

LEMMA InitRebuildTypeOK == RebuildInit => RebuildTypeOK
<1> SUFFICES ASSUME RebuildInit PROVE RebuildTypeOK
  OBVIOUS
<1>1. closed \in BOOLEAN
  BY Zenon DEF RebuildInit
<1> QED
  BY <1>1, RebuildConstants DEF RebuildInit, RebuildTypeOK

LEMMA NextRebuildTypeOK == RebuildTypeOK /\ [RebuildNext]_rebuildVars => RebuildTypeOK'
<1> SUFFICES ASSUME RebuildTypeOK, [RebuildNext]_rebuildVars PROVE RebuildTypeOK'
  OBVIOUS
<1>p. ProducerHeight \in Heights
  BY ProducerHeightType
<1> USE RebuildConstants DEF RebuildTypeOK, producerVars, workerVars, storeVars
<1>1. ASSUME Produce PROVE RebuildTypeOK'
  <2>1. ProducerHeight \in Heights
    BY <1>p
  <2>2. heightChan' \in Seq(Heights) /\ Len(heightChan') <= HeightCap
    <3>1. heightChan \in Seq(Heights) /\ Len(heightChan) < HeightCap
          /\ heightChan' = Append(heightChan, ProducerHeight)
      BY <1>1 DEF Produce
    <3>2. Len(heightChan) \in Nat /\ Len(heightChan') = Len(heightChan) + 1
      BY <3>1, <2>1, SentHeight
    <3> QED
      BY <3>1, <3>2, <2>1, SentHeight
  <2>3. sent' \in 0 .. MaxSends
    <3>1. sent \in 0 .. MaxSends /\ sent < MaxSends /\ sent' = sent + 1
      BY <1>1 DEF Produce
    <3> QED
      BY <3>1
  <2>4. UNCHANGED <<rebuild, closed, workerVars, ret, storeVars>>
    BY <1>1 DEF Produce
  <2> QED
    BY <2>2, <2>3, <2>4
<1>2. ASSUME CloseChan PROVE RebuildTypeOK'
  BY <1>2 DEF CloseChan
<1>3. ASSUME NEW w \in Workers, WorkerRecv(w) PROVE RebuildTypeOK'
  BY <1>3 DEF WorkerRecv
<1>4. ASSUME NEW w \in Workers, WorkerEnd(w) \/ Build(w) PROVE RebuildTypeOK'
  BY <1>4 DEF WorkerEnd, Build
<1>5. ASSUME NEW w \in Workers, Finish(w) PROVE RebuildTypeOK'
  <2>1. wpc' \in [Workers -> {"recv", "build", "finish", "commit", "done", "failed"}]
    <3>1. PICK s \in {"recv", "commit"} : wpc' = [wpc EXCEPT ![w] = s]
      BY <1>5, Zenon DEF Finish
    <3> QED
      BY <3>1
  <2>2. wheight' \in [Workers -> Heights]
    BY <1>5 DEF Finish
  <2>3. batch' \subseteq Heights
    <3>1. wheight[w] \in Heights /\ batch' = batch \cup {wheight[w]}
      BY <1>5 DEF Finish
    <3> QED
      BY <3>1
  <2>4. batchCounter' \in Nat
    BY <1>5 DEF Finish
  <2> QED
    BY <1>5, <2>1, <2>2, <2>3, <2>4 DEF Finish
<1>6. ASSUME NEW w \in Workers, Commit(w) PROVE RebuildTypeOK'
  BY <1>6 DEF Commit
<1>7. ASSUME NEW w \in Workers, Fail(w) PROVE RebuildTypeOK'
  BY <1>7 DEF Fail
<1>8. ASSUME Return PROVE RebuildTypeOK'
  BY <1>8 DEF Return
<1>9. ASSUME Background PROVE RebuildTypeOK'
  BY <1>9 DEF Background
<1>10. CASE UNCHANGED rebuildVars
  BY <1>10 DEF rebuildVars
<1> QED
  BY <1>1, <1>2, <1>3, <1>4, <1>5, <1>6, <1>7, <1>8, <1>9, <1>10
     DEF RebuildNext, Producer, Worker

----------------------------------------------------------------------------
\* The workers that have seen a full batch and not rotated it yet.
Committing == {w \in Workers : wpc[w] = "commit"}

\* Each of them has counted at most one height beyond the size.
BatchInv ==
    /\ IsFiniteSet(batch) /\ Cardinality(batch) <= batchCounter
    /\ batchCounter < BatchSize + Cardinality(Committing)

LEMMA FiniteCommitting ==
    /\ IsFiniteSet(Committing) /\ Cardinality(Committing) \in Nat
    /\ Cardinality(Committing) <= Cardinality(Workers) /\ Cardinality(Workers) \in Nat
<1>1. Committing \in SUBSET Workers
  BY DEF Committing
<1> QED
  BY <1>1, FS_Subset, FS_CardinalityType, RebuildConstants

LEMMA InitBatchInv == RebuildInit => BatchInv
<1> SUFFICES ASSUME RebuildInit PROVE BatchInv
  OBVIOUS
<1>1. batch = {} /\ batchCounter = 0
  BY DEF RebuildInit
<1> QED
  BY <1>1, FS_EmptySet, FiniteCommitting, RebuildConstants DEF BatchInv

LEMMA NextBatchInv == RebuildTypeOK /\ BatchInv /\ [RebuildNext]_rebuildVars => BatchInv'
<1> SUFFICES ASSUME RebuildTypeOK, BatchInv, [RebuildNext]_rebuildVars PROVE BatchInv'
  OBVIOUS
<1> USE DEF producerVars, workerVars, storeVars
<1> DEFINE Quiet == batch' = batch /\ batchCounter' = batchCounter /\ Committing' = Committing
<1>q. Quiet => BatchInv'
  BY DEF BatchInv
<1>c. Cardinality(Committing) \in Nat /\ batchCounter \in Nat /\ BatchSize \in Nat \ {0}
      /\ Cardinality(batch) \in Nat
  BY FiniteCommitting, FS_CardinalityType, RebuildConstants DEF RebuildTypeOK, BatchInv
<1>1. ASSUME Producer \/ Return \/ Background PROVE Quiet
  BY <1>1 DEF Producer, Produce, CloseChan, Return, Background, Committing
<1>2. ASSUME NEW w \in Workers, WorkerRecv(w) \/ WorkerEnd(w) \/ Build(w) \/ Fail(w)
      PROVE  Quiet
  BY <1>2 DEF WorkerRecv, WorkerEnd, Build, Fail, Committing, RebuildTypeOK
<1>3. ASSUME NEW w \in Workers, Finish(w) PROVE BatchInv'
  <2>1. /\ batch' = batch \cup {wheight[w]} /\ batchCounter' = batchCounter + 1
    BY <1>3 DEF Finish
  <2>2. IsFiniteSet(batch') /\ Cardinality(batch') <= Cardinality(batch) + 1
    <3>1. IsFiniteSet(batch)
      BY DEF BatchInv
    <3>2. /\ IsFiniteSet(batch')
          /\ Cardinality(batch') = Cardinality(batch) \/ Cardinality(batch') = Cardinality(batch) + 1
      BY <3>1, <2>1, FS_AddElement
    <3> QED
      BY <3>2, <1>c
  <2>3. CASE batchCounter + 1 >= BatchSize
    <3>1. Committing' = Committing \cup {w} /\ w \notin Committing
      BY <1>3, <2>3 DEF Finish, Committing, RebuildTypeOK
    <3>2. Cardinality(Committing') = Cardinality(Committing) + 1
      BY <3>1, FiniteCommitting, FS_AddElement
    <3> QED
      BY <2>1, <2>2, <3>2, <1>c, FS_CardinalityType DEF BatchInv
  <2>4. CASE ~(batchCounter + 1 >= BatchSize)
    <3>1. Committing' = Committing
      BY <1>3, <2>4 DEF Finish, Committing, RebuildTypeOK
    <3> QED
      BY <2>1, <2>2, <2>4, <3>1, <1>c, FS_CardinalityType DEF BatchInv
  <2> QED
    BY <2>3, <2>4
<1>4. ASSUME NEW w \in Workers, Commit(w) PROVE BatchInv'
  <2>1. batch' = {} /\ batchCounter' = 0 /\ Committing' = Committing \ {w}
    BY <1>4 DEF Commit, Committing, RebuildTypeOK
  <2>2. Cardinality(Committing') \in Nat
    BY <2>1, FiniteCommitting, FS_RemoveElement, FS_CardinalityType
  <2> QED
    BY <2>1, <2>2, <1>c, FS_EmptySet DEF BatchInv
<1>5. UNCHANGED rebuildVars => Quiet
  BY DEF rebuildVars, Committing
<1> HIDE DEF Quiet
<1> QED
  BY <1>q, <1>1, <1>2, <1>3, <1>4, <1>5 DEF RebuildNext, Worker

LEMMA BatchInvBound == RebuildTypeOK /\ BatchInv => RebuildBatchBound
BY FiniteCommitting, RebuildConstants DEF RebuildTypeOK, BatchInv, RebuildBatchBound

----------------------------------------------------------------------------
\* The producer does not pass the end of its range unless that is the largest height,
\* and closes the channel only behind the last one.
ProducerInv ==
    /\ rebuild.end < MaxUint32 =>
           sent <= IF rebuild.start <= rebuild.end THEN rebuild.end - rebuild.start + 1 ELSE 0
    /\ closed => rebuild.end < MaxUint32 /\ rebuild.start + sent > rebuild.end

\* Where the rows of a height that was sent can be.
Handed(h) == h \in batch \/ (\E b \in inflight : h \in b) \/ h \in visible
OnItsWay(h) ==
    \/ \E i \in DOMAIN heightChan : heightChan[i] = h
    \/ \E w \in Workers : wpc[w] \in {"build", "finish"} /\ wheight[w] = h

RowsInv ==
    /\ Failed = {} /\ rebuild.end < MaxUint32 =>
           \A h \in rebuild.start .. rebuild.end :
               h < rebuild.start + sent => OnItsWay(h) \/ Handed(h)
    /\ \A w \in Workers : wpc[w] = "done" => closed /\ heightChan = <<>>
    /\ ret = "nil" => \A w \in Workers : wpc[w] = "done"

LEMMA InitRowsInv == RebuildInit => ProducerInv /\ RowsInv
<1> SUFFICES ASSUME RebuildInit PROVE ProducerInv /\ RowsInv
  OBVIOUS
<1>1. /\ rebuild.start \in Nat /\ rebuild.end \in Nat /\ sent = 0 /\ ~closed
  BY InitRebuildTypeOK, RebuildArgs DEF RebuildInit
<1>2. ProducerInv
  BY <1>1 DEF ProducerInv
<1>3. \A h \in rebuild.start .. rebuild.end : ~(h < rebuild.start + sent)
  BY <1>1
<1>4. RowsInv
  BY <1>3 DEF RebuildInit, RowsInv
<1> QED
  BY <1>2, <1>4

\* ProducerHeight as long as the range ends below the largest height.
LEMMA ProducerHeightValue ==
    ASSUME RebuildTypeOK, ProducerInv
    PROVE  /\ ProducerHeight \in Heights
           /\ rebuild.end < MaxUint32 => ProducerHeight = rebuild.start + sent
<1>1. /\ rebuild.start \in Nat /\ rebuild.end \in Nat /\ sent \in Nat
      /\ rebuild.start <= MaxUint32 /\ rebuild.end <= MaxUint32
  BY RebuildArgs
<1>2. rebuild.end < MaxUint32 => rebuild.start + sent <= MaxUint32
  BY <1>1, RebuildConstants DEF ProducerInv
<1> QED
  BY <1>1, <1>2, Uint32 DEF ProducerHeight

LEMMA NextProducerInv ==
    RebuildTypeOK /\ ProducerInv /\ [RebuildNext]_rebuildVars => ProducerInv'
<1> SUFFICES ASSUME RebuildTypeOK, ProducerInv, [RebuildNext]_rebuildVars PROVE ProducerInv'
  OBVIOUS
<1> USE DEF ProducerInv, producerVars, workerVars, storeVars
<1>t. /\ rebuild.start \in Nat /\ rebuild.end \in Nat /\ sent \in Nat
      /\ rebuild.start <= MaxUint32 /\ rebuild.end <= MaxUint32 /\ MaxUint32 \in Nat
  BY RebuildArgs
<1>p. /\ ProducerHeight \in Nat /\ ProducerHeight <= MaxUint32
      /\ rebuild.end < MaxUint32 => ProducerHeight = rebuild.start + sent
  BY ProducerHeightValue, RebuildConstants
<1>1. ASSUME Produce PROVE ProducerInv'
  <2>1. /\ sent' = sent + 1 /\ UNCHANGED <<rebuild, closed>> /\ ~closed
        /\ ProducerHeight <= rebuild.end
    BY <1>1 DEF Produce
  <2> QED
    BY <2>1, <1>t, <1>p
<1>2. ASSUME CloseChan PROVE ProducerInv'
  <2>1. UNCHANGED <<rebuild, sent>> /\ closed' = TRUE /\ ProducerHeight > rebuild.end
    BY <1>2 DEF CloseChan
  <2> QED
    BY <2>1, <1>t, <1>p
<1>3. ASSUME UNCHANGED <<rebuild, sent, closed>> PROVE ProducerInv'
  BY <1>3
<1>4. ASSUME NEW w \in Workers, Worker(w) \/ Fail(w) PROVE UNCHANGED <<rebuild, sent, closed>>
  BY <1>4 DEF Worker, WorkerRecv, WorkerEnd, Build, Finish, Commit, Fail
<1>5. Return \/ Background \/ UNCHANGED rebuildVars => UNCHANGED <<rebuild, sent, closed>>
  BY DEF Return, Background, rebuildVars
<1> QED
  BY <1>1, <1>2, <1>3, <1>4, <1>5 DEF RebuildNext, Producer

LEMMA BelowNext ==
    ASSUME NEW a \in Nat, NEW b \in Nat, NEW s \in Nat, NEW h \in a .. b, h < a + (s + 1)
    PROVE  h < a + s \/ h = a + s
OBVIOUS

LEMMA NextRowsInv ==
    RebuildTypeOK /\ ProducerInv /\ RowsInv /\ [RebuildNext]_rebuildVars => RowsInv'
<1> SUFFICES ASSUME RebuildTypeOK, ProducerInv, RowsInv, [RebuildNext]_rebuildVars
             PROVE  RowsInv'
  OBVIOUS
<1> USE DEF producerVars, workerVars, storeVars
<1>a. /\ rebuild.start \in Nat /\ rebuild.end \in Nat /\ sent \in Nat
  BY RebuildArgs
\* The first conjunct follows if nothing leaves the pipeline but by a failure.
<1>k. ASSUME rebuild' = rebuild, sent' = sent, Failed' = {} => Failed = {},
             Failed' = {} => \A h \in rebuild.start .. rebuild.end :
                 OnItsWay(h) \/ Handed(h) => OnItsWay(h)' \/ Handed(h)'
      PROVE  Failed' = {} /\ rebuild'.end < MaxUint32 =>
                 \A h \in rebuild'.start .. rebuild'.end :
                     h < rebuild'.start + sent' => OnItsWay(h)' \/ Handed(h)'
  BY <1>k DEF RowsInv
<1>1. ASSUME Produce PROVE RowsInv'
  <2>1. /\ heightChan' = Append(heightChan, ProducerHeight) /\ sent' = sent + 1 /\ ~closed
        /\ UNCHANGED <<rebuild, closed, wpc, wheight, ret, batch, inflight, visible>>
    BY <1>1 DEF Produce
  <2>2. /\ \A i \in DOMAIN heightChan : i \in DOMAIN heightChan' /\ heightChan'[i] = heightChan[i]
        /\ Len(heightChan) + 1 \in DOMAIN heightChan'
        /\ heightChan'[Len(heightChan) + 1] = ProducerHeight
    <3>1. heightChan \in Seq(Heights) /\ ProducerHeight \in Heights
      BY ProducerHeightValue DEF RebuildTypeOK
    <3> QED
      BY <2>1, <3>1, SentHeight
  <2>3. \A h : OnItsWay(h) \/ Handed(h) => OnItsWay(h)' \/ Handed(h)'
    BY <2>1, <2>2 DEF OnItsWay, Handed
  <2>4. ASSUME NEW h, h = ProducerHeight PROVE OnItsWay(h)'
    BY <2>2, <2>4 DEF OnItsWay
  <2>5. ASSUME Failed' = {}, rebuild'.end < MaxUint32, NEW h \in rebuild'.start .. rebuild'.end,
               h < rebuild'.start + sent'
        PROVE  OnItsWay(h)' \/ Handed(h)'
    <3>1. Failed = {}
      BY <2>1, <2>5 DEF Failed
    <3>2. h < rebuild.start + sent \/ h = ProducerHeight
      <4>1. ProducerHeight = rebuild.start + sent
        BY <2>1, <2>5, ProducerHeightValue
      <4>2. h \in rebuild.start .. rebuild.end /\ h < rebuild.start + (sent + 1)
        BY <2>1, <2>5
      <4> QED
        BY <4>1, <4>2, <1>a, BelowNext
    <3> QED
      BY <3>1, <3>2, <2>1, <2>3, <2>4, <2>5 DEF RowsInv
  <2>6. (ret = "nil" => \A w \in Workers : wpc[w] = "done")'
    BY <2>1 DEF RowsInv
  <2>7. (\A w \in Workers : wpc[w] = "done" => closed /\ heightChan = <<>>)'
    BY <2>1 DEF RowsInv
  <2> QED
    BY <2>5, <2>6, <2>7 DEF RowsInv
<1>2. ASSUME CloseChan PROVE RowsInv'
  <2>1. UNCHANGED <<rebuild, sent, heightChan, wpc, wheight, ret, batch, inflight, visible>>
        /\ closed' = TRUE
    BY <1>2 DEF CloseChan
  <2>2. \A h : OnItsWay(h) \/ Handed(h) => OnItsWay(h)' \/ Handed(h)'
    BY <2>1 DEF OnItsWay, Handed
  <2>3. Failed' = Failed
    BY <2>1 DEF Failed
  <2> QED
    BY <2>1, <2>2, <2>3, <1>k DEF RowsInv
<1>3. ASSUME NEW w \in Workers, WorkerRecv(w) PROVE RowsInv'
  <2>1. /\ heightChan # <<>> /\ heightChan' = Tail(heightChan) /\ wpc[w] = "recv"
        /\ wheight' = [wheight EXCEPT ![w] = Head(heightChan)]
        /\ wpc' = [wpc EXCEPT ![w] = "build"]
        /\ UNCHANGED <<rebuild, sent, closed, ret, batch, inflight, visible>>
    BY <1>3 DEF WorkerRecv
  <2>2. /\ Head(heightChan) = heightChan[1]
        /\ \A i \in DOMAIN heightChan : i # 1 =>
               i - 1 \in DOMAIN heightChan' /\ heightChan'[i - 1] = heightChan[i]
    <3>1. heightChan \in Seq(Heights)
      BY DEF RebuildTypeOK
    <3> QED
      BY <2>1, <3>1, ReceivedHeight
  <2>3. /\ wpc'[w] = "build" /\ wheight'[w] = heightChan[1]
        /\ \A v \in Workers : v # w => wpc'[v] = wpc[v] /\ wheight'[v] = wheight[v]
    BY <2>1, <2>2 DEF RebuildTypeOK
  <2>4. \A h : OnItsWay(h) \/ Handed(h) => OnItsWay(h)' \/ Handed(h)'
    <3> SUFFICES ASSUME NEW h, OnItsWay(h) \/ Handed(h) PROVE OnItsWay(h)' \/ Handed(h)'
      OBVIOUS
    <3>1. CASE Handed(h)
      BY <3>1, <2>1 DEF Handed
    <3>2. ASSUME NEW i \in DOMAIN heightChan, heightChan[i] = h PROVE OnItsWay(h)'
      <4>1. CASE i = 1
        BY <3>2, <4>1, <2>3 DEF OnItsWay
      <4>2. CASE i # 1
        BY <3>2, <4>2, <2>2 DEF OnItsWay
      <4> QED
        BY <4>1, <4>2
    <3>3. ASSUME NEW v \in Workers, wpc[v] \in {"build", "finish"}, wheight[v] = h
          PROVE  OnItsWay(h)'
      BY <3>3, <2>1, <2>3 DEF OnItsWay
    <3> QED
      BY <3>1, <3>2, <3>3 DEF OnItsWay
  <2>5. Failed' = Failed
    BY <2>1, <2>3 DEF Failed
  <2>6. (ret = "nil" => \A v \in Workers : wpc[v] = "done")'
    BY <2>1 DEF RowsInv
  <2>7. (\A v \in Workers : wpc[v] = "done" => closed /\ heightChan = <<>>)'
    BY <2>1, <2>3 DEF RowsInv
  <2> QED
    BY <2>1, <2>4, <2>5, <2>6, <2>7, <1>k DEF RowsInv
<1>4. ASSUME NEW w \in Workers, WorkerEnd(w) PROVE RowsInv'
  <2>1. /\ heightChan = <<>> /\ closed /\ wpc[w] = "recv" /\ wpc' = [wpc EXCEPT ![w] = "done"]
        /\ UNCHANGED <<rebuild, sent, closed, heightChan, wheight, ret, batch, inflight, visible>>
    BY <1>4 DEF WorkerEnd
  <2>2. wpc'[w] = "done" /\ \A v \in Workers : v # w => wpc'[v] = wpc[v]
    BY <2>1 DEF RebuildTypeOK
  <2>3. \A h : OnItsWay(h) \/ Handed(h) => OnItsWay(h)' \/ Handed(h)'
    BY <2>1, <2>2 DEF OnItsWay, Handed
  <2>4. Failed' = Failed
    BY <2>1, <2>2 DEF Failed
  <2> QED
    BY <2>1, <2>2, <2>3, <2>4, <1>k DEF RowsInv
<1>5. ASSUME NEW w \in Workers, Build(w) PROVE RowsInv'
  <2>1. /\ wpc[w] = "build" /\ wpc' = [wpc EXCEPT ![w] = "finish"]
        /\ UNCHANGED <<rebuild, sent, closed, heightChan, wheight, ret, batch, inflight, visible>>
    BY <1>5 DEF Build
  <2>2. wpc'[w] = "finish" /\ \A v \in Workers : v # w => wpc'[v] = wpc[v]
    BY <2>1 DEF RebuildTypeOK
  <2>3. \A h : OnItsWay(h) \/ Handed(h) => OnItsWay(h)' \/ Handed(h)'
    BY <2>1, <2>2 DEF OnItsWay, Handed
  <2>4. Failed' = Failed
    BY <2>1, <2>2 DEF Failed
  <2> QED
    BY <2>1, <2>2, <2>3, <2>4, <1>k DEF RowsInv
<1>6. ASSUME NEW w \in Workers, Finish(w) PROVE RowsInv'
  <2>1. /\ wpc[w] = "finish" /\ batch' = batch \cup {wheight[w]}
        /\ UNCHANGED <<rebuild, sent, closed, heightChan, ret, inflight, visible>>
    BY <1>6 DEF Finish
  <2>2. /\ wpc'[w] \in {"commit", "recv"}
        /\ \A v \in Workers : v # w => wpc'[v] = wpc[v] /\ wheight'[v] = wheight[v]
    BY <1>6 DEF Finish, RebuildTypeOK
  <2>3. \A h : OnItsWay(h) \/ Handed(h) => OnItsWay(h)' \/ Handed(h)'
    BY <2>1, <2>2 DEF OnItsWay, Handed
  <2>4. Failed' = Failed
    BY <2>1, <2>2 DEF Failed
  <2> QED
    BY <2>1, <2>2, <2>3, <2>4, <1>k DEF RowsInv
<1>7. ASSUME NEW w \in Workers, Commit(w) PROVE RowsInv'
  <2>1. /\ wpc[w] = "commit" /\ batch' = {} /\ inflight' = inflight \cup ({batch} \ {{}})
        /\ wpc' = [wpc EXCEPT ![w] = "recv"]
        /\ UNCHANGED <<rebuild, sent, closed, heightChan, wheight, ret, visible>>
    BY <1>7 DEF Commit
  <2>2. wpc'[w] = "recv" /\ \A v \in Workers : v # w => wpc'[v] = wpc[v]
    BY <2>1 DEF RebuildTypeOK
  <2>3. ASSUME NEW h, Handed(h) PROVE Handed(h)'
    BY <2>1, <2>3 DEF Handed
  <2>4. \A h : OnItsWay(h) => OnItsWay(h)'
    BY <2>1, <2>2 DEF OnItsWay
  <2>5. Failed' = Failed
    BY <2>1, <2>2 DEF Failed
  <2> QED
    BY <2>1, <2>2, <2>3, <2>4, <2>5, <1>k DEF RowsInv
<1>8. ASSUME NEW w \in Workers, Fail(w) PROVE RowsInv'
  <2>1. /\ wpc[w] \in {"build", "finish"} /\ wpc' = [wpc EXCEPT ![w] = "failed"]
        /\ UNCHANGED <<rebuild, sent, closed, heightChan, ret>>
    BY <1>8 DEF Fail
  <2>2. wpc'[w] = "failed" /\ \A v \in Workers : v # w => wpc'[v] = wpc[v]
    BY <2>1 DEF RebuildTypeOK
  <2>3. Failed' # {}
    BY <2>2 DEF Failed
  <2> QED
    BY <2>1, <2>2, <2>3 DEF RowsInv
<1>9. ASSUME Return PROVE RowsInv'
  <2>1. /\ ret' = IF Failed = {} THEN "nil" ELSE "error"
        /\ \A w \in Workers : wpc[w] \in {"done", "failed"}
        /\ UNCHANGED <<rebuild, sent, closed, heightChan, wpc, wheight, batch, inflight, visible>>
    BY <1>9 DEF Return
  <2>2. \A h : OnItsWay(h) \/ Handed(h) => OnItsWay(h)' \/ Handed(h)'
    BY <2>1 DEF OnItsWay, Handed
  <2>3. Failed' = Failed
    BY <2>1 DEF Failed
  <2>4. (ret = "nil" => \A w \in Workers : wpc[w] = "done")'
    BY <2>1 DEF Failed
  <2> QED
    BY <2>1, <2>2, <2>3, <2>4, <1>k DEF RowsInv
<1>10. ASSUME Background PROVE RowsInv'
  <2>1. PICK b \in inflight : inflight' = inflight \ {b} /\ visible' = visible \cup b
    BY <1>10 DEF Background
  <2>2. UNCHANGED <<rebuild, sent, closed, heightChan, wpc, wheight, ret, batch>>
    BY <1>10 DEF Background
  <2>3. ASSUME NEW h, Handed(h) PROVE Handed(h)'
    BY <2>1, <2>2, <2>3 DEF Handed
  <2>4. \A h : OnItsWay(h) => OnItsWay(h)'
    BY <2>2 DEF OnItsWay
  <2>5. Failed' = Failed
    BY <2>2 DEF Failed
  <2> QED
    BY <2>2, <2>3, <2>4, <2>5, <1>k DEF RowsInv
<1>11. ASSUME UNCHANGED rebuildVars PROVE RowsInv'
  BY <1>11 DEF rebuildVars, RowsInv, OnItsWay, Handed, Failed
<1> QED
  BY <1>1, <1>2, <1>3, <1>4, <1>5, <1>6, <1>7, <1>8, <1>9, <1>10, <1>11
     DEF RebuildNext, Producer, Worker

\* The inductive invariant of the rebuild.
RebuildInv == RebuildTypeOK /\ BatchInv /\ ProducerInv /\ RowsInv

LEMMA RebuildInvNil == RebuildInv => NilMeansRebuilt
<1> SUFFICES ASSUME RebuildInv, ret = "nil"
             PROVE  /\ rebuild.start .. rebuild.end \subseteq batch \cup (UNION inflight) \cup visible
                    /\ batchCounter < BatchSize
  BY DEF NilMeansRebuilt
<1>1. \A w \in Workers : wpc[w] = "done"
  BY DEF RebuildInv, RowsInv
<1>2. closed /\ heightChan = <<>>
  BY <1>1, RebuildConstants DEF RebuildInv, RowsInv
<1>3. Failed = {} /\ rebuild.end < MaxUint32 /\ rebuild.start + sent > rebuild.end
  BY <1>1, <1>2 DEF RebuildInv, ProducerInv, Failed
<1>4. \A h \in rebuild.start .. rebuild.end : OnItsWay(h) \/ Handed(h)
  <2> SUFFICES ASSUME NEW h \in rebuild.start .. rebuild.end PROVE h < rebuild.start + sent
    BY <1>3 DEF RebuildInv, RowsInv
  <2> QED
    BY <1>3, RebuildArgs DEF RebuildInv
<1>5. \A h : ~OnItsWay(h)
  BY <1>1, <1>2 DEF OnItsWay
<1>6. batchCounter < BatchSize
  <2>1. Committing = {}
    BY <1>1 DEF Committing
  <2> QED
    BY <2>1, FS_EmptySet, RebuildConstants DEF RebuildInv, BatchInv, RebuildTypeOK
<1>7. ASSUME NEW h, Handed(h) PROVE h \in batch \cup (UNION inflight) \cup visible
  <2>1. ASSUME NEW b \in inflight, h \in b PROVE h \in UNION inflight
    BY <2>1
  <2>2. h \in batch \/ h \in UNION inflight \/ h \in visible
    BY <1>7, <2>1, Zenon DEF Handed
  <2> QED
    BY <2>2, Zenon
<1> QED
  BY <1>4, <1>5, <1>6, <1>7

\* The scan leaves the variables of the rebuild alone.
LEMMA NextIsRebuild == [Next]_vars => [RebuildNext]_rebuildVars
BY DEF Next, vars, Caller, CallScan, CutPiece, Spawn, ReturnScan, Cancel, Scanner, ScanFail,
       ScanShort, CheckContext, GetNextRange, ScanPiece, SendResults

LEMMA RebuildCorrect == Spec => []RebuildInv
<1>1. Init => RebuildInv
  BY InitRebuildTypeOK, InitBatchInv, InitRowsInv DEF Init, RebuildInv
<1>2. RebuildInv /\ [Next]_vars => RebuildInv'
  BY NextIsRebuild, NextRebuildTypeOK, NextBatchInv, NextProducerInv, NextRowsInv
     DEF RebuildInv
<1> QED
  BY <1>1, <1>2, PTL DEF Spec

\* BuildComputeIndexByRange returns nil only if the rows of every height of the range have
\* reached the store, with less than a batch of them left uncommitted, for any number of
\* workers and in every interleaving with the producer and the commits.
THEOREM NilMeansRebuiltCorrect == Spec => []NilMeansRebuilt
BY RebuildInvNil, RebuildCorrect, PTL

\* Workers decide to rotate and rotate in two steps, yet the batch of the rebuild exceeds
\* its size by at most one height per further worker.
THEOREM RebuildBatchBoundCorrect == Spec => []RebuildBatchBound
<1>1. RebuildInv => RebuildBatchBound
  BY BatchInvBound DEF RebuildInv
<1> QED
  BY <1>1, RebuildCorrect, PTL

----------------------------------------------------------------------------
LEMMA ScanConstants ==
    /\ Heights = 0 .. MaxUint32 /\ MaxUint32 \in Nat /\ IsFiniteSet(Scanners)
    /\ Cardinality(Scanners) \in Nat
    /\ \A c \in Scans \cup {NoScan} :
           /\ c.start \in Heights /\ c.end \in Heights /\ c.workers \in Nat
           /\ RangeSize(c) \in Heights /\ RangeSize(c) # 0
<1>1. IsFiniteSet(Scanners) /\ Cardinality(Scanners) \in Nat
  BY ScanAssumption, FS_CardinalityType
<1>2. MaxUint32 \in Nat /\ Heights = 0 .. MaxUint32
  BY RebuildAssumption DEF Heights
<1>3. ASSUME NEW c \in Scans PROVE /\ c.start \in Heights /\ c.end \in Heights
                                   /\ c.size \in Heights /\ c.workers \in Nat
  BY <1>1, ScanAssumption
<1>4. DefaultRangeSize \in Heights /\ DefaultRangeSize # 0
  BY ScanAssumption
<1>5. 0 \in Heights /\ 1 \in Nat
  BY <1>2
<1>6. MaxUint32 # 0
  BY <1>2, <1>4
<1>7. RangeSize(NoScan) = 1 /\ 1 \in Heights
  BY <1>2, <1>6 DEF RangeSize, NoScan
<1>8. ASSUME NEW c \in Scans PROVE RangeSize(c) \in Heights /\ RangeSize(c) # 0
  BY <1>3, <1>4 DEF RangeSize
<1> QED
  BY <1>1, <1>2, <1>3, <1>5, <1>7, <1>8 DEF NoScan

LEMMA WrapHeight == \A n \in Nat : Wrap(n) \in Heights /\ (n <= MaxUint32 => Wrap(n) = n)
BY Uint32 DEF Wrap

\* Bags of payments.
LEMMA EmptyBagIs == IsABag(EmptyBag) /\ DOMAIN EmptyBag = {}
BY DEF EmptyBag, SetToBag, IsABag

LEMMA SetToBagIs == \A S : IsABag(SetToBag(S)) /\ DOMAIN SetToBag(S) = S
BY DEF SetToBag, IsABag

LEMMA BagSum ==
    ASSUME NEW B, NEW C, IsABag(B), IsABag(C)
    PROVE  IsABag(B (+) C) /\ DOMAIN (B (+) C) = DOMAIN B \cup DOMAIN C
<1>1. DOMAIN (B (+) C) = DOMAIN B \cup DOMAIN C
  BY DEF (+)
<1>2. ASSUME NEW x \in DOMAIN B \cup DOMAIN C PROVE (B (+) C)[x] \in Nat /\ (B (+) C)[x] > 0
  BY <1>2 DEF (+), IsABag
<1> QED
  BY <1>1, <1>2 DEF IsABag, (+)

\* Scanners that are scanning a piece.
Scanning == {w \in Scanners : wspc[w] = "scan"}

LEMMA FiniteScanning == IsFiniteSet(Scanning) /\ Cardinality(Scanning) \in Nat
<1>1. Scanning \subseteq Scanners
  BY DEF Scanning
<1> QED
  BY <1>1, FS_Subset, FS_CardinalityType, ScanConstants

\* TypeOK without the bound on progress.
ScanTypes ==
    /\ scan \in Scans \cup {NoScan} /\ spc \in {"idle", "queue", "wait", "nil", "error"}
    /\ ranges \in Seq(Calls) /\ current \in Heights /\ index \in Nat
    /\ wspc \in [Scanners -> {"off", "check", "take", "scan", "send", "sent", "failed", "gone"}]
    /\ piece \in [Scanners -> Calls] /\ DOMAIN found = Scanners
    /\ IsABag(allFoundOutputs) /\ \A w \in Scanners : IsABag(found[w])
    /\ progress \in Nat /\ cancelled \in BOOLEAN
    /\ visibleAtCall \subseteq Heights /\ unread \subseteq Heights

LEMMA InitScanTypes == Init => ScanTypes
<1> SUFFICES ASSUME Init PROVE ScanTypes
  OBVIOUS
<1>1. cancelled \in BOOLEAN
  BY Zenon DEF Init
<1>2. NoPiece \in Calls
  BY ScanConstants DEF NoPiece, Calls
<1>3. IsABag(allFoundOutputs) /\ \A w \in Scanners : IsABag(found[w])
  BY EmptyBagIs DEF Init
<1> QED
  BY <1>1, <1>2, <1>3, ScanConstants DEF Init, ScanTypes

\* The piece that the loop cuts off next.
NextPiece == [start |-> current,
              end |-> SmallerOf(Wrap(current + RangeSize(scan)), scan.end)]

LEMMA NextPieceType ==
    ASSUME ScanTypes PROVE NextPiece \in Calls /\ Wrap(current + RangeSize(scan)) \in Heights
<1>1. /\ current \in Heights /\ scan.end \in Heights /\ RangeSize(scan) \in Heights
  BY ScanConstants DEF ScanTypes
<1>2. current + RangeSize(scan) \in Nat
  BY <1>1, ScanConstants
<1>3. Wrap(current + RangeSize(scan)) \in Heights
  BY <1>2, WrapHeight
<1>4. SmallerOf(Wrap(current + RangeSize(scan)), scan.end) \in Heights
  BY <1>1, <1>3 DEF SmallerOf
<1> QED
  BY <1>1, <1>3, <1>4 DEF NextPiece, Calls

LEMMA NextScanTypes == RebuildTypeOK /\ ScanTypes /\ [Next]_vars => ScanTypes'
<1> SUFFICES ASSUME RebuildTypeOK, ScanTypes, [Next]_vars PROVE ScanTypes'
  OBVIOUS
<1> USE DEF queueVars, scannerVars
<1>p. NoPiece \in Calls
  BY ScanConstants DEF NoPiece, Calls
<1>1. ASSUME UNCHANGED scanVars PROVE ScanTypes'
  BY <1>1 DEF scanVars, ScanTypes
<1>2. ASSUME NEW c \in Scans, CallScan(c) PROVE ScanTypes'
  <2>1. c.start \in Heights /\ visible \subseteq Heights
    BY ScanConstants DEF RebuildTypeOK
  <2> QED
    BY <1>2, <2>1 DEF CallScan, ScanTypes
<1>3. ASSUME CutPiece PROVE ScanTypes'
  <2>1. /\ ranges' = Append(ranges, NextPiece) /\ current' = Wrap(current + RangeSize(scan))
    BY <1>3 DEF CutPiece, NextPiece
  <2>2. ranges' \in Seq(Calls) /\ current' \in Heights
    BY <2>1, NextPieceType DEF ScanTypes
  <2> QED
    BY <1>3, <2>2 DEF CutPiece, ScanTypes
<1>4. ASSUME Spawn PROVE ScanTypes'
  <2>1. wspc' \in [Scanners -> {"off", "check", "take", "scan", "send", "sent", "failed", "gone"}]
    BY <1>4 DEF Spawn
  <2> QED
    BY <1>4, <2>1 DEF Spawn, ScanTypes
<1>5. ASSUME ReturnScan PROVE ScanTypes'
  <2>1. IsABag(allFoundOutputs') /\ spc' \in {"nil", "error"}
    BY <1>5, EmptyBagIs DEF ReturnScan, ScanTypes
  <2> QED
    BY <1>5, <2>1 DEF ReturnScan, ScanTypes
<1>6. ASSUME Cancel PROVE ScanTypes'
  <2>1. cancelled' \in BOOLEAN
    BY <1>6, Zenon DEF Cancel
  <2> QED
    BY <1>6, <2>1 DEF Cancel, ScanTypes
<1>7. ASSUME NEW w \in Scanners, CheckContext(w) PROVE ScanTypes'
  <2>1. PICK B : /\ \E s \in {"gone", "take"} : wspc' = [wspc EXCEPT ![w] = s]
                 /\ found' = [found EXCEPT ![w] = B] /\ IsABag(B)
    <3>1. CASE cancelled
      BY <1>7, <3>1, EmptyBagIs DEF CheckContext, ScanTypes
    <3>2. CASE ~cancelled
      BY <1>7, <3>2 DEF CheckContext, ScanTypes
    <3> QED
      BY <3>1, <3>2
  <2> QED
    BY <1>7, <2>1 DEF CheckContext, ScanTypes
<1>8. ASSUME NEW w \in Scanners, GetNextRange(w) PROVE ScanTypes'
  <2>1. CASE index < Len(ranges)
    <3>1. ranges[index + 1] \in Calls
      BY <2>1 DEF ScanTypes
    <3> QED
      BY <1>8, <2>1, <3>1 DEF GetNextRange, ScanTypes
  <2>2. CASE ~(index < Len(ranges))
    BY <1>8, <2>2 DEF GetNextRange, ScanTypes
  <2> QED
    BY <2>1, <2>2
<1>9. ASSUME NEW w \in Scanners, ScanPiece(w) \/ ScanFail(w) \/ ScanShort(w) PROVE ScanTypes'
  <2>1. PICK B : /\ \E s \in {"failed", "check"} : wspc' = [wspc EXCEPT ![w] = s]
                 /\ found' = [found EXCEPT ![w] = B] /\ IsABag(B)
    <3>1. CASE found' = [found EXCEPT ![w] = EmptyBag] /\ wspc' = [wspc EXCEPT ![w] = "failed"]
      BY <3>1, EmptyBagIs
    <3>2. CASE /\ found' = [found EXCEPT ![w] =
                     @ (+) DBComputeComputeIndex(piece[w].start, piece[w].end)]
               /\ wspc' = [wspc EXCEPT ![w] = "check"]
      <4> DEFINE B == found[w] (+) DBComputeComputeIndex(piece[w].start, piece[w].end)
      <4>1. IsABag(B)
        BY SetToBagIs, BagSum DEF ScanTypes, DBComputeComputeIndex
      <4>2. found' = [found EXCEPT ![w] = B]
        BY <3>2
      <4> QED
        BY <3>2, <4>1, <4>2
    <3>3. CASE ScanShort(w)
      <4>1. PICK g, m : found' = [found EXCEPT ![w] =
                            @ (+) ShortComputeScan(piece[w].start, piece[w].end, g, m)]
        BY <3>3 DEF ScanShort
      <4> DEFINE B == found[w] (+) ShortComputeScan(piece[w].start, piece[w].end, g, m)
      <4>2. IsABag(B)
        BY SetToBagIs, BagSum DEF ScanTypes, ShortComputeScan
      <4>3. found' = [found EXCEPT ![w] = B] /\ wspc' = [wspc EXCEPT ![w] = "check"]
        BY <3>3, <4>1 DEF ScanShort
      <4> QED
        BY <4>2, <4>3
    <3> QED
      BY <1>9, <3>1, <3>2, <3>3 DEF ScanPiece, ScanFail
  <2>2. progress' \in Nat /\ piece' = [piece EXCEPT ![w] = NoPiece]
        /\ UNCHANGED <<scan, spc, ranges, current, index, allFoundOutputs, cancelled, visibleAtCall>>
    BY <1>9 DEF ScanPiece, ScanFail, ScanShort, ScanTypes
  <2>3. unread' \subseteq Heights
    <3>1. CASE ScanShort(w)
      <4>1. PICK g \in (piece[w].start .. piece[w].end) : unread' = unread \cup (g .. piece[w].end)
        BY <3>1 DEF ScanShort
      <4>2. piece[w].start \in 0 .. MaxUint32 /\ piece[w].end \in 0 .. MaxUint32
        BY ScanConstants DEF ScanTypes, Calls
      <4>3. (g .. piece[w].end) \subseteq Heights
        BY <4>2, ScanConstants
      <4> QED
        BY <4>1, <4>3 DEF ScanTypes
    <3> QED
      BY <1>9, <3>1 DEF ScanPiece, ScanFail, ScanTypes
  <2> QED
    BY <2>1, <2>2, <2>3, <1>p DEF ScanTypes
<1>10. ASSUME NEW w \in Scanners, SendResults(w) PROVE ScanTypes'
  <2>1. IsABag(allFoundOutputs') /\ IsABag(EmptyBag)
    BY <1>10, BagSum, EmptyBagIs DEF SendResults, ScanTypes
  <2> QED
    BY <1>10, <2>1 DEF SendResults, ScanTypes
<1> QED
  BY <1>1, <1>2, <1>3, <1>4, <1>5, <1>6, <1>7, <1>8, <1>9, <1>10
     DEF Next, Caller, Scanner, vars

\* A piece is counted once, after it was taken; unless a scanner failed, every piece that
\* was taken is counted or being scanned.
ProgressInv ==
    /\ progress + Cardinality(Scanning) <= index
    /\ progress + Cardinality(Scanning) <= Len(ranges)
    /\ (\A w \in Scanners : wspc[w] # "failed") =>
           \/ progress + Cardinality(Scanning) >= index
           \/ progress + Cardinality(Scanning) >= Len(ranges)

\* Before the workers start nothing has happened.
QuietInv ==
    spc \in {"idle", "queue"} =>
        /\ index = 0 /\ progress = 0 /\ allFoundOutputs = EmptyBag
        /\ \A w \in Scanners : wspc[w] = "off" /\ found[w] = EmptyBag

LEMMA InitProgressInv == Init => ProgressInv /\ QuietInv
<1> SUFFICES ASSUME Init PROVE ProgressInv /\ QuietInv
  OBVIOUS
<1>1. Scanning = {} /\ progress = 0 /\ index = 0 /\ ranges = <<>>
  BY DEF Init, Scanning
<1> QED
  BY <1>1, FS_EmptySet DEF ProgressInv, QuietInv, Init

LEMMA NextQuietInv == ScanTypes /\ QuietInv /\ [Next]_vars => QuietInv'
<1> SUFFICES ASSUME ScanTypes, QuietInv, [Next]_vars PROVE QuietInv'
  OBVIOUS
<1> USE DEF queueVars, scannerVars, QuietInv
<1>1. ASSUME UNCHANGED scanVars PROVE QuietInv'
  BY <1>1 DEF scanVars
<1>2. ASSUME NEW c \in Scans, CallScan(c) PROVE QuietInv'
  BY <1>2 DEF CallScan
<1>3. ASSUME CutPiece \/ Cancel \/ Spawn \/ ReturnScan PROVE QuietInv'
  BY <1>3 DEF CutPiece, Cancel, Spawn, ReturnScan
<1>4. ASSUME NEW w \in Scanners,
             \/ CheckContext(w) \/ GetNextRange(w) \/ ScanPiece(w) \/ SendResults(w) \/ ScanFail(w)
             \/ ScanShort(w)
      PROVE  QuietInv'
  <2>1. wspc[w] # "off" /\ spc' = spc
    BY <1>4 DEF CheckContext, GetNextRange, ScanPiece, SendResults, ScanFail, ScanShort
  <2> QED
    BY <2>1
<1> QED
  BY <1>1, <1>2, <1>3, <1>4 DEF Next, Caller, Scanner, vars

LEMMA NextProgressInv ==
    ScanTypes /\ QuietInv /\ ProgressInv /\ [Next]_vars => ProgressInv'
<1> SUFFICES ASSUME ScanTypes, QuietInv, ProgressInv, [Next]_vars PROVE ProgressInv'
  OBVIOUS
<1> USE DEF queueVars, scannerVars
<1>c. /\ Cardinality(Scanning) \in Nat /\ Len(ranges) \in Nat /\ progress \in Nat /\ index \in Nat
  BY FiniteScanning DEF ScanTypes
<1> DEFINE Quiet == UNCHANGED <<progress, index, ranges>> /\ Scanning' = Scanning
                    /\ ((\A w \in Scanners : wspc'[w] # "failed") =>
                            \A w \in Scanners : wspc[w] # "failed")
<1>q. Quiet => ProgressInv'
  BY DEF ProgressInv
<1>1. ASSUME UNCHANGED scanVars PROVE Quiet
  BY <1>1 DEF scanVars, Scanning
<1>2. ASSUME (\E c \in Scans : CallScan(c)) \/ Cancel \/ ReturnScan PROVE Quiet
  BY <1>2 DEF CallScan, Cancel, ReturnScan, Scanning
<1>3. ASSUME CutPiece PROVE ProgressInv'
  <2>1. UNCHANGED <<progress, index>> /\ Scanning' = Scanning /\ Len(ranges') = Len(ranges) + 1
        /\ index = 0 /\ progress = 0
    BY <1>3 DEF CutPiece, Scanning, ScanTypes, QuietInv
  <2> QED
    BY <2>1, <1>c DEF ProgressInv
<1>4. ASSUME Spawn PROVE ProgressInv'
  <2>1. UNCHANGED <<progress, index, ranges>> /\ Scanning' = {} /\ index = 0 /\ progress = 0
    BY <1>4 DEF Spawn, Scanning, QuietInv
  <2> QED
    BY <2>1, <1>c, FS_EmptySet DEF ProgressInv
<1>5. ASSUME NEW w \in Scanners, CheckContext(w) \/ SendResults(w) PROVE Quiet
  BY <1>5 DEF CheckContext, SendResults, ScanTypes, Scanning
<1>6. ASSUME NEW w \in Scanners, GetNextRange(w) PROVE ProgressInv'
  <2>1. index' = index + 1 /\ UNCHANGED <<progress, ranges>>
    BY <1>6 DEF GetNextRange
  <2>2. CASE index < Len(ranges)
    <3>1. Scanning' = Scanning \cup {w} /\ w \notin Scanning
      BY <1>6, <2>2 DEF GetNextRange, ScanTypes, Scanning
    <3>2. Cardinality(Scanning') = Cardinality(Scanning) + 1
      BY <3>1, FiniteScanning, FS_AddElement
    <3>3. (\A v \in Scanners : wspc'[v] # "failed") => \A v \in Scanners : wspc[v] # "failed"
      BY <1>6 DEF GetNextRange, ScanTypes
    <3> QED
      BY <2>1, <2>2, <3>2, <3>3, <1>c DEF ProgressInv
  <2>3. CASE ~(index < Len(ranges))
    <3>1. Scanning' = Scanning
      BY <1>6, <2>3 DEF GetNextRange, ScanTypes, Scanning
    <3>2. (\A v \in Scanners : wspc'[v] # "failed") => \A v \in Scanners : wspc[v] # "failed"
      BY <1>6 DEF GetNextRange, ScanTypes
    <3> QED
      BY <2>1, <2>3, <3>1, <3>2, <1>c DEF ProgressInv
  <2> QED
    BY <2>2, <2>3
<1>7. ASSUME NEW w \in Scanners, ScanPiece(w) \/ ScanFail(w) \/ ScanShort(w) PROVE ProgressInv'
  <2>1. Scanning' = Scanning \ {w} /\ w \in Scanning /\ UNCHANGED <<index, ranges>>
    BY <1>7 DEF ScanPiece, ScanFail, ScanShort, ScanTypes, Scanning
  <2>2. Cardinality(Scanning') = Cardinality(Scanning) - 1
    BY <2>1, FiniteScanning, FS_RemoveElement
  <2>3. CASE wspc' = [wspc EXCEPT ![w] = "failed"] /\ progress' = progress
    <3>1. wspc'[w] = "failed"
      BY <2>3 DEF ScanTypes
    <3> QED
      BY <2>1, <2>2, <2>3, <3>1, <1>c DEF ProgressInv
  <2>4. CASE wspc' = [wspc EXCEPT ![w] = "check"] /\ progress' = progress + 1
    <3>1. (\A v \in Scanners : wspc'[v] # "failed") => \A v \in Scanners : wspc[v] # "failed"
      BY <2>1, <2>4 DEF ScanTypes, Scanning
    <3> QED
      BY <2>1, <2>2, <2>4, <3>1, <1>c DEF ProgressInv
  <2> QED
    BY <1>7, <2>3, <2>4 DEF ScanPiece, ScanFail, ScanShort
<1> HIDE DEF Quiet
<1> QED
  BY <1>q, <1>1, <1>2, <1>3, <1>4, <1>5, <1>6, <1>7 DEF Next, Caller, Scanner, vars

\* The variables of rebuild and scan keep their types; in particular the progress never
\* exceeds the number of pieces, however many workers take them at once.
THEOREM TypeCorrect == Spec => []TypeOK
<1> DEFINE TInv == ScanTypes /\ QuietInv /\ ProgressInv
<1>1. Init => TInv
  BY InitScanTypes, InitProgressInv
<1>2. RebuildInv /\ TInv /\ [Next]_vars => TInv'
  BY NextScanTypes, NextQuietInv, NextProgressInv DEF RebuildInv
<1>3. RebuildInv /\ TInv => TypeOK
  <2> SUFFICES ASSUME RebuildInv, TInv PROVE TypeOK
    OBVIOUS
  <2>1. progress \in 0 .. Len(ranges)
    <3>1. progress \in Nat /\ Len(ranges) \in Nat /\ Cardinality(Scanning) \in Nat
      BY FiniteScanning DEF ScanTypes
    <3> QED
      BY <3>1 DEF ProgressInv
  <2> QED
    BY <2>1 DEF RebuildInv, ScanTypes, TypeOK
<1> HIDE DEF TInv
<1> QED
  BY <1>1, <1>2, <1>3, RebuildCorrect, PTL DEF Spec
=============================================================================

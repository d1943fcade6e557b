--------------------------- MODULE ComputeRebuild ---------------------------
(***************************************************************************)
(* BuildComputeIndexByRange (dbpebble/compute_index.go): one goroutine     *)
(* sends the heights of a range to heightChan, a pool of workers builds    *)
(* the rows of each height and adds them to the store's batch, and the     *)
(* caller waits for the pool and looks whether anyone reported an error.   *)
(*                                                                         *)
(* The rows of a height are written as one, so a height stands for them.   *)
(* A height without a block is not an error: GetBlockHashByHeight answers  *)
(* nil, and nil is the hash of no transaction.  What BuildComputeIndex-    *)
(* ForHeight computes is in KeyIndex, the inside of commitBatch in Store.  *)
(***************************************************************************)
EXTENDS Integers, Sequences, FiniteSets

CONSTANTS
    Workers,    \* config.MaxParallelTweakComputations goroutines
    HeightCap,  \* capacity of heightChan (100)
    BatchSize,  \* rows of that many heights trigger a commit (200)
    MaxUint32,  \* the largest height
    Rebuilds,   \* the calls: [start, end]
    MaxSends    \* bound on the heights the producer sends

Heights == 0 .. MaxUint32
Calls == [start : Heights, end : Heights]

ASSUME RebuildAssumption ==
    /\ IsFiniteSet(Workers) /\ Workers # {} /\ MaxUint32 \in Nat
    /\ HeightCap \in Nat \ {0} /\ BatchSize \in Nat \ {0} /\ MaxSends \in Nat
    /\ Rebuilds \subseteq Calls
    /\ \A c \in Rebuilds : c.end < MaxUint32 => c.end - c.start < MaxSends

VARIABLES
    rebuild,       \* the arguments of the call
    sent,          \* how many heights the producer has sent
    closed,        \* the producer has closed heightChan and ended
    heightChan,    \* the heights in the channel
    wpc, wheight,  \* a worker: recv, build, finish, commit; done, failed
    ret,           \* running; nil, error
    batch, batchCounter,  \* the store's active batch and its counter
    inflight,      \* rotated batches on their way to the DB
    visible        \* heights whose rows are in the DB

producerVars == <<sent, closed>>
workerVars == <<wpc, wheight>>
storeVars == <<batch, batchCounter, inflight, visible>>
rebuildVars == <<rebuild, producerVars, heightChan, workerVars, ret, storeVars>>

Failed == {w \in Workers : wpc[w] = "failed"}

\* The loop variable of the producer, a uint32.
ProducerHeight == (rebuild.start + sent) % (MaxUint32 + 1)

\* The index is empty, or was written by the indexer.
RebuildInit ==
    /\ rebuild \in Rebuilds
    /\ sent = 0 /\ closed = FALSE /\ heightChan = <<>>
    /\ wpc = [w \in Workers |-> "recv"] /\ wheight = [w \in Workers |-> 0]
    /\ ret = "running"
    /\ batch = {} /\ batchCounter = 0 /\ inflight = {} /\ visible \in {{}, Heights}

----------------------------------------------------------------------------
\* Faulty variants of the steps below: the bugs the properties must tell apart.
WorkerEndsOnError(w) ==   \* a worker gives up once another one has failed
    /\ wpc[w] = "recv" /\ (Failed # {} \/ (heightChan = <<>> /\ closed))
    /\ wpc' = [wpc EXCEPT ![w] = "done"]
    /\ UNCHANGED <<rebuild, producerVars, heightChan, wheight, ret, storeVars>>
FinishExact(w) ==         \* commits when the counter is exactly the batch size
    /\ wpc[w] = "finish"
    /\ batch' = batch \cup {wheight[w]} /\ batchCounter' = batchCounter + 1
    /\ wpc' = [wpc EXCEPT ![w] = IF batchCounter + 1 = BatchSize THEN "commit" ELSE "recv"]
    /\ wheight' = [wheight EXCEPT ![w] = 0]
    /\ UNCHANGED <<rebuild, producerVars, heightChan, ret, inflight, visible>>
ReturnEarly ==            \* the caller waits for one worker only
    /\ ret = "running" /\ \E w \in Workers : wpc[w] \in {"done", "failed"}
    /\ ret' = IF Failed = {} THEN "nil" ELSE "error"
    /\ UNCHANGED <<rebuild, producerVars, heightChan, workerVars, storeVars>>

ReturnWithoutDefer ==     \* wg.Done is not deferred, and an error returns before it
    /\ ret = "running" /\ \A w \in Workers : wpc[w] = "done"
    /\ ret' = IF Failed = {} THEN "nil" ELSE "error"
    /\ UNCHANGED <<rebuild, producerVars, heightChan, workerVars, storeVars>>

----------------------------------------------------------------------------
\* The producer: height <= endHeight in uint32, so a range up to the largest height
\* starts again at 0.
Produce ==
    /\ ~closed /\ ProducerHeight <= rebuild.end
    /\ Len(heightChan) < HeightCap /\ sent < MaxSends
    /\ heightChan' = Append(heightChan, ProducerHeight)
    /\ sent' = sent + 1
    /\ UNCHANGED <<rebuild, closed, workerVars, ret, storeVars>>

CloseChan ==
    /\ ~closed /\ ProducerHeight > rebuild.end
    /\ closed' = TRUE
    /\ UNCHANGED <<rebuild, sent, heightChan, workerVars, ret, storeVars>>

WorkerRecv(w) ==
    /\ wpc[w] = "recv" /\ heightChan # <<>>
    /\ wheight' = [wheight EXCEPT ![w] = Head(heightChan)]
    /\ heightChan' = Tail(heightChan)
    /\ wpc' = [wpc EXCEPT ![w] = "build"]
    /\ UNCHANGED <<rebuild, producerVars, ret, storeVars>>

WorkerEnd(w) ==
    /\ wpc[w] = "recv" /\ heightChan = <<>> /\ closed
    /\ wpc' = [wpc EXCEPT ![w] = "done"]
    /\ UNCHANGED <<rebuild, producerVars, heightChan, wheight, ret, storeVars>>

\* BuildComputeIndexForHeight only reads.
Build(w) ==
    /\ wpc[w] = "build"
    /\ wpc' = [wpc EXCEPT ![w] = "finish"]
    /\ UNCHANGED <<rebuild, producerVars, heightChan, wheight, ret, storeVars>>

\* FinishComputeIndex: attach, count and decide under the lock, ...
Finish(w) ==
    /\ wpc[w] = "finish"
    /\ batch' = batch \cup {wheight[w]} /\ batchCounter' = batchCounter + 1
    /\ wpc' = [wpc EXCEPT ![w] = IF batchCounter + 1 >= BatchSize THEN "commit" ELSE "recv"]
    /\ wheight' = [wheight EXCEPT ![w] = 0]
    /\ UNCHANGED <<rebuild, producerVars, heightChan, ret, inflight, visible>>

\* ... rotate afterwards, whatever the batch holds by then.
Commit(w) ==
    /\ wpc[w] = "commit"
    /\ inflight' = inflight \cup ({batch} \ {{}})
    /\ batch' = {} /\ batchCounter' = 0
    /\ wpc' = [wpc EXCEPT ![w] = "recv"]
    /\ UNCHANGED <<rebuild, producerVars, heightChan, wheight, ret, visible>>

\* An error of a read or of the batch: errChan has room for one per worker.
Fail(w) ==
    /\ wpc[w] \in {"build", "finish"}
    /\ wpc' = [wpc EXCEPT ![w] = "failed"] /\ wheight' = [wheight EXCEPT ![w] = 0]
    /\ UNCHANGED <<rebuild, producerVars, heightChan, ret, storeVars>>

\* wg.Wait, then the select on errChan.  The batch is not flushed.
Return ==
    /\ ret = "running" /\ \A w \in Workers : wpc[w] \in {"done", "failed"}
    /\ ret' = IF Failed = {} THEN "nil" ELSE "error"
    /\ UNCHANGED <<rebuild, producerVars, heightChan, workerVars, storeVars>>

\* A background commit of the store.
Background ==
    /\ \E b \in inflight : inflight' = inflight \ {b} /\ visible' = visible \cup b
    /\ UNCHANGED <<rebuild, producerVars, heightChan, workerVars, ret, batch, batchCounter>>

Producer == Produce \/ CloseChan
Worker(w) == WorkerRecv(w) \/ WorkerEnd(w) \/ Build(w) \/ Finish(w) \/ Commit(w)

RebuildNext == Producer \/ (\E w \in Workers : Worker(w) \/ Fail(w)) \/ Return \/ Background

----------------------------------------------------------------------------
RebuildTypeOK ==
    /\ rebuild \in Rebuilds /\ sent \in 0 .. MaxSends /\ closed \in BOOLEAN
    /\ heightChan \in Seq(Heights) /\ Len(heightChan) <= HeightCap
    /\ wpc \in [Workers -> {"recv", "build", "finish", "commit", "done", "failed"}]
    /\ wheight \in [Workers -> Heights] /\ ret \in {"running", "nil", "error"}
    /\ batch \subseteq Heights /\ batchCounter \in Nat
    /\ inflight \subseteq SUBSET Heights /\ visible \subseteq Heights

\* BuildComputeIndexByRange returns nil only if the rows of every height of the range
\* have been handed to the store, and what it leaves in the batch, for the next commit,
\* is less than a full one, although workers decide and rotate at different times.
NilMeansRebuilt == ret = "nil" =>
    /\ rebuild.start .. rebuild.end \subseteq batch \cup (UNION inflight) \cup visible
    /\ batchCounter < BatchSize

\* The batch outgrows its size by at most one height per further worker.
RebuildBatchBound ==
    Cardinality(batch) <= batchCounter /\ batchCounter < BatchSize + Cardinality(Workers)

\* BuildComputeIndexByRange returns, whoever fails, unless its range ends at the largest
\* height.
RebuildReturns == rebuild.end < MaxUint32 => <>(ret # "running")

\* The producer ends with the call unless every worker has failed: then nobody receives
\* and the goroutine stays.
ProducerEnds == rebuild.end < MaxUint32 => <>(closed \/ Failed = Workers)
=============================================================================

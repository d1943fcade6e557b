----------------------------- MODULE BatchStore -----------------------------
(***************************************************************************)
(* The store as its one writing goroutine sees it: ApplyBlock puts a block *)
(* into the active batch and hands a full batch to a background commit,    *)
(* FlushBatch(true) commits the active batch at once, and only committed   *)
(* blocks are visible to reads.  The steps inside these calls and their    *)
(* races are the subject of module Store.                                  *)
(*                                                                         *)
(* Operators on a record: heights and hashes are the chain index in the DB *)
(* (CIHeight and CIBlock), batch and counter the fields of the Store, and  *)
(* pending the batches on their way to the DB.                             *)
(***************************************************************************)
EXTENDS Integers, Sequences, SequencesExt

CONSTANTS
    HeightOf,    \* height of a block
    BatchSize    \* Store.batchSize (200)

\* A batch is applied in order: of two blocks of a height the later one stays.
Overwrite(heights, blocks) ==
    LET Hits(h) == {i \in DOMAIN blocks : HeightOf[blocks[i]] = h}
    IN  [h \in DOMAIN heights |-> IF Hits(h) = {} THEN heights[h]
                                  ELSE blocks[Max(Hits(h))]]

\* Commit of a batch: both chain-index keys of its blocks.
CommitBlocks(s, blocks) ==
    [s EXCEPT !.heights = Overwrite(@, blocks), !.hashes = @ \cup ToSet(blocks)]

\* Faulty variant of FlushBatch: a bug the properties must tell apart.
FlushBatchOverfull(s) ==  \* flushes only what ApplyBlock would rotate
    IF s.counter <= BatchSize THEN s
    ELSE [CommitBlocks(s, s.batch) EXCEPT !.batch = <<>>, !.counter = 0]

\* collectAndWrite: the block that exceeds the size is counted with the old batch and
\* attached to the new one.
ApplyBlock(s, b) ==
    IF s.counter + 1 > BatchSize
    THEN [s EXCEPT !.pending = Append(@, s.batch), !.batch = <<b>>, !.counter = 0]
    ELSE [s EXCEPT !.batch = Append(@, b), !.counter = @ + 1]

\* FlushBatch(true): nothing if the counter is 0; it waits for no pending commit.
FlushBatch(s) ==
    IF s.counter = 0 THEN s
    ELSE [CommitBlocks(s, s.batch) EXCEPT !.batch = <<>>, !.counter = 0]

\* A background goroutine commits its batch; the goroutines are not ordered.
CommitPending(s, i) ==
    [CommitBlocks(s, s.pending[i]) EXCEPT !.pending = RemoveAt(@, i)]
=============================================================================

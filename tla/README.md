# A verification project for blindbit-oracle

TLA+ modules that model the indexer, the store and the servers of blindbit-oracle, TLC
configurations that check them on small instances, and TLAPS proofs of the results that hold for
every instance. Every definition is written from the Go source; `PROJECT.json` gives the lines
each one stands for.

## 1. The system

blindbit-oracle follows a Bitcoin node over its REST interface, computes the BIP352 tweak
of every transaction with taproot outputs, stores the result in a Pebble key-value store
and serves it over HTTP and gRPC.

| component | state | operations | talks to |
|---|---|---|---|
| store, write path (`dbpebble/store.go`) | active batch, its counter, pending commits (atomic counter and wait group), closed flag | `ApplyBlock`, `FlushBatch`, `Close`, background commits | Pebble |
| store, read path (`dbpebble/read.go`, `compute_index.go`) | none of its own | chain tip, hash by height, tweaks, outputs, spends, compute index | Pebble, without snapshots |
| sync pipeline (`indexer/builder.go` `SyncBlocks`, `indexer/pull.go`) | two channels (fields of the Builder), semaphore, wait groups, error and done channels | one goroutine per height, handlers, one writer | node, store |
| chain follower (`ContinuousSync`, `SingleBlockPullAndHandle`) | `writerChan`, the recursion's height | tick, pull, check of the previous hash | node, store |
| integrity check (`indexer/cleanup.go`) | the open gap and the finished ones | scan of the height index, `SyncBlocks` per gap | store, sync pipeline |
| REST client (`indexer/rest.go`) | a shared HTTP client with a timeout | four GETs; a bad status is Fatal | node |
| tweak computation (`indexer/compute.go`, `pubkeyextract.go`, `spentoutputs.go`) | none | pure functions of a transaction | libraries |
| parallel compute-index scan (`dbpebble/compute.go`) | shared index into a list of pieces, results and errors of the workers | cut the range, take a piece, scan it, collect | Pebble, the batches of a rebuild |
| parallel rebuild of the compute index (`dbpebble/compute_index.go`) | a height channel, an error channel | producer, workers, `FinishComputeIndex` | store |
| servers (`server`, `server/v2`) | none | one request is a sequence of reads | store |
| commands (`cmd/blindbit-oracle`) | context, interrupt channel | `run`, `sync`, `server-only` | all of the above |

What is hard here: the store is entered by several goroutines and commits in the
background without syncing; the pipeline has up to six kinds of goroutines and a select
that may find several things ready; the node reorganises while blocks are being written
tip first; the process ends at any point (kill, Fatal on a bad status, interrupt) and the
next one has only the DB to go by; the two parallel jobs over the compute index share a queue
whose counters are 32 bits wide. The properties that make each part correct are those
of section 4; `PROJECT.json` lists the hazards, each with its line and the properties that
watch it.

## 2. Modules

| module | models | composition |
|---|---|---|
| `WriteBehind` | what the store promises: blocks are held, then published once, batch by batch | abstract specification |
| `Store` | `store.go` | implements `WriteBehind` (batch and rotated batches are held, the log is published) |
| `StoreProofs` | | theorems about `Store` |
| `SyncBlocks` | `SyncBlocks`, `pullBlock`, `PullBlockData` | stands alone |
| `SyncBlocksProofs` | | theorems about `SyncBlocks` |
| `GapScan` | `identifyGapRanges` | used by `ChainFollower` |
| `BatchStore` | `ApplyBlock`, `FlushBatch` and the background commits as one writing goroutine sees them | used by `ChainFollower` |
| `GapScanProofs` | | theorem about `GapScan` |
| `ChainFollower` | the `run` and `sync` commands: `DBIntegrityCheck`, `InitialSyncToTip` or a range, `ContinuousSync`, `SingleBlockPullAndHandle` | extends `GapScan` and `BatchStore`; uses `SyncBlocks` by its contract |
| `ChainFollowerProofs`, `ReorgProofs` | | theorems about `ChainFollower`; the second, about reorganisations, extends the first |
| `Transactions` | `handleTx`, `extractPubKeys`, whether `ComputeTweakPerTx` gives a tweak | operators |
| `KeyIndex` | `attachBlockToBatch`, `read.go`, `compute_index.go` | extends `Transactions` |
| `Server` | `handler.go`, `range.go`, `v2/service.go` | extends `KeyIndex` |
| `ServerProofs` | | theorems about `KeyIndex` and `Server` |
| `ComputeRebuild` | `BuildComputeIndexByRange`, `FinishComputeIndex` | stands alone; rows and commits by their contracts (`KeyIndex`, `Store`) |
| `WorkStealing` | `dbpebble/compute.go` | extends `ComputeRebuild`: the scan follows a rebuild |
| `WorkStealingProofs`, `ScanProofs` | | theorems about `ComputeRebuild` and the types of `WorkStealing`; about the result of the scan |
| `MCStore`, `MCChainFollower`, `MCServer`, `MCWorkStealing` | | instances for TLC |

**Store.** One action is one atomic section: what runs under `batchSync`, one atomic load
or add, one `Commit`. `batch`, `batchCounter`, `pendingCommits`, `waitGroup` and `closed`
are the fields of `Store`; `pc`, `op`, `arg` and `old` are a caller's position in
`collectAndWrite`, `commitBatch` or `Close` and its locals; `jobPc` and `jobBatch` are the
background goroutines. `log` is Pebble's write-ahead log in commit order. An element of
`Blocks` is one application of a block, so that applying a block a second time is another
element. `Close` is deferred by the commands, so the goroutine that has closed the store
makes no further call. `Restart` is the end of the process by any cause: it loses memory
and, unless the DB was closed, any suffix of the `NoSync` log. A commit on a closed DB is
Pebble's panic (`CommitOnClosedDB`). A commit error is a panic in the code
(`logging.L.Panic`) and so is covered by `Restart`. The commands apply blocks in a writer
goroutine and close the store from the main one, which for `sync`, too, happens while the
writer goes on: `SyncBlocks` returns the error of a pull at once. The history variable
`overtaken` records that `Close` raised its flag over a call that was past its check. What a
block writes is in `KeyIndex`.

**SyncBlocks.** A block is its height. Every goroutine has a control state; a goroutine
that sends on the unbuffered `errChan` is parked in `"err"` until the caller's select
takes it, which happens at most once. The semaphore and the wait group are not variables:
`InSemaphore` and `Outstanding` compute them from the pulls, which makes visible that a
failed pull never calls `wg.Done`. A bad status anywhere is `BadStatus`, the end of the
process.

**GapScan.** One step is one iteration of the loop; the two fields of `HeightRange` are
kept, with 0 as the "not set" value of `End`.

**BatchStore.** Operators on a record. A batch is a sequence of blocks, applied in order.
`ApplyBlock` keeps the code's order: count, compare, rotate (which sets the counter to 0),
attach; so a batch that has just been rotated holds one block and counts none. `FlushBatch`
goes by the counter and does not wait for older batches, which `CommitPending` commits in any
order.

**ChainFollower.** The node has a tree of blocks (`Parent`, `HeightOf`) and moves to longer
branches only. `heightIndex` is CIHeight, `blockIndex` the keys of CIBlock, whose entries are
never deleted. A process runs one command line (`cmd`): `run` or `sync`, with or without the
integrity check, `sync` also with an explicit range and with a second check at its end. `phase` is
the position in the command, `todo` the heights `SyncBlocks` has still to apply, `pending` the
background commits, which go on beside everything else. `SingleBlockPullAndHandle` is a loop over
`pc`, `at` and `held` (the recursion is in tail position); pull and handle are one step, as are
the two reads of a tick: a stale tip only makes the tick pull a block it already has. A fetch that
fails inside `PullBlockData` never returns (the finding of `fetch_error_returned`): `SyncHangs`
and `PullHangs` put its height into `hung`, and neither `SyncBlocks` nor the walk goes on until
the process ends. A process ends in one of three ways: `sync` is done, an error or an interrupt
leads to `Close` (`Interrupt`, `Closed`: pending commits are waited for, the active batch is
dropped), or it is killed (`Kill`: a kill, Fatal, a panic). Commits are `NoSync`, so a kill leaves
a prefix of them: `LastSynced` fixes which one, at a moment before. The history variable `exposed`
records the events after which the code does not promise a linked chain: `"stopped"` (the process
ended while not caught up), `"offline"` (a reorganisation outside continuous sync), `"returned"`
(the node went back to a branch of which the indexer has blocks), `"skipped"` (`--skip-precheck`),
`"overtaken"` (a block was written while an older one of its height was still on its way). `asked`
is what a `sync` command has to index.

**Transactions.** Pure operators. A transaction is its txid, a number, because the reads
depend on the order of txids. A script is its kind and a witness the kinds of its elements:
what decides whether an input gives a key. A tweak is a function of its transaction, so
only its existence is kept; `BadSum` are the transactions whose keys cannot be added.

**KeyIndex.** One variable is one key family of `prefixes.go` (`KTxOccur`, which nothing reads, is
left out); a value that its key determines is not stored a second time. The parts of
`attachBlockToBatch` are the `Attach...` actions, and `ApplyBlock` is their conjunction: a block
appears at once, because a batch is committed at once (`Store`), and blocks appear in any order
and repeatedly, because the pipeline writes them as they arrive and a reorganisation is written
tip first (`SyncBlocks`, `ChainFollower`). `NodeAdvance` is the node, which moves to higher
branches only. The reads are operators on this state. A list is the set of its rows, which begin
with the position in the block (or the height, the vout, the number of the input): the code, too,
keys the transactions of a block by position and puts what it finds into a slot per position.
`Visited` is the loop over one iterator seeked in txid order, with its `break`. `Dusts` are the
dust limits that are asked for. An iterator that fails ends its loop, and some reads never ask
`it.Error` and return what they have: `ShortComputeIndex` and `ShortTxidOutpoints` are these
results for the two that requests use (rows up to some key). `BlockTxids`, `fetchOutputs` and
`TweaksForBlockAll` report the error. The other reads that do not (`OutputsForTx`, `IsSpentAt`,
`FirstBlock`, `KeyExistsComputeIndex`, and `TweaksForBlock`, which leaves out a tweak it cannot
load) are reached by no request; for them, and in the indexer, the properties are about reads that
succeed. The reference definitions (`RefTweaks`, `RefCutThrough`...) use neither the keys nor
`handleTx`. The iterators over the height index end below the largest height, whose key is their
exclusive bound.

**Server.** One request is served while the indexer writes. `api` is `"block"` for the handlers of
one height, `"range"` for `/range/*` and `"stream"` for the gRPC streams; each DB call of a
handler is a step, so writes fall between the hash of a height and the data under it. `"tip"` is
the info and the best height. Heights of the loops are uint64 and are looked up as uint32; after
the first `MaxEntries` entries a response is no longer recorded. The definitions named after
handlers give the reads each makes. `Fail` is a reported error of the DB or of the connection at
any step; `ReadShort` and `ReadTipShort` are errors of the DB that the read does not report, and
`cut` are the reads of an entry that ended so. `GetChainTip`, whose result `FetchOutputsAll`
ignores, is there only by its error. Several requests share nothing but the DB, which they only
read, so one is enough.

**ComputeRebuild.** A height stands for its rows, which are written as one. `sent` gives the
producer's uint32 height; workers receive, build (reads only), attach and decide under the
lock, and rotate afterwards. A height without a block gives no rows and no error, as in the
code. The background commits are `Background`; the limit on them is in `Store`.

**WorkStealing.** The queue is cut piece by piece, because its loop can wrap. A worker checks its
context, takes a piece by one atomic addition, scans it over one state of the DB and sends what it
found when nothing is left; `"gone"` is a worker that saw the cancelled context and reports
nothing. `ScanFail` is an error that `DBComputeComputeIndex` returns, `ScanShort` an iterator that
fails at a row, which it does not: the piece counts as processed, and `unread` records the heights
behind the row. Outputs of a row are numbers, k for the key P_k of the receiver. Results are bags,
because their order depends on the schedule. The scan begins after a rebuild that returned nil, so
the last commits of the rebuild may still be on their way. Neither procedure has a caller in the
repository; they are exported parts of the store.

## 3. Bounds and fairness

| run | instance | why it is enough |
|---|---|---|
| `store_shared` | 2 appliers, one of which closes, 3 background goroutines, 5 blocks, batch size 1, limit 1, no crash | every rotation race needs two callers; with limit 1 the wait happens; five blocks fill a batch beyond its size after a first rotation; both callers pass the check of the limit before either adds, so that the bound of `PendingBound`, 2, is reached |
| `store_sync` | a writer that applies, a main goroutine that flushes and closes, 2 background goroutines, 3 blocks, batch size 1, 1 crash | the use both commands make of the store; a flush overtakes a background commit, so that a crash can lose the older of two batches; small enough for the liveness properties |
| `close_flushes` | the smallest instance with the counterexample | |
| `sync_blocks` | heights 1..3, 2 requests, 2 handlers, channels of 1 | one height more than slots and than handlers, so semaphore and both channels block |
| `fetch_error_returned` | one height | |
| `chain_follower` | 8 blocks, heights 0..4, two branches above height 1, start height 1, channel of 2, batch size 1, five command lines, 1 end of a process | reorganisations of depth 1 or 2; with batch size 1 every second block rotates a batch, so background commits overlap with flushes, with the second check and with continuous sync; a second process repairs what the first has left |
| `follows_reorgs` | the same tree, start height 0, `run` only, no end | |
| `index_server` | 4 blocks with a fork at height 2, 9 transactions, `MaxUint32` = 5, `MaxUint64` = 11, `MaxRangeBlocks` = 4, `MaxEntries` = 3, 15 requests of which one is served, dust limits 0 and 5 | outputs created below the fork and spent in one branch, in both and at different heights; a transaction in both branches; a coinbase, a transaction without taproot part, one that only spends, taproot outputs without a tweak; ranges that are empty, too long, partly indexed and at the largest height; streams above the largest uint32 and at the largest uint64, which like 2^64 - 1 has the low bits of the largest uint32; no height 0, so no range has more than three entries; blocks with two rows of the compute index, so that a short read keeps some |
| `spent_on_best_chain`, `dust_limit` | the 4 blocks, no request | |
| `short_read` | as `index_server` | |
| `compute_jobs` | 2 workers and 2 scanners, `MaxUint32` = 4, batch size 2, channel of 1, at most 5 heights sent and 4 pieces | four heights for two workers fill a batch beyond its size and block the producer; a rebuild that is empty, one that wraps; scans with three pieces for two workers, with defaults, of one height, up to the largest height, and one whose loop wraps |

The passing runs set `CHECK_DEADLOCK FALSE` because each system really stops: the store
is closed, SyncBlocks has returned, the follower waits for a node that rests, the one
request is answered, the scan has returned. `MCStore`
uses symmetry over blocks and background goroutines only in `store_shared`, which has no
liveness property (`Implements` is a safety property).

Fairness. `Store`: weak fairness of every goroutine inside a call and of the background
goroutines (the Go scheduler), none of the calls themselves or of crashes. `SyncBlocks`:
weak fairness per goroutine, and of the fetches because `httpClient` has a timeout of 100
seconds; none for cancellation, a bad status or a tick that fails. `ChainFollower`: weak
fairness of the indexer's main goroutine (its ticker fires; a process that has ended is started
again), of the writer and of the background commits; none of the node, of a fetch that fails (which
stops the indexer for good, so that its fairness does not cover a pull that hangs) or of the end
of the process, whose number of ends is bounded. `Server`: weak
fairness of the goroutine that serves the request, none of the node, the indexer or errors.
`WorkStealing`: weak fairness of every goroutine and of the caller, none of errors or of
cancellation.

## 4. What the runs show

*Store.* `OnePlace`: a block is in exactly one of: an unfinished `ApplyBlock`, the batch, one
rotated batch, one commit. `Accounting`: `pendingCommits` and the wait group agree with the
goroutines. `Implements`: refinement of `WriteBehind`. `BatchBound`: the counter trails the batch
by at most one block per caller of `ApplyBlock`, because a block is counted in one critical
section and attached in another, and a rotation in between (its own, for the block that fills a
batch) resets the counter; this is the margin by which `FlushBatch` can leave blocks behind.
`PendingBound`: the limit can be exceeded, and in `store_shared` is, by one per further concurrent
caller. `CloseReturns` and `RotatedIsCommitted`: nothing waits for ever. `PanicOnlyIfOvertaken`:
what can commit to a closed DB is only a call that had passed the closed check before `Close`
raised the flag; `Close` waits for everything that was registered, and nothing starts behind it.
Such calls exist (`CommitOnClosedDB` is reached in both runs): in both commands one goroutine
applies blocks and main closes the store, `run` on an interrupt, `sync` by its defer when
`SyncBlocks` returns an error while its writer goes on. `CloseReturns` and `RotatedIsCommitted`
except that panic and the end of the process.

*SyncBlocks.* `ExactlyOnce`: a pulled block is in the pipeline once until it is applied.
`NilMeansAll` and `NilMeansQuiet`: without cancellation, nil means that every height was
applied and that no goroutine is left to touch the channels the next call replaces.
`NoSendAfterClose`. `Returns`: the call ends whatever happens, unless a fetch inside
`PullBlockData` fails.

*ChainFollower.* `GapsFound`: the scan finds every gap that an ended process has left, and nothing
else unless commits are still on their way. (Its premise leaves out a tip of 0, which is also that
of an empty DB: with start height 0 the scan opens a range at 0 and drops it, as it drops every
range that is open at its end.) `NoGaps`: when continuous sync rests after an integrity check, no
height between start and tip is missing, although blocks are written tip first, flushed out of
order with older batches, lost with a killed process or synced as an explicit range above a gap;
one block may wait in the batch for the next one. `SyncLosesAtMostOne`: a `sync` command that ends
without an error has indexed all it was asked for but at most one block (the block that has caused
the last rotation: the flush goes by a counter that is 0 then, and `Close` drops the batch; with a
batch size of 200 it is missing when 201 divides the number of blocks). `LinkedAfterReorg`:
reorganisations that continuous sync sees and that lead to a new branch are repaired. `CatchesUp`:
once the node rests, so does the indexer, at its tip, unless it has died of a walk below genesis
or a pull hangs on a failed fetch: then it stands still until it is ended from outside.

*KeyIndex and Server.* `IteratorMatchesLookup`: the reads with one iterator return what one lookup
per transaction, or per height, would. `CutThroughBestChain`: asked with the blocks of the height
index, the cut-through is right after any reorganisation and in any order of writing, so the keys
lose nothing. `CutThroughNoReorg`: of the variants that look up the best chain themselves, the
cut-through of tweaks without a dust limit and that of outputs with one return the same as long as
no block has been replaced; the one of tweaks with a dust limit does not (`dust_limit`).
`ComputeIndexSound`: the compute index misses nothing, and what it has too much is of blocks that
were replaced. `EntriesAreBlocks` and `ComputeCovers`: although hash and data are read apart, an
entry never mixes two blocks in what is keyed by hash, and the compute index, keyed by height,
covers every transaction of the block the entry names, because its rows are never removed. Both
hold beside errors of the DB that are not reported: outpoints cut short are still outpoints of the
block, and `ComputeCovers` is about reads that were completed; what the others lose, `short_read`
shows. A stream that asks for a height above the largest uint32 gets the block at its last 32
bits, which no property forbids. The two results belong together: the compute index of a height
keeps the rows of a replaced block, so `/compute-index` lists transactions that the block it names
does not contain; cleaning the height on a reorganisation breaks `ComputeCovers` unless the reads
are made from a snapshot. `RangeComplete`: a range with its closing bracket misses no height
(whatever its entries lack). `RequestEnds`: every request ends, also at the largest height; a
stream up to the largest uint64 does not (the counter of service.go wraps as range.go:90-92
describes it for uint32).

*ComputeRebuild and WorkStealing.* `NilMeansRebuilt`: nil means that the rows of every height were
handed to the store; less than one batch of them waits for a later commit, since nothing is
flushed at the end. `RebuildBatchBound`: the batch exceeds its size by at most one height per
further worker. `RebuildReturns`, `ProducerEnds`: the call returns whoever fails, and leaves the
producer behind only if every worker has failed. `ScanExact`: nil without cancellation comes with
every payment of a range of several heights in rows visible at the call, but for heights behind a
row at which an iterator failed, with none more than once (twice at an inner boundary of the
pieces), and with nothing that is no payment. A cancelled scan may return nil and part of the result. What the
property excepts is not intended: an iterator that fails inside a piece is not reported, and the
call returns nil without the payments behind it; pieces include both ends, so that they are one
height longer than their size and payments at a boundary of two pieces may come twice; for a range
of one height no piece is cut and nothing is found. `ScanReturns`: the scan returns unless
`current + rangeSize` wraps, when it goes on for ever or scans heights again. The same holds for a
rebuild up to the largest height.

Runs that expect a violation, each a disagreement between the code and what it says of
itself (details in `PROJECT.json`, "findings"):

- `close_flushes`: `Close` drops the last batch; it raises the closed flag that its own
  flush obeys.
- `fetch_error_returned`: a failed fetch blocks `PullBlockData`, and with it `SyncBlocks`.
- `follows_reorgs`: when the node returns to a branch it had left, the walk back stops too
  early and the height index mixes two branches.
- `spent_on_best_chain`: a spend in a replaced block still counts as a spend on the best
  chain, so cut-through leaves out a transaction with an unspent output.
- `dust_limit`: `TweaksForBlockCutThroughDustLimit` ignores its dust limit.
- `short_read`: an error of the iterator inside `FetchComputeIndex` ends in a response that is
  closed as complete and lacks a transaction, which range.go and the server's README exclude.

Without a run of their own, but covered by a property that says how far they go: the panic of a
commit that `Close` does not wait for (`PanicOnlyIfOvertaken`), the block a `sync` may lose
(`SyncLosesAtMostOne`), and the exceptions of `ScanExact`. Without a property: a cancelled writer
of `SyncBlocks` closes `doneChan` too, and the caller's select may take that for completion and
return nil (`NilMeansAll` excludes a cancelled context; the commands end then).

## 5. What is proved

Eight modules hold proofs, for every value of the constants that the assumptions of the
modules allow (`StoreAssumption`, `SyncAssumption`, `FollowerAssumption`...: finite sets of
goroutines, positive capacities and sizes, for the follower a tree of blocks). Each theorem
has the form `Spec => []P`, with `P` a property that a run checks on an instance, unless it
is said otherwise. The invariants below were checked with TLC on the instances first.

**`StoreProofs`.**

- `AccountingCorrect`, `TypeCorrect`. `Types` (the type invariant with the counters in
  `Int`) and `Accounting` are inductive together. That no counter is negative follows
  from `Accounting`, since a cardinality is not.
- `OnePlaceCorrect`. `OnePlace` is not inductive: a step that registers a batch must know
  that a free goroutine holds none, and one that rotates that the caller holds none.
  `Owned` says which control points hold a batch or a block; `IInv` is `Types`, `Owned`
  and `OnePlace`.
- `StoreImplementsWriteBehind` (`Spec => Implements`). Under `IInv`, `Attach` is `Accept`,
  the two commits are `Publish` of their batch, `Restart` is `Restart`, and every other step
  stutters.
- `PendingBoundCorrect`. The pending commits plus the callers already admitted past the
  check (`Admitted`) stay within `MaxPending + |Appliers| - 1`. A caller that finds the
  limit reached waits until the wait group is zero, so on its admission only callers
  between `Track` and `Register` are still counted; `ApplierOps` says that those are
  callers of `ApplyBlock`, and `Accounting` counts the goroutines.
- `BatchBoundCorrect`. `SizeInv` adds to the batch the blocks that are counted and not yet
  attached, and allows the counter one block beyond the size for every caller that has
  found the batch full and not rotated it.
- `PanicOnlyIfOvertakenCorrect`, for any number of appliers and closers. The invariant says where
  a commit can be once the flag is up: unless `Close` overtook a call, no caller is past the
  check any more, so the wait group only falls; behind the wait there is no background commit,
  and the flush of `Close` obeys the flag.

**`SyncBlocksProofs`**, for every range (an empty one too), any number of requests, of handlers
and any capacity: `TypeCorrect`, `NoSendAfterCloseCorrect`, `ExactlyOnceCorrect`,
`NilMeansAllCorrect`, `NilMeansQuietCorrect`. The invariant is built in layers. `Holding`: which
control point of a goroutine has a block in its hands. `PullerInv`, `HandlerInv`: the producer
closes the channel when every pull is done, and a handler leaves, unless cancelled, when the
channel is closed and drained; this gives `NoSendAfterClose`. `Apart` and `Kept`: no two places of
the pipeline have the same height, and a pulled height is in one of them unless an error was
returned; this is `ExactlyOnce`. `DoneInv`: the writer that closes `doneChan` has left, and
without error and cancellation it leaves behind closed and drained channels; with the other layers
that is `NilMeansAll` and `NilMeansQuiet`.

**`GapScanProofs`**: `ScanExactCorrect`, for every index, every start and end height. The
invariant says of the part already scanned that a height is missing exactly when a
finished range or the open one covers it, that the open range ends just before the
loop's height, and that finished ranges lie below it.

**`ChainFollowerProofs`**, for every block tree, start height, batch size, capacity of the
channel, set of command lines and number of process ends:

- `TypeCorrect` from `FollowInv`, which has one part per concern: `StoreOK` (a hash is indexed
  with its height, the counter trails the batch by one block at most), `SnapshotOK` (the same of
  what a kill leaves), `CommandInv` (the order of the phases), `WalkInv`, `RangesInv` and
  `LoopInv` (the scan while background commits add blocks).
- `GapsFoundCorrect`. That everything missing is found is `LoopInv`. That nothing else is
  found needs `CheckInv`: nothing is under way when a command starts (`EmptyInv`), so the index
  stands still during its first scan and the invariant of `GapScanProofs` applies.
- `NoGapsCorrect` and `SyncLosesAtMostOneCorrect` from `HaveInv`. `Have` are the heights that are
  in the DB, held by the store or on the way to the writer; no step but an end of the process
  takes one away. `FullInv` says phase by phase that `Have`, together with what is still to be
  fetched, has no gap; during a walk (`WalkGaps`) heights above its limit are there, and below
  the limit the old set is without a gap, which is what an indexed previous hash is worth.
  `AskedInv` does the same for the heights a `sync` command was asked for, and `RestInv` (the
  counter is 0 after a flush) leaves one block for `Close` to drop.

**`ReorgProofs`**: `LinkedAfterReorgCorrect`. First the tree: a chain has one block of a height
(`ChainUnique`), the chain of a block of a chain is its lower part (`ChainWithin`,
`ChainJoins`). Then two invariants on top of those above. `IndexInv` always holds: the height
index has its blocks at their heights and none above the node's best block. `ReorgInv` holds
as long as nothing is in `exposed`. Outside continuous sync (`Offline`) all blocks are on the
node's chain. Inside it a block is *lasting* if it is what the index will have at its height
once all writes are made: the last one of its height in `writerChan`, or else unseen or
indexed; `WalkLinked` says that below a known block of the node's chain all blocks are
lasting, but for those the walk has not reached, and that these too are lasting below a
known block under the limit of the walk. So the walk may stop where the previous hash is known.
`HeldOK` is for a node that leaves the branch in the middle of a walk, and `Single` makes background
commits harmless. Every event of `exposed` is used: without `"returned"` an old hash on the new
branch ends the walk early (`follows_reorgs` shows it), without `"overtaken"` a late commit
replaces a newer block, without `"stopped"`, `"offline"` and `"skipped"` continuous sync
begins with blocks of another branch or with gaps.

**`WorkStealingProofs`**, for any number of workers, batch size and capacity:
`NilMeansRebuiltCorrect` and `RebuildBatchBoundCorrect` of the rebuild, `TypeCorrect` of rebuild
and scan. `RowsInv` says where the rows of each height sent so far are (channel, worker, batch,
commit, DB) and that a worker leaves only behind the closed and empty channel; `BatchInv` bounds
the counter by the workers that have decided to rotate. That `progress` stays within the number of
pieces needs `ProgressInv`: every piece is counted once, after it was taken.

**`ScanProofs`**: `ScanExactCorrect`, for any number of scanners and pieces and any schedule.
`QueueInv` gives the j-th piece in closed form, `PieceInv` says that no two scanners have the same
piece, `WorkerInv` that one that reports has seen the end of the list, `SoundInv` that nothing but
payments is collected. `CountInv` counts the copies of a payment in all results together: one per
finished piece with its height, if the rows were visible at the call and no iterator stopped at or
before the height, and at most that otherwise (`ShortCopies`: a scan that ends early finds no less
than that of the heights before its end). `ScanFindsPayments` is the loop over one row: that its
recursive definition has a solution is shown by giving one in closed form (`ScanFromIs`), and that
the loop finds the payments follows from a least counterexample (`ScanFromFinds`), its measure
being the number of turns that are left (`Stop`).

**`ServerProofs`**, for every chain with its forks, every set of transactions, of dust limits
and of requests, without a hypothesis. Two invariants are about the index (`IndexInv`):
`TableInv` says that every key family is exactly the union of what the applied blocks write, so
order and repetition of writes leave no trace in them; `HeightInv` that the height index names
applied blocks at their heights. From them, for each state of the index:

- `IteratorMatchesLookupCorrect`. A key family holds the transactions of all blocks, and a pass
  stops at the first seek that finds no key at or after its txid. `VisitedKeys`: a row with a
  key is visited, since its own key answers the seeks before it. `TipFacts` and `ChainLookup` are
  about the height index between its bounds, also when it is empty.
- `ComputeIndexSoundCorrect`. The rows of a height come from the blocks applied there
  (`BuiltRows`); those the named block does not have are of a block that is named no more.
- `CutThroughBestChainCorrect` and `CutThroughNoReorgCorrect`. Spends are written for taproot inputs
  only, and the reference counts every input: `SpendFacts` needs that an input that spends a
  taproot output has a taproot script (`TransactionAssumption`). `SpentAtIsChain` and
  `AmountFacts` take the reads to the reference; without a replaced block `ciBlock` is the indexed
  chain.

And with the invariants of a request:

- `TypeCorrect` and `HashInv`: the hash a handler holds was named by the index at its height.
- `RangeCompleteCorrect` from `RangeInv`, what a range has listed so far (its loop does not wrap
  even at the largest 32-bit height).
- `EntriesAreBlocksCorrect` and `ComputeCoversCorrect` from `EntryInv`, which every step keeps for the
  entry under construction and for those sent. `ReadIsBlock`: what is read with the hash of an
  applied block is a constant of the block, whoever wrote the keys. Rows of the compute index are keyed by height and only ever added, so rows once read cover
  the block (`ReadCovers`). Reads that an error cut short are part of the invariant: their outpoints
  are a restriction of the block's, and `ComputeCovers` does not count them.

What the proofs changed in the model: the type invariant of `SyncBlocks` did not allow an
empty range, `GapsFound` did not hold on an empty DB with start height 0, `BatchBound` was
stated for one caller only, the follower needs a command line to start with
(`Commands # {}`), the largest height is not 0, and what the read path lists are sets of rows that begin
with the position in the block, by which the code keys and sorts them, where sequences were
filtered and flattened by recursion.

Every safety invariant of the passing runs, and the refinement, has a theorem, none with a
hypothesis of its own. Only model-checked is liveness:
`CloseReturns`, `RotatedIsCommitted`, `Returns`, `CatchesUp`, `RequestEnds`, `RebuildReturns`,
`ProducerEnds`, `ScanReturns` (fairness and ENABLED are outside the prover).

## 6. Not modelled

Byte formats of keys, values, JSON (`server/types.go`) and protobuf, and the decoding of spent
outputs; logging; configuration and flags (their lower bounds are the assumptions on the
constants); Pebble's internals and its tuning; curve arithmetic, and with it the value of a tweak,
the smallest outpoint that enters it and `MatchLabels`, which is reached only with labels that no
call passes; the unused filters; `internal/types` (an earlier storage layer) and `cmd/db` (a
read-only explorer that prints what the read path returns). The `server-only` command is `Server`
without the indexer. Errors of iterators that the code does not report are left out where no
request and no scan depends on them, and in the indexer: there `GetChainTip` would take a failed
iterator for an empty DB. Hazards without a property: that one; a reorganisation while the process
is down, which is not looked for, as a todo comment of the code says itself; a cancelled
`SyncBlocks`, whose caller may take the end of the writer for completion; a height without a
block, which single-height handlers and streams answer like an empty one; and an annex of more
than one byte, which is not removed and for which the repository states no rule.

## 7. Order of the work

The write path, the pipeline, the follower with its repair, then keys, reads and servers, then
the commands with the store's batches and the two parallel jobs, then the proofs: the store, the
pipeline, the gap scan and the follower, then reorganisations, the parallel jobs and the servers,
at last the read path. Of this nothing is left.

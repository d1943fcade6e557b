------------------------------ MODULE KeyIndex ------------------------------
(***************************************************************************)
(* The keys a block writes (attachBlockToBatch of dbpebble/store.go) and   *)
(* the reads over them (read.go, compute_index.go), while the node's chain *)
(* grows and reorganises.                                                  *)
(*                                                                         *)
(* One variable is one key family of prefixes.go; KTxOccur has no reader   *)
(* and is left out.  A value that its key determines (a tweak, an amount,  *)
(* a public key) is not stored a second time.  How blocks reach the DB is  *)
(* the subject of Store: here a block appears at once, and blocks appear   *)
(* in any order, since the pipeline writes them as they arrive, a reorgani-*)
(* sation is written tip first and background commits overtake each other. *)
(*                                                                         *)
(* What is listed in the order of the block is a set of rows that begin    *)
(* with the position in the block: the code, too, keys a block's trans-    *)
(* actions by position and puts what it finds into a slot per position.    *)
(*                                                                         *)
(* A read is defined by what it returns when the DB completes it, and the  *)
(* properties of this module are about such reads.  When an iterator fails,*)
(* BlockTxids, fetchOutputs and TweaksForBlockAll return its error.  The   *)
(* others end their loop as at the last key: FetchComputeIndex and Fetch-  *)
(* AllTxidOutpointsForBlock then return the rows so far (Short... below,   *)
(* used by Server), and OutputsForTx, spentAtHeightTip, IsSpentAt, Key-    *)
(* ExistsComputeIndex, GetChainTip and FirstBlock go on as if there were   *)
(* no further key.  TweaksForBlock drops a transaction whose LoadTweak     *)
(* fails.                                                                  *)
(***************************************************************************)
EXTENDS Transactions

CONSTANTS
    Blocks, NoBlock,
    Parent,    \* block -> block or NoBlock
    Height,    \* block -> height
    TxsOf,     \* block -> sequence of txids
    MaxUint32, \* the largest height
    Dusts      \* the dust limits that are asked for

Heights == 0 .. MaxUint32

ASSUME IndexAssumption ==
    /\ NoBlock \notin Blocks /\ MaxUint32 \in Nat \ {0} /\ Dusts \subseteq Nat
    /\ \A b \in Blocks :
           /\ Height[b] \in Heights /\ TxsOf[b] \in Seq(Txids)
           /\ Parent[b] # NoBlock => Parent[b] \in Blocks /\ Height[b] = Height[Parent[b]] + 1

VARIABLES
    seen,          \* external: blocks that are or were on the node's best chain
    ciHeight,      \* KCIHeight: height -> block
    ciBlock,       \* KCIBlock: the blocks with an entry, whose value is Height
    blockTx,       \* KBlockTx: block -> rows <<position, txid>>
    tweak,         \* KTx: the txids with a tweak
    out,           \* KOut: outpoints <<txid, vout>>
    spend,         \* KSpend: <<outpoint, block>>
    computeIndex,  \* KComputeIndex: [height, txid, outs]
    spentOutputsShort, \* KSpentOutputsShort: block -> rows <<position, spent>>
    txidOutpoints  \* KTxidOutpoints: block -> (txid -> what it spends)

dbVars == <<ciHeight, ciBlock, blockTx, tweak, out, spend, computeIndex,
            spentOutputsShort, txidOutpoints>>
indexVars == <<seen, dbVars>>

TxSet(b) == Range(TxsOf[b])
TxRows(b) == {<<p, TxsOf[b][p]>> : p \in DOMAIN TxsOf[b]}

\* handleBlock: what is kept of every transaction, and of those of a block.
dbTx == [t \in Txids |-> handleTx(t)]
Kept == [b \in Blocks |-> {t \in TxSet(b) : dbTx[t].kept}]
Tweaked == [b \in Blocks |-> {t \in Kept[b] : dbTx[t].tweak}]

\* The blocks that the height index names.
IndexedChain == {ciHeight[h] : h \in Heights} \ {NoBlock}

IndexInit ==
    /\ seen = {}
    /\ ciHeight = [h \in Heights |-> NoBlock] /\ ciBlock = {}
    /\ blockTx = [b \in Blocks |-> {}]
    /\ tweak = {} /\ out = {} /\ spend = {} /\ computeIndex = {}
    /\ spentOutputsShort = [b \in Blocks |-> {}]
    /\ txidOutpoints = [b \in Blocks |-> <<>>]

----------------------------------------------------------------------------
\* The node (external): its best chain is replaced by a longer one only.
Branch == [b \in Blocks |-> {x \in Blocks : \A S \in SUBSET Blocks :
    b \in S /\ (\A y \in S : Parent[y] # NoBlock => Parent[y] \in S) => x \in S}]

NodeAdvance(b) ==
    /\ \A x \in seen : Height[x] < Height[b]
    /\ seen' = seen \cup Branch[b]
    /\ UNCHANGED dbVars

\* Faulty variants of attachBlockToBatch: a nil transaction is not skipped; the
\* compute index holds every kept transaction; the height is cleaned first.
AttachNilTx(b) ==
    tweak' = tweak \cup Tweaked[b] \cup (IF Kept[b] = TxSet(b) THEN {} ELSE {NoTx})
ComputeRow(h, t) == [height |-> h, txid |-> t, outs |-> dbTx[t].outs]
AttachComputeKept(b) ==
    computeIndex' = computeIndex \cup {ComputeRow(Height[b], t) : t \in Kept[b]}
AttachComputeCleans(b) ==
    computeIndex' = {r \in computeIndex : r.height # Height[b]} \cup
        {ComputeRow(Height[b], t) : t \in Tweaked[b]}

\* The parts of attachBlockToBatch.  Chain index: the last block wins a height.
AttachChainIndex(b) ==
    /\ ciHeight' = [ciHeight EXCEPT ![Height[b]] = b]
    /\ ciBlock' = ciBlock \cup {b}

\* Block to transactions (nil ones leave their position empty) and spends.
AttachTxs(b) ==
    /\ blockTx' = [blockTx EXCEPT ![b] = {r \in TxRows(b) : r[2] \in Kept[b]}]
    /\ spend' = spend \cup UNION {{in[2] : in \in dbTx[t].ins} \X {b} : t \in Kept[b]}

\* Tweaks, outputs and compute index: only of transactions with a tweak.
AttachTweaks(b) == tweak' = tweak \cup Tweaked[b]
AttachOuts(b) ==
    out' = out \cup UNION {{t} \X dbTx[t].outs : t \in Tweaked[b]}
AttachCompute(b) ==
    computeIndex' = computeIndex \cup {ComputeRow(Height[b], t) : t \in Tweaked[b]}

\* What the block spends, in block order, and by transaction.
AttachSpent(b) ==
    /\ spentOutputsShort' = [spentOutputsShort EXCEPT ![b] =
            UNION {{r[1]} \X dbTx[r[2]].ins : r \in {x \in TxRows(b) : x[2] \in Kept[b]}}]
    /\ txidOutpoints' = [txidOutpoints EXCEPT ![b] =
            [t \in {u \in Kept[b] : dbTx[u].ins # {}} |-> dbTx[t].ins]]

\* A block that was pulled reaches the DB, possibly not for the first time.
ApplyBlock(b) ==
    /\ b \in seen
    /\ AttachChainIndex(b) /\ AttachTxs(b) /\ AttachTweaks(b) /\ AttachOuts(b)
    /\ AttachCompute(b) /\ AttachSpent(b)
    /\ UNCHANGED seen

IndexNext == \E b \in Blocks : NodeAdvance(b) \/ ApplyBlock(b)

----------------------------------------------------------------------------
\* Scans between the bounds of encoders.go.  Keys are big-endian: their order is that of
\* positions and vouts.
BlockTxids(b) == blockTx[b]
OutputsForTx(t) == {o[2] : o \in {x \in out : x[1] = t}}
SpendBlocks(outpoint) == {b \in Blocks : <<outpoint, b>> \in spend}
FetchComputeIndex(h) == {r \in computeIndex : r.height = h}

\* What FetchComputeIndex may return, without an error, when its iterator fails: the rows
\* before the one it stopped at, in the order of the keys.
ShortComputeIndex(h) ==
    {{r \in FetchComputeIndex(h) : r.txid < stop.txid} : stop \in FetchComputeIndex(h)}

\* Iterators over KCIHeight: its last and its first entry (height 0 and no block on an
\* empty DB), and all of them, up or down, with the height each is found at.  The upper
\* bound is exclusive.
IndexedHeights == {h \in Heights \ {MaxUint32} : ciHeight[h] # NoBlock}
GetChainTip ==
    LET h == Max(IndexedHeights \cup {0}) IN [height |-> h, block |-> ciHeight[h]]
FirstBlock ==
    LET h == IF IndexedHeights = {} THEN 0 ELSE Min(IndexedHeights)
    IN  [height |-> h, block |-> ciHeight[h]]
ChainIterator == {<<h, ciHeight[h]>> : h \in IndexedHeights}

\* The transactions of a block that spend taproot outputs, all of them or, again without
\* an error, those before the one a failed iterator stopped at.
FetchAllTxidOutpointsForBlock(b) == txidOutpoints[b]
ShortTxidOutpoints(b) ==
    {Restrict(txidOutpoints[b], {t \in DOMAIN txidOutpoints[b] : t < stop}) :
        stop \in DOMAIN txidOutpoints[b]}

\* Point lookups.
LoadTweak(t) == t \in tweak
FetchSpentOutputsShort(b) == spentOutputsShort[b]
FetchTxidOutpoints(b, t) ==
    IF t \in DOMAIN txidOutpoints[b] THEN txidOutpoints[b][t] ELSE {}

\* Faulty variant: lookups in block order.
blockTxidOrder(q, r) == q[1] < r[1]

\* Whether row q is looked up before row r: in the order of the txids.
sortedTxidOrder(q, r) == q[2] < r[2]

\* The rows one iterator over the keys visits when it is seeked to each txid in that
\* order: the loop ends at the first seek that finds no key at or after the txid.
Visited(txids, keys) ==
    {r \in txids : \A q \in txids :
        q = r \/ sortedTxidOrder(q, r) => \E k \in keys : q[2] <= k}

TweaksForBlockAll(b) == {r \in Visited(BlockTxids(b), tweak) : r[2] \in tweak}

\* The outputs of a row, as rows <<position, outpoint>>.
OutputRows(r) == {r[1]} \X ({r[2]} \X OutputsForTx(r[2]))

fetchOutputs(b) ==
    UNION {OutputRows(r) : r \in Visited(BlockTxids(b), {o[1] : o \in out})}

\* Faulty variant: a spend in the block at the given height is not counted.
spentBefore(outpoint, h) ==
    \E b \in SpendBlocks(outpoint) : b \in ciBlock /\ Height[b] < h

\* heightIfOnBestChain reads KCIBlock, whose entries are never removed.
heightIfOnBestChain(b) == b \in ciBlock

spentAtHeightTip(outpoint, h) ==
    \E b \in SpendBlocks(outpoint) : heightIfOnBestChain(b) /\ Height[b] <= h

\* IsSpentAt takes the best chain from its caller.
IsSpentAt(outpoint, h, active) ==
    \E b \in SpendBlocks(outpoint) : b \in active /\ Height[b] <= h

Amount(o) == Outs[o[1]][o[2] + 1].amount

FetchOutputsCutThroughDustLimit(b, tip, dust) ==
    {r \in fetchOutputs(b) : Amount(r[2]) >= dust /\ ~spentAtHeightTip(r[2], tip)}

TweaksForBlockCutThrough(b, tip) ==
    {r \in BlockTxids(b) :
        /\ LoadTweak(r[2])
        /\ \E v \in OutputsForTx(r[2]) : ~spentAtHeightTip(<<r[2], v>>, tip)}

\* The same: dustLimit is not used.
TweaksForBlockCutThroughDustLimit(b, tip, dust) == TweaksForBlockCutThrough(b, tip)

\* Any row at the height of a block of KCIBlock.
KeyExistsComputeIndex(b) == heightIfOnBestChain(b) /\ FetchComputeIndex(Height[b]) # {}

\* With cut-through and a dust limit on the largest unspent output; the caller
\* says which blocks are on the best chain.
TweaksForBlock(b, h, dust, active) ==
    {r \in BlockTxids(b) :
        LET unspent == {v \in OutputsForTx(r[2]) : ~IsSpentAt(<<r[2], v>>, h, active)}
        IN  /\ LoadTweak(r[2])
            /\ unspent # {}
            /\ dust = 0 \/ \E v \in unspent : Amount(<<r[2], v>>) >= dust}

\* The compute index of a height, computed again from the other keys.
BuildComputeIndexForHeight(h) ==
    {[height |-> h, txid |-> r[2], outs |-> OutputsForTx(r[2])] :
        r \in IF ciHeight[h] = NoBlock THEN {} ELSE TweaksForBlockAll(ciHeight[h])}

----------------------------------------------------------------------------
\* The reference: what the blocks say, without keys or handleTx.

IsSilentPayment(t) ==
    /\ \E v \in DOMAIN Outs[t] : Outs[t][v].taproot
    /\ \E i \in DOMAIN Ins[t] : ExtractsKey(Ins[t][i])
    /\ t \notin BadSum

\* Outpoints spent by a block, and by the blocks of the indexed chain up to a height.
SpentIn == [b \in Blocks |-> UNION {{Ins[t][i].prev : i \in DOMAIN Ins[t]} : t \in TxSet(b)}]
SpentOnChain(h) == UNION {SpentIn[b] : b \in {c \in IndexedChain : Height[c] <= h}}

Unspent(t, spent, dust) ==
    {v \in TaprootOuts(t) : Amount(<<t, v>>) >= dust /\ <<t, v>> \notin spent}

RefTweaks == [b \in Blocks |-> {r \in TxRows(b) : IsSilentPayment(r[2])}]
RefOutputs == [b \in Blocks |->
    UNION {{r[1]} \X ({r[2]} \X TaprootOuts(r[2])) : r \in RefTweaks[b]}]
RefCutThrough(b, h, dust) ==
    LET spent == SpentOnChain(h)
    IN  {r \in RefTweaks[b] : Unspent(r[2], spent, dust) # {}}
RefCutThroughOutputs(b, h, dust) ==
    LET spent == SpentOnChain(h)
    IN  {r \in RefOutputs[b] : r[2][2] \in Unspent(r[2][1], spent, dust)}

----------------------------------------------------------------------------
IndexTypeOK ==
    /\ seen \subseteq Blocks
    /\ ciHeight \in [Heights -> Blocks \cup {NoBlock}]
    /\ ciBlock \subseteq seen
    /\ blockTx \in [Blocks -> SUBSET (Nat \X Txids)]
    /\ tweak \subseteq Txids
    /\ \A o \in out : o[1] \in tweak
    /\ \A s \in spend : s[2] \in ciBlock
    /\ \A r \in computeIndex : r.height \in Heights /\ r.txid \in tweak
    /\ DOMAIN spentOutputsShort = Blocks /\ DOMAIN txidOutpoints = Blocks

\* TweaksForBlockAll and fetchOutputs, with one iterator seeked in txid order,
\* return the rows of one lookup per transaction, at the same positions (read.go
\* 408-588; the reference is the naive code of read_test.go).  ChainIterator returns what
\* one lookup per height between FirstBlock and the tip finds, also where heights are
\* missing.
IteratorMatchesLookup ==
    /\ ChainIterator = {<<h, ciHeight[h]>> :
           h \in {i \in FirstBlock.height .. GetChainTip.height : ciHeight[i] # NoBlock}}
    /\ \A b \in Blocks :
           /\ TweaksForBlockAll(b) = {r \in BlockTxids(b) : LoadTweak(r[2])}
           /\ fetchOutputs(b) = UNION {OutputRows(r) : r \in BlockTxids(b)}
           /\ FetchSpentOutputsShort(b) =
                  UNION {{r[1]} \X FetchTxidOutpoints(b, r[2]) : r \in BlockTxids(b)}

\* Asked with the blocks that the height index names, TweaksForBlock returns the
\* transactions with an output unspent on that chain, in any order of writing
\* and after any reorganisation: the keys lose nothing (store.go 163-326).
CutThroughBestChain ==
    LET active == IndexedChain
    IN  \A b \in ciBlock, h \in {Height[c] : c \in ciBlock}, dust \in Dusts :
            TweaksForBlock(b, h, dust, active) = RefCutThrough(b, h, dust)

\* As long as no block has been replaced, the cut-through of tweaks and that of outputs
\* with a dust limit return the same without a caller's view of the best chain (read.go
\* 338-406 and 590-643).
CutThroughNoReorg ==
    ciBlock = IndexedChain => \A b \in ciBlock, h \in {Height[c] : c \in ciBlock} :
        /\ TweaksForBlockCutThrough(b, h) = RefCutThrough(b, h, 0)
        /\ \A dust \in Dusts :
               FetchOutputsCutThroughDustLimit(b, h, dust) = RefCutThroughOutputs(b, h, dust)

\* "This index applies cut-through and dust filtering": the cut-through of tweaks that is
\* given a dust limit returns the transactions with an unspent output of that amount
\* (TweaksForBlockCutThroughDustLimit, read.go 645-698).
DustLimitApplied ==
    ciBlock = IndexedChain =>
        \A b \in ciBlock, h \in {Height[c] : c \in ciBlock}, dust \in Dusts :
            TweaksForBlockCutThroughDustLimit(b, h, dust) = RefCutThrough(b, h, dust)

\* The compute index of a height holds every row that the other keys give for its
\* block, and beyond them only rows of blocks that the block replaced: KeyExistsCompute-
\* Index is wrong about a block only through such rows.
ComputeIndexSound ==
    \A h \in Heights :
        LET rows == FetchComputeIndex(h)
            built == BuildComputeIndexForHeight(h)
        IN  /\ built \subseteq rows
            /\ \A r \in rows \ built : \E b \in ciBlock \ IndexedChain :
                   Height[b] = h /\ \E x \in RefTweaks[b] : x[2] = r.txid
            /\ ciHeight[h] # NoBlock =>
                   (KeyExistsComputeIndex(ciHeight[h]) <=>
                        RefTweaks[ciHeight[h]] # {} \/ rows # built)

\* The index is at rest: it names the node's best chain, block by block.
Settled ==
    \E b \in seen : IndexedChain = Branch[b] /\ \A x \in seen : Height[x] <= Height[b]

\* Expected of the comments "spent on best chain at or before H?" (read.go:338)
\* and "exclude txs whose every tracked output is already spent at or before
\* tipHeight on the best chain" (read.go:591).
SpentOnBestChain ==
    Settled => \A b \in IndexedChain :
        TweaksForBlockCutThrough(b, MaxUint32) = RefCutThrough(b, MaxUint32, 0)
=============================================================================

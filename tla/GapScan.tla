------------------------------ MODULE GapScan ------------------------------
(***************************************************************************)
(* Builder.identifyGapRanges (internal/indexer/cleanup.go): the scan of    *)
(* the height index for ranges of missing blocks, one loop iteration per   *)
(* step.  The scan only reads the index; in the check that ends a sync,    *)
(* background commits of that sync may write it meanwhile (ChainFollower). *)
(***************************************************************************)
EXTENDS Integers, Sequences

CONSTANTS
    Blocks,      \* block hashes
    NoBlock,     \* GetBlockHashByHeight: nil
    MaxHeight    \* bound on the heights considered

ASSUME GapAssumption == NoBlock \notin Blocks /\ MaxHeight \in Nat

AllHeights == 0..MaxHeight
NoRange == [start |-> -1, end |-> 0]   \* currentRange = nil

VARIABLES
    heightIndex,             \* CIHeight: height -> block hash, or NoBlock
    startHeight, endHeight,  \* arguments
    height,                  \* loop variable
    currentRange, allRanges  \* the open range and the finished ones

scanVars == <<startHeight, endHeight, height, currentRange, allRanges>>

\* The arguments and the initial values of the locals.
StartScan(start, end) ==
    /\ startHeight' = start /\ endHeight' = end /\ height' = start
    /\ currentRange' = NoRange /\ allRanges' = <<>>

\* Faulty variant of CloseRange: the sentinel 0 is left as the end of the range.
CloseRangeUnset(r) == r

\* A range of one block has had no second height to set its end.
CloseRange(r) == IF r.end = 0 THEN [r EXCEPT !.end = r.start] ELSE r

\* The block is there: a range that was open ends before it.
ScanPresent ==
    /\ height <= endHeight /\ heightIndex[height] # NoBlock
    /\ allRanges' = IF currentRange = NoRange THEN allRanges
                    ELSE Append(allRanges, CloseRange(currentRange))
    /\ currentRange' = NoRange
    /\ height' = height + 1
    /\ UNCHANGED <<startHeight, endHeight>>

\* The block is missing: it opens a range or extends the open one.
ScanMissing ==
    /\ height <= endHeight /\ heightIndex[height] = NoBlock
    /\ currentRange' = IF currentRange = NoRange THEN [start |-> height, end |-> 0]
                       ELSE [currentRange EXCEPT !.end = height]
    /\ height' = height + 1
    /\ UNCHANGED <<startHeight, endHeight, allRanges>>

ScanStep == ScanPresent \/ ScanMissing
ScanDone == height > endHeight

----------------------------------------------------------------------------
\* The scan on its own, over any index and any arguments.
ScanInit ==
    /\ heightIndex \in [AllHeights -> Blocks \cup {NoBlock}]
    /\ startHeight \in AllHeights /\ endHeight \in AllHeights /\ height = startHeight
    /\ currentRange = NoRange /\ allRanges = <<>>

ScanNext == ScanStep /\ UNCHANGED heightIndex
ScanSpec == ScanInit /\ [][ScanNext]_<<heightIndex, scanVars>>

InRange(h, r) == r.start <= h /\ h <= r.end

\* The ranges identifyGapRanges returns for a DB whose last height is endHeight cover
\* exactly the missing heights: no gap is left out, no stored block pulled again.
ScanExact ==
    (ScanDone /\ (startHeight <= endHeight => heightIndex[endHeight] # NoBlock)) =>
        \A h \in startHeight..endHeight :
            heightIndex[h] = NoBlock <=> \E i \in DOMAIN allRanges : InRange(h, allRanges[i])
=============================================================================

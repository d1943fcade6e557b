--------------------------- MODULE GapScanProofs ---------------------------
(***************************************************************************)
(* identifyGapRanges finds exactly the gaps, for every index, every start  *)
(* and every end: the loop invariant and its proof.                        *)
(***************************************************************************)
EXTENDS GapScan, TLAPS

Ranges == [start : Int, end : Int]

ScanTypes ==
    /\ heightIndex \in [AllHeights -> Blocks \cup {NoBlock}]
    /\ startHeight \in AllHeights /\ endHeight \in AllHeights
    /\ height \in Nat /\ startHeight <= height
    /\ height <= endHeight + 1 \/ height = startHeight
    /\ currentRange \in Ranges /\ allRanges \in Seq(Ranges)

\* The open range is the run of missing heights that ends just before height.
OpenRange ==
    currentRange # NoRange =>
        /\ startHeight <= currentRange.start /\ currentRange.start < height
        /\ \A h \in currentRange.start..(height - 1) : heightIndex[h] = NoBlock
        /\ IF currentRange.end = 0 THEN currentRange.start = height - 1
           ELSE currentRange.end = height - 1

\* Finished ranges end before height.
FinishedRanges == \A i \in DOMAIN allRanges : allRanges[i].end < height

\* Up to height, the missing heights are those of the ranges.
Covered ==
    \A h \in startHeight..(height - 1) :
        heightIndex[h] = NoBlock <=>
            \/ \E i \in DOMAIN allRanges : InRange(h, allRanges[i])
            \/ currentRange # NoRange /\ currentRange.start <= h

ScanInv == ScanTypes /\ OpenRange /\ FinishedRanges /\ Covered

LEMMA RangeTypes ==
    ASSUME ScanTypes
    PROVE  /\ \A i \in DOMAIN allRanges : allRanges[i].start \in Int /\ allRanges[i].end \in Int
           /\ currentRange.start \in Int /\ currentRange.end \in Int
           /\ height \in Int /\ startHeight \in Int /\ endHeight \in Int
<1>1. \A i \in DOMAIN allRanges : allRanges[i] \in Ranges
  BY DEF ScanTypes
<1> QED
  BY <1>1, GapAssumption DEF ScanTypes, Ranges, AllHeights

LEMMA ScanInitInv == ScanInit => ScanInv
<1> SUFFICES ASSUME ScanInit PROVE ScanInv
  OBVIOUS
<1>1. ScanTypes
  BY GapAssumption DEF ScanInit, ScanTypes, AllHeights, NoRange, Ranges
<1>2. OpenRange /\ FinishedRanges /\ Covered
  BY GapAssumption DEF ScanInit, OpenRange, FinishedRanges, Covered, AllHeights, NoRange
<1> QED
  BY <1>1, <1>2 DEF ScanInv

LEMMA PresentInv == ScanInv /\ ScanPresent /\ UNCHANGED heightIndex => ScanInv'
<1> SUFFICES ASSUME ScanInv, ScanPresent, UNCHANGED heightIndex PROVE ScanInv'
  OBVIOUS
<1> USE GapAssumption DEF ScanInv, AllHeights
<1>r. /\ \A i \in DOMAIN allRanges : allRanges[i].start \in Int /\ allRanges[i].end \in Int
      /\ currentRange.start \in Int /\ currentRange.end \in Int
      /\ height \in Int /\ startHeight \in Int /\ endHeight \in Int
  BY RangeTypes
<1>1. height \in AllHeights /\ height' = height + 1 /\ currentRange' = NoRange
      /\ UNCHANGED <<startHeight, endHeight>>
  BY DEF ScanPresent, ScanTypes
<1>2. CASE currentRange = NoRange
  <2>1. allRanges' = allRanges
    BY <1>2 DEF ScanPresent
  <2>2. ScanTypes'
    BY <1>1, <2>1 DEF ScanTypes, ScanPresent, NoRange, Ranges
  <2>3. OpenRange' /\ FinishedRanges'
    BY <1>1, <1>r, <2>1 DEF OpenRange, FinishedRanges
  <2>4. ASSUME NEW h \in startHeight'..(height' - 1)
        PROVE  heightIndex'[h] = NoBlock <=>
                   \E i \in DOMAIN allRanges' : InRange(h, allRanges'[i])
    <3>1. CASE h = height
      BY <3>1, <1>r, <2>1 DEF ScanPresent, FinishedRanges, InRange
    <3>2. CASE h # height
      BY <3>2, <1>1, <1>2, <2>1 DEF Covered, ScanTypes
    <3> QED
      BY <3>1, <3>2
  <2> QED
    BY <1>1, <2>2, <2>3, <2>4 DEF Covered
<1>3. CASE currentRange # NoRange
  <2> DEFINE r == CloseRange(currentRange)
  <2>1. allRanges' = Append(allRanges, r)
    BY <1>3 DEF ScanPresent
  <2>2. r \in Ranges /\ r.start = currentRange.start /\ r.end = height - 1
    <3>1. CASE currentRange.end = 0
      <4>1. r = [currentRange EXCEPT !.end = currentRange.start]
        BY <3>1 DEF CloseRange
      <4>2. currentRange.start = height - 1
        BY <3>1, <1>3 DEF OpenRange
      <4> QED
        BY <4>1, <4>2 DEF ScanTypes, Ranges
    <3>2. CASE currentRange.end # 0
      BY <3>2, <1>3 DEF CloseRange, OpenRange, ScanTypes
    <3> QED
      BY <3>1, <3>2
  <2> HIDE DEF r
  <2>3. ScanTypes'
    <3>1. allRanges' \in Seq(Ranges)
      BY <2>1, <2>2 DEF ScanTypes
    <3>2. currentRange' \in Ranges
      BY <1>1 DEF NoRange, Ranges
    <3> QED
      BY <1>1, <3>1, <3>2 DEF ScanTypes, ScanPresent
  <2>4. /\ DOMAIN allRanges' = DOMAIN allRanges \cup {Len(allRanges) + 1}
        /\ allRanges'[Len(allRanges) + 1] = r
        /\ \A i \in DOMAIN allRanges : allRanges'[i] = allRanges[i]
    BY <2>1 DEF ScanTypes
  <2>5. OpenRange' /\ FinishedRanges'
    BY <1>1, <1>r, <2>2, <2>4 DEF OpenRange, FinishedRanges
  <2>6. ASSUME NEW h \in startHeight'..(height' - 1)
        PROVE  heightIndex'[h] = NoBlock <=>
                   \E i \in DOMAIN allRanges' : InRange(h, allRanges'[i])
    <3>1. (\E i \in DOMAIN allRanges' : InRange(h, allRanges'[i])) <=>
              \/ \E i \in DOMAIN allRanges : InRange(h, allRanges[i])
              \/ InRange(h, r)
      BY <2>4
    <3>2. CASE h = height
      <4>1. heightIndex'[h] # NoBlock /\ ~InRange(h, r)
        BY <3>2, <2>2 DEF ScanPresent, InRange, ScanTypes
      <4>2. \A i \in DOMAIN allRanges : ~InRange(h, allRanges[i])
        BY <3>2, <1>r DEF FinishedRanges, InRange
      <4> QED
        BY <3>1, <4>1, <4>2
    <3>3. CASE h # height
      <4>1. h \in startHeight..(height - 1)
        BY <3>3, <1>1 DEF ScanTypes
      <4>2. InRange(h, r) <=> currentRange.start <= h
        BY <4>1, <2>2 DEF InRange, ScanTypes, Ranges
      <4> QED
        BY <3>1, <4>1, <4>2, <1>3 DEF Covered
    <3> QED
      BY <3>2, <3>3
  <2> QED
    BY <1>1, <2>3, <2>5, <2>6 DEF Covered
<1> QED
  BY <1>2, <1>3

LEMMA MissingInv == ScanInv /\ ScanMissing /\ UNCHANGED heightIndex => ScanInv'
<1> SUFFICES ASSUME ScanInv, ScanMissing, UNCHANGED heightIndex PROVE ScanInv'
  OBVIOUS
<1> USE GapAssumption DEF ScanInv, AllHeights
<1>r. /\ \A i \in DOMAIN allRanges : allRanges[i].start \in Int /\ allRanges[i].end \in Int
      /\ currentRange.start \in Int /\ currentRange.end \in Int
      /\ height \in Int /\ startHeight \in Int /\ endHeight \in Int
  BY RangeTypes
<1>1. height \in AllHeights /\ height' = height + 1 /\ heightIndex[height] = NoBlock
      /\ UNCHANGED <<startHeight, endHeight, allRanges>>
  BY DEF ScanMissing, ScanTypes
<1>2. /\ currentRange' \in Ranges /\ currentRange' # NoRange
      /\ IF currentRange = NoRange
         THEN currentRange'.start = height /\ currentRange'.end = 0
         ELSE currentRange'.start = currentRange.start /\ currentRange'.end = height
  <2>1. CASE currentRange = NoRange
    BY <2>1, <1>1 DEF ScanMissing, ScanTypes, NoRange, Ranges
  <2>2. CASE currentRange # NoRange
    BY <2>2, <1>1 DEF ScanMissing, ScanTypes, OpenRange, NoRange, Ranges
  <2> QED
    BY <2>1, <2>2
<1>3. ScanTypes'
  BY <1>1, <1>2 DEF ScanTypes, ScanMissing
<1>4. FinishedRanges'
  BY <1>1, <1>r DEF FinishedRanges
<1>5. OpenRange'
  <2>1. CASE currentRange = NoRange
    BY <2>1, <1>1, <1>2 DEF OpenRange, ScanTypes, Ranges
  <2>2. CASE currentRange # NoRange
    BY <2>2, <1>1, <1>2 DEF OpenRange, ScanTypes, Ranges
  <2> QED
    BY <2>1, <2>2
<1>6. Covered'
  <2> SUFFICES ASSUME NEW h \in startHeight'..(height' - 1)
               PROVE  heightIndex'[h] = NoBlock <=>
                          \/ \E i \in DOMAIN allRanges' : InRange(h, allRanges'[i])
                          \/ currentRange' # NoRange /\ currentRange'.start <= h
    BY DEF Covered
  <2>1. CASE h = height
    BY <2>1, <1>1, <1>2 DEF OpenRange, ScanTypes, Ranges
  <2>2. CASE h # height /\ currentRange = NoRange
    BY <2>2, <1>1, <1>2 DEF Covered, ScanTypes, Ranges
  <2>3. CASE h # height /\ currentRange # NoRange
    BY <2>3, <1>1, <1>2 DEF Covered, ScanTypes, Ranges
  <2> QED
    BY <2>1, <2>2, <2>3
<1> QED
  BY <1>3, <1>4, <1>5, <1>6

LEMMA ExactFromInv == ScanInv => ScanExact
<1> SUFFICES ASSUME ScanInv, ScanDone, NEW h \in startHeight..endHeight,
                    startHeight <= endHeight => heightIndex[endHeight] # NoBlock
             PROVE  heightIndex[h] = NoBlock <=>
                        \E i \in DOMAIN allRanges : InRange(h, allRanges[i])
  BY DEF ScanExact
<1>1. startHeight <= endHeight /\ height = endHeight + 1 /\ endHeight \in Nat
      /\ startHeight \in Nat
  BY GapAssumption DEF ScanInv, ScanTypes, ScanDone, AllHeights
<1>2. currentRange = NoRange
  BY <1>1 DEF ScanInv, ScanTypes, OpenRange, Ranges
<1> QED
  BY <1>1, <1>2 DEF ScanInv, Covered

\* The ranges identifyGapRanges returns cover exactly the missing heights between the
\* start and an indexed tip, whatever the index holds.
THEOREM ScanExactCorrect == ScanSpec => []ScanExact
<1>1. ScanInit => ScanInv
  BY ScanInitInv
<1>2. ScanInv /\ [ScanNext]_<<heightIndex, scanVars>> => ScanInv'
  <2> SUFFICES ASSUME ScanInv, [ScanNext]_<<heightIndex, scanVars>> PROVE ScanInv'
    OBVIOUS
  <2>1. CASE ScanNext
    BY <2>1, PresentInv, MissingInv DEF ScanNext, ScanStep
  <2>2. CASE UNCHANGED <<heightIndex, scanVars>>
    BY <2>2 DEF scanVars, ScanInv, ScanTypes, OpenRange, FinishedRanges, Covered
  <2> QED
    BY <2>1, <2>2
<1>3. ScanInv => ScanExact
  BY ExactFromInv
<1> QED
  BY <1>1, <1>2, <1>3, PTL DEF ScanSpec
=============================================================================

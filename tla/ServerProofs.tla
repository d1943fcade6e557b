---------------------------- MODULE ServerProofs ----------------------------
(***************************************************************************)
(* Proofs about KeyIndex and Server for every chain with its forks, every  *)
(* set of transactions and every request.                                  *)
(***************************************************************************)
EXTENDS Server, NaturalsInduction, WellFoundedInduction, TLAPS

\* Unsigned arithmetic: a remainder is in range, and small numbers stay as they are.
LEMMA Unsigned ==
    ASSUME NEW x \in Nat, NEW m \in Nat
    PROVE  x % (m + 1) \in 0 .. m /\ (x <= m => x % (m + 1) = x)
OBVIOUS

LEMMA Constants ==
    /\ MaxUint32 \in Nat /\ MaxUint64 \in Nat /\ MaxUint32 < MaxUint64
    /\ NoBlock \notin Blocks /\ Heights = 0 .. MaxUint32
    /\ \A b \in Blocks : Height[b] \in Heights /\ TxsOf[b] \in Seq(Txids)
BY IndexAssumption, ServerAssumption DEF Heights

\* A sequence of values of any kind.
IsSeq(s) == \E S : s \in Seq(S)

LEMMA EmptyIsSeq == IsSeq(<<>>) /\ Len(<<>>) = 0
<1>1. <<>> \in Seq({})
  OBVIOUS
<1> QED
  BY <1>1 DEF IsSeq

LEMMA AppendIsSeq ==
    ASSUME NEW s, NEW x, IsSeq(s)
    PROVE  /\ IsSeq(Append(s, x)) /\ Len(s) \in Nat /\ Len(Append(s, x)) = Len(s) + 1
           /\ DOMAIN s = 1 .. Len(s) /\ DOMAIN Append(s, x) = 1 .. (Len(s) + 1)
           /\ \A i \in DOMAIN s : Append(s, x)[i] = s[i]
           /\ Append(s, x)[Len(s) + 1] = x
<1>1. PICK S : s \in Seq(S)
  BY DEF IsSeq
<1>2. s \in Seq(S \cup {x})
  BY <1>1
<1>3. Append(s, x) \in Seq(S \cup {x})
  BY <1>2
<1> QED
  BY <1>2, <1>3 DEF IsSeq

----------------------------------------------------------------------------
\* What handleTx keeps of a transaction, in terms of the transaction alone.
LEMMA TxFacts ==
    ASSUME NEW t \in Txids
    PROVE  /\ dbTx[t].outs = TaprootOuts(t) /\ dbTx[t].ins = TaprootIns(t)
           /\ dbTx[t].kept <=> (TaprootOuts(t) # {} \/ TaprootIns(t) # {})
           /\ dbTx[t].tweak <=> IsSilentPayment(t)
           /\ dbTx[t].tweak => TaprootOuts(t) # {} /\ dbTx[t].kept
<1>1. /\ dbTx[t].outs = TaprootOuts(t) /\ dbTx[t].ins = TaprootIns(t)
      /\ dbTx[t].kept <=> (TaprootOuts(t) # {} \/ TaprootIns(t) # {})
      /\ dbTx[t].tweak <=> (TaprootOuts(t) # {} /\ ComputeTweakPerTx(t))
  BY DEF dbTx, handleTx
<1>2. TaprootOuts(t) # {} <=> \E v \in DOMAIN Outs[t] : Outs[t][v].taproot
  BY DEF TaprootOuts
<1> QED
  BY <1>1, <1>2 DEF IsSilentPayment, ComputeTweakPerTx

\* The transactions of a block, its rows, and those with a tweak.
LEMMA BlockFacts ==
    ASSUME NEW b \in Blocks
    PROVE  /\ TxSet(b) \subseteq Txids /\ Kept[b] \subseteq TxSet(b)
           /\ Tweaked[b] \subseteq Kept[b] /\ TxSet(b) = {r[2] : r \in TxRows(b)}
           /\ \A t \in TxSet(b) : t \in Kept[b] <=> dbTx[t].kept
           /\ \A t \in TxSet(b) : t \in Tweaked[b] <=> dbTx[t].tweak
           /\ TxRows(b) \subseteq Nat \X Txids
           /\ RefTweaks[b] = {r \in TxRows(b) : r[2] \in Tweaked[b]}
<1>1. TxsOf[b] \in Seq(Txids)
  BY Constants
<1>2. TxSet(b) \subseteq Txids /\ TxRows(b) \subseteq Nat \X Txids
  BY <1>1 DEF TxSet, Range, TxRows
<1>3. TxSet(b) = {r[2] : r \in TxRows(b)}
  <2>1. ASSUME NEW t \in TxSet(b) PROVE \E r \in TxRows(b) : r[2] = t
    <3>1. PICK p \in DOMAIN TxsOf[b] : t = TxsOf[b][p]
      BY DEF TxSet, Range
    <3>2. <<p, t>> \in TxRows(b) /\ <<p, t>>[2] = t
      BY <3>1 DEF TxRows
    <3> QED
      BY <3>2
  <2>2. ASSUME NEW r \in TxRows(b) PROVE r[2] \in TxSet(b)
    BY DEF TxSet, Range, TxRows
  <2> QED
    BY <2>1, <2>2
<1>4. /\ Kept[b] = {t \in TxSet(b) : dbTx[t].kept}
      /\ Tweaked[b] = {t \in Kept[b] : dbTx[t].tweak}
  BY DEF Kept, Tweaked
<1>5. \A t \in TxSet(b) : /\ dbTx[t].tweak => dbTx[t].kept
                          /\ dbTx[t].tweak <=> IsSilentPayment(t)
  BY <1>2, TxFacts
<1>6. RefTweaks[b] = {r \in TxRows(b) : IsSilentPayment(r[2])}
  BY DEF RefTweaks
<1>7. \A r \in TxRows(b) : r[2] \in TxSet(b)
  BY <1>3
<1>8. \A r \in TxRows(b) : IsSilentPayment(r[2]) <=> r[2] \in Tweaked[b]
  BY <1>4, <1>5, <1>7
<1>9. RefTweaks[b] = {r \in TxRows(b) : r[2] \in Tweaked[b]}
  BY <1>6, <1>8
<1> QED
  BY <1>2, <1>3, <1>4, <1>5, <1>9

LEMMA TweakedTxids == \A b \in Blocks : Tweaked[b] \subseteq Txids /\ Kept[b] \subseteq Txids
BY BlockFacts

----------------------------------------------------------------------------
\* What one block writes into the families.
KeptRows(b) == {r \in TxRows(b) : r[2] \in Kept[b]}
SpentRows(b) == UNION {{r[1]} \X dbTx[r[2]].ins : r \in KeptRows(b)}
SpentByTx(b) == [t \in {u \in Kept[b] : dbTx[u].ins # {}} |-> dbTx[t].ins]
OutsOf(b) == UNION {{t} \X dbTx[t].outs : t \in Tweaked[b]}
SpendsOf(b) == UNION {{in[2] : in \in dbTx[t].ins} \X {b} : t \in Kept[b]}
ComputeRowsOf(b) == {ComputeRow(Height[b], t) : t \in Tweaked[b]}

\* The families hold what the blocks that were applied write, in whatever order and
\* however often they were applied, and nothing else.
TableInv ==
    /\ tweak = UNION {Tweaked[b] : b \in ciBlock}
    /\ out = UNION {OutsOf(b) : b \in ciBlock}
    /\ spend = UNION {SpendsOf(b) : b \in ciBlock}
    /\ computeIndex = UNION {ComputeRowsOf(b) : b \in ciBlock}
    /\ \A b \in ciBlock : /\ blockTx[b] = KeptRows(b)
                          /\ spentOutputsShort[b] = SpentRows(b)
                          /\ txidOutpoints[b] = SpentByTx(b)
    /\ \A b \in Blocks \ ciBlock : blockTx[b] = {} /\ spentOutputsShort[b] = {}

\* The height index names applied blocks at their heights.
HeightInv ==
    \A h \in Heights : ciHeight[h] # NoBlock =>
        ciHeight[h] \in ciBlock /\ Height[ciHeight[h]] = h

IndexInv == IndexTypeOK /\ TableInv /\ HeightInv

LEMMA InitIndexInv == IndexInit => IndexInv
<1> SUFFICES ASSUME IndexInit PROVE IndexInv
  OBVIOUS
<1>1. IndexTypeOK
  BY Constants DEF IndexInit, IndexTypeOK
<1>2. HeightInv
  BY DEF IndexInit, HeightInv
<1>3. \A b \in Blocks : blockTx[b] = {} /\ spentOutputsShort[b] = {}
  BY DEF IndexInit
<1>4. TableInv
  BY <1>3 DEF IndexInit, TableInv
<1> QED
  BY <1>1, <1>2, <1>4 DEF IndexInv

LEMMA NextIndexInv == IndexInv /\ (IndexNext \/ UNCHANGED indexVars) => IndexInv'
<1> SUFFICES ASSUME IndexInv, IndexNext \/ UNCHANGED indexVars PROVE IndexInv'
  OBVIOUS
<1>u. ASSUME UNCHANGED dbVars, seen \subseteq seen', seen' \subseteq Blocks PROVE IndexInv'
  BY <1>u DEF IndexInv, IndexTypeOK, TableInv, HeightInv, dbVars
<1>1. ASSUME NEW b \in Blocks, NodeAdvance(b) PROVE IndexInv'
  <2>1. seen \subseteq seen' /\ seen' \subseteq Blocks /\ UNCHANGED dbVars
    BY <1>1 DEF NodeAdvance, Branch, IndexInv, IndexTypeOK
  <2> QED
    BY <2>1, <1>u
<1>2. ASSUME NEW b \in Blocks, ApplyBlock(b) PROVE IndexInv'
  <2>1. Height[b] \in Heights /\ b # NoBlock
    BY Constants
  <2>2. /\ seen' = seen /\ b \in seen /\ ciBlock' = ciBlock \cup {b}
        /\ ciHeight' = [ciHeight EXCEPT ![Height[b]] = b]
    BY <1>2 DEF ApplyBlock, AttachChainIndex
  <2>3. /\ seen \subseteq Blocks /\ ciBlock \subseteq seen /\ tweak \subseteq Txids
        /\ ciHeight \in [Heights -> Blocks \cup {NoBlock}]
        /\ blockTx \in [Blocks -> SUBSET (Nat \X Txids)]
        /\ DOMAIN spentOutputsShort = Blocks /\ DOMAIN txidOutpoints = Blocks
    BY DEF IndexInv, IndexTypeOK
  <2>4. /\ tweak' = tweak \cup Tweaked[b]
        /\ out' = out \cup OutsOf(b)
        /\ spend' = spend \cup SpendsOf(b)
        /\ computeIndex' = computeIndex \cup ComputeRowsOf(b)
    BY <1>2 DEF ApplyBlock, AttachTweaks, AttachOuts, AttachTxs, AttachCompute,
                OutsOf, SpendsOf, ComputeRowsOf
  <2>5. /\ blockTx' = [blockTx EXCEPT ![b] = KeptRows(b)]
        /\ spentOutputsShort' = [spentOutputsShort EXCEPT ![b] = SpentRows(b)]
        /\ txidOutpoints' = [txidOutpoints EXCEPT ![b] = SpentByTx(b)]
    BY <1>2 DEF ApplyBlock, AttachTxs, AttachSpent, KeptRows, SpentRows, SpentByTx
  <2>6. KeptRows(b) \subseteq Nat \X Txids /\ Tweaked[b] \subseteq Txids
    BY BlockFacts DEF KeptRows
  <2>7. IndexTypeOK'
    <3>1. \A o \in OutsOf(b) : o[1] \in Tweaked[b]
      BY DEF OutsOf
    <3>2. \A s \in SpendsOf(b) : s[2] = b
      BY DEF SpendsOf
    <3>3. \A r \in ComputeRowsOf(b) : r.height = Height[b] /\ r.txid \in Tweaked[b]
      BY DEF ComputeRowsOf, ComputeRow
    <3>4. \A o \in out' : o[1] \in tweak'
      BY <2>4, <3>1 DEF IndexInv, IndexTypeOK
    <3>5. \A s \in spend' : s[2] \in ciBlock'
      BY <2>2, <2>4, <3>2 DEF IndexInv, IndexTypeOK
    <3>6. \A r \in computeIndex' : r.height \in Heights /\ r.txid \in tweak'
      BY <2>1, <2>4, <3>3 DEF IndexInv, IndexTypeOK
    <3>7. blockTx' \in [Blocks -> SUBSET (Nat \X Txids)]
      BY <2>3, <2>5, <2>6
    <3>8. /\ seen' \subseteq Blocks /\ ciBlock' \subseteq seen' /\ tweak' \subseteq Txids
          /\ ciHeight' \in [Heights -> Blocks \cup {NoBlock}]
          /\ DOMAIN spentOutputsShort' = Blocks /\ DOMAIN txidOutpoints' = Blocks
      BY <2>1, <2>2, <2>3, <2>4, <2>5, <2>6
    <3> QED
      BY <3>4, <3>5, <3>6, <3>7, <3>8 DEF IndexTypeOK
  <2>8. TableInv'
    <3>1. tweak' = UNION {Tweaked[c] : c \in ciBlock'}
      BY <2>2, <2>4 DEF IndexInv, TableInv
    <3>2. out' = UNION {OutsOf(c) : c \in ciBlock'}
      BY <2>2, <2>4 DEF IndexInv, TableInv
    <3>3. spend' = UNION {SpendsOf(c) : c \in ciBlock'}
      BY <2>2, <2>4 DEF IndexInv, TableInv
    <3>4. computeIndex' = UNION {ComputeRowsOf(c) : c \in ciBlock'}
      BY <2>2, <2>4 DEF IndexInv, TableInv
    <3>5. \A c \in ciBlock' : /\ blockTx'[c] = KeptRows(c)
                              /\ spentOutputsShort'[c] = SpentRows(c)
                              /\ txidOutpoints'[c] = SpentByTx(c)
      BY <2>2, <2>3, <2>5 DEF IndexInv, TableInv
    <3>6. \A c \in Blocks \ ciBlock' : blockTx'[c] = {} /\ spentOutputsShort'[c] = {}
      BY <2>2, <2>3, <2>5 DEF IndexInv, TableInv
    <3> QED
      BY <3>1, <3>2, <3>3, <3>4, <3>5, <3>6 DEF TableInv
  <2>9. HeightInv'
    BY <2>1, <2>2, <2>3 DEF IndexInv, HeightInv
  <2> QED
    BY <2>7, <2>8, <2>9 DEF IndexInv
<1>3. ASSUME UNCHANGED indexVars PROVE IndexInv'
  BY <1>3, <1>u DEF indexVars, IndexInv, IndexTypeOK
<1> QED
  BY <1>1, <1>2, <1>3 DEF IndexNext

----------------------------------------------------------------------------
\* The control state of a handler and the results it has so far.
ServeTypes ==
    /\ IsSeq(got) /\ IsSeq(resp)
    /\ st = "idle" => req = NoRequest /\ resp = <<>> /\ got = <<>>
    /\ st # "idle" => req \in Requests
    /\ st \in {"idle", "tip", "hash", "read", "write", "complete", "truncated", "error", "rejected"}
    /\ at \in 0 .. MaxUint64 /\ hash \in Blocks \cup {NoBlock}
    /\ indexed \subseteq Heights
    /\ Len(got) <= Len(Reads(req.kind)) /\ cut \subseteq DOMAIN got
    /\ st = "hash" => got = <<>>
    /\ st = "read" => Len(got) < Len(Reads(req.kind))

\* An entry names a block that the height index has named, and heights that were indexed
\* when the request arrived still are.
HashInv ==
    /\ st \in {"read", "write"} /\ hash # NoBlock =>
           hash \in ciBlock /\ Height[hash] = at % (MaxUint32 + 1)
    /\ \A h \in indexed : ciHeight[h] # NoBlock

LEMMA ReadsLen == \A k : IsSeq(Reads(k)) /\ Len(Reads(k)) \in Nat
                         /\ (Reads(k) # <<>> => Len(Reads(k)) > 0)
<1> DEFINE Parts == {"tweaks", "outputs", "spent", "compute", "outpoints"}
<1> SUFFICES ASSUME NEW k PROVE Reads(k) \in Seq(Parts)
  BY DEF IsSeq
<1>1. GetTweaks \in Seq(Parts) /\ GetUtxos \in Seq(Parts) /\ GetSpentOutputs \in Seq(Parts)
  BY DEF GetTweaks, GetUtxos, GetSpentOutputs
<1>2. GetComputeIndex \in Seq(Parts) /\ GetBlockHashByHeight \in Seq(Parts) /\ <<>> \in Seq(Parts)
  BY DEF GetComputeIndex, GetBlockHashByHeight
<1>3. GetFullBlock \in Seq(Parts)
  BY DEF GetFullBlock
<1>4. StreamBlockScanDataShort \in Seq(Parts)
  BY DEF StreamBlockScanDataShort
<1> HIDE DEF Parts
<1> QED
  BY <1>1, <1>2, <1>3, <1>4 DEF Reads

LEMMA RequestTypes ==
    \A r \in Requests : /\ r.start \in 0 .. MaxUint64 /\ r.end \in 0 .. MaxUint64
                        /\ r.api = "range" => r.end <= MaxUint32
BY ServerAssumption

\* What the height index names is a block of that height or nothing.
LEMMA NamedBlock ==
    ASSUME IndexInv, ServeTypes
    PROVE  /\ at % (MaxUint32 + 1) \in Heights
           /\ ciHeight[at % (MaxUint32 + 1)] \in Blocks \cup {NoBlock}
           /\ ciHeight[at % (MaxUint32 + 1)] # NoBlock =>
                  /\ ciHeight[at % (MaxUint32 + 1)] \in ciBlock
                  /\ Height[ciHeight[at % (MaxUint32 + 1)]] = at % (MaxUint32 + 1)
<1>1. at \in Nat
  BY Constants DEF ServeTypes
<1>2. at % (MaxUint32 + 1) \in Heights
  BY <1>1, Unsigned, Constants
<1> QED
  BY <1>2 DEF IndexInv, IndexTypeOK, HeightInv

LEMMA NextHeightType ==
    ASSUME ServeTypes, NextHeight
    PROVE  at' \in 0 .. MaxUint64 /\ st' \in {"hash", "complete"}
<1>1. at \in Nat /\ at + 1 \in Nat /\ MaxUint64 \in Nat
  BY Constants DEF ServeTypes
<1> QED
  BY <1>1, Unsigned DEF NextHeight

LEMMA SentIsSeq ==
    ASSUME NEW e, IsSeq(resp) PROVE IsSeq(Sent(e))
BY AppendIsSeq DEF Sent

LEMMA InitServe == Init => IndexInv /\ ServeTypes /\ HashInv
<1> SUFFICES ASSUME Init PROVE IndexInv /\ ServeTypes /\ HashInv
  OBVIOUS
<1>1. IndexInv
  BY InitIndexInv DEF Init
<1>2. ServeTypes
  BY EmptyIsSeq, ReadsLen, Constants DEF Init, ServeTypes
<1>3. HashInv
  BY DEF Init, HashInv
<1> QED
  BY <1>1, <1>2, <1>3

LEMMA NextServeTypes == IndexInv /\ ServeTypes /\ [Next]_vars => ServeTypes'
<1> SUFFICES ASSUME IndexInv, ServeTypes, [Next]_vars PROVE ServeTypes'
  OBVIOUS
<1>l. \A k : Len(Reads(k)) \in Nat /\ (Reads(k) # <<>> => Len(Reads(k)) > 0)
  BY ReadsLen
<1>1. ASSUME UNCHANGED serverVars PROVE ServeTypes'
  BY <1>1 DEF serverVars, ServeTypes
<1>2. ASSUME NEW r \in Requests, Receive(r) PROVE ServeTypes'
  <2>1. /\ req' = r /\ at' = r.start /\ UNCHANGED <<hash, got, cut, resp>>
        /\ st = "idle" /\ got = <<>>
        /\ indexed' \subseteq Heights
    BY <1>2 DEF Receive, ServeTypes
  <2>2. st' \in {"rejected", "tip", "complete", "hash"}
    BY <1>2 DEF Receive
  <2> QED
    BY <2>1, <2>2, <1>l, RequestTypes, EmptyIsSeq DEF ServeTypes
<1>3. ASSUME ReadTip \/ ReadTipShort PROVE ServeTypes'
  <2>1. IsSeq(resp') /\ st' = "complete" /\ st = "tip" /\ UNCHANGED <<req, at, hash, got, cut, indexed>>
    BY <1>3, SentIsSeq DEF ReadTip, ReadTipShort, ServeTypes
  <2> QED
    BY <2>1 DEF ServeTypes
<1>4. ASSUME GetBlockHash PROVE ServeTypes'
  <2>1. /\ hash' = ciHeight[at % (MaxUint32 + 1)] /\ st = "hash"
        /\ UNCHANGED <<req, got, cut, resp, indexed>>
    BY <1>4 DEF GetBlockHash
  <2>2. hash' \in Blocks \cup {NoBlock} /\ got = <<>> /\ req \in Requests
    BY <2>1, NamedBlock DEF ServeTypes
  <2>3. CASE NextHeight
    BY <2>1, <2>2, <2>3, NextHeightType DEF ServeTypes
  <2>4. CASE st' = AfterHash /\ UNCHANGED at
    BY <2>1, <2>2, <2>4, <1>l, EmptyIsSeq DEF ServeTypes, AfterHash
  <2> QED
    BY <1>4, <2>3, <2>4 DEF GetBlockHash
<1>5. ASSUME ReadPart \/ ReadShort PROVE ServeTypes'
  <2>1. PICK x : got' = Append(got, x)
    BY <1>5 DEF ReadPart, ReadShort
  <2>2. /\ UNCHANGED <<req, at, hash, resp, indexed>> /\ st = "read"
        /\ st' = IF Len(got') = Len(Reads(req.kind)) THEN "write" ELSE "read"
        /\ cut' \subseteq cut \cup {Len(got) + 1}
    BY <1>5 DEF ReadPart, ReadShort
  <2>3. /\ IsSeq(got') /\ Len(got') = Len(got) + 1 /\ Len(got) \in Nat
        /\ DOMAIN got = 1 .. Len(got) /\ DOMAIN got' = 1 .. (Len(got) + 1)
    BY <2>1, AppendIsSeq DEF ServeTypes
  <2>6. cut' \subseteq DOMAIN got'
    BY <2>2, <2>3 DEF ServeTypes
  <2>4. Len(got') <= Len(Reads(req.kind))
    BY <2>2, <2>3, <1>l DEF ServeTypes
  <2>5. st' = "read" => Len(got') < Len(Reads(req.kind))
    BY <2>2, <2>3, <2>4, <1>l
  <2> QED
    BY <2>2, <2>3, <2>4, <2>5, <2>6 DEF ServeTypes
<1>6. ASSUME WriteEntry PROVE ServeTypes'
  <2>1. /\ IsSeq(resp') /\ got' = <<>> /\ cut' = {} /\ hash' = NoBlock /\ st = "write"
        /\ UNCHANGED <<req, indexed>>
    BY <1>6, SentIsSeq DEF WriteEntry, ServeTypes
  <2>2. at' \in 0 .. MaxUint64 /\ st' \in {"hash", "complete"}
    BY <1>6, NextHeightType DEF WriteEntry
  <2> QED
    BY <2>1, <2>2, <1>l, EmptyIsSeq DEF ServeTypes
<1>7. ASSUME Fail PROVE ServeTypes'
  BY <1>7 DEF Fail, ServeTypes
<1> QED
  BY <1>1, <1>2, <1>3, <1>4, <1>5, <1>6, <1>7 DEF Next, Serve, vars

\* Blocks stay in the chain index, and a height that has a block keeps having one.
LEMMA IndexGrows ==
    ASSUME IndexInv, IndexNext \/ UNCHANGED indexVars
    PROVE  /\ ciBlock \subseteq ciBlock' /\ computeIndex \subseteq computeIndex'
           /\ \A h \in Heights : ciHeight[h] # NoBlock => ciHeight'[h] # NoBlock
<1>1. ASSUME NEW b \in Blocks, ApplyBlock(b)
      PROVE  /\ ciBlock \subseteq ciBlock' /\ computeIndex \subseteq computeIndex'
             /\ \A h \in Heights : ciHeight[h] # NoBlock => ciHeight'[h] # NoBlock
  BY <1>1, Constants DEF ApplyBlock, AttachChainIndex, AttachCompute, IndexInv, IndexTypeOK
<1> QED
  BY <1>1 DEF IndexNext, NodeAdvance, indexVars, dbVars

LEMMA StepsOfIndex == [Next]_vars => IndexNext \/ UNCHANGED indexVars
BY DEF Next, vars, Receive, Serve, ReadTip, ReadTipShort, GetBlockHash, ReadPart, ReadShort,
       WriteEntry, Fail

LEMMA NextHashInv ==
    IndexInv /\ ServeTypes /\ HashInv /\ [Next]_vars => HashInv'
<1> SUFFICES ASSUME IndexInv, ServeTypes, HashInv, [Next]_vars PROVE HashInv'
  OBVIOUS
<1>g. /\ ciBlock \subseteq ciBlock'
      /\ \A h \in Heights : ciHeight[h] # NoBlock => ciHeight'[h] # NoBlock
  BY IndexGrows, StepsOfIndex
<1>i. indexed' = indexed => \A h \in indexed' : ciHeight'[h] # NoBlock
  BY <1>g DEF HashInv, ServeTypes
<1>1. ASSUME UNCHANGED serverVars PROVE HashInv'
  BY <1>1, <1>g, <1>i DEF serverVars, HashInv
<1>2. ASSUME NEW r \in Requests, Receive(r) PROVE HashInv'
  <2>1. st' \in {"rejected", "tip", "complete", "hash"}
    BY <1>2 DEF Receive
  <2>2. \A h \in indexed' : ciHeight'[h] # NoBlock
    BY <1>2 DEF Receive, indexVars, dbVars
  <2> QED
    BY <2>1, <2>2 DEF HashInv
<1>3. ASSUME ReadTip \/ ReadTipShort \/ Fail PROVE HashInv'
  <2>1. st' \in {"complete", "truncated", "error"} /\ indexed' = indexed
    BY <1>3 DEF ReadTip, ReadTipShort, Fail
  <2> QED
    BY <2>1, <1>i DEF HashInv
<1>4. ASSUME GetBlockHash PROVE HashInv'
  <2>1. hash' = ciHeight[at % (MaxUint32 + 1)] /\ UNCHANGED <<indexed, ciBlock>>
    BY <1>4 DEF GetBlockHash, indexVars, dbVars
  <2>2. CASE NextHeight
    BY <2>1, <2>2, <1>i, NextHeightType DEF HashInv
  <2>3. CASE UNCHANGED at
    BY <2>1, <2>3, <1>i, NamedBlock DEF HashInv
  <2> QED
    BY <1>4, <2>2, <2>3 DEF GetBlockHash
<1>5. ASSUME ReadPart \/ ReadShort PROVE HashInv'
  <2>1. UNCHANGED <<hash, at, indexed>> /\ st = "read"
    BY <1>5 DEF ReadPart, ReadShort
  <2> QED
    BY <2>1, <1>g, <1>i DEF HashInv
<1>6. ASSUME WriteEntry PROVE HashInv'
  <2>1. hash' = NoBlock /\ indexed' = indexed
    BY <1>6 DEF WriteEntry
  <2> QED
    BY <2>1, <1>i DEF HashInv
<1> QED
  BY <1>1, <1>2, <1>3, <1>4, <1>5, <1>6 DEF Next, Serve, vars

\* The parts of the invariant that every theorem below uses.
Served == IndexInv /\ ServeTypes /\ HashInv

LEMMA ServedStep == Served /\ [Next]_vars => Served'
BY NextIndexInv, StepsOfIndex, NextServeTypes, NextHashInv DEF Served

\* The index and the handlers keep their types, whatever blocks are written while a
\* request is served: a handler never reads more parts than its kind has.
THEOREM TypeCorrect == Spec => []TypeOK
<1>1. Init => Served
  BY InitServe DEF Served
<1>2. Served => TypeOK
  BY DEF Served, IndexInv, ServeTypes, TypeOK
<1> QED
  BY <1>1, <1>2, ServedStep, PTL DEF Spec

----------------------------------------------------------------------------
\* A sorted pass over an index stops at a txid only if the index has no key at or after it,
\* so it reaches every row whose txid is a key.
LEMMA VisitedKeys ==
    ASSUME NEW rows, NEW keys \in SUBSET Nat, \A r \in rows : r[2] \in Nat,
           NEW r \in rows, r[2] \in keys
    PROVE  r \in Visited(rows, keys)
<1> SUFFICES ASSUME NEW q \in rows, q = r \/ q[2] < r[2]
             PROVE  \E k \in keys : q[2] <= k
  BY DEF Visited, sortedTxidOrder
<1>1. q[2] <= r[2] /\ r[2] \in keys
  OBVIOUS
<1> QED
  BY <1>1

\* The largest and the smallest of a set of heights.
LEMMA MaxHeight ==
    ASSUME NEW S \in SUBSET Heights, S # {}
    PROVE  Max(S) \in S /\ \A h \in S : h <= Max(S)
<1> DEFINE T == {n \in Nat : n <= MaxUint32 /\ MaxUint32 - n \in S}
<1>1. PICK s \in S : TRUE
  OBVIOUS
<1>2. T \in SUBSET Nat /\ T # {}
  <2>1. MaxUint32 - s \in T
    BY <1>1, Constants
  <2> QED
    BY <2>1
<1>3. PICK n \in T : \A m \in T : <<m, n>> \notin OpToRel(<, Nat)
  BY <1>2, NatLessThanWellFounded, WFMin
<1>4. n \in Nat /\ MaxUint32 - n \in S
  BY <1>3
<1>5. ASSUME NEW h \in S PROVE MaxUint32 - n >= h
  <2>1. h \in 0 .. MaxUint32 /\ MaxUint32 \in Nat
    BY Constants
  <2>2. MaxUint32 - h \in T
    BY <2>1
  <2>3. ~(MaxUint32 - h < n)
    BY <1>3, <1>4, <2>1, <2>2 DEF OpToRel
  <2> QED
    BY <1>4, <2>1, <2>3
<1>6. \E x \in S : \A y \in S : x >= y
  BY <1>4, <1>5
<1>7. Max(S) \in S /\ \A y \in S : Max(S) >= y
  BY <1>6 DEF Max
<1>8. \A y \in S : y \in Int
  BY Constants
<1> QED
  BY <1>7, <1>8

LEMMA MinHeight ==
    ASSUME NEW S \in SUBSET Heights, S # {}
    PROVE  Min(S) \in S /\ \A h \in S : Min(S) <= h
<1>1. S \in SUBSET Nat
  BY Constants
<1>2. PICK n \in S : \A m \in S : <<m, n>> \notin OpToRel(<, Nat)
  BY <1>1, NatLessThanWellFounded, WFMin
<1>3. ASSUME NEW m \in S PROVE n =< m
  <2>1. ~(m < n) /\ m \in Nat /\ n \in Nat
    BY <1>1, <1>2 DEF OpToRel
  <2> QED
    BY <2>1
<1>4. \E x \in S : \A y \in S : x =< y
  BY <1>3
<1> QED
  BY <1>4 DEF Min

\* The chain tip is the last height of the iterator, or 0.
LEMMA TipFacts ==
    ASSUME IndexTypeOK
    PROVE  /\ IndexedHeights \subseteq Heights /\ 0 \in Heights
           /\ GetChainTip.height \in IndexedHeights \cup {0}
           /\ GetChainTip.block = ciHeight[GetChainTip.height]
           /\ \A h \in IndexedHeights : h <= GetChainTip.height
<1>1. IndexedHeights \subseteq Heights /\ 0 \in Heights
  BY Constants DEF IndexedHeights
<1> DEFINE tip == Max(IndexedHeights \cup {0})
<1>2. tip \in IndexedHeights \cup {0} /\ \A h \in IndexedHeights : h <= tip
  BY <1>1, MaxHeight
<1>3. GetChainTip.height = tip /\ GetChainTip.block = ciHeight[tip]
  BY DEF GetChainTip
<1> HIDE DEF tip
<1> QED
  BY <1>1, <1>2, <1>3

LEMMA ChainLookup ==
    ASSUME IndexTypeOK
    PROVE  ChainIterator = {<<h, ciHeight[h]>> :
               h \in {i \in FirstBlock.height .. GetChainTip.height : ciHeight[i] # NoBlock}}
<1> DEFINE tip == GetChainTip.height
           first == FirstBlock.height
<1>1. /\ tip \in IndexedHeights \cup {0} /\ \A h \in IndexedHeights : h <= tip
      /\ IndexedHeights \subseteq Heights
  BY TipFacts
<1>2. /\ first = 0 \/ first \in IndexedHeights
      /\ \A h \in IndexedHeights : first <= h
  <2>1. CASE IndexedHeights = {}
    BY <2>1 DEF FirstBlock
  <2>2. CASE IndexedHeights # {}
    BY <2>2, <1>1, MinHeight DEF FirstBlock
  <2> QED
    BY <2>1, <2>2
<1> HIDE DEF tip, first
<1>3. Heights = 0 .. MaxUint32 /\ MaxUint32 \in Nat /\ MaxUint32 > 0
  BY IndexAssumption DEF Heights
<1>4. IndexedHeights = {h \in Heights \ {MaxUint32} : ciHeight[h] # NoBlock}
  BY DEF IndexedHeights
<1>5. tip \in Nat /\ tip < MaxUint32 /\ first \in Nat
  BY <1>1, <1>2, <1>3, <1>4
<1>6. IndexedHeights = {i \in first .. tip : ciHeight[i] # NoBlock}
  <2>1. ASSUME NEW h \in IndexedHeights PROVE h \in first .. tip /\ ciHeight[h] # NoBlock
    BY <1>1, <1>2, <1>3, <1>4, <1>5
  <2>2. ASSUME NEW h \in first .. tip, ciHeight[h] # NoBlock PROVE h \in IndexedHeights
    BY <2>2, <1>3, <1>4, <1>5
  <2> QED
    BY <2>1, <2>2
<1> QED
  BY <1>6 DEF ChainIterator, tip, first

\* The rows of one lookup per transaction.
LEMMA PassIsLookup ==
    ASSUME IndexTypeOK, NEW b \in Blocks
    PROVE  /\ TweaksForBlockAll(b) = {r \in BlockTxids(b) : LoadTweak(r[2])}
           /\ fetchOutputs(b) = UNION {OutputRows(r) : r \in BlockTxids(b)}
<1>1. blockTx[b] \subseteq Nat \X Txids /\ Txids \subseteq Nat
  BY TransactionAssumption DEF IndexTypeOK
<1>2. \A r \in blockTx[b] : r[2] \in Nat
  BY <1>1
<1>3. tweak \in SUBSET Nat /\ {o[1] : o \in out} \in SUBSET Nat
  BY <1>1 DEF IndexTypeOK
<1>4. \A K : Visited(blockTx[b], K) \subseteq blockTx[b]
  BY DEF Visited
<1>5. \A r \in blockTx[b] : r[2] \in tweak => r \in Visited(blockTx[b], tweak)
  BY <1>2, <1>3, VisitedKeys
<1>6. TweaksForBlockAll(b) = {r \in BlockTxids(b) : LoadTweak(r[2])}
  BY <1>4, <1>5 DEF TweaksForBlockAll, BlockTxids, LoadTweak
<1> DEFINE keys == {o[1] : o \in out}
<1>7. ASSUME NEW r \in blockTx[b], OutputRows(r) # {} PROVE r \in Visited(blockTx[b], keys)
  <2>1. OutputsForTx(r[2]) # {}
    BY <1>7 DEF OutputRows
  <2>2. r[2] \in keys
    BY <2>1 DEF OutputsForTx
  <2> QED
    BY <2>2, <1>2, <1>3, VisitedKeys
<1>8. fetchOutputs(b) = UNION {OutputRows(r) : r \in Visited(blockTx[b], keys)}
  BY DEF fetchOutputs, BlockTxids
<1> HIDE DEF keys
<1>9. fetchOutputs(b) = UNION {OutputRows(r) : r \in BlockTxids(b)}
  BY <1>4, <1>7, <1>8 DEF BlockTxids
<1> QED
  BY <1>6, <1>9

LEMMA SpentIsLookup ==
    ASSUME IndexInv, NEW b \in Blocks
    PROVE  FetchSpentOutputsShort(b) =
               UNION {{r[1]} \X FetchTxidOutpoints(b, r[2]) : r \in BlockTxids(b)}
<1>1. CASE b \in ciBlock
  <2>1. /\ blockTx[b] = KeptRows(b) /\ spentOutputsShort[b] = SpentRows(b)
        /\ txidOutpoints[b] = SpentByTx(b)
    BY <1>1 DEF IndexInv, TableInv
  <2>2. ASSUME NEW r \in KeptRows(b) PROVE FetchTxidOutpoints(b, r[2]) = dbTx[r[2]].ins
    <3>1. r[2] \in Kept[b]
      BY DEF KeptRows
    <3> QED
      BY <2>1, <3>1 DEF FetchTxidOutpoints, SpentByTx
  <2>3. SpentRows(b) = UNION {{r[1]} \X dbTx[r[2]].ins : r \in KeptRows(b)}
    BY DEF SpentRows
  <2> QED
    BY <2>1, <2>2, <2>3 DEF FetchSpentOutputsShort, BlockTxids
<1>2. CASE b \notin ciBlock
  BY <1>2 DEF IndexInv, TableInv, FetchSpentOutputsShort, BlockTxids
<1> QED
  BY <1>1, <1>2

\* What was written for a block is found by one pass over a shared index in the order of
\* the txids, although the indexes hold the transactions of every block ever applied.
THEOREM IteratorMatchesLookupCorrect == Spec => []IteratorMatchesLookup
<1>1. Init => Served
  BY InitServe DEF Served
<1>2. Served => IteratorMatchesLookup
  BY ChainLookup, PassIsLookup, SpentIsLookup DEF Served, IndexInv, IteratorMatchesLookup
<1> QED
  BY <1>1, <1>2, ServedStep, PTL DEF Spec

\* What the keys say of a transaction of an applied block.
LEMMA TxLookup ==
    ASSUME IndexInv, NEW b \in ciBlock, NEW t \in Kept[b]
    PROVE  /\ b \in Blocks /\ t \in Txids
           /\ LoadTweak(t) <=> t \in Tweaked[b]
           /\ t \in Tweaked[b] => OutputsForTx(t) = TaprootOuts(t)
           /\ t \notin Tweaked[b] => OutputsForTx(t) = {}
<1>1. b \in Blocks /\ ciBlock \subseteq Blocks
  BY DEF IndexInv, IndexTypeOK
<1>2. t \in Txids /\ t \in TxSet(b) /\ (t \in Tweaked[b] <=> dbTx[t].tweak)
  BY <1>1, BlockFacts
<1>3. \A c \in ciBlock : t \in Tweaked[c] => dbTx[t].tweak
  BY <1>1, BlockFacts
<1>4. t \in tweak <=> t \in Tweaked[b]
  BY <1>2, <1>3 DEF IndexInv, TableInv
<1>5. ASSUME NEW v PROVE v \in OutputsForTx(t) <=> t \in tweak /\ v \in TaprootOuts(t)
  <2>1. v \in OutputsForTx(t) <=> \E o \in out : o[1] = t /\ o[2] = v
    BY DEF OutputsForTx
  <2>2. \A o \in out : \E c \in ciBlock : \E u \in Tweaked[c] : o \in {u} \X dbTx[u].outs
    BY DEF IndexInv, TableInv, OutsOf
  <2>3. dbTx[t].outs = TaprootOuts(t)
    BY <1>2, TxFacts
  <2>4. ASSUME NEW o \in out, o[1] = t, o[2] = v PROVE t \in tweak /\ v \in TaprootOuts(t)
    <3>1. PICK c \in ciBlock : \E u \in Tweaked[c] : o \in {u} \X dbTx[u].outs
      BY <2>2
    <3>2. t \in Tweaked[c] /\ v \in dbTx[t].outs
      BY <2>4, <3>1
    <3> QED
      BY <2>3, <3>2 DEF IndexInv, TableInv
  <2>5. ASSUME t \in tweak, v \in TaprootOuts(t) PROVE \E o \in out : o[1] = t /\ o[2] = v
    <3>1. <<t, v>> \in OutsOf(b)
      BY <1>4, <2>3, <2>5 DEF OutsOf
    <3>2. <<t, v>> \in out
      BY <3>1 DEF IndexInv, TableInv
    <3> QED
      BY <3>2
  <2> QED
    BY <2>1, <2>4, <2>5
<1>6. t \in tweak => OutputsForTx(t) = TaprootOuts(t)
  BY <1>5
<1>7. t \notin tweak => OutputsForTx(t) = {}
  BY <1>5
<1> QED
  BY <1>1, <1>2, <1>4, <1>6, <1>7 DEF LoadTweak

LEMMA KeptRowFacts ==
    ASSUME IndexInv, NEW b \in ciBlock
    PROVE  /\ BlockTxids(b) = KeptRows(b) /\ \A r \in KeptRows(b) : r[2] \in Kept[b]
           /\ RefTweaks[b] = {r \in KeptRows(b) : r[2] \in Tweaked[b]}
<1>1. b \in Blocks
  BY DEF IndexInv, IndexTypeOK
<1>2. RefTweaks[b] = {r \in TxRows(b) : r[2] \in Tweaked[b]} /\ Tweaked[b] \subseteq Kept[b]
  BY <1>1, BlockFacts
<1> QED
  BY <1>2 DEF IndexInv, TableInv, BlockTxids, KeptRows

\* The reads by hash of an applied block return what the transactions of the block say.
LEMMA ReadIsBlock ==
    ASSUME IndexInv, NEW b \in ciBlock
    PROVE  /\ TweaksForBlockAll(b) = RefTweaks[b]
           /\ fetchOutputs(b) = RefOutputs[b]
           /\ FetchSpentOutputsShort(b) = UNION {{r[1]} \X TaprootIns(r[2]) : r \in TxRows(b)}
           /\ FetchAllTxidOutpointsForBlock(b) =
                  [t \in {u \in TxSet(b) : TaprootIns(u) # {}} |-> TaprootIns(t)]
<1>1. b \in Blocks /\ IndexTypeOK
  BY DEF IndexInv, IndexTypeOK
<1>2. /\ BlockTxids(b) = KeptRows(b) /\ \A r \in KeptRows(b) : r[2] \in Kept[b]
      /\ RefTweaks[b] = {r \in KeptRows(b) : r[2] \in Tweaked[b]}
  BY KeptRowFacts
<1>3. /\ TweaksForBlockAll(b) = {r \in KeptRows(b) : LoadTweak(r[2])}
      /\ fetchOutputs(b) = UNION {OutputRows(r) : r \in KeptRows(b)}
  BY <1>1, <1>2, PassIsLookup
<1>4. TweaksForBlockAll(b) = RefTweaks[b]
  BY <1>2, <1>3, TxLookup
<1>5. fetchOutputs(b) = RefOutputs[b]
  <2> DEFINE ref(r) == {r[1]} \X ({r[2]} \X TaprootOuts(r[2]))
  <2>1. RefOutputs[b] = UNION {ref(r) : r \in RefTweaks[b]}
    BY <1>1 DEF RefOutputs
  <2>2. ASSUME NEW r \in RefTweaks[b] PROVE r \in KeptRows(b) /\ OutputRows(r) = ref(r)
    BY <1>2, TxLookup DEF OutputRows
  <2>3. ASSUME NEW r \in KeptRows(b), r \notin RefTweaks[b] PROVE OutputRows(r) = {}
    <3>1. OutputsForTx(r[2]) = {}
      BY <1>2, <2>3, TxLookup
    <3> QED
      BY <3>1 DEF OutputRows
  <2> HIDE DEF ref
  <2> QED
    BY <1>3, <2>1, <2>2, <2>3
<1>6. \A t \in TxSet(b) : /\ t \in Txids /\ dbTx[t].ins = TaprootIns(t)
                          /\ TaprootIns(t) # {} => t \in Kept[b]
  BY <1>1, BlockFacts, TxFacts
<1>7. Kept[b] \subseteq TxSet(b) /\ \A r \in TxRows(b) : r[2] \in TxSet(b)
  BY <1>1, BlockFacts
<1>8. FetchSpentOutputsShort(b) = UNION {{r[1]} \X TaprootIns(r[2]) : r \in TxRows(b)}
  <2> DEFINE ref(r) == {r[1]} \X TaprootIns(r[2])
             row(r) == {r[1]} \X dbTx[r[2]].ins
  <2>1. spentOutputsShort[b] = UNION {row(r) : r \in KeptRows(b)}
    BY DEF IndexInv, TableInv, SpentRows
  <2>2. ASSUME NEW r \in KeptRows(b) PROVE r \in TxRows(b) /\ row(r) = ref(r)
    BY <1>6, <1>7 DEF KeptRows
  <2>3. ASSUME NEW r \in TxRows(b), r \notin KeptRows(b) PROVE ref(r) = {}
    <3>1. TaprootIns(r[2]) = {}
      BY <1>6, <1>7, <2>3 DEF KeptRows
    <3> QED
      BY <3>1
  <2>4. FetchSpentOutputsShort(b) = UNION {row(r) : r \in KeptRows(b)}
    BY <2>1 DEF FetchSpentOutputsShort
  <2> HIDE DEF ref, row
  <2>5. UNION {row(r) : r \in KeptRows(b)} = UNION {ref(r) : r \in TxRows(b)}
    BY <2>2, <2>3
  <2> QED
    BY <2>4, <2>5 DEF ref
<1>9. FetchAllTxidOutpointsForBlock(b) =
          [t \in {u \in TxSet(b) : TaprootIns(u) # {}} |-> TaprootIns(t)]
  <2>1. txidOutpoints[b] = [t \in {u \in Kept[b] : dbTx[u].ins # {}} |-> dbTx[t].ins]
    BY DEF IndexInv, TableInv, SpentByTx
  <2>2. {u \in Kept[b] : dbTx[u].ins # {}} = {u \in TxSet(b) : TaprootIns(u) # {}}
    BY <1>6, <1>7
  <2> QED
    BY <1>6, <2>1, <2>2 DEF FetchAllTxidOutpointsForBlock
<1> QED
  BY <1>4, <1>5, <1>8, <1>9

----------------------------------------------------------------------------
\* The rows that BuildComputeIndexForHeight finds are those the block has written.
LEMMA BuiltRows ==
    ASSUME IndexInv, NEW h \in Heights, ciHeight[h] # NoBlock
    PROVE  /\ BuildComputeIndexForHeight(h) = ComputeRowsOf(ciHeight[h])
           /\ ciHeight[h] \in ciBlock /\ ciHeight[h] \in Blocks /\ Height[ciHeight[h]] = h
<1> DEFINE b == ciHeight[h]
<1>1. b \in ciBlock /\ b \in Blocks /\ Height[b] = h
  BY DEF IndexInv, IndexTypeOK, HeightInv
<1>2. BuildComputeIndexForHeight(h) =
          {[height |-> h, txid |-> r[2], outs |-> OutputsForTx(r[2])] : r \in RefTweaks[b]}
  BY <1>1, ReadIsBlock DEF BuildComputeIndexForHeight
<1> HIDE DEF b
<1>3. ASSUME NEW r \in RefTweaks[b]
      PROVE  /\ r[2] \in Tweaked[b]
             /\ [height |-> h, txid |-> r[2], outs |-> OutputsForTx(r[2])] =
                    ComputeRow(Height[b], r[2])
  <2>1. r[2] \in Tweaked[b] /\ r[2] \in Kept[b] /\ r[2] \in Txids
    BY <1>1, BlockFacts
  <2>2. OutputsForTx(r[2]) = TaprootOuts(r[2])
    BY <1>1, <2>1, TxLookup
  <2>3. dbTx[r[2]].outs = TaprootOuts(r[2])
    BY <2>1, TxFacts
  <2> QED
    BY <1>1, <2>1, <2>2, <2>3 DEF ComputeRow
<1>4. ASSUME NEW t \in Tweaked[b] PROVE \E r \in RefTweaks[b] : r[2] = t
  BY <1>1, BlockFacts
<1>5. BuildComputeIndexForHeight(h) = {ComputeRow(Height[b], t) : t \in Tweaked[b]}
  <2> DEFINE row(t) == ComputeRow(Height[b], t)
  <2>1. BuildComputeIndexForHeight(h) = {row(r[2]) : r \in RefTweaks[b]}
    BY <1>2, <1>3
  <2>2. \A r \in RefTweaks[b] : r[2] \in Tweaked[b]
    BY <1>3
  <2>3. \A t \in Tweaked[b] : \E r \in RefTweaks[b] : r[2] = t
    BY <1>4
  <2> HIDE DEF row
  <2>4. {row(r[2]) : r \in RefTweaks[b]} = {row(t) : t \in Tweaked[b]}
    <3>1. ASSUME NEW t \in Tweaked[b] PROVE row(t) \in {row(r[2]) : r \in RefTweaks[b]}
      <4>1. PICK r \in RefTweaks[b] : r[2] = t
        BY <2>3
      <4> QED
        BY <4>1
    <3> QED
      BY <2>2, <3>1
  <2> QED
    BY <2>1, <2>4 DEF row
<1> QED
  BY <1>1, <1>5 DEF ComputeRowsOf, b

LEMMA ComputeRowsSound == IndexInv => ComputeIndexSound
<1> SUFFICES ASSUME IndexInv, NEW h \in Heights
             PROVE  LET rows == FetchComputeIndex(h)
                        built == BuildComputeIndexForHeight(h)
                    IN  /\ built \subseteq rows
                        /\ \A r \in rows \ built : \E b \in ciBlock \ IndexedChain :
                               Height[b] = h /\ \E x \in RefTweaks[b] : x[2] = r.txid
                        /\ ciHeight[h] # NoBlock =>
                               (KeyExistsComputeIndex(ciHeight[h]) <=>
                                    RefTweaks[ciHeight[h]] # {} \/ rows # built)
  BY DEF ComputeIndexSound
<1> DEFINE rows == FetchComputeIndex(h)
           built == BuildComputeIndexForHeight(h)
<1>1. rows = {r \in computeIndex : r.height = h}
  BY DEF FetchComputeIndex
<1>2. computeIndex = UNION {ComputeRowsOf(b) : b \in ciBlock} /\ ciBlock \subseteq Blocks
  BY DEF IndexInv, TableInv, IndexTypeOK
<1>3. \A b : \A r \in ComputeRowsOf(b) : r.height = Height[b] /\ r.txid \in Tweaked[b]
  BY DEF ComputeRowsOf, ComputeRow
<1>4. CASE ciHeight[h] = NoBlock
  <2>1. built = {}
    BY <1>4 DEF BuildComputeIndexForHeight
  <2> QED
    <3>1. ASSUME NEW r \in rows
          PROVE  \E b \in ciBlock \ IndexedChain :
                     Height[b] = h /\ \E x \in RefTweaks[b] : x[2] = r.txid
      <4>1. PICK c \in ciBlock : r \in ComputeRowsOf(c)
        BY <1>1, <1>2
      <4>2. Height[c] = h /\ r.txid \in Tweaked[c] /\ c \in Blocks /\ c # NoBlock
        BY <1>1, <1>2, <1>3, <4>1, Constants
      <4>3. \E x \in RefTweaks[c] : x[2] = r.txid
        BY <4>2, BlockFacts
      <4>4. c \notin IndexedChain
        BY <1>4, <4>2 DEF IndexedChain, IndexInv, HeightInv
      <4> QED
        BY <4>2, <4>3, <4>4
    <3> HIDE DEF rows, built
    <3> QED
      BY <1>4, <2>1, <3>1 DEF rows, built
<1>5. CASE ciHeight[h] # NoBlock
  <2> DEFINE b == ciHeight[h]
  <2>1. built = ComputeRowsOf(b) /\ b \in ciBlock /\ b \in Blocks /\ Height[b] = h
    BY <1>5, BuiltRows
  <2> HIDE DEF b, rows, built
  <2>2. built \subseteq rows
    BY <1>1, <1>2, <1>3, <2>1
  <2>3. ASSUME NEW r \in rows \ built
        PROVE  \E c \in ciBlock \ IndexedChain :
                   Height[c] = h /\ \E x \in RefTweaks[c] : x[2] = r.txid
    <3>1. PICK c \in ciBlock : r \in ComputeRowsOf(c)
      BY <1>1, <1>2
    <3>2. Height[c] = h /\ r.txid \in Tweaked[c] /\ c \in Blocks /\ c # b
      BY <1>1, <1>2, <1>3, <2>1, <3>1
    <3>3. \E x \in RefTweaks[c] : x[2] = r.txid
      BY <3>2, BlockFacts
    <3>4. c \notin IndexedChain
      BY <3>2 DEF IndexedChain, IndexInv, HeightInv, b
    <3> QED
      BY <3>2, <3>3, <3>4
  <2>4. built = {} <=> RefTweaks[b] = {}
    <3>1. Tweaked[b] = {} <=> RefTweaks[b] = {}
      BY <2>1, BlockFacts
    <3> QED
      BY <2>1, <3>1 DEF ComputeRowsOf
  <2>5. KeyExistsComputeIndex(b) <=> rows # {}
    BY <2>1 DEF KeyExistsComputeIndex, heightIfOnBestChain, rows
  <2>6. KeyExistsComputeIndex(b) <=> RefTweaks[b] # {} \/ rows # built
    BY <2>2, <2>4, <2>5
  <2> QED
    BY <2>2, <2>3, <2>6 DEF rows, built, b
<1> QED
  BY <1>4, <1>5

\* The compute index has every row of the block that a height names, and what it has
\* beyond comes from blocks that were replaced at that height, in whatever order blocks
\* are written, and however often.
THEOREM ComputeIndexSoundCorrect == Spec => []ComputeIndexSound
<1>1. Init => Served
  BY InitServe DEF Served
<1>2. Served => ComputeIndexSound
  BY ComputeRowsSound DEF Served
<1> QED
  BY <1>1, <1>2, ServedStep, PTL DEF Spec

----------------------------------------------------------------------------
\* A taproot output is spent by the taproot inputs only, so the spends that are kept are
\* all there are.
LEMMA SpendFacts ==
    ASSUME IndexInv, NEW t \in Txids, NEW v \in TaprootOuts(t), NEW c \in Blocks
    PROVE  <<<<t, v>>, c>> \in spend <=> c \in ciBlock /\ <<t, v>> \in SpentIn[c]
<1> DEFINE o == <<t, v>>
<1>0. o[1] = t /\ o[2] = v /\ Outs[t][v + 1].taproot
  BY TransactionAssumption DEF TaprootOuts
<1>1. <<o, c>> \in spend <=> c \in ciBlock /\ \E u \in Kept[c] : \E in \in dbTx[u].ins : in[2] = o
  <2>1. ASSUME NEW d, <<o, c>> \in SpendsOf(d)
        PROVE  d = c /\ \E u \in Kept[c] : \E in \in dbTx[u].ins : in[2] = o
    <3>1. PICK u \in Kept[d] : <<o, c>> \in {in[2] : in \in dbTx[u].ins} \X {d}
      BY <2>1 DEF SpendsOf
    <3>2. d = c /\ o \in {in[2] : in \in dbTx[u].ins}
      BY <3>1
    <3> QED
      BY <3>2
  <2>2. ASSUME NEW u \in Kept[c], NEW in \in dbTx[u].ins, in[2] = o
        PROVE  <<o, c>> \in SpendsOf(c)
    <3>1. <<o, c>> \in {x[2] : x \in dbTx[u].ins} \X {c}
      BY <2>2
    <3> QED
      BY <3>1 DEF SpendsOf
  <2>3. spend = UNION {SpendsOf(d) : d \in ciBlock}
    BY DEF IndexInv, TableInv
  <2> HIDE DEF o
  <2> QED
    BY <2>1, <2>2, <2>3
<1>2. o \in SpentIn[c] <=> \E u \in TxSet(c) : \E i \in DOMAIN Ins[u] : Ins[u][i].prev = o
  BY DEF SpentIn
<1>3. ASSUME NEW u \in TxSet(c), NEW i \in DOMAIN Ins[u], Ins[u][i].prev = o
      PROVE  u \in Kept[c] /\ \E in \in dbTx[u].ins : in[2] = o
  <2>1. u \in Txids
    BY BlockFacts
  <2>2. Ins[u][i].script = "P2TR"
    BY <1>0, <1>3, <2>1, TransactionAssumption
  <2>3. <<i, o>> \in TaprootIns(u)
    BY <1>3, <2>2 DEF TaprootIns
  <2>4. <<i, o>> \in dbTx[u].ins /\ dbTx[u].kept
    BY <2>1, <2>3, TxFacts
  <2>5. u \in Kept[c]
    BY <2>4, BlockFacts
  <2>6. <<i, o>>[2] = o
    OBVIOUS
  <2> QED
    BY <2>4, <2>5, <2>6
<1>4. ASSUME NEW u \in Kept[c], NEW in \in dbTx[u].ins, in[2] = o
      PROVE  u \in TxSet(c) /\ \E i \in DOMAIN Ins[u] : Ins[u][i].prev = o
  <2>1. u \in TxSet(c) /\ u \in Txids
    BY BlockFacts
  <2>2. in \in TaprootIns(u)
    BY <2>1, TxFacts
  <2>3. PICK i \in DOMAIN Ins[u] : in = <<i, Ins[u][i].prev>>
    BY <2>2 DEF TaprootIns
  <2> QED
    BY <1>4, <2>1, <2>3
<1> HIDE DEF o
<1>5. <<o, c>> \in spend <=> c \in ciBlock /\ o \in SpentIn[c]
  BY <1>1, <1>2, <1>3, <1>4
<1> QED
  BY <1>5 DEF o

\* With the blocks that the height index names, an output of an applied block is spent
\* where the transactions of that chain say so.
LEMMA SpentAtIsChain ==
    ASSUME IndexInv, NEW t \in Txids, NEW v \in TaprootOuts(t), NEW h
    PROVE  /\ IsSpentAt(<<t, v>>, h, IndexedChain) <=> <<t, v>> \in SpentOnChain(h)
           /\ ciBlock = IndexedChain =>
                  (spentAtHeightTip(<<t, v>>, h) <=> <<t, v>> \in SpentOnChain(h))
<1> DEFINE o == <<t, v>>
<1>1. IndexedChain \subseteq ciBlock /\ ciBlock \subseteq Blocks
  BY DEF IndexedChain, IndexInv, HeightInv, IndexTypeOK
<1>2. \A c \in Blocks : <<o, c>> \in spend <=> c \in ciBlock /\ o \in SpentIn[c]
  BY SpendFacts
<1>3. \A c : c \in SpendBlocks(o) <=> c \in ciBlock /\ o \in SpentIn[c]
  BY <1>1, <1>2 DEF SpendBlocks
<1>4. o \in SpentOnChain(h) <=> \E c \in IndexedChain : Height[c] <= h /\ o \in SpentIn[c]
  BY DEF SpentOnChain
<1> HIDE DEF o
<1>5. IsSpentAt(o, h, IndexedChain) <=> o \in SpentOnChain(h)
  BY <1>1, <1>3, <1>4 DEF IsSpentAt
<1>6. ciBlock = IndexedChain => (spentAtHeightTip(o, h) <=> o \in SpentOnChain(h))
  BY <1>3, <1>4 DEF spentAtHeightTip, heightIfOnBestChain
<1> QED
  BY <1>5, <1>6 DEF o

LEMMA AmountFacts ==
    ASSUME NEW t \in Txids, NEW v \in TaprootOuts(t)
    PROVE  Amount(<<t, v>>) \in Nat
<1> DEFINE Output == [taproot : BOOLEAN, amount : Nat]
<1>1. Outs[t] \in Seq(Output)
  BY TransactionAssumption
<1> HIDE DEF Output
<1>2. v + 1 \in DOMAIN Outs[t]
  <2>1. PICK i \in DOMAIN Outs[t] : v = i - 1
    BY DEF TaprootOuts
  <2>2. i \in Nat
    BY <1>1, <2>1
  <2> QED
    BY <2>1, <2>2
<1> DEFINE o == Outs[t][v + 1]
<1>3. o \in Output
  BY <1>1, <1>2
<1> HIDE DEF o
<1>4. o.amount \in Nat
  BY <1>3 DEF Output
<1> QED
  BY <1>4 DEF Amount, o

LEMMA BestChainReads == IndexInv => CutThroughBestChain
<1> SUFFICES ASSUME IndexInv, NEW b \in ciBlock, NEW h \in {Height[c] : c \in ciBlock},
                    NEW dust \in Dusts
             PROVE  TweaksForBlock(b, h, dust, IndexedChain) = RefCutThrough(b, h, dust)
  BY DEF CutThroughBestChain
<1>0. dust \in Nat
  BY IndexAssumption
<1>1. /\ BlockTxids(b) = KeptRows(b) /\ \A r \in KeptRows(b) : r[2] \in Kept[b]
      /\ RefTweaks[b] = {r \in KeptRows(b) : r[2] \in Tweaked[b]}
  BY KeptRowFacts
<1> DEFINE left(t) == {v \in OutputsForTx(t) : ~IsSpentAt(<<t, v>>, h, IndexedChain)}
           keep(t) == /\ LoadTweak(t) /\ left(t) # {}
                      /\ dust = 0 \/ \E v \in left(t) : Amount(<<t, v>>) >= dust
           ref(t) == Unspent(t, SpentOnChain(h), dust) # {}
<1>2. TweaksForBlock(b, h, dust, IndexedChain) = {r \in KeptRows(b) : keep(r[2])}
  BY <1>1 DEF TweaksForBlock
<1>3. RefCutThrough(b, h, dust) = {r \in KeptRows(b) : r[2] \in Tweaked[b] /\ ref(r[2])}
  BY <1>1 DEF RefCutThrough
<1>4. ASSUME NEW t \in Kept[b] PROVE keep(t) <=> t \in Tweaked[b] /\ ref(t)
  <2>1. LoadTweak(t) <=> t \in Tweaked[b]
    BY TxLookup
  <2> SUFFICES ASSUME t \in Tweaked[b]
               PROVE  left(t) # {} /\ (dust = 0 \/ \E v \in left(t) : Amount(<<t, v>>) >= dust)
                          <=> ref(t)
    BY <2>1
  <2>2. OutputsForTx(t) = TaprootOuts(t) /\ t \in Txids
    BY TxLookup
  <2>3. left(t) = {v \in TaprootOuts(t) : <<t, v>> \notin SpentOnChain(h)}
    BY <2>2, SpentAtIsChain
  <2>4. \A v \in left(t) : Amount(<<t, v>>) \in Nat
    BY <2>2, <2>3, AmountFacts
  <2> HIDE DEF left
  <2>5. ref(t) <=> \E v \in left(t) : Amount(<<t, v>>) >= dust
    BY <2>3 DEF Unspent
  <2>6. dust = 0 => \A v \in left(t) : Amount(<<t, v>>) >= dust
    BY <2>4
  <2> HIDE DEF ref
  <2> QED
    BY <2>5, <2>6
<1> HIDE DEF keep, ref
<1> QED
  BY <1>1, <1>2, <1>3, <1>4

LEMMA NoReorgReads == IndexInv => CutThroughNoReorg
<1> SUFFICES ASSUME IndexInv, ciBlock = IndexedChain, NEW b \in ciBlock,
                    NEW h \in {Height[c] : c \in ciBlock}
             PROVE  /\ TweaksForBlockCutThrough(b, h) = RefCutThrough(b, h, 0)
                    /\ \A dust \in Dusts :
                           FetchOutputsCutThroughDustLimit(b, h, dust) =
                               RefCutThroughOutputs(b, h, dust)
  BY DEF CutThroughNoReorg
<1>1. /\ BlockTxids(b) = KeptRows(b) /\ \A r \in KeptRows(b) : r[2] \in Kept[b]
      /\ RefTweaks[b] = {r \in KeptRows(b) : r[2] \in Tweaked[b]}
  BY KeptRowFacts
<1>2. \A t \in Txids : \A v \in TaprootOuts(t) :
          spentAtHeightTip(<<t, v>>, h) <=> <<t, v>> \in SpentOnChain(h)
  BY SpentAtIsChain
<1>3. TweaksForBlockCutThrough(b, h) = RefCutThrough(b, h, 0)
  <2> DEFINE keep(t) == LoadTweak(t) /\ \E v \in OutputsForTx(t) : ~spentAtHeightTip(<<t, v>>, h)
             ref(t) == Unspent(t, SpentOnChain(h), 0) # {}
  <2>1. TweaksForBlockCutThrough(b, h) = {r \in KeptRows(b) : keep(r[2])}
    BY <1>1 DEF TweaksForBlockCutThrough
  <2>2. RefCutThrough(b, h, 0) = {r \in KeptRows(b) : r[2] \in Tweaked[b] /\ ref(r[2])}
    BY <1>1 DEF RefCutThrough
  <2>3. ASSUME NEW t \in Kept[b] PROVE keep(t) <=> t \in Tweaked[b] /\ ref(t)
    <3>1. LoadTweak(t) <=> t \in Tweaked[b]
      BY TxLookup
    <3> SUFFICES ASSUME t \in Tweaked[b]
                 PROVE  (\E v \in OutputsForTx(t) : ~spentAtHeightTip(<<t, v>>, h)) <=> ref(t)
      BY <3>1
    <3>2. OutputsForTx(t) = TaprootOuts(t) /\ t \in Txids
      BY TxLookup
    <3>3. \A v \in TaprootOuts(t) : Amount(<<t, v>>) >= 0
      BY <3>2, AmountFacts
    <3> QED
      BY <1>2, <3>2, <3>3 DEF Unspent
  <2> HIDE DEF keep, ref
  <2> QED
    BY <1>1, <2>1, <2>2, <2>3
<1>4. ASSUME NEW dust \in Dusts
      PROVE  FetchOutputsCutThroughDustLimit(b, h, dust) = RefCutThroughOutputs(b, h, dust)
  <2>1. FetchOutputsCutThroughDustLimit(b, h, dust) =
            {r \in RefOutputs[b] : Amount(r[2]) >= dust /\ ~spentAtHeightTip(r[2], h)}
    BY ReadIsBlock DEF FetchOutputsCutThroughDustLimit
  <2>2. ASSUME NEW r \in RefOutputs[b]
        PROVE  /\ r[2] = <<r[2][1], r[2][2]>> /\ r[2][1] \in Txids
               /\ r[2][2] \in TaprootOuts(r[2][1])
    <3>1. b \in Blocks
      BY DEF IndexInv, IndexTypeOK
    <3>2. PICK x \in RefTweaks[b] : r \in {x[1]} \X ({x[2]} \X TaprootOuts(x[2]))
      BY <3>1 DEF RefOutputs
    <3>3. x[2] \in Txids
      BY <3>1, BlockFacts
    <3> QED
      BY <3>2, <3>3
  <2>3. RefCutThroughOutputs(b, h, dust) =
            {r \in RefOutputs[b] : r[2][2] \in Unspent(r[2][1], SpentOnChain(h), dust)}
    BY DEF RefCutThroughOutputs
  <2>4. ASSUME NEW r \in RefOutputs[b]
        PROVE  Amount(r[2]) >= dust /\ ~spentAtHeightTip(r[2], h)
                   <=> r[2][2] \in Unspent(r[2][1], SpentOnChain(h), dust)
    <3> DEFINE t == r[2][1]
               v == r[2][2]
    <3>1. r[2] = <<t, v>> /\ t \in Txids /\ v \in TaprootOuts(t)
      BY <2>2
    <3> HIDE DEF t, v
    <3>2. Amount(<<t, v>>) >= dust /\ ~spentAtHeightTip(<<t, v>>, h)
              <=> v \in Unspent(t, SpentOnChain(h), dust)
      BY <1>2, <3>1 DEF Unspent
    <3> QED
      BY <3>1, <3>2 DEF t, v
  <2> QED
    BY <2>1, <2>3, <2>4
<1> QED
  BY <1>3, <1>4

\* Asked with the blocks that the height index names, the cut-through read returns exactly
\* the transactions with an output of at least the dust limit that this chain does not
\* spend: neither the order of writing nor what a replaced block has left changes it.
THEOREM CutThroughBestChainCorrect == Spec => []CutThroughBestChain
<1>1. Init => Served
  BY InitServe DEF Served
<1>2. Served => CutThroughBestChain
  BY BestChainReads DEF Served
<1> QED
  BY <1>1, <1>2, ServedStep, PTL DEF Spec

\* The reads that take KCIBlock for the best chain return the same as long as no block
\* that was written has been replaced.
THEOREM CutThroughNoReorgCorrect == Spec => []CutThroughNoReorg
<1>1. Init => Served
  BY InitServe DEF Served
<1>2. Served => CutThroughNoReorg
  BY NoReorgReads DEF Served
<1> QED
  BY <1>1, <1>2, ServedStep, PTL DEF Spec

----------------------------------------------------------------------------
\* The list of a range so far: every height below the loop's that was indexed at the
\* start, ascending, each with a block of its height.
Listed ==
    /\ \A h \in indexed : req.start <= h /\ h < at => \E i \in DOMAIN resp : resp[i].height = h
    /\ \A i \in DOMAIN resp : /\ resp[i].height \in Nat /\ resp[i].height < at
                              /\ resp[i].block # NoBlock
                              /\ Height[resp[i].block] = resp[i].height
    /\ \A i, j \in DOMAIN resp : i < j => resp[i].height < resp[j].height

RangeInv ==
    req.api = "range" =>
        /\ st # "tip"
        /\ st \in {"hash", "read", "write"} => req.start <= at /\ at <= req.end
        /\ st \in {"read", "write"} => hash # NoBlock
        /\ st = "complete" => at > req.end
        /\ st \in {"hash", "read", "write", "complete"} => Listed

LEMMA InitRangeInv == Init => RangeInv
BY DEF Init, NoRequest, RangeInv

\* The loop's increment does not wrap for a range.
LEMMA RangeNextHeight ==
    ASSUME ServeTypes, RangeInv, req.api = "range", st \in {"hash", "read", "write"}, NextHeight
    PROVE  /\ at \in Nat /\ at' = at + 1 /\ req.start \in Nat /\ req.end \in Nat
           /\ req.start <= at /\ at <= req.end /\ at <= MaxUint32
           /\ (st' = "hash" /\ at' <= req.end) \/ (st' = "complete" /\ at' > req.end)
<1>1. req \in Requests
  BY DEF ServeTypes
<1>2. /\ req.start \in 0 .. MaxUint64 /\ req.end \in 0 .. MaxUint64 /\ req.end <= MaxUint32
      /\ at \in 0 .. MaxUint64
      /\ req.start <= at /\ at <= req.end
  BY <1>1, RequestTypes DEF RangeInv, ServeTypes
<1>3. at \in Nat /\ at + 1 \in Nat /\ at + 1 <= MaxUint64 /\ at <= MaxUint32
      /\ req.start \in Nat /\ req.end \in Nat
  BY <1>2, Constants
<1>4. at' = at + 1
  BY <1>3, Unsigned, Constants DEF NextHeight
<1>5. st' = IF at' <= req.end THEN "hash" ELSE "complete"
  BY DEF NextHeight
<1> QED
  BY <1>2, <1>3, <1>4, <1>5

LEMMA NextRangeInv == Served /\ RangeInv /\ [Next]_vars => RangeInv'
<1> SUFFICES ASSUME Served, RangeInv, [Next]_vars PROVE RangeInv'
  OBVIOUS
<1>s. IndexInv /\ ServeTypes /\ HashInv
  BY DEF Served
<1>1. ASSUME UNCHANGED serverVars PROVE RangeInv'
  BY <1>1 DEF serverVars, RangeInv, Listed
<1>2. ASSUME NEW r \in Requests, Receive(r) PROVE RangeInv'
  <2> SUFFICES ASSUME r.api = "range", st' # "rejected" PROVE RangeInv'
    BY <1>2 DEF Receive, RangeInv
  <2>1. st = "idle" /\ req' = r /\ at' = r.start /\ resp' = resp /\ rangeParams(r)
    BY <1>2 DEF Receive
  <2>2. r.start \in Nat /\ r.end \in Nat /\ r.start <= r.end
    BY <2>1, RequestTypes, Constants DEF rangeParams
  <2>3. st' = "hash"
    BY <1>2, <2>1, <2>2 DEF Receive
  <2>4. resp' = <<>>
    BY <2>1, <1>s DEF ServeTypes
  <2>5. indexed' \subseteq Heights
    BY <1>2 DEF Receive
  <2>6. \A h \in indexed' : h \in Nat
    BY <2>5, Constants
  <2>7. Listed'
    BY <2>1, <2>2, <2>4, <2>6 DEF Listed
  <2> QED
    BY <2>1, <2>2, <2>3, <2>7 DEF RangeInv
<1>3. ASSUME ReadTip \/ ReadTipShort PROVE RangeInv'
  BY <1>3 DEF ReadTip, ReadTipShort, RangeInv
<1>4. ASSUME GetBlockHash PROVE RangeInv'
  <2> SUFFICES ASSUME req.api = "range" PROVE RangeInv'
    BY <1>4 DEF GetBlockHash, RangeInv
  <2>1. /\ hash' = ciHeight[at % (MaxUint32 + 1)] /\ st = "hash"
        /\ UNCHANGED <<req, resp, indexed>>
    BY <1>4 DEF GetBlockHash
  <2>2. Listed
    BY <2>1 DEF RangeInv
  <2>3. CASE NextHeight /\ hash' = NoBlock
    <3>1. /\ at \in Nat /\ at' = at + 1 /\ req.start \in Nat /\ req.end \in Nat
          /\ req.start <= at /\ at <= req.end /\ at <= MaxUint32
          /\ (st' = "hash" /\ at' <= req.end) \/ (st' = "complete" /\ at' > req.end)
      BY <2>1, <2>3, <1>s, RangeNextHeight
    <3>2. at \notin indexed
      <4>1. at % (MaxUint32 + 1) = at
        BY <3>1, Unsigned, Constants
      <4> QED
        BY <4>1, <2>1, <2>3, <1>s DEF HashInv
    <3>3. \A h \in indexed : h \in Nat /\ h # at
      BY <3>2, <1>s, Constants DEF ServeTypes
    <3>4. \A h \in indexed' : req'.start <= h /\ h < at' =>
              \E i \in DOMAIN resp' : resp'[i].height = h
      BY <2>1, <2>2, <3>1, <3>3 DEF Listed
    <3>5. \A i \in DOMAIN resp' : /\ resp'[i].height \in Nat /\ resp'[i].height < at'
                                  /\ resp'[i].block # NoBlock
                                  /\ Height[resp'[i].block] = resp'[i].height
      BY <2>1, <2>2, <3>1 DEF Listed
    <3>6. Listed'
      BY <2>1, <2>2, <3>4, <3>5 DEF Listed
    <3> QED
      BY <2>1, <3>1, <3>6 DEF RangeInv
  <2>4. CASE hash' # NoBlock /\ st' = AfterHash /\ UNCHANGED at
    <3>1. Listed' /\ st' \in {"read", "write"}
      BY <2>1, <2>2, <2>4 DEF Listed, AfterHash
    <3> QED
      BY <2>1, <2>4, <3>1 DEF RangeInv
  <2> QED
    BY <1>4, <2>3, <2>4 DEF GetBlockHash
<1>5. ASSUME ReadPart \/ ReadShort PROVE RangeInv'
  <2>1. /\ UNCHANGED <<req, at, hash, resp, indexed>> /\ st = "read"
        /\ st' \in {"read", "write"}
    BY <1>5 DEF ReadPart, ReadShort
  <2> QED
    BY <2>1 DEF RangeInv, Listed
<1>6. ASSUME WriteEntry PROVE RangeInv'
  <2> SUFFICES ASSUME req.api = "range" PROVE RangeInv'
    BY <1>6 DEF WriteEntry, RangeInv
  <2> DEFINE entry == [height |-> at, block |-> hash, got |-> got, cut |-> cut]
  <2>1. /\ st = "write" /\ resp' = Append(resp, entry) /\ UNCHANGED <<req, indexed>>
    BY <1>6 DEF WriteEntry, Sent
  <2>2. /\ at \in Nat /\ at' = at + 1 /\ req.start \in Nat /\ req.end \in Nat
        /\ req.start <= at /\ at <= req.end /\ at <= MaxUint32
        /\ (st' = "hash" /\ at' <= req.end) \/ (st' = "complete" /\ at' > req.end)
    BY <1>6, <2>1, <1>s, RangeNextHeight DEF WriteEntry
  <2>3. hash # NoBlock /\ Height[hash] = at
    <3>1. at % (MaxUint32 + 1) = at
      BY <2>2, Unsigned, Constants
    <3> QED
      BY <3>1, <2>1, <1>s DEF RangeInv, HashInv
  <2>4. Listed
    BY <2>1 DEF RangeInv
  <2>5. /\ Len(resp) \in Nat /\ DOMAIN resp = 1 .. Len(resp)
        /\ DOMAIN resp' = 1 .. (Len(resp) + 1)
        /\ \A i \in DOMAIN resp : resp'[i] = resp[i]
        /\ resp'[Len(resp) + 1] = entry
    BY <2>1, <1>s, AppendIsSeq DEF ServeTypes
  <2>6. entry.height = at /\ entry.block = hash
    OBVIOUS
  <2> HIDE DEF entry
  <2>7. \A i \in DOMAIN resp' : i \in DOMAIN resp \/ i = Len(resp) + 1
    BY <2>5
  <2>8. \A i \in DOMAIN resp' : /\ resp'[i].height \in Nat /\ resp'[i].height < at'
                                /\ resp'[i].block # NoBlock
                                /\ Height[resp'[i].block] = resp'[i].height
    BY <2>2, <2>3, <2>4, <2>5, <2>6, <2>7 DEF Listed
  <2>9. \A h \in indexed' : req'.start <= h /\ h < at' =>
            \E i \in DOMAIN resp' : resp'[i].height = h
    <3> SUFFICES ASSUME NEW h \in indexed, req.start <= h, h < at'
                 PROVE  \E i \in DOMAIN resp' : resp'[i].height = h
      BY <2>1
    <3>1. h \in Nat
      BY <1>s, Constants DEF ServeTypes
    <3>2. CASE h = at
      <4>1. Len(resp) + 1 \in DOMAIN resp'
        BY <2>5
      <4> QED
        BY <3>2, <4>1, <2>5, <2>6
    <3>3. CASE h < at
      <4>1. PICK i \in DOMAIN resp : resp[i].height = h
        BY <3>3, <2>4 DEF Listed
      <4>2. i \in DOMAIN resp'
        BY <2>5
      <4> QED
        BY <4>1, <4>2, <2>5
    <3> QED
      BY <3>1, <3>2, <3>3, <2>2
  <2>10. \A i, j \in DOMAIN resp' : i < j => resp'[i].height < resp'[j].height
    <3> SUFFICES ASSUME NEW i \in DOMAIN resp', NEW j \in DOMAIN resp', i < j
                 PROVE  resp'[i].height < resp'[j].height
      OBVIOUS
    <3>1. i \in DOMAIN resp
      BY <2>5
    <3>2. CASE j \in DOMAIN resp
      BY <3>1, <3>2, <2>4, <2>5 DEF Listed
    <3>3. CASE j = Len(resp) + 1
      BY <3>1, <3>3, <2>4, <2>5, <2>6 DEF Listed
    <3> QED
      BY <3>2, <3>3, <2>7
  <2>11. Listed'
    BY <2>8, <2>9, <2>10 DEF Listed
  <2> QED
    BY <2>1, <2>2, <2>11 DEF RangeInv
<1>7. ASSUME Fail PROVE RangeInv'
  BY <1>7 DEF Fail, RangeInv
<1> QED
  BY <1>1, <1>2, <1>3, <1>4, <1>5, <1>6, <1>7 DEF Next, Serve, vars

\* A range that ends with its closing bracket lists every height that was indexed when it
\* was asked for, once and in ascending order, and nothing that has no block, although
\* blocks are applied and replaced between its reads; also a range up to the largest
\* 32-bit height, where the loop goes one beyond.
THEOREM RangeCompleteCorrect == Spec => []RangeComplete
<1>1. Init => Served /\ RangeInv
  BY InitServe, InitRangeInv DEF Served
<1>2. Served /\ RangeInv => RangeComplete
  <2> SUFFICES ASSUME Served, RangeInv, req.api = "range", st = "complete"
               PROVE  /\ \A h \in indexed : h \in req.start .. req.end =>
                             \E i \in DOMAIN resp : resp[i].height = h
                      /\ \A i, j \in DOMAIN resp : i < j => resp[i].height < resp[j].height
                      /\ \A i \in DOMAIN resp : /\ resp[i].block # NoBlock
                                                /\ Height[resp[i].block] = resp[i].height
    BY DEF RangeComplete
  <2>1. Listed /\ at > req.end
    BY DEF RangeInv
  <2>2. req \in Requests /\ at \in Nat
    BY Constants DEF Served, ServeTypes
  <2>3. req.start \in Nat /\ req.end \in Nat
    BY <2>2, RequestTypes, Constants
  <2>4. \A h \in req.start .. req.end : req.start <= h /\ h < at
    BY <2>1, <2>2, <2>3
  <2> QED
    BY <2>1, <2>4 DEF Listed
<1> QED
  BY <1>1, <1>2, ServedStep, NextRangeInv, PTL DEF Spec

----------------------------------------------------------------------------
\* What a part must be for an entry of block b: the data of b, or rows that cover it; and
\* what is left of that when the DB has not completed the read.
PartOK(part, b, x) == IF part = "compute" THEN Covers(b, x) ELSE x = RefPart(part, b)
CutOK(part, b, x) == part = "compute" \/ IsRestriction(x, RefPart(part, b))
PartsOK(kind, b, xs, c) ==
    \A p \in DOMAIN xs : \/ PartOK(Reads(kind)[p], b, xs[p])
                         \/ p \in c /\ CutOK(Reads(kind)[p], b, xs[p])

EntryOK(kind, e) ==
    e.block # NoBlock =>
        /\ e.height <= MaxUint32 => Height[e.block] = e.height
        /\ PartsOK(kind, e.block, e.got, e.cut)

\* The parts read so far belong to the hash, and those of an entry to the block it names.
EntryInv ==
    /\ hash # NoBlock => PartsOK(req.kind, hash, got, cut)
    /\ \A i \in DOMAIN resp : EntryOK(req.kind, resp[i])

\* The rows of a height contain those of every block that the height index ever named.
LEMMA ReadCovers ==
    ASSUME Served, st = "read", hash # NoBlock
    PROVE  Covers(hash, FetchComputeIndex(at % (MaxUint32 + 1)))
<1>1. hash \in ciBlock /\ Height[hash] = at % (MaxUint32 + 1) /\ hash \in Blocks
  BY DEF Served, HashInv, ServeTypes
<1> SUFFICES ASSUME NEW x \in RefTweaks[hash]
             PROVE  \E r \in FetchComputeIndex(at % (MaxUint32 + 1)) :
                        r.txid = x[2] /\ r.outs = TaprootOuts(x[2])
  BY DEF Covers
<1>2. x[2] \in Tweaked[hash] /\ x[2] \in Txids
  BY <1>1, BlockFacts
<1> DEFINE row == ComputeRow(Height[hash], x[2])
<1>3. row \in computeIndex
  BY <1>1, <1>2 DEF Served, IndexInv, TableInv, ComputeRowsOf
<1>4. row.height = Height[hash] /\ row.txid = x[2] /\ row.outs = TaprootOuts(x[2])
  BY <1>2, TxFacts DEF ComputeRow
<1> HIDE DEF row
<1> QED
  BY <1>1, <1>3, <1>4 DEF FetchComputeIndex

\* Whatever a handler reads next belongs to the block whose hash it has.
LEMMA ReadPartOK ==
    ASSUME Served, st = "read", hash # NoBlock, NEW part
    PROVE  PartOK(part, hash, Read(part, hash, at % (MaxUint32 + 1)))
<1>1. IndexInv /\ hash \in ciBlock
  BY DEF Served, HashInv
<1>2. CASE part = "compute"
  BY <1>2, ReadCovers DEF PartOK, Read
<1>3. CASE part # "compute"
  <2>1. Read(part, hash, at % (MaxUint32 + 1)) =
            CASE part = "tweaks"  -> TweaksForBlockAll(hash)
              [] part = "outputs" -> fetchOutputs(hash)
              [] part = "spent"   -> FetchSpentOutputsShort(hash)
              [] OTHER            -> FetchAllTxidOutpointsForBlock(hash)
    BY <1>3 DEF Read
  <2>2. Read(part, hash, at % (MaxUint32 + 1)) = RefPart(part, hash)
    BY <1>1, <2>1, ReadIsBlock DEF RefPart
  <2> QED
    BY <1>3, <2>2 DEF PartOK
<1> QED
  BY <1>2, <1>3

\* What is left of a read that the DB has not completed belongs to that block, too.
LEMMA ShortReadOK ==
    ASSUME Served, st = "read", hash # NoBlock, NEW part,
           NEW x \in ShortRead(part, hash, at % (MaxUint32 + 1))
    PROVE  CutOK(part, hash, x)
<1>1. CASE part = "compute"
  BY <1>1 DEF CutOK
<1>2. CASE part # "compute"
  <2>1. part = "outpoints" /\ x \in ShortTxidOutpoints(hash)
    BY <1>2 DEF ShortRead
  <2>2. txidOutpoints[hash] = RefPart(part, hash)
    <3>1. IndexInv /\ hash \in ciBlock
      BY DEF Served, HashInv
    <3> QED
      BY <2>1, <3>1, ReadIsBlock DEF RefPart, FetchAllTxidOutpointsForBlock
  <2>3. PICK S \in SUBSET DOMAIN txidOutpoints[hash] : x = Restrict(txidOutpoints[hash], S)
    BY <2>1 DEF ShortTxidOutpoints
  <2>4. IsRestriction(x, txidOutpoints[hash])
    BY <2>3 DEF Restrict, IsRestriction
  <2> QED
    BY <2>2, <2>4 DEF CutOK
<1> QED
  BY <1>1, <1>2

LEMMA NoParts == \A kind, b, c : PartsOK(kind, b, <<>>, c)
<1>1. DOMAIN <<>> = {}
  OBVIOUS
<1> QED
  BY <1>1 DEF PartsOK

\* The entry for the chain tip names a block of its height, if it names one.
LEMMA TipEntryOK ==
    ASSUME IndexInv, NEW kind, NEW e, e.height = GetChainTip.height,
           e.block = GetChainTip.block, e.got = <<>>
    PROVE  EntryOK(kind, e)
<1>1. e.height \in Heights /\ e.block = ciHeight[e.height]
  BY TipFacts DEF IndexInv
<1>2. e.block # NoBlock => Height[e.block] = e.height
  BY <1>1 DEF IndexInv, HeightInv
<1> QED
  BY <1>2, NoParts DEF EntryOK

LEMMA NextEntryInv == Served /\ EntryInv /\ [Next]_vars => EntryInv'
<1> SUFFICES ASSUME Served, EntryInv, [Next]_vars PROVE EntryInv'
  OBVIOUS
<1>s. IsSeq(got) /\ IsSeq(resp) /\ IndexInv
  BY DEF Served, ServeTypes
\* A response with one more entry, or with none.
<1>r. ASSUME NEW e, resp' = Sent(e), req' = req, EntryOK(req.kind, e)
      PROVE  \A i \in DOMAIN resp' : EntryOK(req'.kind, resp'[i])
  <2>1. CASE resp' = resp
    BY <2>1, <1>r DEF EntryInv
  <2>2. CASE resp' = Append(resp, e)
    <3>1. /\ Len(resp) \in Nat /\ DOMAIN resp = 1 .. Len(resp)
          /\ DOMAIN resp' = 1 .. (Len(resp) + 1)
          /\ \A i \in DOMAIN resp : resp'[i] = resp[i]
          /\ resp'[Len(resp) + 1] = e
      BY <2>2, <1>s, AppendIsSeq
    <3>2. \A i \in DOMAIN resp' : i \in DOMAIN resp \/ i = Len(resp) + 1
      BY <3>1
    <3> QED
      BY <3>1, <3>2, <1>r DEF EntryInv
  <2> QED
    BY <1>r, <2>1, <2>2 DEF Sent
<1>1. ASSUME UNCHANGED serverVars PROVE EntryInv'
  BY <1>1 DEF serverVars, EntryInv
<1>2. ASSUME NEW r \in Requests, Receive(r) PROVE EntryInv'
  <2>1. got' = <<>> /\ resp' = <<>>
    BY <1>2 DEF Receive, Served, ServeTypes
  <2>2. DOMAIN resp' = {}
    BY <2>1
  <2> QED
    BY <2>1, <2>2, NoParts DEF EntryInv
<1>3. ASSUME ReadTip PROVE EntryInv'
  <2> DEFINE e == [height |-> GetChainTip.height, block |-> GetChainTip.block, got |-> <<>>,
                   cut |-> {}]
  <2>1. resp' = Sent(e) /\ UNCHANGED <<req, hash, got, cut>>
    BY <1>3 DEF ReadTip
  <2>2. EntryOK(req.kind, e)
    BY <1>s, TipEntryOK
  <2> HIDE DEF e
  <2> QED
    BY <2>1, <2>2, <1>r DEF EntryInv
<1>8. ASSUME ReadTipShort PROVE EntryInv'
  <2> DEFINE e == [height |-> 0, block |-> NoBlock, got |-> <<>>, cut |-> {}]
  <2>1. resp' = Sent(e) /\ UNCHANGED <<req, hash, got, cut>>
    BY <1>8 DEF ReadTipShort
  <2>2. EntryOK(req.kind, e)
    BY DEF EntryOK
  <2> HIDE DEF e
  <2> QED
    BY <2>1, <2>2, <1>r DEF EntryInv
<1>4. ASSUME GetBlockHash PROVE EntryInv'
  <2>1. got' = <<>> /\ resp' = resp /\ req' = req
    BY <1>4 DEF GetBlockHash, Served, ServeTypes
  <2> QED
    BY <2>1, NoParts DEF EntryInv
<1>5. ASSUME ReadPart \/ ReadShort PROVE EntryInv'
  <2> DEFINE part == Reads(req.kind)[Len(got) + 1]
             h == at % (MaxUint32 + 1)
  <2>1. PICK x : /\ got' = Append(got, x) /\ UNCHANGED <<req, hash, resp>> /\ st = "read"
                 /\ \/ x = Read(part, hash, h) /\ cut' = cut
                    \/ x \in ShortRead(part, hash, h) /\ cut' = cut \cup {Len(got) + 1}
    BY <1>5 DEF ReadPart, ReadShort
  <2>2. /\ cut \subseteq cut'
        /\ hash # NoBlock => \/ PartOK(part, hash, x)
                             \/ Len(got) + 1 \in cut' /\ CutOK(part, hash, x)
    BY <2>1, ReadPartOK, ShortReadOK
  <2>3. /\ Len(got) \in Nat /\ DOMAIN got = 1 .. Len(got)
        /\ DOMAIN got' = 1 .. (Len(got) + 1)
        /\ \A i \in DOMAIN got : got'[i] = got[i]
        /\ got'[Len(got) + 1] = x
    BY <2>1, <1>s, AppendIsSeq
  <2>4. \A i \in DOMAIN got' : i \in DOMAIN got \/ i = Len(got) + 1
    BY <2>3
  <2>5. hash # NoBlock => PartsOK(req.kind, hash, got', cut')
    BY <2>2, <2>3, <2>4 DEF EntryInv, PartsOK
  <2> QED
    BY <2>1, <2>5 DEF EntryInv
<1>6. ASSUME WriteEntry PROVE EntryInv'
  <2> DEFINE e == [height |-> at, block |-> hash, got |-> got, cut |-> cut]
  <2>1. resp' = Sent(e) /\ req' = req /\ got' = <<>> /\ st = "write"
    BY <1>6 DEF WriteEntry
  <2>2. e.height = at /\ e.block = hash /\ e.got = got /\ e.cut = cut
    OBVIOUS
  <2> HIDE DEF e
  <2>3. hash # NoBlock /\ at <= MaxUint32 => Height[hash] = at
    <3>1. at \in Nat
      BY Constants DEF Served, ServeTypes
    <3>2. at <= MaxUint32 => at % (MaxUint32 + 1) = at
      BY <3>1, Unsigned, Constants
    <3> QED
      BY <2>1, <3>2 DEF Served, HashInv
  <2>4. EntryOK(req.kind, e)
    BY <2>2, <2>3 DEF EntryInv, EntryOK
  <2> QED
    BY <2>1, <2>4, <1>r, NoParts DEF EntryInv
<1>7. ASSUME Fail PROVE EntryInv'
  BY <1>7 DEF Fail, EntryInv
<1> QED
  BY <1>1, <1>2, <1>3, <1>4, <1>5, <1>6, <1>7, <1>8 DEF Next, Serve, vars

LEMMA InitEntryInv == Init => EntryInv
<1> SUFFICES ASSUME Init PROVE EntryInv
  OBVIOUS
<1>1. resp = <<>> /\ hash = NoBlock /\ DOMAIN <<>> = {}
  BY DEF Init
<1> QED
  BY <1>1 DEF EntryInv

LEMMA EntryStep == Served /\ EntryInv /\ [Next]_vars => (Served /\ EntryInv)'
BY ServedStep, NextEntryInv

\* An entry that names a block carries the data of that block and of no other, whatever is
\* applied or replaced between the reads of its parts: what is read by hash or by txid has
\* been written with the block and is never written differently.  An error of the DB that
\* a read does not report only takes transactions away from the outpoints.
THEOREM EntriesAreBlocksCorrect == Spec => []EntriesAreBlocks
<1>1. Init => Served /\ EntryInv
  BY InitServe, InitEntryInv DEF Served
<1>2. EntryInv => EntriesAreBlocks
  BY DEF EntryInv, EntryOK, PartsOK, PartOK, CutOK, EntriesAreBlocks
<1> QED
  BY <1>1, <1>2, EntryStep, PTL DEF Spec

\* The block hash and the compute index of an entry are read apart and the index is keyed
\* by height, yet the rows of an entry contain every transaction with a tweak of the block
\* it names, whatever is applied or replaced in between: rows are only ever added, and
\* those of a block are there before the height index names it.  Excluded is a read in
\* which the iterator fails, whose error FetchComputeIndex does not report (the run of
\* NoSilentLoss).
THEOREM ComputeCoversCorrect == Spec => []ComputeCovers
<1>1. Init => Served /\ EntryInv
  BY InitServe, InitEntryInv DEF Served
<1>2. EntryInv => ComputeCovers
  BY DEF EntryInv, EntryOK, PartsOK, PartOK, ComputeCovers
<1> QED
  BY <1>1, <1>2, EntryStep, PTL DEF Spec
=============================================================================

------------------------------- MODULE Server -------------------------------
(***************************************************************************)
(* The HTTP handlers of internal/server (handler.go, range.go) and the     *)
(* gRPC streams of internal/server/v2/service.go: one request is a series  *)
(* of reads of the DB, without a snapshot, while the indexer writes.       *)
(*                                                                         *)
(* A request is [api, kind, start, end].  api is "block" for the handlers  *)
(* of one height (start = end; HTTP and gRPC), "tip" for the info and the  *)
(* best height, "range" for /range/* and "stream" for the gRPC streams.  An*)
(* entry of a response is the height, the block hash and what the reads    *)
(* returned.  GetChainTip, which the handlers of outputs call and whose    *)
(* result FetchOutputsAll ignores, is there present by its error only.     *)
(*                                                                         *)
(* A read that fails does so in one of two ways: most return the error to  *)
(* the handler (Fail); three do not look at the error of their iterator    *)
(* and return what they have (ReadShort, ReadTipShort).                    *)
(***************************************************************************)
EXTENDS KeyIndex

CONSTANTS
    Requests,       \* the requests a client may send
    MaxRangeBlocks, \* config.MaxRangeBlocks
    MaxUint64,      \* the largest height of a gRPC request
    MaxEntries      \* bound on the entries of a response that are kept

\* The heights of a range are parsed with 32 bits (rangeParams), those of gRPC have 64.
ASSUME ServerAssumption ==
    /\ MaxUint64 \in Nat /\ MaxUint64 > MaxUint32
    /\ MaxRangeBlocks \in Nat /\ MaxEntries \in Nat
    /\ \A r \in Requests :
           /\ r.api \in {"block", "tip", "range", "stream"}
           /\ r.start \in 0 .. MaxUint64 /\ r.end \in 0 .. MaxUint64
           /\ r.api = "range" => r.end <= MaxUint32

NoRequest == [api |-> "none", kind |-> "none", start |-> 0, end |-> 0]

VARIABLES
    req,     \* the request being served
    st,      \* its handler: idle, tip, hash, read, write; complete, truncated, error, rejected
    at,      \* the loop's height, a uint64
    hash,    \* result of GetBlockHashByHeight
    got,     \* results of the other reads for this height
    cut,     \* history: which of them the DB has not completed
    resp,    \* the entries sent
    indexed  \* history: heights that had a block when the request arrived

serverVars == <<req, st, at, hash, got, cut, resp, indexed>>
vars == <<indexVars, serverVars>>

\* What a handler reads of a height after its block hash, in order.  The range
\* handlers and StreamComputeIndex read what the handler of one height reads.
GetTweaks == <<"tweaks">>
GetUtxos == <<"outputs">>
GetSpentOutputs == <<"spent">>
GetComputeIndex == <<"compute">>
GetBlockHashByHeight == <<>>
GetFullBlock == <<"outputs", "tweaks", "outpoints">>
StreamBlockScanDataShort == <<"compute", "spent">>

Reads(kind) ==
    CASE kind = "tweaks"  -> GetTweaks
      [] kind = "utxos"   -> GetUtxos
      [] kind = "spent"   -> GetSpentOutputs
      [] kind = "compute" -> GetComputeIndex
      [] kind = "scan"    -> StreamBlockScanDataShort
      [] kind = "full"    -> GetFullBlock
      [] kind = "hash"    -> GetBlockHashByHeight
      [] OTHER            -> <<>>

\* One read.  The hash of a height that is not indexed is nil, which is the key
\* of no block.
Read(part, b, h) ==
    IF part # "compute" /\ b = NoBlock THEN {} ELSE
    CASE part = "compute"   -> FetchComputeIndex(h)
      [] part = "tweaks"    -> TweaksForBlockAll(b)
      [] part = "outputs"   -> fetchOutputs(b)
      [] part = "spent"     -> FetchSpentOutputsShort(b)
      [] OTHER              -> FetchAllTxidOutpointsForBlock(b)

\* What it may return without an error when the DB fails under it.
ShortRead(part, b, h) ==
    CASE part = "compute" -> ShortComputeIndex(h)
      [] part = "outpoints" /\ b # NoBlock -> ShortTxidOutpoints(b)
      [] OTHER -> {}

Init ==
    /\ IndexInit
    /\ req = NoRequest /\ st = "idle" /\ at = 0 /\ hash = NoBlock
    /\ got = <<>> /\ cut = {} /\ resp = <<>> /\ indexed = {}

----------------------------------------------------------------------------
\* rangeParams rejects an empty or too long range, before anything is read.
rangeParams(r) ==
    r.api = "range" => r.start <= r.end /\ r.end - r.start + 1 <= MaxRangeBlocks

Receive(r) ==
    /\ st = "idle"
    /\ req' = r /\ at' = r.start
    /\ indexed' = {h \in Heights : ciHeight[h] # NoBlock}
    /\ st' = IF ~rangeParams(r) THEN "rejected"
              ELSE IF r.api = "tip" THEN "tip"
              ELSE IF r.start > r.end THEN "complete" ELSE "hash"
    /\ UNCHANGED <<indexVars, hash, got, cut, resp>>

\* The end of a handler of one height, or the loop's increment in uint64: it does not
\* wrap for a range, whose last height has 32 bits, and does for a stream up to MaxUint64.
NextHeight ==
    /\ at' = (at + 1) % (MaxUint64 + 1)
    /\ st' = IF req.api # "block" /\ at' <= req.end THEN "hash" ELSE "complete"

\* Entries of a stream beyond the bound go to the client and are not kept.
Sent(entry) ==
    IF req.api = "stream" /\ Len(resp) >= MaxEntries THEN resp ELSE Append(resp, entry)

AfterHash == IF Reads(req.kind) = <<>> THEN "write" ELSE "read"

\* Faulty variants of the steps below.
GetBlockHashStops ==      \* ends the list at the first height without a block
    /\ st = "hash"
    /\ hash' = ciHeight[at % (MaxUint32 + 1)]
    /\ IF req.api = "range" /\ hash' = NoBlock
       THEN st' = "complete" /\ UNCHANGED at
       ELSE st' = AfterHash /\ UNCHANGED at
    /\ UNCHANGED <<indexVars, req, got, cut, resp, indexed>>
GetBlockHashWaits ==      \* asks again until the height has a block
    /\ st = "hash"
    /\ hash' = ciHeight[at % (MaxUint32 + 1)]
    /\ st' = IF req.api = "range" /\ hash' = NoBlock THEN "hash" ELSE AfterHash
    /\ UNCHANGED <<indexVars, req, at, got, cut, resp, indexed>>
ReadPartByHeight ==       \* looks the hash up again for every read
    /\ st = "read"
    /\ LET h == at % (MaxUint32 + 1)
       IN  got' = Append(got, Read(Reads(req.kind)[Len(got) + 1], ciHeight[h], h))
    /\ st' = IF Len(got') = Len(Reads(req.kind)) THEN "write" ELSE "read"
    /\ UNCHANGED <<indexVars, req, at, hash, cut, resp, indexed>>

\* GetInfo and GetBestBlockHeight: the height, with the hash they leave out.
ReadTip ==
    /\ st = "tip"
    /\ resp' = Sent([height |-> GetChainTip.height, block |-> GetChainTip.block, got |-> <<>>,
                     cut |-> {}])
    /\ st' = "complete"
    /\ UNCHANGED <<indexVars, req, at, hash, got, cut, indexed>>

\* The iterator of GetChainTip finds no last key, because it fails: height 0, no error.
ReadTipShort ==
    /\ st = "tip"
    /\ resp' = Sent([height |-> 0, block |-> NoBlock, got |-> <<>>, cut |-> {}])
    /\ st' = "complete"
    /\ UNCHANGED <<indexVars, req, at, hash, got, cut, indexed>>

\* GetBlockHashByHeight(uint32(height)).  streamBlocks skips a height without a
\* block, the other handlers go on with a nil hash.
GetBlockHash ==
    /\ st = "hash"
    /\ hash' = ciHeight[at % (MaxUint32 + 1)]
    /\ IF req.api = "range" /\ hash' = NoBlock
       THEN NextHeight
       ELSE st' = AfterHash /\ UNCHANGED at
    /\ UNCHANGED <<indexVars, req, got, cut, resp, indexed>>

ReadPart ==
    /\ st = "read"
    /\ got' = Append(got, Read(Reads(req.kind)[Len(got) + 1], hash, at % (MaxUint32 + 1)))
    /\ st' = IF Len(got') = Len(Reads(req.kind)) THEN "write" ELSE "read"
    /\ UNCHANGED <<indexVars, req, at, hash, cut, resp, indexed>>

\* An iterator fails, its error is not looked at, and the handler goes on.
ReadShort ==
    /\ st = "read"
    /\ \E rows \in ShortRead(Reads(req.kind)[Len(got) + 1], hash, at % (MaxUint32 + 1)) :
           got' = Append(got, rows)
    /\ cut' = cut \cup {Len(got) + 1}
    /\ st' = IF Len(got') = Len(Reads(req.kind)) THEN "write" ELSE "read"
    /\ UNCHANGED <<indexVars, req, at, hash, resp, indexed>>

WriteEntry ==
    /\ st = "write"
    /\ resp' = Sent([height |-> at, block |-> hash, got |-> got, cut |-> cut])
    /\ got' = <<>> /\ cut' = {} /\ hash' = NoBlock
    /\ NextHeight
    /\ UNCHANGED <<indexVars, req, indexed>>

\* An error that a read returns, or one of the connection.  A range breaks its list off, a
\* handler of one height answers 500, a stream ends with a status.  A range of
\* outputs answers 500 if it cannot read the chain tip, before it starts the list.
Fail ==
    /\ st \in {"tip", "hash", "read", "write"}
    /\ \/ req.api = "range" /\ st' = "truncated"
       \/ req.api # "range" /\ st' = "error"
       \/ req.api = "range" /\ req.kind = "utxos" /\ st = "hash" /\ at = req.start
          /\ st' = "error"
    /\ UNCHANGED <<indexVars, req, at, hash, got, cut, resp, indexed>>

Serve == ReadTip \/ GetBlockHash \/ ReadPart \/ WriteEntry
Next ==
    \/ IndexNext /\ UNCHANGED serverVars
    \/ \E r \in Requests : Receive(r)
    \/ Serve
    \/ ReadTipShort \/ ReadShort \/ Fail

\* The goroutine that serves a request keeps running.
Spec == Init /\ [][Next]_vars /\ WF_vars(Serve)

----------------------------------------------------------------------------
TypeOK ==
    /\ IndexTypeOK
    /\ req \in Requests \cup {NoRequest}
    /\ st \in {"idle", "tip", "hash", "read", "write", "complete", "truncated", "error", "rejected"}
    /\ at \in 0 .. MaxUint64 /\ hash \in Blocks \cup {NoBlock}
    /\ Len(got) <= Len(Reads(req.kind)) /\ cut \subseteq DOMAIN got /\ indexed \subseteq Heights

\* What a block's own transactions say for a part that is read by hash.
RefPart(part, b) ==
    CASE part = "tweaks"  -> RefTweaks[b]
      [] part = "outputs" -> RefOutputs[b]
      [] part = "spent"   -> UNION {{r[1]} \X TaprootIns(r[2]) : r \in TxRows(b)}
      [] OTHER -> [t \in {u \in TxSet(b) : TaprootIns(u) # {}} |-> TaprootIns(t)]

\* Whatever is written between the reads of a handler, an entry that names a block
\* carries the data of that block and of no other: what is keyed by hash or by txid
\* never changes once the height index names the block.  (Only the outpoints can be
\* incomplete, after an error of the DB; and a height of a gRPC request that has no 32
\* bits names the block at its last 32 bits.)
EntriesAreBlocks ==
    \A i \in DOMAIN resp : resp[i].block # NoBlock =>
        /\ resp[i].height <= MaxUint32 => Height[resp[i].block] = resp[i].height
        /\ \A p \in DOMAIN resp[i].got :
               LET part == Reads(req.kind)[p]
                   ref == RefPart(part, resp[i].block)
               IN  \/ part = "compute"
                   \/ resp[i].got[p] = ref
                   \/ p \in resp[i].cut /\ IsRestriction(resp[i].got[p], ref)

\* Rows in which a scanner finds every transaction of block b that can pay it.
Covers(b, rows) ==
    \A x \in RefTweaks[b] : \E r \in rows : r.txid = x[2] /\ r.outs = TaprootOuts(x[2])

\* A scanner that relies on the compute index misses no transaction of the block an
\* entry names, although hash and index are read apart and the index is keyed by
\* height (range.go 209-255, service.go 92-193), as long as the DB completes the read.
ComputeCovers ==
    \A i \in DOMAIN resp : resp[i].block # NoBlock =>
        \A p \in DOMAIN resp[i].got \ resp[i].cut :
            Reads(req.kind)[p] = "compute" => Covers(resp[i].block, resp[i].got[p])

\* "If the oracle hits a database error partway through, it abandons the stream without
\* its closing bracket": no list with its bracket has an entry that lacks a transaction.
NoSilentLoss ==
    req.api = "range" /\ req.kind = "compute" /\ st = "complete" =>
        \A i \in DOMAIN resp : Covers(resp[i].block, resp[i].got[1])

\* A range that ends with its closing bracket lists every height of the range that
\* was indexed when it was asked for, once, in ascending order, and no height without
\* a block (streamBlocks, range.go 63-131).
RangeComplete ==
    req.api = "range" /\ st = "complete" =>
        /\ \A h \in indexed : h \in req.start .. req.end =>
               \E i \in DOMAIN resp : resp[i].height = h
        /\ \A i, j \in DOMAIN resp : i < j => resp[i].height < resp[j].height
        /\ \A i \in DOMAIN resp :
               resp[i].block # NoBlock /\ Height[resp[i].block] = resp[i].height

\* Every request ends, also a range up to the largest height and a stream beyond it, but
\* for a stream up to the largest uint64: that one goes round as long as it can send.
RequestEnds == (st \in {"tip", "hash"} /\ ~(req.api = "stream" /\ req.end = MaxUint64))
               ~> st \in {"complete", "truncated", "error"}
=============================================================================

---------------------------- MODULE WorkStealing ----------------------------
(***************************************************************************)
(* DBComputeComputeIndexParallel (dbpebble/compute.go): a range of heights *)
(* is cut into pieces, workers take pieces from a shared index, scan the   *)
(* compute index of each for payments to one receiver and send what they   *)
(* found when no piece is left.  The scan follows a rebuild of the index,  *)
(* whose last commits may still be on their way.                           *)
(*                                                                         *)
(* A row of the compute index is the sequence of the outputs of one trans- *)
(* action: number k if the output is P_k, the key that the receiver        *)
(* derives for k from the tweak, and -1 if it is someone else's.  labels   *)
(* is nil in the only call of ReceiverScanTransactionShortOutputs.         *)
(***************************************************************************)
EXTENDS ComputeRebuild, SequencesExt, Bags

CONSTANTS
    Rows,              \* height -> sequence of rows
    Scanners,          \* names for the goroutines
    Scans,             \* the calls: [start, end, workers, size]
    DefaultRangeSize,  \* rangeSize if the argument is 0 (144)
    MaxRanges          \* bound on the length of the list of pieces

ASSUME ScanAssumption ==
    /\ Rows \in [Heights -> Seq(Seq(Int))] /\ IsFiniteSet(Scanners)
    /\ DefaultRangeSize \in Heights \ {0} /\ MaxRanges \in Nat
    /\ Scans \subseteq [start : Heights, end : Heights, size : Heights,
                        workers : 0 .. Cardinality(Scanners)]

VARIABLES
    scan,              \* the arguments of the call, once it is made
    spc,               \* the caller: idle, queue, wait; nil, error
    ranges, current,   \* NewWorkStealingQueue: the pieces and the loop's height
    index,             \* WorkStealingQueue.index
    wspc, piece,       \* a scanner: off, check, take, scan; sent, failed, gone
    found,             \* workerResults of a scanner, as a bag: the order says nothing
    allFoundOutputs,   \* the contents of the results channel, then what is returned
    progress,          \* ProgressTracker.totalProcessed
    cancelled,         \* the caller's context
    visibleAtCall,     \* history: visible when the scan was called
    unread             \* history: heights that a failed iterator did not read to the end

queueVars == <<ranges, current, index>>
scannerVars == <<wspc, piece, found>>
scanVars == <<scan, spc, queueVars, scannerVars, allFoundOutputs, progress, cancelled,
              visibleAtCall, unread>>
vars == <<rebuildVars, scanVars>>

NoPiece == [start |-> 0, end |-> 0]
Wrap(n) == n % (MaxUint32 + 1)

NoScan == [start |-> 0, end |-> 0, size |-> 1, workers |-> 0]

Init ==
    /\ RebuildInit
    /\ scan = NoScan /\ spc = "idle"
    /\ ranges = <<>> /\ current = 0 /\ index = 0
    /\ wspc = [w \in Scanners |-> "off"] /\ piece = [w \in Scanners |-> NoPiece]
    /\ found = [w \in Scanners |-> EmptyBag] /\ allFoundOutputs = EmptyBag
    /\ progress = 0 /\ cancelled = FALSE /\ visibleAtCall = {} /\ unread = {}

----------------------------------------------------------------------------
\* ReceiverScanTransactionShortOutputs: look for P_k, remove the output, go on with
\* k + 1; stop at the first k without an output.
ScanFrom[s \in Nat \X Seq(Int)] ==
    LET k == s[1]
        txOutputs == s[2]
    IN  IF k \in ToSet(txOutputs)
        THEN <<k>> \o ScanFrom[<<k + 1, RemoveFirst(txOutputs, k)>>] ELSE <<>>
ReceiverScan(row) == ScanFrom[<<0, row>>]

\* DBComputeComputeIndex: the rows between the bounds, both heights included, each
\* payment with its height and transaction.
Payments == [h \in Heights |->
    UNION {{<<h, i, k>> : k \in ToSet(ReceiverScan(Rows[h][i]))} : i \in DOMAIN Rows[h]}]
HasRows(first, last) == \E h \in first .. last : h \in visible /\ Rows[h] # <<>>
DBComputeComputeIndex(first, last) ==
    SetToBag(UNION {Payments[h] : h \in (first .. last) \cap visible})
\* The loops over the iterator (56-62, 70-114) end when it fails and never ask it.Error: what
\* was found before row m of height g is returned as if it were all.
ShortComputeScan(first, last, g, m) ==
    SetToBag({x \in UNION {Payments[h] : h \in (first .. last) \cap visible} :
                  x[1] < g \/ (x[1] = g /\ x[2] < m)})

SmallerOf(a, b) == IF a < b THEN a ELSE b
RangeSize(c) == IF c.size = 0 THEN DefaultRangeSize ELSE c.size

\* Faulty variants of the steps below: the bugs the properties must tell apart.
CutPieceInclusive ==      \* current <= endHeight
    /\ spc = "queue" /\ current <= scan.end /\ Len(ranges) < MaxRanges
    /\ ranges' = Append(ranges,
           [start |-> current, end |-> SmallerOf(Wrap(current + RangeSize(scan)), scan.end)])
    /\ current' = Wrap(current + RangeSize(scan))
    /\ UNCHANGED <<rebuildVars, scan, spc, index, scannerVars, allFoundOutputs, progress,
                   cancelled, visibleAtCall, unread>>
GetNextRangeAdded(w) ==   \* uses the value after the addition
    /\ wspc[w] = "take"
    /\ index' = index + 1
    /\ IF index + 1 < Len(ranges)
       THEN piece' = [piece EXCEPT ![w] = ranges[index + 2]] /\ wspc' = [wspc EXCEPT ![w] = "scan"]
       ELSE wspc' = [wspc EXCEPT ![w] = "send"] /\ UNCHANGED piece
    /\ UNCHANGED <<rebuildVars, scan, spc, ranges, current, found, allFoundOutputs, progress,
                   cancelled, visibleAtCall, unread>>

ScanPieceCumulative(w) == \* progress grows by all the pieces taken so far
    /\ wspc[w] = "scan"
    /\ found' = [found EXCEPT ![w] = @ (+) DBComputeComputeIndex(piece[w].start, piece[w].end)]
    /\ progress' = progress + index
    /\ wspc' = [wspc EXCEPT ![w] = "check"] /\ piece' = [piece EXCEPT ![w] = NoPiece]
    /\ UNCHANGED <<rebuildVars, scan, spc, queueVars, allFoundOutputs, cancelled,
                   visibleAtCall, unread>>

----------------------------------------------------------------------------
\* DBComputeComputeIndexParallel follows a rebuild that has returned nil.
CallScan(c) ==
    /\ spc = "idle" /\ ret = "nil"
    /\ scan' = c /\ spc' = "queue" /\ current' = c.start /\ visibleAtCall' = visible
    /\ UNCHANGED <<rebuildVars, ranges, index, scannerVars, allFoundOutputs, progress, cancelled,
                   unread>>

\* NewWorkStealingQueue: current and its sum with rangeSize are uint32.
CutPiece ==
    /\ spc = "queue" /\ current < scan.end /\ Len(ranges) < MaxRanges
    /\ ranges' = Append(ranges,
           [start |-> current, end |-> SmallerOf(Wrap(current + RangeSize(scan)), scan.end)])
    /\ current' = Wrap(current + RangeSize(scan))
    /\ UNCHANGED <<rebuildVars, scan, spc, index, scannerVars, allFoundOutputs, progress,
                   cancelled, visibleAtCall, unread>>

\* At least one worker, and not more than there are pieces.
Spawn ==
    /\ spc = "queue" /\ current >= scan.end
    /\ LET n == SmallerOf(IF scan.workers = 0 THEN 1 ELSE scan.workers, Len(ranges))
       IN  \E started \in SUBSET Scanners :
               /\ Cardinality(started) = n
               /\ wspc' = [w \in Scanners |-> IF w \in started THEN "check" ELSE "off"]
    /\ spc' = "wait"
    /\ UNCHANGED <<rebuildVars, scan, queueVars, piece, found, allFoundOutputs, progress,
                   cancelled, visibleAtCall, unread>>

\* A worker looks at its context before every piece; cancelled, it reports neither
\* results nor an error.
CheckContext(w) ==
    /\ wspc[w] = "check"
    /\ wspc' = [wspc EXCEPT ![w] = IF cancelled THEN "gone" ELSE "take"]
    /\ found' = [found EXCEPT ![w] = IF cancelled THEN EmptyBag ELSE @]
    /\ UNCHANGED <<rebuildVars, scan, spc, queueVars, piece, allFoundOutputs, progress,
                   cancelled, visibleAtCall, unread>>

\* GetNextRange: one atomic addition.
GetNextRange(w) ==
    /\ wspc[w] = "take"
    /\ index' = index + 1
    /\ IF index < Len(ranges)
       THEN piece' = [piece EXCEPT ![w] = ranges[index + 1]] /\ wspc' = [wspc EXCEPT ![w] = "scan"]
       ELSE wspc' = [wspc EXCEPT ![w] = "send"] /\ UNCHANGED piece
    /\ UNCHANGED <<rebuildVars, scan, spc, ranges, current, found, allFoundOutputs, progress,
                   cancelled, visibleAtCall, unread>>

\* The iterator of a piece sees one state of the DB.  A cancelled context is noticed at
\* the first row.
ScanPiece(w) ==
    /\ wspc[w] = "scan"
    /\ IF cancelled /\ HasRows(piece[w].start, piece[w].end)
       THEN /\ wspc' = [wspc EXCEPT ![w] = "failed"] /\ UNCHANGED progress
            /\ found' = [found EXCEPT ![w] = EmptyBag]
       ELSE /\ found' = [found EXCEPT ![w] =
                   @ (+) DBComputeComputeIndex(piece[w].start, piece[w].end)]
            /\ progress' = progress + 1
            /\ wspc' = [wspc EXCEPT ![w] = "check"]
    /\ piece' = [piece EXCEPT ![w] = NoPiece]
    /\ UNCHANGED <<rebuildVars, scan, spc, queueVars, allFoundOutputs, cancelled,
                   visibleAtCall, unread>>

\* The iterator fails at a row.  No error is reported and the piece counts as processed.
\* (A cancelled context is noticed at the first row that is read.)
ScanShort(w) ==
    /\ wspc[w] = "scan"
    /\ \E g \in (piece[w].start .. piece[w].end) \cap visible : \E m \in DOMAIN Rows[g] :
           /\ cancelled => m = 1 /\ ~HasRows(piece[w].start, g - 1)
           /\ found' = [found EXCEPT ![w] =
                  @ (+) ShortComputeScan(piece[w].start, piece[w].end, g, m)]
           /\ unread' = unread \cup (g .. piece[w].end)
    /\ progress' = progress + 1
    /\ wspc' = [wspc EXCEPT ![w] = "check"] /\ piece' = [piece EXCEPT ![w] = NoPiece]
    /\ UNCHANGED <<rebuildVars, scan, spc, queueVars, allFoundOutputs, cancelled, visibleAtCall>>

\* The errors that DBComputeComputeIndex does report, of opening the iterator and of the
\* key arithmetic, go to errorChan; the results of the worker are gone.
ScanFail(w) ==
    /\ wspc[w] = "scan"
    /\ wspc' = [wspc EXCEPT ![w] = "failed"]
    /\ piece' = [piece EXCEPT ![w] = NoPiece] /\ found' = [found EXCEPT ![w] = EmptyBag]
    /\ UNCHANGED <<rebuildVars, scan, spc, queueVars, allFoundOutputs, progress, cancelled,
                   visibleAtCall, unread>>

\* results has room for every worker, and is read in the order of the sends.
SendResults(w) ==
    /\ wspc[w] = "send"
    /\ allFoundOutputs' = allFoundOutputs (+) found[w]
    /\ found' = [found EXCEPT ![w] = EmptyBag]
    /\ wspc' = [wspc EXCEPT ![w] = "sent"]
    /\ UNCHANGED <<rebuildVars, scan, spc, queueVars, piece, progress, cancelled,
                   visibleAtCall, unread>>

\* wg.Wait; with an error the results are dropped.
ReturnScan ==
    /\ spc = "wait" /\ \A w \in Scanners : wspc[w] \in {"off", "sent", "failed", "gone"}
    /\ IF \E w \in Scanners : wspc[w] = "failed"
       THEN spc' = "error" /\ allFoundOutputs' = EmptyBag
       ELSE spc' = "nil" /\ UNCHANGED allFoundOutputs
    /\ UNCHANGED <<rebuildVars, scan, queueVars, scannerVars, progress, cancelled,
                   visibleAtCall, unread>>

\* The caller's context is cancelled.
Cancel ==
    /\ spc \in {"queue", "wait"} /\ ~cancelled
    /\ cancelled' = TRUE
    /\ UNCHANGED <<rebuildVars, scan, spc, queueVars, scannerVars, allFoundOutputs, progress,
                   visibleAtCall, unread>>

Caller == (\E c \in Scans : CallScan(c)) \/ CutPiece \/ Spawn \/ ReturnScan
Scanner(w) == CheckContext(w) \/ GetNextRange(w) \/ ScanPiece(w) \/ SendResults(w)

Next ==
    \/ RebuildNext /\ UNCHANGED scanVars
    \/ Caller \/ Cancel
    \/ \E w \in Scanners : Scanner(w) \/ ScanFail(w) \/ ScanShort(w)

\* Every goroutine is scheduled; nothing has to fail or to be cancelled.
Spec ==
    /\ Init /\ [][Next]_vars
    /\ WF_vars(Producer /\ UNCHANGED scanVars) /\ WF_vars(Return /\ UNCHANGED scanVars)
    /\ WF_vars(Background /\ UNCHANGED scanVars)
    /\ \A w \in Workers : WF_vars(Worker(w) /\ UNCHANGED scanVars)
    /\ WF_vars(Caller) /\ \A w \in Scanners : WF_vars(Scanner(w))

----------------------------------------------------------------------------
TypeOK ==
    /\ RebuildTypeOK
    /\ scan \in Scans \cup {NoScan} /\ spc \in {"idle", "queue", "wait", "nil", "error"}
    /\ ranges \in Seq(Calls) /\ current \in Heights /\ index \in Nat
    /\ wspc \in [Scanners -> {"off", "check", "take", "scan", "send", "sent", "failed", "gone"}]
    /\ piece \in [Scanners -> Calls] /\ DOMAIN found = Scanners
    /\ IsABag(allFoundOutputs) /\ \A w \in Scanners : IsABag(found[w])
    /\ progress \in 0 .. Len(ranges) /\ cancelled \in BOOLEAN
    /\ visibleAtCall \subseteq Heights /\ unread \subseteq Heights

\* The payments of a row: P_0, P_1, ... as long as they are among its outputs.
RowPayments(row) == {k \in 0 .. Len(row) : 0 .. k \subseteq ToSet(row)}

Copies(x, bag) == IF BagIn(x, bag) THEN bag[x] ELSE 0

\* How often a call may return a payment of a height: once, and twice at an inner
\* boundary of its pieces, because a piece includes both of its ends.
AtMost(c, h) ==
    IF h \notin c.start .. c.end THEN 0
    ELSE IF h \in {c.start, c.end} \/ (h - c.start) % RangeSize(c) # 0 THEN 1 ELSE 2

\* current + rangeSize passes the largest height before it reaches the end.
Wraps(c) == \E n \in Heights :
    /\ c.start + n * RangeSize(c) < c.end
    /\ c.start + (n + 1) * RangeSize(c) > MaxUint32

\* Whatever the order in which workers take pieces and finish, a nil error comes with
\* every payment of the range that was visible at the call, with none of them more often
\* than AtMost, and with nothing that is not a visible payment.  Excluded, because there the
\* code does not keep it: payments at or behind a row at which an iterator failed, which
\* nobody reports; a range of one height, for which no piece is cut; a cancelled context;
\* a loop that wraps around.
ScanExact == spc = "nil" /\ ~Wraps(scan) =>
    /\ \A h \in Heights : \A i \in DOMAIN Rows[h] : \A k \in RowPayments(Rows[h][i]) :
           LET n == Copies(<<h, i, k>>, allFoundOutputs)
           IN  /\ n <= (IF h \in visible THEN AtMost(scan, h) ELSE 0)
               /\ /\ ~cancelled /\ h \in visibleAtCall \ unread
                  /\ scan.start < scan.end /\ h \in scan.start .. scan.end
                  => n >= 1
    /\ \A x \in BagToSet(allFoundOutputs) : x[3] \in RowPayments(Rows[x[1]][x[2]])
    /\ ~cancelled => progress = Len(ranges)

\* The scan returns unless its loop over the heights wraps around.
ScanReturns == []((spc = "queue" /\ ~Wraps(scan)) => <>(spc \in {"nil", "error"}))
=============================================================================

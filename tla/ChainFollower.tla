--------------------------- MODULE ChainFollower ---------------------------
(***************************************************************************)
(* The indexer against a node whose best chain moves: the run and the sync *)
(* command (DBIntegrityCheck, InitialSyncToTip or an explicit range,       *)
(* ContinuousSync), the recursion of SingleBlockPullAndHandle that follows *)
(* reorganisations, the writer goroutine behind writerChan, the batches of *)
(* the store, and the end and restart of the process at any point.         *)
(*                                                                         *)
(* The node holds a tree of blocks and moves only to a longer branch.  The *)
(* indexer reads what is committed: CIHeight (height -> hash) and CIBlock  *)
(* (hash -> height), whose entries are never deleted.  SyncBlocks appears  *)
(* by its contract (module SyncBlocks): the heights of its range are       *)
(* applied, each with the node's block of the moment, in any order.        *)
(***************************************************************************)
EXTENDS GapScan, BatchStore, FiniteSetsExt

CONSTANTS
    Genesis, Parent,            \* the block tree; the parent of Genesis is NoBlock
    SyncStartHeight,            \* config.SyncStartHeight
    FirstBest,                  \* the node's best block at the start
    WriterCap,                  \* capacity of writerChan
    Commands,                   \* the command lines in use
    MaxStops                    \* bound on the number of times the process ends

\* A command line: run or sync, --skip-precheck, and --start-height and --end-height
\* (0 if not given), which only sync uses.
CommandLine == [name : {"run", "sync"}, skip : BOOLEAN, start : AllHeights, end : AllHeights]
ToTip(c) == c.start = 0 \/ c.end = 0

ASSUME FollowerAssumption ==
    /\ Genesis \in Blocks /\ FirstBest \in Blocks
    /\ Parent \in [Blocks -> Blocks \cup {NoBlock}]
    /\ HeightOf \in [Blocks -> AllHeights]
    /\ \A b \in Blocks : IF b = Genesis THEN Parent[b] = NoBlock /\ HeightOf[b] = 0
                         ELSE Parent[b] \in Blocks /\ HeightOf[b] = HeightOf[Parent[b]] + 1
    /\ SyncStartHeight \in AllHeights /\ MaxStops \in Nat
    /\ WriterCap \in Nat \ {0} /\ BatchSize \in Nat \ {0}
    /\ Commands \subseteq CommandLine /\ Commands # {}

VARIABLES
    best,         \* external: the node's best block
    blockIndex,   \* CIBlock: the hashes in the DB
    batch, batchCounter, pending,  \* the Store: active batch, counter, background commits
    disk,         \* external: what a kill leaves of the chain index, once that is decided
    cmd,          \* the command line of the process
    phase,        \* where the command is
    synced,       \* the command is past its first sync
    asked,        \* history: the heights the sync command has to index
    todo,         \* heights SyncBlocks has still to store
    pc, at, held, \* SingleBlockPullAndHandle: step, height, block being checked
    writerChan,   \* blocks handed to the writer goroutine of ContinuousSync
    hung,         \* the height whose pull does not return, if any
    stops,        \* how often the process has ended
    exposed       \* history: events that leave a reorganisation unrepaired

db == <<heightIndex, blockIndex, batch, batchCounter, pending>>
command == <<cmd, synced, asked>>
walk == <<pc, at, held, writerChan>>
follower == <<walk, hung>>
vars == <<best, db, disk, scanVars, command, phase, todo, follower, stops, exposed>>

\* The state of the store as a record, and its next state.
StoreState == [heights |-> heightIndex, hashes |-> blockIndex,
               batch |-> batch, counter |-> batchCounter, pending |-> pending]
StoreBecomes(s) ==
    /\ heightIndex' = s.heights /\ blockIndex' = s.hashes
    /\ batch' = s.batch /\ batchCounter' = s.counter /\ pending' = s.pending

\* Blocks the store has accepted and reads do not see.
Unseen == ToSet(batch) \cup UNION {ToSet(pending[i]) : i \in DOMAIN pending}

\* The chain of a block: the smallest set with the block and the parents of its blocks.
\* The node's active chain is that of best.
Chain == [b \in Blocks |-> {x \in Blocks : \A S \in SUBSET Blocks :
    b \in S /\ (\A y \in S : Parent[y] \in S \cup {NoBlock}) => x \in S}]

\* The ancestor of a block at a height.
Ancestors == [b \in Blocks |-> [h \in 0..HeightOf[b] |-> CHOOSE x \in Chain[b] : HeightOf[x] = h]]
Ancestor(b, h) == Ancestors[b][h]
OnBranch(c, b) == HeightOf[c] <= HeightOf[b] /\ Ancestor(b, HeightOf[c]) = c

\* GetChainTip: the last key of CIHeight, 0 on an empty DB.
ChainTip == Max({h \in AllHeights : heightIndex[h] # NoBlock} \cup {0})

\* The blocks that are or will be in the DB.
Seen == blockIndex \cup Unseen \cup ToSet(writerChan)

\* ContinuousSync has nothing left to do, and has the node's best block.
Resting == phase = "continuous" /\ pc = "idle" /\ writerChan = <<>>
CaughtUp == Resting /\ heightIndex[HeightOf[best]] = best

NoSnapshot == [heights |-> <<>>, hashes |-> {}]

Init ==
    /\ best = FirstBest
    /\ heightIndex = [h \in AllHeights |-> NoBlock] /\ blockIndex = {}
    /\ batch = <<>> /\ batchCounter = 0 /\ pending = <<>> /\ disk = NoSnapshot
    /\ startHeight = 0 /\ endHeight = 0 /\ height = 0
    /\ currentRange = NoRange /\ allRanges = <<>>
    /\ cmd = (CHOOSE c \in Commands : TRUE) /\ phase = "off" /\ synced = FALSE /\ asked = {} /\ todo = {}
    /\ pc = "idle" /\ at = 0 /\ held = NoBlock /\ writerChan = <<>> /\ hung = {}
    /\ stops = 0 /\ exposed = {}

----------------------------------------------------------------------------
\* Faulty variants of the steps below: the bugs the properties must tell apart.
FillRangeOpen ==            \* SyncBlocks leaves out the last height of a range
    /\ phase = "fill" /\ allRanges # <<>>
    /\ phase' = "filling"
    /\ todo' = Head(allRanges).start..(Head(allRanges).end - 1)
    /\ allRanges' = Tail(allRanges)
    /\ UNCHANGED <<best, db, disk, startHeight, endHeight, height, currentRange, command,
                   follower, stops, exposed>>
CheckHeightOnly ==          \* asks whether the height is indexed, not the hash
    /\ phase = "continuous" /\ pc = "check"
    /\ IF at > 0 /\ heightIndex[at - 1] # NoBlock
       THEN pc' = "idle" /\ held' = NoBlock /\ at' = 0
       ELSE pc' = "pull" /\ at' = at - 1 /\ UNCHANGED held
    /\ UNCHANGED <<best, db, disk, scanVars, command, phase, todo, writerChan, hung, stops,
                   exposed>>
TickNext ==                 \* pulls the block after the indexed tip, never the best one
    /\ phase = "continuous" /\ pc = "idle"
    /\ HeightOf[best] > ChainTip + 1
    /\ at' = ChainTip + 1 /\ pc' = "pull"
    /\ UNCHANGED <<best, db, disk, scanVars, command, phase, todo, held, writerChan, hung,
                   stops, exposed>>
PullUnbounded ==            \* the channel does not hold the recursion back
    /\ phase = "continuous" /\ pc = "pull" /\ at >= 0 /\ hung = {}
    /\ held' = Ancestor(best, at)
    /\ writerChan' = Append(writerChan, Ancestor(best, at))
    /\ pc' = "check"
    /\ UNCHANGED <<best, db, disk, scanVars, command, phase, todo, at, hung, stops, exposed>>

----------------------------------------------------------------------------
\* A process starts: with the integrity check unless --skip-precheck is given.  A sync
\* command ends by itself, which counts against the bound.
Start(c) ==
    /\ phase \in {"off", "synced"}
    /\ c.name = "sync" => stops < MaxStops
    /\ cmd' = c /\ synced' = FALSE /\ asked' = {}
    /\ phase' = IF c.skip THEN "tip" ELSE "check"
    /\ exposed' = IF c.skip THEN exposed \cup {"skipped"} ELSE exposed
    /\ UNCHANGED <<best, db, disk, scanVars, todo, follower, stops>>

\* DBIntegrityCheck: scan from SyncStartHeight to the indexed tip, ...
DBIntegrityCheck ==
    /\ phase = "check"
    /\ phase' = "scan"
    /\ StartScan(SyncStartHeight, ChainTip)
    /\ UNCHANGED <<best, db, disk, command, todo, follower, stops, exposed>>

Scan ==
    /\ phase = "scan" /\ ScanStep
    /\ UNCHANGED <<best, db, disk, command, phase, todo, follower, stops, exposed>>

ScanEnd ==
    /\ phase = "scan" /\ ScanDone
    /\ phase' = "fill"
    /\ UNCHANGED <<best, db, disk, scanVars, command, todo, follower, stops, exposed>>

\* ... SyncBlocks for one range after the other, ...
FillRange ==
    /\ phase = "fill" /\ allRanges # <<>>
    /\ phase' = "filling"
    /\ todo' = Head(allRanges).start..Head(allRanges).end
    /\ allRanges' = Tail(allRanges)
    /\ UNCHANGED <<best, db, disk, startHeight, endHeight, height, currentRange, command,
                   follower, stops, exposed>>

\* ... and a last flush.  The locals of the scan are gone.
CheckEnd ==
    /\ phase = "fill" /\ allRanges = <<>>
    /\ StoreBecomes(FlushBatch(StoreState))
    /\ phase' = IF synced THEN "done" ELSE "tip"
    /\ StartScan(0, 0)
    /\ UNCHANGED <<best, disk, command, todo, follower, stops, exposed>>

\* InitialSyncToTip, from the later of the indexed tip and SyncStartHeight, plus one; or
\* the range given to the sync command.
InitialSync ==
    /\ phase = "tip"
    /\ LET toTip == cmd.name = "run" \/ ToTip(cmd)
           first == Max({ChainTip, SyncStartHeight}) + 1
       IN  /\ todo' = IF toTip THEN first..HeightOf[best] ELSE cmd.start..cmd.end
           /\ asked' = IF toTip /\ ~cmd.skip THEN (SyncStartHeight + 1)..HeightOf[best]
                       ELSE todo'
    /\ phase' = "initial"
    /\ UNCHANGED <<best, db, disk, scanVars, cmd, synced, follower, stops, exposed>>

\* SyncBlocks pulls the node's block of a height and applies it.
SyncBlock(h) ==
    /\ phase \in {"filling", "initial"} /\ h \in todo \ hung /\ h <= HeightOf[best]
    /\ StoreBecomes(ApplyBlock(StoreState, Ancestor(best, h)))
    /\ todo' = todo \ {h}
    /\ UNCHANGED <<best, disk, scanVars, command, phase, follower, stops, exposed>>

\* A fetch of PullBlockData fails: its error is sent to a channel that nobody reads, and
\* the pull never returns.  The other heights go on, SyncBlocks does not end.  A second
\* failed fetch is a height that is not pulled any more, and needs no step.
SyncHangs(h) ==
    /\ phase \in {"filling", "initial"} /\ h \in todo /\ h <= HeightOf[best] /\ hung = {}
    /\ hung' = {h}
    /\ UNCHANGED <<best, db, disk, scanVars, command, phase, todo, walk, stops, exposed>>

\* The node has no such block: the bad status is Fatal.
SyncAboveTip(h) ==
    /\ phase \in {"filling", "initial"} /\ h \in todo /\ h > HeightOf[best]
    /\ phase' = "fatal"
    /\ UNCHANGED <<best, db, disk, scanVars, command, todo, follower, stops, exposed>>

\* SyncBlocks returns after FlushBatch(true); what follows depends on the command.
SyncReturns ==
    /\ phase \in {"filling", "initial"} /\ todo = {}
    /\ StoreBecomes(FlushBatch(StoreState))
    /\ IF phase = "filling" THEN phase' = "fill" /\ UNCHANGED synced
       ELSE /\ synced' = TRUE
            /\ phase' = IF cmd.name = "run" THEN "continuous"
                        ELSE IF cmd.skip THEN "done" ELSE "check"
    /\ UNCHANGED <<best, disk, scanVars, cmd, asked, todo, follower, stops, exposed>>

\* tickerBlockCheck: the node is ahead of the indexed tip.
Tick ==
    /\ phase = "continuous" /\ pc = "idle"
    /\ HeightOf[best] > ChainTip
    /\ at' = HeightOf[best] /\ pc' = "pull"
    /\ UNCHANGED <<best, db, disk, scanVars, command, phase, todo, held, writerChan, hung,
                   stops, exposed>>

\* SingleBlockPullAndHandle: pullBlock, then handleBlock sends to writerChan, ...
PullAndHandle ==
    /\ phase = "continuous" /\ pc = "pull" /\ at >= 0 /\ hung = {}
    /\ Len(writerChan) < WriterCap
    /\ held' = Ancestor(best, at)
    /\ writerChan' = Append(writerChan, Ancestor(best, at))
    /\ pc' = "check"
    /\ UNCHANGED <<best, db, disk, scanVars, command, phase, todo, at, hung, stops, exposed>>

\* (the failed fetch of the pull leaves ContinuousSync waiting for ever; the writer goes on)
PullHangs ==
    /\ phase = "continuous" /\ pc = "pull" /\ at >= 0 /\ hung = {}
    /\ hung' = {at}
    /\ UNCHANGED <<best, db, disk, scanVars, command, phase, todo, walk, stops, exposed>>

\* ... then BlockhashInDB of the previous hash; if it is missing, one height down.
CheckPrevious ==
    /\ phase = "continuous" /\ pc = "check"
    /\ IF Parent[held] \in blockIndex
       THEN pc' = "idle" /\ held' = NoBlock /\ at' = 0
       ELSE pc' = "pull" /\ at' = at - 1 /\ UNCHANGED held
    /\ UNCHANGED <<best, db, disk, scanVars, command, phase, todo, writerChan, hung, stops,
                   exposed>>

\* height-1 of uint32 0: the node has no block 4294967295, the bad status is Fatal.
PullBelowGenesis ==
    /\ phase = "continuous" /\ pc = "pull" /\ at < 0
    /\ phase' = "fatal"
    /\ UNCHANGED <<best, db, disk, scanVars, command, todo, follower, stops, exposed>>

\* The writer goroutine: ApplyBlock, then FlushBatch(true).
Write ==
    /\ phase = "continuous" /\ writerChan # <<>>
    /\ StoreBecomes(FlushBatch(ApplyBlock(StoreState, Head(writerChan))))
    /\ writerChan' = Tail(writerChan)
    /\ exposed' = IF \E i \in DOMAIN pending : \E b \in ToSet(pending[i]) :
                        b # Head(writerChan) /\ HeightOf[b] = HeightOf[Head(writerChan)]
                  THEN exposed \cup {"overtaken"} ELSE exposed
    /\ UNCHANGED <<best, disk, scanVars, command, phase, todo, pc, at, held, hung, stops>>

\* A background commit reaches the DB.
CommitJob ==
    /\ \E i \in DOMAIN pending : StoreBecomes(CommitPending(StoreState, i))
    /\ UNCHANGED <<best, disk, scanVars, command, phase, todo, follower, stops, exposed>>

\* The command ends with an error or an interrupt, and the deferred Close waits for the
\* pending commits.  What is on the way to the store is gone.
Interrupt ==
    /\ phase \notin {"off", "synced", "fatal", "done", "closing"}
    /\ stops < MaxStops
    /\ phase' = "closing"
    /\ todo' = {} /\ StartScan(0, 0)
    /\ pc' = "idle" /\ at' = 0 /\ held' = NoBlock /\ writerChan' = <<>> /\ hung' = {}
    /\ exposed' = IF phase = "continuous" /\ ~CaughtUp THEN exposed \cup {"stopped"} ELSE exposed
    /\ UNCHANGED <<best, db, disk, command, stops>>

\* Close has waited; having set the closed flag, its own flush does nothing: the batch is
\* dropped.  A sync command without an error ends here too.
Closed ==
    /\ phase \in {"closing", "done"} /\ pending = <<>>
    /\ phase' = IF phase = "closing" THEN "off" ELSE "synced"
    /\ stops' = stops + 1
    /\ batch' = <<>> /\ batchCounter' = 0
    /\ disk' = NoSnapshot
    /\ UNCHANGED <<best, heightIndex, blockIndex, pending, scanVars, command, todo,
                   follower, exposed>>

\* The commits up to now are the ones that a later kill leaves in the NoSync log.
LastSynced ==
    /\ disk = NoSnapshot /\ stops < MaxStops /\ phase \notin {"off", "synced"}
    /\ disk' = [heights |-> heightIndex, hashes |-> blockIndex]
    /\ UNCHANGED <<best, db, scanVars, command, phase, todo, follower, stops, exposed>>

\* The process ends without Close: a kill, Fatal, a panic.
Kill ==
    /\ disk # NoSnapshot
    /\ stops' = stops + 1
    /\ heightIndex' = disk.heights /\ blockIndex' = disk.hashes /\ disk' = NoSnapshot
    /\ batch' = <<>> /\ batchCounter' = 0 /\ pending' = <<>>
    /\ phase' = "off" /\ todo' = {} /\ StartScan(0, 0)
    /\ pc' = "idle" /\ at' = 0 /\ held' = NoBlock /\ writerChan' = <<>> /\ hung' = {}
    /\ exposed' = IF \/ phase \in {"continuous", "fatal"} /\ ~CaughtUp
                     \/ phase \in {"continuous", "fatal", "closing"} /\ disk.heights # heightIndex
                  THEN exposed \cup {"stopped"} ELSE exposed
    /\ UNCHANGED <<best, command>>

\* The node's best chain grows or is replaced by a longer one.
NodeMoves(b) ==
    /\ HeightOf[b] > HeightOf[best]
    /\ best' = b
    /\ exposed' = exposed
        \cup (IF ~OnBranch(best, b) /\ phase # "continuous" THEN {"offline"} ELSE {})
        \cup (IF \E c \in Seen : OnBranch(c, b) /\ ~OnBranch(c, best) THEN {"returned"} ELSE {})
    /\ UNCHANGED <<db, disk, scanVars, command, phase, todo, follower, stops>>

Indexer ==
    \/ \E c \in Commands : Start(c)
    \/ DBIntegrityCheck \/ Scan \/ ScanEnd \/ FillRange \/ CheckEnd \/ InitialSync
    \/ \E h \in AllHeights : SyncBlock(h) \/ SyncAboveTip(h)
    \/ SyncReturns \/ Closed
    \/ Tick \/ PullAndHandle \/ CheckPrevious \/ PullBelowGenesis

Next ==
    \/ Indexer \/ Write \/ CommitJob \/ Interrupt \/ LastSynced \/ Kill
    \/ \E b \in Blocks : NodeMoves(b)
    \/ \E h \in AllHeights : SyncHangs(h)
    \/ PullHangs

\* The process runs, its ticker fires, the writer and the background commits are
\* scheduled; the node moves as it likes, nothing has to end the process or to fail.
Spec == Init /\ [][Next]_vars /\ WF_vars(Indexer) /\ WF_vars(Write) /\ WF_vars(CommitJob)

----------------------------------------------------------------------------
\* Types of the node's and the indexer's state.
TypeOK ==
    /\ best \in Blocks /\ blockIndex \subseteq Blocks
    /\ heightIndex \in [AllHeights -> Blocks \cup {NoBlock}]
    /\ batch \in Seq(Blocks) /\ batchCounter \in 0..BatchSize /\ pending \in Seq(Seq(Blocks))
    /\ cmd \in Commands /\ synced \in BOOLEAN /\ asked \subseteq AllHeights
    /\ phase \in {"off", "check", "scan", "fill", "filling", "tip", "initial", "continuous",
                  "done", "closing", "synced", "fatal"}
    /\ todo \subseteq AllHeights
    /\ pc \in {"idle", "pull", "check"} /\ at \in AllHeights \cup {-1}
    /\ held \in Blocks \cup {NoBlock}
    /\ writerChan \in Seq(Blocks) /\ Len(writerChan) <= WriterCap
    /\ hung \subseteq AllHeights
    /\ stops \in 0..MaxStops
    /\ exposed \subseteq {"stopped", "offline", "returned", "skipped", "overtaken"}

Missing(heights) == {h \in heights : heightIndex[h] = NoBlock}
Linked == \A h \in (SyncStartHeight + 2)..ChainTip :
              Parent[heightIndex[h]] = heightIndex[h - 1]

\* DBIntegrityCheck finds every gap that an ended process has left; in the check that
\* starts a command, with no commit under way, it finds nothing else.  (A tip of 0 is also
\* that of an empty DB, which has no gap: a range that is open at the end of the scan is
\* dropped.)
GapsFound == (phase = "scan" /\ ScanDone /\ endHeight # 0) =>
    \A h \in startHeight..endHeight :
        LET found == \E i \in DOMAIN allRanges : InRange(h, allRanges[i])
        IN  /\ heightIndex[h] = NoBlock => found
            /\ found /\ ~synced => heightIndex[h] = NoBlock

\* Blocks are stored tip first and the process may end in between, yet whenever
\* ContinuousSync rests after an integrity check, every height between the start and the
\* tip is in the DB or held by the store, and at most one of them waits for a next block
\* because the flush found the counter at 0.
NoGaps == (Resting /\ ~cmd.skip) =>
    /\ Missing((SyncStartHeight + 1)..ChainTip) \subseteq {HeightOf[b] : b \in Unseen}
    /\ Len(batch) <= 1

\* ContinuousSync repairs every reorganisation it sees happen to a branch that is new
\* to it: once caught up, the indexed blocks form one chain.
LinkedAfterReorg == (CaughtUp /\ Unseen = {} /\ exposed = {}) => Linked

\* A sync command that has ended without an error has indexed all it was asked for but
\* at most one block, whatever the order of the blocks and of the commits.
SyncLosesAtMostOne == phase = "synced" => Cardinality(Missing(asked)) <= 1

\* The indexer catches up with a node that has come to rest, unless a fetch has failed:
\* the pull in which one does never returns.
CatchesUp == <>[](CaughtUp \/ phase = "fatal" \/ hung # {})

\* "Intended to handle reorgs": the indexed blocks form one chain once caught up, also
\* when the node returns to a branch it had left.
FollowsReorgs == (CaughtUp /\ Unseen = {} /\ exposed \subseteq {"returned"}) => Linked
=============================================================================

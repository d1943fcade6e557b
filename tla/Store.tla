------------------------------- MODULE Store -------------------------------
(***************************************************************************)
(* The write path of internal/database/dbpebble/store.go: the active batch *)
(* that collects blocks, its rotation, the background commits bounded by   *)
(* maxPendingCommits, FlushBatch, Close, and the loss of the unsynced tail *)
(* of Pebble's log when the process dies.                                  *)
(*                                                                         *)
(* One action is one atomic section of the code: what runs under batchSync,*)
(* one atomic load or add, one Commit.  A batch is the set of the blocks   *)
(* attached to it; the keys a block writes are the subject of KeyIndex.    *)
(***************************************************************************)
EXTENDS Integers, Sequences, FiniteSets

CONSTANTS
    Threads,      \* goroutines that call the store
    Appliers,     \* those of them that may call ApplyBlock
    Closers,      \* those of them that may call Close
    Jobs,         \* identities for background commit goroutines
    Blocks,       \* applications of blocks: applying a block again is another element
    BatchSize,    \* Store.batchSize (200)
    MaxPending,   \* Store.maxPendingCommits (10)
    MaxCrashes    \* bound on the number of crashes explored

ASSUME StoreAssumption ==
    /\ IsFiniteSet(Threads) /\ IsFiniteSet(Jobs)
    /\ Appliers \subseteq Threads /\ Closers \subseteq Threads
    /\ BatchSize \in Nat \ {0}
    /\ MaxPending \in Nat \ {0}
    /\ MaxCrashes \in Nat

VARIABLES
    batch,           \* Store.dbBatch: blocks attached and not yet rotated out
    batchCounter,    \* Store.batchCounter
    pendingCommits,  \* Store.pendingCommits
    waitGroup,       \* counter of Store.closeWaitGroup
    closed,          \* Store.closed
    log,             \* external: Pebble's log, the batches in commit order
    dbOpen,          \* external: FALSE once DB.Close has run
    pc, op, arg,     \* per thread: control point, public call, block being applied
    old,             \* per thread: oldBatch between its rotation and its commit
    jobPc, jobBatch, \* per background goroutine
    panicked,        \* a Commit reached a closed Pebble DB
    crashes,
    overtaken        \* history: Close raised the flag over a call past its check

memVars == <<batch, batchCounter, pendingCommits, waitGroup, closed>>
dbVars == <<log, dbOpen, panicked, crashes, overtaken>>
threadVars == <<pc, op, arg, old>>
jobVars == <<jobPc, jobBatch>>
vars == <<memVars, dbVars, threadVars, jobVars>>

Ops == {"none", "apply", "flush", "close"}
Pcs == {"idle", "check", "pending", "wait", "rotate", "commit", "track", "register",
        "attach", "closeWait", "flush", "dbClose", "exited"}
JobPcs == {"none", "commit", "untrack", "done"}

\* In commitBatch, past its look at the closed flag and not yet done.
PastCheck == {"pending", "wait", "rotate", "commit", "track", "register"}

\* Every goroutine stops at the panic of a Commit on a closed DB.
Running == ~panicked

\* The blocks the DB holds, and those in a batch that some goroutine commits.
Committed == UNION {log[i] : i \in DOMAIN log}
InFlight == UNION ({old[t] : t \in Threads} \cup
                   {jobBatch[j] : j \in {k \in Jobs : jobPc[k] = "commit"}})

\* NewStore on an empty DB.
Init ==
    /\ log = <<>> /\ crashes = 0
    /\ batch = {} /\ batchCounter = 0
    /\ pendingCommits = 0 /\ waitGroup = 0 /\ closed = FALSE
    /\ dbOpen = TRUE /\ panicked = FALSE /\ overtaken = FALSE
    /\ pc = [t \in Threads |-> "idle"] /\ op = [t \in Threads |-> "none"]
    /\ arg = [t \in Threads |-> {}] /\ old = [t \in Threads |-> {}]
    /\ jobPc = [j \in Jobs |-> "none"] /\ jobBatch = [j \in Jobs |-> {}]

----------------------------------------------------------------------------
\* Where commitBatch returns to: ApplyBlock attaches its block, Close goes on
\* to close the DB, FlushBatch is done.
AfterCommit(t) ==
    CASE op[t] = "apply" -> "attach"
      [] op[t] = "close" -> "dbClose"
      [] OTHER           -> "idle"

Goto(t, label) == pc' = [pc EXCEPT ![t] = label]

\* oldBatch.Commit(NoSync): atomic, at the end of the log of an open DB.
Commit(b) == dbOpen /\ log' = Append(log, b)

\* Faulty variants of the steps below: the bugs the properties must tell apart.
ApplyBlockTestsFirst(t, b) ==   \* compares the counter before incrementing it
    /\ Running /\ t \in Appliers /\ pc[t] = "idle"
    /\ b \notin batch \cup InFlight \cup Committed
    /\ \A u \in Threads : b \notin arg[u]
    /\ batchCounter' = batchCounter + 1
    /\ op' = [op EXCEPT ![t] = "apply"]
    /\ arg' = [arg EXCEPT ![t] = {b}]
    /\ Goto(t, IF batchCounter > BatchSize THEN "check" ELSE "attach")
    /\ UNCHANGED <<batch, pendingCommits, waitGroup, closed, old, dbVars, jobVars>>
CheckPendingNever(t) ==         \* no bound on the pending commits
    /\ Running /\ pc[t] = "pending"
    /\ Goto(t, "rotate")
    /\ UNCHANGED <<memVars, dbVars, op, arg, old, jobVars>>
RotateKeepsBatch(t) ==          \* commits the active batch without a fresh one
    /\ Running /\ pc[t] = "rotate"
    /\ old' = [old EXCEPT ![t] = batch]
    /\ batchCounter' = 0
    /\ Goto(t, IF op[t] = "apply" THEN "track" ELSE "commit")
    /\ UNCHANGED <<batch, pendingCommits, waitGroup, closed, op, arg, dbVars, jobVars>>
TrackNothing(t) ==              \* the commit is not counted
    /\ Running /\ pc[t] = "track"
    /\ Goto(t, "register")
    /\ UNCHANGED <<memVars, dbVars, op, arg, old, jobVars>>
RegisterWithoutAdd(t) ==        \* the wait group is not told of the goroutine
    /\ Running /\ pc[t] = "register"
    /\ \E j \in Jobs :
        /\ jobPc[j] = "none"
        /\ jobPc' = [jobPc EXCEPT ![j] = "commit"]
        /\ jobBatch' = [jobBatch EXCEPT ![j] = old[t]]
    /\ old' = [old EXCEPT ![t] = {}]
    /\ Goto(t, AfterCommit(t))
    /\ UNCHANGED <<memVars, dbVars, op, arg>>
JobIgnoresError(j) ==           \* a failed commit is logged and the batch closed
    /\ Running /\ jobPc[j] = "commit"
    /\ Commit(jobBatch[j]) \/ UNCHANGED log
    /\ jobPc' = [jobPc EXCEPT ![j] = "untrack"]
    /\ jobBatch' = [jobBatch EXCEPT ![j] = {}]
    /\ UNCHANGED <<memVars, dbOpen, panicked, crashes, overtaken, threadVars>>
JobNeverDone(j) ==              \* wg.Done is missing
    /\ Running /\ jobPc[j] = "done"
    /\ jobPc' = [jobPc EXCEPT ![j] = "none"]
    /\ UNCHANGED <<memVars, dbVars, threadVars, jobBatch>>
CloseWithoutWait(t) ==          \* Close does not wait for the pending commits
    /\ Running /\ pc[t] = "closeWait"
    /\ Goto(t, "flush")
    /\ UNCHANGED <<memVars, dbVars, op, arg, old, jobVars>>

\* collectAndWrite, first section: count the block, decide whether to rotate.
ApplyBlock(t, b) ==
    /\ Running /\ t \in Appliers /\ pc[t] = "idle"
    /\ b \notin batch \cup InFlight \cup Committed
    /\ \A u \in Threads : b \notin arg[u]
    /\ batchCounter' = batchCounter + 1
    /\ op' = [op EXCEPT ![t] = "apply"]
    /\ arg' = [arg EXCEPT ![t] = {b}]
    /\ Goto(t, IF batchCounter + 1 > BatchSize THEN "check" ELSE "attach")
    /\ UNCHANGED <<batch, pendingCommits, waitGroup, closed, old, dbVars, jobVars>>

\* attachBlockToBatch under batchSync; ApplyBlock returns.
Attach(t) ==
    /\ Running /\ pc[t] = "attach"
    /\ batch' = batch \cup arg[t]
    /\ arg' = [arg EXCEPT ![t] = {}]
    /\ op' = [op EXCEPT ![t] = "none"]
    /\ Goto(t, "idle")
    /\ UNCHANGED <<batchCounter, pendingCommits, waitGroup, closed, old, dbVars, jobVars>>

\* FlushBatch(true): with a zero counter there is nothing to flush.
FlushBatch(t) ==
    /\ Running /\ pc[t] = "idle" /\ batchCounter # 0
    /\ op' = [op EXCEPT ![t] = "flush"]
    /\ Goto(t, "check")
    /\ UNCHANGED <<memVars, dbVars, arg, old, jobVars>>

\* commitBatch: the closed flag, ...
CheckClosed(t) ==
    /\ Running /\ pc[t] = "check"
    /\ Goto(t, IF closed THEN AfterCommit(t) ELSE "pending")
    /\ UNCHANGED <<memVars, dbVars, op, arg, old, jobVars>>

\* ... then the bound on pending commits, ...
CheckPending(t) ==
    /\ Running /\ pc[t] = "pending"
    /\ Goto(t, IF pendingCommits >= MaxPending THEN "wait" ELSE "rotate")
    /\ UNCHANGED <<memVars, dbVars, op, arg, old, jobVars>>

\* ... and WaitForPendingCommits when it is reached.
WaitForPendingCommits(t) ==
    /\ Running /\ pc[t] = "wait" /\ waitGroup = 0
    /\ Goto(t, "rotate")
    /\ UNCHANGED <<memVars, dbVars, op, arg, old, jobVars>>

\* rotateLocked.
Rotate(t) ==
    /\ Running /\ pc[t] = "rotate"
    /\ old' = [old EXCEPT ![t] = batch]
    /\ batch' = {} /\ batchCounter' = 0
    /\ Goto(t, IF op[t] = "apply" THEN "track" ELSE "commit")
    /\ UNCHANGED <<pendingCommits, waitGroup, closed, op, arg, dbVars, jobVars>>

\* closeOldBatch inline: the synchronous commit of FlushBatch(true).
CommitSync(t) ==
    /\ Running /\ pc[t] = "commit"
    /\ Commit(old[t])
    /\ old' = [old EXCEPT ![t] = {}]
    /\ Goto(t, AfterCommit(t))
    /\ UNCHANGED <<memVars, dbOpen, panicked, crashes, overtaken, op, arg, jobVars>>

\* The background commit is counted ...
Track(t) ==
    /\ Running /\ pc[t] = "track"
    /\ pendingCommits' = pendingCommits + 1
    /\ Goto(t, "register")
    /\ UNCHANGED <<batch, batchCounter, waitGroup, closed, dbVars, op, arg, old, jobVars>>

\* ... added to the wait group, and its goroutine started.
Register(t) ==
    /\ Running /\ pc[t] = "register"
    /\ waitGroup' = waitGroup + 1
    /\ \E j \in Jobs :
        /\ jobPc[j] = "none"
        /\ jobPc' = [jobPc EXCEPT ![j] = "commit"]
        /\ jobBatch' = [jobBatch EXCEPT ![j] = old[t]]
    /\ old' = [old EXCEPT ![t] = {}]
    /\ Goto(t, AfterCommit(t))
    /\ UNCHANGED <<batch, batchCounter, pendingCommits, closed, dbVars, op, arg>>

\* The background goroutine: commit, decrement the counter, Done.
JobCommit(j) ==
    /\ Running /\ jobPc[j] = "commit"
    /\ Commit(jobBatch[j])
    /\ jobPc' = [jobPc EXCEPT ![j] = "untrack"]
    /\ jobBatch' = [jobBatch EXCEPT ![j] = {}]
    /\ UNCHANGED <<memVars, dbOpen, panicked, crashes, overtaken, threadVars>>

JobUntrack(j) ==
    /\ Running /\ jobPc[j] = "untrack"
    /\ pendingCommits' = pendingCommits - 1
    /\ jobPc' = [jobPc EXCEPT ![j] = "done"]
    /\ UNCHANGED <<batch, batchCounter, waitGroup, closed, dbVars, threadVars, jobBatch>>

JobDone(j) ==
    /\ Running /\ jobPc[j] = "done"
    /\ waitGroup' = waitGroup - 1
    /\ jobPc' = [jobPc EXCEPT ![j] = "none"]
    /\ UNCHANGED <<batch, batchCounter, pendingCommits, closed, dbVars, threadVars, jobBatch>>

\* A Commit that reaches a closed DB: Pebble panics and the process is gone.
CommitOnClosedDB ==
    /\ Running /\ ~dbOpen
    /\ \/ \E t \in Threads : pc[t] = "commit"
       \/ \E j \in Jobs : jobPc[j] = "commit"
    /\ panicked' = TRUE
    /\ UNCHANGED <<memVars, log, dbOpen, crashes, overtaken, threadVars, jobVars>>

\* Close: the flag first, ...
Close(t) ==
    /\ Running /\ t \in Closers /\ pc[t] = "idle" /\ ~closed
    /\ closed' = TRUE
    /\ overtaken' = (\E u \in Threads : pc[u] \in PastCheck)
    /\ op' = [op EXCEPT ![t] = "close"]
    /\ Goto(t, "closeWait")
    /\ UNCHANGED <<batch, batchCounter, pendingCommits, waitGroup, log, dbOpen, panicked,
                   crashes, arg, old, jobVars>>

\* ... then the pending commits, ...
CloseWait(t) ==
    /\ Running /\ pc[t] = "closeWait" /\ waitGroup = 0
    /\ Goto(t, "flush")
    /\ UNCHANGED <<memVars, dbVars, op, arg, old, jobVars>>

\* ... then FlushBatch(true), ...
CloseFlush(t) ==
    /\ Running /\ pc[t] = "flush"
    /\ Goto(t, IF batchCounter = 0 THEN "dbClose" ELSE "check")
    /\ UNCHANGED <<memVars, dbVars, op, arg, old, jobVars>>

\* ... then DB.Close.  Close is deferred by the commands: its caller exits.
DbClose(t) ==
    /\ Running /\ pc[t] = "dbClose"
    /\ dbOpen' = FALSE
    /\ op' = [op EXCEPT ![t] = "none"]
    /\ Goto(t, "exited")
    /\ UNCHANGED <<memVars, log, panicked, crashes, overtaken, arg, old, jobVars>>

\* The process ends (kill, Fatal, a Commit that fails, a panic, or after Close) and a
\* new one opens the DB.  Without a clean DB.Close a suffix of the NoSync log may be lost.
Restart ==
    /\ crashes < MaxCrashes
    /\ crashes' = crashes + 1
    /\ \E n \in 0..Len(log) :
        /\ dbOpen \/ n = Len(log)
        /\ log' = SubSeq(log, 1, n)
    /\ batch' = {} /\ batchCounter' = 0
    /\ pendingCommits' = 0 /\ waitGroup' = 0 /\ closed' = FALSE
    /\ dbOpen' = TRUE /\ panicked' = FALSE /\ overtaken' = FALSE
    /\ pc' = [t \in Threads |-> "idle"] /\ op' = [t \in Threads |-> "none"]
    /\ arg' = [t \in Threads |-> {}] /\ old' = [t \in Threads |-> {}]
    /\ jobPc' = [j \in Jobs |-> "none"] /\ jobBatch' = [j \in Jobs |-> {}]

ThreadStep(t) ==
    \/ Attach(t) \/ CheckClosed(t) \/ CheckPending(t) \/ WaitForPendingCommits(t)
    \/ Rotate(t) \/ CommitSync(t) \/ Track(t) \/ Register(t)
    \/ CloseWait(t) \/ CloseFlush(t) \/ DbClose(t)

JobStep(j) == JobCommit(j) \/ JobUntrack(j) \/ JobDone(j)

Next ==
    \/ \E t \in Threads, b \in Blocks : ApplyBlock(t, b)
    \/ \E t \in Threads : FlushBatch(t) \/ Close(t) \/ ThreadStep(t)
    \/ \E j \in Jobs : JobStep(j)
    \/ CommitOnClosedDB
    \/ Restart

\* The Go scheduler runs every goroutine that can run; nobody is obliged to call
\* the store or to crash.
Fairness ==
    /\ \A t \in Threads : WF_vars(ThreadStep(t))
    /\ \A j \in Jobs : WF_vars(JobStep(j))
    /\ WF_vars(CommitOnClosedDB)

Spec == Init /\ [][Next]_vars /\ Fairness

----------------------------------------------------------------------------
\* Types of the variables of Store and of its goroutines.
TypeOK ==
    /\ batch \subseteq Blocks /\ batchCounter \in Nat
    /\ pendingCommits \in Nat /\ waitGroup \in Nat
    /\ {closed, dbOpen, panicked, overtaken} \subseteq BOOLEAN
    /\ log \in Seq(SUBSET Blocks) /\ crashes \in Nat
    /\ pc \in [Threads -> Pcs] /\ op \in [Threads -> Ops]
    /\ arg \in [Threads -> SUBSET Blocks] /\ old \in [Threads -> SUBSET Blocks]
    /\ jobPc \in [Jobs -> JobPcs] /\ jobBatch \in [Jobs -> SUBSET Blocks]

\* A block ApplyBlock has taken is in exactly one place: on its way into a batch,
\* in the active batch, in one rotated batch, or in one commit of the log.
OnePlace ==
    /\ \A t \in Threads : (arg[t] \cup old[t]) \cap (batch \cup Committed) = {}
    /\ \A j \in Jobs : jobBatch[j] \cap (batch \cup Committed) = {}
    /\ \A t \in Threads, j \in Jobs : (arg[t] \cup old[t]) \cap jobBatch[j] = {}
    /\ \A t, u \in Threads :
        /\ arg[t] \cap old[u] = {}
        /\ t # u => arg[t] \cap arg[u] = {} /\ old[t] \cap old[u] = {}
    /\ \A j, k \in Jobs : j # k => jobBatch[j] \cap jobBatch[k] = {}
    /\ batch \cap Committed = {}
    /\ \A i, k \in DOMAIN log : i # k => log[i] \cap log[k] = {}

\* Goroutines between the increment and the decrement of pendingCommits, and
\* between Add and Done of the wait group.
Counted == {j \in Jobs : jobPc[j] \in {"commit", "untrack"}}
Registering == {t \in Threads : pc[t] = "register"}
Awaited == {j \in Jobs : jobPc[j] # "none"}

\* The two counters of the pending commits agree with the goroutines: the atomic
\* one with those between their increment and decrement, the wait group with
\* those registered and not Done.
Accounting ==
    /\ pendingCommits = Cardinality(Counted) + Cardinality(Registering)
    /\ waitGroup = Cardinality(Awaited)

\* "maximum number of batches to keep in memory": the check and the increment are
\* not atomic, so each further concurrent caller may exceed the limit by one.
PendingBound == pendingCommits <= MaxPending + Cardinality(Appliers) - 1

\* Close waits for every commit it can know of: one reaches a closed DB only when a call
\* had passed the closed check before Close raised the flag.
PanicOnlyIfOvertaken == panicked => overtaken

\* A block is counted before it is attached, and a rotation between the two resets the
\* counter: it trails the batch by at most one block per applier, so a batch never holds
\* more than BatchSize blocks and one per applier while the store is open.
BatchBound ==
    /\ Cardinality(batch) <= batchCounter + Cardinality(Appliers)
    /\ ~closed => Cardinality(batch) <= BatchSize + Cardinality(Appliers)

\* "Flush any remaining batch synchronously": a closed store has no block left in
\* its batch.
CloseFlushes == ~dbOpen => batch = {}

\* Close returns, unless a commit that slipped past it has panicked or the process has ended.
CloseReturns == closed ~> (~dbOpen \/ panicked \/ crashes > 0)

\* A rotated batch reaches the DB, unless Close closed the DB under it or the process has
\* ended.
RotatedIsCommitted ==
    \A b \in Blocks : b \in InFlight ~> (b \in Committed \/ panicked \/ crashes > 0)

\* The store implements WriteBehind: batches become visible whole and once, no held
\* block is dropped by a rotation, a flush or a commit, whatever the callers do.
Abstract == INSTANCE WriteBehind WITH held <- batch \cup InFlight, published <- log
Implements == Abstract!Spec
=============================================================================

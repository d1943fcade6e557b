----------------------------- MODULE SyncBlocks -----------------------------
(***************************************************************************)
(* Builder.SyncBlocks (internal/indexer/builder.go): one goroutine starts  *)
(* a pull per height under a semaphore, the pulls fetch from the node and  *)
(* feed newBlockChan, workers feed writerChan, one writer applies to the   *)
(* store, and the caller waits in a select for ctx, an error or doneChan.  *)
(* PullBlockData (pull.go), which each pull runs, is included: its two     *)
(* fetch goroutines, its wait group and its unbuffered error channel.      *)
(*                                                                         *)
(* A block is its height.  A send on an unbuffered errChan is a goroutine  *)
(* parked in a "...err" state until the caller's select takes it.          *)
(***************************************************************************)
EXTENDS Integers, Sequences, FiniteSets

CONSTANTS
    StartHeight, EndHeight,   \* arguments of SyncBlocks
    MaxParallelRequests,      \* capacity of pullSemaphore
    Workers,                  \* MaxParallelTweakComputations handler goroutines
    NewBlockCap,              \* capacity of newBlockChan (MaxParallelRequests * 20)
    WriterCap                 \* capacity of writerChan (workers * 20)

ASSUME SyncAssumption ==
    /\ StartHeight \in Nat /\ EndHeight \in Nat
    /\ MaxParallelRequests \in Nat \ {0}   \* LoadConfigs: max(1, ...)
    /\ NewBlockCap \in Nat \ {0} /\ WriterCap \in Nat \ {0}
    /\ IsFiniteSet(Workers) /\ Workers # {}

Heights == StartHeight..EndHeight
Parts == {"spent", "block"}   \* getSpentUtxos and getBlockByHash

VARIABLES
    ctxDone,        \* the context is cancelled
    puller, next,   \* the pulling goroutine and its loop variable
    pull,           \* the goroutine of each height
    part,           \* the two fetch goroutines of each PullBlockData
    newBlockChan, newClosed,
    worker, item,   \* the handlers and the block each one holds
    writerChan, writerClosed,
    writer, wItem,  \* the writer and the block it applies
    doneClosed,     \* doneChan is closed
    applied,        \* heights handed to store.ApplyBlock
    main            \* the caller: in its select, or what it returned

sources == <<puller, next, pull, part>>
queue == <<newBlockChan, newClosed>>
handlers == <<worker, item>>
sink == <<writerChan, writerClosed, writer, wItem, doneClosed, applied>>
vars == <<ctxDone, sources, queue, handlers, sink, main>>

NoBlock == StartHeight - 1

Init ==
    /\ ctxDone = FALSE
    /\ puller = "loop" /\ next = StartHeight
    /\ pull = [h \in Heights |-> "none"]
    /\ part = [h \in Heights |-> [p \in Parts |-> "run"]]
    /\ newBlockChan = <<>> /\ newClosed = FALSE
    /\ worker = [w \in Workers |-> "recv"] /\ item = [w \in Workers |-> NoBlock]
    /\ writerChan = <<>> /\ writerClosed = FALSE
    /\ writer = "recv" /\ wItem = NoBlock /\ doneClosed = FALSE
    /\ applied = {} /\ main = "select"

\* A Fatal log ends the process and every goroutine with it.
Alive == main # "fatal"

\* Faulty variant of Outstanding: Done is deferred, a failed pull counts as done.
OutstandingUntilError == {h \in Heights : pull[h] \notin {"none", "done", "err", "dead"}}

\* Slots of pullSemaphore in use; the pulls the wait group still waits for.  A pull
\* that failed gives its slot back once its error is taken and never calls Done.
InSemaphore == {h \in Heights : pull[h] \in {"hash", "fetch", "send", "err"}}
Outstanding == {h \in Heights : pull[h] \notin {"none", "done"}}

----------------------------------------------------------------------------
\* Faulty variants of the steps below: the bugs the properties must tell apart.
PullerSpawnPastEnd ==         \* the loop runs once too often
    /\ puller = "loop" /\ next <= EndHeight + 1
    /\ Cardinality(InSemaphore) < MaxParallelRequests
    /\ pull' = [pull EXCEPT ![next] = "hash"]
    /\ next' = next + 1
    /\ UNCHANGED <<ctxDone, puller, part, queue, handlers, sink, main>>
PullerEndEarly ==             \* newBlockChan is closed without wg.Wait
    /\ puller = "loop" /\ next > EndHeight
    /\ newClosed' = TRUE /\ puller' = "gone"
    /\ UNCHANGED <<ctxDone, next, pull, part, newBlockChan, handlers, sink, main>>
WorkerRecvPeeks(w) ==         \* the block stays in the channel
    /\ worker[w] = "recv" /\ newBlockChan # <<>>
    /\ item' = [item EXCEPT ![w] = Head(newBlockChan)]
    /\ worker' = [worker EXCEPT ![w] = "check"]
    /\ UNCHANGED <<ctxDone, sources, queue, sink, main>>
CloseWriterChanAny ==         \* writerChan is closed after the first handler
    /\ ~writerClosed /\ \E w \in Workers : worker[w] = "exit"
    /\ writerClosed' = TRUE
    /\ UNCHANGED <<ctxDone, sources, queue, handlers, writerChan, writer, wItem,
                   doneClosed, applied, main>>
WriterEndSilent ==            \* the writer exits without closing doneChan
    /\ writer = "exit" /\ UNCHANGED vars

----------------------------------------------------------------------------
\* The pulling goroutine: a slot of the semaphore, then a goroutine for the height.
PullerSpawn ==
    /\ puller = "loop" /\ next <= EndHeight
    /\ Cardinality(InSemaphore) < MaxParallelRequests
    /\ pull' = [pull EXCEPT ![next] = "hash"]
    /\ next' = next + 1
    /\ UNCHANGED <<ctxDone, puller, part, queue, handlers, sink, main>>

\* Its select also sees the cancelled context: errChan <- ctx.Err(), no close.
PullerCancelled ==
    /\ puller = "loop" /\ next <= EndHeight /\ ctxDone
    /\ puller' = "err"
    /\ UNCHANGED <<ctxDone, next, pull, part, queue, handlers, sink, main>>

\* wg.Wait, then close(newBlockChan).
PullerEnd ==
    /\ puller = "loop" /\ next > EndHeight /\ Outstanding = {}
    /\ newClosed' = TRUE /\ puller' = "gone"
    /\ UNCHANGED <<ctxDone, next, pull, part, newBlockChan, handlers, sink, main>>

\* pullBlock: getBlockHashByHeight returns a hash or an error.
HashLookup(h) ==
    /\ pull[h] = "hash"
    /\ \E r \in {"fetch", "err"} : pull' = [pull EXCEPT ![h] = r]
    /\ UNCHANGED <<ctxDone, puller, next, part, queue, handlers, sink, main>>

\* PullBlockData: each fetch ends with its data, or with an error that it sends on
\* the unbuffered errChan before its deferred wg.Done.
Fetch(h, p) ==
    /\ pull[h] = "fetch" /\ part[h][p] = "run"
    /\ \E r \in {"ok", "err"} : part' = [part EXCEPT ![h][p] = r]
    /\ UNCHANGED <<ctxDone, puller, next, pull, queue, handlers, sink, main>>

\* PullBlockData: wg.Wait for both fetches, only then the select on errChan; the merge
\* fails when the block and the spent outputs differ in length.
Join(h) ==
    /\ pull[h] = "fetch" /\ \A p \in Parts : part[h][p] = "ok"
    /\ \E r \in {"send", "err"} : pull' = [pull EXCEPT ![h] = r]
    /\ UNCHANGED <<ctxDone, puller, next, part, queue, handlers, sink, main>>

\* A status code other than 200 in any call to the node is Fatal: the three of a pull
\* and the GetChainInfo of the writer's progress report.
BadStatus ==
    /\ Alive
    /\ \/ \E h \in Heights : \/ pull[h] = "hash"
                             \/ pull[h] = "fetch" /\ \E p \in Parts : part[h][p] = "run"
       \/ writer = "recv"
    /\ main' = "fatal"
    /\ UNCHANGED <<ctxDone, sources, queue, handlers, sink>>

\* pullBlockToChan sends the block; wg.Done and the slot follow.  (On a closed channel
\* it would panic: NoSendAfterClose.)
PullSend(h) ==
    /\ pull[h] = "send" /\ ~newClosed /\ Len(newBlockChan) < NewBlockCap
    /\ newBlockChan' = Append(newBlockChan, h)
    /\ pull' = [pull EXCEPT ![h] = "done"]
    /\ UNCHANGED <<ctxDone, puller, next, part, newClosed, handlers, sink, main>>

\* A handler takes a block, ...
WorkerRecv(w) ==
    /\ worker[w] = "recv" /\ newBlockChan # <<>>
    /\ item' = [item EXCEPT ![w] = Head(newBlockChan)]
    /\ newBlockChan' = Tail(newBlockChan)
    /\ worker' = [worker EXCEPT ![w] = "check"]
    /\ UNCHANGED <<ctxDone, sources, newClosed, sink, main>>

\* ... leaves when the channel is drained and closed or the context cancelled, ...
WorkerExit(w) ==
    /\ worker[w] = "recv"
    /\ ctxDone \/ (newClosed /\ newBlockChan = <<>>)
    /\ worker' = [worker EXCEPT ![w] = "exit"]
    /\ UNCHANGED <<ctxDone, sources, queue, item, sink, main>>

\* ... and in handleBlock looks at the context before it sends to writerChan.
HandleBlock(w) ==
    /\ worker[w] = "check"
    /\ worker' = [worker EXCEPT ![w] = IF ctxDone THEN "err" ELSE "send"]
    /\ UNCHANGED <<ctxDone, sources, queue, item, sink, main>>

WorkerSend(w) ==
    /\ worker[w] = "send" /\ ~writerClosed /\ Len(writerChan) < WriterCap
    /\ writerChan' = Append(writerChan, item[w])
    /\ worker' = [worker EXCEPT ![w] = "recv"]
    /\ item' = [item EXCEPT ![w] = NoBlock]
    /\ UNCHANGED <<ctxDone, sources, queue, writerClosed, writer, wItem, doneClosed,
                   applied, main>>

\* handleWG.Wait, then close(writerChan).
CloseWriterChan ==
    /\ ~writerClosed /\ \A w \in Workers : worker[w] = "exit"
    /\ writerClosed' = TRUE
    /\ UNCHANGED <<ctxDone, sources, queue, handlers, writerChan, writer, wItem,
                   doneClosed, applied, main>>

\* The writer takes a block, ...
WriterRecv ==
    /\ writer = "recv" /\ writerChan # <<>>
    /\ writerChan' = Tail(writerChan)
    /\ wItem' = Head(writerChan) /\ writer' = "apply"
    /\ UNCHANGED <<ctxDone, sources, queue, handlers, writerClosed, doneClosed, applied, main>>

\* ... applies it, or reports the failure of ApplyBlock, ...
WriterApply ==
    /\ writer = "apply"
    /\ \/ writer' = "recv" /\ applied' = applied \cup {wItem} /\ wItem' = NoBlock
       \/ writer' = "err" /\ UNCHANGED <<applied, wItem>>
    /\ UNCHANGED <<ctxDone, sources, queue, handlers, writerChan, writerClosed, doneClosed, main>>

\* ... reports a GetChainTip that fails at a tick of blockHeightTicker, ...
WriterTick ==
    /\ writer = "recv"
    /\ writer' = "err"
    /\ UNCHANGED <<ctxDone, sources, queue, handlers, writerChan, writerClosed, wItem,
                   doneClosed, applied, main>>

\* ... leaves when the channel is drained and closed or the context cancelled, ...
WriterExit ==
    /\ writer = "recv"
    /\ ctxDone \/ (writerClosed /\ writerChan = <<>>)
    /\ writer' = "exit"
    /\ UNCHANGED <<ctxDone, sources, queue, handlers, writerChan, writerClosed, wItem,
                   doneClosed, applied, main>>

\* ... and closes doneChan in every case.
WriterEnd ==
    /\ writer = "exit" /\ ~doneClosed
    /\ doneClosed' = TRUE
    /\ UNCHANGED <<ctxDone, sources, queue, handlers, writerChan, writerClosed, writer,
                   wItem, applied, main>>

----------------------------------------------------------------------------
\* The caller's select: the context, ...
MainCancelled ==
    /\ main = "select" /\ ctxDone
    /\ main' = "ctxErr"
    /\ UNCHANGED <<ctxDone, sources, queue, handlers, sink>>

\* ... one error, which lets its sender go on, ...
MainError ==
    /\ main = "select" /\ main' = "err"
    /\ \/ /\ puller = "err" /\ puller' = "gone"
          /\ UNCHANGED <<pull, worker, item, writer>>
       \/ \E h \in Heights :
            /\ pull[h] = "err" /\ pull' = [pull EXCEPT ![h] = "dead"]
            /\ UNCHANGED <<puller, worker, item, writer>>
       \/ \E w \in Workers :
            /\ worker[w] = "err" /\ worker' = [worker EXCEPT ![w] = "recv"]
            /\ item' = [item EXCEPT ![w] = NoBlock]
            /\ UNCHANGED <<puller, pull, writer>>
       \/ writer = "err" /\ writer' = "exit" /\ UNCHANGED <<puller, pull, worker, item>>
    /\ UNCHANGED <<ctxDone, next, part, queue, writerChan, writerClosed, wItem, doneClosed,
                   applied>>

\* ... or doneChan: return store.FlushBatch(true).
MainDone ==
    /\ main = "select" /\ doneClosed
    /\ main' = "nil"
    /\ UNCHANGED <<ctxDone, sources, queue, handlers, sink>>

\* The interrupt, or the command's own error, cancels the context.
Cancel ==
    /\ Alive /\ ~ctxDone
    /\ ctxDone' = TRUE
    /\ UNCHANGED <<sources, queue, handlers, sink, main>>

PullerStep == Alive /\ (PullerSpawn \/ PullerCancelled \/ PullerEnd)
PullStep(h) == Alive /\ (HashLookup(h) \/ Join(h) \/ PullSend(h))
FetchStep(h, p) == Alive /\ Fetch(h, p)
WorkerStep(w) == Alive /\ (WorkerRecv(w) \/ WorkerExit(w) \/ HandleBlock(w) \/ WorkerSend(w))
CloserStep == Alive /\ CloseWriterChan
WriterStep == Alive /\ (WriterRecv \/ WriterApply \/ WriterExit \/ WriterEnd)
MainStep == MainCancelled \/ MainError \/ MainDone

Next ==
    \/ PullerStep \/ CloserStep \/ WriterStep \/ MainStep
    \/ \E h \in Heights : PullStep(h) \/ \E p \in Parts : FetchStep(h, p)
    \/ \E w \in Workers : WorkerStep(w)
    \/ (Alive /\ WriterTick) \/ BadStatus \/ Cancel

\* The Go scheduler runs what can run, and every HTTP call ends: httpClient has a
\* timeout.  No tick, bad status or cancellation has to happen.
Fairness ==
    /\ WF_vars(PullerStep) /\ WF_vars(CloserStep) /\ WF_vars(WriterStep) /\ WF_vars(MainStep)
    /\ \A h \in Heights : WF_vars(PullStep(h)) /\ \A p \in Parts : WF_vars(FetchStep(h, p))
    /\ \A w \in Workers : WF_vars(WorkerStep(w))

Spec == Init /\ [][Next]_vars /\ Fairness

----------------------------------------------------------------------------
\* Types of the goroutines' control points and of the channels.
TypeOK ==
    /\ ctxDone \in BOOLEAN /\ newClosed \in BOOLEAN /\ writerClosed \in BOOLEAN
    /\ doneClosed \in BOOLEAN
    /\ puller \in {"loop", "err", "gone"}
    /\ next \in {StartHeight} \cup StartHeight..(EndHeight + 1)
    /\ pull \in [Heights -> {"none", "hash", "fetch", "send", "done", "err", "dead"}]
    /\ part \in [Heights -> [Parts -> {"run", "ok", "err"}]]
    /\ newBlockChan \in Seq(Heights) /\ Len(newBlockChan) <= NewBlockCap
    /\ worker \in [Workers -> {"recv", "check", "send", "err", "exit"}]
    /\ item \in [Workers -> Heights \cup {NoBlock}]
    /\ writerChan \in Seq(Heights) /\ Len(writerChan) <= WriterCap
    /\ writer \in {"recv", "apply", "err", "exit"} /\ wItem \in Heights \cup {NoBlock}
    /\ applied \subseteq Heights
    /\ main \in {"select", "nil", "err", "ctxErr", "fatal"}

\* How often the pipeline holds height h, from newBlockChan to the store.
Occurrences(h) ==
    Cardinality({i \in DOMAIN newBlockChan : newBlockChan[i] = h})
    + Cardinality({w \in Workers : item[w] = h})
    + Cardinality({i \in DOMAIN writerChan : writerChan[i] = h})
    + (IF wItem = h THEN 1 ELSE 0) + (IF h \in applied THEN 1 ELSE 0)

\* Every pulled block is in the pipeline exactly once until it is applied, and only
\* an error that the caller has already been given drops one.
ExactlyOnce ==
    \A h \in Heights :
        /\ Occurrences(h) <= 1
        /\ main \notin {"err", "fatal"} => (Occurrences(h) = 1 <=> pull[h] = "done")

\* SyncBlocks returns nil only if every height of the range was given to the store,
\* unless the context was cancelled: an error anywhere keeps doneChan open.  A cancelled
\* writer closes doneChan too, and the select may take that for the end of the range.
NilMeansAll == (main = "nil" /\ ~ctxDone) => applied = Heights

\* When SyncBlocks returns nil none of its goroutines is left to touch the builder's
\* channels, which the next SyncBlocks or ContinuousSync replaces.
NilMeansQuiet ==
    (main = "nil" /\ ~ctxDone) =>
        /\ puller = "gone" /\ \A h \in Heights : pull[h] = "done"
        /\ \A w \in Workers : worker[w] = "exit"
        /\ writer = "exit" /\ newBlockChan = <<>> /\ writerChan = <<>>

\* "Close writerChan after all handlers finish sending": no goroutine is left that
\* could send on a closed channel, which panics.
NoSendAfterClose ==
    /\ newClosed => \A h \in Heights : pull[h] \notin {"hash", "fetch", "send"}
    /\ writerClosed => \A w \in Workers : worker[w] \notin {"check", "send"}

FetchFailed == \E h \in Heights, p \in Parts : part[h][p] = "err"

\* SyncBlocks returns, whatever fails, as long as no fetch inside PullBlockData does.
Returns == <>(main # "select" \/ FetchFailed)

\* "ended with err": the error of a fetch is returned, so SyncBlocks returns.
FetchErrorReturned == FetchFailed ~> main # "select"
=============================================================================

-------------------------- MODULE SyncBlocksProofs --------------------------
(***************************************************************************)
(* Proofs about SyncBlocks for every range of heights, every number of     *)
(* handlers and of parallel requests and every capacity of the channels.   *)
(***************************************************************************)
EXTENDS SyncBlocks, FiniteSetTheorems, TLAPS

LEMMA Constants ==
    /\ StartHeight \in Nat /\ EndHeight \in Nat /\ NoBlock \in Int
    /\ NoBlock \notin Heights
    /\ MaxParallelRequests \in Nat /\ NewBlockCap \in Nat \ {0} /\ WriterCap \in Nat \ {0}
    /\ Workers # {} /\ IsFiniteSet(Workers)
BY SyncAssumption DEF NoBlock, Heights

LEMMA InitTypeOK == Init => TypeOK
<1> SUFFICES ASSUME Init PROVE TypeOK
  OBVIOUS
<1>1. ctxDone \in BOOLEAN /\ newClosed \in BOOLEAN /\ writerClosed \in BOOLEAN
      /\ doneClosed \in BOOLEAN
  BY Zenon DEF Init
<1>2. /\ puller \in {"loop", "err", "gone"}
      /\ next \in {StartHeight} \cup StartHeight..(EndHeight + 1)
      /\ newBlockChan \in Seq(Heights) /\ Len(newBlockChan) <= NewBlockCap
      /\ writerChan \in Seq(Heights) /\ Len(writerChan) <= WriterCap
      /\ writer \in {"recv", "apply", "err", "exit"} /\ wItem \in Heights \cup {NoBlock}
      /\ applied \subseteq Heights
      /\ main \in {"select", "nil", "err", "ctxErr", "fatal"}
  BY Constants DEF Init
<1>3. /\ pull \in [Heights -> {"none", "hash", "fetch", "send", "done", "err", "dead"}]
      /\ part \in [Heights -> [Parts -> {"run", "ok", "err"}]]
      /\ worker \in [Workers -> {"recv", "check", "send", "err", "exit"}]
      /\ item \in [Workers -> Heights \cup {NoBlock}]
  BY DEF Init
<1> QED
  BY <1>1, <1>2, <1>3 DEF TypeOK

\* A goroutine that holds a block knows it, and one that waits for the next holds none.
Holding ==
    /\ \A w \in Workers : worker[w] \in {"check", "send", "err"} <=> item[w] \in Heights
    /\ writer = "recv" => wItem = NoBlock
    /\ writer = "apply" => wItem \in Heights

LEMMA InitHolding == Init => Holding
BY Constants DEF Init, Holding

LEMMA NextTypeOK == TypeOK /\ Holding /\ [Next]_vars => TypeOK'
<1> SUFFICES ASSUME TypeOK, Holding, [Next]_vars PROVE TypeOK'
  OBVIOUS
<1> USE Constants DEF TypeOK, sources, queue, handlers, sink
<1>1. ASSUME PullerStep PROVE TypeOK'
  <2>1. CASE PullerSpawn
    <3>1. next' \in {StartHeight} \cup StartHeight..(EndHeight + 1)
      BY <2>1 DEF PullerSpawn
    <3> QED
      BY <2>1, <3>1 DEF PullerSpawn
  <2>2. CASE PullerCancelled \/ PullerEnd
    BY <2>2 DEF PullerCancelled, PullerEnd
  <2> QED
    BY <1>1, <2>1, <2>2 DEF PullerStep
<1>2. ASSUME NEW h \in Heights, HashLookup(h) PROVE TypeOK'
  BY <1>2 DEF HashLookup
<1>3. ASSUME NEW h \in Heights, Join(h) PROVE TypeOK'
  BY <1>3 DEF Join
<1>4. ASSUME NEW h \in Heights, PullSend(h) PROVE TypeOK'
  BY <1>4 DEF PullSend
<1>5. ASSUME NEW h \in Heights, NEW p \in Parts, Fetch(h, p) PROVE TypeOK'
  BY <1>5 DEF Fetch
<1>6. ASSUME NEW w \in Workers, WorkerRecv(w) PROVE TypeOK'
  BY <1>6 DEF WorkerRecv
<1>7. ASSUME NEW w \in Workers, WorkerExit(w) PROVE TypeOK'
  BY <1>7 DEF WorkerExit
<1>8. ASSUME NEW w \in Workers, HandleBlock(w) PROVE TypeOK'
  BY <1>8 DEF HandleBlock
<1>9. ASSUME NEW w \in Workers, WorkerSend(w) PROVE TypeOK'
  BY <1>9 DEF WorkerSend, Holding
<1>10. ASSUME CloserStep PROVE TypeOK'
  BY <1>10 DEF CloserStep, CloseWriterChan
<1>11. ASSUME WriterRecv PROVE TypeOK'
  BY <1>11 DEF WriterRecv
<1>12. ASSUME WriterApply PROVE TypeOK'
  BY <1>12 DEF WriterApply, Holding
<1>13. ASSUME WriterTick \/ WriterExit \/ WriterEnd PROVE TypeOK'
  BY <1>13 DEF WriterTick, WriterExit, WriterEnd
<1>14. ASSUME MainCancelled \/ MainDone PROVE TypeOK'
  BY <1>14 DEF MainCancelled, MainDone
<1>15. ASSUME MainError PROVE TypeOK'
  BY <1>15 DEF MainError
<1>16. ASSUME BadStatus \/ Cancel PROVE TypeOK'
  BY <1>16 DEF BadStatus, Cancel
<1>17. CASE UNCHANGED vars
  BY <1>17 DEF vars
<1> QED
  BY <1>1, <1>2, <1>3, <1>4, <1>5, <1>6, <1>7, <1>8, <1>9, <1>10, <1>11, <1>12, <1>13,
     <1>14, <1>15, <1>16, <1>17
     DEF Next, PullStep, FetchStep, WorkerStep, WriterStep, MainStep

LEMMA NextHolding == TypeOK /\ Holding /\ [Next]_vars => Holding'
<1> SUFFICES ASSUME TypeOK, Holding, [Next]_vars PROVE Holding'
  OBVIOUS
<1> USE Constants DEF TypeOK, Holding, sources, queue, handlers, sink
<1>1. ASSUME PullerStep PROVE Holding'
  BY <1>1 DEF PullerStep, PullerSpawn, PullerCancelled, PullerEnd
<1>2. ASSUME NEW h \in Heights, PullStep(h) \/ \E p \in Parts : FetchStep(h, p) PROVE Holding'
  BY <1>2 DEF PullStep, FetchStep, HashLookup, Join, PullSend, Fetch
<1>3. ASSUME NEW w \in Workers, WorkerRecv(w) PROVE Holding'
  BY <1>3 DEF WorkerRecv
<1>4. ASSUME NEW w \in Workers, WorkerExit(w) \/ HandleBlock(w) PROVE Holding'
  BY <1>4 DEF WorkerExit, HandleBlock
<1>5. ASSUME NEW w \in Workers, WorkerSend(w) PROVE Holding'
  BY <1>5 DEF WorkerSend
<1>6. ASSUME CloserStep PROVE Holding'
  BY <1>6 DEF CloserStep, CloseWriterChan
<1>7. ASSUME WriterRecv PROVE Holding'
  BY <1>7 DEF WriterRecv
<1>8. ASSUME WriterApply \/ WriterTick \/ WriterExit \/ WriterEnd PROVE Holding'
  BY <1>8 DEF WriterApply, WriterTick, WriterExit, WriterEnd
<1>9. ASSUME MainCancelled \/ MainDone PROVE Holding'
  BY <1>9 DEF MainCancelled, MainDone
<1>10. ASSUME MainError PROVE Holding'
  BY <1>10 DEF MainError
<1>11. ASSUME BadStatus \/ Cancel PROVE Holding'
  BY <1>11 DEF BadStatus, Cancel
<1>12. CASE UNCHANGED vars
  BY <1>12 DEF vars
<1> QED
  BY <1>1, <1>2, <1>3, <1>4, <1>5, <1>6, <1>7, <1>8, <1>9, <1>10, <1>11, <1>12
     DEF Next, WorkerStep, WriterStep, MainStep

\* The goroutines of SyncBlocks keep to their control points and the channels to their
\* capacities, for every range, an empty one included.
THEOREM TypeCorrect == Spec => []TypeOK
<1>1. Init => TypeOK /\ Holding
  BY InitTypeOK, InitHolding
<1>2. TypeOK /\ Holding /\ [Next]_vars => (TypeOK /\ Holding)'
  BY NextTypeOK, NextHolding
<1> QED
  BY <1>1, <1>2, PTL DEF Spec

----------------------------------------------------------------------------
\* The loop of the puller: heights below its loop variable have been started.  It closes
\* newBlockChan as its last act, when every pull has sent its block.
PullerInv ==
    /\ \A h \in Heights : pull[h] = "none" <=> h >= next
    /\ newClosed => puller = "gone" /\ \A h \in Heights : pull[h] = "done"

\* A handler that leaves leaves for ever, and without a cancelled context not before
\* newBlockChan is closed and drained; writerChan is closed after the last of them.
HandlerInv ==
    /\ \A w \in Workers :
           worker[w] = "exit" /\ ~ctxDone => newClosed /\ newBlockChan = <<>>
    /\ writerClosed => \A w \in Workers : worker[w] = "exit"

LEMMA InitChannels == Init => PullerInv /\ HandlerInv
BY Constants DEF Init, PullerInv, HandlerInv, Heights

LEMMA NextPullerInv == TypeOK /\ PullerInv /\ [Next]_vars => PullerInv'
<1> SUFFICES ASSUME TypeOK, PullerInv, [Next]_vars PROVE PullerInv'
  OBVIOUS
<1> USE Constants DEF TypeOK, PullerInv, sources, queue, handlers, sink
<1>1. ASSUME PullerSpawn PROVE PullerInv'
  BY <1>1 DEF PullerSpawn, Heights
<1>2. ASSUME PullerCancelled PROVE PullerInv'
  BY <1>2 DEF PullerCancelled
<1>3. ASSUME PullerEnd PROVE PullerInv'
  <2>1. \A h \in Heights : pull[h] = "done"
    BY <1>3 DEF PullerEnd, Outstanding, Heights
  <2> QED
    BY <1>3, <2>1 DEF PullerEnd
<1>4. ASSUME NEW h \in Heights, PullStep(h) PROVE PullerInv'
  BY <1>4 DEF PullStep, HashLookup, Join, PullSend
<1>5. ASSUME NEW h \in Heights, NEW p \in Parts, FetchStep(h, p) PROVE PullerInv'
  BY <1>5 DEF FetchStep, Fetch
<1>6. ASSUME NEW w \in Workers, WorkerStep(w) PROVE PullerInv'
  BY <1>6 DEF WorkerStep, WorkerRecv, WorkerExit, HandleBlock, WorkerSend
<1>7. ASSUME CloserStep \/ WriterStep \/ WriterTick PROVE PullerInv'
  BY <1>7 DEF CloserStep, CloseWriterChan, WriterStep, WriterRecv, WriterApply, WriterExit,
              WriterEnd, WriterTick
<1>8. ASSUME MainError PROVE PullerInv'
  BY <1>8 DEF MainError
<1>9. ASSUME MainCancelled \/ MainDone \/ BadStatus \/ Cancel PROVE PullerInv'
  BY <1>9 DEF MainCancelled, MainDone, BadStatus, Cancel
<1>10. CASE UNCHANGED vars
  BY <1>10 DEF vars
<1> QED
  BY <1>1, <1>2, <1>3, <1>4, <1>5, <1>6, <1>7, <1>8, <1>9, <1>10
     DEF Next, PullerStep, MainStep

LEMMA NextHandlerInv == TypeOK /\ HandlerInv /\ [Next]_vars => HandlerInv'
<1> SUFFICES ASSUME TypeOK, HandlerInv, [Next]_vars PROVE HandlerInv'
  OBVIOUS
<1> USE DEF TypeOK, HandlerInv, sources, queue, handlers, sink
<1>1. ASSUME PullerStep PROVE HandlerInv'
  BY <1>1 DEF PullerStep, PullerSpawn, PullerCancelled, PullerEnd
<1>2. ASSUME NEW h \in Heights, PullStep(h) PROVE HandlerInv'
  BY <1>2 DEF PullStep, HashLookup, Join, PullSend
<1>3. ASSUME NEW h \in Heights, NEW p \in Parts, FetchStep(h, p) PROVE HandlerInv'
  BY <1>3 DEF FetchStep, Fetch
<1>4. ASSUME NEW w \in Workers, WorkerRecv(w) PROVE HandlerInv'
  BY <1>4 DEF WorkerRecv
<1>5. ASSUME NEW w \in Workers, WorkerExit(w) \/ HandleBlock(w) \/ WorkerSend(w)
      PROVE  HandlerInv'
  BY <1>5 DEF WorkerExit, HandleBlock, WorkerSend
<1>6. ASSUME CloserStep \/ WriterStep \/ WriterTick PROVE HandlerInv'
  BY <1>6 DEF CloserStep, CloseWriterChan, WriterStep, WriterRecv, WriterApply, WriterExit,
              WriterEnd, WriterTick
<1>7. ASSUME MainError PROVE HandlerInv'
  BY <1>7 DEF MainError
<1>8. ASSUME MainCancelled \/ MainDone \/ BadStatus \/ Cancel PROVE HandlerInv'
  BY <1>8 DEF MainCancelled, MainDone, BadStatus, Cancel
<1>9. CASE UNCHANGED vars
  BY <1>9 DEF vars
<1> QED
  BY <1>1, <1>2, <1>3, <1>4, <1>5, <1>6, <1>7, <1>8, <1>9 DEF Next, WorkerStep, MainStep

\* Neither channel is closed while a goroutine may still send on it, whatever fails and
\* whenever the context is cancelled: wg.Wait and handleWG.Wait come before the closes.
THEOREM NoSendAfterCloseCorrect == Spec => []NoSendAfterClose
<1> DEFINE CInv == TypeOK /\ Holding /\ PullerInv /\ HandlerInv
<1>1. Init => CInv
  BY InitTypeOK, InitHolding, InitChannels
<1>2. CInv /\ [Next]_vars => CInv'
  BY NextTypeOK, NextHolding, NextPullerInv, NextHandlerInv
<1>3. CInv => NoSendAfterClose
  BY DEF PullerInv, HandlerInv, NoSendAfterClose
<1> HIDE DEF CInv
<1> QED
  BY <1>1, <1>2, <1>3, PTL DEF Spec

----------------------------------------------------------------------------
\* Where a height is, and that no two places hold the same one.
InPipeline(h) ==
    \/ \E i \in DOMAIN newBlockChan : newBlockChan[i] = h
    \/ \E w \in Workers : item[w] = h
    \/ \E i \in DOMAIN writerChan : writerChan[i] = h
    \/ wItem = h \/ h \in applied

Apart ==
    /\ \A i, j \in DOMAIN newBlockChan : newBlockChan[i] = newBlockChan[j] => i = j
    /\ \A v, w \in Workers : item[v] = item[w] /\ item[v] \in Heights => v = w
    /\ \A i, j \in DOMAIN writerChan : writerChan[i] = writerChan[j] => i = j
    /\ \A i \in DOMAIN newBlockChan :
           /\ \A w \in Workers : newBlockChan[i] # item[w]
           /\ \A j \in DOMAIN writerChan : newBlockChan[i] # writerChan[j]
           /\ newBlockChan[i] # wItem /\ newBlockChan[i] \notin applied
    /\ \A w \in Workers :
           /\ \A j \in DOMAIN writerChan : item[w] # writerChan[j]
           /\ item[w] \in Heights => item[w] # wItem
           /\ item[w] \notin applied
    /\ \A j \in DOMAIN writerChan : writerChan[j] # wItem /\ writerChan[j] \notin applied
    /\ wItem \notin applied

\* Only pulled blocks are in the pipeline, and none is lost unless an error was returned.
Kept ==
    /\ \A h \in Heights : InPipeline(h) => pull[h] = "done"
    /\ main \notin {"err", "fatal"} => \A h \in Heights : pull[h] = "done" => InPipeline(h)

LEMMA InitOnce == Init => Apart /\ Kept
BY Constants DEF Init, Apart, Kept, InPipeline

\* A step that leaves the pipeline alone.
LEMMA SamePipeline ==
    ASSUME Apart, Kept, UNCHANGED <<newBlockChan, handlers, writerChan, wItem, applied>>,
           \A h \in Heights : pull'[h] = "done" <=> pull[h] = "done",
           main \in {"err", "fatal"} => main' \in {"err", "fatal"}
    PROVE  Apart' /\ Kept'
<1>1. Apart'
  BY DEF Apart, handlers
<1>2. \A h \in Heights : InPipeline(h)' <=> InPipeline(h)
  BY DEF InPipeline, handlers
<1> QED
  BY <1>1, <1>2 DEF Kept

\* What a receive leaves in a channel, and what a send makes of it.
LEMMA Received ==
    ASSUME NEW S, NEW s \in Seq(S), s # <<>>
    PROVE  /\ Head(s) = s[1] /\ 1 \in DOMAIN s /\ Head(s) \in S
           /\ Tail(s) \in Seq(S) /\ Len(Tail(s)) = Len(s) - 1
           /\ \A i \in DOMAIN Tail(s) : i + 1 \in DOMAIN s /\ i + 1 # 1 /\ Tail(s)[i] = s[i + 1]
           /\ \A i \in DOMAIN s : i # 1 => i - 1 \in DOMAIN Tail(s) /\ Tail(s)[i - 1] = s[i]
           /\ \A i, j \in DOMAIN Tail(s) : i + 1 = j + 1 => i = j
OBVIOUS

LEMMA Sent ==
    ASSUME NEW S, NEW s \in Seq(S), NEW x \in S
    PROVE  /\ DOMAIN Append(s, x) = DOMAIN s \cup {Len(s) + 1}
           /\ Len(s) + 1 \notin DOMAIN s /\ Append(s, x)[Len(s) + 1] = x
           /\ \A i \in DOMAIN s : Append(s, x)[i] = s[i]
OBVIOUS

LEMMA NextOnce ==
    TypeOK /\ Holding /\ PullerInv /\ Apart /\ Kept /\ [Next]_vars => Apart' /\ Kept'
<1> SUFFICES ASSUME TypeOK, Holding, PullerInv, Apart, Kept, [Next]_vars
             PROVE  Apart' /\ Kept'
  OBVIOUS
<1> USE Constants DEF sources, queue, handlers, sink
<1>t. TypeOK'
  BY NextTypeOK
<1>1. ASSUME PullerStep PROVE Apart' /\ Kept'
  <2>1. \A h \in Heights : pull'[h] = "done" <=> pull[h] = "done"
    BY <1>1 DEF PullerStep, PullerSpawn, PullerCancelled, PullerEnd, TypeOK, PullerInv, Heights
  <2> QED
    BY <1>1, <2>1, SamePipeline DEF PullerStep, PullerSpawn, PullerCancelled, PullerEnd
<1>2. ASSUME NEW h \in Heights, HashLookup(h) \/ Join(h) PROVE Apart' /\ Kept'
  <2>1. \A g \in Heights : pull'[g] = "done" <=> pull[g] = "done"
    BY <1>2 DEF HashLookup, Join, TypeOK
  <2> QED
    BY <1>2, <2>1, SamePipeline DEF HashLookup, Join
<1>3. ASSUME NEW h \in Heights, PullSend(h) PROVE Apart' /\ Kept'
  <2>1. /\ newBlockChan' = Append(newBlockChan, h) /\ pull' = [pull EXCEPT ![h] = "done"]
        /\ UNCHANGED <<worker, item, writerChan, wItem, applied, main>> /\ pull[h] = "send"
    BY <1>3 DEF PullSend
  <2>2. ~InPipeline(h)
    BY <2>1 DEF Kept
  <2>3. /\ DOMAIN newBlockChan' = DOMAIN newBlockChan \cup {Len(newBlockChan) + 1}
        /\ Len(newBlockChan) + 1 \notin DOMAIN newBlockChan
        /\ newBlockChan'[Len(newBlockChan) + 1] = h
        /\ \A i \in DOMAIN newBlockChan : newBlockChan'[i] = newBlockChan[i]
    BY <2>1, Sent DEF TypeOK
  <2>4. Apart'
    BY <2>1, <2>2, <2>3 DEF Apart, InPipeline
  <2>5. \A g \in Heights : InPipeline(g)' <=> InPipeline(g) \/ g = h
    BY <2>1, <2>3 DEF InPipeline
  <2>6. \A g \in Heights : pull'[g] = "done" <=> pull[g] = "done" \/ g = h
    BY <2>1 DEF TypeOK
  <2> QED
    BY <2>1, <2>4, <2>5, <2>6 DEF Kept
<1>4. ASSUME NEW h \in Heights, NEW p \in Parts, FetchStep(h, p) PROVE Apart' /\ Kept'
  BY <1>4, SamePipeline DEF FetchStep, Fetch
<1>5. ASSUME NEW w \in Workers, WorkerRecv(w) PROVE Apart' /\ Kept'
  <2>1. /\ newBlockChan # <<>> /\ newBlockChan' = Tail(newBlockChan)
        /\ item' = [item EXCEPT ![w] = Head(newBlockChan)] /\ item[w] \notin Heights
        /\ UNCHANGED <<pull, writerChan, wItem, applied, main>>
    BY <1>5 DEF WorkerRecv, Holding
  <2>2. /\ Head(newBlockChan) = newBlockChan[1] /\ 1 \in DOMAIN newBlockChan
        /\ Head(newBlockChan) \in Heights
        /\ \A i \in DOMAIN newBlockChan' :
               /\ i + 1 \in DOMAIN newBlockChan /\ i + 1 # 1
               /\ newBlockChan'[i] = newBlockChan[i + 1]
        /\ \A i \in DOMAIN newBlockChan : i # 1 =>
               i - 1 \in DOMAIN newBlockChan' /\ newBlockChan'[i - 1] = newBlockChan[i]
        /\ \A i, j \in DOMAIN newBlockChan' : i + 1 = j + 1 => i = j
    BY <2>1, Received DEF TypeOK
  <2>3. /\ item'[w] = newBlockChan[1]
        /\ \A v \in Workers : v # w => item'[v] = item[v]
    BY <2>1, <2>2 DEF TypeOK
  <2>4. Apart'
    BY <2>1, <2>2, <2>3 DEF Apart
  <2>5. \A g \in Heights : InPipeline(g)' <=> InPipeline(g)
    BY <2>1, <2>2, <2>3 DEF InPipeline
  <2> QED
    BY <2>1, <2>4, <2>5 DEF Kept
<1>6. ASSUME NEW w \in Workers, WorkerExit(w) \/ HandleBlock(w) PROVE Apart' /\ Kept'
  <2>1. UNCHANGED <<newBlockChan, item, writerChan, wItem, applied, pull, main>>
    BY <1>6 DEF WorkerExit, HandleBlock
  <2>2. Apart'
    BY <2>1 DEF Apart
  <2>3. \A g \in Heights : InPipeline(g)' <=> InPipeline(g)
    BY <2>1 DEF InPipeline
  <2> QED
    BY <2>1, <2>2, <2>3 DEF Kept
<1>7. ASSUME NEW w \in Workers, WorkerSend(w) PROVE Apart' /\ Kept'
  <2>1. /\ writerChan' = Append(writerChan, item[w]) /\ item[w] \in Heights
        /\ item' = [item EXCEPT ![w] = NoBlock]
        /\ UNCHANGED <<newBlockChan, pull, wItem, applied, main>>
    BY <1>7 DEF WorkerSend, Holding
  <2>2. /\ DOMAIN writerChan' = DOMAIN writerChan \cup {Len(writerChan) + 1}
        /\ Len(writerChan) + 1 \notin DOMAIN writerChan
        /\ writerChan'[Len(writerChan) + 1] = item[w]
        /\ \A i \in DOMAIN writerChan : writerChan'[i] = writerChan[i]
    BY <2>1, Sent DEF TypeOK
  <2>3. /\ item'[w] = NoBlock /\ \A v \in Workers : v # w => item'[v] = item[v]
        /\ \A i \in DOMAIN newBlockChan : newBlockChan[i] \in Heights
        /\ \A i \in DOMAIN writerChan : writerChan[i] \in Heights
        /\ applied \subseteq Heights
    BY <2>1 DEF TypeOK
  <2>4. Apart'
    BY <2>1, <2>2, <2>3 DEF Apart
  <2>5. \A g \in Heights : InPipeline(g)' <=> InPipeline(g)
    BY <2>1, <2>2, <2>3 DEF InPipeline
  <2> QED
    BY <2>1, <2>4, <2>5 DEF Kept
<1>8. ASSUME CloserStep \/ WriterExit \/ WriterEnd \/ WriterTick PROVE Apart' /\ Kept'
  BY <1>8, SamePipeline DEF CloserStep, CloseWriterChan, WriterExit, WriterEnd, WriterTick
<1>9. ASSUME WriterRecv PROVE Apart' /\ Kept'
  <2>1. /\ writerChan # <<>> /\ writerChan' = Tail(writerChan)
        /\ wItem' = Head(writerChan) /\ wItem = NoBlock
        /\ UNCHANGED <<newBlockChan, pull, item, applied, main>>
    BY <1>9 DEF WriterRecv, Holding
  <2>2. /\ Head(writerChan) = writerChan[1] /\ 1 \in DOMAIN writerChan
        /\ Head(writerChan) \in Heights
        /\ \A i \in DOMAIN writerChan' :
               i + 1 \in DOMAIN writerChan /\ i + 1 # 1 /\ writerChan'[i] = writerChan[i + 1]
        /\ \A i \in DOMAIN writerChan : i # 1 =>
               i - 1 \in DOMAIN writerChan' /\ writerChan'[i - 1] = writerChan[i]
        /\ \A i, j \in DOMAIN writerChan' : i + 1 = j + 1 => i = j
    BY <2>1, Received DEF TypeOK
  <2>3. Apart'
    BY <2>1, <2>2 DEF Apart
  <2>4. \A g \in Heights : InPipeline(g)' <=> InPipeline(g)
    BY <2>1, <2>2 DEF InPipeline
  <2> QED
    BY <2>1, <2>3, <2>4 DEF Kept
<1>10. ASSUME WriterApply PROVE Apart' /\ Kept'
  <2>1. CASE writer' = "err" /\ UNCHANGED <<applied, wItem>>
    BY <1>10, <2>1, SamePipeline DEF WriterApply
  <2>2. CASE applied' = applied \cup {wItem} /\ wItem' = NoBlock
    <3>1. /\ wItem \in Heights /\ UNCHANGED <<newBlockChan, pull, item, writerChan, main>>
          /\ applied \subseteq Heights
          /\ \A i \in DOMAIN newBlockChan : newBlockChan[i] \in Heights
          /\ \A i \in DOMAIN writerChan : writerChan[i] \in Heights
          /\ \A w \in Workers : item[w] \in Heights \cup {NoBlock}
      BY <1>10 DEF WriterApply, Holding, TypeOK
    <3>2. Apart'
      BY <2>2, <3>1 DEF Apart
    <3>3. \A g \in Heights : InPipeline(g)' <=> InPipeline(g)
      BY <2>2, <3>1 DEF InPipeline
    <3> QED
      BY <3>1, <3>2, <3>3 DEF Kept
  <2> QED
    BY <1>10, <2>1, <2>2 DEF WriterApply
<1>11. ASSUME MainError PROVE Apart' /\ Kept'
  <2>1. main' = "err" /\ UNCHANGED <<newBlockChan, writerChan, wItem, applied>>
    BY <1>11 DEF MainError
  <2>2. \A h \in Heights : pull'[h] = "done" <=> pull[h] = "done"
    BY <1>11 DEF MainError, TypeOK
  <2>3. \A w \in Workers : item'[w] = item[w] \/ item'[w] = NoBlock
    BY <1>11 DEF MainError, TypeOK
  <2>4. /\ applied \subseteq Heights
        /\ \A i \in DOMAIN newBlockChan : newBlockChan[i] \in Heights
        /\ \A i \in DOMAIN writerChan : writerChan[i] \in Heights
    BY DEF TypeOK
  <2>5. Apart'
    BY <2>1, <2>3, <2>4 DEF Apart
  <2>6. \A h \in Heights : InPipeline(h)' => InPipeline(h)
    BY <2>1, <2>3 DEF InPipeline
  <2> QED
    BY <2>1, <2>2, <2>5, <2>6 DEF Kept
<1>12. ASSUME MainCancelled \/ MainDone \/ BadStatus \/ Cancel PROVE Apart' /\ Kept'
  BY <1>12, SamePipeline DEF MainCancelled, MainDone, BadStatus, Cancel
<1>13. CASE UNCHANGED vars
  BY <1>13, SamePipeline DEF vars
<1> QED
  BY <1>1, <1>2, <1>3, <1>4, <1>5, <1>6, <1>7, <1>8, <1>9, <1>10, <1>11, <1>12, <1>13
     DEF Next, PullStep, WorkerStep, WriterStep, MainStep

\* A set whose elements are all equal counts as whether it has one.
LEMMA AtMostOne ==
    ASSUME NEW S, \A x, y \in S : x = y
    PROVE  Cardinality(S) = IF S = {} THEN 0 ELSE 1
<1>1. CASE S = {}
  BY <1>1, FS_EmptySet
<1>2. CASE S # {}
  <2>1. PICK x \in S : S = {x}
    BY <1>2
  <2> QED
    BY <2>1, FS_Singleton
<1> QED
  BY <1>1, <1>2

LEMMA OccurrencesOnce ==
    ASSUME Apart, NEW h \in Heights
    PROVE  Occurrences(h) = IF InPipeline(h) THEN 1 ELSE 0
<1> DEFINE A == {i \in DOMAIN newBlockChan : newBlockChan[i] = h}
           B == {w \in Workers : item[w] = h}
           C == {i \in DOMAIN writerChan : writerChan[i] = h}
<1>1. (\A x, y \in A : x = y) /\ (\A x, y \in B : x = y) /\ (\A x, y \in C : x = y)
  BY DEF Apart
<1>2. /\ A # {} <=> \E i \in DOMAIN newBlockChan : newBlockChan[i] = h
      /\ B # {} <=> \E w \in Workers : item[w] = h
      /\ C # {} <=> \E i \in DOMAIN writerChan : writerChan[i] = h
  OBVIOUS
<1>3. /\ A # {} => B = {} /\ C = {} /\ wItem # h /\ h \notin applied
      /\ B # {} => C = {} /\ wItem # h /\ h \notin applied
      /\ C # {} => wItem # h /\ h \notin applied
      /\ wItem = h => h \notin applied
  BY DEF Apart
<1>4. InPipeline(h) <=> A # {} \/ B # {} \/ C # {} \/ wItem = h \/ h \in applied
  BY <1>2 DEF InPipeline
<1>5. Occurrences(h) = Cardinality(A) + Cardinality(B) + Cardinality(C)
                       + (IF wItem = h THEN 1 ELSE 0) + (IF h \in applied THEN 1 ELSE 0)
  BY DEF Occurrences
<1> HIDE DEF A, B, C
<1>6. /\ Cardinality(A) = IF A = {} THEN 0 ELSE 1
      /\ Cardinality(B) = IF B = {} THEN 0 ELSE 1
      /\ Cardinality(C) = IF C = {} THEN 0 ELSE 1
  BY <1>1, AtMostOne
<1> QED
  BY <1>3, <1>4, <1>5, <1>6

\* The parts of the inductive invariant that the theorems below share.
Pipeline == TypeOK /\ Holding /\ PullerInv /\ HandlerInv /\ Apart /\ Kept

LEMMA PipelineCorrect == Spec => []Pipeline
<1>1. Init => Pipeline
  BY InitTypeOK, InitHolding, InitChannels, InitOnce DEF Pipeline
<1>2. Pipeline /\ [Next]_vars => Pipeline'
  BY NextTypeOK, NextHolding, NextPullerInv, NextHandlerInv, NextOnce DEF Pipeline
<1> QED
  BY <1>1, <1>2, PTL DEF Spec

\* However many pulls, handlers and errors there are, a pulled block is in one place of
\* the pipeline until it is applied, and lost only after SyncBlocks has returned an error.
THEOREM ExactlyOnceCorrect == Spec => []ExactlyOnce
<1>1. Pipeline => ExactlyOnce
  BY OccurrencesOnce DEF Pipeline, Kept, ExactlyOnce
<1> QED
  BY <1>1, PipelineCorrect, PTL

----------------------------------------------------------------------------
\* doneChan is closed by a writer that has left, and unless an error was returned or the
\* context cancelled the writer leaves only after writerChan is closed and drained.
DoneInv ==
    /\ doneClosed => writer = "exit"
    /\ main = "nil" => doneClosed
    /\ writer = "exit" /\ ~ctxDone /\ main \notin {"err", "fatal"} =>
           writerClosed /\ writerChan = <<>> /\ wItem = NoBlock

LEMMA NextDoneInv == TypeOK /\ Holding /\ DoneInv /\ [Next]_vars => DoneInv'
<1> SUFFICES ASSUME TypeOK, Holding, DoneInv, [Next]_vars PROVE DoneInv'
  OBVIOUS
<1> USE DEF DoneInv, sources, queue, handlers, sink
<1>1. ASSUME PullerStep PROVE DoneInv'
  BY <1>1 DEF PullerStep, PullerSpawn, PullerCancelled, PullerEnd
<1>2. ASSUME NEW h \in Heights, PullStep(h) \/ \E p \in Parts : FetchStep(h, p) PROVE DoneInv'
  BY <1>2 DEF PullStep, HashLookup, Join, PullSend, FetchStep, Fetch
<1>3. ASSUME NEW w \in Workers, WorkerStep(w) PROVE DoneInv'
  BY <1>3 DEF WorkerStep, WorkerRecv, WorkerExit, HandleBlock, WorkerSend
<1>4. ASSUME CloserStep PROVE DoneInv'
  BY <1>4 DEF CloserStep, CloseWriterChan
<1>5. ASSUME WriterRecv \/ WriterApply \/ WriterTick PROVE DoneInv'
  BY <1>5 DEF WriterRecv, WriterApply, WriterTick
<1>6. ASSUME WriterExit \/ WriterEnd PROVE DoneInv'
  BY <1>6 DEF WriterExit, WriterEnd, Holding
<1>7. ASSUME MainError PROVE DoneInv'
  BY <1>7 DEF MainError
<1>8. ASSUME MainCancelled \/ MainDone \/ BadStatus \/ Cancel PROVE DoneInv'
  BY <1>8 DEF MainCancelled, MainDone, BadStatus, Cancel
<1>9. CASE UNCHANGED vars
  BY <1>9 DEF vars
<1> QED
  BY <1>1, <1>2, <1>3, <1>4, <1>5, <1>6, <1>7, <1>8, <1>9 DEF Next, WriterStep, MainStep

LEMMA DoneCorrect == Spec => [](Pipeline /\ DoneInv)
<1>1. Init => DoneInv
  BY DEF Init, DoneInv
<1>2. Pipeline /\ DoneInv /\ [Next]_vars => DoneInv'
  BY NextDoneInv DEF Pipeline
<1> QED
  BY <1>1, <1>2, PipelineCorrect, PTL DEF Spec

\* A nil of SyncBlocks under a context that is not cancelled: the closing of the two
\* channels has passed through all the stages.
LEMMA NilState ==
    ASSUME Pipeline, DoneInv, main = "nil", ~ctxDone
    PROVE  /\ writer = "exit" /\ writerChan = <<>> /\ wItem = NoBlock
           /\ \A w \in Workers : worker[w] = "exit" /\ item[w] \notin Heights
           /\ newBlockChan = <<>> /\ puller = "gone"
           /\ \A h \in Heights : pull[h] = "done"
<1>1. writer = "exit" /\ writerClosed /\ writerChan = <<>> /\ wItem = NoBlock
  BY DEF DoneInv
<1>2. \A w \in Workers : worker[w] = "exit" /\ item[w] \notin Heights
  BY <1>1 DEF Pipeline, HandlerInv, Holding
<1>3. newClosed /\ newBlockChan = <<>>
  BY <1>2, Constants DEF Pipeline, HandlerInv
<1> QED
  BY <1>1, <1>2, <1>3 DEF Pipeline, PullerInv

\* A nil of SyncBlocks means that every height of the range was given to the store,
\* unless the context was cancelled, whatever the number of goroutines.
THEOREM NilMeansAllCorrect == Spec => []NilMeansAll
<1>1. Pipeline /\ DoneInv => NilMeansAll
  <2> SUFFICES ASSUME Pipeline, DoneInv, main = "nil", ~ctxDone PROVE applied = Heights
    BY DEF NilMeansAll
  <2>1. \A h \in Heights : InPipeline(h)
    BY NilState DEF Pipeline, Kept
  <2>2. \A h \in Heights : h \in applied
    BY <2>1, NilState, Constants DEF InPipeline
  <2> QED
    BY <2>2 DEF Pipeline, TypeOK
<1> QED
  BY <1>1, DoneCorrect, PTL

\* ... and that none of its goroutines is left to touch the channels of the builder, which
\* the next call replaces.
THEOREM NilMeansQuietCorrect == Spec => []NilMeansQuiet
<1>1. Pipeline /\ DoneInv => NilMeansQuiet
  BY NilState DEF NilMeansQuiet
<1> QED
  BY <1>1, DoneCorrect, PTL
=============================================================================

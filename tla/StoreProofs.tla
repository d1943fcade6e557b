---------------------------- MODULE StoreProofs ----------------------------
(***************************************************************************)
(* Proofs about Store for every set of callers, blocks and background      *)
(* goroutines, every batch size and every limit on pending commits.        *)
(***************************************************************************)
EXTENDS Store, FiniteSetTheorems, TLAPS

\* TypeOK before the counters are known not to be negative.
Types ==
    /\ batch \subseteq Blocks /\ batchCounter \in Nat
    /\ pendingCommits \in Int /\ waitGroup \in Int
    /\ closed \in BOOLEAN /\ dbOpen \in BOOLEAN /\ panicked \in BOOLEAN /\ overtaken \in BOOLEAN
    /\ log \in Seq(SUBSET Blocks) /\ crashes \in Nat
    /\ pc \in [Threads -> Pcs] /\ op \in [Threads -> Ops]
    /\ arg \in [Threads -> SUBSET Blocks] /\ old \in [Threads -> SUBSET Blocks]
    /\ jobPc \in [Jobs -> JobPcs] /\ jobBatch \in [Jobs -> SUBSET Blocks]

LEMMA InitTypes == Init => Types
<1> SUFFICES ASSUME Init PROVE Types
  OBVIOUS
<1>1. /\ closed \in BOOLEAN /\ dbOpen \in BOOLEAN /\ panicked \in BOOLEAN
      /\ overtaken \in BOOLEAN
  BY Zenon DEF Init
<1>2. /\ batch \subseteq Blocks /\ batchCounter \in Nat /\ crashes \in Nat
      /\ pendingCommits \in Int /\ waitGroup \in Int /\ log \in Seq(SUBSET Blocks)
  BY DEF Init
<1>3. /\ pc \in [Threads -> Pcs] /\ op \in [Threads -> Ops]
      /\ arg \in [Threads -> SUBSET Blocks] /\ old \in [Threads -> SUBSET Blocks]
      /\ jobPc \in [Jobs -> JobPcs] /\ jobBatch \in [Jobs -> SUBSET Blocks]
  BY DEF Init, Pcs, Ops, JobPcs
<1> QED
  BY <1>1, <1>2, <1>3 DEF Types

LEMMA NextTypes == Types /\ [Next]_vars => Types'
<1> SUFFICES ASSUME Types, [Next]_vars PROVE Types'
  OBVIOUS
<1> USE DEF Types, memVars, dbVars, threadVars, jobVars, Goto
<1>1. ASSUME NEW t \in Threads, NEW b \in Blocks, ApplyBlock(t, b) PROVE Types'
  BY <1>1 DEF ApplyBlock, Pcs, Ops
<1>2. ASSUME NEW t \in Threads, Attach(t) PROVE Types'
  BY <1>2 DEF Attach, Pcs, Ops
<1>3. ASSUME NEW t \in Threads, FlushBatch(t) PROVE Types'
  BY <1>3 DEF FlushBatch, Pcs, Ops
<1>4. ASSUME NEW t \in Threads, CheckClosed(t) PROVE Types'
  BY <1>4 DEF CheckClosed, AfterCommit, Pcs
<1>20. ASSUME NEW t \in Threads, CheckPending(t) PROVE Types'
  BY <1>20 DEF CheckPending, Pcs
<1>5. ASSUME NEW t \in Threads, WaitForPendingCommits(t) PROVE Types'
  BY <1>5 DEF WaitForPendingCommits, Pcs
<1>6. ASSUME NEW t \in Threads, Rotate(t) PROVE Types'
  BY <1>6 DEF Rotate, Pcs
<1>7. ASSUME NEW t \in Threads, CommitSync(t) PROVE Types'
  BY <1>7 DEF CommitSync, Commit, AfterCommit, Pcs
<1>8. ASSUME NEW t \in Threads, Track(t) PROVE Types'
  BY <1>8 DEF Track, Pcs
<1>9. ASSUME NEW t \in Threads, Register(t) PROVE Types'
  BY <1>9 DEF Register, AfterCommit, Pcs, JobPcs
<1>10. ASSUME NEW t \in Threads, Close(t) PROVE Types'
  <2>1. closed' \in BOOLEAN /\ overtaken' \in BOOLEAN
    BY <1>10, Zenon DEF Close
  <2> QED
    BY <1>10, <2>1 DEF Close, Pcs, Ops
<1>11. ASSUME NEW t \in Threads, CloseWait(t) PROVE Types'
  BY <1>11 DEF CloseWait, Pcs
<1>12. ASSUME NEW t \in Threads, CloseFlush(t) PROVE Types'
  BY <1>12 DEF CloseFlush, Pcs
<1>13. ASSUME NEW t \in Threads, DbClose(t) PROVE Types'
  BY <1>13 DEF DbClose, Pcs, Ops
<1>14. ASSUME NEW j \in Jobs, JobCommit(j) PROVE Types'
  BY <1>14 DEF JobCommit, Commit, JobPcs
<1>15. ASSUME NEW j \in Jobs, JobUntrack(j) PROVE Types'
  BY <1>15 DEF JobUntrack, JobPcs
<1>16. ASSUME NEW j \in Jobs, JobDone(j) PROVE Types'
  BY <1>16 DEF JobDone, JobPcs
<1>17. CASE CommitOnClosedDB
  BY <1>17 DEF CommitOnClosedDB
<1>18. CASE Restart
  <2>1. (/\ closed \in BOOLEAN /\ dbOpen \in BOOLEAN /\ panicked \in BOOLEAN
         /\ overtaken \in BOOLEAN)'
    BY <1>18, Zenon DEF Restart
  <2>2. (/\ batch \subseteq Blocks /\ batchCounter \in Nat /\ crashes \in Nat
         /\ pendingCommits \in Int /\ waitGroup \in Int)'
    BY <1>18 DEF Restart
  <2>3. (/\ pc \in [Threads -> Pcs] /\ op \in [Threads -> Ops]
         /\ arg \in [Threads -> SUBSET Blocks] /\ old \in [Threads -> SUBSET Blocks]
         /\ jobPc \in [Jobs -> JobPcs] /\ jobBatch \in [Jobs -> SUBSET Blocks])'
    BY <1>18 DEF Restart, Pcs, Ops, JobPcs
  <2>4. log' \in Seq(SUBSET Blocks)
    BY <1>18 DEF Restart
  <2> QED
    BY <2>1, <2>2, <2>3, <2>4
<1>19. CASE UNCHANGED vars
  BY <1>19 DEF vars
<1> QED
  BY <1>1, <1>2, <1>3, <1>4, <1>20, <1>5, <1>6, <1>7, <1>8, <1>9, <1>10, <1>11, <1>12,
     <1>13, <1>14, <1>15, <1>16, <1>17, <1>18, <1>19 DEF Next, ThreadStep, JobStep

----------------------------------------------------------------------------
\* The sets the counters count are finite.
LEMMA FiniteCounted ==
    IsFiniteSet(Counted) /\ IsFiniteSet(Registering) /\ IsFiniteSet(Awaited)
<1>1. Counted \subseteq Jobs /\ Registering \subseteq Threads /\ Awaited \subseteq Jobs
  BY DEF Counted, Registering, Awaited
<1> QED
  BY <1>1, FS_Subset, StoreAssumption

LEMMA InitAccounting == Init => Accounting
<1> SUFFICES ASSUME Init PROVE Accounting
  OBVIOUS
<1>1. Counted = {} /\ Registering = {} /\ Awaited = {}
  BY DEF Init, Counted, Registering, Awaited
<1> QED
  BY <1>1, FS_EmptySet DEF Init, Accounting

\* A step that moves no goroutine in or out of the counted regions.
LEMMA SameAccounting ==
    ASSUME Accounting, Counted' = Counted, Registering' = Registering,
           Awaited' = Awaited, pendingCommits' = pendingCommits, waitGroup' = waitGroup
    PROVE  Accounting'
BY DEF Accounting

LEMMA NextAccounting == Types /\ Accounting /\ [Next]_vars => Accounting'
<1> SUFFICES ASSUME Types, Accounting, [Next]_vars PROVE Accounting'
  OBVIOUS
<1> USE DEF memVars, dbVars, threadVars, jobVars, Goto
<1> DEFINE Quiet == /\ Counted' = Counted /\ Registering' = Registering
                    /\ Awaited' = Awaited /\ pendingCommits' = pendingCommits
                    /\ waitGroup' = waitGroup
<1>q. Quiet => Accounting'
  BY SameAccounting
<1>c. /\ Cardinality(Counted) \in Nat /\ Cardinality(Registering) \in Nat
      /\ Cardinality(Awaited) \in Nat
  BY FiniteCounted, FS_CardinalityType
<1>1. ASSUME NEW t \in Threads, NEW b \in Blocks, ApplyBlock(t, b) PROVE Quiet
  BY <1>1 DEF ApplyBlock, Types, Counted, Registering, Awaited
<1>2. ASSUME NEW t \in Threads,
             \/ Attach(t) \/ FlushBatch(t) \/ CheckPending(t) \/ WaitForPendingCommits(t) \/ Rotate(t)
             \/ Close(t) \/ CloseWait(t) \/ CloseFlush(t) \/ DbClose(t)
      PROVE  Quiet
  BY <1>2 DEF Attach, FlushBatch, CheckPending, WaitForPendingCommits, Rotate, Close, CloseWait,
              CloseFlush, DbClose, Types, Counted, Registering, Awaited
<1>3. ASSUME NEW t \in Threads, CheckClosed(t) \/ CommitSync(t) PROVE Quiet
  BY <1>3 DEF CheckClosed, CommitSync, AfterCommit, Types, Counted, Registering, Awaited
<1>4. ASSUME NEW t \in Threads, Track(t) PROVE Accounting'
  <2>1. Registering' = Registering \cup {t} /\ t \notin Registering
    BY <1>4 DEF Track, Types, Registering
  <2>2. Counted' = Counted /\ Awaited' = Awaited /\ waitGroup' = waitGroup
    BY <1>4 DEF Track, Counted, Awaited
  <2>3. Cardinality(Registering') = Cardinality(Registering) + 1
    BY <2>1, FiniteCounted, FS_AddElement
  <2>4. pendingCommits' = pendingCommits + 1
    BY <1>4 DEF Track
  <2> QED
    BY <2>2, <2>3, <2>4, <1>c DEF Accounting
<1>5. ASSUME NEW t \in Threads, Register(t) PROVE Accounting'
  <2>1. PICK j \in Jobs : /\ jobPc[j] = "none"
                          /\ jobPc' = [jobPc EXCEPT ![j] = "commit"]
    BY <1>5 DEF Register
  <2>2. Registering' = Registering \ {t} /\ t \in Registering
    BY <1>5 DEF Register, AfterCommit, Types, Registering
  <2>3. Counted' = Counted \cup {j} /\ j \notin Counted
    BY <2>1 DEF Types, Counted
  <2>4. Awaited' = Awaited \cup {j} /\ j \notin Awaited
    BY <2>1 DEF Types, Awaited
  <2>5. Cardinality(Registering') = Cardinality(Registering) - 1
    BY <2>2, FiniteCounted, FS_RemoveElement
  <2>6. Cardinality(Counted') = Cardinality(Counted) + 1
    BY <2>3, FiniteCounted, FS_AddElement
  <2>7. Cardinality(Awaited') = Cardinality(Awaited) + 1
    BY <2>4, FiniteCounted, FS_AddElement
  <2>8. pendingCommits' = pendingCommits /\ waitGroup' = waitGroup + 1
    BY <1>5 DEF Register
  <2> QED
    BY <2>5, <2>6, <2>7, <2>8, <1>c DEF Accounting
<1>6. ASSUME NEW j \in Jobs, JobCommit(j) PROVE Quiet
  BY <1>6 DEF JobCommit, Types, Counted, Registering, Awaited
<1>7. ASSUME NEW j \in Jobs, JobUntrack(j) PROVE Accounting'
  <2>1. Counted' = Counted \ {j} /\ j \in Counted
    BY <1>7 DEF JobUntrack, Types, Counted
  <2>2. Registering' = Registering /\ Awaited' = Awaited
    BY <1>7 DEF JobUntrack, Types, Registering, Awaited
  <2>3. Cardinality(Counted') = Cardinality(Counted) - 1
    BY <2>1, FiniteCounted, FS_RemoveElement
  <2>4. pendingCommits' = pendingCommits - 1 /\ waitGroup' = waitGroup
    BY <1>7 DEF JobUntrack
  <2> QED
    BY <2>2, <2>3, <2>4, <1>c DEF Accounting
<1>8. ASSUME NEW j \in Jobs, JobDone(j) PROVE Accounting'
  <2>1. Awaited' = Awaited \ {j} /\ j \in Awaited
    BY <1>8 DEF JobDone, Types, Awaited
  <2>2. Registering' = Registering /\ Counted' = Counted
    BY <1>8 DEF JobDone, Types, Registering, Counted
  <2>3. Cardinality(Awaited') = Cardinality(Awaited) - 1
    BY <2>1, FiniteCounted, FS_RemoveElement
  <2>4. waitGroup' = waitGroup - 1 /\ pendingCommits' = pendingCommits
    BY <1>8 DEF JobDone
  <2> QED
    BY <2>2, <2>3, <2>4, <1>c DEF Accounting
<1>9. CASE CommitOnClosedDB
  BY <1>9, <1>q DEF CommitOnClosedDB, Counted, Registering, Awaited
<1>10. CASE Restart
  <2>1. Counted' = {} /\ Registering' = {} /\ Awaited' = {}
    BY <1>10 DEF Restart, Counted, Registering, Awaited
  <2>2. pendingCommits' = 0 /\ waitGroup' = 0
    BY <1>10 DEF Restart
  <2> QED
    BY <2>1, <2>2, FS_EmptySet DEF Accounting
<1>11. CASE UNCHANGED vars
  BY <1>11, <1>q DEF vars, Counted, Registering, Awaited
<1> HIDE DEF Quiet
<1> QED
  BY <1>q, <1>1, <1>2, <1>3, <1>4, <1>5, <1>6, <1>7, <1>8, <1>9, <1>10, <1>11
     DEF Next, ThreadStep, JobStep

\* The counter of pending commits and the wait group of store.go always agree with
\* the background goroutines, for any number of concurrent callers.
THEOREM AccountingCorrect == Spec => []Accounting
<1>1. Init => Types /\ Accounting
  BY InitTypes, InitAccounting
<1>2. Types /\ Accounting /\ [Next]_vars => (Types /\ Accounting)'
  BY NextTypes, NextAccounting
<1> QED
  BY <1>1, <1>2, PTL DEF Spec

\* The variables of the store keep their types; in particular no decrement takes a
\* counter of pending commits below zero.
THEOREM TypeCorrect == Spec => []TypeOK
<1>1. Init => Types
  BY InitTypes
<1>2. Types /\ [Next]_vars => Types'
  BY NextTypes
<1>3. Types /\ Accounting => TypeOK
  <2> SUFFICES ASSUME Types, Accounting PROVE TypeOK
    OBVIOUS
  <2>1. /\ Cardinality(Counted) \in Nat /\ Cardinality(Registering) \in Nat
        /\ Cardinality(Awaited) \in Nat
    BY FiniteCounted, FS_CardinalityType
  <2>2. pendingCommits \in Nat /\ waitGroup \in Nat
    BY <2>1 DEF Accounting
  <2> QED
    BY <2>2 DEF Types, TypeOK
<1> QED
  BY <1>1, <1>2, <1>3, AccountingCorrect, PTL DEF Spec

----------------------------------------------------------------------------
\* Who holds what, by control point: a rotated batch only between its rotation and
\* its commit, and the block of an ApplyBlock until it is attached.
Owned ==
    /\ \A j \in Jobs : jobPc[j] # "commit" => jobBatch[j] = {}
    /\ \A t \in Threads :
        /\ pc[t] \notin {"commit", "track", "register"} => old[t] = {}
        /\ pc[t] = "attach" => op[t] = "apply"
        /\ op[t] = "apply" => \E b \in Blocks : arg[t] = {b}

LEMMA InitOwned == Init => Owned
BY DEF Init, Owned

LEMMA NextOwned == Types /\ Owned /\ [Next]_vars => Owned'
<1> SUFFICES ASSUME Types, Owned, [Next]_vars PROVE Owned'
  OBVIOUS
<1> USE DEF Types, Owned, memVars, dbVars, threadVars, jobVars, Goto
<1>1. ASSUME NEW t \in Threads, NEW b \in Blocks, ApplyBlock(t, b) PROVE Owned'
  BY <1>1 DEF ApplyBlock
<1>2. ASSUME NEW t \in Threads, Attach(t) PROVE Owned'
  BY <1>2 DEF Attach
<1>3. ASSUME NEW t \in Threads, FlushBatch(t) PROVE Owned'
  BY <1>3 DEF FlushBatch
<1>4. ASSUME NEW t \in Threads, CheckClosed(t) PROVE Owned'
  BY <1>4 DEF CheckClosed, AfterCommit
<1>20. ASSUME NEW t \in Threads, CheckPending(t) PROVE Owned'
  BY <1>20 DEF CheckPending
<1>5. ASSUME NEW t \in Threads, WaitForPendingCommits(t) PROVE Owned'
  BY <1>5 DEF WaitForPendingCommits
<1>6. ASSUME NEW t \in Threads, Rotate(t) PROVE Owned'
  BY <1>6 DEF Rotate
<1>7. ASSUME NEW t \in Threads, CommitSync(t) PROVE Owned'
  BY <1>7 DEF CommitSync, AfterCommit
<1>8. ASSUME NEW t \in Threads, Track(t) PROVE Owned'
  BY <1>8 DEF Track
<1>9. ASSUME NEW t \in Threads, Register(t) PROVE Owned'
  BY <1>9 DEF Register, AfterCommit
<1>10. ASSUME NEW t \in Threads, Close(t) PROVE Owned'
  BY <1>10 DEF Close
<1>11. ASSUME NEW t \in Threads, CloseWait(t) \/ CloseFlush(t) \/ DbClose(t) PROVE Owned'
  BY <1>11 DEF CloseWait, CloseFlush, DbClose
<1>12. ASSUME NEW j \in Jobs, JobStep(j) PROVE Owned'
  BY <1>12 DEF JobStep, JobCommit, JobUntrack, JobDone
<1>13. CASE CommitOnClosedDB
  BY <1>13 DEF CommitOnClosedDB
<1>14. CASE Restart
  BY <1>14 DEF Restart
<1>15. CASE UNCHANGED vars
  BY <1>15 DEF vars
<1> QED
  BY <1>1, <1>2, <1>3, <1>4, <1>20, <1>5, <1>6, <1>7, <1>8, <1>9, <1>10, <1>11, <1>12,
     <1>13, <1>14, <1>15 DEF Next, ThreadStep

\* A commit adds its batch to what the DB holds.
LEMMA CommittedAppend ==
    ASSUME Types, NEW S \in SUBSET Blocks, log' = Append(log, S)
    PROVE  /\ Committed' = Committed \cup S
           /\ DOMAIN log' = DOMAIN log \cup {Len(log) + 1}
           /\ log'[Len(log) + 1] = S
           /\ \A i \in DOMAIN log : i # Len(log) + 1 /\ log'[i] = log[i]
<1>1. /\ DOMAIN log' = DOMAIN log \cup {Len(log) + 1}
      /\ log'[Len(log) + 1] = S
      /\ \A i \in DOMAIN log : i # Len(log) + 1 /\ log'[i] = log[i]
  BY DEF Types
<1>2. ASSUME NEW x PROVE x \in Committed' <=> x \in Committed \cup S
  BY <1>1 DEF Committed
<1> QED
  BY <1>1, <1>2

\* A restart keeps a prefix of the log.
LEMMA CommittedPrefix ==
    ASSUME Types, NEW n \in 0..Len(log), log' = SubSeq(log, 1, n)
    PROVE  /\ Committed' \subseteq Committed
           /\ DOMAIN log' \subseteq DOMAIN log
           /\ \A i \in DOMAIN log' : log'[i] = log[i]
<1>1. /\ DOMAIN log' \subseteq DOMAIN log
      /\ \A i \in DOMAIN log' : log'[i] = log[i]
  BY DEF Types
<1> QED
  BY <1>1 DEF Committed

LEMMA InitOnePlace == Init => OnePlace
BY DEF Init, OnePlace, Committed

LEMMA NextOnePlace == Types /\ Owned /\ OnePlace /\ [Next]_vars => OnePlace'
<1> SUFFICES ASSUME Types, Owned, OnePlace, [Next]_vars PROVE OnePlace'
  OBVIOUS
<1> USE DEF memVars, dbVars, threadVars, jobVars, Goto
<1>k. UNCHANGED log => Committed' = Committed
  BY DEF Committed
<1>1. ASSUME NEW t \in Threads, NEW b \in Blocks, ApplyBlock(t, b) PROVE OnePlace'
  <2>1. b \notin batch \cup Committed /\ \A u \in Threads : b \notin arg[u] \cup old[u]
    BY <1>1 DEF ApplyBlock, InFlight
  <2>2. \A j \in Jobs : b \notin jobBatch[j]
    BY <1>1 DEF ApplyBlock, InFlight, Owned
  <2> QED
    BY <1>1, <1>k, <2>1, <2>2 DEF ApplyBlock, OnePlace, Types
<1>2. ASSUME NEW t \in Threads, Attach(t) PROVE OnePlace'
  BY <1>2, <1>k DEF Attach, OnePlace, Types
<1>3. ASSUME NEW t \in Threads, Rotate(t) PROVE OnePlace'
  BY <1>3, <1>k DEF Rotate, OnePlace, Types
<1>4. ASSUME NEW t \in Threads, CommitSync(t) PROVE OnePlace'
  <2>1. log' = Append(log, old[t]) /\ old[t] \in SUBSET Blocks
    BY <1>4 DEF CommitSync, Commit, Types
  <2>2. \A i \in DOMAIN log : log[i] \cap old[t] = {}
    BY DEF OnePlace, Committed
  <2> QED
    BY <1>4, <2>1, <2>2, CommittedAppend DEF CommitSync, OnePlace, Types
<1>5. ASSUME NEW t \in Threads, Register(t) PROVE OnePlace'
  BY <1>5, <1>k DEF Register, OnePlace, Types
<1>6. ASSUME NEW j \in Jobs, JobCommit(j) PROVE OnePlace'
  <2>1. log' = Append(log, jobBatch[j]) /\ jobBatch[j] \in SUBSET Blocks
    BY <1>6 DEF JobCommit, Commit, Types
  <2>2. \A i \in DOMAIN log : log[i] \cap jobBatch[j] = {}
    BY DEF OnePlace, Committed
  <2> QED
    BY <1>6, <2>1, <2>2, CommittedAppend DEF JobCommit, OnePlace, Types
<1>7. CASE Restart
  <2>1. PICK n \in 0..Len(log) : log' = SubSeq(log, 1, n)
    BY <1>7 DEF Restart
  <2> QED
    BY <1>7, <2>1, CommittedPrefix DEF Restart, OnePlace
<1>8. ASSUME NEW t \in Threads,
             \/ FlushBatch(t) \/ CheckClosed(t) \/ CheckPending(t) \/ WaitForPendingCommits(t) \/ Track(t)
             \/ Close(t) \/ CloseWait(t) \/ CloseFlush(t) \/ DbClose(t)
      PROVE  UNCHANGED <<batch, arg, old, jobBatch, log>>
  BY <1>8 DEF FlushBatch, CheckClosed, CheckPending, WaitForPendingCommits, Track, Close, CloseWait,
              CloseFlush, DbClose
<1>9. ASSUME NEW j \in Jobs, JobUntrack(j) \/ JobDone(j)
      PROVE  UNCHANGED <<batch, arg, old, jobBatch, log>>
  BY <1>9 DEF JobUntrack, JobDone
<1>10. CommitOnClosedDB \/ UNCHANGED vars => UNCHANGED <<batch, arg, old, jobBatch, log>>
  BY DEF CommitOnClosedDB, vars
<1>11. UNCHANGED <<batch, arg, old, jobBatch, log>> => OnePlace'
  BY <1>k DEF OnePlace
<1> QED
  BY <1>1, <1>2, <1>3, <1>4, <1>5, <1>6, <1>7, <1>8, <1>9, <1>10, <1>11
     DEF Next, ThreadStep, JobStep

\* The inductive invariant of the store.
IInv == Types /\ Owned /\ OnePlace

LEMMA Invariance == Spec => []IInv
<1>1. Init => IInv
  BY InitTypes, InitOwned, InitOnePlace DEF IInv
<1>2. IInv /\ [Next]_vars => IInv'
  BY NextTypes, NextOwned, NextOnePlace DEF IInv
<1> QED
  BY <1>1, <1>2, PTL DEF Spec

\* Whatever the interleaving of callers, background commits, Close and crashes, no
\* block is in two batches, committed twice, or pending once it is in the DB.
THEOREM OnePlaceCorrect == Spec => []OnePlace
BY Invariance, PTL DEF IInv

----------------------------------------------------------------------------
\* The blocks a store holds but does not show, as WriteBehind sees them.
Held == batch \cup InFlight

LEMMA InFlightMember ==
    ASSUME Owned, NEW x
    PROVE  x \in InFlight <=> \/ \E t \in Threads : x \in old[t]
                              \/ \E j \in Jobs : x \in jobBatch[j]
BY DEF InFlight, Owned

LEMMA InitImplements == Init => Abstract!Init
BY DEF Init, Abstract!Init, InFlight

LEMMA NextImplements ==
    ASSUME IInv, Owned', [Next]_vars
    PROVE  [Abstract!Next]_<<Held, log>>
<1> USE DEF memVars, dbVars, threadVars, jobVars, Goto
<1> DEFINE Stutter == Held' = Held /\ log' = log
<1>t. Types /\ Owned /\ OnePlace
  BY DEF IInv
<1>m. \A x : x \in Held <=> \/ x \in batch
                            \/ \E t \in Threads : x \in old[t]
                            \/ \E j \in Jobs : x \in jobBatch[j]
  BY InFlightMember, <1>t DEF Held
<1>n. \A x : x \in Held' <=> \/ x \in batch'
                             \/ \E t \in Threads : x \in old'[t]
                             \/ \E j \in Jobs : x \in jobBatch'[j]
  <2>1. ASSUME NEW x
        PROVE  x \in InFlight' <=> \/ \E t \in Threads : x \in old'[t]
                                   \/ \E j \in Jobs : x \in jobBatch'[j]
    BY DEF InFlight, Owned
  <2> QED
    BY <2>1 DEF Held
<1>v. Abstract!Visible = Committed
  BY DEF Abstract!Visible, Committed
<1>1. ASSUME UNCHANGED <<batch, old, jobBatch, log>> PROVE Stutter
  BY <1>1, <1>m, <1>n
<1>2. ASSUME NEW t \in Threads, NEW b \in Blocks, ApplyBlock(t, b) PROVE Stutter
  BY <1>2, <1>1 DEF ApplyBlock
<1>3. ASSUME NEW t \in Threads, Attach(t) PROVE Abstract!Next
  <2>1. PICK b \in Blocks : arg[t] = {b}
    BY <1>3, <1>t DEF Attach, Owned
  <2>2. b \notin Held \cup Committed
    BY <2>1, <1>m, <1>t DEF OnePlace
  <2>3. batch' = batch \cup {b} /\ UNCHANGED <<old, jobBatch, log>>
    BY <1>3, <2>1 DEF Attach
  <2>4. Held' = Held \cup {b}
    BY <2>3, <1>m, <1>n
  <2>5. Abstract!Accept(b)
    BY <2>2, <2>3, <2>4, <1>v DEF Abstract!Accept, Held
  <2> QED
    BY <2>5 DEF Abstract!Next
<1>4. ASSUME NEW t \in Threads, Rotate(t) PROVE Stutter
  <2>1. old[t] = {} /\ old' = [old EXCEPT ![t] = batch] /\ batch' = {}
        /\ UNCHANGED <<jobBatch, log>>
    BY <1>4, <1>t DEF Rotate, Owned
  <2>2. ASSUME NEW x PROVE x \in Held' <=> x \in Held
    BY <2>1, <1>m, <1>n, <1>t DEF Types
  <2> QED
    BY <2>1, <2>2
<1>5. ASSUME NEW t \in Threads, CommitSync(t) PROVE Abstract!Next
  <2>1. /\ log' = Append(log, old[t]) /\ old' = [old EXCEPT ![t] = {}]
        /\ UNCHANGED <<batch, jobBatch>>
    BY <1>5 DEF CommitSync, Commit
  <2>2. old[t] \subseteq Held
    BY <1>m
  <2>3. ASSUME NEW x PROVE x \in Held' <=> x \in Held \ old[t]
    BY <2>1, <1>m, <1>n, <1>t DEF OnePlace, Types
  <2>4. Abstract!Publish(old[t])
    BY <2>1, <2>2, <2>3 DEF Abstract!Publish, Held
  <2> QED
    BY <2>2, <2>4 DEF Abstract!Next, Held
<1>6. ASSUME NEW t \in Threads, Register(t) PROVE Stutter
  <2>1. PICK j \in Jobs : jobPc[j] = "none" /\ jobBatch' = [jobBatch EXCEPT ![j] = old[t]]
    BY <1>6 DEF Register
  <2>2. jobBatch[j] = {} /\ old' = [old EXCEPT ![t] = {}] /\ UNCHANGED <<batch, log>>
    BY <1>6, <2>1, <1>t DEF Register, Owned
  <2>3. ASSUME NEW x PROVE x \in Held' <=> x \in Held
    BY <2>1, <2>2, <1>m, <1>n, <1>t DEF Types
  <2> QED
    BY <2>2, <2>3
<1>7. ASSUME NEW j \in Jobs, JobCommit(j) PROVE Abstract!Next
  <2>1. /\ log' = Append(log, jobBatch[j]) /\ jobBatch' = [jobBatch EXCEPT ![j] = {}]
        /\ UNCHANGED <<batch, old>>
    BY <1>7 DEF JobCommit, Commit
  <2>2. jobBatch[j] \subseteq Held
    BY <1>m
  <2>3. ASSUME NEW x PROVE x \in Held' <=> x \in Held \ jobBatch[j]
    BY <2>1, <1>m, <1>n, <1>t DEF OnePlace, Types
  <2>4. Abstract!Publish(jobBatch[j])
    BY <2>1, <2>2, <2>3 DEF Abstract!Publish, Held
  <2> QED
    BY <2>2, <2>4 DEF Abstract!Next, Held
<1>8. ASSUME NEW t \in Threads,
             \/ FlushBatch(t) \/ CheckClosed(t) \/ CheckPending(t) \/ WaitForPendingCommits(t) \/ Track(t)
             \/ Close(t) \/ CloseWait(t) \/ CloseFlush(t) \/ DbClose(t)
      PROVE  Stutter
  BY <1>8, <1>1 DEF FlushBatch, CheckClosed, CheckPending, WaitForPendingCommits, Track, Close,
                    CloseWait, CloseFlush, DbClose
<1>9. ASSUME NEW j \in Jobs, JobUntrack(j) \/ JobDone(j) PROVE Stutter
  BY <1>9, <1>1 DEF JobUntrack, JobDone
<1>10. CommitOnClosedDB \/ UNCHANGED vars => Stutter
  BY <1>1 DEF CommitOnClosedDB, vars
<1>11. ASSUME Restart PROVE Abstract!Next
  <2>1. PICK n \in 0..Len(log) : log' = SubSeq(log, 1, n)
    BY <1>11 DEF Restart
  <2>2. Held' = {}
    BY <1>11, <1>n DEF Restart
  <2>3. Abstract!Restart(n)
    BY <2>1, <2>2 DEF Abstract!Restart, Held
  <2> QED
    BY <2>3 DEF Abstract!Next
<1> HIDE DEF Stutter
<1>12. Stutter \/ Abstract!Next
  BY <1>2, <1>3, <1>4, <1>5, <1>6, <1>7, <1>8, <1>9, <1>10, <1>11
     DEF Next, ThreadStep, JobStep
<1> QED
  BY <1>12 DEF Stutter

\* The store implements WriteBehind: every block an ApplyBlock has accepted stays
\* held until its whole batch is visible, in every interleaving; only the end of
\* the process loses blocks, and then a suffix of the commits.
THEOREM StoreImplementsWriteBehind == Spec => Implements
<1>1. IInv /\ IInv' /\ [Next]_vars => [Abstract!Next]_<<batch \cup InFlight, log>>
  BY NextImplements DEF IInv, Held
<1> QED
  BY <1>1, InitImplements, Invariance, PTL DEF Spec, Implements, Abstract!Spec
----------------------------------------------------------------------------
\* Callers that have passed the check of the limit and not yet counted their commit.
Admitted == {t \in Threads : op[t] = "apply" /\ pc[t] \in {"rotate", "track"}}

\* Only ApplyBlock commits in the background, and only appliers call it.
ApplierOps ==
    \A t \in Threads : /\ op[t] = "apply" => t \in Appliers
                       /\ pc[t] \in {"track", "register"} => op[t] = "apply"

\* The limit with the callers that are about to count against it.
AdmittedBound ==
    pendingCommits + Cardinality(Admitted) <= MaxPending + Cardinality(Appliers) - 1

LEMMA InitApplierOps == Init => ApplierOps
BY DEF Init, ApplierOps

LEMMA NextApplierOps == Types /\ ApplierOps /\ [Next]_vars => ApplierOps'
<1> SUFFICES ASSUME Types, ApplierOps, [Next]_vars PROVE ApplierOps'
  OBVIOUS
<1> USE DEF Types, ApplierOps, memVars, dbVars, threadVars, jobVars, Goto
<1>1. ASSUME NEW t \in Threads, NEW b \in Blocks, ApplyBlock(t, b) PROVE ApplierOps'
  BY <1>1 DEF ApplyBlock
<1>2. ASSUME NEW t \in Threads, Attach(t) \/ FlushBatch(t) \/ Close(t) \/ DbClose(t)
      PROVE  ApplierOps'
  BY <1>2 DEF Attach, FlushBatch, Close, DbClose
<1>3. ASSUME NEW t \in Threads, CheckClosed(t) PROVE ApplierOps'
  BY <1>3 DEF CheckClosed, AfterCommit
<1>4. ASSUME NEW t \in Threads,
             \/ CheckPending(t) \/ WaitForPendingCommits(t) \/ Rotate(t) \/ Track(t)
             \/ CloseWait(t) \/ CloseFlush(t)
      PROVE  ApplierOps'
  BY <1>4 DEF CheckPending, WaitForPendingCommits, Rotate, Track, CloseWait, CloseFlush
<1>5. ASSUME NEW t \in Threads, CommitSync(t) \/ Register(t) PROVE ApplierOps'
  BY <1>5 DEF CommitSync, Register, AfterCommit
<1>6. ASSUME NEW j \in Jobs, JobStep(j) PROVE ApplierOps'
  BY <1>6 DEF JobStep, JobCommit, JobUntrack, JobDone
<1>7. CASE CommitOnClosedDB \/ UNCHANGED vars
  BY <1>7 DEF CommitOnClosedDB, vars
<1>8. CASE Restart
  BY <1>8 DEF Restart
<1> QED
  BY <1>1, <1>2, <1>3, <1>4, <1>5, <1>6, <1>7, <1>8 DEF Next, ThreadStep
LEMMA FiniteAppliers == IsFiniteSet(Appliers) /\ Cardinality(Appliers) \in Nat
<1>1. IsFiniteSet(Appliers)
  BY FS_Subset, StoreAssumption
<1> QED
  BY <1>1, FS_CardinalityType

LEMMA FiniteAdmitted == IsFiniteSet(Admitted) /\ Cardinality(Admitted) \in Nat
<1>1. IsFiniteSet(Admitted)
  BY FS_Subset, StoreAssumption DEF Admitted
<1> QED
  BY <1>1, FS_CardinalityType

\* One more admitted caller leaves room: it and the callers that are admitted or
\* registering are different appliers.
LEMMA AppliersRoom ==
    ASSUME Types, ApplierOps, NEW t \in Threads, op[t] = "apply",
           pc[t] \in {"pending", "wait"}
    PROVE  Cardinality(Admitted) + Cardinality(Registering) + 1 <= Cardinality(Appliers)
<1> DEFINE Busy == Admitted \cup Registering
<1>1. Busy \cup {t} \subseteq Appliers /\ t \notin Busy
  BY DEF ApplierOps, Admitted, Registering
<1>2. IsFiniteSet(Admitted) /\ IsFiniteSet(Registering)
  BY FiniteAdmitted, FiniteCounted
<1>3. Admitted \cap Registering = {}
  BY DEF Admitted, Registering
<1>4. IsFiniteSet(Busy) /\ Cardinality(Busy) = Cardinality(Admitted) + Cardinality(Registering)
  <2>1. /\ IsFiniteSet(Busy)
        /\ Cardinality(Busy) = Cardinality(Admitted) + Cardinality(Registering)
                               - Cardinality(Admitted \cap Registering)
    BY <1>2, FS_Union
  <2>2. Cardinality(Admitted \cap Registering) = 0
    BY <1>3, FS_EmptySet
  <2>3. Cardinality(Admitted) \in Nat /\ Cardinality(Registering) \in Nat
    BY <1>2, FS_CardinalityType
  <2> QED
    BY <2>1, <2>2, <2>3
<1> HIDE DEF Busy
<1>5. Cardinality(Busy \cup {t}) = Cardinality(Busy) + 1
  BY <1>1, <1>4, FS_AddElement
<1>6. Cardinality(Busy \cup {t}) <= Cardinality(Appliers)
  BY <1>1, FiniteAppliers, FS_Subset
<1> QED
  BY <1>4, <1>5, <1>6

LEMMA InitAdmittedBound == Init => AdmittedBound
<1> SUFFICES ASSUME Init PROVE AdmittedBound
  OBVIOUS
<1>1. Admitted = {} /\ pendingCommits = 0
  BY DEF Init, Admitted
<1> QED
  BY <1>1, FS_EmptySet, FiniteAppliers, StoreAssumption DEF AdmittedBound

LEMMA NextAdmittedBound ==
    Types /\ Accounting /\ ApplierOps /\ AdmittedBound /\ [Next]_vars => AdmittedBound'
<1> SUFFICES ASSUME Types, Accounting, ApplierOps, AdmittedBound, [Next]_vars
             PROVE  AdmittedBound'
  OBVIOUS
<1> USE DEF memVars, dbVars, threadVars, jobVars, Goto
<1>c. /\ Cardinality(Admitted) \in Nat /\ Cardinality(Registering) \in Nat
      /\ Cardinality(Counted) \in Nat /\ Cardinality(Appliers) \in Nat
      /\ MaxPending \in Nat \ {0} /\ pendingCommits \in Int
  BY FiniteAdmitted, FiniteAppliers, FiniteCounted, FS_CardinalityType, StoreAssumption DEF Types
<1> DEFINE Quiet == Admitted' = Admitted /\ pendingCommits' = pendingCommits
<1>q. Quiet => AdmittedBound'
  BY DEF AdmittedBound
\* The caller t is admitted.
<1>a. ASSUME NEW t \in Threads, op[t] = "apply", pc[t] \in {"pending", "wait"},
             pc' = [pc EXCEPT ![t] = "rotate"], op' = op
      PROVE  Cardinality(Admitted') = Cardinality(Admitted) + 1
  <2>1. Admitted' = Admitted \cup {t} /\ t \notin Admitted
    BY <1>a DEF Types, Admitted
  <2> QED
    BY <2>1, FiniteAdmitted, FS_AddElement
<1>1. ASSUME NEW t \in Threads, NEW b \in Blocks, ApplyBlock(t, b) PROVE Quiet
  BY <1>1 DEF ApplyBlock, Types, Admitted
<1>2. ASSUME NEW t \in Threads,
             \/ Attach(t) \/ FlushBatch(t) \/ Rotate(t) \/ Close(t) \/ CloseWait(t)
             \/ CloseFlush(t) \/ DbClose(t)
      PROVE  Quiet
  BY <1>2 DEF Attach, FlushBatch, Rotate, Close, CloseWait, CloseFlush, DbClose, Types,
              Admitted
<1>3. ASSUME NEW t \in Threads, CheckClosed(t) \/ CommitSync(t) \/ Register(t) PROVE Quiet
  BY <1>3 DEF CheckClosed, CommitSync, Register, AfterCommit, Types, Admitted
<1>4. ASSUME NEW t \in Threads, CheckPending(t) PROVE AdmittedBound'
  <2>1. pendingCommits' = pendingCommits /\ op' = op /\ pc[t] = "pending"
    BY <1>4 DEF CheckPending
  <2>2. CASE op[t] # "apply" \/ pendingCommits >= MaxPending
    <3>1. Quiet
      BY <1>4, <2>1, <2>2 DEF CheckPending, Types, Admitted
    <3> QED
      BY <3>1, <1>q
  <2>3. CASE op[t] = "apply" /\ ~(pendingCommits >= MaxPending)
    <3>1. Cardinality(Admitted') = Cardinality(Admitted) + 1
      BY <1>4, <2>1, <2>3, <1>a DEF CheckPending
    <3>2. Cardinality(Admitted) + Cardinality(Registering) + 1 <= Cardinality(Appliers)
      BY <2>1, <2>3, AppliersRoom
    <3> QED
      BY <2>1, <2>3, <3>1, <3>2, <1>c DEF AdmittedBound
  <2> QED
    BY <2>2, <2>3
<1>5. ASSUME NEW t \in Threads, WaitForPendingCommits(t) PROVE AdmittedBound'
  <2>1. /\ pendingCommits' = pendingCommits /\ op' = op /\ pc[t] = "wait"
        /\ pc' = [pc EXCEPT ![t] = "rotate"] /\ waitGroup = 0
    BY <1>5 DEF WaitForPendingCommits
  <2>2. CASE op[t] # "apply"
    <3>1. Quiet
      BY <2>1, <2>2 DEF Types, Admitted
    <3> QED
      BY <3>1, <1>q
  <2>3. CASE op[t] = "apply"
    <3>1. Cardinality(Admitted') = Cardinality(Admitted) + 1
      BY <2>1, <2>3, <1>a
    <3>2. Cardinality(Admitted) + Cardinality(Registering) + 1 <= Cardinality(Appliers)
      BY <2>1, <2>3, AppliersRoom
    <3>3. Cardinality(Counted) = 0
      <4>1. Awaited = {}
        BY <2>1, FiniteCounted, FS_EmptySet DEF Accounting
      <4>2. Counted = {}
        BY <4>1 DEF Counted, Awaited
      <4> QED
        BY <4>2, FS_EmptySet
    <3>4. pendingCommits = Cardinality(Registering)
      BY <3>3, <1>c DEF Accounting
    <3> QED
      BY <2>1, <3>1, <3>2, <3>4, <1>c DEF AdmittedBound
  <2> QED
    BY <2>2, <2>3
<1>6. ASSUME NEW t \in Threads, Track(t) PROVE AdmittedBound'
  <2>1. Admitted' = Admitted \ {t} /\ t \in Admitted
    BY <1>6 DEF Track, Types, ApplierOps, Admitted
  <2>2. Cardinality(Admitted') = Cardinality(Admitted) - 1
    BY <2>1, FiniteAdmitted, FS_RemoveElement
  <2>3. pendingCommits' = pendingCommits + 1
    BY <1>6 DEF Track
  <2> QED
    BY <2>2, <2>3, <1>c DEF AdmittedBound
<1>7. ASSUME NEW j \in Jobs, JobCommit(j) \/ JobDone(j) PROVE Quiet
  BY <1>7 DEF JobCommit, JobDone, Admitted
<1>8. ASSUME NEW j \in Jobs, JobUntrack(j) PROVE AdmittedBound'
  <2>1. Admitted' = Admitted /\ pendingCommits' = pendingCommits - 1
    BY <1>8 DEF JobUntrack, Admitted
  <2> QED
    BY <2>1, <1>c DEF AdmittedBound
<1>9. CommitOnClosedDB \/ UNCHANGED vars => Quiet
  BY DEF CommitOnClosedDB, vars, Admitted
<1>10. ASSUME Restart PROVE AdmittedBound'
  <2>1. Admitted' = {} /\ pendingCommits' = 0
    BY <1>10 DEF Restart, Admitted
  <2> QED
    BY <2>1, <1>c, FS_EmptySet DEF AdmittedBound
<1> HIDE DEF Quiet
<1> QED
  BY <1>q, <1>1, <1>2, <1>3, <1>4, <1>5, <1>6, <1>7, <1>8, <1>9, <1>10
     DEF Next, ThreadStep, JobStep

\* commitBatch checks the limit on pending commits and increments their number in two
\* steps, yet any number of concurrent callers exceeds the limit at most by the number
\* of the other callers, also after a wait for all pending commits.
THEOREM PendingBoundCorrect == Spec => []PendingBound
<1> DEFINE PInv == Types /\ Accounting /\ ApplierOps /\ AdmittedBound
<1>1. Init => PInv
  BY InitTypes, InitAccounting, InitApplierOps, InitAdmittedBound
<1>2. PInv /\ [Next]_vars => PInv'
  BY NextTypes, NextAccounting, NextApplierOps, NextAdmittedBound
<1>3. PInv => PendingBound
  BY FiniteAdmitted, FiniteAppliers, StoreAssumption DEF Types, AdmittedBound, PendingBound
<1> HIDE DEF PInv
<1> QED
  BY <1>1, <1>2, <1>3, PTL DEF Spec

----------------------------------------------------------------------------
\* Callers whose block is counted and not attached, and those of them that have found
\* the batch full and not rotated it.
Attaching == {t \in Threads : op[t] = "apply"}
Over == {t \in Threads : op[t] = "apply" /\ pc[t] \in {"check", "pending", "wait", "rotate"}}

\* The batch and the blocks on their way to it against the counter, and the counter
\* against the size of a batch.
SizeInv ==
    /\ IsFiniteSet(batch)
    /\ Cardinality(batch) + Cardinality(Attaching) <= batchCounter + Cardinality(Appliers)
    /\ ~closed => batchCounter <= BatchSize + Cardinality(Over)

LEMMA FiniteAttaching ==
    /\ IsFiniteSet(Attaching) /\ Cardinality(Attaching) \in Nat
    /\ IsFiniteSet(Over) /\ Cardinality(Over) \in Nat
    /\ Cardinality(Over) <= Cardinality(Attaching)
<1>1. Attaching \subseteq Threads /\ Over \subseteq Attaching
  BY DEF Attaching, Over
<1> QED
  BY <1>1, FS_Subset, FS_CardinalityType, StoreAssumption

LEMMA AddOne ==
    ASSUME NEW S, IsFiniteSet(S), NEW x
    PROVE  /\ IsFiniteSet(S \cup {x}) /\ Cardinality(S \cup {x}) \in Nat
           /\ Cardinality(S \cup {x}) <= Cardinality(S) + 1
<1>1. /\ IsFiniteSet(S \cup {x})
      /\ \/ Cardinality(S \cup {x}) = Cardinality(S)
         \/ Cardinality(S \cup {x}) = Cardinality(S) + 1
  BY FS_AddElement
<1>2. Cardinality(S) \in Nat /\ Cardinality(S \cup {x}) \in Nat
  BY <1>1, FS_CardinalityType
<1> QED
  BY <1>1, <1>2

LEMMA AttachingAppliers == ApplierOps => Cardinality(Attaching) <= Cardinality(Appliers)
<1>1. ApplierOps => Attaching \subseteq Appliers
  BY DEF ApplierOps, Attaching
<1> QED
  BY <1>1, FiniteAppliers, FS_Subset

LEMMA InitSizeInv == Init => SizeInv
<1> SUFFICES ASSUME Init PROVE SizeInv
  OBVIOUS
<1>1. Attaching = {} /\ batch = {} /\ batchCounter = 0
  BY DEF Init, Attaching
<1> QED
  BY <1>1, FS_EmptySet, FiniteAppliers, FiniteAttaching, StoreAssumption DEF SizeInv

LEMMA NextSizeInv ==
    Types /\ Owned /\ ApplierOps /\ SizeInv /\ [Next]_vars => SizeInv'
<1> SUFFICES ASSUME Types, Owned, ApplierOps, SizeInv, [Next]_vars PROVE SizeInv'
  OBVIOUS
<1> USE DEF memVars, dbVars, threadVars, jobVars, Goto
<1>c. /\ Cardinality(Attaching) \in Nat /\ Cardinality(Over) \in Nat
      /\ Cardinality(Appliers) \in Nat /\ Cardinality(batch) \in Nat
      /\ BatchSize \in Nat /\ batchCounter \in Nat
  BY FiniteAttaching, FiniteAppliers, FS_CardinalityType, StoreAssumption DEF Types, SizeInv
\* A step that leaves the batch alone and forgets no caller that has found it full.
<1> DEFINE Quiet == /\ batch' = batch /\ batchCounter' = batchCounter
                    /\ Attaching' = Attaching
                    /\ ~closed' => ~closed /\ Over \subseteq Over'
<1>o. IsFiniteSet(Over') /\ Cardinality(Over') \in Nat
  <2>1. Over' \subseteq Threads
    BY DEF Over
  <2> QED
    BY <2>1, FS_Subset, FS_CardinalityType, StoreAssumption
<1>q. ASSUME Quiet PROVE SizeInv'
  <2>1. ASSUME ~closed' PROVE batchCounter' <= BatchSize + Cardinality(Over')
    <3>1. Cardinality(Over) <= Cardinality(Over')
      BY <1>q, <2>1, <1>o, FS_Subset
    <3> QED
      BY <1>q, <2>1, <3>1, <1>o, <1>c DEF SizeInv
  <2> QED
    BY <1>q, <2>1 DEF SizeInv
<1>1. ASSUME NEW t \in Threads, NEW b \in Blocks, ApplyBlock(t, b) PROVE SizeInv'
  <2>1. batch' = batch /\ batchCounter' = batchCounter + 1 /\ closed' = closed
    BY <1>1 DEF ApplyBlock
  <2>2. Cardinality(Attaching') <= Cardinality(Attaching) + 1
        /\ Cardinality(Attaching') \in Nat
    <3>1. Attaching' = Attaching \cup {t}
      BY <1>1 DEF ApplyBlock, Types, Attaching
    <3> QED
      BY <3>1, FiniteAttaching, AddOne
  <2>3. CASE batchCounter + 1 > BatchSize
    <3>1. Over' = Over \cup {t} /\ t \notin Over
      BY <1>1, <2>3 DEF ApplyBlock, Types, Over
    <3>2. Cardinality(Over') = Cardinality(Over) + 1
      BY <3>1, FiniteAttaching, FS_AddElement
    <3> QED
      BY <2>1, <2>2, <3>2, <1>c DEF SizeInv
  <2>4. CASE ~(batchCounter + 1 > BatchSize)
    <3>1. Over' = Over
      BY <1>1, <2>4 DEF ApplyBlock, Types, Over
    <3> QED
      BY <2>1, <2>2, <2>4, <3>1, <1>c DEF SizeInv
  <2> QED
    BY <2>3, <2>4
<1>2. ASSUME NEW t \in Threads, Attach(t) PROVE SizeInv'
  <2>1. /\ batch' = batch \cup arg[t] /\ batchCounter' = batchCounter /\ closed' = closed
        /\ pc[t] = "attach"
    BY <1>2 DEF Attach
  <2>2. op[t] = "apply"
    BY <2>1 DEF Owned
  <2>3. PICK b \in Blocks : arg[t] = {b}
    BY <2>2 DEF Owned
  <2>4. IsFiniteSet(batch') /\ Cardinality(batch') \in Nat
        /\ Cardinality(batch') <= Cardinality(batch) + 1
    BY <2>1, <2>3, AddOne DEF SizeInv
  <2>5. Attaching' = Attaching \ {t} /\ t \in Attaching
    BY <1>2, <2>2 DEF Attach, Types, Attaching
  <2>6. Cardinality(Attaching') = Cardinality(Attaching) - 1
    BY <2>5, FiniteAttaching, FS_RemoveElement
  <2>7. Over' = Over
    BY <1>2 DEF Attach, Types, Over
  <2> QED
    BY <2>1, <2>4, <2>6, <2>7, <1>c DEF SizeInv
<1>3. ASSUME NEW t \in Threads, FlushBatch(t) \/ Close(t) \/ DbClose(t) PROVE SizeInv'
  <2>1. /\ batch' = batch /\ batchCounter' = batchCounter /\ (~closed' => ~closed)
        /\ Over' = Over /\ Attaching' \subseteq Attaching
    BY <1>3 DEF FlushBatch, Close, DbClose, Types, Over, Attaching
  <2>2. Cardinality(Attaching') <= Cardinality(Attaching) /\ Cardinality(Attaching') \in Nat
    BY <2>1, FiniteAttaching, FS_Subset, FS_CardinalityType
  <2> QED
    BY <2>1, <2>2, <1>c DEF SizeInv
<1>4. ASSUME NEW t \in Threads, CheckClosed(t) PROVE Quiet
  BY <1>4 DEF CheckClosed, Types, Over, Attaching
<1>5. ASSUME NEW t \in Threads, CheckPending(t) \/ WaitForPendingCommits(t) PROVE Quiet
  BY <1>5 DEF CheckPending, WaitForPendingCommits, Types, Over, Attaching
<1>6. ASSUME NEW t \in Threads, Rotate(t) PROVE SizeInv'
  <2>1. batch' = {} /\ batchCounter' = 0 /\ Attaching' = Attaching
    BY <1>6 DEF Rotate, Attaching
  <2> QED
    BY <2>1, <1>o, <1>c, FS_EmptySet, AttachingAppliers DEF SizeInv
<1>7. ASSUME NEW t \in Threads, CommitSync(t) \/ Register(t) PROVE Quiet
  BY <1>7 DEF CommitSync, Register, AfterCommit, Types, Over, Attaching
<1>8. ASSUME NEW t \in Threads, Track(t) \/ CloseWait(t) PROVE Quiet
  BY <1>8 DEF Track, CloseWait, Types, Over, Attaching
<1>9. ASSUME NEW t \in Threads, CloseFlush(t) PROVE Quiet
  BY <1>9 DEF CloseFlush, Types, Over, Attaching
<1>10. ASSUME NEW j \in Jobs, JobStep(j) PROVE Quiet
  BY <1>10 DEF JobStep, JobCommit, JobUntrack, JobDone, Over, Attaching
<1>11. CommitOnClosedDB \/ UNCHANGED vars => Quiet
  BY DEF CommitOnClosedDB, vars, Over, Attaching
<1>12. ASSUME Restart PROVE SizeInv'
  <2>1. Attaching' = {} /\ Over' = {} /\ batch' = {} /\ batchCounter' = 0
    BY <1>12 DEF Restart, Attaching, Over
  <2> QED
    BY <2>1, <1>c, FS_EmptySet DEF SizeInv
<1> HIDE DEF Quiet
<1> QED
  BY <1>q, <1>1, <1>2, <1>3, <1>4, <1>5, <1>6, <1>7, <1>8, <1>9, <1>10, <1>11, <1>12
     DEF Next, ThreadStep

\* Blocks are counted in one critical section and attached in another, with a rotation
\* by anyone in between, yet the active batch of an open store exceeds its size by at
\* most one block per caller of ApplyBlock.
THEOREM BatchBoundCorrect == Spec => []BatchBound
<1> DEFINE SInv == Types /\ Owned /\ ApplierOps /\ SizeInv
<1>1. Init => SInv
  BY InitTypes, InitOwned, InitApplierOps, InitSizeInv
<1>2. SInv /\ [Next]_vars => SInv'
  BY NextTypes, NextOwned, NextApplierOps, NextSizeInv
<1>3. SInv => BatchBound
  <2> SUFFICES ASSUME Types, SizeInv PROVE BatchBound
    OBVIOUS
  <2>1. /\ Cardinality(Attaching) \in Nat /\ Cardinality(Over) \in Nat
        /\ Cardinality(Over) <= Cardinality(Attaching)
        /\ Cardinality(Appliers) \in Nat /\ Cardinality(batch) \in Nat
        /\ BatchSize \in Nat /\ batchCounter \in Nat
    BY FiniteAttaching, FiniteAppliers, FS_CardinalityType, StoreAssumption DEF Types, SizeInv
  <2> QED
    BY <2>1 DEF SizeInv, BatchBound
<1> HIDE DEF SInv
<1> QED
  BY <1>1, <1>2, <1>3, PTL DEF Spec

----------------------------------------------------------------------------
\* What Close relies on unless it overtook a call: with the flag up nobody enters the
\* part of commitBatch past its check, and once Close has waited there is no commit left.
CloseInv ==
    /\ \A t \in Threads :
        /\ op[t] = "close" => closed /\ pc[t] \in {"closeWait", "flush", "check", "dbClose"}
        /\ pc[t] \in {"closeWait", "flush", "dbClose"} => op[t] = "close"
        /\ closed /\ ~overtaken => pc[t] \notin PastCheck
        /\ ~overtaken /\ op[t] = "close" /\ pc[t] # "closeWait" => Awaited = {}
    /\ ~dbOpen => closed
    /\ ~dbOpen /\ ~overtaken => Awaited = {}
    /\ panicked => overtaken

LEMMA InitCloseInv == Init => CloseInv
<1> SUFFICES ASSUME Init PROVE CloseInv
  OBVIOUS
<1>1. dbOpen /\ ~panicked /\ ~closed /\ \A t \in Threads : pc[t] = "idle" /\ op[t] = "none"
  BY DEF Init
<1> QED
  BY <1>1 DEF CloseInv

LEMMA NextCloseInv == Types /\ Accounting /\ CloseInv /\ [Next]_vars => CloseInv'
<1> SUFFICES ASSUME Types, Accounting, CloseInv, [Next]_vars PROVE CloseInv'
  OBVIOUS
<1> USE DEF PastCheck
<1> USE DEF memVars, dbVars, threadVars, jobVars, Goto
<1>1. ASSUME NEW t \in Threads, NEW b \in Blocks, ApplyBlock(t, b) PROVE CloseInv'
  BY <1>1 DEF ApplyBlock, Types, CloseInv, Awaited
<1>2. ASSUME NEW t \in Threads, Attach(t) \/ FlushBatch(t) PROVE CloseInv'
  BY <1>2 DEF Attach, FlushBatch, Types, CloseInv, Awaited
<1>3. ASSUME NEW t \in Threads, CheckClosed(t) PROVE CloseInv'
  BY <1>3 DEF CheckClosed, AfterCommit, Types, Ops, CloseInv, Awaited
<1>4. ASSUME NEW t \in Threads, CheckPending(t) \/ WaitForPendingCommits(t) PROVE CloseInv'
  BY <1>4 DEF CheckPending, WaitForPendingCommits, Types, CloseInv, Awaited
<1>5. ASSUME NEW t \in Threads, Rotate(t) \/ Track(t) PROVE CloseInv'
  BY <1>5 DEF Rotate, Track, Types, CloseInv, Awaited
<1>6. ASSUME NEW t \in Threads, CommitSync(t) PROVE CloseInv'
  BY <1>6 DEF CommitSync, AfterCommit, Types, Ops, CloseInv, Awaited
<1>7. ASSUME NEW t \in Threads, Register(t) PROVE CloseInv'
  BY <1>7 DEF Register, AfterCommit, Types, Ops, CloseInv, Awaited
<1>8. ASSUME NEW t \in Threads, Close(t) PROVE CloseInv'
  <2>1. /\ ~closed /\ closed' /\ dbOpen' /\ ~panicked'
        /\ op' = [op EXCEPT ![t] = "close"] /\ pc' = [pc EXCEPT ![t] = "closeWait"]
    BY <1>8 DEF Close, Running, CloseInv
  <2>2. ASSUME ~overtaken', NEW u \in Threads PROVE pc[u] \notin PastCheck
    BY <1>8, <2>2, Zenon DEF Close
  <2>3. \A u \in Threads : ~overtaken' => pc'[u] \notin PastCheck
    BY <2>1, <2>2 DEF Types
  <2>4. \A u \in Threads :
            /\ op'[u] = "close" => u = t /\ pc'[u] = "closeWait"
            /\ pc'[u] \in {"closeWait", "flush", "dbClose"} => op'[u] = "close"
    BY <2>1 DEF Types, CloseInv
  <2> QED
    BY <2>1, <2>3, <2>4 DEF CloseInv
<1>9. ASSUME NEW t \in Threads, CloseWait(t) PROVE CloseInv'
  <2>1. Awaited = {}
    BY <1>9, FiniteCounted, FS_EmptySet DEF CloseWait, Accounting
  <2> QED
    BY <1>9, <2>1 DEF CloseWait, Types, CloseInv, Awaited
<1>10. ASSUME NEW t \in Threads, CloseFlush(t) PROVE CloseInv'
  BY <1>10 DEF CloseFlush, Types, CloseInv, Awaited
<1>11. ASSUME NEW t \in Threads, DbClose(t) PROVE CloseInv'
  BY <1>11 DEF DbClose, Types, CloseInv, Awaited
<1>12. ASSUME NEW j \in Jobs, JobStep(j) PROVE CloseInv'
  BY <1>12 DEF JobStep, JobCommit, JobUntrack, JobDone, Types, CloseInv, Awaited
<1>13. ASSUME CommitOnClosedDB PROVE CloseInv'
  <2>1. overtaken
    BY <1>13 DEF CommitOnClosedDB, CloseInv, Awaited
  <2> QED
    BY <1>13, <2>1 DEF CommitOnClosedDB, CloseInv, Awaited
<1>14. ASSUME Restart PROVE CloseInv'
  <2>1. dbOpen' /\ ~panicked' /\ ~closed' /\ \A t \in Threads : pc'[t] = "idle" /\ op'[t] = "none"
    BY <1>14 DEF Restart
  <2> QED
    BY <2>1 DEF CloseInv
<1>15. ASSUME UNCHANGED vars PROVE CloseInv'
  BY <1>15 DEF vars, CloseInv, Awaited
<1> QED
  BY <1>1, <1>2, <1>3, <1>4, <1>5, <1>6, <1>7, <1>8, <1>9, <1>10, <1>11, <1>12, <1>13,
     <1>14, <1>15 DEF Next, ThreadStep

\* With any number of callers, a commit of a goroutine reaches a closed DB only if Close
\* raised the flag over a call that had passed its check: Close waits for the commits it
\* finds, its own flush does not rotate, and nothing is started afterwards.  (Of an
\* overtaken call it does: CommitOnClosedDB happens in the runs.)
THEOREM PanicOnlyIfOvertakenCorrect == Spec => []PanicOnlyIfOvertaken
<1> DEFINE CInv == Types /\ Accounting /\ CloseInv
<1>1. Init => CInv
  BY InitTypes, InitAccounting, InitCloseInv
<1>2. CInv /\ [Next]_vars => CInv'
  BY NextTypes, NextAccounting, NextCloseInv
<1>3. CInv => PanicOnlyIfOvertaken
  BY DEF CloseInv, PanicOnlyIfOvertaken
<1> HIDE DEF CInv
<1> QED
  BY <1>1, <1>2, <1>3, PTL DEF Spec
=============================================================================

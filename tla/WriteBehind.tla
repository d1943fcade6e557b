---------------------------- MODULE WriteBehind ----------------------------
(***************************************************************************)
(* What the store promises its callers (database.DB: ApplyBlock, FlushBatch*)
(* and the readers): an accepted block is held until it becomes visible    *)
(* together with the other blocks of its batch, exactly once; visible      *)
(* blocks stay visible.  Only the end of the process takes anything back:  *)
(* everything held, and a suffix of what was published.                    *)
(***************************************************************************)
EXTENDS Integers, Sequences

CONSTANT Blocks

VARIABLES
    held,       \* accepted by ApplyBlock, not yet visible to a reader
    published   \* sequence of the sets of blocks that became visible

Visible == UNION {published[i] : i \in DOMAIN published}

Init == held = {} /\ published = <<>>

Accept(b) ==
    /\ b \notin held \cup Visible
    /\ held' = held \cup {b}
    /\ UNCHANGED published

\* A batch becomes visible as a whole.
Publish(S) ==
    /\ S \subseteq held
    /\ held' = held \ S
    /\ published' = Append(published, S)

\* The process ends and another opens the DB.
Restart(n) ==
    /\ n \in 0..Len(published)
    /\ held' = {}
    /\ published' = SubSeq(published, 1, n)

Next ==
    \/ \E b \in Blocks : Accept(b)
    \/ \E S \in SUBSET held : Publish(S)
    \/ \E n \in 0..Len(published) : Restart(n)

Spec == Init /\ [][Next]_<<held, published>>
=============================================================================

-------------------------- MODULE MCChainFollower --------------------------
(* Two branches over block 1, and the command lines. *)
EXTENDS ChainFollower, TLC

CONSTANTS g, a1, a2, a3, a4, b2, b3, b4

MCBlocks == {g, a1, a2, a3, a4, b2, b3, b4}
MCParent == g :> NoBlock @@ a1 :> g @@ a2 :> a1 @@ a3 :> a2 @@ a4 :> a3
            @@ b2 :> a1 @@ b3 :> b2 @@ b4 :> b3
MCHeightOf == g :> 0 @@ a1 :> 1 @@ a2 :> 2 @@ a3 :> 3 @@ a4 :> 4
              @@ b2 :> 2 @@ b3 :> 3 @@ b4 :> 4

Line(name, skip, start, end) == [name |-> name, skip |-> skip, start |-> start, end |-> end]
RunOnly == {Line("run", FALSE, 0, 0)}
RunLines == RunOnly \cup {Line("run", TRUE, 0, 0)}
SyncOnly == {Line("sync", FALSE, 0, 0)}
AllCommands == RunLines \cup SyncOnly
    \cup {Line("sync", TRUE, 0, 0), Line("sync", FALSE, 3, 4)}
=============================================================================

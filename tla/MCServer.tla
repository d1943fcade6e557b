------------------------------ MODULE MCServer ------------------------------
(***************************************************************************)
(* A fork at height 2.  Transaction 4 (block a1) has two taproot outputs.  *)
(* One is spent by 2, which both branches contain, the other by 6 in a2    *)
(* and by 9 in b3; 8 spends the output of 2, in a2 only.  10 is a coinbase,*)
(* 7 has no taproot part, 5 spends from below NUMS_H next to an eligible   *)
(* input, 8 only spends, 9 and 11 have taproot outputs and no tweak.       *)
(***************************************************************************)
EXTENDS Server, TLC

CONSTANTS a1, a2, b2, b3

In(prev, script, sig, witness) ==
    [prev |-> prev, script |-> script, sig |-> sig, witness |-> witness]
Taproot(amount) == [taproot |-> TRUE, amount |-> amount]
Legacy(amount) == [taproot |-> FALSE, amount |-> amount]

MCBlocks == {a1, a2, b2, b3}
MCParent == a1 :> NoBlock @@ a2 :> a1 @@ b2 :> a1 @@ b3 :> b2
MCHeight == a1 :> 1 @@ a2 :> 2 @@ b2 :> 2 @@ b3 :> 3
MCTxsOf == a1 :> <<10, 4, 7>> @@ a2 :> <<6, 2, 8>> @@ b2 :> <<5, 2>> @@ b3 :> <<9, 11>>

MCIns ==
    2 :> <<In(<<4, 0>>, "P2TR", "none", <<"data">>), In(<<1, 1>>, "P2SH", "other", <<>>)>> @@
    10 :> <<>> @@
    4 :> <<In(<<1, 0>>, "P2WPKH", "none", <<"data", "key33">>)>> @@
    5 :> <<In(<<1, 2>>, "P2TR", "none", <<"data", "nums", "annex1">>),
           In(<<1, 3>>, "P2PKH", "key33", <<>>)>> @@
    6 :> <<In(<<4, 2>>, "P2TR", "none", <<"data", "control">>)>> @@
    7 :> <<In(<<1, 4>>, "P2SH", "nested", <<"data", "key33">>)>> @@
    8 :> <<In(<<2, 0>>, "P2TR", "none", <<"data">>)>> @@
    9 :> <<In(<<4, 2>>, "P2TR", "none", <<"data", "nums">>)>> @@
    11 :> <<In(<<1, 5>>, "P2WPKH", "none", <<"data", "key33">>)>>
MCOuts ==
    2 :> <<Taproot(3)>> @@ 10 :> <<Taproot(9)>> @@
    4 :> <<Taproot(2), Legacy(1), Taproot(7)>> @@ 5 :> <<Taproot(6)>> @@
    6 :> <<Legacy(1), Taproot(8)>> @@ 7 :> <<Legacy(4)>> @@ 8 :> <<Legacy(3)>> @@
    9 :> <<Taproot(7)>> @@ 11 :> <<Taproot(5)>>

Request(api, kind, start, end) == [api |-> api, kind |-> kind, start |-> start, end |-> end]
MCRequests ==
    {Request("range", "tweaks", 0, 3), Request("range", "utxos", 1, 2),
     Request("range", "spent", 1, 3), Request("range", "compute", 1, 3),
     Request("range", "tweaks", 4, MaxUint32), Request("range", "tweaks", 0, MaxUint32),
     Request("range", "tweaks", 2, 1),
     Request("block", "tweaks", 3, 3), Request("block", "full", 2, 2),
     Request("stream", "compute", 1, 2), Request("stream", "scan", 2, 3),
     Request("stream", "compute", MaxUint32 + 2, MaxUint32 + 2),
     Request("stream", "compute", MaxUint64, MaxUint64),
     Request("block", "hash", 2, 2), Request("tip", "tip", 0, 0)}
NoRequests == {}
=============================================================================

---------------------------- MODULE Transactions ----------------------------
(***************************************************************************)
(* What the indexer keeps of a transaction: handleTx of indexer/builder.go,*)
(* the choice of the public keys that enter a tweak (pubkeyextract.go) and *)
(* whether a tweak exists (compute.go).                                    *)
(*                                                                         *)
(* A transaction is its txid, a number, so that txids have the order of    *)
(* their bytes.  A script is its kind, a witness the sequence of the kinds *)
(* of its elements:                                                        *)
(*   "key33", "key65"  a compressed, an uncompressed public key            *)
(*   "control", "nums" a control block, one whose internal key is NUMS_H   *)
(*   "annex1", "annex" an annex of the one byte 0x50, a longer one         *)
(*   "data"            anything else                                       *)
(* A tweak is a function of its transaction; only its existence matters.   *)
(* A list is the set of its rows, each with the number it is ordered by.   *)
(***************************************************************************)
EXTENDS Integers, Sequences, FiniteSets, SequencesExt

CONSTANTS
    Txids,     \* a set of positive numbers
    Ins,       \* Ins[t]: the inputs, [prev, script, sig, witness]; none for a coinbase
    Outs,      \* Outs[t]: the outputs, [taproot, amount]
    BadSum     \* external: transactions whose keys SumPublicKeys cannot add

NoTx == 0      \* the nil of handleTx

\* An input that spends an output of Txids has the script of that output.
ASSUME TransactionAssumption ==
    /\ Txids \subseteq Nat \ {NoTx} /\ BadSum \subseteq Txids
    /\ \A t \in Txids :
           /\ Ins[t] \in Seq([prev : Nat \X Nat, script : STRING, sig : STRING,
                              witness : Seq(STRING)])
           /\ Outs[t] \in Seq([taproot : BOOLEAN, amount : Nat])
           /\ \A i \in DOMAIN Ins[t] :
                  LET prev == Ins[t][i].prev
                  IN  prev[1] \in Txids =>
                          ((Ins[t][i].script = "P2TR") <=> Outs[prev[1]][prev[2] + 1].taproot)

----------------------------------------------------------------------------
\* A spend of a taproot output gives its key unless it goes through a script
\* below NUMS_H.  An annex is recognised only if it is the single byte 0x50.
extractPubKeyFromP2TR(witness) ==
    LET stack == IF Len(witness) > 1 /\ Last(witness) = "annex1"
                 THEN Front(witness) ELSE witness
    IN  witness # <<>> /\ ~(Len(stack) > 1 /\ Last(stack) = "nums")

\* Whether extractPubKeys takes a key from the input.
ExtractsKey(in) ==
    CASE in.script = "P2TR"   -> extractPubKeyFromP2TR(in.witness)
      [] in.script = "P2WPKH" -> Last(in.witness) = "key33"
      [] in.script = "P2SH"   -> in.sig = "nested" /\ Last(in.witness) = "key33"
      [] in.script = "P2PKH"  -> in.sig = "key33"
      [] OTHER                -> FALSE

\* ComputeTweakPerTx: no tweak without keys or without their sum.
ComputeTweakPerTx(t) == (\E i \in DOMAIN Ins[t] : ExtractsKey(Ins[t][i])) /\ t \notin BadSum

\* The taproot outputs of t, by vout, and what its taproot inputs spend: input, outpoint.
TaprootOuts(t) == {i - 1 : i \in {j \in DOMAIN Outs[t] : Outs[t][j].taproot}}
TaprootIns(t) ==
    {<<i, Ins[t][i].prev>> : i \in {j \in DOMAIN Ins[t] : Ins[t][j].script = "P2TR"}}

\* Faulty variant: transactions that only spend are not kept.
handleTxOutsOnly(t) ==
    LET outs == TaprootOuts(t)
    IN  [kept  |-> outs # {},
         tweak |-> outs # {} /\ ComputeTweakPerTx(t),
         outs  |-> outs,
         ins   |-> TaprootIns(t)]

\* handleTx: the taproot outputs, the taproot inputs, and a tweak if there is
\* an output to find; nil (not kept) if there is neither output nor input.
handleTx(t) ==
    LET outs == TaprootOuts(t)
        ins == TaprootIns(t)
    IN  [kept  |-> outs # {} \/ ins # {},
         tweak |-> outs # {} /\ ComputeTweakPerTx(t),
         outs  |-> outs,
         ins   |-> ins]
=============================================================================

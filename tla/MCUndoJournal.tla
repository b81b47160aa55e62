---------------------------- MODULE MCUndoJournal ----------------------------
(***************************************************************************)
(* Two branches above the first block.  pay spends its coinbase, change an *)
(* output of pay, again the output of change:                              *)
(*                                                                         *)
(*   b1 - a2 (pay) - a3 (change, again) - a4 (late)                        *)
(*      `- d2 (pay, change)                                                *)
(*                                                                         *)
(* late spends the coinbase of a2 and writes its txid in upper case.  The  *)
(* node may reorganize from a3 to the shorter d2 and back to a4.           *)
(***************************************************************************)
EXTENDS UndoJournal, TLC

CONSTANTS pay, change, again, late, m1, m2

MCTxIn == pay    :> {<< <<1, m1, 4>>, 1 >>}
       @@ change :> {<<pay, 2>>}
       @@ again  :> {<<change, 1>>}
       @@ late   :> {<< <<2, m1, 4>>, 1 >>}
MCSpelling == [t \in Tx |-> [op \in MCTxIn[t] |-> IF t = late THEN 1 ELSE 0]]
MCTxOut == pay :> <<1, 3>> @@ change :> <<3>> @@ again :> <<3>> @@ late :> <<4>>

Blk(h, m, txs) == [txs |-> txs, coinbase |-> <<h, m, 4>>]
MCOne   == << Blk(1, m1, << >>) >>
MCA     == MCOne \o << Blk(2, m1, <<pay>>), Blk(3, m1, <<change, again>>), Blk(4, m1, <<late>>) >>
MCD     == MCOne \o << Blk(2, m2, <<pay, change>>) >>

MCBranch == { SubSeq(MCA, 1, n) : n \in 0..4 } \cup { SubSeq(MCD, 1, n) : n \in 0..2 }

MCWork == [c \in MCBranch |-> CASE c = MCA -> 5
                                [] c = MCD -> 4
                                [] OTHER -> Len(c)]

MCLedger[c \in MCBranch] ==
  IF c = << >> THEN {}
  ELSE Applied(MCLedger[Parent(c)], Tip(c).txs, Tip(c).coinbase)

OperatorSymmetry == Permutations(Operator)
===============================================================================

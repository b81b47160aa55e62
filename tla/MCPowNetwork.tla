---------------------------- MODULE MCPowNetwork ----------------------------
(***************************************************************************)
(* A tree of eight blocks over two heights of forks:                       *)
(*                                                                         *)
(*   g - c1 - a2 - a3 (pay)    - a4 (change)                               *)
(*          |  `- x3 (pay, rival: in-block double spend)                   *)
(*          |- b2 - b3 (rival)                                             *)
(*          `- d2 (four units of work, no transactions)                    *)
(*                                                                         *)
(* pay and rival spend the coinbase of c1, which matures at height 3;      *)
(* change spends an output of pay, shout the coinbase of c1 in upper case. *)
(***************************************************************************)
EXTENDS PowNetwork, TLC

CONSTANTS pay, rival, change, shout, m1, m2, c1, a2, a3, a4, x3, b2, b3, d2

CbC1 == << <<1, m1, 4>>, 1 >>

MCTxIn  == pay :> {CbC1} @@ rival :> {CbC1} @@ change :> {<<pay, 2>>} @@ shout :> {CbC1}
MCTxOut == pay :> <<1, 2>> @@ rival :> <<4>> @@ change :> <<1>> @@ shout :> <<3>>

MCSpelling == [t \in Tx |-> [op \in MCTxIn[t] |-> IF t = shout THEN 1 ELSE 0]]

Content(parent, height, work, miner, value, txs) ==
  [parent |-> parent, height |-> height, time |-> height, work |-> work,
   miner |-> miner, value |-> value, txs |-> txs]

MCContents ==
     c1 :> Content(Genesis, 1, 1, m1, 4, << >>)
  @@ a2 :> Content(c1, 2, 1, m1, 2, << >>)
  @@ a3 :> Content(a2, 3, 1, m1, 3, <<pay>>)
  @@ a4 :> Content(a3, 4, 1, m1, 2, <<change>>)
  @@ x3 :> Content(a2, 3, 1, m2, 3, <<pay, rival>>)
  @@ b2 :> Content(c1, 2, 1, m2, 2, << >>)
  @@ b3 :> Content(b2, 3, 2, m2, 2, <<rival>>)
  @@ d2 :> Content(c1, 2, 4, m2, 2, << >>)
=============================================================================

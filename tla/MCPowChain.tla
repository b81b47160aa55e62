----------------------------- MODULE MCPowChain -----------------------------
(***************************************************************************)
(* A small instance of PowChain.  The subsidy of 4 halves every second     *)
(* height (4, 2, 2, 1), a coinbase matures in two blocks, a block holds a  *)
(* coinbase and at most two transactions.                                  *)
(***************************************************************************)
EXTENDS PowChain, TLC

CONSTANTS pay, rival, change, shout, m1, m2

\* Coinbase outpoint of height h when the block carries no fees.
Cb(h, m) == << <<h, m, Subsidy(h)>>, 1 >>

\* pay and rival spend the same coinbase, change spends an output of pay.
MCTxIn == pay    :> {Cb(1, m1)}
       @@ rival  :> {Cb(1, m1)}
       @@ change :> {<<pay, 2>>}
       @@ shout  :> {Cb(1, m1)}

\* shout spends the coinbase of pay and writes its txid in upper case.
MCSpelling == [t \in Tx |-> [op \in MCTxIn[t] |-> IF t = shout THEN 1 ELSE 0]]

\* Fees 1, 0, 1 and 1.
MCTxOut == pay :> <<1, 2>> @@ rival :> <<4>> @@ change :> <<1>> @@ shout :> <<3>>

\* Blocks of other software: chained spends in one block, an in-block double
\* spend, a child before its parent, too many.
MCForeignBody == { <<pay, change>>, <<pay, rival>>, <<change, pay>>,
                   <<pay, change, rival>> }

ClientSymmetry == Permutations(Client)
=============================================================================

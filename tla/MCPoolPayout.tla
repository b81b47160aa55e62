----------------------------- MODULE MCPoolPayout -----------------------------
(***************************************************************************)
(* Two miners, two operators, two coins; a plan may be capped below what   *)
(* is due, so that a second plan for the same miners can follow.           *)
(***************************************************************************)
EXTENDS PoolPayout, TLC

CONSTANTS alice, bob, o1, o2, k1, k2

MCMinerOrder == <<alice, bob>>
MCWalletCoin == { [id |-> k1, amount |-> 3], [id |-> k2, amount |-> 2] }
MCArgument == { [minimum |-> 1, fee |-> 1, maxTotal |-> cap, recipients |-> 2] : cap \in {2, 9} }

OperatorSymmetry == Permutations(Operator)
=============================================================================

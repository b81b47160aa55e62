------------------------------- MODULE MCPowPool -------------------------------
(***************************************************************************)
(* Two miners paid on two addresses; the nonce n3 of the first one solves  *)
(* a block.  A reward of 5 is not divisible by the two shares that count.  *)
(***************************************************************************)
EXTENDS PowPool, TLC

CONSTANTS alice, bob, w1, w2, n1, n2, n3

MCPayoutOf == w1 :> alice @@ w2 :> bob
MCAddressOrder == <<alice, bob>>
MCNoncesOf == w1 :> {n1, n3} @@ w2 :> {n2}
=============================================================================

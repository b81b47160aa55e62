---------------------------- MODULE MCPowP2PSync ----------------------------
(***************************************************************************)
(* Two nodes that mine apart and synchronize:                              *)
(*                                                                         *)
(*   Genesis - a1 (three units of work)                                    *)
(*          `- b1 - b2 - b3 (one, one and two)                             *)
(*                                                                         *)
(* Only b3 makes the second branch the heavier one, and it lies above one  *)
(* batch of headers.  The clock of n1 is behind b2 at first.               *)
(***************************************************************************)
EXTENDS PowP2PSync, TLC

CONSTANTS n1, n2, a1, b1, b2, b3

MCParentOf == a1 :> Genesis @@ b1 :> Genesis @@ b2 :> b1 @@ b3 :> b2
MCWorkOf == a1 :> 3 @@ b1 :> 1 @@ b2 :> 1 @@ b3 :> 2
MCMinerOf == a1 :> n1 @@ b1 :> n2 @@ b2 :> n2 @@ b3 :> n2
MCDials == {<<n1, n2>>}
MCLate == n1 :> {b2} @@ n2 :> {}
=============================================================================

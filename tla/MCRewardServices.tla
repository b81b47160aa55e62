-------------------------- MODULE MCRewardServices --------------------------
(***************************************************************************)
(* Two addresses, two requests at a time.                                  *)
(***************************************************************************)
EXTENDS RewardServices

CONSTANTS a1, a2, h1, h2
=============================================================================

------------------------------ MODULE MCBftNode ------------------------------
(* Four validators, so that three are a quorum. *)
EXTENDS BftNode

\* One validator whose precommits interleave, and two.
MCThread == {<<4, "precommit">>}
MCThreads == {<<3, "precommit">>, <<4, "precommit">>}
==============================================================================

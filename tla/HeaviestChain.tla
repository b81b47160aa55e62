---------------------------- MODULE HeaviestChain ----------------------------
(***************************************************************************)
(* What a node's fork choice promises: of the valid blocks it has taken    *)
(* notice of, the one that ends the branch with the most cumulative work   *)
(* is the tip, the first one seen if several tie.                          *)
(***************************************************************************)
EXTENDS Integers

CONSTANTS
  Node,      \* block hashes, the genesis included
  Genesis,
  Valid,     \* Node -> BOOLEAN: the branch that ends there replays
  Work       \* Node -> cumulative work of that branch

VARIABLES
  noticed,   \* the blocks the choice is made among
  best       \* the canonical tip

Init ==
  /\ noticed = {Genesis}
  /\ best = Genesis

Notice(b) ==
  /\ b \notin noticed
  /\ Valid[b]
  /\ noticed' = noticed \cup {b}
  /\ best' = IF Work[b] > Work[best] THEN b ELSE best

Next == \E b \in Node : Notice(b)

Spec == Init /\ [][Next]_<<noticed, best>>

=============================================================================

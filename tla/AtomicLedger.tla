---------------------------- MODULE AtomicLedger ----------------------------
(***************************************************************************)
(* What execution behind an external consensus promises: the blocks decided *)
(* so far have one sequence of results, and a replica always holds the      *)
(* result of a prefix.  It moves on by one whole block, or from genesis to  *)
(* the prefix of a snapshot; it never goes back and shows nothing between.  *)
(***************************************************************************)
EXTENDS Integers, Sequences

CONSTANTS
  Replica,
  GenesisState

VARIABLES
  results,   \* result of every decided block, the genesis state first
  replica    \* replica -> [height, st]

Init ==
  /\ results = << [ok |-> TRUE, st |-> GenesisState] >>
  /\ replica = [r \in Replica |-> [height |-> 0, st |-> GenesisState]]

\* A block is decided only when its predecessor could be executed.
Decide ==
  /\ results[Len(results)].ok
  /\ Len(results') = Len(results) + 1
  /\ \A i \in DOMAIN results : results'[i] = results[i]
  /\ UNCHANGED replica

Holds(r, h) ==
  /\ h + 1 \in DOMAIN results /\ results[h + 1].ok
  /\ replica' = [replica EXCEPT ![r] = [height |-> h, st |-> results[h + 1].st]]
  /\ UNCHANGED results

Apply(r) == Holds(r, replica[r].height + 1)

Restore(r, h) == replica[r].height = 0 /\ h > 0 /\ Holds(r, h)

Next ==
  \/ Decide
  \/ \E r \in Replica : Apply(r) \/ \E h \in DOMAIN results : Restore(r, h)

vars == <<results, replica>>

Spec == Init /\ [][Next]_vars

=============================================================================

------------------------ MODULE ValidatorGovernance ------------------------
(***************************************************************************)
(* validator_governance_v21.py: the rules of a change of the validator     *)
(* set.  A request fixes the height whose FinalizeBlock emits it and the   *)
(* set it changes; validators of that set approve it; two heights after    *)
(* its emission it becomes the active set.                                 *)
(*                                                                         *)
(* A validator is its key: the address is a hash of the public key.  A set *)
(* of validators maps every key to its power, 0 when it is not a member,   *)
(* and stands for its own hash.  A signature is the key that made it.      *)
(***************************************************************************)
EXTENDS Integers, FiniteSetsExt, SequencesExt

CONSTANT Key

NoChange == [none |-> TRUE]

ValidatorSet == [Key -> Nat]
Invalid == [k \in {} |-> 0]     \* not a validator set: an update was refused
Members(vals) == {k \in Key : vals[k] > 0}
Power(vals, ks) == MapThenSumSet(LAMBDA k : vals[k], ks)

\* More than two thirds of the power of vals.
Quorum(vals, ks) == 3 * Power(vals, ks) > 2 * Power(vals, Key)

Update == [key : Key, power : Nat]

\* _apply_updates takes the updates in their order: a member can be removed
\* and a key that is not a member can be added.
ApplyUpdate(vals, u) ==
  IF vals = Invalid \/ (u.power = 0 <=> vals[u.key] = 0)
    THEN Invalid ELSE [vals EXCEPT ![u.key] = u.power]

ApplyUpdates(vals, updates) ==
  LET target == FoldLeft(ApplyUpdate, vals, updates)
  IN  IF target = Invalid \/ Members(target) = {} THEN Invalid ELSE target

\* What the operator asks for: a key that leaves, one that joins, or both.
Kind == {"join", "remove", "replace"}

BuildUpdates(c) ==
  (IF c.kind \in {"remove", "replace"} THEN <<[key |-> c.old, power |-> 0]>> ELSE <<>>)
  \o
  (IF c.kind \in {"join", "replace"} THEN <<[key |-> c.new, power |-> c.power]>> ELSE <<>>)

\* Mutant: active in the next block.
EffectiveNextBlock(emit) == emit + 1

Effective(emit) == emit + 2

Envelope(emit, source, updates, approvals) ==
  [type |-> "validator_governance", emit |-> emit, source |-> source,
   updates |-> updates, target |-> ApplyUpdates(source, updates),
   approvals |-> approvals]

\* verify_envelope without the emission height and the quorum.
WellFounded(env, active) ==
  /\ env.source = active
  /\ env.updates # <<>>
  /\ env.target # Invalid
  /\ env.target = ApplyUpdates(active, env.updates)
  /\ env.approvals \subseteq Members(active)

VerifyEnvelope(env, active, emit) ==
  /\ env.emit = emit
  /\ WellFounded(env, active)
  /\ Quorum(active, env.approvals)

(***************************************************************************)
(* The state is the active set and the change that waits.  The table of    *)
(* pending changes never holds two, for a request is refused while one     *)
(* waits.                                                                  *)
(***************************************************************************)
Stale(gov, height) == gov.change # NoChange /\ Effective(gov.change.emit) < height

Activated(gov, height) ==
  IF gov.change # NoChange /\ Effective(gov.change.emit) = height
    THEN [active |-> gov.change.target, change |-> NoChange]
    ELSE gov

\* simulate_height: `envs` holds the block's governance transaction, if any.
GovernanceAccepts(gov, height, envs) ==
  /\ ~Stale(gov, height)
  /\ \A e \in envs : LET now == Activated(gov, height)
                     IN  now.change = NoChange /\ VerifyEnvelope(e, now.active, height)

SimulateHeight(gov, height, envs) ==
  LET now == Activated(gov, height)
  IN  IF envs = {} THEN now ELSE [now EXCEPT !.change = CHOOSE e \in envs : TRUE]

Emitted(envs) == IF envs = {} THEN <<>> ELSE (CHOOSE e \in envs : TRUE).updates

=============================================================================

----------------------------- MODULE LaunchGates -----------------------------
(***************************************************************************)
(* From the gates of the review to a decision to launch: the candidate,    *)
(* its approvals and final report (mainnet_candidate_v27.py with the       *)
(* identity of mainnet_candidate_gate_v27.py, which cli_v27_entry.py puts  *)
(* in the place of the first one) and the launch rehearsal                 *)
(* (launch_rehearsal_v28.py).  Nothing here starts a network: the last     *)
(* file is a decision a person reads.                                      *)
(***************************************************************************)
EXTENDS ReviewGates

CONSTANTS Approvers,      \* the holders of release keys
          MinApprovals,   \* three in the code; never fewer for the final gate
          Scopes          \* the technical reviews required; four in the code

ReviewKinds == {"economic-security", "legal-regulatory"}

(***************************************************************************)
(* v0.27: the candidate                                                    *)
(***************************************************************************)
\* Strictly more than two thirds of at least four validators have to be ready
\* for an upgrade, and of the approvals for an emergency; no file otherwise.
UpgradePlans == [commit : Commits]
GovernancePolicies == [commit : Commits]

EconomicsFreezes == [commit : Commits, genesis : Genesis]

ExternalReviews == [commit : Commits, subject : RefsOf("economics"), ok : BOOLEAN]

IdentitySlots == {<<k, "">> : k \in {"readiness", "remediation", "policy",
                                     "economics", "plan"}}
                 \cup {<<"review", kind>> : kind \in ReviewKinds}

\* What the seven files say of the candidate agrees.
SameCandidate(pick) ==
  LET gate == Body(pick[<<"remediation", "">>])
      economics == pick[<<"economics", "">>]
      reviews == {pick[<<"review", kind>>] : kind \in ReviewKinds}
  IN /\ AllSay(reviews \cup {economics, pick[<<"policy", "">>], pick[<<"plan", "">>]},
               "commit", gate.commit)
     /\ Body(economics).genesis = gate.genesis
     /\ AllSay(reviews, "subject", economics)

Identity(pick) ==
  [commit |-> Body(pick[<<"remediation", "">>]).commit,
   genesis |-> Body(pick[<<"remediation", "">>]).genesis,
   of |-> Chosen(pick)]

ReleaseApprovals ==
  [who : Approvers, key : Approvers, commit : Commits, id : RefsOf("identity"),
   ok : BOOLEAN]

\* Files that say of themselves whether they passed.
Passed(refs) == \A r \in refs : "ok" \in DOMAIN Body(r) => Body(r).ok

\* Mutant: the holders are counted, not their keys.
FinalGatesAnyKeys(identity, approvals) ==
  {g \in {[commit |-> Body(identity).commit, id |-> identity,
           ok |-> /\ Passed(Body(identity).of)
                  /\ Cardinality(approvals) >= MinApprovals
                  /\ Cardinality(Values(approvals, "who")) = Cardinality(approvals)
                  /\ AllSay(approvals, "ok", TRUE),
           of |-> {identity} \cup approvals]} :
     /\ AllSay(approvals, "id", identity)
     /\ AllSay(approvals, "commit", Body(identity).commit)}

\* The artifacts given again are those of the identity, or it raises; so it
\* does for an approval of something else.
FinalGates(identity, approvals) ==
  {g \in {[commit |-> Body(identity).commit, id |-> identity,
           ok |-> /\ Passed(Body(identity).of)
                  /\ Cardinality(approvals) >= MinApprovals
                  /\ Cardinality(Values(approvals, "key")) = Cardinality(approvals)
                  /\ Cardinality(Values(approvals, "who")) = Cardinality(approvals)
                  /\ AllSay(approvals, "ok", TRUE),
           of |-> {identity} \cup approvals]} :
     /\ AllSay(approvals, "id", identity)
     /\ AllSay(approvals, "commit", Body(identity).commit)}

FinalReports(gate) ==
  {r \in {[commit |-> Body(gate).commit, id |-> Body(gate).id, of |-> {gate}]} :
     Body(gate).ok}

(***************************************************************************)
(* v0.28: the launch rehearsal                                             *)
(***************************************************************************)
\* Every record names the candidate by a hash that is typed.
OfCandidate == [commit : Commits, id : RefsOf("identity"), ok : BOOLEAN]

\* All validators in the start order, a way back, a window: or no file.
LaunchRunbooks == {r \in OfCandidate : r.ok}

CutoverRehearsals == OfCandidate

EdgeSlos == OfCandidate

SignerDrills == OfCandidate

\* The plan has to be a plan; nothing compares it with the identity's.
UpgradeRehearsals ==
  [commit : Commits, id : RefsOf("identity"), ok : BOOLEAN, plan : RefsOf("plan")]

\* Satisfied when every high and critical risk is mitigated; accepting one is
\* not enough.
RiskRegisters == OfCandidate

ReviewSignoffs ==
  [who : Scopes, key : Scopes, commit : Commits, id : RefsOf("identity"),
   subject : RefsOf("report"), ok : BOOLEAN]

ReproAttestations == OfCandidate

Core28 == {<<k, "">> : k \in {"runbook", "cutover", "drill", "upgrade", "risk", "repro"}}

Matches(refs, candidate) ==
  /\ AllSay(refs, "commit", candidate.commit)
  /\ AllSay(refs, "id", candidate.id)

\* `who' of a signoff is its scope.  Both minimums are typed, with nothing that
\* keeps them up: `strict' is the one of review signers left as it is, `paired'
\* that of edges.  The file does not say what they were.
RehearsalGate(report, core, slos, signoffs, strict, paired) ==
  LET candidate == Body(report)
  IN [commit |-> candidate.commit, id |-> candidate.id,
      strict |-> strict, paired |-> paired,
      ok |-> /\ Matches(core \cup slos \cup signoffs, candidate)
             /\ Passed(core \cup slos \cup signoffs)
             /\ Cardinality(slos) >= (IF paired THEN 2 ELSE 1)
             /\ Cardinality({s[1][2] : s \in slos}) = Cardinality(slos)
             /\ signoffs # {} /\ AllSay(signoffs, "subject", report)
             /\ Scopes \subseteq Values(signoffs, "who")
             /\ strict => Cardinality(Values(signoffs, "key")) >= MinApprovals,
      of |-> {report} \cup core \cup slos \cup signoffs]

ReleaseFreezes(gate) ==
  {f \in {[commit |-> Body(gate).commit, id |-> Body(gate).id, of |-> {gate}]} :
     Body(gate).ok}

\* Hold, or approve the launch window.
LaunchDecisions(freeze) ==
  [commit : {Body(freeze).commit}, id : {Body(freeze).id}, ok : BOOLEAN, of : {{freeze}}]

(***************************************************************************)
(* The commands                                                            *)
(***************************************************************************)
RunV27(slot) ==
  \/ /\ slot[1] = "plan"
     /\ Record(slot, UpgradePlans, {"commit"})
  \/ /\ slot[1] = "policy"
     /\ Record(slot, GovernancePolicies, {"commit"})
  \/ /\ slot[1] = "economics"
     /\ Record(slot, EconomicsFreezes, {"commit", "genesis"})
  \/ /\ slot[1] = "review"
     /\ Record(slot, ExternalReviews, {"commit", "subject", "ok"})
  \/ /\ slot[1] = "identity"
     /\ \E pick \in OneOfEach(IdentitySlots) :
          /\ SameCandidate(pick)
          \* Without a time in it, the same identity is the same file.
          /\ \A i \in RefsOf("identity") : Body(i) # Identity(pick)
          /\ Save(slot, Identity(pick), {}, Chosen(pick), IdentitySlots)
  \/ /\ slot[1] = "approval"
     /\ Record(slot, ReleaseApprovals, {"who", "key", "commit", "id", "ok"})
  \/ /\ slot[1] = "finalgate"
     /\ \E identity \in RefsOf("identity"), approvals \in SUBSET RefsOf("approval") :
          \E g \in FinalGates(identity, approvals) :
             Save(slot, g, {}, {identity} \cup approvals,
                  {<<"identity", "">>} \cup {<<"approval", a>> : a \in Approvers})
  \/ /\ slot[1] = "report"
     /\ \E gate \in RefsOf("finalgate") :
          \E r \in FinalReports(gate) : Save(slot, r, {}, {gate}, {<<"finalgate", "">>})

RunV28(slot) ==
  \/ /\ slot[1] = "runbook"
     /\ Record(slot, LaunchRunbooks, {"commit", "id"})
  \/ /\ slot[1] = "cutover"
     /\ Record(slot, CutoverRehearsals, {"commit", "id", "ok"})
  \/ /\ slot[1] = "slo"
     /\ Record(slot, EdgeSlos, {"commit", "id", "ok"})
  \/ /\ slot[1] = "drill"
     /\ Record(slot, SignerDrills, {"commit", "id", "ok"})
  \/ /\ slot[1] = "upgrade"
     /\ Record(slot, UpgradeRehearsals, {"commit", "id", "ok", "plan"})
  \/ /\ slot[1] = "risk"
     /\ Record(slot, RiskRegisters, {"commit", "id", "ok"})
  \/ /\ slot[1] = "signoff"
     /\ Record(slot, ReviewSignoffs, {"who", "key", "commit", "id", "subject", "ok"})
  \/ /\ slot[1] = "repro"
     /\ Record(slot, ReproAttestations, {"commit", "id", "ok"})
  \/ /\ slot[1] = "rehearsal"
     /\ \E report \in RefsOf("report"), core \in OneOfEach(Core28),
          slos \in SUBSET RefsOf("slo"), signoffs \in SUBSET RefsOf("signoff"),
          strict \in BOOLEAN, paired \in BOOLEAN :
          Save(slot, RehearsalGate(report, Chosen(core), slos, signoffs, strict, paired),
               {"strict", "paired"},
               {report} \cup Chosen(core) \cup slos \cup signoffs,
               Core28 \cup {<<"report", "">>} \cup {<<"slo", e>> : e \in Edges}
                      \cup {<<"signoff", s>> : s \in Scopes})
  \/ /\ slot[1] = "freeze"
     /\ \E gate \in RefsOf("rehearsal") :
          \E f \in ReleaseFreezes(gate) : Save(slot, f, {}, {gate}, {<<"rehearsal", "">>})
  \/ /\ slot[1] = "decision"
     /\ \E freeze \in RefsOf("freeze") :
          \E d \in LaunchDecisions(freeze) :
             Save(slot, d, {"ok"}, {freeze}, {<<"freeze", "">>})
=============================================================================

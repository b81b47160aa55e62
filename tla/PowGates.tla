------------------------------- MODULE PowGates -------------------------------
(***************************************************************************)
(* The evidence of the proof-of-work network: benchmarks and the choice of *)
(* an algorithm (algorithm_gate_v34.py), the public testnet and its freeze *)
(* (pow_testnet_v35.py), activation proposal and handoff to reviewers      *)
(* (pow_activation_v36.py, pow_handoff_v36.py), and the bundle for the     *)
(* review (pow_execution_v37.py).  A chain identifier goes with a genesis  *)
(* hash, a region with a provider, a package version with a commit.        *)
(***************************************************************************)
EXTENDS Evidence

CONSTANTS Operators,      \* operators of nodes
          MinNodes,       \* four in the code, when nobody types less
          Machines        \* machines a miner was measured on; two at least

(***************************************************************************)
(* v0.34: measurements and a decision                                      *)
(***************************************************************************)
\* A RandomX rate is only recorded after the library's self-test passed.
BenchmarkRecords == [who : Machines, measured : BOOLEAN]

\* `strict': nobody lowered the minimum or allowed a machine without RandomX.
BenchmarkGate(records, strict) ==
  [strict |-> strict,
   ok |-> /\ Cardinality(Values(records, "who")) >= (IF strict THEN 2 ELSE 1)
          /\ strict => AllSay(records, "measured", TRUE),
   of |-> records]

AlgorithmDecisions(gate) ==
  {d \in [choice : {"hold", "scrypt", "randomx"}, of : {{gate}}] :
     d.choice # "hold" => Body(gate).ok}

(***************************************************************************)
(* v0.35: the public testnet                                               *)
(***************************************************************************)
\* `ok': independently managed.
PowHosts ==
  [who : Operators, node : Operators, key : Operators, provider : Operators,
   commit : Commits, genesis : Genesis, miner : BOOLEAN, ok : BOOLEAN]

\* Observations agree on chain, genesis and algorithm, their heights are close
\* and no two of one height differ; which genesis it was is not written down.
Convergences == [ok : BOOLEAN]

\* Long enough, and every sample reached its node.
PowSoaks == [ok : BOOLEAN]

\* Required kinds executed, recovered, a reorganization and a partition seen.
PowFaults == [ok : BOOLEAN]

\* The minimum number of hosts is typed, and may be typed as one.
PowTestnetGate(hosts, convergence, soak, fault, strict) ==
  [commit |-> One(Values(hosts, "commit")), genesis |-> One(Values(hosts, "genesis")),
   strict |-> strict,
   ok |-> /\ Cardinality(hosts) >= (IF strict THEN MinNodes ELSE 1)
          /\ \A field \in {"node", "who", "key"} :
               Cardinality(Values(hosts, field)) = Cardinality(hosts)
          /\ Cardinality(Values(hosts, "provider")) >= 2
          /\ AllSay(hosts, "ok", TRUE)
          /\ Cardinality(Values(hosts, "commit")) = 1
          /\ Cardinality(Values(hosts, "genesis")) = 1
          /\ Body(convergence).ok /\ Body(soak).ok /\ Body(fault).ok
          /\ Cardinality(Values({h \in hosts : Body(h).miner}, "who")) >= 2,
   of |-> hosts \cup {convergence, soak, fault}]

\* The commit is typed once more and has to be the gate's.
PowFreezes(gate, commit) ==
  {f \in {[commit |-> Body(gate).commit, genesis |-> Body(gate).genesis, of |-> {gate}]} :
     Body(gate).ok /\ commit = Body(gate).commit}

(***************************************************************************)
(* v0.36: activation and handoff                                           *)
(***************************************************************************)
\* RandomX needs a height with enough notice and two hashes, or it raises.
ActivationProposals(decision) ==
  {a \in [choice : {Body(decision).choice}, commit : Commits, genesis : Genesis,
          of : {{decision}}] : a.choice # "hold"}

\* What summarize_campaign makes of the log: see CampaignLog.  Not signed;
\* `ok' says seven days, four nodes, one chain, one genesis: this one.
CampaignSummaries == [genesis : Genesis, ok : BOOLEAN]

UndoRehearsals == [ok : BOOLEAN]

\* The genesis of the campaign is in the summary and is not looked at, nor is
\* the commit compared with the freeze's, which it supersedes.
ReviewHandoffs(commit, genesis, freeze, campaign, rehearsal, activation) ==
  {h \in {[commit |-> commit, genesis |-> genesis,
           ok |-> Body(campaign).ok /\ Body(rehearsal).ok,
           of |-> {freeze, campaign, rehearsal} \cup activation]} :
     genesis = Body(freeze).genesis}

(***************************************************************************)
(* v0.37: the bundle for the review                                        *)
(***************************************************************************)
\* Numbers and diversity of the planned nodes; verify recomputes them.
DeploymentPlans == [commit : Commits, genesis : Genesis, ok : BOOLEAN]

\* Two wallets, two approvals, caps within caps: or no file.
PayoutPolicies == {p \in [ok : BOOLEAN] : p.ok}

\* `asserted': the reviews of benchmarks and of consensus were done.
AlgorithmReviews(gate, decision, handoff, activation, asserted) ==
  {r \in {[choice |-> Body(decision).choice, asserted |-> asserted,
           ok |-> Body(gate).ok /\ Body(handoff).ok /\ asserted,
           of |-> {gate, decision, handoff} \cup activation]} :
     /\ Body(decision).of = {gate}
     /\ r.choice # "hold"
     /\ \A a \in activation : Body(a).choice = r.choice /\ Body(a).of = {decision}
     /\ r.choice = "randomx" => activation # {}}

\* Mutant: the genesis of the handoff is not compared with the plan's.
ReviewBundlesAnyGenesis(commit, deployment, policy, review, handoff) ==
  {b \in {[commit |-> commit, genesis |-> Body(deployment).genesis,
           ok |-> \A r \in {deployment, policy, review, handoff} : Body(r).ok,
           of |-> {deployment, policy, review, handoff}]} :
     /\ Body(deployment).commit = commit
     /\ handoff \in Body(review).of}

ReviewBundles(commit, deployment, policy, review, handoff) ==
  {b \in {[commit |-> commit, genesis |-> Body(deployment).genesis,
           ok |-> \A r \in {deployment, policy, review, handoff} : Body(r).ok,
           of |-> {deployment, policy, review, handoff}]} :
     /\ Body(deployment).commit = commit
     /\ Body(handoff).genesis = Body(deployment).genesis
     /\ handoff \in Body(review).of}

(***************************************************************************)
(* The commands                                                            *)
(***************************************************************************)
Ones(kinds) == {<<k, "">> : k \in kinds}

\* An optional file, given or not.
Optional(refs) == {{}} \cup {{r} : r \in refs}

RunPow34(slot) ==
  \/ /\ slot[1] = "bench"
     /\ Record(slot, BenchmarkRecords, {"who", "measured"})
  \/ /\ slot[1] = "benchgate"
     /\ \E records \in SUBSET RefsOf("bench") \ {{}}, strict \in BOOLEAN :
          Save(slot, BenchmarkGate(records, strict), {"strict"}, records,
               {<<"bench", m>> : m \in Machines})
  \/ /\ slot[1] = "algorithm"
     /\ \E gate \in RefsOf("benchgate") :
          \E d \in AlgorithmDecisions(gate) :
             Save(slot, d, {"choice"}, {gate}, Ones({"benchgate"}))

RunPow35(slot) ==
  \/ /\ slot[1] = "powhost"
     /\ Record(slot, PowHosts, {"who", "node", "key", "provider", "commit", "genesis",
                                "miner", "ok"})
  \/ /\ slot[1] = "convergence"
     /\ Record(slot, Convergences, {"ok"})
  \/ /\ slot[1] = "powsoak"
     /\ Record(slot, PowSoaks, {"ok"})
  \/ /\ slot[1] = "powfault"
     /\ Record(slot, PowFaults, {"ok"})
  \/ /\ slot[1] = "powgate"
     /\ \E hosts \in SUBSET RefsOf("powhost") \ {{}}, strict \in BOOLEAN,
          pick \in OneOfEach(Ones({"convergence", "powsoak", "powfault"})) :
          Save(slot, PowTestnetGate(hosts, pick[<<"convergence", "">>],
                                    pick[<<"powsoak", "">>], pick[<<"powfault", "">>],
                                    strict),
               {"strict"}, hosts \cup Chosen(pick),
               DOMAIN pick \cup {<<"powhost", o>> : o \in Operators})
  \/ /\ slot[1] = "powfreeze"
     /\ \E gate \in RefsOf("powgate"), commit \in Commits :
          \E f \in PowFreezes(gate, commit) :
             Save(slot, f, {"commit"}, {gate}, Ones({"powgate"}))

RunPow36(slot) ==
  \/ /\ slot[1] = "activation"
     /\ \E decision \in RefsOf("algorithm") :
          \E a \in ActivationProposals(decision) :
             Save(slot, a, {"commit", "genesis"}, {decision}, Ones({"algorithm"}))
  \/ /\ slot[1] = "campaign"
     /\ Record(slot, CampaignSummaries, {"genesis", "ok"})
  \/ /\ slot[1] = "rehearsal36"
     /\ Record(slot, UndoRehearsals, {"ok"})
  \/ /\ slot[1] = "handoff"
     /\ \E commit \in Commits, genesis \in Genesis,
          pick \in OneOfEach(Ones({"powfreeze", "campaign", "rehearsal36"})),
          activation \in Optional(RefsOf("activation")) :
          \E h \in ReviewHandoffs(commit, genesis, pick[<<"powfreeze", "">>],
                                  pick[<<"campaign", "">>],
                                  pick[<<"rehearsal36", "">>], activation) :
             Save(slot, h, {"commit", "genesis"}, Chosen(pick) \cup activation,
                  DOMAIN pick \cup Ones({"activation"}))

RunPow37(slot) ==
  \/ /\ slot[1] = "deployment"
     /\ Record(slot, DeploymentPlans, {"commit", "genesis", "ok"})
  \/ /\ slot[1] = "payoutpolicy"
     /\ Record(slot, PayoutPolicies, {})
  \/ /\ slot[1] = "algoreview"
     /\ \E pick \in OneOfEach(Ones({"benchgate", "algorithm", "handoff"})),
          activation \in Optional(RefsOf("activation")), asserted \in BOOLEAN :
          \E r \in AlgorithmReviews(pick[<<"benchgate", "">>], pick[<<"algorithm", "">>],
                                    pick[<<"handoff", "">>], activation, asserted) :
             Save(slot, r, {"asserted"}, Chosen(pick) \cup activation,
                  DOMAIN pick \cup Ones({"activation"}))
  \/ /\ slot[1] = "powbundle"
     /\ \E commit \in Commits,
          pick \in OneOfEach(Ones({"deployment", "payoutpolicy", "algoreview",
                                   "handoff"})) :
          \E b \in ReviewBundles(commit, pick[<<"deployment", "">>],
                                 pick[<<"payoutpolicy", "">>],
                                 pick[<<"algoreview", "">>], pick[<<"handoff", "">>]) :
             Save(slot, b, {"commit"}, Chosen(pick), DOMAIN pick)
=============================================================================

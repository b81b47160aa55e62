----------------------------- MODULE ReviewGates -----------------------------
(***************************************************************************)
(* From drills to a candidate frozen for review, and frozen again after    *)
(* the review: ops_hardening_v24.py, review_candidate_v25.py and           *)
(* review_remediation_v26.py with the gate of remediation_gate_v26.py,     *)
(* which cli_v26_entry.py puts in the place of the first one.              *)
(*                                                                         *)
(* A definition gives the manifests a build function may return: none when *)
(* it raises.  `ok' is the conjunction of the checks the function records. *)
(* A manifest is read as its signer wrote it: hashes and signatures of the *)
(* envelopes always verify.  Package, CometBFT and lock versions go with   *)
(* the commit.                                                             *)
(***************************************************************************)
EXTENDS Evidence

CONSTANTS Hosts,          \* the operators of the validators' hosts
          MinHosts,       \* four in the code
          Edges           \* the public edges; the code wants two

RecoveryKinds == {"backup-restore", "clean-host-state-sync"}

(***************************************************************************)
(* v0.24: operational readiness                                            *)
(***************************************************************************)
\* The summary of a soak: it lasted 24 hours, 72 hours or 7 days (1 to 3).
SoakSummaries == [long : 2..3, ok : BOOLEAN]

SoakGate(summary, minimum) == summary.long >= minimum /\ summary.ok

FaultPlans == [kinds : SUBSET FaultKinds \ {{}}]

\* The plan was executed, step by step; did every step recover?
FaultResults(plan) == [kinds : {Body(plan).kinds}, ok : BOOLEAN]

\* Heights, hashes and roots agree, and a state sync began on a clean host.
RecoveryRecords(kind) ==
  {[clean |-> clean, ok |-> same /\ (kind = "clean-host-state-sync" => clean)] :
     same \in BOOLEAN, clean \in BOOLEAN}

SignerRecords == [ok : BOOLEAN]

RedundancyReports == [ok : BOOLEAN]

\* The readiness names no commit: it is whatever the files given belong to.
Readiness(soak, fault, recovery, signer, redundancy) ==
  [ok |-> /\ \A minimum \in 1..3 : SoakGate(Body(soak), minimum)
          /\ Body(fault).ok /\ Body(fault).kinds = FaultKinds
          /\ \A kind \in RecoveryKinds : Body(recovery[<<"recovery", kind>>]).ok
          /\ Body(redundancy).ok
          /\ Body(signer).ok]

(***************************************************************************)
(* v0.25: the first freeze                                                 *)
(***************************************************************************)
\* Closed, and the recovery verified.
IncidentRecords == [ok : BOOLEAN]

HostAttestations ==
  [who : Hosts, key : Hosts, commit : Commits, genesis : Genesis,
   provider : Hosts, ok : BOOLEAN]

\* `hosts' is the set of attestations given.
ReviewGate(readiness, hosts, incident) ==
  [ok |-> /\ Body(readiness).ok
          /\ Cardinality(hosts) >= MinHosts
          /\ Cardinality(Values(hosts, "who")) = Cardinality(hosts)
          /\ Cardinality(Values(hosts, "key")) = Cardinality(hosts)
          /\ Cardinality(Values(hosts, "provider")) >= 2
          /\ AllSay(hosts, "ok", TRUE)
          /\ Cardinality(Values(hosts, "commit")) = 1
          /\ Cardinality(Values(hosts, "genesis")) = 1
          /\ Body(incident).ok,
   commit |-> One(Values(hosts, "commit")),
   genesis |-> One(Values(hosts, "genesis"))]

\* Commit and genesis files given must be the gate's.
ReviewFreezes(gate) ==
  {f \in [commit : Commits, genesis : Genesis, of : {{gate}}] :
     /\ Body(gate).ok
     /\ f.commit = Body(gate).commit
     /\ f.genesis = Body(gate).genesis}

(***************************************************************************)
(* v0.26: findings, retests and the second freeze                          *)
(***************************************************************************)
\* A finding is open or remediated at some commit.
FindingsRegisters == [commit : Commits, fixed : SUBSET Findings]

RetestRecords == [commit : Commits, ok : BOOLEAN]

SupplyAttestations == [commit : Commits, ok : BOOLEAN]

EdgeAttestations == [commit : Commits, ok : BOOLEAN]

\* The latest of the retests given that tested this commit.
LatestRetest(retests, f, commit) ==
  LET of == {r \in retests : r[1] = <<"retest", f>> /\ Body(r).commit = commit}
  IN {r \in of : \A q \in of : q[2] <= r[2]}

RemediationGate(commit, genesis, register, retests, supply, edges) ==
  [commit |-> commit, genesis |-> genesis,
   ok |-> /\ \A f \in Findings :
               /\ f \in Body(register).fixed
               /\ \E r \in LatestRetest(retests, f, commit) : Body(r).ok
          /\ Body(supply).ok /\ Body(supply).commit = commit
          /\ Cardinality(edges) >= 2
          /\ AllSay(edges, "ok", TRUE) /\ AllSay(edges, "commit", commit),
   of |-> {register, supply} \cup edges]

\* The candidate of the gate, and the hash of the gate itself.
Refreezes(gate) ==
  {f \in {[commit |-> Body(gate).commit, genesis |-> Body(gate).genesis,
           of |-> {gate}]} : Body(gate).ok}

(***************************************************************************)
(* The commands                                                            *)
(***************************************************************************)
One24 == {<<"soak", "">>, <<"fault", "">>, <<"signer", "">>, <<"redundancy", "">>}
         \cup {<<"recovery", kind>> : kind \in RecoveryKinds}

RunV24(slot) ==
  \/ /\ slot[1] = "soak"
     /\ Record(slot, SoakSummaries, {"long", "ok"})
  \/ /\ slot[1] = "faultplan"
     /\ Record(slot, FaultPlans, {"kinds"})
  \/ /\ slot[1] = "fault"
     /\ \E plan \in RefsOf("faultplan") :
          \E r \in FaultResults(plan) :
             Save(slot, r, {"ok"}, {plan}, {<<"faultplan", "">>})
  \/ /\ slot[1] = "recovery"
     /\ Record(slot, RecoveryRecords(slot[2]), {"ok", "clean"})
  \/ /\ slot[1] = "signer"
     /\ Record(slot, SignerRecords, {"ok"})
  \/ /\ slot[1] = "redundancy"
     /\ Record(slot, RedundancyReports, {"ok"})
  \/ /\ slot[1] = "readiness"
     /\ \E pick \in OneOfEach(One24) :
          Save(slot, Readiness(pick[<<"soak", "">>], pick[<<"fault", "">>], pick,
                               pick[<<"signer", "">>], pick[<<"redundancy", "">>]),
               {}, Chosen(pick), One24)

RunV25(slot) ==
  \/ /\ slot[1] = "incident"
     /\ Record(slot, IncidentRecords, {"ok"})
  \/ /\ slot[1] = "host"
     /\ Record(slot, HostAttestations,
               {"who", "key", "commit", "genesis", "provider", "ok"})
  \/ /\ slot[1] = "reviewgate"
     /\ \E readiness \in RefsOf("readiness"), incident \in RefsOf("incident"),
          hosts \in SUBSET RefsOf("host") :
          /\ hosts # {}
          /\ Save(slot, ReviewGate(readiness, hosts, incident), {},
                  {readiness, incident} \cup hosts,
                  {<<"readiness", "">>, <<"incident", "">>}
                     \cup {<<"host", h>> : h \in Hosts})
  \/ /\ slot[1] = "reviewfreeze"
     /\ \E gate \in RefsOf("reviewgate") :
          \E f \in ReviewFreezes(gate) : Save(slot, f, {}, {gate}, {<<"reviewgate", "">>})

RunV26(slot) ==
  \/ /\ slot[1] = "register"
     /\ Record(slot, FindingsRegisters, {"commit", "fixed"})
  \/ /\ slot[1] = "retest"
     /\ Record(slot, RetestRecords, {"commit", "ok"})
  \/ /\ slot[1] = "supply"
     /\ Record(slot, SupplyAttestations, {"commit", "ok"})
  \/ /\ slot[1] = "edge"
     /\ Record(slot, EdgeAttestations, {"commit", "ok"})
  \/ /\ slot[1] = "remediation"
     /\ \E commit \in Commits, genesis \in Genesis, register \in RefsOf("register"),
          retests \in SUBSET RefsOf("retest"), supply \in RefsOf("supply"),
          edges \in SUBSET RefsOf("edge") :
          Save(slot, RemediationGate(commit, genesis, register, retests, supply, edges),
               {"commit", "genesis"}, {register, supply} \cup retests \cup edges,
               {<<"register", "">>, <<"supply", "">>}
                  \cup {<<"retest", f>> : f \in Findings} \cup {<<"edge", e>> : e \in Edges})
  \/ /\ slot[1] = "refreeze"
     /\ \E gate \in RefsOf("remediation") :
          \E f \in Refreezes(gate) : Save(slot, f, {}, {gate}, {<<"remediation", "">>})
=============================================================================

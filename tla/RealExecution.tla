---------------------------- MODULE RealExecution ----------------------------
(***************************************************************************)
(* Evidence of a network that runs: observations of the hosts, the genesis *)
(* ceremony, soak and faults (real_execution_v29.py), then what the        *)
(* operations add for publication (operations_v30.py).  The checkpoint of  *)
(* the monitor is here what its last file says; MonitorLoop has the loop  *)
(* that makes it.                                                          *)
(***************************************************************************)
EXTENDS LaunchGates

CONSTANTS Roles,          \* the roles of an edge; rpc, explorer and gateway
          SoakRatio       \* samples that have to pass; 99 of 100 in the code

(***************************************************************************)
(* v0.29: live observations                                                *)
(***************************************************************************)
\* A validator and its operator are one name, a provider and its region too.
\* `hash' is the application hash the host reported at the common height.
HostObservations ==
  [who : Hosts, key : Hosts, provider : Hosts, commit : Commits, genesis : Genesis,
   id : RefsOf("identity"), hash : BOOLEAN, ok : BOOLEAN]

\* Every field in which all files have to agree with the first one.
SameNetwork(refs) ==
  \A field \in {"commit", "id", "genesis"} : Cardinality(Values(refs, field)) = 1

Distinct(refs, field) == Cardinality(Values(refs, field)) >= MinHosts

\* Which host is given first only shows when they disagree.  `same': heights
\* and times of the observations are close.
ClusterObservations(hosts) ==
  {[commit |-> Body(first).commit, genesis |-> Body(first).genesis,
    id |-> Body(first).id, same |-> same,
    ok |-> /\ AllSay(hosts, "ok", TRUE)
           /\ SameNetwork(hosts)
           /\ Distinct(hosts, "who") /\ Distinct(hosts, "key")
           /\ Cardinality(Values(hosts, "who")) = Cardinality(hosts)
           /\ Cardinality(Values(hosts, "provider")) >= 2
           /\ same
           /\ Cardinality(Values(hosts, "hash")) = 1,
    split |-> Cardinality(Values(hosts, "hash")) > 1,
    of |-> hosts] :
     first \in {h \in hosts : Cardinality(hosts) >= MinHosts}, same \in BOOLEAN}

GenesisAttestations ==
  [who : Hosts, key : Hosts, commit : Commits, genesis : Genesis,
   id : RefsOf("identity"), ok : BOOLEAN]

GenesisCeremonies(attestations) ==
  {[commit |-> Body(first).commit, genesis |-> Body(first).genesis,
    id |-> Body(first).id,
    ok |-> /\ SameNetwork(attestations)
           /\ Distinct(attestations, "who") /\ Distinct(attestations, "key")
           /\ Cardinality(Values(attestations, "who")) = Cardinality(attestations)
           /\ AllSay(attestations, "ok", TRUE),
    of |-> attestations] :
     first \in {a \in attestations : Cardinality(attestations) >= MinHosts}}

\* The samples that failed are counted, and hashed with the others.
MostPassed(samples) ==
  Cardinality({s \in samples : Body(s).ok}) * SoakRatio.of
    >= Cardinality(samples) * SoakRatio.pass

\* Two samples at least, all naming one network.  `long': it lasted, and more
\* passed when a higher ratio was typed.
SoakEvidence(samples) ==
  {[commit |-> Body(first).commit, genesis |-> Body(first).genesis,
    id |-> Body(first).id, same |-> long,
    ok |-> /\ SameNetwork(samples) /\ long
           /\ MostPassed(samples) /\ AllSay(samples, "split", FALSE),
    of |-> samples] :
     first \in {s \in samples : Cardinality(samples) >= 2}, long \in BOOLEAN}

\* Authorized, passed, recovered, converged and nothing lost.
LiveFaults == OfCandidate

RealGates(freeze, rehearsal, cluster, ceremony, soak, faults) ==
  LET candidate == Body(freeze)
  IN {g \in {[commit |-> candidate.commit, id |-> candidate.id,
              ok |-> /\ Matches({cluster, ceremony, soak} \cup faults, candidate)
                     /\ Passed({cluster, ceremony, soak}) /\ faults # {}
                     /\ FaultKinds \subseteq {f[1][2] : f \in {q \in faults : Body(q).ok}},
              of |-> {freeze, rehearsal, cluster, ceremony, soak} \cup faults]} :
        Body(rehearsal).ok /\ Body(freeze).of = {rehearsal}}

RealFreezes(gate) ==
  {f \in {[commit |-> Body(gate).commit, id |-> Body(gate).id, of |-> {gate}]} :
     Body(gate).ok}

(***************************************************************************)
(* v0.30: operations and publication                                       *)
(***************************************************************************)
MonitorInventories ==
  [commit : Commits, genesis : Genesis, id : RefsOf("identity"), ok : BOOLEAN]

\* Of a satisfied inventory, as all samples have to be.  `ok': it is complete
\* and lasted seven days, with 99 of 100 samples satisfied.
MonitorCheckpoints(inventory) ==
  {c \in [commit : {Body(inventory).commit}, genesis : {Body(inventory).genesis},
          id : {Body(inventory).id}, ok : BOOLEAN, of : {{inventory}}] :
     Body(inventory).ok}

\* Retained for 30 days at least, or no file.
ArchiveManifests == {a \in OfCandidate : a.ok}

EdgeHealthRecords == OfCandidate

\* Two edges in good health for each role; `who' of a record is <<role, edge>>.
EdgeRedundancyGates(records) ==
  {[commit |-> Body(first).commit, id |-> Body(first).id,
    ok |-> \A role \in Roles :
             Cardinality({r \in records : r[1][2][1] = role /\ Body(r).ok}) >= 2,
    of |-> records] :
     first \in {r \in records : Cardinality(Values(records, "commit")) = 1
                                /\ Cardinality(Values(records, "id")) = 1}}

\* The drill is any hash; nothing compares it with the candidate's drill.
SignerMonitors ==
  [commit : Commits, id : RefsOf("identity"), drill : RefsOf("drill"), ok : BOOLEAN]

EvidenceBundle(freeze, checkpoint, archive, edges, signers) ==
  LET rest == {checkpoint, archive, edges} \cup signers
  IN [commit |-> Body(freeze).commit, id |-> Body(freeze).id,
      ok |-> Matches(rest, Body(freeze)) /\ Passed(rest) /\ signers # {},
      of |-> {freeze} \cup rest]

\* Every required check is done.
OperatorChecklists(bundle) ==
  [commit : {Body(bundle).commit}, id : {Body(bundle).id}, ok : BOOLEAN, of : {{bundle}}]

(***************************************************************************)
(* The commands                                                            *)
(***************************************************************************)
RealSlots == {<<k, "">> : k \in {"freeze", "rehearsal", "ceremony", "soak29"}}

RunV29(slot) ==
  \/ /\ slot[1] = "live"
     /\ Record(slot, HostObservations,
               {"who", "key", "provider", "commit", "genesis", "id", "hash", "ok"})
  \/ /\ slot[1] = "cluster"
     /\ \E hosts \in SUBSET RefsOf("live") :
          \E c \in ClusterObservations(hosts) :
             Save(slot, c, {"same"}, hosts, {<<"live", h>> : h \in Hosts})
  \/ /\ slot[1] = "attest"
     /\ Record(slot, GenesisAttestations,
               {"who", "key", "commit", "genesis", "id", "ok"})
  \/ /\ slot[1] = "ceremony"
     /\ \E attestations \in SUBSET RefsOf("attest") :
          \E c \in GenesisCeremonies(attestations) :
             Save(slot, c, {}, attestations, {<<"attest", h>> : h \in Hosts})
  \/ /\ slot[1] = "soak29"
     /\ \E samples \in SUBSET RefsOf("cluster") :
          \E s \in SoakEvidence(samples) :
             Save(slot, s, {"same"}, samples, {<<"cluster", i>> : i \in 1..2})
  \/ /\ slot[1] = "fault29"
     /\ Record(slot, LiveFaults, {"commit", "id", "ok"})
  \/ /\ slot[1] = "real"
     /\ \E pick \in OneOfEach(RealSlots), cluster \in RefsOf("cluster"),
          faults \in SUBSET RefsOf("fault29") :
          \E g \in RealGates(pick[<<"freeze", "">>], pick[<<"rehearsal", "">>], cluster,
                             pick[<<"ceremony", "">>], pick[<<"soak29", "">>], faults) :
             Save(slot, g, {}, Chosen(pick) \cup faults,
                  RealSlots \cup {<<"fault29", k>> : k \in FaultKinds})
  \/ /\ slot[1] = "realfreeze"
     /\ \E gate \in RefsOf("real") :
          \E f \in RealFreezes(gate) : Save(slot, f, {}, {gate}, {<<"real", "">>})

BundleSlots == {<<k, "">> : k \in {"realfreeze", "checkpoint", "archive", "edgegate"}}

RunV30(slot) ==
  \/ /\ slot[1] = "inventory"
     /\ Record(slot, MonitorInventories, {"commit", "genesis", "id", "ok"})
  \/ /\ slot[1] = "checkpoint"
     /\ \E inventory \in RefsOf("inventory") :
          \E c \in MonitorCheckpoints(inventory) :
             Save(slot, c, {"ok"}, {inventory}, {<<"inventory", "">>})
  \/ /\ slot[1] = "archive"
     /\ Record(slot, ArchiveManifests, {"commit", "id"})
  \/ /\ slot[1] = "health"
     /\ Record(slot, EdgeHealthRecords, {"commit", "id", "ok"})
  \/ /\ slot[1] = "edgegate"
     /\ \E records \in SUBSET RefsOf("health") :
          \E g \in EdgeRedundancyGates(records) :
             Save(slot, g, {}, records, {<<"health", r>> : r \in Roles \X Edges})
  \/ /\ slot[1] = "monitor"
     /\ Record(slot, SignerMonitors, {"commit", "id", "drill", "ok"})
  \/ /\ slot[1] = "bundle"
     /\ \E pick \in OneOfEach(BundleSlots), signers \in SUBSET RefsOf("monitor") :
          Save(slot, EvidenceBundle(pick[<<"realfreeze", "">>], pick[<<"checkpoint", "">>],
                                    pick[<<"archive", "">>], pick[<<"edgegate", "">>],
                                    signers),
               {}, Chosen(pick) \cup signers, BundleSlots \cup {<<"monitor", "">>})
  \/ /\ slot[1] = "checklist"
     /\ \E bundle \in RefsOf("bundle") :
          \E c \in OperatorChecklists(bundle) :
             Save(slot, c, {"ok"}, {bundle}, {<<"bundle", "">>})
=============================================================================

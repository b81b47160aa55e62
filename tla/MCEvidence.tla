------------------------------ MODULE MCEvidence ------------------------------
(***************************************************************************)
(* Seven programs that share nothing, one of them running in each          *)
(* behaviour (the sum of their state spaces, not the product): the         *)
(* campaign of evidence and gates, the monitor of an executed launch, the  *)
(* log of a proof-of-work campaign, the two sides of state sync, the       *)
(* explorer's index and the migration of a database.                       *)
(*                                                                         *)
(* The campaign has six starts: an empty directory, up to the freeze for   *)
(* review; a readiness, up to the final report; a report with its          *)
(* identity, and those of another commit, up to the decision and, with one *)
(* slip, up to the publication; the same after a host was observed with    *)
(* the other commit; an empty directory of the proof-of-work network.      *)
(***************************************************************************)
EXTENDS LaunchCampaign, MonitorLoop, CampaignLog, SnapshotExport, SnapshotRestore,
        ExplorerIndex, SchemaMigration

VARIABLE running

One1(kind) == <<kind, "">>

PartHosts ==
  <<One1("soak"), One1("faultplan"), One1("fault"), <<"recovery", "backup-restore">>,
    <<"recovery", "clean-host-state-sync">>, One1("signer"), One1("redundancy"),
    One1("readiness"), One1("incident"), <<"host", "h1">>, <<"host", "h2">>,
    <<"host", "h3">>, One1("reviewgate"), One1("reviewfreeze")>>

PartCandidate ==
  <<One1("register"),
    <<"retest", "f1">>, One1("supply"), <<"edge", "e1">>, <<"edge", "e2">>,
    One1("remediation"), One1("refreeze"), One1("plan"), One1("policy"),
    One1("economics"), <<"review", "economic-security">>,
    <<"review", "legal-regulatory">>, One1("identity"), <<"approval", "a1">>,
    <<"approval", "a2">>, <<"approval", "a3">>, One1("finalgate"), One1("report")>>

PartLaunch ==
  <<One1("runbook"), One1("cutover"), <<"slo", "e1">>, <<"slo", "e2">>, One1("drill"),
    One1("upgrade"), One1("risk"), <<"signoff", "s1">>, <<"signoff", "s2">>,
    <<"signoff", "s3">>, One1("repro"), One1("rehearsal"), One1("freeze"),
    One1("decision"), <<"live", "h1">>, <<"live", "h2">>, <<"live", "h3">>,
    <<"cluster", 1>>, <<"cluster", 2>>, <<"attest", "h1">>, <<"attest", "h2">>,
    <<"attest", "h3">>, One1("ceremony"), One1("soak29"), <<"fault29", "k1">>,
    One1("real"), One1("realfreeze"), One1("inventory"), One1("checkpoint"),
    One1("archive"), <<"health", <<"rpc", "e1">>>>, <<"health", <<"rpc", "e2">>>>,
    One1("edgegate"), One1("monitor"), One1("bundle"), One1("checklist")>>

PartPow ==
  <<<<"bench", "m1">>, <<"bench", "m2">>, One1("benchgate"), One1("algorithm"),
    <<"powhost", "h1">>, <<"powhost", "h2">>, <<"powhost", "h3">>, One1("convergence"),
    One1("powsoak"), One1("powfault"), One1("powgate"), One1("powfreeze"),
    One1("activation"), One1("campaign"), One1("rehearsal36"), One1("handoff"),
    One1("deployment"), One1("payoutpolicy"), One1("algoreview"), One1("powbundle")>>

\* As far as the decision, where it is the gate's minimums that are typed.
PartRehearsal == SubSeq(PartLaunch, 1, 14)

AllParts == {PartHosts, PartCandidate, PartRehearsal, PartLaunch, PartPow}

SlotsOf(part) == {part[i] : i \in DOMAIN part}

\* The identity and the report of each commit, the campaign's last.
Given ==
  [s \in {One1("plan"), One1("identity"), One1("report")} |->
     CASE s[1] = "plan" -> <<[commit |-> "c2"], [commit |-> "c1"]>>
       [] s[1] = "identity" -> <<[commit |-> "c2", genesis |-> "g1", of |-> {}],
                                 [commit |-> "c1", genesis |-> "g1", of |-> {}]>>
       [] s[1] = "report" ->
            <<[commit |-> "c2", id |-> <<One1("identity"), 1>>, of |-> {}],
              [commit |-> "c1", id |-> <<One1("identity"), 2>>, of |-> {}]>>]

\* A host is observed before it runs the candidate, and has to be once more.
TooEarly ==
  [s \in DOMAIN Given \cup {<<"live", "h3">>} |->
     IF s \in DOMAIN Given THEN Given[s]
       ELSE <<[who |-> "h3", key |-> "h3", provider |-> "h3", commit |-> "c2",
               genesis |-> "g1", id |-> <<One1("identity"), 2>>, hash |-> TRUE,
               ok |-> TRUE]>>]

Beginning(part, given, before) ==
  [files |-> [s \in SlotsOf(part) \cup DOMAIN given |->
                IF s \in DOMAIN given THEN given[s] ELSE <<>>],
   slips |-> before]

\* Of two samples one may fail.
OneOfTwo == [pass |-> 1, of |-> 2]

\* The candidate is made on a readiness that passed.
Drilled == [s \in {One1("readiness")} |-> <<[ok |-> TRUE]>>]

\* The long parts start with one slip less to make.
Beginnings ==
  {Beginning(PartHosts, << >>, 1), Beginning(PartCandidate, Drilled, 1),
   Beginning(PartRehearsal, Given, 0),
   Beginning(PartLaunch, Given, 1), Beginning(PartLaunch, TooEarly, 1),
   Beginning(PartPow, << >>, 0)}

-----------------------------------------------------------------------------
TheState(h, of) == [height |-> h, of |-> of]
TheChain == [h \in 1..2 |-> TheState(h, "chain")]

Honest(h) == [state |-> TheState(h, "chain"), app |-> TheState(h, "chain")]
Forged == [state |-> TheState(1, "other"), app |-> TheState(1, "other")]
Lying == [state |-> TheState(1, "other"), app |-> TheState(1, "chain")]
Sent == {Honest(1), Honest(2), Forged, Lying}

OfferOf(snapshot, app) ==
  [height |-> snapshot.state.height, genesis |-> TRUE,
   metadata |-> [height |-> snapshot.state.height, app |-> app,
                 hashes |-> Payload(snapshot), transport |-> Payload(snapshot),
                 artifact |-> snapshot]]

\* Honest offers, and what a peer can get wrong: the chain, the height, the
\* application hash, the chunks, the whole, the artifact, the state itself.
Offered ==
  LET honest == OfferOf(Honest(1), TheState(1, "chain"))
      mixed == <<Piece(Honest(1), 1), Piece(Forged, 2)>>
  IN {honest, OfferOf(Honest(2), TheState(2, "chain")),
      OfferOf(Forged, TheState(1, "other")), OfferOf(Forged, TheState(1, "chain")),
      OfferOf(Lying, TheState(1, "chain")),
      [honest EXCEPT !.genesis = FALSE],
      [honest EXCEPT !.height = 2],
      [honest EXCEPT !.metadata.hashes = mixed],
      [honest EXCEPT !.metadata.hashes = mixed, !.metadata.transport = mixed],
      [honest EXCEPT !.metadata.artifact = Forged]}

-----------------------------------------------------------------------------
Init ==
  /\ running \in {"campaign", "monitor", "log", "export", "restore", "index",
                  "migration"}
  /\ IF running = "campaign" THEN CampaignInit ELSE files = << >> /\ slips = 0
  /\ MonitorInit /\ LogInit /\ ExportInit /\ RestoreInit /\ IndexInit
  /\ IF running = "migration"
       THEN MigrationInit
       ELSE /\ live = [version |-> 21, core |-> 0, validators |-> {}]
            /\ output = NoFile /\ run = NoRun /\ runs = 0 /\ report = NoFile

Next ==
  /\ UNCHANGED running
  /\ \/ /\ running = "campaign" /\ CampaignNext
        /\ UNCHANGED <<monitorVars, logVars, exportVars, restoreVars, indexVars,
                      migrationVars>>
     \/ /\ running = "monitor" /\ MonitorNext
        /\ UNCHANGED <<evidenceVars, logVars, exportVars, restoreVars, indexVars,
                      migrationVars>>
     \/ /\ running = "log" /\ LogNext
        /\ UNCHANGED <<evidenceVars, monitorVars, exportVars, restoreVars, indexVars,
                      migrationVars>>
     \/ /\ running = "export" /\ ExportNext
        /\ UNCHANGED <<evidenceVars, monitorVars, logVars, restoreVars, indexVars,
                      migrationVars>>
     \/ /\ running = "restore" /\ RestoreNext
        /\ UNCHANGED <<evidenceVars, monitorVars, logVars, exportVars, indexVars,
                      migrationVars>>
     \/ /\ running = "index" /\ IndexNext
        /\ UNCHANGED <<evidenceVars, monitorVars, logVars, exportVars, restoreVars,
                      migrationVars>>
     \/ /\ running = "migration" /\ MigrationNext
        /\ UNCHANGED <<evidenceVars, monitorVars, logVars, exportVars, restoreVars,
                      indexVars>>

Spec ==
  Init /\ [][Next]_<<running, evidenceVars, monitorVars, logVars, exportVars,
                    restoreVars, indexVars, migrationVars>>
===============================================================================

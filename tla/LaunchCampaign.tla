---------------------------- MODULE LaunchCampaign ----------------------------
(***************************************************************************)
(* People run the commands, in an order the files impose: a file can only  *)
(* be named after it was saved, and any command may be run again.  The     *)
(* property of the whole is that what is decided and published at the end  *)
(* is one candidate all the way down, backed by enough different people.   *)
(***************************************************************************)
EXTENDS RealExecution, PowGates

CONSTANTS Parts,          \* the parts of a campaign: slots, in the order they are filled
          Starts          \* the files at the start of a part, and the slips it is past

\* A part starts in an empty directory or with files that earlier parts left,
\* what is behind these cut off.
Earlier(kind) ==
  CASE kind = "readiness" -> [ok : BOOLEAN]
    [] kind = "plan" -> [commit : Commits]
    [] kind = "identity" -> [commit : Commits, genesis : Genesis, of : {{}}]
    [] kind = "report" -> [commit : Commits, id : {<<"identity", "">>} \X Nat, of : {{}}]
    [] kind = "live" -> [who : Hosts, key : Hosts, provider : Hosts, commit : Commits,
                         genesis : Genesis, id : {<<"identity", "">>} \X Nat,
                         hash : BOOLEAN, ok : BOOLEAN]

ASSUME StartsAssumption ==
  \A start \in Starts :
    /\ IsFiniteSet(DOMAIN start.files)
    /\ start.files = [s \in DOMAIN start.files |-> start.files[s]]
    /\ \A s \in DOMAIN start.files :
         \/ start.files[s] = << >>
         \/ /\ s[1] \in {"readiness", "plan", "identity", "report", "live"}
            /\ start.files[s] \in Seq(Earlier(s[1]))

CampaignInit ==
  \E start \in Starts :
    /\ files = start.files
    /\ slips = start.slips

\* What comes before in the same part has a file.
Ready(part, i) == \A j \in 1..(i - 1) : files[part[j]] # <<>>

CampaignNext ==
  \E part \in {p \in Parts : \A j \in DOMAIN p : p[j] \in DOMAIN files} :
    \E i \in DOMAIN part :
      LET slot == part[i]
      IN /\ files[slot] = <<>> \/ slips < MaxSlips
         /\ Ready(part, i)
         /\ \/ RunV24(slot)
            \/ RunV25(slot)
            \/ RunV26(slot)
            \/ RunV27(slot)
            \/ RunV28(slot)
            \/ RunV29(slot)
            \/ RunV30(slot)
            \/ RunPow34(slot)
            \/ RunPow35(slot)
            \/ RunPow36(slot)
            \/ RunPow37(slot)

CampaignSpec == CampaignInit /\ [][CampaignNext]_evidenceVars

-----------------------------------------------------------------------------
Approved == {d \in RefsOf("decision") : Body(d).ok}
Published == {b \in RefsOf("bundle") : Body(b).ok}

(***************************************************************************)
(* Everything a decision to launch, a frozen execution or a published      *)
(* bundle reaches through the hashes it embeds names one candidate         *)
(* identity and one commit.  The records are typed by many people, months  *)
(* apart, and each gate compares only the files it is given.  (A register  *)
(* of findings names the commit that was reviewed.  A soak that passed may *)
(* count an observation that did not: it names the candidate itself, but   *)
(* the hosts in it may have run another commit, so that what is behind it  *)
(* is no evidence of the candidate, and left out here.)                    *)
(***************************************************************************)
LaunchIsOneCandidate ==
  \A r \in Approved \cup RefsOf("realfreeze") \cup Published :
    \A q \in Behind(r) :
      /\ "id" \in DOMAIN Body(q) => Body(q).id = Body(r).id
      /\ "commit" \in DOMAIN Body(q) /\ q[1][1] # "register"
           => Body(q).commit = Body(r).commit

Kind(refs, kind) == {r \in refs : r[1][1] = kind}

Holders(refs, number) ==
  /\ Cardinality(Values(refs, "who")) >= number
  /\ Cardinality(Values(refs, "key")) >= number
  /\ Passed(refs)

(***************************************************************************)
(* Behind a final report are approvals of enough holders with keys of      *)
(* their own, each for that identity; behind a freeze the sign-offs of all *)
(* scopes on that report, under enough keys unless the minimum was typed   *)
(* lower, when one key may have signed for all scopes; behind the freeze   *)
(* for review enough hosts of one commit and genesis; behind a frozen      *)
(* execution a ceremony and observations of enough operators and keys of   *)
(* one network, as many samples that passed as a soak asks for, and none   *)
(* that saw two states at one height.                                      *)
(***************************************************************************)
QuorumsAreDistinct ==
  /\ \A r \in RefsOf("report") : \A g \in Kind(Behind(r), "finalgate") :
       LET approvals == Kind(Body(g).of, "approval")
       IN Holders(approvals, MinApprovals) /\ AllSay(approvals, "id", Body(r).id)
  /\ \A f \in RefsOf("freeze") :
       LET signoffs == Kind(Behind(f), "signoff")
       IN /\ Scopes \subseteq Values(signoffs, "who")
          /\ (\A g \in Body(f).of : Body(g).strict) =>
               Cardinality(Values(signoffs, "key")) >= MinApprovals
          /\ Passed(signoffs)
          /\ \A s \in signoffs : Body(s).subject \in Behind(f)
  /\ \A f \in RefsOf("reviewfreeze") :
       \E hosts \in SUBSET RefsOf("host") :
         /\ Holders(hosts, MinHosts)
         /\ Cardinality(Values(hosts, "provider")) >= 2
         /\ AllSay(hosts, "commit", Body(f).commit)
         /\ AllSay(hosts, "genesis", Body(f).genesis)
  /\ \A f \in RefsOf("realfreeze") :
       LET samples == Kind(Behind(f), "cluster")
       IN /\ \A c \in {s \in samples : Body(s).ok} \cup Kind(Behind(f), "ceremony") :
               Holders(Body(c).of, MinHosts) /\ SameNetwork(Body(c).of)
          /\ \A s \in Kind(Behind(f), "soak29") : MostPassed(Body(s).of)
          /\ AllSay(samples, "split", FALSE)

(***************************************************************************)
(* A candidate with a final report has every high finding remediated, and  *)
(* a retest of its own commit that passed, for each of them, on file; a    *)
(* retest of another commit does not do.                                   *)
(***************************************************************************)
FindingsRetested ==
  \A i \in Kind(UNION {Behind(r) : r \in RefsOf("report")}, "identity") :
    \A register \in Kind(Behind(i), "register"), f \in Findings :
      /\ f \in Body(register).fixed
      /\ \E r \in RefsOf("retest") :
           r[1][2] = f /\ Body(r).ok /\ Body(r).commit = Body(i).commit

(***************************************************************************)
(* A bundle that is ready for the review of the proof-of-work network, the *)
(* plan of deployment, the handoff, the testnet's freeze and every host    *)
(* behind it are of one genesis, and the plan is of the bundle's commit.   *)
(* The algorithm reviewed was chosen after a benchmark gate was satisfied, *)
(* by the decision the proposed activation is for, and reviewed together   *)
(* with that very handoff.  (The genesis of the campaign's summary and of  *)
(* the activation is compared with nothing.)                               *)
(***************************************************************************)
ReadyBundleIsOneChain ==
  \A b \in {r \in RefsOf("powbundle") : Body(r).ok} :
    LET behind == Behind(b)
        handoff == Kind(Body(b).of, "handoff")
    IN /\ \A q \in behind :
            q[1][1] \in {"handoff", "powfreeze", "powgate", "powhost", "deployment"}
              => Body(q).genesis = Body(b).genesis
       /\ AllSay(Kind(behind, "deployment"), "commit", Body(b).commit)
       /\ \A review \in Kind(Body(b).of, "algoreview") :
            LET decision == Kind(Body(review).of, "algorithm")
            IN /\ Kind(Body(review).of, "handoff") = handoff
               /\ \A d \in decision :
                    /\ Body(d).choice # "hold"
                    /\ Passed(Body(d).of)
                    /\ Body(d).choice = "randomx"
                         => \E a \in Kind(Body(review).of, "activation") :
                              Body(a).of = {d}

(***************************************************************************)
(* No artifact that decides or publishes rests on files of two candidates, *)
(* on the network with validators and on the one with proof of work.       *)
(***************************************************************************)
OneCandidateThroughout == LaunchIsOneCandidate /\ ReadyBundleIsOneChain

(***************************************************************************)
(* What a gate lets through has the people and the retests it asks for.    *)
(***************************************************************************)
GatesAreBacked == QuorumsAreDistinct /\ FindingsRetested
=============================================================================

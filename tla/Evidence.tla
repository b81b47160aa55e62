------------------------------- MODULE Evidence -------------------------------
(***************************************************************************)
(* The files of an evidence campaign.  Every tool from v0.24 on works the  *)
(* same way: a command reads JSON files, checks them, signs a manifest and *)
(* saves it as a new file; nothing else keeps state.  A saved file is      *)
(* named by its slot (which artifact, whose) and its version; a manifest   *)
(* names other files by their SHA-256, here by slot and version, which is  *)
(* as unique: every manifest holds the time it was made.                   *)
(*                                                                         *)
(* What a person types (commit, genesis, key, outcome of a drill) can be   *)
(* wrong.  `slips' counts the typed fields that differ from the usual ones *)
(* and the files made again, and bounds them.                              *)
(***************************************************************************)
EXTENDS Naturals, Sequences, FiniteSets

CONSTANTS Commits,        \* source commits
          Genesis,        \* genesis files (application and consensus)
          TheCommit,      \* the commit the campaign is about
          TheGenesis,     \* the genesis the campaign is about
          FaultKinds,     \* the faults a campaign has to execute
          Findings,       \* the high and critical findings of the review
          MaxSlips        \* bound: unusual fields and repeated files

VARIABLES files,          \* slot -> sequence of manifests, oldest first
          slips           \* number of unusual fields and repeated files

evidenceVars == <<files, slips>>

NoCommit == "none"

\* The value all have, if there is one.
One(values) == IF Cardinality(values) = 1 THEN CHOOSE v \in values : TRUE
                                          ELSE NoCommit

\* The versions saved in a slot, and what one of them says.
Refs(slot) == {<<slot, i>> : i \in DOMAIN files[slot]}

Body(ref) == files[ref[1]][ref[2]]

\* All the files of one kind, whoever made them.
RefsOf(kind) == UNION {Refs(slot) : slot \in {s \in DOMAIN files : s[1] = kind}}

\* One version of each of the slots given: the files named on the command line,
\* which exist.
OneOfEach(slots) ==
  LET versions == UNION {DOMAIN files[s] : s \in slots \cap DOMAIN files}
  IN {[s \in slots |-> <<s, v[s]>>] :
        v \in {w \in [slots -> versions] :
                \A s \in slots : s \in DOMAIN files /\ w[s] \in DOMAIN files[s]}}

Chosen(pick) == {pick[s] : s \in DOMAIN pick}

\* Every one of the files given names this value in this field.
AllSay(refs, field, value) == \A r \in refs : Body(r)[field] = value

Values(refs, field) == {Body(r)[field] : r \in refs}

\* Longer than any chain of files that name each other.
Depth == 12

\* A soak names the observations that failed beside those it was passed for;
\* nobody relies on what these saw.
FailedSample(ref) == ref[1][1] = "cluster" /\ ~Body(ref).ok

\* The files that `refs' name by hash, and those these name, and so on.
Named(refs) ==
  refs \cup UNION {Body(r).of : r \in {q \in refs : "of" \in DOMAIN Body(q)
                                                     /\ ~FailedSample(q)}}

Behind(ref) ==
  LET Trace[n \in 0..Depth] == IF n = 0 THEN {ref} ELSE Named(Trace[n - 1])
  IN Trace[Depth]

\* What is usually typed: the campaign's commit and genesis, one's own name
\* and key, a good outcome, and the newest of the files named.
Newest(slot) == <<slot, Len(files[slot])>>

Usual(slot, field) ==
  CASE field = "commit" -> TheCommit
    [] field = "genesis" -> TheGenesis
    [] field \in {"key", "who", "node", "provider"} -> slot[2]
    [] field \in {"ok", "clean", "same", "hash", "measured", "miner", "strict",
                  "paired", "asserted"} -> TRUE
    [] field = "kinds" -> FaultKinds
    [] field = "long" -> 3
    [] field = "id" -> Newest(<<"identity", "">>)
    [] field = "subject" -> IF slot[1] = "review" THEN Newest(<<"economics", "">>)
                                                 ELSE Newest(<<"report", "">>)
    [] field = "plan" -> Newest(<<"plan", "">>)
    [] field = "drill" -> Newest(<<"drill", "">>)
    [] field = "fixed" -> Findings
    [] field = "choice" -> "randomx"

Unusual(slot, body, typed) ==
  Cardinality({f \in typed \cap DOMAIN body : body[f] # Usual(slot, f)})

\* The slots whose newest file is not among those handed over.
LeftOut(given, slots) == Cardinality({s \in slots : Newest(s) \notin given})

\* save_json: a new file; whoever holds the file of before still holds it.
\* `given' are the files named on the command line, `slots' those wanted.
Save(slot, body, typed, given, slots) ==
  /\ slips' = slips + Unusual(slot, body, typed) + LeftOut(given, slots)
                    + (IF files[slot] = <<>> THEN 0 ELSE 1)
  /\ slips' <= MaxSlips
  /\ files' = [files EXCEPT ![slot] = Append(@, body)]

\* A record made from what is typed alone.
Record(slot, bodies, typed) == \E body \in bodies : Save(slot, body, typed, {}, {})
=============================================================================

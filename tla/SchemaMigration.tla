---------------------------- MODULE SchemaMigration ----------------------------
(***************************************************************************)
(* schema_migrations_v20.py and _v21.py: the application's database is     *)
(* copied, and the copy brought to schema 21, statement by statement, each *)
(* committed on its own.  The source may be live, the process may be       *)
(* killed anywhere, and a copy that was refused stays where it is.         *)
(***************************************************************************)
EXTENDS Naturals, FiniteSets

CONSTANTS Members,        \* validators of a genesis file
          Networks,       \* genesis files the command may be given
          Network,        \* the one the database belongs to
          MaxCommits,     \* bound: blocks committed meanwhile
          MaxRuns,        \* bound: commands
          NoFile,         \* no output
          HalfCopied      \* an output whose copying was cut short

\* The genesis file of the database is one of those.
ASSUME MigrationAssumption == Network \in Networks

VARIABLES live,           \* the source database
          output,         \* the copy
          run,            \* the command at work
          runs,           \* how many were started
          report          \* the last success reported: the output it was of

migrationVars == <<live, output, run, runs, report>>

Validators(network) == {<<network, m>> : m \in Members}

NoRun == [at |-> "off", network |-> Network, version |-> 0, core |-> 0, before |-> 0]

\* A database of schema 21 has its validators; one of schema 20 may be what a
\* killed migration left, with some.
MigrationInit ==
  /\ \E version \in {19, 20, 21}, some \in SUBSET Validators(Network) :
       /\ version = 19 => some = {}
       /\ version = 21 => some = Validators(Network)
       /\ live = [version |-> version, core |-> 0, validators |-> some]
  /\ output = NoFile
  /\ run = NoRun
  /\ runs = 0
  /\ report = NoFile

LiveCommits ==
  /\ live.core < MaxCommits
  /\ live' = [live EXCEPT !.core = @ + 1]
  /\ UNCHANGED <<output, run, runs, report>>

\* The hash of everything but the version and the tables a migration adds.
Fingerprint(database) == database.core

\* The fingerprint of the source is taken before anything is copied.
StartRun ==
  /\ run.at = "off"
  /\ runs < MaxRuns
  /\ runs' = runs + 1
  /\ \E network \in Networks, overwrite \in BOOLEAN :
       /\ output # NoFile => overwrite
       /\ run' = [at |-> "copy", network |-> network, version |-> live.version,
                  core |-> Fingerprint(live), before |-> 0]
  /\ UNCHANGED <<live, output, report>>

Ends == run' = NoRun

\* The old output is removed, and a new file opened.
BeginCopy ==
  /\ run.at = "copy"
  /\ output' = HalfCopied
  /\ report' = NoFile
  /\ run' = [run EXCEPT !.at = "copying", !.before = live.core]
  /\ UNCHANGED <<live, runs>>

\* A live source that moved shows here only from schema 19, where the copy is
\* deleted; from 20 and 21 it shows at the end, and the copy stays.
EndCopy ==
  /\ run.at = "copying"
  /\ IF run.version = 19 /\ live.core # run.before
       THEN output' = NoFile /\ Ends
       ELSE /\ output' = live
            /\ run' = [run EXCEPT !.at = CASE run.version = 19 -> "lifecycle"
                                           [] run.version = 20 -> "governance"
                                           [] OTHER -> "check"]
  /\ UNCHANGED <<live, runs, report>>

\* 19 to 20 is one transaction.
AddLifecycle ==
  /\ run.at = "lifecycle"
  /\ output' = [output EXCEPT !.version = 20]
  /\ run' = [run EXCEPT !.at = "governance"]
  /\ UNCHANGED <<live, runs, report>>

\* The tables of 21; they must hold no validators yet.
AddGovernance ==
  /\ run.at = "governance"
  /\ IF output.validators = {} THEN run' = [run EXCEPT !.at = "fill"] ELSE Ends
  /\ UNCHANGED <<live, output, runs, report>>

InsertValidator ==
  /\ run.at = "fill"
  /\ \E v \in Validators(run.network) \ output.validators :
       output' = [output EXCEPT !.validators = @ \cup {v}]
  /\ UNCHANGED <<live, run, runs, report>>

\* Mutant: the version is stamped before the last validator is in.
StampEarly ==
  /\ run.at = "fill"
  /\ output' = [output EXCEPT !.version = 21]
  /\ run' = [run EXCEPT !.at = "check"]
  /\ UNCHANGED <<live, runs, report>>

StampVersion ==
  /\ run.at = "fill"
  /\ Validators(run.network) \subseteq output.validators
  /\ output' = [output EXCEPT !.version = 21]
  /\ run' = [run EXCEPT !.at = "check"]
  /\ UNCHANGED <<live, runs, report>>

\* What the copy is when the tables of 21 are dropped again.
RolledBack(file) == [file EXCEPT !.version = 20, !.validators = {}]

CheckOutput ==
  /\ run.at = "check"
  /\ report' = IF /\ output.version = 21
                  /\ Fingerprint(output) = run.core
                  /\ run.network = Network
                  /\ output.validators # {}
                  /\ Fingerprint(RolledBack(output)) = run.core
                 THEN output ELSE NoFile
  /\ Ends
  /\ UNCHANGED <<live, output, runs>>

RunKilled ==
  /\ run.at # "off"
  /\ Ends
  /\ UNCHANGED <<live, output, runs, report>>

MigrationNext ==
  \/ LiveCommits
  \/ StartRun
  \/ BeginCopy
  \/ EndCopy
  \/ AddLifecycle
  \/ AddGovernance
  \/ InsertValidator
  \/ StampVersion
  \/ CheckOutput
  \/ RunKilled

MigrationSpec == MigrationInit /\ [][MigrationNext]_migrationVars

-----------------------------------------------------------------------------
(***************************************************************************)
(* A file that says schema 21 holds all validators of one genesis, though  *)
(* each statement is committed on its own and the process may be killed    *)
(* between any two; and one reported migrated is still the file that was   *)
(* checked, of this network and with the state the source had when the     *)
(* command began.  (A file that was refused is of another network, or of a *)
(* later state than the fingerprint, and says 21 as well.)                 *)
(***************************************************************************)
MigratedIsWhole ==
  /\ output \notin {NoFile, HalfCopied} /\ output.version = 21
       => \E network \in Networks : output.validators = Validators(network)
  /\ report # NoFile => /\ output = report
                        /\ output.version = 21
                        /\ output.validators = Validators(Network)
================================================================================

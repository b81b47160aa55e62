---------------------------- MODULE SnapshotExport ----------------------------
(***************************************************************************)
(* The serving side of state sync: external_state_sync(_v21).py reads the  *)
(* committed state one statement at a time while blocks are committed, and *)
(* comet_state_sync(_v21).py cuts it in chunks in a directory of its own.  *)
(* The handlers run in a pool of threads and the command line is another   *)
(* process: nothing keeps two of them, or one of them and a commit, apart. *)
(*                                                                         *)
(* A hash is the value hashed: the application hash of a state is the      *)
(* state, and a directory is named by the snapshot in it.                  *)
(***************************************************************************)
EXTENDS Naturals, Sequences, FiniteSets, Functions

CONSTANTS Exporters,      \* calls that may materialize at the same time
          Pieces,         \* chunks of a snapshot
          MaxHeight,      \* bound: blocks committed
          MaxExports      \* bound: calls to materialize_latest

ASSUME ExportAssumption == Pieces \in Nat

VARIABLES db,             \* what the committed tables hold
          committed,      \* history: the state each height was committed with
          exporter,       \* call -> how far it is, and what it read
          exports,        \* how many calls began
          temp,           \* .height-hash.tmp: what each holds
          target,         \* height-hash: what each holds
          overlapped,     \* history: the snapshots two calls wrote at one time
          abandoned       \* history: those left by a kill before the rename

exportVars == <<db, committed, exporter, exports, temp, target,
                overlapped, abandoned>>

State(seen, i) ==
  [accounts |-> seen[i], governance |-> seen[i + 1],
   height |-> seen[i + 2], last |-> seen[i + 3]]

FreshState == [accounts |-> 0, governance |-> 0, height |-> 0, last |-> 0]

NotRunning == [at |-> "off", seen |-> << >>, snapshot |-> FreshState, written |-> 0]

ExportInit ==
  /\ db = [pending |-> FALSE, state |-> FreshState]
  /\ committed = << >>
  /\ exporter = [e \in Exporters |-> NotRunning]
  /\ exports = 0
  /\ temp = << >> /\ target = << >>
  /\ overlapped = {} /\ abandoned = {}

-----------------------------------------------------------------------------
Stage ==
  /\ ~db.pending
  /\ db.state.height < MaxHeight
  /\ db' = [db EXCEPT !.pending = TRUE]
  /\ UNCHANGED <<committed, exporter, exports, temp, target, overlapped, abandoned>>

\* A block may leave the accounts as they are, and governance may return to
\* what it was; the height and the block's hash are never seen again.
Commit ==
  /\ db.pending
  /\ \E a \in 0..1, g \in 0..1 :
       LET next == [accounts |-> db.state.accounts + a, governance |-> g,
                    height |-> db.state.height + 1, last |-> db.state.height + 1]
       IN /\ db' = [pending |-> FALSE, state |-> next]
          /\ committed' = Append(committed, next)
  /\ UNCHANGED <<exporter, exports, temp, target, overlapped, abandoned>>

-----------------------------------------------------------------------------
\* store.status(): refused while a finalize is pending.
Begin(e) ==
  /\ exporter[e].at = "off"
  /\ exports < MaxExports
  /\ exports' = exports + 1
  /\ ~db.pending
  /\ exporter' = [exporter EXCEPT ![e].at = "read"]
  /\ UNCHANGED <<db, committed, temp, target, overlapped, abandoned>>

\* Every SELECT is a read of its own: first those of status(), then those of
\* the export, then the height and hash written into the snapshot.
Reads == <<"accounts", "governance", "height", "last",
           "accounts", "governance", "height", "last",
           "height", "last">>

ReadRow(e) ==
  /\ exporter[e].at = "read"
  /\ Len(exporter[e].seen) < Len(Reads)
  /\ exporter' = [exporter EXCEPT ![e].seen =
       Append(@, db.state[Reads[Len(@) + 1]])]
  /\ UNCHANGED <<db, committed, exports, temp, target, overlapped, abandoned>>

\* What is written down: the rows and the height read last, and the
\* application hash computed from the height read before.
Snapshot(seen) ==
  [state |-> [State(seen, 5) EXCEPT !.height = seen[9], !.last = seen[10]],
   app |-> State(seen, 5)]

\* verify_external_snapshot computes the hash of what is in the snapshot.
SelfConsistent(snapshot) == snapshot.app = snapshot.state

\* A call has what it writes; another may be writing the same.
Working(e, name) ==
  exporter[e].at \in {"clear", "write", "rename"} /\ exporter[e].snapshot = name

Holds(e, name) ==
  /\ exporter' = [exporter EXCEPT ![e] =
                    [NotRunning EXCEPT !.at = "clear", !.snapshot = name]]
  /\ overlapped' = overlapped \cup
                     (IF \E f \in Exporters : Working(f, name) THEN {name} ELSE {})

Fails(e) == exporter' = [exporter EXCEPT ![e] = NotRunning]

\* Mutant: the hash is not compared with the one status() reported.
ExportedUnchecked(e) ==
  LET made == Snapshot(exporter[e].seen)
  IN /\ exporter[e].at = "read"
     /\ Len(exporter[e].seen) = Len(Reads)
     /\ IF SelfConsistent(made) /\ made.state.height > 0
          THEN Holds(e, made.state)
          ELSE Fails(e) /\ UNCHANGED overlapped
     /\ UNCHANGED <<db, committed, exports, temp, target, abandoned>>

\* The hash must be the one status() reported, the snapshot must verify, and
\* there is none of the genesis state.
Exported(e) ==
  LET seen == exporter[e].seen
      made == Snapshot(seen)
  IN /\ exporter[e].at = "read"
     /\ Len(seen) = Len(Reads)
     /\ IF State(seen, 1) = made.app /\ SelfConsistent(made) /\ made.state.height > 0
          THEN Holds(e, made.state)
          ELSE Fails(e) /\ UNCHANGED overlapped
     /\ UNCHANGED <<db, committed, exports, temp, target, abandoned>>

-----------------------------------------------------------------------------
With(files, name, directory) ==
  [n \in DOMAIN files \cup {name} |-> IF n = name THEN directory ELSE files[n]]
Without(files, name) == Restrict(files, DOMAIN files \ {name})

Empty == [chunks |-> {}, manifest |-> FALSE]

ClearTemp(e) ==
  /\ exporter[e].at = "clear"
  /\ temp' = With(temp, exporter[e].snapshot, Empty)
  /\ exporter' = [exporter EXCEPT ![e].at = "write"]
  /\ abandoned' = abandoned \ {exporter[e].snapshot}
  /\ UNCHANGED <<db, committed, exports, target, overlapped>>

\* The write fails, and the call with it, when another call moved or removed
\* the directory.
WriteChunk(e) ==
  LET name == exporter[e].snapshot
      index == exporter[e].written + 1
  IN /\ exporter[e].at = "write"
     /\ exporter[e].written < Pieces
     /\ IF name \in DOMAIN temp
          THEN /\ temp' = [temp EXCEPT ![name].chunks = @ \cup {index}]
               /\ exporter' = [exporter EXCEPT ![e].written = index]
          ELSE Fails(e) /\ UNCHANGED temp
     /\ UNCHANGED <<db, committed, exports, target, overlapped, abandoned>>

\* _write_json makes the directory when it is not there.
WriteManifest(e) ==
  LET name == exporter[e].snapshot
      held == IF name \in DOMAIN temp THEN temp[name] ELSE Empty
  IN /\ exporter[e].at = "write"
     /\ exporter[e].written = Pieces
     /\ temp' = With(temp, name, [held EXCEPT !.manifest = TRUE])
     /\ exporter' = [exporter EXCEPT ![e].at = "rename"]
     /\ UNCHANGED <<db, committed, exports, target, overlapped, abandoned>>

\* A directory of that name is the same snapshot: it is kept.
Publish(e) ==
  LET name == exporter[e].snapshot
  IN /\ exporter[e].at = "rename"
     /\ target' = IF name \in DOMAIN target \/ name \notin DOMAIN temp
                    THEN target ELSE With(target, name, temp[name])
     /\ temp' = Without(temp, name)
     /\ Fails(e)
     /\ UNCHANGED <<db, committed, exports, overlapped, abandoned>>

ExporterKilled(e) ==
  /\ exporter[e].at # "off"
  /\ Fails(e)
  /\ abandoned' = abandoned \cup
                    (IF exporter[e].at = "rename" THEN {exporter[e].snapshot} ELSE {})
  /\ UNCHANGED <<db, committed, exports, temp, target, overlapped>>

ExportNext ==
  \/ Stage
  \/ Commit
  \/ \E e \in Exporters :
       \/ Begin(e)
       \/ ReadRow(e)
       \/ Exported(e)
       \/ ClearTemp(e)
       \/ WriteChunk(e)
       \/ WriteManifest(e)
       \/ Publish(e)
       \/ ExporterKilled(e)

ExportSpec == ExportInit /\ [][ExportNext]_exportVars

-----------------------------------------------------------------------------
\* list_snapshots: the glob matches the temporary directories too, and the
\* bridge asks for the two newest.
Listed ==
  LET found == {n \in DOMAIN temp : temp[n].manifest}
                 \cup {n \in DOMAIN target : target[n].manifest}
  IN {n \in found : Cardinality({m \in found : m.height > n.height}) < 2}

\* load_chunk finds only the directories that were renamed.
Served(name) ==
  name \in DOMAIN target /\ target[name].manifest /\ target[name].chunks = 1..Pieces

(***************************************************************************)
(* A snapshot that was published is a state the chain committed, whatever  *)
(* blocks were committed between the reads it was made of.                 *)
(***************************************************************************)
MaterializedIsCommitted ==
  \A name \in DOMAIN target :
    name.height \in DOMAIN committed /\ name = committed[name.height]

(***************************************************************************)
(* What is listed to other nodes can be served whole, except between the   *)
(* writing of its manifest and its renaming.  A call killed there leaves   *)
(* it listed and unservable until the next call for that height; two calls *)
(* that write one snapshot at the same time may publish it without chunks, *)
(* and no later call replaces it.  Neither touches another snapshot.       *)
(***************************************************************************)
ListedIsServed ==
  \A name \in Listed \ (overlapped \cup abandoned) :
    Served(name) \/ \E e \in Exporters :
                      exporter[e].at = "rename" /\ exporter[e].snapshot = name

(***************************************************************************)
(* What is published is committed, and what is listed is whole, but for    *)
(* the snapshots that a kill or two calls for one height spoiled.          *)
(***************************************************************************)
ServedIsCommitted == MaterializedIsCommitted /\ ListedIsServed
===============================================================================

----------------------------- MODULE ExplorerIndex -----------------------------
(***************************************************************************)
(* explorer_index.py: a database of its own that follows the committed     *)
(* blocks.  A sync reads the height of the source, and then, under the     *)
(* lock of the index, the rows it lacks and the accounts; the source goes  *)
(* on committing in between.  The loop of the service and POST /sync run   *)
(* it at the same time.                                                    *)
(***************************************************************************)
EXTENDS Naturals, FiniteSets

CONSTANTS Syncers,        \* calls of sync_from_source
          MaxBlocks,      \* bound: blocks of the source
          MaxSyncs,       \* bound: syncs begun
          MaxReplaced     \* bound: times the source is replaced

VARIABLES source,         \* the application's database: blocks base+1..height
          index,          \* what the index holds
          syncer,         \* call -> how far it is, and what it read
          syncs,          \* how many began
          replaced,       \* how many times the source was replaced
          widened         \* history: one of an older base took its place

indexVars == <<source, index, syncer, syncs, replaced, widened>>

Waiting == [at |-> "off", height |-> 0, base |-> 0, rows |-> {}]

IndexInit ==
  /\ source = [height |-> 0, base |-> 0]
  /\ index = [commits |-> {}, indexed |-> 0, base |-> 0, accounts |-> 0]
  /\ syncer = [s \in Syncers |-> Waiting]
  /\ syncs = 0 /\ replaced = 0
  /\ widened = FALSE

SourceCommits ==
  /\ source.height < MaxBlocks
  /\ source' = [source EXCEPT !.height = @ + 1]
  /\ UNCHANGED <<index, syncer, syncs, replaced, widened>>

\* The operator puts a node restored from a snapshot, or one that ran them
\* all, behind the explorer.
SourceReplaced ==
  /\ replaced < MaxReplaced
  /\ \A s \in Syncers : syncer[s].at = "off"
  /\ \E h \in 0..MaxBlocks : \E b \in 0..h :
       /\ source' = [height |-> h, base |-> b]
       /\ widened' = (widened \/ b < index.base)
  /\ replaced' = replaced + 1
  /\ UNCHANGED <<index, syncer, syncs>>

ReadSource(s) ==
  /\ syncer[s].at = "off"
  /\ syncs < MaxSyncs
  /\ syncs' = syncs + 1
  /\ syncer' = [syncer EXCEPT ![s] =
       [at |-> "read", height |-> source.height, base |-> source.base, rows |-> {}]]
  /\ UNCHANGED <<source, index, replaced, widened>>

\* BEGIN IMMEDIATE, then the commits above the height the index has now.
ReadCommits(s) ==
  /\ syncer[s].at = "read"
  /\ \A t \in Syncers : syncer[t].at # "rows"
  /\ syncer' = [syncer EXCEPT ![s].at = "rows", ![s].rows =
       {h \in (source.base + 1)..source.height : h > index.indexed}]
  /\ UNCHANGED <<source, index, syncs, replaced, widened>>

\* Mutant: the height is read again at the end.
CommitIndexLate(s) ==
  /\ syncer[s].at = "rows"
  /\ index' = [commits |-> index.commits \cup syncer[s].rows,
               indexed |-> source.height,
               base |-> syncer[s].base,
               accounts |-> source.height]
  /\ syncer' = [syncer EXCEPT ![s] = Waiting]
  /\ UNCHANGED <<source, syncs, replaced, widened>>

\* The accounts are read last, and all of it becomes visible at once.
CommitIndex(s) ==
  /\ syncer[s].at = "rows"
  /\ index' = [commits |-> index.commits \cup syncer[s].rows,
               indexed |-> IF syncer[s].height > syncer[s].base
                             THEN syncer[s].height ELSE syncer[s].base,
               base |-> syncer[s].base,
               accounts |-> source.height]
  /\ syncer' = [syncer EXCEPT ![s] = Waiting]
  /\ UNCHANGED <<source, syncs, replaced, widened>>

\* Rolled back.
SyncKilled(s) ==
  /\ syncer[s].at # "off"
  /\ syncer' = [syncer EXCEPT ![s] = Waiting]
  /\ UNCHANGED <<source, index, syncs, replaced, widened>>

IndexNext ==
  \/ SourceCommits
  \/ SourceReplaced
  \/ \E s \in Syncers :
       \/ ReadSource(s)
       \/ ReadCommits(s)
       \/ CommitIndex(s)
       \/ SyncKilled(s)

IndexSpec == IndexInit /\ [][IndexNext]_indexVars

-----------------------------------------------------------------------------
\* explorer_reconcile.py: the tables and metadata of an index built from
\* nothing, while no block is committed.
Reconciled ==
  index = [commits |-> (source.base + 1)..source.height, indexed |-> source.height,
           base |-> source.base, accounts |-> source.height]

(***************************************************************************)
(* Every block from the base of the source to the height the index claims  *)
(* is in it, whatever was committed and whichever syncs overlapped while   *)
(* it was read; and an index that claims the height of a source that was   *)
(* never replaced is the one a clean rebuild makes.  (An overlapped sync   *)
(* may move the claimed height back; it never skips a block.  A source of  *)
(* an older base put in the place of another does leave a gap, under a     *)
(* summary that says the history is complete.)                             *)
(***************************************************************************)
IndexHoldsEveryCommit ==
  /\ ~widened => (index.base + 1)..index.indexed \subseteq index.commits
  /\ replaced = 0 /\ index.indexed = source.height => Reconciled
================================================================================

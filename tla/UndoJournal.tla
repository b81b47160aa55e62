----------------------------- MODULE UndoJournal -----------------------------
(***************************************************************************)
(* The undo journal of the canonical chain (UndoJournalV34 of              *)
(* pow_ops_v34.py) and the rehearsal of an incremental reorganization      *)
(* (pow_reorg_v36.py).  Every command is a process of its own; its SELECTs *)
(* are separate reads of the node's database, whose blocks and             *)
(* transactions tables the node replaces meanwhile, and only the INSERT of *)
(* a journal row is atomic.                                                *)
(*                                                                         *)
(* A block is [txs, coinbase]; the chain down to a block is the sequence   *)
(* of its blocks, which also stands for the hash of its last one: a hash   *)
(* covers the parent's.  The amount, address and coinbase height of an     *)
(* output are functions of its outpoint, so that a row restores outpoints. *)
(***************************************************************************)
EXTENDS PowTransactions

CONSTANTS
  Branch,        \* chains of blocks that the node may come to know
  Work,          \* Branch -> cumulative work
  Ledger,        \* Branch -> the utxos table after its blocks
  Operator,      \* operators that run commands
  Disconnects,   \* arguments of the rehearsal
  MaxCommands    \* bound of the model: number of commands

Height(c) == Len(c)
Upto(c, n) == SubSeq(c, 1, n)
Tip(c) == c[Height(c)]
Parent(c) == Upto(c, Height(c) - 1)
Prolongs(d, c) == Height(c) <= Height(d) /\ Upto(d, Height(c)) = c

OutputsOf(b) == OutsOf(b.txs) \cup {CoinbaseOutput(b.coinbase)}
TxidsOf(b) == TxsOf(b.txs) \cup {b.coinbase}

\* _activate_chain replays a branch with submit_block, which checks this.
Accepted(utxos, c, b) ==
  /\ b.coinbase \in Coinbase /\ b.coinbase[1] = Height(c) + 1
  /\ Connects(utxos, Height(c) + 1, b.txs)
  /\ \A i \in 1..Height(c) : TxidsOf(b) \cap TxidsOf(c[i]) = {}
  /\ \A i, j \in 1..Len(b.txs) : b.txs[i] = b.txs[j] => i = j

\* The branches are what the node would activate: closed under taking
\* ancestors, each block accepted on its parent's UTXO table.
ASSUME BranchAssumption ==
  /\ << >> \in Branch /\ Ledger[<< >>] = {}
  /\ Branch \subseteq Seq([txs : Seq(Tx), coinbase : Coinbase])
  /\ Work \in [Branch -> Nat]
  /\ Disconnects \subseteq Nat \ {0}
  /\ \A c \in Branch : \A n \in 0..Height(c) : Upto(c, n) \in Branch
  /\ \A c \in Branch \ {<< >>} :
       /\ Accepted(Ledger[Parent(c)], Parent(c), Tip(c))
       /\ Ledger[c] = Applied(Ledger[Parent(c)], Tip(c).txs, Tip(c).coinbase)

VARIABLES
  chain,     \* blocks and transactions tables: the canonical chain
  journal,   \* block_undo_v34 table: height -> its row
  peak,      \* history: the greatest height the chain has had
  command,   \* operator -> the command it runs
  commands   \* number of commands so far

vars == <<chain, journal, peak, command, commands>>

Idle == [pc |-> "idle"]

-----------------------------------------------------------------------------
(* Undo data.                                                              *)

Creators(c, op) == { i \in 1..Height(c) : TxidOf(op) \in TxidsOf(c[i]) }

\* A row of the journal.  `torn` is a history variable: the chain was
\* reorganized while the row was built.
Row(c, restore, torn) ==
  [block |-> c, created |-> OutputsOf(Tip(c)), restore |-> restore, torn |-> torn]

\* created_outpoints are deleted, then restore_utxos are inserted.
\* (Mutant: in the other order, and without the coinbase.)
UndoneKeepingCoinbase(utxos, row) ==
  (utxos \ OutsOf(Tip(row.block).txs)) \cup row.restore

Undone(utxos, row) == (utxos \ row.created) \cup row.restore

\* What one lookup of a creator adds to the row of height h.
\* (Mutants: `creator_height <= height`; outputs of coinbases left out.)
RestorableAny(h, i) == i <= h
Restorable(h, i) == i < h

\* build_for_height when nothing interferes.
BuiltRow(c, h) ==
  LET spent == InsOf(c[h].txs) IN
  Row(Upto(c, h),
      { op \in spent : \E i \in Creators(c, op) : Restorable(h, i) }, FALSE)

-----------------------------------------------------------------------------
Init ==
  /\ chain = << >>
  /\ journal = [h \in {} |-> << >>]
  /\ peak = 0
  /\ command = [o \in Operator |-> Idle]
  /\ commands = 0

\* The node connects a block to its tip, or reorganizes to a branch with more
\* work: what commands read before and after does not belong together.  A
\* rehearsal that has its copy reads the chain no more.
Disturbed(f, c) ==
  CASE f.pc = "idle" -> f
    [] f.kind = "rehearse" -> IF f.pc = "read" THEN [f EXCEPT !.moved = TRUE] ELSE f
    [] OTHER -> IF Prolongs(c, chain) THEN f
                ELSE [f EXCEPT !.torn = TRUE, !.moved = TRUE]

Activate(c) ==
  /\ Work[c] > Work[chain]
  /\ chain' = c
  /\ peak' = IF Height(c) > peak THEN Height(c) ELSE peak
  /\ command' = [o \in Operator |-> Disturbed(command[o], c)]
  /\ UNCHANGED <<journal, commands>>

Start(o, frame) ==
  /\ command[o] = Idle /\ commands < MaxCommands
  /\ command' = [command EXCEPT ![o] = frame]
  /\ commands' = commands + 1
  /\ UNCHANGED <<chain, journal, peak>>

At(o, kinds, pc) ==
  command[o] # Idle /\ command[o].kind \in kinds /\ command[o].pc = pc

Step(o, frame) ==
  /\ command' = [command EXCEPT ![o] = frame]
  /\ UNCHANGED <<chain, journal, peak, commands>>

\* An exception, or the operator's interrupt: rows already written stay.
Stop(o) == command[o] # Idle /\ Step(o, Idle)

-----------------------------------------------------------------------------
(* backfill and verify.                                                    *)

JournalKinds == {"backfill", "verify"}

JournalFrame(kind, todo, rows) ==
  [kind |-> kind, pc |-> "next", todo |-> todo, block |-> << >>,
   inputs |-> {}, restore |-> {}, torn |-> FALSE, moved |-> FALSE,
   rows |-> rows, bad |-> FALSE]

\* backfill(start_height): SELECT MAX(height).
Backfill(o, start) ==
  Start(o, JournalFrame("backfill", start..Height(chain), << >>))

\* verify: SELECT all rows.
Verify(o) == Start(o, JournalFrame("verify", DOMAIN journal, journal))

\* The rows are taken in the order of their heights.
Due(f, h) == h \in f.todo /\ \A i \in f.todo : h <= i

\* verify's own SELECT of the block: a row whose block is not canonical fails.
CheckRow(o) ==
  LET f == command[o] IN
  /\ At(o, {"verify"}, "next")
  /\ \E h \in f.todo :
       /\ Due(f, h)
       /\ Step(o, IF h <= Height(chain) /\ Upto(chain, h) = f.rows[h].block
                  THEN [f EXCEPT !.pc = "build"]
                  ELSE [f EXCEPT !.todo = @ \ {h}, !.bad = TRUE])

\* build_for_height: SELECT the block, collect its inputs.  (A block that is
\* gone raises: Stop.)
ReadBlock(o) ==
  LET f == command[o] IN
  /\ At(o, {"backfill"}, "next") \/ At(o, {"verify"}, "build")
  /\ \E h \in f.todo :
       /\ Due(f, h) /\ h <= Height(chain)
       /\ Step(o, [f EXCEPT !.pc = "inputs", !.block = Upto(chain, h),
                            !.inputs = InsOf(chain[h].txs), !.restore = {},
                            !.torn = FALSE])

\* The inputs that a list of transactions names in lower case.
PlainInsOf(s) == UNION { Plain(t) : t \in TxsOf(s) }

\* _creator for one input, looked up as written.  A creator that is missing,
\* spelled otherwise or confirmed later, or at this height in another block,
\* raises (Stop).
ReadCreator(o) ==
  LET f == command[o]
      h == Height(f.block)
  IN
  /\ At(o, JournalKinds, "inputs")
  /\ \E op \in f.inputs \cap PlainInsOf(Tip(f.block).txs) : \E i \in Creators(chain, op) :
       /\ i <= h
       /\ i = h => TxidOf(op) \in TxidsOf(Tip(f.block))
       /\ Step(o, [f EXCEPT !.inputs = @ \ {op},
                            !.restore = IF Restorable(h, i) THEN @ \cup {op} ELSE @])

\* verify compares the new row with the one it read.
\* (Mutant: it does not.)
NeverDiffers(f, row) == FALSE

Differs(f, row) ==
  LET old == f.rows[Height(row.block)] IN
  row.block # old.block \/ row.restore # old.restore

\* INSERT OR REPLACE: height is UNIQUE.
InsertRow(o) ==
  LET f == command[o]
      h == Height(f.block)
      row == Row(f.block, f.restore, f.torn)
  IN
  /\ At(o, JournalKinds, "inputs") /\ f.inputs = {}
  /\ journal' = [i \in DOMAIN journal \cup {h} |-> IF i = h THEN row ELSE journal[i]]
  /\ command' = [command EXCEPT ![o] =
       [f EXCEPT !.pc = "next", !.todo = @ \ {h}, !.bad = @ \/ (f.kind = "verify" /\ Differs(f, row))]]
  /\ UNCHANGED <<chain, peak, commands>>

Finish(o) ==
  LET f == command[o] IN
  /\ At(o, JournalKinds, "next") /\ f.todo = {}
  /\ Step(o, IF f.kind = "verify" THEN [f EXCEPT !.pc = "done"] ELSE Idle)

-----------------------------------------------------------------------------
(* rehearse_incremental_undo.                                              *)

\* tip(), and the test that there are n blocks to disconnect.
Rehearse(o, n) ==
  /\ n <= Height(chain)
  /\ Start(o, [kind |-> "rehearse", pc |-> "read", n |-> n, end |-> Height(chain),
               blocks |-> << >>, copy |-> << >>, rows |-> << >>,
               working |-> << >>, utxos |-> {},
               moved |-> FALSE, passed |-> FALSE])

\* get_block, height by height.
ReadOriginal(o) ==
  LET f == command[o]
      h == Height(f.blocks) + 1
  IN
  /\ At(o, {"rehearse"}, "read") /\ h <= f.end /\ h <= Height(chain)
  /\ Step(o, [f EXCEPT !.blocks = Append(@, chain[h])])

\* sqlite3 backup: a consistent copy of the chain and of its journal.
CopyDatabase(o) ==
  LET f == command[o] IN
  /\ At(o, {"rehearse"}, "read") /\ Height(f.blocks) = f.end
  /\ Step(o, [f EXCEPT !.pc = "copied", !.copy = chain, !.rows = journal,
                       !.working = chain, !.utxos = Ledger[chain]])

\* Every input of the chain is found as it is written.
Journaled(c) == \A i \in 1..Height(c) : InsOf(c[i].txs) = PlainInsOf(c[i].txs)

\* backfill(start_height=1) where nothing interferes: the rows of all heights
\* are built anew, those above the tip stay.
Backfilled(c, rows) ==
  [h \in DOMAIN rows \cup 1..Height(c) |->
     IF h \in 1..Height(c) THEN BuiltRow(c, h) ELSE rows[h]]

\* verify where nothing interferes.
JournalVerified(c, rows) ==
  \A h \in DOMAIN rows : h \in 1..Height(c) /\ rows[h] = BuiltRow(c, h)

\* backfill and verify on the copy: a failure of either ends the rehearsal.
PrepareJournal(o) ==
  LET f == command[o]
      rows == Backfilled(f.copy, f.rows)
  IN
  /\ At(o, {"rehearse"}, "copied")
  /\ Step(o, IF Journaled(f.copy) /\ JournalVerified(f.copy, rows)
             THEN [f EXCEPT !.pc = "verified", !.rows = rows]
             ELSE [f EXCEPT !.pc = "refused"])

\* The row of the copy's tip, then _disconnect_tip.  (A copy of fewer than n
\* blocks, or a row of another block, raises: Stop.)
DisconnectTip(o) ==
  LET f == command[o]
      h == Height(f.working)
  IN
  /\ At(o, {"rehearse"}, "verified") /\ f.n > 0
  /\ h \in DOMAIN f.rows /\ f.rows[h].block = f.working
  /\ Step(o, [f EXCEPT !.n = @ - 1, !.working = Parent(@), !.utxos = Undone(@, f.rows[h])])

\* The clean replay of original_blocks[1 : target_height + 1] in a file of its
\* own.  (Blocks of two branches do not replay and raise: Stop.)
Compare(o) ==
  LET f == command[o]
      target == Height(f.working)
      replayed == Upto(f.blocks, IF target < f.end THEN target ELSE f.end)
  IN
  /\ At(o, {"rehearse"}, "verified") /\ f.n = 0 /\ replayed \in Branch
  /\ Step(o, [f EXCEPT !.pc = "done",
       !.passed = replayed = f.working /\ Ledger[replayed] = f.utxos])

-----------------------------------------------------------------------------
JournalCommand(o) ==
  \/ \E start \in 1..Height(chain) : Backfill(o, start)
  \/ Verify(o)
  \/ CheckRow(o) \/ ReadBlock(o) \/ ReadCreator(o) \/ InsertRow(o) \/ Finish(o)

RehearsalCommand(o) ==
  \/ \E n \in Disconnects : Rehearse(o, n)
  \/ ReadOriginal(o) \/ CopyDatabase(o) \/ PrepareJournal(o) \/ DisconnectTip(o)
  \/ Compare(o)

Next ==
  \/ \E c \in Branch : Activate(c)
  \/ \E o \in Operator : JournalCommand(o) \/ RehearsalCommand(o) \/ Stop(o)

Spec == Init /\ [][Next]_vars

-----------------------------------------------------------------------------
(* Properties.                                                             *)

Restores(row) == Undone(Ledger[row.block], row) = Ledger[Parent(row.block)]

\* Every journal row whose creators were read without a reorganization in
\* between takes the UTXO table after its block back to the one before it,
\* chained spends inside the block and mature coinbases included.
UntornRowsRestore ==
  \A h \in DOMAIN journal :
    ~journal[h].torn => Height(journal[h].block) = h /\ Restores(journal[h])

\* When verify reports no failure and no reorganization ran meanwhile, every
\* row it found undoes its block, also a row that was built from the tables of
\* two branches and whose block has become canonical again.
VerifyIsSound ==
  \A o \in Operator : LET f == command[o] IN
    (At(o, {"verify"}, "done") /\ ~f.bad /\ ~f.moved)
      => \A h \in DOMAIN f.rows : Restores(f.rows[h])

\* A rehearsal whose chain stood still until it was copied, and that gets past
\* its own verification, passes: disconnecting any number of tips with the
\* journal's rows gives the UTXO table of a clean replay.  The verification
\* refuses only a copy that is lower than the chain once was, above which rows of
\* the replaced branch may be left, or that holds an input not written in lower
\* case, for which no row can be built.
RehearsalPasses ==
  \A o \in Operator : LET f == command[o] IN
    /\ (At(o, {"rehearse"}, "done") /\ ~f.moved) => f.passed
    /\ At(o, {"rehearse"}, "refused") => peak > Height(f.copy) \/ ~Journaled(f.copy)
=============================================================================

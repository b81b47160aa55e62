---------------------------- MODULE Operations_proofs ----------------------------
(***************************************************************************)
(* Proofs about the programs that run beside the nodes: the undo journal   *)
(* and its commands, the campaign log, the monitor, both sides of state    *)
(* sync, the explorer's index, the migration of a database and the         *)
(* services that pay.  They share nothing, and each part below is about    *)
(* one of them: its inductive invariant, for any number of processes and   *)
(* without the bounds on kills, calls and blocks.                          *)
(*                                                                         *)
(* Of the undo journal, first the chain: txids appear in one block each,   *)
(* every unspent output has its creator in the chain, hence an input of a  *)
(* block is created either below it or inside it, and undoing a block is   *)
(* the inverse of connecting it.  Then the commands: IInv says what a      *)
(* command has read so far, as long as no reorganization disturbed it.     *)
(***************************************************************************)
EXTENDS UndoJournal, CampaignLog, MonitorLoop, SnapshotExport, SnapshotRestore,
        ExplorerIndex, SchemaMigration, RewardServices, PowTransactions_proofs

-----------------------------------------------------------------------------
(* Branches.                                                               *)

Blocks == [txs : Seq(Tx), coinbase : Coinbase]

\* The ancestors of a branch are branches, and agree with it.
LEMMA Ancestor ==
  ASSUME NEW c \in Branch, NEW n \in 0..Height(c)
  PROVE  /\ c \in Seq(Blocks) /\ Height(c) \in Nat
         /\ Upto(c, n) \in Branch /\ Upto(c, n) \in Seq(Blocks)
         /\ Height(Upto(c, n)) = n
         /\ \A i \in 1..n : Upto(c, n)[i] = c[i]
         /\ \A m \in 0..n : Upto(Upto(c, n), m) = Upto(c, m)
<1>1. c \in Seq(Blocks)
  BY BranchAssumption DEF Blocks
<1>2. Len(c) \in Nat
  BY <1>1
<1>3. Upto(c, n) \in Branch
  BY BranchAssumption
<1>4. /\ SubSeq(c, 1, n) \in Seq(Blocks) /\ Len(SubSeq(c, 1, n)) = n
      /\ \A i \in 1..n : SubSeq(c, 1, n)[i] = c[i]
  BY <1>1, <1>2 DEF Height
<1>5. ASSUME NEW m \in 0..n PROVE SubSeq(SubSeq(c, 1, n), 1, m) = SubSeq(c, 1, m)
  BY <1>1, <1>2, <1>4 DEF Height
<1> QED BY <1>1, <1>2, <1>3, <1>4, <1>5 DEF Height, Upto

\* What the node checked when it connected block h of a branch.
LEMMA BlockAccepted ==
  ASSUME NEW c \in Branch, NEW h \in 1..Height(c)
  PROVE  /\ Upto(c, h) \in Branch /\ Upto(c, h - 1) \in Branch
         /\ Upto(c, h) # << >>
         /\ Tip(Upto(c, h)) = c[h] /\ Parent(Upto(c, h)) = Upto(c, h - 1)
         /\ c[h] \in Blocks
         /\ Accepted(Ledger[Upto(c, h - 1)], Upto(c, h - 1), c[h])
         /\ Ledger[Upto(c, h)] = Applied(Ledger[Upto(c, h - 1)], c[h].txs, c[h].coinbase)
<1>1. h \in 0..Height(c) /\ h - 1 \in 0..Height(c) /\ h - 1 \in 0..h /\ h \in 1..h
  BY Ancestor
<1>2. /\ Upto(c, h) \in Branch /\ Upto(c, h - 1) \in Branch /\ Height(Upto(c, h)) = h
      /\ Upto(c, h)[h] = c[h] /\ Upto(Upto(c, h), h - 1) = Upto(c, h - 1)
      /\ c \in Seq(Blocks)
  BY <1>1, Ancestor
<1>3. Upto(c, h) # << >>
  BY <1>1, <1>2 DEF Height
<1>4. Tip(Upto(c, h)) = c[h] /\ Parent(Upto(c, h)) = Upto(c, h - 1)
  BY <1>2 DEF Tip, Parent
<1>5. c[h] \in Blocks
  BY <1>2 DEF Height
<1> QED BY <1>2, <1>3, <1>4, <1>5, BranchAssumption

\* A txid appears in one block of a branch only.
LEMMA TxidsApart ==
  ASSUME NEW c \in Branch, NEW i \in 1..Height(c), NEW j \in 1..Height(c), NEW t,
         t \in TxidsOf(c[i]), t \in TxidsOf(c[j])
  PROVE  i = j
<1>1. ASSUME NEW k \in 1..Height(c), NEW l \in 1..Height(c), k < l
      PROVE  TxidsOf(c[k]) \cap TxidsOf(c[l]) = {}
  <2>1. Accepted(Ledger[Upto(c, l - 1)], Upto(c, l - 1), c[l])
    BY BlockAccepted
  <2>2. l - 1 \in 0..Height(c) /\ k \in 1..(l - 1)
    BY <1>1, Ancestor
  <2>3. Height(Upto(c, l - 1)) = l - 1 /\ Upto(c, l - 1)[k] = c[k]
    BY <2>2, Ancestor
  <2> QED BY <2>1, <2>2, <2>3 DEF Accepted
<1>2. ~ (i < j) /\ ~ (j < i)
  BY <1>1
<1> QED BY <1>2

-----------------------------------------------------------------------------
(* Outputs and their creators.                                             *)

LEMMA OutputCreator ==
  ASSUME NEW b \in Blocks, NEW op \in OutputsOf(b)
  PROVE  TxidOf(op) \in TxidsOf(b)
<1>1. CASE op = CoinbaseOutput(b.coinbase)
  BY <1>1 DEF CoinbaseOutput, TxidOf, TxidsOf
<1>2. CASE op \in OutsOf(b.txs)
  <2>1. PICK i \in 1..Len(b.txs) : op \in Outputs(b.txs[i])
    BY <1>2 DEF OutsOf
  <2>2. b.txs \in Seq(Tx) /\ b.txs[i] \in Tx
    BY DEF Blocks
  <2>3. TxidOf(op) = b.txs[i]
    BY <2>1, <2>2, OutputsType
  <2> QED BY <2>3 DEF TxidsOf, TxsOf
<1> QED BY <1>1, <1>2 DEF OutputsOf

HasCreator(c, op) == \E i \in 1..Height(c) : TxidOf(op) \in TxidsOf(c[i])

\* Every row of the UTXO table was created by a block of the branch.
LEMMA LedgerCreators ==
  ASSUME NEW c \in Branch, NEW op \in Ledger[c]
  PROVE  HasCreator(c, op)
<1> DEFINE Bad == { n \in Nat : \E d \in Branch : Height(d) = n
                                  /\ \E x \in Ledger[d] : ~ HasCreator(d, x) }
<1>1. Bad = {}
  <2>1. SUFFICES ASSUME Bad # {} PROVE FALSE
    OBVIOUS
  <2>2. PICK n \in Bad : \A k \in Bad : n <= k
    <3>1. Bad \subseteq Nat
      OBVIOUS
    <3> HIDE DEF Bad
    <3> QED BY <2>1, <3>1, Worth!LeastElement
  <2>3. PICK d \in Branch : Height(d) = n /\ \E x \in Ledger[d] : ~ HasCreator(d, x)
    OBVIOUS
  <2>13. PICK x \in Ledger[d] : ~ HasCreator(d, x)
    BY <2>3
  <2>4. d # << >> /\ n > 0
    <3>1. d # << >>
      BY <2>3, BranchAssumption
    <3>2. d \in Seq(Blocks)
      BY BranchAssumption DEF Blocks
    <3> QED BY <2>3, <3>1, <3>2 DEF Height
  <2>5. n \in 1..Height(d) /\ n - 1 \in 0..Height(d) /\ n \in 0..Height(d)
    BY <2>3, <2>4
  <2>6. Upto(d, n) = d
    <3>1. d \in Seq(Blocks) /\ Len(d) = n
      BY <2>3, BranchAssumption DEF Blocks, Height
    <3> QED BY <3>1 DEF Upto
  <2>7. /\ Upto(d, n - 1) \in Branch /\ d[n] \in Blocks
        /\ Ledger[d] = Applied(Ledger[Upto(d, n - 1)], d[n].txs, d[n].coinbase)
    BY <2>5, <2>6, BlockAccepted
  <2>8. x \notin OutputsOf(d[n])
    BY <2>13, <2>5, <2>7, OutputCreator DEF HasCreator
  <2>9. x \in Ledger[Upto(d, n - 1)]
    BY <2>13, <2>7, <2>8 DEF Applied, Created, OutputsOf
  <2>10. Height(Upto(d, n - 1)) = n - 1 /\ \A i \in 1..(n - 1) : Upto(d, n - 1)[i] = d[i]
    BY <2>5, Ancestor
  <2>11. ~ HasCreator(Upto(d, n - 1), x)
    <3>1. ASSUME NEW i \in 1..(n - 1), TxidOf(x) \in TxidsOf(Upto(d, n - 1)[i])
          PROVE  FALSE
      <4>1. Upto(d, n - 1)[i] = d[i]
        BY <2>10
      <4>2. i \in 1..Height(d)
        BY <2>3, <2>4
      <4>3. TxidOf(x) \in TxidsOf(d[i])
        BY <3>1, <4>1
      <4> QED BY <2>13, <4>2, <4>3 DEF HasCreator
    <3> QED BY <2>10, <3>1 DEF HasCreator
  <2>12. n - 1 \in Bad
    BY <2>7, <2>9, <2>10, <2>11, <2>4
  <2> QED BY <2>2, <2>12
<1>2. Height(c) \in Nat
  BY BranchAssumption DEF Height
<1>3. ASSUME ~ HasCreator(c, op) PROVE FALSE
  <2>1. \E x \in Ledger[c] : ~ HasCreator(c, x)
    BY <1>3
  <2>2. \E d \in Branch : Height(d) = Height(c) /\ \E x \in Ledger[d] : ~ HasCreator(d, x)
    BY <2>1
  <2>3. Height(c) \in Bad
    BY <1>2, <2>2
  <2> QED BY <1>1, <2>3
<1> QED BY <1>3

External(b) == InsOf(b.txs) \ OutsOf(b.txs)

\* An input of block h was unspent before it, or is created inside it.
LEMMA InputOrigin ==
  ASSUME NEW c \in Branch, NEW h \in 1..Height(c), NEW op \in InsOf(c[h].txs),
         op \notin OutsOf(c[h].txs)
  PROVE  op \in Ledger[Upto(c, h - 1)]
<1>1. /\ c[h].txs \in Seq(Tx)
      /\ Connects(Ledger[Upto(c, h - 1)], Height(Upto(c, h - 1)) + 1, c[h].txs)
  BY BlockAccepted DEF Blocks, Accepted
<1>2. Height(Upto(c, h - 1)) + 1 \in Nat
  <2>1. h - 1 \in 0..Height(c)
    BY Ancestor
  <2> QED BY <2>1, Ancestor
<1>3. PICK i \in 1..Len(c[h].txs) : op \in TxIn[c[h].txs[i]]
  BY DEF InsOf
<1>4. op \in Ledger[Upto(c, h - 1)] \/ \E j \in 1..(i - 1) : op \in Outputs(c[h].txs[j])
  BY <1>1, <1>2, <1>3, ConnectedInput
<1>5. \A j \in 1..(i - 1) : j \in 1..Len(c[h].txs)
  BY <1>1, <1>3
<1> QED BY <1>4, <1>5 DEF OutsOf

\* An unspent output before block h is created below h; it is no output of h.
LEMMA OlderCreator ==
  ASSUME NEW c \in Branch, NEW h \in 1..Height(c), NEW op \in Ledger[Upto(c, h - 1)]
  PROVE  /\ \E i \in 1..Height(c) : i < h /\ TxidOf(op) \in TxidsOf(c[i])
         /\ op \notin OutputsOf(c[h])
<1>1. h - 1 \in 0..Height(c) /\ Upto(c, h - 1) \in Branch /\ Height(c) \in Nat
  BY Ancestor
<1>2. /\ Height(Upto(c, h - 1)) = h - 1
      /\ \A i \in 1..(h - 1) : Upto(c, h - 1)[i] = c[i]
  BY <1>1, Ancestor
<1>3. PICK i \in 1..(h - 1) : TxidOf(op) \in TxidsOf(c[i])
  BY <1>1, <1>2, LedgerCreators DEF HasCreator
<1>4. i \in 1..Height(c) /\ i < h
  BY <1>1
<1>5. TxidOf(op) \notin TxidsOf(c[h])
  BY <1>3, <1>4, TxidsApart
<1>6. op \notin OutputsOf(c[h])
  <2>1. c[h] \in Blocks
    BY BlockAccepted
  <2> QED BY <1>5, <2>1, OutputCreator
<1> QED BY <1>3, <1>4, <1>6

\* The lookup of a creator tells the outputs of the block from older ones.
LEMMA CreatorTells ==
  ASSUME NEW c \in Branch, NEW h \in 1..Height(c), NEW op \in InsOf(c[h].txs),
         NEW i \in Creators(c, op)
  PROVE  Restorable(h, i) <=> op \in External(c[h])
<1>1. i \in 1..Height(c) /\ TxidOf(op) \in TxidsOf(c[i])
  BY DEF Creators
<1>2. CASE op \in OutsOf(c[h].txs)
  <2>1. c[h] \in Blocks
    BY BlockAccepted
  <2>2. TxidOf(op) \in TxidsOf(c[h])
    BY <1>2, <2>1, OutputCreator DEF OutputsOf
  <2>3. i = h
    BY <1>1, <2>2, TxidsApart
  <2> QED BY <1>2, <2>3 DEF Restorable, External
<1>3. CASE op \notin OutsOf(c[h].txs)
  <2>1. op \in Ledger[Upto(c, h - 1)]
    BY <1>3, InputOrigin
  <2>2. PICK j \in 1..Height(c) : j < h /\ TxidOf(op) \in TxidsOf(c[j])
    BY <2>1, OlderCreator
  <2>3. i = j
    BY <1>1, <2>2, TxidsApart
  <2> QED BY <1>3, <2>2, <2>3 DEF Restorable, External
<1> QED BY <1>2, <1>3

-----------------------------------------------------------------------------
(* Undoing a block.                                                        *)

RightRow(row) ==
  /\ row.block \in Branch \ {<< >>}
  /\ row.created = OutputsOf(Tip(row.block))
  /\ row.restore = External(Tip(row.block))

\* A row with the outputs of the block and its external inputs takes the UTXO
\* table back to the one before the block.
THEOREM UndoInvertsConnect ==
  ASSUME NEW row, RightRow(row)
  PROVE  Restores(row)
<1> DEFINE c == row.block
           h == Height(c)
           U == Ledger[Parent(c)]
<1>1. c \in Branch /\ h \in 1..Height(c) /\ Upto(c, h) = c
  <2>1. c \in Branch /\ c # << >> /\ c \in Seq(Blocks)
    BY BranchAssumption DEF RightRow, Blocks
  <2> QED BY <2>1 DEF Height, Upto
<1>2. Tip(c) = c[h] /\ Parent(c) = Upto(c, h - 1)
  BY DEF Tip, Parent
<1>3. Ledger[c] = Applied(U, Tip(c).txs, Tip(c).coinbase)
  BY <1>1, <1>2, BlockAccepted
<1>4. External(Tip(c)) \subseteq U
  BY <1>1, <1>2, InputOrigin DEF External
<1>5. U \cap OutputsOf(Tip(c)) = {}
  BY <1>1, <1>2, OlderCreator
<1>6. Ledger[c] = (U \ External(Tip(c)))
                    \cup (OutsOf(Tip(c).txs) \ InsOf(Tip(c).txs))
                    \cup {CoinbaseOutput(Tip(c).coinbase)}
  BY <1>3 DEF Applied, Spent, Created, External
<1>7. (Ledger[c] \ OutputsOf(Tip(c))) \cup External(Tip(c)) = U
  BY <1>4, <1>5, <1>6 DEF OutputsOf
<1> QED BY <1>7 DEF Restores, Undone, RightRow

\* The row built on a chain that stands still is such a row.
LEMMA BuiltRight ==
  ASSUME NEW c \in Branch, NEW h \in 1..Height(c)
  PROVE  RightRow(BuiltRow(c, h)) /\ BuiltRow(c, h).block = Upto(c, h)
<1>1. Upto(c, h) \in Branch \ {<< >>} /\ Tip(Upto(c, h)) = c[h]
  BY BlockAccepted
<1>2. ASSUME NEW op \in InsOf(c[h].txs)
      PROVE  (\E i \in Creators(c, op) : Restorable(h, i)) <=> op \in External(c[h])
  <2>1. ASSUME op \in External(c[h]) PROVE Creators(c, op) # {}
    <3>1. op \in Ledger[Upto(c, h - 1)]
      BY <2>1, InputOrigin DEF External
    <3> QED BY <3>1, OlderCreator DEF Creators
  <2> QED BY <2>1, CreatorTells
<1>3. { op \in InsOf(c[h].txs) : \E i \in Creators(c, op) : Restorable(h, i) }
        = External(c[h])
  BY <1>2 DEF External
<1> QED BY <1>1, <1>3 DEF BuiltRow, Row, RightRow

-----------------------------------------------------------------------------
(* The inductive invariant.                                                *)

Rows == [block : Branch \ {<< >>}, created : SUBSET Outpoint,
         restore : SUBSET Outpoint, torn : BOOLEAN]

Journals == UNION { [H -> Rows] : H \in SUBSET Nat }

JournalFrames ==
  [kind : JournalKinds, pc : {"next", "build", "inputs", "done"}, todo : SUBSET (Nat \ {0}),
   block : Branch, inputs : SUBSET Outpoint, restore : SUBSET Outpoint,
   torn : BOOLEAN, moved : BOOLEAN, rows : Journals, bad : BOOLEAN]

RehearsalFrames ==
  [kind : {"rehearse"}, pc : {"read", "copied", "verified", "refused", "done"},
   n : Nat, end : Nat, blocks : Seq(Blocks), copy : Branch, rows : Journals, working : Branch,
   utxos : { Ledger[c] : c \in Branch }, moved : BOOLEAN, passed : BOOLEAN]

\* A row undoes the block of its height, unless it was torn.
RowsInv(j) ==
  \A h \in DOMAIN j :
    /\ Height(j[h].block) = h
    /\ j[h].created = OutputsOf(Tip(j[h].block))
    /\ ~ j[h].torn => j[h].restore = External(Tip(j[h].block))

\* As long as no reorganization tore it, a row under construction is that of a
\* block of the chain, up to the inputs not looked up yet; and what verify has
\* gone over without complaint is right.
JournalFrameInv(f, c) ==
  /\ f.torn => f.moved
  /\ (f.pc = "inputs") => (f.block # << >>)
  /\ (f.pc = "inputs" /\ ~ f.torn) =>
        /\ Prolongs(c, f.block)
        /\ f.inputs \subseteq InsOf(Tip(f.block).txs)
        /\ f.restore = External(Tip(f.block)) \ f.inputs
  /\ (f.kind = "verify") =>
        /\ RowsInv(f.rows)
        /\ (f.pc = "done") => (f.todo = {})
        /\ (~ f.bad /\ ~ f.moved) =>
              \A h \in DOMAIN f.rows \ f.todo : RightRow(f.rows[h])

\* The copy is disconnected block by block with rows that are those of its own
\* blocks; as long as the chain stood still it is a copy of the chain that was
\* read.
RehearsalFrameInv(f, c) ==
  /\ Prolongs(f.copy, f.working)
  /\ f.utxos = Ledger[f.working]
  /\ DOMAIN f.rows \subseteq Nat \ {0}
  /\ (f.pc = "verified") => \A h \in 1..Height(f.copy) : f.rows[h] = BuiltRow(f.copy, h)
  /\ (~ f.moved /\ f.pc = "read") => (f.end = Height(c) /\ Prolongs(c, f.blocks))
  /\ (~ f.moved /\ f.pc # "read") => (f.end = Height(f.copy) /\ f.blocks = f.copy)
  /\ (~ f.moved /\ f.pc = "done") => f.passed

FrameInv(f, c) ==
  \/ f = Idle
  \/ f \in JournalFrames /\ JournalFrameInv(f, c)
  \/ f \in RehearsalFrames /\ RehearsalFrameInv(f, c)

IInv ==
  /\ chain \in Branch
  /\ journal \in Journals /\ RowsInv(journal)
  /\ DOMAIN command = Operator /\ command = [o \in Operator |-> command[o]]
  /\ \A o \in Operator : FrameInv(command[o], chain)

LEMMA BlockTypes ==
  ASSUME NEW b \in Blocks
  PROVE  InsOf(b.txs) \subseteq Outpoint /\ OutputsOf(b) \subseteq Outpoint
<1>1. b.txs \in Seq(Tx) /\ b.coinbase \in Coinbase
  BY DEF Blocks
<1>2. \A i \in 1..Len(b.txs) : b.txs[i] \in Tx
  BY <1>1
<1>3. InsOf(b.txs) \subseteq Outpoint
  BY <1>2, TxAssumption DEF InsOf
<1>4. OutsOf(b.txs) \subseteq Outpoint
  BY <1>2, OutputsType DEF OutsOf
<1>5. CoinbaseOutput(b.coinbase) \in Outpoint
  BY <1>1 DEF CoinbaseOutput, Outpoint
<1> QED BY <1>3, <1>4, <1>5 DEF OutputsOf

\* The ancestors of an ancestor are ancestors.
LEMMA ProlongsTransitive ==
  ASSUME NEW c \in Branch, NEW d \in Branch, NEW b \in Branch,
         Prolongs(d, c), Prolongs(c, b)
  PROVE  Prolongs(d, b)
<1>1. /\ Height(c) \in Nat /\ Height(d) \in Nat /\ Height(b) \in Nat
      /\ Height(c) <= Height(d) /\ Height(b) <= Height(c)
      /\ Upto(d, Height(c)) = c /\ Upto(c, Height(b)) = b
  BY BranchAssumption DEF Prolongs, Height
<1>2. Height(c) \in 0..Height(d) /\ Height(b) \in 0..Height(c)
  BY <1>1
<1>3. Upto(Upto(d, Height(c)), Height(b)) = Upto(d, Height(b))
  BY <1>2, Ancestor
<1>4. Upto(d, Height(b)) = b
  BY <1>1, <1>3
<1>5. Height(b) <= Height(d)
  BY ONLY <1>1
<1> QED BY <1>4, <1>5 DEF Prolongs

\* A reorganization or a new block keeps what the frames say.
LEMMA DisturbedFrame ==
  ASSUME NEW c \in Branch, chain \in Branch, NEW f, FrameInv(f, chain)
  PROVE  FrameInv(Disturbed(f, c), c)
<1>1. CASE f = Idle
  BY <1>1 DEF FrameInv, Disturbed, Idle
<1>2. CASE f \in JournalFrames /\ JournalFrameInv(f, chain)
  <2>1. f.pc # "idle" /\ f.kind # "rehearse"
    BY <1>2 DEF JournalFrames, JournalKinds
  <2>2. CASE Prolongs(c, chain)
    <3>1. Disturbed(f, c) = f
      BY <2>1, <2>2 DEF Disturbed
    <3>2. f.block \in Branch
      BY <1>2 DEF JournalFrames
    <3>3. Prolongs(chain, f.block) => Prolongs(c, f.block)
      BY <2>2, <3>2, ProlongsTransitive
    <3>4. JournalFrameInv(f, c)
      BY <1>2, <3>3 DEF JournalFrameInv
    <3> QED BY <1>2, <3>1, <3>4 DEF FrameInv
  <2>3. CASE ~ Prolongs(c, chain)
    <3> DEFINE g == [f EXCEPT !.torn = TRUE, !.moved = TRUE]
    <3>1. Disturbed(f, c) = g
      BY <2>1, <2>3 DEF Disturbed
    <3>2. /\ g \in JournalFrames /\ g.torn = TRUE /\ g.moved = TRUE /\ g.pc = f.pc
          /\ g.kind = f.kind /\ g.block = f.block /\ g.rows = f.rows /\ g.todo = f.todo
      BY <1>2 DEF JournalFrames
    <3> HIDE DEF g
    <3>3. JournalFrameInv(g, c)
      BY <1>2, <3>2 DEF JournalFrameInv
    <3> QED BY <3>1, <3>2, <3>3 DEF FrameInv
  <2> QED BY <2>2, <2>3
<1>3. CASE f \in RehearsalFrames /\ RehearsalFrameInv(f, chain)
  <2> DEFINE g == [f EXCEPT !.moved = TRUE]
  <2>1. Disturbed(f, c) = IF f.pc = "read" THEN g ELSE f
    BY <1>3 DEF Disturbed, RehearsalFrames
  <2>2. /\ g \in RehearsalFrames /\ g.moved = TRUE /\ g.copy = f.copy /\ g.pc = f.pc
        /\ g.working = f.working /\ g.utxos = f.utxos /\ g.rows = f.rows
    BY <1>3 DEF RehearsalFrames
  <2> HIDE DEF g
  <2>3. RehearsalFrameInv(g, c)
    BY <1>3, <2>2 DEF RehearsalFrameInv
  <2>4. CASE f.pc # "read"
    <3>1. RehearsalFrameInv(f, c)
      BY <1>3, <2>4 DEF RehearsalFrameInv
    <3> QED BY <1>3, <2>1, <2>4, <3>1 DEF FrameInv
  <2> QED BY <2>1, <2>2, <2>3, <2>4 DEF FrameInv
<1> QED BY <1>1, <1>2, <1>3 DEF FrameInv

\* One command moved on, and nothing else changed.
LEMMA FrameChanged ==
  ASSUME IInv, NEW o \in Operator, NEW g, FrameInv(g, chain),
         command' = [command EXCEPT ![o] = g], chain' = chain,
         journal' \in Journals, RowsInv(journal')
  PROVE  IInv'
<1>1. DOMAIN command' = Operator /\ command' = [p \in Operator |-> command'[p]]
  BY DEF IInv
<1>2. \A p \in Operator : FrameInv(command'[p], chain)
  BY DEF IInv
<1> QED BY <1>1, <1>2 DEF IInv

LEMMA Stepped ==
  ASSUME IInv, NEW o \in Operator, NEW g, FrameInv(g, chain), Step(o, g)
  PROVE  IInv'
<1>1. /\ command' = [command EXCEPT ![o] = g] /\ chain' = chain /\ journal' = journal
      /\ journal \in Journals /\ RowsInv(journal)
  BY DEF Step, IInv
<1> QED BY <1>1, FrameChanged

LEMMA Started ==
  ASSUME IInv, NEW o \in Operator, NEW g, FrameInv(g, chain), Start(o, g)
  PROVE  IInv'
<1>1. /\ command' = [command EXCEPT ![o] = g] /\ chain' = chain /\ journal' = journal
      /\ journal \in Journals /\ RowsInv(journal)
  BY DEF Start, IInv
<1> QED BY <1>1, FrameChanged

LEMMA ActivateInv ==
  ASSUME IInv, NEW c \in Branch, Activate(c)
  PROVE  IInv'
<1>1. /\ chain' = c /\ journal' = journal
      /\ command' = [o \in Operator |-> Disturbed(command[o], c)]
  BY DEF Activate
<1>2. \A o \in Operator : FrameInv(Disturbed(command[o], c), c)
  BY DisturbedFrame DEF IInv
<1> QED BY <1>1, <1>2 DEF IInv

-----------------------------------------------------------------------------
(* backfill and verify.                                                    *)

\* Where a command is tells what its frame is.
LEMMA AtJournal ==
  ASSUME IInv, NEW o \in Operator, NEW pc, At(o, JournalKinds, pc)
  PROVE  /\ command[o] \in JournalFrames /\ JournalFrameInv(command[o], chain)
         /\ command[o].pc = pc
BY DEF IInv, FrameInv, At, Idle, RehearsalFrames, JournalKinds

LEMMA AtRehearsal ==
  ASSUME IInv, NEW o \in Operator, NEW pc, At(o, {"rehearse"}, pc)
  PROVE  /\ command[o] \in RehearsalFrames /\ RehearsalFrameInv(command[o], chain)
         /\ command[o].pc = pc
BY DEF IInv, FrameInv, At, Idle, JournalFrames, JournalKinds

LEMMA EmptyRows == << >> \in Journals /\ RowsInv(<< >>)
<1>1. << >> \in [{} -> Rows] /\ {} \in SUBSET Nat
  OBVIOUS
<1>2. DOMAIN << >> = {}
  OBVIOUS
<1> QED BY <1>1, <1>2 DEF Journals, RowsInv

LEMMA RowsHeights ==
  ASSUME NEW j \in Journals, RowsInv(j)
  PROVE  /\ DOMAIN j \subseteq Nat \ {0} /\ j \in [DOMAIN j -> Rows]
         /\ \A h \in DOMAIN j : j[h] \in Rows
<1>1. DOMAIN j \subseteq Nat /\ j \in [DOMAIN j -> Rows]
  BY DEF Journals
<1>2. ASSUME NEW h \in DOMAIN j PROVE h # 0
  <2>1. j[h].block \in Branch /\ j[h].block # << >> /\ Height(j[h].block) = h
    BY <1>1 DEF Rows, RowsInv
  <2>2. j[h].block \in Seq(Blocks)
    BY <2>1, BranchAssumption DEF Blocks
  <2> QED BY <2>1, <2>2 DEF Height
<1> QED BY <1>1, <1>2

LEMMA BackfillInv ==
  ASSUME IInv, NEW o \in Operator, NEW start \in 1..Height(chain), Backfill(o, start)
  PROVE  IInv'
<1> DEFINE g == JournalFrame("backfill", start..Height(chain), << >>)
<1>1. g \in JournalFrames
  <2>1. Height(chain) \in Nat /\ start..Height(chain) \subseteq Nat \ {0} /\ << >> \in Branch
    BY BranchAssumption DEF IInv, Height
  <2> QED BY <2>1, EmptyRows DEF JournalFrame, JournalFrames, JournalKinds
<1>2. g.torn = FALSE /\ g.pc = "next" /\ g.kind = "backfill"
  BY DEF JournalFrame
<1>3. Start(o, g)
  BY DEF Backfill
<1> HIDE DEF g
<1>4. FrameInv(g, chain)
  BY <1>1, <1>2 DEF JournalFrameInv, FrameInv
<1> QED BY <1>3, <1>4, Started

LEMMA VerifyInv ==
  ASSUME IInv, NEW o \in Operator, Verify(o)
  PROVE  IInv'
<1> DEFINE g == JournalFrame("verify", DOMAIN journal, journal)
<1>1. g \in JournalFrames
  <2>1. << >> \in Branch /\ journal \in Journals /\ DOMAIN journal \in SUBSET (Nat \ {0})
    BY BranchAssumption, RowsHeights DEF IInv
  <2> QED BY <2>1 DEF JournalFrame, JournalFrames, JournalKinds
<1>2. /\ g.torn = FALSE /\ g.pc = "next" /\ g.kind = "verify" /\ g.rows = journal
      /\ g.todo = DOMAIN journal
  BY DEF JournalFrame
<1>3. Start(o, g)
  BY DEF Verify
<1> HIDE DEF g
<1>4. FrameInv(g, chain)
  BY <1>1, <1>2 DEF JournalFrameInv, FrameInv, IInv
<1> QED BY <1>3, <1>4, Started

LEMMA CheckRowInv ==
  ASSUME IInv, NEW o \in Operator, CheckRow(o)
  PROVE  IInv'
<1> DEFINE f == command[o]
<1>1. At(o, JournalKinds, "next")
  BY DEF CheckRow, At, JournalKinds
<1>2. f \in JournalFrames /\ JournalFrameInv(f, chain) /\ f.pc = "next"
  BY <1>1, AtJournal
<1> DEFINE g == [f EXCEPT !.pc = "build"]
           r(h) == [f EXCEPT !.todo = @ \ {h}, !.bad = TRUE]
<1>3. g \in JournalFrames /\ g.pc = "build" /\ g.kind = f.kind /\ g.torn = f.torn
      /\ g.moved = f.moved /\ g.rows = f.rows /\ g.todo = f.todo /\ g.bad = f.bad
  BY <1>2 DEF JournalFrames
<1>4. ASSUME NEW h PROVE FrameInv(r(h), chain)
  <2> DEFINE k == r(h)
  <2>1. k \in JournalFrames /\ k.pc = "next" /\ k.kind = f.kind /\ k.torn = f.torn
        /\ k.moved = f.moved /\ k.rows = f.rows /\ k.bad = TRUE
    BY <1>2 DEF JournalFrames
  <2> HIDE DEF k, f
  <2>2. JournalFrameInv(k, chain)
    BY <1>2, <2>1 DEF JournalFrameInv
  <2> QED BY <2>1, <2>2 DEF FrameInv, k
<1>5. FrameInv(g, chain)
  <2> HIDE DEF g, f
  <2> QED BY <1>2, <1>3 DEF FrameInv, JournalFrameInv
<1>6. Step(o, g) \/ \E h \in f.todo : Step(o, r(h))
  BY DEF CheckRow
<1> HIDE DEF g, r
<1> QED BY <1>4, <1>5, <1>6, Stepped

LEMMA StopInv ==
  ASSUME IInv, NEW o \in Operator, Stop(o)
  PROVE  IInv'
<1>1. FrameInv(Idle, chain)
  BY DEF FrameInv
<1> QED BY <1>1, Stepped DEF Stop

LEMMA ReadBlockInv ==
  ASSUME IInv, NEW o \in Operator, ReadBlock(o)
  PROVE  IInv'
<1> DEFINE f == command[o]
<1>1. PICK pc : At(o, JournalKinds, pc) /\ pc # "done"
  BY DEF ReadBlock, At, JournalKinds
<1>2. f \in JournalFrames /\ JournalFrameInv(f, chain)
  BY <1>1, AtJournal
<1>3. PICK h \in f.todo :
        /\ h <= Height(chain)
        /\ Step(o, [f EXCEPT !.pc = "inputs", !.block = Upto(chain, h),
                             !.inputs = InsOf(chain[h].txs), !.restore = {},
                             !.torn = FALSE])
  BY DEF ReadBlock, Due
<1>4. chain \in Branch /\ h \in 1..Height(chain)
  <2>1. chain \in Branch /\ Height(chain) \in Nat /\ h \in Nat \ {0}
    BY <1>2, BranchAssumption DEF IInv, JournalFrames, Height
  <2> QED BY <1>3, <2>1
<1> DEFINE c == Upto(chain, h)
           ins == InsOf(chain[h].txs)
<1>5. /\ c \in Branch /\ c # << >> /\ Tip(c) = chain[h] /\ chain[h] \in Blocks
      /\ ins \in SUBSET Outpoint
  BY <1>4, BlockAccepted, BlockTypes
<1>6. Prolongs(chain, c)
  <2>1. h \in 0..Height(chain)
    BY <1>4
  <2>2. Height(c) = h
    BY <1>4, <2>1, Ancestor
  <2> QED BY <1>3, <2>2 DEF Prolongs
<1> DEFINE g == [f EXCEPT !.pc = "inputs", !.block = c, !.inputs = ins, !.restore = {},
                          !.torn = FALSE]
<1>7. Step(o, g)
  BY <1>3
<1> HIDE DEF c
<1>8. ins = InsOf(Tip(c).txs)
  BY <1>5
<1> HIDE DEF ins
<1>9. /\ g \in JournalFrames /\ g.pc = "inputs" /\ g.block = c /\ g.inputs = ins
      /\ g.restore = {} /\ g.torn = FALSE /\ g.kind = f.kind /\ g.moved = f.moved
      /\ g.rows = f.rows /\ g.todo = f.todo /\ g.bad = f.bad
  BY <1>2, <1>5 DEF JournalFrames
<1> HIDE DEF g, f
<1>10. External(Tip(c)) \ ins = {}
  BY <1>8 DEF External
<1>11. JournalFrameInv(g, chain)
  BY <1>2, <1>5, <1>6, <1>8, <1>9, <1>10 DEF JournalFrameInv
<1>12. FrameInv(g, chain)
  BY <1>9, <1>11 DEF FrameInv
<1> QED BY <1>7, <1>12, Stepped

LEMMA ReadCreatorInv ==
  ASSUME IInv, NEW o \in Operator, ReadCreator(o)
  PROVE  IInv'
<1> DEFINE f == command[o]
           h == Height(f.block)
<1>1. At(o, JournalKinds, "inputs")
  BY DEF ReadCreator
<1>2. f \in JournalFrames /\ JournalFrameInv(f, chain) /\ f.pc = "inputs"
  BY <1>1, AtJournal
<1>3. PICK op \in f.inputs \cap PlainInsOf(Tip(f.block).txs) : \E k \in Creators(chain, op) :
        Step(o, [f EXCEPT !.inputs = @ \ {op},
                          !.restore = IF Restorable(h, k) THEN @ \cup {op} ELSE @])
  BY DEF ReadCreator
<1>4. PICK i \in Creators(chain, op) :
        Step(o, [f EXCEPT !.inputs = @ \ {op},
                          !.restore = IF Restorable(h, i) THEN @ \cup {op} ELSE @])
  BY <1>3
<1> DEFINE restore == IF Restorable(h, i) THEN f.restore \cup {op} ELSE f.restore
           g == [f EXCEPT !.inputs = f.inputs \ {op}, !.restore = restore]
<1>5. Step(o, g)
  BY <1>4
<1>6. /\ f.inputs \in SUBSET Outpoint /\ f.restore \in SUBSET Outpoint
      /\ op \in Outpoint /\ f.block \in Branch
  BY <1>2, <1>3 DEF JournalFrames
<1>7. restore \in SUBSET Outpoint
  BY <1>6
<1>8. ASSUME ~ f.torn
      PROVE  restore = External(Tip(f.block)) \ (f.inputs \ {op})
  <2>1. /\ f.block # << >> /\ Prolongs(chain, f.block)
        /\ f.inputs \subseteq InsOf(Tip(f.block).txs)
        /\ f.restore = External(Tip(f.block)) \ f.inputs
    BY <1>2, <1>8 DEF JournalFrameInv
  <2>2. chain \in Branch /\ h \in 1..Height(chain) /\ Upto(chain, h) = f.block
    <3>1. /\ chain \in Branch /\ f.block \in Branch
          /\ Height(chain) \in Nat /\ h \in Nat \ {0}
      BY <1>6, <2>1, BranchAssumption DEF IInv, Height
    <3> QED BY <2>1, <3>1 DEF Prolongs
  <2>3. Tip(f.block) = chain[h]
    BY <2>2, BlockAccepted
  <2>4. Restorable(h, i) <=> op \in External(Tip(f.block))
    BY <1>3, <1>4, <2>1, <2>2, <2>3, CreatorTells
  <2> QED BY <1>3, <2>1, <2>4
<1> HIDE DEF restore
<1>9. /\ g \in JournalFrames /\ g.pc = "inputs" /\ g.block = f.block
      /\ g.inputs = f.inputs \ {op} /\ g.restore = restore
      /\ g.torn = f.torn /\ g.kind = f.kind /\ g.moved = f.moved
      /\ g.rows = f.rows /\ g.todo = f.todo /\ g.bad = f.bad
  BY <1>2, <1>6, <1>7 DEF JournalFrames
<1> HIDE DEF g, f
<1>10. JournalFrameInv(g, chain)
  BY <1>2, <1>8, <1>9 DEF JournalFrameInv
<1>11. FrameInv(g, chain)
  BY <1>9, <1>10 DEF FrameInv
<1> QED BY <1>5, <1>11, Stepped

LEMMA InsertRowInv ==
  ASSUME IInv, NEW o \in Operator, InsertRow(o)
  PROVE  IInv'
<1> DEFINE f == command[o]
           h == Height(f.block)
           row == Row(f.block, f.restore, f.torn)
           bad == f.bad \/ (f.kind = "verify" /\ Differs(f, row))
           g == [f EXCEPT !.pc = "next", !.todo = f.todo \ {h}, !.bad = bad]
<1>1. At(o, JournalKinds, "inputs") /\ f.inputs = {}
  BY DEF InsertRow
<1>2. f \in JournalFrames /\ JournalFrameInv(f, chain) /\ f.pc = "inputs"
  BY <1>1, AtJournal
<1>3. /\ journal' = [i \in DOMAIN journal \cup {h} |-> IF i = h THEN row ELSE journal[i]]
      /\ command' = [command EXCEPT ![o] = g] /\ chain' = chain
  BY DEF InsertRow
<1>4. /\ f.block \in Branch \ {<< >>} /\ f.restore \in SUBSET Outpoint
      /\ f.torn \in BOOLEAN /\ f.bad \in BOOLEAN /\ f.todo \in SUBSET (Nat \ {0})
      /\ h \in Nat
  <2>1. f.block \in Branch /\ f.block # << >>
    BY <1>2 DEF JournalFrames, JournalFrameInv
  <2>2. h \in Nat
    BY <2>1, BranchAssumption DEF Height
  <2> QED BY <1>2, <2>1, <2>2 DEF JournalFrames
<1>5. /\ row.block = f.block /\ row.created = OutputsOf(Tip(f.block))
      /\ row.restore = f.restore /\ row.torn = f.torn
  BY DEF Row
<1>6. ~ f.torn => f.restore = External(Tip(f.block))
  BY <1>1, <1>2 DEF JournalFrameInv
<1>7. row \in Rows
  <2>1. OutputsOf(Tip(f.block)) \in SUBSET Outpoint
    <3>1. h \in 1..Height(f.block) /\ Upto(f.block, h) = f.block
      <4>1. f.block \in Seq(Blocks)
        BY <1>4, BranchAssumption DEF Blocks
      <4> QED BY <1>4, <4>1 DEF Height, Upto
    <3>2. Tip(f.block) \in Blocks
      BY <1>4, <3>1, BlockAccepted
    <3> QED BY <3>2, BlockTypes
  <2> QED BY <1>4, <2>1 DEF Row, Rows
<1> HIDE DEF row, f
<1>8. journal' \in Journals /\ RowsInv(journal')
  <2>1. journal \in [DOMAIN journal -> Rows] /\ DOMAIN journal \subseteq Nat /\ RowsInv(journal)
    BY RowsHeights DEF IInv
  <2>2. journal' \in [DOMAIN journal \cup {h} -> Rows]
    BY <1>3, <1>7, <2>1
  <2>3. DOMAIN journal \cup {h} \in SUBSET Nat
    BY <1>4, <2>1
  <2>4. journal' \in Journals
    BY <2>2, <2>3 DEF Journals
  <2>5. RowsInv(journal')
    BY <1>3, <1>5, <1>6, <2>1 DEF RowsInv
  <2> QED BY <2>4, <2>5
<1>9. bad \in BOOLEAN
  BY <1>4
<1>10. f.todo \ {h} \in SUBSET (Nat \ {0})
  BY <1>4
<1>11. (f.kind = "verify" /\ ~ bad) =>
         (row.block = f.rows[h].block /\ row.restore = f.rows[h].restore)
  BY <1>5 DEF Differs
<1>12. (f.kind = "verify" /\ ~ f.bad /\ ~ f.moved) =>
           \A k \in DOMAIN f.rows \ f.todo : RightRow(f.rows[k])
  BY <1>2 DEF JournalFrameInv
<1>13. ASSUME f.kind = "verify", ~ bad, ~ f.moved, NEW k \in DOMAIN f.rows \ (f.todo \ {h})
       PROVE  RightRow(f.rows[k])
  <2>1. CASE k = h
    <3>1. ~ f.torn /\ RowsInv(f.rows) /\ k \in DOMAIN f.rows
      BY <1>2, <1>13 DEF JournalFrameInv
    <3>2. f.rows[k].created = OutputsOf(Tip(f.rows[k].block))
      BY <3>1 DEF RowsInv
    <3>3. f.rows[k].block = f.block /\ f.rows[k].restore = External(Tip(f.block))
      BY <1>5, <1>6, <1>11, <1>13, <2>1, <3>1
    <3> QED BY <1>4, <3>2, <3>3 DEF RightRow
  <2>2. CASE k # h
    BY <1>12, <1>13, <2>2
  <2> QED BY <2>1, <2>2
<1> HIDE DEF bad, h
<1>14. /\ g \in JournalFrames /\ g.pc = "next" /\ g.todo = f.todo \ {h} /\ g.bad = bad
       /\ g.torn = f.torn /\ g.kind = f.kind /\ g.moved = f.moved /\ g.rows = f.rows
  BY <1>2, <1>9, <1>10 DEF JournalFrames
<1> HIDE DEF g
<1>15. JournalFrameInv(g, chain)
  BY <1>2, <1>13, <1>14 DEF JournalFrameInv
<1>16. FrameInv(g, chain)
  BY <1>14, <1>15 DEF FrameInv
<1> QED BY <1>3, <1>8, <1>16, FrameChanged

LEMMA FinishInv ==
  ASSUME IInv, NEW o \in Operator, Finish(o)
  PROVE  IInv'
<1> DEFINE f == command[o]
           g == [f EXCEPT !.pc = "done"]
<1>1. At(o, JournalKinds, "next") /\ f.todo = {}
  BY DEF Finish
<1>2. f \in JournalFrames /\ JournalFrameInv(f, chain) /\ f.pc = "next"
  BY <1>1, AtJournal
<1>3. Step(o, g) \/ Step(o, Idle)
  BY DEF Finish
<1>4. /\ g \in JournalFrames /\ g.pc = "done" /\ g.todo = f.todo /\ g.bad = f.bad
      /\ g.torn = f.torn /\ g.kind = f.kind /\ g.moved = f.moved /\ g.rows = f.rows
  BY <1>2 DEF JournalFrames
<1> HIDE DEF g, f
<1>5. FrameInv(g, chain)
  BY <1>1, <1>2, <1>4 DEF JournalFrameInv, FrameInv
<1>6. FrameInv(Idle, chain)
  BY DEF FrameInv
<1> QED BY <1>3, <1>5, <1>6, Stepped

-----------------------------------------------------------------------------
(* The rehearsal.                                                          *)

LEMMA WholeBranch ==
  ASSUME NEW c \in Branch
  PROVE  /\ c \in Seq(Blocks) /\ Height(c) \in Nat
         /\ Upto(c, Height(c)) = c /\ Prolongs(c, c)
<1>1. c \in Seq(Blocks)
  BY BranchAssumption DEF Blocks
<1>2. Height(c) \in Nat /\ Upto(c, Height(c)) = c
  BY <1>1 DEF Height, Upto
<1> QED BY <1>1, <1>2 DEF Prolongs

LEMMA NextAncestor ==
  ASSUME NEW c \in Branch, NEW n \in Nat, n + 1 <= Height(c)
  PROVE  Append(Upto(c, n), c[n + 1]) = Upto(c, n + 1)
<1>1. c \in Seq(Blocks)
  BY BranchAssumption DEF Blocks
<1> QED BY <1>1 DEF Upto, Height

LEMMA RehearseInv ==
  ASSUME IInv, NEW o \in Operator, NEW n \in Disconnects, Rehearse(o, n)
  PROVE  IInv'
<1> DEFINE g == [kind |-> "rehearse", pc |-> "read", n |-> n, end |-> Height(chain),
                 blocks |-> << >>, copy |-> << >>, rows |-> << >>, working |-> << >>,
                 utxos |-> {}, moved |-> FALSE, passed |-> FALSE]
<1>1. /\ Start(o, g) /\ n \in Nat /\ << >> \in Branch /\ Ledger[<< >>] = {}
      /\ chain \in Branch
  BY BranchAssumption DEF Rehearse, IInv
<1>2. Height(chain) \in Nat /\ << >> \in Seq(Blocks)
  BY <1>1, WholeBranch
<1>3. \E c \in Branch : {} = Ledger[c]
  BY <1>1
<1>4. g \in RehearsalFrames /\ DOMAIN g.rows = {}
  BY <1>1, <1>2, <1>3, EmptyRows DEF RehearsalFrames
<1>5. Prolongs(<< >>, << >>) /\ Prolongs(chain, << >>)
  BY <1>2, <1>1 DEF Prolongs, Height, Upto
<1>6. RehearsalFrameInv(g, chain)
  BY <1>1, <1>4, <1>5 DEF RehearsalFrameInv
<1> HIDE DEF g
<1>7. FrameInv(g, chain)
  BY <1>4, <1>6 DEF FrameInv
<1> QED BY <1>1, <1>7, Started

LEMMA ReadOriginalInv ==
  ASSUME IInv, NEW o \in Operator, ReadOriginal(o)
  PROVE  IInv'
<1> DEFINE f == command[o]
           h == Height(f.blocks) + 1
           g == [f EXCEPT !.blocks = Append(f.blocks, chain[h])]
<1>1. At(o, {"rehearse"}, "read") /\ h <= Height(chain) /\ Step(o, g)
  BY DEF ReadOriginal
<1>2. f \in RehearsalFrames /\ RehearsalFrameInv(f, chain) /\ f.pc = "read"
  BY <1>1, AtRehearsal
<1>3. /\ chain \in Branch /\ Height(chain) \in Nat /\ f.blocks \in Seq(Blocks)
      /\ Height(f.blocks) \in Nat
  BY <1>2, WholeBranch DEF IInv, RehearsalFrames, Height
<1>4. chain[h] \in Blocks
  <2>1. h \in 1..Height(chain)
    BY <1>1, <1>3
  <2> QED BY <1>3, <2>1, BlockAccepted
<1> DEFINE blocks == Append(f.blocks, chain[h])
<1>5. blocks \in Seq(Blocks) /\ Height(blocks) = h
  BY <1>3, <1>4 DEF Height
<1>6. Prolongs(chain, f.blocks) => Prolongs(chain, blocks)
  <2>1. ASSUME Upto(chain, Height(f.blocks)) = f.blocks PROVE Upto(chain, h) = blocks
    BY <1>1, <1>3, <2>1, NextAncestor
  <2> QED BY <1>1, <1>5, <2>1 DEF Prolongs
<1> HIDE DEF blocks
<1>7. /\ g \in RehearsalFrames /\ g.pc = "read" /\ g.blocks = blocks /\ g.end = f.end
      /\ g.copy = f.copy /\ g.rows = f.rows /\ g.working = f.working /\ g.utxos = f.utxos
      /\ g.moved = f.moved
  BY <1>2, <1>5 DEF RehearsalFrames, blocks
<1> HIDE DEF g, f
<1>8. RehearsalFrameInv(g, chain)
  BY <1>2, <1>6, <1>7 DEF RehearsalFrameInv
<1>9. FrameInv(g, chain)
  BY <1>7, <1>8 DEF FrameInv
<1> QED BY <1>1, <1>9, Stepped

LEMMA CopyDatabaseInv ==
  ASSUME IInv, NEW o \in Operator, CopyDatabase(o)
  PROVE  IInv'
<1> DEFINE f == command[o]
           g == [f EXCEPT !.pc = "copied", !.copy = chain, !.rows = journal,
                          !.working = chain, !.utxos = Ledger[chain]]
<1>1. At(o, {"rehearse"}, "read") /\ Height(f.blocks) = f.end /\ Step(o, g)
  BY DEF CopyDatabase
<1>2. f \in RehearsalFrames /\ RehearsalFrameInv(f, chain) /\ f.pc = "read"
  BY <1>1, AtRehearsal
<1>3. /\ chain \in Branch /\ Upto(chain, Height(chain)) = chain /\ Prolongs(chain, chain)
      /\ journal \in Journals /\ DOMAIN journal \subseteq Nat \ {0}
  BY WholeBranch, RowsHeights DEF IInv
<1>4. /\ g \in RehearsalFrames /\ g.pc = "copied" /\ g.blocks = f.blocks /\ g.end = f.end
      /\ g.copy = chain /\ g.rows = journal /\ g.working = chain /\ g.utxos = Ledger[chain]
      /\ g.moved = f.moved
  BY <1>2, <1>3 DEF RehearsalFrames
<1>5. ~ f.moved => (f.blocks = chain /\ f.end = Height(chain))
  BY <1>1, <1>2, <1>3 DEF RehearsalFrameInv, Prolongs
<1> HIDE DEF g, f
<1>6. RehearsalFrameInv(g, chain)
  BY <1>3, <1>4, <1>5 DEF RehearsalFrameInv
<1>7. FrameInv(g, chain)
  BY <1>4, <1>6 DEF FrameInv
<1> QED BY <1>1, <1>7, Stepped

LEMMA BackfilledType ==
  ASSUME NEW c \in Branch, NEW rows \in Journals, DOMAIN rows \subseteq Nat \ {0}
  PROVE  /\ Backfilled(c, rows) \in Journals
         /\ DOMAIN Backfilled(c, rows) = DOMAIN rows \cup 1..Height(c)
         /\ \A h \in 1..Height(c) : Backfilled(c, rows)[h] = BuiltRow(c, h)
<1>1. ASSUME NEW h \in 1..Height(c) PROVE BuiltRow(c, h) \in Rows
  <2>1. Upto(c, h) \in Branch \ {<< >>} /\ Tip(Upto(c, h)) = c[h] /\ c[h] \in Blocks
    BY BlockAccepted
  <2>2. InsOf(c[h].txs) \subseteq Outpoint /\ OutputsOf(c[h]) \subseteq Outpoint
    BY <2>1, BlockTypes
  <2> QED BY <2>1, <2>2 DEF BuiltRow, Row, Rows
<1>2. rows \in [DOMAIN rows -> Rows]
  BY DEF Journals
<1>3. Height(c) \in Nat /\ DOMAIN rows \cup 1..Height(c) \in SUBSET Nat
  BY WholeBranch
<1>4. Backfilled(c, rows) \in [DOMAIN rows \cup 1..Height(c) -> Rows]
  BY <1>1, <1>2 DEF Backfilled
<1>5. Backfilled(c, rows) \in Journals
  BY <1>3, <1>4 DEF Journals
<1> QED BY <1>4, <1>5 DEF Backfilled

LEMMA PrepareJournalInv ==
  ASSUME IInv, NEW o \in Operator, PrepareJournal(o)
  PROVE  IInv'
<1> DEFINE f == command[o]
           rows == Backfilled(f.copy, f.rows)
           g == [f EXCEPT !.pc = "verified", !.rows = rows]
           k == [f EXCEPT !.pc = "refused"]
<1>1. At(o, {"rehearse"}, "copied") /\ (Step(o, g) \/ Step(o, k))
  BY DEF PrepareJournal
<1>2. f \in RehearsalFrames /\ RehearsalFrameInv(f, chain) /\ f.pc = "copied"
  BY <1>1, AtRehearsal
<1>3. f.copy \in Branch /\ f.rows \in Journals /\ DOMAIN f.rows \subseteq Nat \ {0}
  BY <1>2 DEF RehearsalFrames, RehearsalFrameInv
<1>4. /\ rows \in Journals /\ DOMAIN rows \subseteq Nat \ {0}
      /\ \A h \in 1..Height(f.copy) : rows[h] = BuiltRow(f.copy, h)
  <2>1. /\ rows \in Journals /\ DOMAIN rows = DOMAIN f.rows \cup 1..Height(f.copy)
        /\ \A h \in 1..Height(f.copy) : rows[h] = BuiltRow(f.copy, h)
    BY <1>3, BackfilledType
  <2>2. 1..Height(f.copy) \subseteq Nat \ {0}
    BY <1>3, WholeBranch
  <2> QED BY <1>3, <2>1, <2>2
<1> HIDE DEF rows
<1>5. /\ g \in RehearsalFrames /\ g.pc = "verified" /\ g.blocks = f.blocks /\ g.end = f.end
      /\ g.copy = f.copy /\ g.rows = rows /\ g.working = f.working /\ g.utxos = f.utxos
      /\ g.moved = f.moved
  BY <1>2, <1>4 DEF RehearsalFrames
<1>6. /\ k \in RehearsalFrames /\ k.pc = "refused" /\ k.blocks = f.blocks /\ k.end = f.end
      /\ k.copy = f.copy /\ k.rows = f.rows /\ k.working = f.working /\ k.utxos = f.utxos
      /\ k.moved = f.moved
  BY <1>2 DEF RehearsalFrames
<1> HIDE DEF g, k, f
<1>7. FrameInv(g, chain)
  BY <1>2, <1>4, <1>5 DEF RehearsalFrameInv, FrameInv
<1>8. FrameInv(k, chain)
  BY <1>2, <1>6 DEF RehearsalFrameInv, FrameInv
<1> QED BY <1>1, <1>7, <1>8, Stepped

\* The row that backfill wrote in the copy undoes its tip.
LEMMA DisconnectTipInv ==
  ASSUME IInv, NEW o \in Operator, DisconnectTip(o)
  PROVE  IInv'
<1> DEFINE f == command[o]
           h == Height(f.working)
           below == Parent(f.working)
           utxos == Undone(f.utxos, f.rows[h])
           g == [f EXCEPT !.n = f.n - 1, !.working = below, !.utxos = utxos]
<1>1. At(o, {"rehearse"}, "verified") /\ f.n > 0 /\ h \in DOMAIN f.rows /\ Step(o, g)
  BY DEF DisconnectTip
<1>2. f \in RehearsalFrames /\ RehearsalFrameInv(f, chain) /\ f.pc = "verified"
  BY <1>1, AtRehearsal
<1>3. /\ f.copy \in Branch /\ f.working \in Branch /\ f.n - 1 \in Nat
      /\ Height(f.copy) \in Nat /\ h \in Nat /\ h # 0
      /\ h <= Height(f.copy) /\ Upto(f.copy, h) = f.working
      /\ f.utxos = Ledger[f.working]
  <2>1. f.copy \in Branch /\ f.working \in Branch /\ f.n - 1 \in Nat
    BY <1>1, <1>2 DEF RehearsalFrames
  <2>2. Height(f.copy) \in Nat
    BY <2>1, WholeBranch
  <2>3. h \in Nat /\ h # 0
    BY <1>1, <1>2 DEF RehearsalFrameInv
  <2> QED BY <1>2, <2>1, <2>2, <2>3 DEF RehearsalFrameInv, Prolongs
<1>4. h \in 1..Height(f.copy) /\ h - 1 \in 0..h /\ h - 1 \in 0..Height(f.copy)
  BY <1>3
<1>5. f.rows[h] = BuiltRow(f.copy, h)
  BY <1>2, <1>4 DEF RehearsalFrameInv
<1>6. /\ RightRow(f.rows[h]) /\ f.rows[h].block = f.working
      /\ below = Upto(f.copy, h - 1) /\ below \in Branch /\ Height(below) = h - 1
  BY <1>3, <1>4, <1>5, BuiltRight, BlockAccepted, Ancestor
<1>7. utxos = Ledger[below]
  BY <1>3, <1>6, UndoInvertsConnect DEF Restores
<1>8. Prolongs(f.copy, below)
  BY <1>4, <1>6 DEF Prolongs
<1> HIDE DEF utxos, below, h
<1>9. utxos \in { Ledger[c] : c \in Branch }
  BY <1>6, <1>7
<1>10. /\ g \in RehearsalFrames /\ g.pc = "verified" /\ g.blocks = f.blocks /\ g.end = f.end
       /\ g.copy = f.copy /\ g.rows = f.rows /\ g.working = below /\ g.utxos = utxos
       /\ g.moved = f.moved
  BY <1>2, <1>3, <1>6, <1>9 DEF RehearsalFrames
<1> HIDE DEF g, f
<1>11. RehearsalFrameInv(g, chain)
  BY <1>2, <1>7, <1>8, <1>10 DEF RehearsalFrameInv
<1>12. FrameInv(g, chain)
  BY <1>10, <1>11 DEF FrameInv
<1> QED BY <1>1, <1>12, Stepped

LEMMA CompareInv ==
  ASSUME IInv, NEW o \in Operator, Compare(o)
  PROVE  IInv'
<1> DEFINE f == command[o]
           aim == Height(f.working)
           replayed == Upto(f.blocks, IF aim < f.end THEN aim ELSE f.end)
           passed == replayed = f.working /\ Ledger[replayed] = f.utxos
           g == [f EXCEPT !.pc = "done", !.passed = passed]
<1>1. At(o, {"rehearse"}, "verified") /\ Step(o, g)
  BY DEF Compare
<1>2. f \in RehearsalFrames /\ RehearsalFrameInv(f, chain) /\ f.pc = "verified"
  BY <1>1, AtRehearsal
<1>3. ASSUME ~ f.moved PROVE passed
  <2>1. /\ f.end = Height(f.copy) /\ f.blocks = f.copy
        /\ Prolongs(f.copy, f.working) /\ f.utxos = Ledger[f.working]
    BY <1>2, <1>3 DEF RehearsalFrameInv
  <2>2. aim <= f.end /\ Upto(f.blocks, aim) = f.working
    BY <2>1 DEF Prolongs
  <2>3. (IF aim < f.end THEN aim ELSE f.end) = aim
    <3>1. f.working \in Branch /\ f.end \in Nat
      BY <1>2 DEF RehearsalFrames
    <3>2. aim \in Nat
      BY <3>1, WholeBranch
    <3> QED BY <2>2, <3>1, <3>2
  <2> QED BY <2>1, <2>2, <2>3
<1>4. passed \in BOOLEAN
  OBVIOUS
<1> HIDE DEF passed
<1>5. /\ g \in RehearsalFrames /\ g.pc = "done" /\ g.blocks = f.blocks /\ g.end = f.end
      /\ g.copy = f.copy /\ g.rows = f.rows /\ g.working = f.working /\ g.utxos = f.utxos
      /\ g.moved = f.moved /\ g.passed = passed
  BY <1>2, <1>4 DEF RehearsalFrames
<1> HIDE DEF g, f
<1>6. RehearsalFrameInv(g, chain)
  BY <1>2, <1>3, <1>5 DEF RehearsalFrameInv
<1>7. FrameInv(g, chain)
  BY <1>5, <1>6 DEF FrameInv
<1> QED BY <1>1, <1>7, Stepped

-----------------------------------------------------------------------------
(* The theorems.                                                           *)

LEMMA InitInv == Init => IInv
<1>1. << >> \in Branch /\ [h \in {} |-> << >>] = << >>
  BY BranchAssumption
<1> QED BY <1>1, EmptyRows DEF Init, IInv, FrameInv

LEMMA NextInv == IInv /\ [Next]_vars => IInv'
<1> SUFFICES ASSUME IInv, [Next]_vars PROVE IInv'
  OBVIOUS
<1>1. CASE UNCHANGED vars
  BY <1>1 DEF vars, IInv
<1>2. CASE \E c \in Branch : Activate(c)
  BY <1>2, ActivateInv
<1>3. CASE \E o \in Operator : JournalCommand(o)
  BY <1>3, BackfillInv, VerifyInv, CheckRowInv, ReadBlockInv, ReadCreatorInv,
     InsertRowInv, FinishInv DEF JournalCommand
<1>4. CASE \E o \in Operator : RehearsalCommand(o)
  BY <1>4, RehearseInv, ReadOriginalInv, CopyDatabaseInv, PrepareJournalInv,
     DisconnectTipInv, CompareInv DEF RehearsalCommand
<1>5. CASE \E o \in Operator : Stop(o)
  BY <1>5, StopInv
<1> QED BY <1>1, <1>2, <1>3, <1>4, <1>5 DEF Next

THEOREM Invariance == Spec => []IInv
BY InitInv, NextInv, PTL DEF Spec

\* A journal row restores the UTXO table before its block, whatever the block
\* spends (UntornRowsRestore), unless a reorganization ran while
\* build_for_height looked up its inputs.
THEOREM RowsRestore == Spec => []UntornRowsRestore
<1>1. IInv => UntornRowsRestore
  <2> SUFFICES ASSUME IInv, NEW h \in DOMAIN journal, ~ journal[h].torn
               PROVE  Height(journal[h].block) = h /\ Restores(journal[h])
    BY DEF UntornRowsRestore
  <2>1. journal[h] \in Rows /\ RowsInv(journal)
    BY RowsHeights DEF IInv
  <2>2. RightRow(journal[h])
    BY <2>1 DEF Rows, RowsInv, RightRow
  <2> QED BY <2>1, <2>2, UndoInvertsConnect DEF RowsInv
<1> QED BY <1>1, Invariance, PTL

\* verify answers for the rows it found, also for rows that backfill built
\* from the tables of two branches (VerifyIsSound).
THEOREM VerifySound == Spec => []VerifyIsSound
<1>1. IInv => VerifyIsSound
  <2> SUFFICES ASSUME IInv, NEW o \in Operator, At(o, {"verify"}, "done"),
                      ~ command[o].bad, ~ command[o].moved,
                      NEW h \in DOMAIN command[o].rows
               PROVE  Restores(command[o].rows[h])
    BY DEF VerifyIsSound
  <2>1. At(o, JournalKinds, "done") /\ command[o].kind = "verify"
    BY DEF At, JournalKinds
  <2>2. JournalFrameInv(command[o], chain) /\ command[o].pc = "done"
    BY <2>1, AtJournal
  <2>3. RightRow(command[o].rows[h])
    BY <2>1, <2>2 DEF JournalFrameInv
  <2> QED BY <2>3, UndoInvertsConnect
<1> QED BY <1>1, Invariance, PTL

\* No row is of a greater height than the chain once had, and a rehearsal is
\* refused only where such rows, or inputs that no row can be built for, are left.
PeakFrame(f, p) ==
  f # Idle =>
    /\ f.pc = "inputs" => Height(f.block) <= p
    /\ f.pc = "copied" => \A h \in DOMAIN f.rows : h <= p
    /\ f.pc = "refused" => p > Height(f.copy) \/ ~ Journaled(f.copy)

PeakInv ==
  /\ peak \in Nat /\ Height(chain) <= peak
  /\ \A h \in DOMAIN journal : h <= peak
  /\ \A o \in Operator : PeakFrame(command[o], peak)

LEMMA PeakStepped ==
  ASSUME IInv, PeakInv, NEW o \in Operator, NEW g, PeakFrame(g, peak),
         Start(o, g) \/ Step(o, g)
  PROVE  PeakInv'
<1>1. /\ command' = [command EXCEPT ![o] = g] /\ chain' = chain /\ journal' = journal
      /\ peak' = peak
  BY DEF Start, Step
<1>2. \A p \in Operator : PeakFrame(command'[p], peak)
  BY <1>1 DEF IInv, PeakInv
<1> QED BY <1>1, <1>2 DEF PeakInv

LEMMA ActivatePeak ==
  ASSUME IInv, PeakInv, NEW c \in Branch, Activate(c)
  PROVE  PeakInv'
<1>1. /\ chain' = c /\ journal' = journal
      /\ command' = [o \in Operator |-> Disturbed(command[o], c)]
      /\ peak' = IF Height(c) > peak THEN Height(c) ELSE peak
  BY DEF Activate
<1>2. peak \in Nat /\ Height(c) \in Nat
  BY WholeBranch DEF PeakInv
<1>3. peak' \in Nat /\ peak <= peak' /\ Height(c) <= peak'
  BY <1>1, <1>2
<1>4. \A h \in DOMAIN journal : h <= peak'
  <2>1. DOMAIN journal \subseteq Nat /\ \A h \in DOMAIN journal : h <= peak
    BY RowsHeights DEF IInv, PeakInv
  <2> QED BY <1>2, <1>3, <2>1
<1>5. ASSUME NEW o \in Operator PROVE PeakFrame(Disturbed(command[o], c), peak')
  <2> DEFINE f == command[o]
             g == Disturbed(f, c)
  <2> SUFFICES PeakFrame(g, peak')
    OBVIOUS
  <2>1. PeakFrame(f, peak) /\ FrameInv(f, chain)
    BY DEF IInv, PeakInv
  <2>2. CASE f = Idle
    BY <2>2 DEF Disturbed, Idle, PeakFrame
  <2>3. CASE f \in JournalFrames
    <3>1. g.pc = f.pc /\ g.block = f.block
      BY <2>3 DEF JournalFrames, JournalKinds, Disturbed
    <3>2. f # Idle /\ f.pc \notin {"copied", "refused"} /\ f.block \in Branch
      BY <2>3 DEF JournalFrames, Idle
    <3>3. Height(f.block) \in Nat
      BY <3>2, WholeBranch
    <3> HIDE DEF f, g
    <3> QED BY <1>2, <1>3, <2>1, <3>1, <3>2, <3>3 DEF PeakFrame
  <2>4. CASE f \in RehearsalFrames /\ RehearsalFrameInv(f, chain)
    <3>1. g.pc = f.pc /\ g.rows = f.rows /\ g.copy = f.copy
      BY <2>4 DEF RehearsalFrames, Disturbed
    <3>2. /\ f # Idle /\ f.pc # "inputs" /\ f.copy \in Branch
          /\ DOMAIN f.rows \subseteq Nat
      BY <2>4 DEF RehearsalFrames, RehearsalFrameInv, Idle
    <3>3. Height(f.copy) \in Nat
      BY <3>2, WholeBranch
    <3> HIDE DEF f, g
    <3> QED BY <1>2, <1>3, <2>1, <3>1, <3>2, <3>3 DEF PeakFrame
  <2> QED BY <2>1, <2>2, <2>3, <2>4 DEF FrameInv
<1> QED BY <1>1, <1>3, <1>4, <1>5 DEF PeakInv

LEMMA JournalCommandPeak ==
  ASSUME IInv, PeakInv, NEW o \in Operator, JournalCommand(o)
  PROVE  PeakInv'
<1> DEFINE f == command[o]
<1>1. ASSUME NEW g, g.pc \in {"next", "build", "done"}, Start(o, g) \/ Step(o, g)
      PROVE  PeakInv'
  <2>1. PeakFrame(g, peak)
    BY <1>1 DEF PeakFrame
  <2> QED BY <1>1, <2>1, PeakStepped
<1>2. CASE \E start \in 1..Height(chain) : Backfill(o, start)
  <2>1. PICK start : Start(o, JournalFrame("backfill", start..Height(chain), << >>))
    BY <1>2 DEF Backfill
  <2> QED BY <1>1, <2>1 DEF JournalFrame
<1>3. CASE Verify(o)
  <2>1. Start(o, JournalFrame("verify", DOMAIN journal, journal))
    BY <1>3 DEF Verify
  <2> QED BY <1>1, <2>1 DEF JournalFrame
<1>4. CASE CheckRow(o)
  <2>1. At(o, JournalKinds, "next")
    BY <1>4 DEF CheckRow, At, JournalKinds
  <2>2. f \in JournalFrames /\ f.pc = "next"
    BY <2>1, AtJournal
  <2>3. PICK h : Step(o, IF h <= Height(chain) /\ Upto(chain, h) = f.rows[h].block
                         THEN [f EXCEPT !.pc = "build"]
                         ELSE [f EXCEPT !.todo = @ \ {h}, !.bad = TRUE])
    BY <1>4 DEF CheckRow
  <2> DEFINE build == [f EXCEPT !.pc = "build"]
             next == [f EXCEPT !.todo = @ \ {h}, !.bad = TRUE]
  <2>4. build.pc = "build" /\ next.pc = "next"
    BY <2>2 DEF JournalFrames
  <2>5. Step(o, build) \/ Step(o, next)
    BY <2>3
  <2> HIDE DEF build, next
  <2> QED BY <1>1, <2>4, <2>5
<1>5. CASE ReadBlock(o)
  <2>1. PICK pc : At(o, JournalKinds, pc)
    BY <1>5 DEF ReadBlock, At, JournalKinds
  <2>2. f \in JournalFrames
    BY <2>1, AtJournal
  <2>3. PICK h \in f.todo :
          /\ h <= Height(chain)
          /\ Step(o, [f EXCEPT !.pc = "inputs", !.block = Upto(chain, h),
                               !.inputs = InsOf(chain[h].txs), !.restore = {},
                               !.torn = FALSE])
    BY <1>5 DEF ReadBlock, Due
  <2> DEFINE g == [f EXCEPT !.pc = "inputs", !.block = Upto(chain, h),
                            !.inputs = InsOf(chain[h].txs), !.restore = {}, !.torn = FALSE]
  <2>4. chain \in Branch /\ Height(chain) \in Nat /\ h \in Nat \ {0}
    BY <2>2, WholeBranch DEF IInv, JournalFrames
  <2>5. h \in 0..Height(chain)
    BY <2>3, <2>4
  <2>6. Height(Upto(chain, h)) = h /\ h <= peak
    BY <2>3, <2>4, <2>5, Ancestor DEF PeakInv
  <2>7. g.pc = "inputs" /\ g.block = Upto(chain, h)
    BY <2>2 DEF JournalFrames
  <2>8. Step(o, g)
    BY <2>3
  <2> HIDE DEF g
  <2>9. PeakFrame(g, peak)
    BY <2>6, <2>7 DEF PeakFrame
  <2> QED BY <2>8, <2>9, PeakStepped
<1>6. CASE ReadCreator(o)
  <2>1. At(o, JournalKinds, "inputs")
    BY <1>6 DEF ReadCreator
  <2>2. f \in JournalFrames /\ f.pc = "inputs" /\ f # Idle
    BY <2>1, AtJournal DEF At
  <2>3. PICK op, i : Step(o, [f EXCEPT !.inputs = @ \ {op},
                         !.restore = IF Restorable(Height(f.block), i) THEN @ \cup {op} ELSE @])
    BY <1>6 DEF ReadCreator
  <2> DEFINE g == [f EXCEPT !.inputs = @ \ {op},
                     !.restore = IF Restorable(Height(f.block), i) THEN @ \cup {op} ELSE @]
  <2>4. g.pc = "inputs" /\ g.block = f.block
    BY <2>2 DEF JournalFrames
  <2>5. Step(o, g)
    BY <2>3
  <2> HIDE DEF g
  <2>6. Height(f.block) <= peak
    BY <2>2 DEF PeakInv, PeakFrame
  <2>7. PeakFrame(g, peak)
    BY <2>4, <2>6 DEF PeakFrame
  <2> QED BY <2>5, <2>7, PeakStepped
<1>7. CASE InsertRow(o)
  <2> DEFINE h == Height(f.block)
             g == [f EXCEPT !.pc = "next", !.todo = @ \ {h},
                     !.bad = @ \/ (f.kind = "verify"
                                     /\ Differs(f, Row(f.block, f.restore, f.torn)))]
  <2>1. /\ At(o, JournalKinds, "inputs") /\ DOMAIN journal' = DOMAIN journal \cup {h}
        /\ command' = [command EXCEPT ![o] = g] /\ chain' = chain /\ peak' = peak
    BY <1>7 DEF InsertRow
  <2>2. f \in JournalFrames /\ f.pc = "inputs" /\ f # Idle
    BY <2>1, AtJournal DEF At
  <2>3. h <= peak
    BY <2>2 DEF PeakInv, PeakFrame
  <2>4. g.pc = "next"
    BY <2>2 DEF JournalFrames
  <2> HIDE DEF g, h
  <2>5. PeakFrame(g, peak)
    BY <2>4 DEF PeakFrame
  <2>6. \A p \in Operator : PeakFrame(command'[p], peak)
    BY <2>1, <2>5 DEF IInv, PeakInv
  <2> QED BY <2>1, <2>3, <2>6 DEF PeakInv
<1>8. CASE Finish(o)
  <2>1. At(o, JournalKinds, "next")
    BY <1>8 DEF Finish
  <2>2. f \in JournalFrames
    BY <2>1, AtJournal
  <2> DEFINE g == [f EXCEPT !.pc = "done"]
  <2>3. g.pc = "done" /\ PeakFrame(Idle, peak)
    BY <2>2 DEF JournalFrames, PeakFrame
  <2>4. Step(o, g) \/ Step(o, Idle)
    BY <1>8 DEF Finish
  <2> HIDE DEF g
  <2> QED BY <1>1, <2>3, <2>4, PeakStepped
<1> QED BY <1>2, <1>3, <1>4, <1>5, <1>6, <1>7, <1>8 DEF JournalCommand

\* The verification of the copy complains of nothing but rows above its tip.
LEMMA RefusedAbove ==
  ASSUME NEW c \in Branch, NEW rows \in Journals, DOMAIN rows \subseteq Nat \ {0},
         ~ JournalVerified(c, Backfilled(c, rows))
  PROVE  \E h \in DOMAIN rows : h > Height(c)
<1>1. PICK h \in DOMAIN Backfilled(c, rows) :
        ~ (h \in 1..Height(c) /\ Backfilled(c, rows)[h] = BuiltRow(c, h))
  BY DEF JournalVerified
<1>2. h \notin 1..Height(c) /\ h \in DOMAIN rows
  BY <1>1, BackfilledType
<1>3. Height(c) \in Nat /\ h \in Nat \ {0}
  BY <1>2, WholeBranch
<1> QED BY <1>2, <1>3

LEMMA RehearsalCommandPeak ==
  ASSUME IInv, PeakInv, NEW o \in Operator, RehearsalCommand(o)
  PROVE  PeakInv'
<1> DEFINE f == command[o]
<1>1. ASSUME NEW g, g.pc \in {"read", "verified", "done"}, Start(o, g) \/ Step(o, g)
      PROVE  PeakInv'
  <2>1. PeakFrame(g, peak)
    BY <1>1 DEF PeakFrame
  <2> QED BY <1>1, <2>1, PeakStepped
<1>2. ASSUME NEW pc, At(o, {"rehearse"}, pc)
      PROVE  f \in RehearsalFrames /\ RehearsalFrameInv(f, chain) /\ f.pc = pc /\ f # Idle
  BY <1>2, AtRehearsal DEF At
<1>3. CASE \E n \in Disconnects : Rehearse(o, n)
  <2>1. PICK n : Start(o, [kind |-> "rehearse", pc |-> "read", n |-> n, end |-> Height(chain),
                           blocks |-> << >>, copy |-> << >>, rows |-> << >>,
                           working |-> << >>, utxos |-> {}, moved |-> FALSE, passed |-> FALSE])
    BY <1>3 DEF Rehearse
  <2> QED BY <1>1, <2>1
<1>4. CASE ReadOriginal(o)
  <2>1. f \in RehearsalFrames /\ f.pc = "read"
    BY <1>2, <1>4 DEF ReadOriginal
  <2> DEFINE g == [f EXCEPT !.blocks = Append(@, chain[Height(f.blocks) + 1])]
  <2>2. Step(o, g)
    BY <1>4 DEF ReadOriginal
  <2>3. g.pc = "read"
    BY <2>1 DEF RehearsalFrames
  <2> HIDE DEF g
  <2> QED BY <1>1, <2>2, <2>3
<1>5. CASE CopyDatabase(o)
  <2>1. f \in RehearsalFrames
    BY <1>2, <1>5 DEF CopyDatabase
  <2> DEFINE g == [f EXCEPT !.pc = "copied", !.copy = chain, !.rows = journal,
                            !.working = chain, !.utxos = Ledger[chain]]
  <2>2. Step(o, g)
    BY <1>5 DEF CopyDatabase
  <2>3. g.pc = "copied" /\ g.rows = journal
    BY <2>1 DEF RehearsalFrames
  <2> HIDE DEF g
  <2>4. PeakFrame(g, peak)
    BY <2>3 DEF PeakFrame, PeakInv
  <2> QED BY <2>2, <2>4, PeakStepped
<1>6. CASE PrepareJournal(o)
  <2> DEFINE rows == Backfilled(f.copy, f.rows)
             g == [f EXCEPT !.pc = "verified", !.rows = rows]
             k == [f EXCEPT !.pc = "refused"]
  <2>1. f \in RehearsalFrames /\ RehearsalFrameInv(f, chain) /\ f.pc = "copied" /\ f # Idle
    BY <1>2, <1>6 DEF PrepareJournal
  <2>2. g.pc = "verified" /\ k.pc = "refused" /\ k.copy = f.copy
    BY <2>1 DEF RehearsalFrames
  <2>3. Step(o, g) \/ (Step(o, k) /\ (Journaled(f.copy) => ~ JournalVerified(f.copy, rows)))
    BY <1>6 DEF PrepareJournal
  <2>4. /\ f.copy \in Branch /\ f.rows \in Journals /\ DOMAIN f.rows \subseteq Nat \ {0}
        /\ \A h \in DOMAIN f.rows : h <= peak
    BY <2>1 DEF RehearsalFrames, RehearsalFrameInv, PeakInv, PeakFrame
  <2>5. ASSUME ~ JournalVerified(f.copy, rows) PROVE peak > Height(f.copy)
    <3>1. PICK h \in DOMAIN f.rows : h > Height(f.copy)
      BY <2>4, <2>5, RefusedAbove
    <3>2. Height(f.copy) \in Nat /\ h \in Nat /\ h <= peak /\ peak \in Nat
      BY <2>4, WholeBranch DEF PeakInv
    <3> QED BY ONLY <3>1, <3>2
  <2> HIDE DEF g, k, rows
  <2>6. ASSUME Step(o, k), Journaled(f.copy) => ~ JournalVerified(f.copy, rows)
        PROVE  PeakFrame(k, peak)
    BY <2>2, <2>5, <2>6 DEF PeakFrame
  <2> QED BY <1>1, <2>2, <2>3, <2>6, PeakStepped
<1>7. CASE DisconnectTip(o)
  <2>1. f \in RehearsalFrames /\ f.pc = "verified"
    BY <1>2, <1>7 DEF DisconnectTip
  <2> DEFINE g == [f EXCEPT !.n = @ - 1, !.working = Parent(@),
                            !.utxos = Undone(@, f.rows[Height(f.working)])]
  <2>2. Step(o, g)
    BY <1>7 DEF DisconnectTip
  <2>3. g.pc = "verified"
    BY <2>1 DEF RehearsalFrames
  <2> HIDE DEF g
  <2> QED BY <1>1, <2>2, <2>3
<1>8. CASE Compare(o)
  <2>1. f \in RehearsalFrames
    BY <1>2, <1>8 DEF Compare
  <2>2. PICK passed : Step(o, [f EXCEPT !.pc = "done", !.passed = passed])
    BY <1>8 DEF Compare
  <2> DEFINE g == [f EXCEPT !.pc = "done", !.passed = passed]
  <2>3. g.pc = "done" /\ Step(o, g)
    BY <2>1, <2>2 DEF RehearsalFrames
  <2> HIDE DEF g
  <2> QED BY <1>1, <2>3
<1> QED BY <1>3, <1>4, <1>5, <1>6, <1>7, <1>8 DEF RehearsalCommand

LEMMA PeakNext == IInv /\ PeakInv /\ [Next]_vars => PeakInv'
<1> SUFFICES ASSUME IInv, PeakInv, [Next]_vars PROVE PeakInv'
  OBVIOUS
<1>1. CASE UNCHANGED vars
  BY <1>1 DEF vars, PeakInv
<1>2. CASE \E c \in Branch : Activate(c)
  BY <1>2, ActivatePeak
<1>3. CASE \E o \in Operator : JournalCommand(o)
  BY <1>3, JournalCommandPeak
<1>4. CASE \E o \in Operator : RehearsalCommand(o)
  BY <1>4, RehearsalCommandPeak
<1>5. CASE \E o \in Operator : Stop(o)
  <2>1. PeakFrame(Idle, peak)
    BY DEF PeakFrame
  <2> QED BY <1>5, <2>1, PeakStepped DEF Stop
<1> QED BY <1>1, <1>2, <1>3, <1>4, <1>5 DEF Next

\* A rehearsal whose chain stood still until it was copied passes once the
\* journal of the copy is verified, and that is refused only where rows of a
\* longer chain, or inputs not written in lower case, are left (RehearsalPasses).
THEOREM RehearsalPassed == Spec => []RehearsalPasses
<1>1. IInv /\ PeakInv => RehearsalPasses
  <2> SUFFICES ASSUME IInv, PeakInv, NEW o \in Operator
               PROVE  /\ (At(o, {"rehearse"}, "done") /\ ~ command[o].moved)
                            => command[o].passed
                      /\ At(o, {"rehearse"}, "refused")
                            => peak > Height(command[o].copy) \/ ~ Journaled(command[o].copy)
    BY DEF RehearsalPasses
  <2>1. ASSUME At(o, {"rehearse"}, "done"), ~ command[o].moved PROVE command[o].passed
    BY <2>1, AtRehearsal DEF RehearsalFrameInv
  <2>2. ASSUME At(o, {"rehearse"}, "refused")
        PROVE  peak > Height(command[o].copy) \/ ~ Journaled(command[o].copy)
    BY <2>2 DEF At, PeakInv, PeakFrame
  <2> QED BY <2>1, <2>2
<1>2. Init => PeakInv
  BY DEF Init, PeakInv, PeakFrame, Height
<1> QED BY <1>1, <1>2, PeakNext, Invariance, InitInv, NextInv, PTL DEF Spec


-----------------------------------------------------------------------------
(* The campaign log.                                                       *)

Entry == [id : Nat, previous : Nat \cup {NoEntry}, time : Nat]

\* What a writer that reads the log now takes for its last entry.
LastId(records) == IF records = << >> THEN NoEntry ELSE records[Len(records)].id

LogTyped ==
  /\ log \in Seq(Entry) /\ time \in Nat
  /\ \A w \in Writers : writer[w].head \in Nat \cup {NoEntry}
  /\ DOMAIN writer = Writers

\* Without a disturbance one writer at a time has read the log, which did not
\* change since and is not newer than the clock.
LogInv ==
  /\ LogTyped
  /\ ~disturbed =>
       /\ Verifies(log)
       /\ \A i \in DOMAIN log : log[i].time <= time
       /\ \A w \in Writers : writer[w].at = "read" => writer[w].head = LastId(log)
       /\ \A v, w \in Writers : writer[v].at = "read" /\ writer[w].at = "read" => v = w

LEMMA AppendedVerifies ==
  ASSUME NEW records \in Seq(Entry), NEW entry \in Entry,
         Verifies(records), entry # Torn, entry.previous = LastId(records),
         \A i \in DOMAIN records : records[i].time <= entry.time
  PROVE  Verifies(Append(records, entry))
<1> DEFINE longer == Append(records, entry)
           n == Len(records)
<1>1. /\ n \in Nat /\ DOMAIN records = 1..n /\ DOMAIN longer = 1..(n + 1)
      /\ longer[n + 1] = entry /\ \A i \in 1..n : longer[i] = records[i]
  OBVIOUS
<1>2. \A i \in DOMAIN longer : longer[i] # Torn
  BY <1>1 DEF Verifies
<1>3. ASSUME NEW i \in DOMAIN longer \ {1}
      PROVE  /\ longer[i].previous = longer[i - 1].id
             /\ longer[i].time >= longer[i - 1].time
  <2>1. CASE i = n + 1
    <3>1. n \in DOMAIN records /\ records # << >>
      BY <2>1, <1>1
    <3>2. longer[i - 1] = records[n] /\ longer[i] = entry
      BY <2>1, <3>1, <1>1
    <3>3. records[n] \in Entry
      BY <3>1
    <3>4. entry.previous = records[n].id
      BY <3>1 DEF LastId
    <3>5. entry.time \in Nat /\ records[n].time \in Nat /\ records[n].time <= entry.time
      BY <3>1, <3>3 DEF Entry
    <3> QED BY <3>2, <3>4, <3>5
  <2>2. CASE i # n + 1
    <3>1. i \in DOMAIN records \ {1} /\ i - 1 \in DOMAIN records
      BY <2>2, <1>1
    <3>2. longer[i] = records[i] /\ longer[i - 1] = records[i - 1]
      BY <3>1, <1>1
    <3> QED BY <3>1, <3>2 DEF Verifies
  <2> QED BY <2>1, <2>2
<1> QED BY <1>2, <1>3 DEF Verifies

\* The log verifies for ever unless a write was cut short, two appends
\* overlapped or the clock was set back.
THEOREM LogSound == LogSpec => []LogBrokenOnlyByDisturbance
<1>1. LogInit => LogInv
  <2> SUFFICES ASSUME LogInit PROVE LogInv
    OBVIOUS
  <2>1. log = << >> /\ DOMAIN << >> = {} /\ << >> \in Seq(Entry)
    BY DEF LogInit
  <2>2. \A w \in Writers : writer[w] = AtRest
    BY DEF LogInit
  <2>3. AtRest.at = "idle" /\ AtRest.head = NoEntry
    BY DEF AtRest
  <2>4. LogTyped
    BY <2>1, <2>2, <2>3 DEF LogInit, LogTyped
  <2>5. Verifies(log)
    BY <2>1 DEF Verifies
  <2> QED BY <2>1, <2>2, <2>3, <2>4, <2>5 DEF LogInv
<1>2. LogInv /\ [LogNext]_logVars => LogInv'
  <2> SUFFICES ASSUME LogInv, [LogNext]_logVars PROVE LogInv'
    OBVIOUS
  <2>1. CASE UNCHANGED logVars
    BY <2>1 DEF LogInv, LogTyped, Verifies, LastId, logVars
  <2>2. CASE LogTicks
    <3>1. UNCHANGED <<log, writer, disturbed>> /\ time' = time + 1
      BY <2>2 DEF LogTicks
    <3>2. \A i \in DOMAIN log : log[i].time \in Nat
      <4>1. \A i \in DOMAIN log : log[i] \in Entry
        BY DEF LogInv, LogTyped
      <4> QED BY <4>1 DEF Entry
    <3>3. \A i \in DOMAIN log : log[i].time <= time => log[i].time <= time'
      BY <3>1, <3>2 DEF LogInv, LogTyped
    <3>4. LogTyped'
      <4>1. time' \in Nat
        BY <3>1 DEF LogInv, LogTyped
      <4> QED BY <3>1, <4>1 DEF LogInv, LogTyped
    <3> QED BY <3>1, <3>3, <3>4 DEF LogInv, Verifies, LastId
  <2>3. CASE LogSetBack
    BY <2>3 DEF LogSetBack, LogInv, LogTyped
  <2>4. ASSUME NEW w \in Writers, ReadLog(w) PROVE LogInv'
    <3> DEFINE head == IF log = << >> THEN NoEntry ELSE Last(log).id
    <3>1. head = LastId(log) /\ LastId(log) \in Nat \cup {NoEntry}
      <4>1. log # << >> => log[Len(log)] \in Entry
        BY DEF LogInv, LogTyped
      <4> QED BY <4>1 DEF Last, LastId, Entry
    <3>2. writer' = [writer EXCEPT ![w] = [at |-> "read", head |-> LastId(log)]]
      BY <2>4, <3>1 DEF ReadLog
    <3>3. /\ writer'[w].at = "read" /\ writer'[w].head = LastId(log)
          /\ \A v \in Writers \ {w} : writer'[v] = writer[v]
          /\ DOMAIN writer' = Writers
      BY <3>2 DEF LogInv, LogTyped
    <3>4. /\ log' = log /\ time' = time
          /\ disturbed' = (disturbed \/ \E d \in Writers : writer[d].at = "read")
      BY <2>4 DEF ReadLog
    <3>5. LogTyped'
      BY <3>1, <3>3, <3>4 DEF LogInv, LogTyped
    <3>6. ~disturbed' => ~disturbed /\ \A d \in Writers : writer[d].at # "read"
      BY <3>4
    <3> QED BY <3>3, <3>4, <3>5, <3>6 DEF LogInv, Verifies, LastId
  <2>5. ASSUME NEW w \in Writers, WriteEntry(w) PROVE LogInv'
    <3> DEFINE entry == [id |-> Len(log) + 1, previous |-> writer[w].head, time |-> time]
    <3>1. /\ log' = Append(log, entry) /\ time' = time /\ disturbed' = disturbed
          /\ writer' = [writer EXCEPT ![w] = AtRest] /\ writer[w].at = "read"
      BY <2>5 DEF WriteEntry
    <3>2. entry \in Entry /\ log \in Seq(Entry) /\ log' \in Seq(Entry)
      BY <3>1 DEF LogInv, LogTyped, Entry
    <3>3. entry # Torn
      BY DEF Torn, LogInv, LogTyped
    <3>4. /\ writer'[w] = AtRest /\ \A v \in Writers \ {w} : writer'[v] = writer[v]
          /\ DOMAIN writer' = Writers
      BY <3>1 DEF LogInv, LogTyped
    <3>5. entry.time = time /\ entry.previous = writer[w].head
      OBVIOUS
    <3> HIDE DEF entry
    <3>6. LogTyped'
      BY <3>1, <3>2, <3>4 DEF LogInv, LogTyped, AtRest
    <3>7. ASSUME ~disturbed PROVE Verifies(log')
      BY <3>1, <3>2, <3>3, <3>5, <3>7, AppendedVerifies DEF LogInv
    <3>8. ASSUME ~disturbed, NEW i \in DOMAIN log' PROVE log'[i].time <= time
      <4>1. (i \in DOMAIN log /\ log'[i] = log[i]) \/ log'[i] = entry
        BY <3>1, <3>2
      <4> QED BY <4>1, <3>5, <3>8 DEF LogInv, LogTyped
    <3>9. ~disturbed => \A v \in Writers : writer'[v].at # "read"
      BY <3>1, <3>4 DEF LogInv, AtRest
    <3> QED BY <3>1, <3>6, <3>7, <3>8, <3>9 DEF LogInv
  <2>6. ASSUME NEW w \in Writers, WriterKilled(w) PROVE LogInv'
    <3>1. /\ writer' = [writer EXCEPT ![w] = AtRest] /\ time' = time
          /\ \/ UNCHANGED <<log, disturbed>>
             \/ log' = Append(log, Torn) /\ disturbed' = TRUE
      BY <2>6 DEF WriterKilled
    <3>2. /\ writer'[w] = AtRest /\ \A v \in Writers \ {w} : writer'[v] = writer[v]
          /\ DOMAIN writer' = Writers
      BY <3>1 DEF LogInv, LogTyped
    <3>3. Torn \in Entry
      BY DEF Torn, Entry
    <3>4. log' \in Seq(Entry)
      <4>1. log \in Seq(Entry) /\ (log' = log \/ log' = Append(log, Torn))
        BY <3>1 DEF LogInv, LogTyped
      <4> HIDE DEF Entry
      <4> QED BY <4>1, <3>3
    <3>5. AtRest.head = NoEntry /\ AtRest.at = "idle"
      BY DEF AtRest
    <3>6. LogTyped'
      BY <3>1, <3>2, <3>4, <3>5 DEF LogInv, LogTyped
    <3> QED BY <3>1, <3>2, <3>5, <3>6 DEF LogInv, Verifies, LastId
  <2> QED BY <2>1, <2>2, <2>3, <2>4, <2>5, <2>6 DEF LogNext
<1>3. LogInv => LogBrokenOnlyByDisturbance
  BY DEF LogInv, LogBrokenOnlyByDisturbance
<1> QED BY <1>1, <1>2, <1>3, PTL DEF LogSpec

-----------------------------------------------------------------------------
(* The monitor of an executed launch.                                      *)

Increasing(links) == \A i \in DOMAIN links \ {1} : links[i - 1].time < links[i].time

Checkpoint(file) ==
  file # None =>
    /\ file.chain \in Seq(Sample) /\ file.chain # << >>
    /\ Increasing(file.chain)

LoopFields == {"at", "sequence", "previous", "sample"}

MonitorTyped ==
  /\ clock \in Nat /\ Checkpoint(checkpoint)
  /\ DOMAIN monitor = Monitors
  /\ \A m \in Monitors :
       /\ DOMAIN monitor[m] = LoopFields
       /\ monitor[m].at \in {"off", "probe", "sampled", "saved"}
       /\ monitor[m].sequence \in Nat /\ Checkpoint(monitor[m].previous)
       /\ monitor[m].at \in {"sampled", "saved"} => monitor[m].sample \in Sample

\* The state of a loop that is the only one and whose probes all answered.
InOrder(loop, file, saved) ==
  loop.at # "off" =>
    /\ loop.previous = file
    /\ loop.sequence = IF loop.at = "probe" THEN Count(file) ELSE Count(file) + 1
    /\ loop.at = "saved" => /\ loop.sequence \in DOMAIN saved
                            /\ saved[loop.sequence] = loop.sample

Kept(file, saved) ==
  \A i \in 1..Count(file) : i \in DOMAIN saved /\ saved[i] = file.chain[i]

MonitorInv ==
  /\ MonitorTyped
  /\ ~drifted =>
       /\ \A m \in Monitors : InOrder(monitor[m], checkpoint, samples)
       /\ \A l, m \in Monitors : monitor[l].at # "off" /\ monitor[m].at # "off" => l = m
       /\ Kept(checkpoint, samples)

LEMMA CountIsNat ==
  ASSUME NEW file, Checkpoint(file)
  PROVE  /\ Count(file) \in Nat
         /\ file # None => Count(file) = Len(file.chain) /\ DOMAIN file.chain = 1..Count(file)
BY DEF Checkpoint, Count

\* A newer sample makes the chain of a checkpoint one longer.
LEMMA ChainedGrows ==
  ASSUME NEW file, Checkpoint(file), NEW sample \in Sample,
         file # None => sample.time > Last(file.chain).time
  PROVE  LET next == Chained(file, sample)
         IN  /\ next # None /\ Checkpoint(next)
             /\ Count(next) = Count(file) + 1
             /\ \A i \in 1..Count(file) : next.chain[i] = file.chain[i]
             /\ next.chain[Count(file) + 1] = sample
<1> DEFINE next == Chained(file, sample)
           old == IF file = None THEN << >> ELSE file.chain
           grown == Append(old, sample)
           n == Count(file)
<1>1. /\ old \in Seq(Sample) /\ Len(old) = n /\ n \in Nat /\ Increasing(old)
      /\ file # None => file.chain = old /\ n > 0
  <2>1. CASE file = None
    <3>1. old = << >> /\ n = 0 /\ << >> \in Seq(Sample) /\ DOMAIN << >> = {}
      BY <2>1 DEF Count
    <3> QED BY <3>1, <2>1 DEF Increasing
  <2>2. CASE file # None
    BY <2>2 DEF Checkpoint, Count
  <2> QED BY <2>1, <2>2
<1>2. next.chain = grown /\ \E c \in BOOLEAN : next = [chain |-> grown, complete |-> c]
  BY DEF Chained
<1> HIDE DEF old, next
<1>3. /\ grown \in Seq(Sample) /\ Len(grown) = n + 1 /\ grown # << >>
      /\ DOMAIN grown = 1..(n + 1) /\ DOMAIN old = 1..n
      /\ \A i \in 1..n : grown[i] = old[i]
      /\ grown[n + 1] = sample
  <2> HIDE DEF n
  <2>1. /\ grown \in Seq(Sample) /\ Len(grown) = n + 1
        /\ \A i \in 1..n : grown[i] = old[i]
        /\ grown[n + 1] = sample
    BY <1>1
  <2> QED BY <2>1, <1>1
<1>4. next # None
  <2> HIDE DEF grown
  <2>1. next \in [chain : Seq(Sample), complete : BOOLEAN]
    BY <1>2, <1>3
  <2> QED BY <2>1, MonitorAssumption
<1>5. Increasing(grown)
  <2> HIDE DEF grown, n
  <2> SUFFICES ASSUME NEW i \in DOMAIN grown \ {1} PROVE grown[i - 1].time < grown[i].time
    BY DEF Increasing
  <2>1. CASE i = n + 1
    <3>1. n > 0 /\ file # None
      <4>1. file = None => n = 0
        BY DEF n, Count
      <4>2. n # 0
        BY <2>1
      <4> QED BY <4>1, <4>2, <1>1
    <3>2. Last(file.chain) = old[n] /\ grown[i - 1] = old[n]
      BY <3>1, <2>1, <1>1, <1>3 DEF Last
    <3>3. old[n] \in Sample /\ old[n].time < sample.time
      <4>1. old[n] \in Sample
        BY <3>1, <1>1
      <4>2. old[n].time \in Nat /\ sample.time \in Nat /\ sample.time > old[n].time
        BY <3>1, <3>2, <4>1 DEF Sample
      <4> QED BY <4>1, <4>2
    <3> QED BY <3>2, <3>3, <2>1, <1>3
  <2>2. CASE i # n + 1
    <3>1. i \in DOMAIN old \ {1} /\ i - 1 \in 1..n /\ i \in 1..n
      BY <2>2, <1>1, <1>3
    <3>2. grown[i - 1] = old[i - 1] /\ grown[i] = old[i]
      BY <3>1, <1>3
    <3> QED BY <3>1, <3>2, <1>1 DEF Increasing
  <2> QED BY <2>1, <2>2
<1>6. Checkpoint(next)
  BY <1>2, <1>3, <1>5 DEF Checkpoint
<1>7. Count(next) = n + 1
  BY <1>2, <1>3, <1>4 DEF Count
<1>8. \A i \in 1..n : file # None
  BY DEF Count
<1>9. \A i \in 1..n : next.chain[i] = file.chain[i]
  BY <1>1, <1>2, <1>3, <1>8
<1> QED BY <1>2, <1>3, <1>4, <1>6, <1>7, <1>9 DEF next

\* The part of the invariant about the one loop that a step changes.
LEMMA MonitorStep ==
  ASSUME MonitorInv, NEW m \in Monitors, NEW loop,
         monitor' = [monitor EXCEPT ![m] = loop],
         DOMAIN loop = LoopFields, loop.at \in {"off", "probe", "sampled", "saved"},
         loop.sequence \in Nat, Checkpoint(loop.previous),
         loop.at \in {"sampled", "saved"} => loop.sample \in Sample,
         clock' \in Nat, Checkpoint(checkpoint'),
         ~drifted' =>
            /\ ~drifted
            /\ \A l \in Monitors \ {m} : monitor[l].at = "off" \/ loop.at = "off"
            /\ \A l \in Monitors \ {m} : monitor[l].at # "off" =>
                  checkpoint' = checkpoint /\ samples' = samples
            /\ InOrder(loop, checkpoint', samples')
            /\ Kept(checkpoint', samples')
  PROVE  MonitorInv'
<1>1. /\ monitor'[m] = loop /\ \A l \in Monitors \ {m} : monitor'[l] = monitor[l]
      /\ DOMAIN monitor' = Monitors
  BY DEF MonitorInv, MonitorTyped
<1>2. MonitorTyped'
  BY <1>1 DEF MonitorInv, MonitorTyped
<1>3. ASSUME ~drifted', NEW l \in Monitors
      PROVE  InOrder(monitor'[l], checkpoint', samples')
  <2>1. CASE l = m
    BY <2>1, <1>1, <1>3
  <2>2. CASE l # m /\ monitor[l].at = "off"
    BY <2>2, <1>1 DEF InOrder
  <2>3. CASE l # m /\ monitor[l].at # "off"
    BY <2>3, <1>1, <1>3 DEF MonitorInv
  <2> QED BY <2>1, <2>2, <2>3
<1>4. ASSUME ~drifted'
      PROVE  \A l, k \in Monitors : monitor'[l].at # "off" /\ monitor'[k].at # "off" => l = k
  BY <1>1, <1>4 DEF MonitorInv
<1> QED BY <1>2, <1>3, <1>4 DEF MonitorInv

\* The times of a chain increase strictly, and the samples it was made of are
\* kept as long as no probe failed and monitors did not overlap.
THEOREM MonitorSound == MonitorSpec => []ChainedSamplesKept
<1>1. MonitorInit => MonitorInv
  <2> SUFFICES ASSUME MonitorInit PROVE MonitorInv
    OBVIOUS
  <2>1. /\ clock = 0 /\ checkpoint = None /\ monitor = [m \in Monitors |-> Off]
    BY DEF MonitorInit
  <2>2. /\ DOMAIN Off = LoopFields /\ Off.at = "off" /\ Off.sequence = 0 /\ Off.previous = None
    BY DEF Off, LoopFields
  <2>3. MonitorTyped
    BY <2>1, <2>2 DEF MonitorTyped, Checkpoint
  <2>4. Kept(checkpoint, samples)
    BY <2>1 DEF Kept, Count
  <2> QED BY <2>1, <2>2, <2>3, <2>4 DEF MonitorInv, InOrder
<1>2. MonitorInv /\ [MonitorNext]_monitorVars => MonitorInv'
  <2> SUFFICES ASSUME MonitorInv, [MonitorNext]_monitorVars PROVE MonitorInv'
    OBVIOUS
  <2>1. CASE UNCHANGED monitorVars
    BY <2>1 DEF monitorVars, MonitorInv, MonitorTyped
  <2>2. CASE ClockTicks \/ ClockSetBack
    <3>1. clock' \in Nat
      BY <2>2 DEF ClockTicks, ClockSetBack, MonitorInv, MonitorTyped
    <3>2. UNCHANGED <<samples, checkpoint, monitor, drifted>>
      BY <2>2 DEF ClockTicks, ClockSetBack
    <3> QED BY <3>1, <3>2 DEF MonitorInv, MonitorTyped
  <2> SUFFICES ASSUME NEW m \in Monitors,
                      \/ StartMonitor(m) \/ Probe(m) \/ ProbeFails(m)
                      \/ SaveSample(m) \/ SaveCheckpoint(m) \/ MonitorKilled(m)
               PROVE  MonitorInv'
    BY <2>1, <2>2 DEF MonitorNext
  <2> DEFINE loop == monitor[m]
  <2>3. /\ DOMAIN loop = LoopFields /\ loop.sequence \in Nat /\ Checkpoint(loop.previous)
        /\ loop.at \in {"sampled", "saved"} => loop.sample \in Sample
        /\ clock \in Nat /\ Checkpoint(checkpoint) /\ Count(checkpoint) \in Nat
    BY CountIsNat DEF MonitorInv, MonitorTyped
  <2>4. /\ DOMAIN Off = LoopFields /\ Off.at = "off" /\ Off.sequence = 0
        /\ Off.previous = None /\ Off.sample = None
    BY DEF Off, LoopFields
  <2> DEFINE off == Off
  <2>4a. /\ DOMAIN off = LoopFields /\ off.at \in {"off", "probe", "sampled", "saved"}
         /\ off.sequence \in Nat /\ Checkpoint(off.previous)
         /\ ~ (off.at \in {"sampled", "saved"})
    BY <2>4 DEF Checkpoint
  <2> HIDE DEF off
  <2>5. ~drifted => /\ InOrder(loop, checkpoint, samples) /\ Kept(checkpoint, samples)
                    /\ \A l \in Monitors \ {m} :
                         monitor[l].at = "off" \/ loop.at = "off"
    BY DEF MonitorInv
  <2>6. CASE StartMonitor(m)
    <3> DEFINE next == [Off EXCEPT !.at = "probe", !.sequence = Count(checkpoint),
                                   !.previous = checkpoint]
    <3>1. /\ monitor' = [monitor EXCEPT ![m] = next]
          /\ UNCHANGED <<clock, samples, checkpoint>>
          /\ drifted' = (drifted \/ \E d \in Monitors : monitor[d].at # "off")
      BY <2>6 DEF StartMonitor
    <3>2. /\ DOMAIN next = LoopFields /\ next.at = "probe" /\ next.previous = checkpoint
          /\ next.sequence = Count(checkpoint)
      BY <2>4 DEF LoopFields
    <3> HIDE DEF next
    <3>3. ~drifted' => ~drifted /\ \A d \in Monitors : monitor[d].at = "off"
      BY <3>1
    <3>4. InOrder(next, checkpoint, samples)
      BY <3>2 DEF InOrder
    <3> QED BY <3>1, <3>2, <3>3, <3>4, <2>3, <2>5, MonitorStep
  <2>7. CASE Probe(m)
    <3>1. PICK ok \in BOOLEAN :
            monitor' = [monitor EXCEPT ![m].at = "sampled", ![m].sequence = @ + 1,
                                       ![m].sample = [time |-> clock, ok |-> ok]]
      BY <2>7 DEF Probe
    <3> DEFINE sample == [time |-> clock, ok |-> ok]
               next == [loop EXCEPT !.at = "sampled", !.sequence = loop.sequence + 1,
                                    !.sample = sample]
    <3>2. /\ monitor' = [monitor EXCEPT ![m] = next]
          /\ UNCHANGED <<clock, samples, checkpoint, drifted>> /\ loop.at = "probe"
      <4>1. monitor[m].at = "probe" /\ UNCHANGED <<clock, samples, checkpoint, drifted>>
        BY <2>7 DEF Probe
      <4>2. DOMAIN monitor = Monitors
        BY DEF MonitorInv, MonitorTyped
      <4> HIDE DEF sample
      <4> QED BY <3>1, <4>1, <4>2 DEF sample
    <3>3. sample \in Sample
      BY <2>3 DEF Sample
    <3> HIDE DEF sample
    <3>4. /\ DOMAIN next = LoopFields /\ next.at = "sampled" /\ next.previous = loop.previous
          /\ next.sequence = loop.sequence + 1 /\ next.sample = sample
      BY <2>3 DEF LoopFields
    <3> HIDE DEF next
    <3>5. ~drifted => InOrder(next, checkpoint, samples)
      BY <3>2, <3>4, <2>5 DEF InOrder
    <3>6. ~drifted' => /\ ~drifted /\ InOrder(next, checkpoint', samples')
                       /\ Kept(checkpoint', samples')
                       /\ \A l \in Monitors \ {m} : monitor[l].at = "off" \/ next.at = "off"
                       /\ \A l \in Monitors \ {m} : monitor[l].at # "off" =>
                            checkpoint' = checkpoint /\ samples' = samples
      BY <3>2, <3>4, <3>5, <2>5
    <3> HIDE DEF loop
    <3>7. next.at \in {"off", "probe", "sampled", "saved"} /\ next.sequence \in Nat
      BY <3>4, <2>3
    <3> QED BY <3>2, <3>3, <3>4, <3>6, <3>7, <2>3, MonitorStep
  <2>8. CASE ProbeFails(m)
    <3> DEFINE next == [loop EXCEPT !.sequence = loop.sequence + 1]
    <3>1. /\ monitor' = [monitor EXCEPT ![m] = next] /\ loop.at = "probe"
          /\ UNCHANGED <<clock, samples, checkpoint>> /\ drifted'
      BY <2>8 DEF ProbeFails, MonitorInv, MonitorTyped
    <3>2. /\ DOMAIN next = LoopFields /\ next.at = "probe" /\ next.previous = loop.previous
          /\ next.sequence = loop.sequence + 1
      BY <2>3, <3>1 DEF LoopFields
    <3> HIDE DEF next, loop
    <3>3. next.at \in {"off", "probe", "sampled", "saved"} /\ next.sequence \in Nat
      BY <3>1, <3>2, <2>3
    <3> QED BY <3>1, <3>2, <3>3, <2>3, MonitorStep
  <2>9. CASE SaveSample(m)
    <3> DEFINE next == [loop EXCEPT !.at = "saved"]
               kept == [n \in DOMAIN samples \cup {loop.sequence} |->
                          IF n = loop.sequence THEN loop.sample ELSE samples[n]]
    <3>1. /\ monitor' = [monitor EXCEPT ![m] = next] /\ loop.at = "sampled"
          /\ UNCHANGED <<clock, checkpoint, drifted>> /\ samples' = kept
      BY <2>9 DEF SaveSample, MonitorInv, MonitorTyped
    <3>2. /\ DOMAIN next = LoopFields /\ next.at = "saved" /\ next.previous = loop.previous
          /\ next.sequence = loop.sequence /\ next.sample = loop.sample
      BY <2>3, <3>1 DEF LoopFields
    <3> HIDE DEF next
    <3>3. loop.sequence \in DOMAIN kept /\ kept[loop.sequence] = loop.sample
      OBVIOUS
    <3>4. \A i \in DOMAIN samples : i # loop.sequence => i \in DOMAIN kept /\ kept[i] = samples[i]
      OBVIOUS
    <3> HIDE DEF kept
    <3>5. ~drifted => InOrder(next, checkpoint, kept) /\ Kept(checkpoint, kept)
      <4> SUFFICES ASSUME ~drifted
                   PROVE  InOrder(next, checkpoint, kept) /\ Kept(checkpoint, kept)
        OBVIOUS
      <4>1. loop.previous = checkpoint /\ loop.sequence = Count(checkpoint) + 1
        BY <3>1, <2>5 DEF InOrder
      <4>2. InOrder(next, checkpoint, kept)
        BY <3>2, <3>3, <4>1 DEF InOrder
      <4>3. \A i \in 1..Count(checkpoint) : i # loop.sequence
        BY <4>1, <2>3
      <4>4. Kept(checkpoint, kept)
        BY <3>4, <4>3, <2>5 DEF Kept
      <4> QED BY <4>2, <4>4
    <3> QED BY <3>1, <3>2, <3>5, <2>3, <2>5, MonitorStep
  <2>10. CASE SaveCheckpoint(m)
    <3> DEFINE next == Chained(loop.previous, loop.sample)
               newer == loop.previous # None
                          => loop.sample.time > Last(loop.previous.chain).time
    <3>1. /\ loop.at = "saved" /\ UNCHANGED <<clock, samples, drifted>>
          /\ loop.sample \in Sample
      BY <2>10, <2>3 DEF SaveCheckpoint
    <3>2. CASE newer
      <4> DEFINE after == [loop EXCEPT !.previous = next, !.sample = None,
                             !.at = IF next.complete THEN "off" ELSE "probe"]
      <4>1. checkpoint' = next /\ monitor' = [monitor EXCEPT ![m] = after]
        BY <2>10, <3>2 DEF SaveCheckpoint, MonitorInv, MonitorTyped
      <4>2. /\ next # None /\ Checkpoint(next) /\ Count(next) = Count(loop.previous) + 1
            /\ \A i \in 1..Count(loop.previous) : next.chain[i] = loop.previous.chain[i]
            /\ next.chain[Count(loop.previous) + 1] = loop.sample
        BY <2>3, <3>1, <3>2, ChainedGrows
      <4> HIDE DEF next
      <4>3. /\ DOMAIN after = LoopFields /\ after.at \in {"off", "probe"}
            /\ after.previous = next /\ after.sequence = loop.sequence
        BY <2>3 DEF LoopFields
      <4> HIDE DEF after
      <4>4. ~drifted => InOrder(after, next, samples) /\ Kept(next, samples)
        <5> SUFFICES ASSUME ~drifted
                     PROVE  InOrder(after, next, samples) /\ Kept(next, samples)
          OBVIOUS
        <5>1. /\ loop.previous = checkpoint /\ loop.sequence = Count(checkpoint) + 1
              /\ loop.sequence \in DOMAIN samples /\ samples[loop.sequence] = loop.sample
          BY <3>1, <2>5 DEF InOrder
        <5>2. InOrder(after, next, samples)
          BY <4>2, <4>3, <5>1 DEF InOrder
        <5>3. ASSUME NEW i \in 1..Count(next)
              PROVE  i \in DOMAIN samples /\ samples[i] = next.chain[i]
          <6>1. CASE i = loop.sequence
            BY <6>1, <5>1, <4>2
          <6>2. CASE i # loop.sequence
            <7>1. i \in 1..Count(checkpoint)
              BY <6>2, <5>1, <4>2, <2>3
            <7> QED BY <7>1, <5>1, <4>2, <2>5 DEF Kept
          <6> QED BY <6>1, <6>2
        <5> QED BY <5>2, <5>3 DEF Kept
      <4> QED BY <3>1, <4>1, <4>2, <4>3, <4>4, <2>3, <2>5, MonitorStep
    <3>3. CASE ~newer
      <4>1. checkpoint' = checkpoint /\ monitor' = [monitor EXCEPT ![m] = Off]
        BY <2>10, <3>3 DEF SaveCheckpoint
      <4>2. InOrder(Off, checkpoint, samples)
        BY <2>4 DEF InOrder
      <4>3. monitor' = [monitor EXCEPT ![m] = off]
        BY <4>1 DEF off
      <4>4. ~drifted' => /\ ~drifted /\ InOrder(off, checkpoint', samples')
                         /\ Kept(checkpoint', samples')
                         /\ \A l \in Monitors \ {m} : monitor[l].at = "off" \/ off.at = "off"
                         /\ \A l \in Monitors \ {m} : monitor[l].at # "off" =>
                              checkpoint' = checkpoint /\ samples' = samples
        BY <3>1, <4>1, <4>2, <2>4, <2>5 DEF off
      <4> HIDE DEF loop
      <4> QED BY <3>1, <4>1, <4>3, <4>4, <2>3, <2>4a, MonitorStep
    <3> QED BY <3>2, <3>3
  <2>11. CASE MonitorKilled(m)
    <3>1. /\ UNCHANGED <<clock, samples, checkpoint, drifted>>
          /\ monitor' = [monitor EXCEPT ![m] = Off]
      BY <2>11 DEF MonitorKilled
    <3>2. InOrder(Off, checkpoint, samples)
      BY <2>4 DEF InOrder
    <3>3. monitor' = [monitor EXCEPT ![m] = off]
      BY <3>1 DEF off
    <3>4. ~drifted' => /\ ~drifted /\ InOrder(off, checkpoint', samples')
                       /\ Kept(checkpoint', samples')
                       /\ \A l \in Monitors \ {m} : monitor[l].at = "off" \/ off.at = "off"
                       /\ \A l \in Monitors \ {m} : monitor[l].at # "off" =>
                            checkpoint' = checkpoint /\ samples' = samples
      BY <3>1, <3>2, <2>4, <2>5 DEF off
    <3> HIDE DEF loop
    <3> QED BY <3>1, <3>3, <3>4, <2>3, <2>4a, MonitorStep
  <2> QED BY <2>6, <2>7, <2>8, <2>9, <2>10, <2>11
<1>3. MonitorInv => ChainedSamplesKept
  <2> SUFFICES ASSUME MonitorInv, checkpoint # None
               PROVE  /\ Increasing(checkpoint.chain)
                      /\ ~drifted => \A i \in DOMAIN checkpoint.chain :
                                       i \in DOMAIN samples /\ samples[i] = checkpoint.chain[i]
    BY DEF ChainedSamplesKept, Increasing
  <2>1. Checkpoint(checkpoint) /\ DOMAIN checkpoint.chain = 1..Count(checkpoint)
    BY CountIsNat DEF MonitorInv, MonitorTyped
  <2> QED BY <2>1 DEF MonitorInv, Checkpoint, Kept
<1> QED BY <1>1, <1>2, <1>3, PTL DEF MonitorSpec

-----------------------------------------------------------------------------
(* The explorer's index.                                                   *)

IndexTyped ==
  /\ source.height \in Nat /\ source.base \in 0..source.height
  /\ DOMAIN source = {"height", "base"}
  /\ DOMAIN index = {"commits", "indexed", "base", "accounts"}
  /\ index = [x \in {"commits", "indexed", "base", "accounts"} |-> index[x]]
  /\ index.base \in Nat /\ index.indexed \in Nat /\ index.accounts \in Nat
  /\ DOMAIN syncer = Syncers /\ replaced \in Nat
  /\ \A s \in Syncers : DOMAIN syncer[s] = {"at", "height", "base", "rows"}

\* A sync that runs read a height the source had; it holds all rows of that
\* height which the index lacks.
Syncing(s) ==
  syncer[s].at # "off" =>
    /\ syncer[s].base = source.base
    /\ syncer[s].height \in source.base..source.height
    /\ syncer[s].at = "rows" =>
         \E top \in syncer[s].height..source.height :
           syncer[s].rows = {h \in (source.base + 1)..top : h > index.indexed}

IndexInv ==
  /\ IndexTyped
  /\ \A s \in Syncers : Syncing(s)
  /\ \A s, t \in Syncers : syncer[s].at = "rows" /\ syncer[t].at = "rows" => s = t
  /\ ~widened => /\ (index.base + 1)..index.indexed \subseteq index.commits
                 /\ index.base <= source.base
  /\ replaced = 0 => /\ ~widened /\ source.base = 0 /\ index.base = 0
                     /\ index.commits \subseteq 1..source.height
                     /\ index.indexed <= index.accounts
                     /\ index.accounts <= source.height

\* No block is skipped, and an index that claims the height of a source that
\* was never replaced is what a rebuild makes.
THEOREM IndexSound == IndexSpec => []IndexHoldsEveryCommit
<1>1. IndexInit => IndexInv
  <2> SUFFICES ASSUME IndexInit PROVE IndexInv
    OBVIOUS
  <2>1. /\ source = [height |-> 0, base |-> 0]
        /\ index = [commits |-> {}, indexed |-> 0, base |-> 0, accounts |-> 0]
        /\ syncer = [s \in Syncers |-> Waiting] /\ replaced = 0 /\ widened = FALSE
    BY DEF IndexInit
  <2>2. Waiting.at = "off" /\ DOMAIN Waiting = {"at", "height", "base", "rows"}
    BY DEF Waiting
  <2>3. IndexTyped
    BY <2>1, <2>2 DEF IndexTyped
  <2> QED BY <2>1, <2>2, <2>3 DEF IndexInv, Syncing
<1>2. IndexInv /\ [IndexNext]_indexVars => IndexInv'
  <2> SUFFICES ASSUME IndexInv, [IndexNext]_indexVars PROVE IndexInv'
    OBVIOUS
  <2>1. CASE UNCHANGED indexVars
    BY <2>1 DEF indexVars, IndexInv, IndexTyped, Syncing
  <2>2. CASE SourceCommits
    <3>1. /\ source'.height = source.height + 1 /\ source'.base = source.base
          /\ DOMAIN source' = DOMAIN source
          /\ UNCHANGED <<index, syncer, syncs, replaced, widened>>
      BY <2>2 DEF SourceCommits, IndexInv, IndexTyped
    <3>2. IndexTyped'
      BY <3>1 DEF IndexInv, IndexTyped
    <3>3. ASSUME NEW s \in Syncers PROVE Syncing(s)'
      BY <3>1 DEF IndexInv, IndexTyped, Syncing
    <3>4. replaced = 0 => index.commits \subseteq 1..source'.height
                          /\ index.accounts <= source'.height
      BY <3>1 DEF IndexInv, IndexTyped
    <3> QED BY <3>1, <3>2, <3>3, <3>4 DEF IndexInv
  <2>3. CASE SourceReplaced
    <3>1. PICK h \in 0..MaxBlocks : \E b \in 0..h :
            /\ source' = [height |-> h, base |-> b]
            /\ widened' = (widened \/ b < index.base)
      BY <2>3 DEF SourceReplaced
    <3>2. PICK b \in 0..h : /\ source' = [height |-> h, base |-> b]
                            /\ widened' = (widened \/ b < index.base)
      BY <3>1
    <3>3. /\ \A s \in Syncers : syncer[s].at = "off"
          /\ replaced' = replaced + 1 /\ UNCHANGED <<index, syncer, syncs>>
      BY <2>3 DEF SourceReplaced
    <3>a. /\ source'.height = h /\ source'.base = b /\ h \in Nat /\ b \in 0..h
          /\ DOMAIN source' = {"height", "base"}
      BY <3>2
    <3>b. replaced' \in Nat /\ replaced' # 0
      BY <3>3 DEF IndexInv, IndexTyped
    <3>4. IndexTyped' /\ replaced' # 0
      BY ONLY <3>a, <3>b, <3>3, IndexInv DEF IndexInv, IndexTyped
    <3>c. ~widened' => ~(widened \/ b < index.base)
      BY ONLY <3>2, Zenon
    <3>d. ~(b < index.base) => index.base <= source'.base
      BY ONLY <3>a, IndexInv DEF IndexInv, IndexTyped
    <3>5. ~widened' => ~widened /\ index.base <= source'.base
      BY ONLY <3>c, <3>d, Zenon
    <3> QED BY <3>3, <3>4, <3>5 DEF IndexInv, Syncing
  <2> SUFFICES ASSUME NEW s \in Syncers,
                      ReadSource(s) \/ ReadCommits(s) \/ CommitIndex(s) \/ SyncKilled(s)
               PROVE  IndexInv'
    BY <2>1, <2>2, <2>3 DEF IndexNext
  <2>4. CASE ReadSource(s)
    <3> DEFINE next == [at |-> "read", height |-> source.height, base |-> source.base,
                        rows |-> {}]
    <3>1. /\ syncer' = [syncer EXCEPT ![s] = next] /\ UNCHANGED <<source, index, replaced, widened>>
      BY <2>4 DEF ReadSource
    <3>2. /\ syncer'[s] = next /\ \A t \in Syncers \ {s} : syncer'[t] = syncer[t]
          /\ DOMAIN syncer' = Syncers
      BY <3>1 DEF IndexInv, IndexTyped
    <3>3. /\ next.at = "read" /\ next.height = source.height /\ next.base = source.base
          /\ DOMAIN next = {"at", "height", "base", "rows"}
      OBVIOUS
    <3> HIDE DEF next
    <3>4. IndexTyped'
      BY <3>1, <3>2, <3>3 DEF IndexInv, IndexTyped
    <3>5. \A t \in Syncers : Syncing(t)'
      BY <3>1, <3>2, <3>3 DEF IndexInv, IndexTyped, Syncing
    <3> QED BY <3>1, <3>2, <3>3, <3>4, <3>5 DEF IndexInv
  <2>5. CASE ReadCommits(s)
    <3> DEFINE rows == {h \in (source.base + 1)..source.height : h > index.indexed}
               next == [syncer[s] EXCEPT !.at = "rows", !.rows = rows]
    <3>1. /\ syncer' = [syncer EXCEPT ![s] = next] /\ UNCHANGED <<source, index, replaced, widened>>
          /\ syncer[s].at = "read" /\ \A t \in Syncers : syncer[t].at # "rows"
      BY <2>5 DEF ReadCommits, IndexInv, IndexTyped
    <3>2. /\ syncer'[s] = next /\ \A t \in Syncers \ {s} : syncer'[t] = syncer[t]
          /\ DOMAIN syncer' = Syncers
      BY <3>1 DEF IndexInv, IndexTyped
    <3> HIDE DEF rows
    <3>3. /\ next.at = "rows" /\ next.height = syncer[s].height /\ next.base = syncer[s].base
          /\ next.rows = rows /\ DOMAIN next = {"at", "height", "base", "rows"}
      BY DEF IndexInv, IndexTyped
    <3> HIDE DEF next
    <3>4. IndexTyped'
      BY <3>1, <3>2, <3>3 DEF IndexInv, IndexTyped
    <3>5. Syncing(s)'
      <4>1. source.height \in syncer[s].height..source.height
        BY <3>1 DEF IndexInv, IndexTyped, Syncing
      <4>2. \E top \in syncer[s].height..source.height :
              rows = {h \in (source.base + 1)..top : h > index.indexed}
        BY <4>1 DEF rows
      <4> QED BY <4>2, <3>1, <3>2, <3>3 DEF IndexInv, Syncing
    <3>6. \A t \in Syncers \ {s} : Syncing(t)'
      BY <3>1, <3>2 DEF IndexInv, Syncing
    <3> QED BY <3>1, <3>2, <3>4, <3>5, <3>6 DEF IndexInv
  <2>6. CASE CommitIndex(s)
    <3> DEFINE me == syncer[s]
               top == IF me.height > me.base THEN me.height ELSE me.base
               next == [commits |-> index.commits \cup me.rows, indexed |-> top,
                        base |-> me.base, accounts |-> source.height]
    <3>1. /\ me.at = "rows" /\ index' = next
          /\ syncer' = [syncer EXCEPT ![s] = Waiting]
          /\ UNCHANGED <<source, replaced, widened>>
      BY <2>6 DEF CommitIndex
    <3>2. /\ syncer'[s] = Waiting /\ \A t \in Syncers \ {s} : syncer'[t] = syncer[t]
          /\ DOMAIN syncer' = Syncers
      BY <3>1 DEF IndexInv, IndexTyped
    <3>3. Waiting.at = "off" /\ DOMAIN Waiting = {"at", "height", "base", "rows"}
      BY DEF Waiting
    <3>4. /\ me.base = source.base /\ source.base \in Nat /\ source.height \in Nat
          /\ me.height \in source.base..source.height
          /\ \E t \in me.height..source.height :
               me.rows = {h \in (source.base + 1)..t : h > index.indexed}
      BY <3>1 DEF IndexInv, IndexTyped, Syncing
    <3>5. PICK t \in me.height..source.height :
            me.rows = {h \in (source.base + 1)..t : h > index.indexed}
      BY <3>4
    <3>6. /\ index'.commits = index.commits \cup me.rows /\ index'.indexed = top
          /\ index'.base = source.base /\ index'.accounts = source.height
          /\ DOMAIN index' = {"commits", "indexed", "base", "accounts"}
          /\ index' = [x \in {"commits", "indexed", "base", "accounts"} |-> index'[x]]
      BY <3>1, <3>4
    <3>7. top = me.height /\ top \in Nat
      BY <3>4
    <3> HIDE DEF top, me, next
    <3>8. IndexTyped'
      BY <3>1, <3>2, <3>3, <3>4, <3>6, <3>7 DEF IndexInv, IndexTyped
    <3>9. \A v \in Syncers : Syncing(v)'
      BY <3>1, <3>2, <3>3 DEF IndexInv, Syncing, me
    <3>10. ASSUME ~widened, NEW k \in (source.base + 1)..top
           PROVE  k \in index.commits \cup me.rows
      <4>1. CASE k > index.indexed
        BY <4>1, <3>4, <3>5, <3>7
      <4>2. CASE ~ k > index.indexed
        <5>1. k \in (index.base + 1)..index.indexed
          BY <4>2, <3>4, <3>7, <3>10 DEF IndexInv, IndexTyped
        <5> QED BY <5>1, <3>10 DEF IndexInv
      <4> QED BY <4>1, <4>2
    <3>11. me.rows \subseteq (source.base + 1)..source.height
      BY <3>4, <3>5
    <3>12. replaced = 0 => /\ index'.commits \subseteq 1..source.height
                           /\ index'.indexed <= index'.accounts
      BY <3>4, <3>6, <3>7, <3>11 DEF IndexInv
    <3> QED BY <3>1, <3>2, <3>3, <3>4, <3>6, <3>8, <3>9, <3>10, <3>12 DEF IndexInv
  <2>7. CASE SyncKilled(s)
    <3>1. /\ syncer' = [syncer EXCEPT ![s] = Waiting] /\ UNCHANGED <<source, index, replaced, widened>>
      BY <2>7 DEF SyncKilled
    <3>2. /\ syncer'[s] = Waiting /\ \A t \in Syncers \ {s} : syncer'[t] = syncer[t]
          /\ DOMAIN syncer' = Syncers
      BY <3>1 DEF IndexInv, IndexTyped
    <3>3. Waiting.at = "off" /\ DOMAIN Waiting = {"at", "height", "base", "rows"}
      BY DEF Waiting
    <3>4. IndexTyped'
      BY <3>1, <3>2, <3>3 DEF IndexInv, IndexTyped
    <3>5. \A t \in Syncers : Syncing(t)'
      BY <3>1, <3>2, <3>3 DEF IndexInv, Syncing
    <3> QED BY <3>1, <3>2, <3>3, <3>4, <3>5 DEF IndexInv
  <2> QED BY <2>4, <2>5, <2>6, <2>7
<1>3. IndexInv => IndexHoldsEveryCommit
  <2> SUFFICES ASSUME IndexInv, replaced = 0, index.indexed = source.height
               PROVE  Reconciled
    BY DEF IndexInv, IndexHoldsEveryCommit
  <2>0. /\ source.height \in Nat /\ source.base = 0 /\ index.base = 0
        /\ index.indexed = source.height
        /\ (index.base + 1)..index.indexed \subseteq index.commits
        /\ index.commits \subseteq 1..source.height
        /\ index.indexed <= index.accounts /\ index.accounts <= source.height
        /\ index.accounts \in Nat
    BY DEF IndexInv, IndexTyped
  <2>1. index.commits = (source.base + 1)..source.height
    <3>1. source.base + 1 = 1 /\ index.base + 1 = 1
      BY ONLY <2>0
    <3> QED BY ONLY <2>0, <3>1, Zenon
  <2>2. index.accounts = source.height /\ index.base = source.base
    BY <2>0
  <2>3. index = [x \in {"commits", "indexed", "base", "accounts"} |-> index[x]]
    BY DEF IndexInv, IndexTyped
  <2> QED BY <2>1, <2>2, <2>3 DEF Reconciled
<1> QED BY <1>1, <1>2, <1>3, PTL DEF IndexSpec

-----------------------------------------------------------------------------
(* The migration of a database.                                            *)

MigrationTyped ==
  /\ DOMAIN live = {"version", "core", "validators"}
  /\ DOMAIN run = {"at", "network", "version", "core", "before"}
  /\ run.network \in Networks
  /\ live.version = 21 => live.validators = Validators(Network)
  /\ live.version = 19 => live.validators = {}
  /\ run.at # "off" => run.version = live.version /\ run.version \in {19, 20, 21}

\* What the copy is while a command works on it.
Copied ==
  /\ run.at \in {"copying", "lifecycle", "governance", "fill", "check"} => report = NoFile
  /\ run.at \in {"lifecycle", "governance", "fill", "check"} =>
       DOMAIN output = {"version", "core", "validators"}
  /\ run.at = "lifecycle" => output.version = 19
  /\ run.at \in {"governance", "fill"} => output.version = 20
  /\ run.at = "fill" => output.validators \subseteq Validators(run.network)
  /\ run.at = "check" =>
       /\ output.version = 21
       /\ output.validators \in {Validators(run.network), Validators(Network)}

MigrationInv == MigrationTyped /\ live.version \in {19, 20, 21} /\ Copied /\ MigratedIsWhole

\* A file that says schema 21 is whole, and a reported one is what was checked.
THEOREM MigrationSound == MigrationSpec => []MigratedIsWhole
<1> USE MigrationAssumption
<1>1. MigrationInit => MigrationInv
  <2> SUFFICES ASSUME MigrationInit PROVE MigrationInv
    OBVIOUS
  <2>1. PICK version \in {19, 20, 21}, some \in SUBSET Validators(Network) :
          /\ version = 19 => some = {}
          /\ version = 21 => some = Validators(Network)
          /\ live = [version |-> version, core |-> 0, validators |-> some]
    BY DEF MigrationInit
  <2>2. /\ live.version = version /\ live.validators = some
        /\ DOMAIN live = {"version", "core", "validators"}
    BY <2>1
  <2>3. output = NoFile /\ run = NoRun /\ report = NoFile
    BY DEF MigrationInit
  <2>4. /\ NoRun.at = "off" /\ NoRun.network = Network
        /\ DOMAIN NoRun = {"at", "network", "version", "core", "before"}
    BY DEF NoRun
  <2> QED BY <2>1, <2>2, <2>3, <2>4 DEF MigrationInv, MigrationTyped, Copied, MigratedIsWhole
<1>2. MigrationInv /\ [MigrationNext]_migrationVars => MigrationInv'
  <2> SUFFICES ASSUME MigrationInv, [MigrationNext]_migrationVars PROVE MigrationInv'
    OBVIOUS
  <2>a. /\ NoRun.at = "off" /\ NoRun.network \in Networks
        /\ DOMAIN NoRun = {"at", "network", "version", "core", "before"}
    BY DEF NoRun
  <2>b. ASSUME run' = NoRun, UNCHANGED live, MigratedIsWhole' PROVE MigrationInv'
    BY <2>a, <2>b DEF MigrationInv, MigrationTyped, Copied
  <2>1. CASE UNCHANGED migrationVars
    BY <2>1 DEF migrationVars, MigrationInv, MigrationTyped, Copied, MigratedIsWhole
  <2>2. CASE LiveCommits
    <3>1. /\ live' = [live EXCEPT !.core = @ + 1] /\ UNCHANGED <<output, run, runs, report>>
      BY <2>2 DEF LiveCommits
    <3>2. /\ live'.version = live.version /\ live'.validators = live.validators
          /\ DOMAIN live' = DOMAIN live
      BY <3>1 DEF MigrationInv, MigrationTyped
    <3> QED BY <3>1, <3>2 DEF MigrationInv, MigrationTyped, Copied, MigratedIsWhole
  <2>3. CASE StartRun
    <3>1. PICK network \in Networks :
            run' = [at |-> "copy", network |-> network, version |-> live.version,
                    core |-> Fingerprint(live), before |-> 0]
      BY <2>3 DEF StartRun
    <3>2. /\ run'.at = "copy" /\ run'.network = network /\ run'.version = live.version
          /\ DOMAIN run' = {"at", "network", "version", "core", "before"}
          /\ UNCHANGED <<live, output, report>>
      BY <2>3, <3>1 DEF StartRun
    <3> QED BY <3>2 DEF MigrationInv, MigrationTyped, Copied, MigratedIsWhole
  <2>4. CASE BeginCopy
    <3>1. /\ run.at = "copy" /\ output' = HalfCopied /\ report' = NoFile
          /\ run' = [run EXCEPT !.at = "copying", !.before = live.core]
          /\ UNCHANGED live
      BY <2>4 DEF BeginCopy
    <3>2. /\ run'.at = "copying" /\ run'.network = run.network
          /\ run'.version = run.version /\ DOMAIN run' = DOMAIN run
      BY <3>1 DEF MigrationInv, MigrationTyped
    <3> QED BY <3>1, <3>2 DEF MigrationInv, MigrationTyped, Copied, MigratedIsWhole
  <2>5. CASE EndCopy
    <3>1. run.at = "copying" /\ UNCHANGED <<live, report>> /\ report = NoFile
      BY <2>5 DEF EndCopy, MigrationInv, Copied
    <3>2. CASE run.version = 19 /\ live.core # run.before
      <4>1. output' = NoFile /\ run' = NoRun
        BY <2>5, <3>2 DEF EndCopy, Ends
      <4> QED BY <2>b, <3>1, <4>1 DEF MigratedIsWhole
    <3>3. CASE ~ (run.version = 19 /\ live.core # run.before)
      <4> DEFINE next == CASE run.version = 19 -> "lifecycle"
                           [] run.version = 20 -> "governance"
                           [] OTHER -> "check"
      <4>1. output' = live /\ run' = [run EXCEPT !.at = next]
        BY <2>5, <3>3 DEF EndCopy
      <4>2. /\ run.version = 19 => next = "lifecycle"
            /\ run.version = 20 => next = "governance"
            /\ run.version = 21 => next = "check"
        OBVIOUS
      <4> HIDE DEF next
      <4>3. /\ run'.at = next /\ run'.network = run.network
            /\ run'.version = run.version /\ DOMAIN run' = DOMAIN run
        BY <4>1 DEF MigrationInv, MigrationTyped
      <4>4. run.version = live.version /\ run.version \in {19, 20, 21}
        BY <3>1 DEF MigrationInv, MigrationTyped
      <4>5. MigrationTyped' /\ live'.version \in {19, 20, 21}
        BY <3>1, <4>3 DEF MigrationInv, MigrationTyped
      <4>6. Copied'
        BY <3>1, <4>1, <4>2, <4>3, <4>4 DEF MigrationInv, MigrationTyped, Copied
      <4>7. MigratedIsWhole'
        BY <3>1, <4>1 DEF MigrationInv, MigrationTyped, MigratedIsWhole
      <4> QED BY <4>5, <4>6, <4>7 DEF MigrationInv
    <3> QED BY <3>2, <3>3
  <2>6. CASE AddLifecycle
    <3>1. /\ run.at = "lifecycle" /\ output' = [output EXCEPT !.version = 20]
          /\ run' = [run EXCEPT !.at = "governance"] /\ UNCHANGED <<live, report>>
      BY <2>6 DEF AddLifecycle
    <3>2. /\ run'.at = "governance" /\ run'.network = run.network
          /\ run'.version = run.version /\ DOMAIN run' = DOMAIN run
      BY <3>1 DEF MigrationInv, MigrationTyped
    <3>3. output'.version = 20 /\ DOMAIN output' = {"version", "core", "validators"}
      BY <3>1 DEF MigrationInv, Copied
    <3> QED BY <3>1, <3>2, <3>3 DEF MigrationInv, MigrationTyped, Copied, MigratedIsWhole
  <2>7. CASE AddGovernance
    <3>1. run.at = "governance" /\ UNCHANGED <<live, output, report>>
      BY <2>7 DEF AddGovernance
    <3>2. CASE output.validators = {}
      <4>1. run' = [run EXCEPT !.at = "fill"]
        BY <2>7, <3>2 DEF AddGovernance
      <4>2. /\ run'.at = "fill" /\ run'.network = run.network
            /\ run'.version = run.version /\ DOMAIN run' = DOMAIN run
        BY <4>1 DEF MigrationInv, MigrationTyped
      <4> QED BY <3>1, <3>2, <4>2 DEF MigrationInv, MigrationTyped, Copied, MigratedIsWhole
    <3>3. CASE output.validators # {}
      <4>1. run' = NoRun
        BY <2>7, <3>3 DEF AddGovernance, Ends
      <4> QED BY <2>b, <3>1, <4>1 DEF MigrationInv, MigratedIsWhole
    <3> QED BY <3>2, <3>3
  <2>8. CASE InsertValidator
    <3>1. PICK v \in Validators(run.network) \ output.validators :
            output' = [output EXCEPT !.validators = @ \cup {v}]
      BY <2>8 DEF InsertValidator
    <3>2. run.at = "fill" /\ UNCHANGED <<live, run, report>>
      BY <2>8 DEF InsertValidator
    <3>3. /\ output'.version = output.version
          /\ output'.validators = output.validators \cup {v}
          /\ DOMAIN output' = DOMAIN output
      BY <3>1, <3>2 DEF MigrationInv, Copied
    <3> QED BY <3>2, <3>3 DEF MigrationInv, MigrationTyped, Copied, MigratedIsWhole
  <2>9. CASE StampVersion
    <3>1. /\ run.at = "fill" /\ Validators(run.network) \subseteq output.validators
          /\ output' = [output EXCEPT !.version = 21]
          /\ run' = [run EXCEPT !.at = "check"] /\ UNCHANGED <<live, report>>
      BY <2>9 DEF StampVersion
    <3>2. /\ run'.at = "check" /\ run'.network = run.network
          /\ run'.version = run.version /\ DOMAIN run' = DOMAIN run
      BY <3>1 DEF MigrationInv, MigrationTyped
    <3>3. /\ output'.version = 21 /\ output'.validators = output.validators
          /\ DOMAIN output' = {"version", "core", "validators"}
      BY <3>1 DEF MigrationInv, Copied
    <3>4. output.validators = Validators(run.network)
      BY <3>1 DEF MigrationInv, Copied
    <3> QED BY <3>1, <3>2, <3>3, <3>4 DEF MigrationInv, MigrationTyped, Copied, MigratedIsWhole
  <2>10. CASE CheckOutput
    <3>1. run.at = "check" /\ run' = NoRun /\ UNCHANGED <<live, output>>
      BY <2>10 DEF CheckOutput, Ends
    <3>2. report' # NoFile => report' = output /\ run.network = Network
      BY <2>10 DEF CheckOutput
    <3>3. MigratedIsWhole'
      BY <3>1, <3>2 DEF MigrationInv, Copied, MigratedIsWhole
    <3> QED BY <2>b, <3>1, <3>3
  <2>11. CASE RunKilled
    <3>1. run' = NoRun /\ UNCHANGED <<live, output, report>>
      BY <2>11 DEF RunKilled, Ends
    <3> QED BY <2>b, <3>1 DEF MigrationInv, MigratedIsWhole
  <2> QED BY <2>1, <2>2, <2>3, <2>4, <2>5, <2>6, <2>7, <2>8, <2>9, <2>10, <2>11
          DEF MigrationNext
<1>3. MigrationInv => MigratedIsWhole
  BY DEF MigrationInv
<1> QED BY <1>1, <1>2, <1>3, PTL DEF MigrationSpec

-----------------------------------------------------------------------------
(* The restoring side of state sync.                                       *)

IsSession(file) ==
  /\ DOMAIN file = {"height", "metadata", "trusted", "received"}
  /\ file.trusted = Genuine[file.height]

\* What a session counts is there as it was named, or a kill cut it short.
OnDisk(file) ==
  \A i \in file.received :
    i \in DOMAIN chunks /\ chunks[i] \in {file.metadata.hashes[i], Truncated}

\* What a call holds, other calls or not.
Carries(h) ==
  /\ DOMAIN call[h] = {"at", "held", "index"}
  /\ call[h].at \in {"forget", "open", "chunk", "count", "verify"} =>
       IsSession(call[h].held)
  /\ call[h].at \in {"forget", "open"} => call[h].held.received = {}
  /\ call[h].at \in {"import", "receipt"} =>
       call[h].held # Pristine /\ call[h].held = Genuine[call[h].held.height]
  /\ call[h].at = "receipt" => imported # Pristine

\* And how it fits the files, as long as it is the only one.
Undisturbed(h) ==
  /\ call[h].at = "chunk" =>
       /\ session \notin {NoSession, Truncated}
       /\ call[h].held.metadata = session.metadata
       /\ call[h].held.received = session.received \cup {call[h].index}
  /\ call[h].at = "count" => OnDisk(call[h].held)
  /\ call[h].at = "import" => imported = Pristine
  /\ call[h].at = "receipt" => imported = call[h].held
  /\ call[h].at = "sweep" => session = NoSession

RestoreInv ==
  /\ DOMAIN call = Handlers
  /\ session \notin {NoSession, Truncated} => IsSession(session)
  /\ \A h \in Handlers : Carries(h)
  /\ ~cut => /\ \A g, h \in Handlers : call[g].at # "off" /\ call[h].at # "off" => g = h
             /\ \A h \in Handlers : Undisturbed(h)
  /\ RestoredIsTrusted
  /\ CountedChunksOnDisk

\* Whatever is offered and sent and wherever calls are killed or overlap, a
\* restore ends with the state the light client trusts, or with none; and what
\* a session counts is on disk, unless a kill inside an offer or an overlapping
\* call disturbed it since a call alone opened it.
THEOREM RestoreSound == RestoreSpec => []RestoreIsSound
<1> USE RestoreAssumption
<1>1. RestoreInit => RestoreInv
  <2> SUFFICES ASSUME RestoreInit PROVE RestoreInv
    OBVIOUS
  <2>1. /\ imported = Pristine /\ session = NoSession /\ receipt = NoSession
        /\ call = [h \in Handlers |-> Rest]
    BY DEF RestoreInit
  <2>2. Rest.at = "off" /\ DOMAIN Rest = {"at", "held", "index"}
    BY DEF Rest
  <2> QED BY <2>1, <2>2 DEF RestoreInv, Carries, Undisturbed, RestoredIsTrusted,
                            CountedChunksOnDisk, Readable
<1>2. RestoreInv /\ [RestoreNext]_restoreVars => RestoreInv'
  <2> SUFFICES ASSUME RestoreInv, [RestoreNext]_restoreVars PROVE RestoreInv'
    OBVIOUS
  <2>a. /\ Rest.at = "off" /\ DOMAIN Rest = {"at", "held", "index"}
    BY DEF Rest
  <2>1. CASE UNCHANGED restoreVars
    BY <2>1 DEF restoreVars, RestoreInv, Carries, Undisturbed, RestoredIsTrusted,
                CountedChunksOnDisk, Readable, IsSession, OnDisk
  <2>2. CASE Killed
    <3>1. /\ call' = [h \in Handlers |-> Rest] /\ UNCHANGED <<imported, receipt>>
          /\ cut' = (cut \/ \E h \in Handlers : call[h].at = "open")
      BY <2>2 DEF Killed
    <3>2. /\ DOMAIN call' = Handlers
          /\ \A h \in Handlers : call'[h] = Rest
      BY <3>1
    <3>3. ~cut' => ~cut /\ \A h \in Handlers : call[h].at # "open"
      BY ONLY <3>1, Zenon
    <3>4. (\A h \in Handlers : Carries(h)') /\ (\A h \in Handlers : Undisturbed(h)')
      BY <2>a, <3>2 DEF Carries, Undisturbed
    <3>5. RestoredIsTrusted'
      BY <3>1, <3>3 DEF RestoreInv, RestoredIsTrusted
    <3>6. /\ session' \notin {NoSession, Truncated} => IsSession(session')
          /\ CountedChunksOnDisk'
      <4>1. CASE UNCHANGED <<session, chunks>>
        BY <4>1, <3>3 DEF RestoreInv, CountedChunksOnDisk, Readable
      <4>2. CASE session' = Truncated
        BY <4>2 DEF CountedChunksOnDisk, Readable
      <4>3. ASSUME NEW h \in Handlers,
                   chunks' = [n \in DOMAIN chunks \cup {call[h].index} |->
                                IF n = call[h].index THEN Truncated ELSE chunks[n]],
                   UNCHANGED session
            PROVE  /\ session' \notin {NoSession, Truncated} => IsSession(session')
                   /\ CountedChunksOnDisk'
        <5>1. /\ DOMAIN chunks \subseteq DOMAIN chunks'
              /\ \A n \in DOMAIN chunks : chunks'[n] \in {Truncated, chunks[n]}
          BY <4>3
        <5> QED BY <5>1, <4>3, <3>3 DEF RestoreInv, CountedChunksOnDisk, Readable
      <4> QED BY <2>2, <4>1, <4>2, <4>3 DEF Killed
    <3> QED BY <2>a, <3>2, <3>4, <3>5, <3>6 DEF RestoreInv
  <2> SUFFICES ASSUME NEW h \in Handlers,
                      \/ Offer(h) \/ ForgetChunks(h) \/ OpenSession(h) \/ Receive(h)
                      \/ WriteChunkFile(h) \/ CountChunk(h) \/ VerifySession(h) \/ Import(h)
                      \/ WriteReceipt(h) \/ CloseSession(h) \/ SweepChunks(h)
               PROVE  RestoreInv'
    BY <2>1, <2>2 DEF RestoreNext
  <2>b. ASSUME NEW at, NEW held, Goes(h, at, held)
        PROVE  /\ call'[h].at = at /\ call'[h].held = held
               /\ DOMAIN call'[h] = {"at", "held", "index"}
               /\ DOMAIN call' = Handlers
               /\ \A g \in Handlers \ {h} : call'[g] = call[g]
    BY <2>b DEF Goes, RestoreInv
  \* A call that comes finds no other, or the disturbance is on record.
  <2>c. ASSUME Comes(h)
        PROVE  /\ ~cut' => ~cut /\ \A g \in Handlers : call[g].at = "off"
               /\ call[h].at = "off"
    <3>1. \/ (\A g \in Handlers : call[g].at = "off") /\ UNCHANGED cut
          \/ cut' = TRUE
      BY <2>c DEF Comes
    <3> QED BY <2>c, <3>1 DEF Comes
  <2>3. CASE Offer(h)
    <3>1. PICK offer \in Offers :
            Goes(h, "forget", [height |-> offer.height, metadata |-> offer.metadata,
                               trusted |-> Genuine[offer.height], received |-> {}])
      BY <2>3 DEF Offer
    <3> DEFINE file == [height |-> offer.height, metadata |-> offer.metadata,
                        trusted |-> Genuine[offer.height], received |-> {}]
    <3>2. IsSession(file) /\ file.received = {}
      BY DEF IsSession
    <3> HIDE DEF file
    <3>3. /\ call'[h].at = "forget" /\ call'[h].held = file
          /\ DOMAIN call'[h] = {"at", "held", "index"}
          /\ DOMAIN call' = Handlers
          /\ \A g \in Handlers \ {h} : call'[g] = call[g]
      BY <2>b, <3>1 DEF file
    <3>4. UNCHANGED <<imported, session, chunks, receipt>> /\ Comes(h)
      BY <2>3 DEF Offer
    <3>5. \A g \in Handlers : Carries(g)'
      BY <3>2, <3>3, <3>4 DEF RestoreInv, Carries, IsSession
    <3>6. ~cut' => /\ \A f, g \in Handlers :
                        call'[f].at # "off" /\ call'[g].at # "off" => f = g
                   /\ \A g \in Handlers : Undisturbed(g)'
      BY <2>c, <3>3, <3>4 DEF RestoreInv, Undisturbed
    <3>7. RestoredIsTrusted' /\ CountedChunksOnDisk'
      BY <2>c, <3>3, <3>4 DEF RestoreInv, RestoredIsTrusted, CountedChunksOnDisk, Readable
    <3> QED BY <3>3, <3>4, <3>5, <3>6, <3>7 DEF RestoreInv, IsSession
  <2>4. CASE ForgetChunks(h)
    <3>1. /\ call[h].at = "forget" /\ chunks' = << >>
          /\ UNCHANGED <<imported, session, receipt, disruptions, cut>>
      BY <2>4 DEF ForgetChunks
    <3>3. /\ call'[h].at = "open" /\ call'[h].held = call[h].held
          /\ DOMAIN call'[h] = {"at", "held", "index"}
          /\ DOMAIN call' = Handlers
          /\ \A g \in Handlers \ {h} : call'[g] = call[g]
      BY <2>4, <2>b DEF ForgetChunks
    <3>5. \A g \in Handlers : Carries(g)'
      BY <3>1, <3>3 DEF RestoreInv, Carries, IsSession
    <3>6. ~cut' => /\ \A f, g \in Handlers :
                        call'[f].at # "off" /\ call'[g].at # "off" => f = g
                   /\ \A g \in Handlers : Undisturbed(g)'
      BY <3>1, <3>3 DEF RestoreInv, Undisturbed
    <3>7. RestoredIsTrusted' /\ CountedChunksOnDisk'
      BY <3>1, <3>3 DEF RestoreInv, RestoredIsTrusted, CountedChunksOnDisk
    <3> QED BY <3>1, <3>3, <3>5, <3>6, <3>7 DEF RestoreInv, IsSession
  <2>5. CASE OpenSession(h)
    <3>1. /\ call[h].at = "open" /\ session' = call[h].held
          /\ UNCHANGED <<imported, chunks, receipt, disruptions>>
      BY <2>5 DEF OpenSession
    <3>2. ~cut' => \/ ~cut
                   \/ imported = Pristine /\ \A g \in Handlers \ {h} : call[g].at = "off"
      <4>1. cut' = (cut /\ \/ ~IsPristine
                            \/ \E g \in Handlers \ {h} : call[g].at # "off")
        BY <2>5 DEF OpenSession
      <4> QED BY ONLY <4>1, Zenon DEF IsPristine
    <3>3. /\ call'[h].at = "off"
          /\ DOMAIN call'[h] = {"at", "held", "index"}
          /\ DOMAIN call' = Handlers
          /\ \A g \in Handlers \ {h} : call'[g] = call[g]
      BY <2>5, <2>b DEF OpenSession
    <3>4. IsSession(session') /\ session'.received = {}
      BY <3>1 DEF RestoreInv, Carries
    <3>5. \A g \in Handlers : Carries(g)'
      BY <3>1, <3>3 DEF RestoreInv, Carries, IsSession
    <3>6. ~cut' => /\ \A f, g \in Handlers :
                        call'[f].at # "off" /\ call'[g].at # "off" => f = g
                   /\ \A g \in Handlers : Undisturbed(g)'
      BY <3>1, <3>2, <3>3 DEF RestoreInv, Undisturbed
    <3>7. RestoredIsTrusted' /\ CountedChunksOnDisk'
      BY <3>1, <3>2, <3>4 DEF RestoreInv, RestoredIsTrusted, CountedChunksOnDisk
    <3> QED BY <3>3, <3>4, <3>5, <3>6, <3>7 DEF RestoreInv, IsSession
  <2>6. CASE Receive(h)
    <3>1. PICK i \in DOMAIN session.metadata.hashes :
            call' = [call EXCEPT ![h] =
              [at |-> "chunk", held |-> [session EXCEPT !.received = @ \cup {i}],
               index |-> i]]
      BY <2>6 DEF Receive
    <3>2. /\ UNCHANGED <<imported, session, chunks, receipt>> /\ Comes(h)
          /\ session \notin {NoSession, Truncated}
      BY <2>6 DEF Receive, Readable
    <3> DEFINE file == [session EXCEPT !.received = @ \cup {i}]
    <3>4. /\ IsSession(file) /\ file.metadata = session.metadata
          /\ file.received = session.received \cup {i}
      BY <3>2 DEF RestoreInv, IsSession
    <3> HIDE DEF file
    <3>3. /\ call'[h].at = "chunk" /\ call'[h].held = file /\ call'[h].index = i
          /\ DOMAIN call'[h] = {"at", "held", "index"}
          /\ DOMAIN call' = Handlers
          /\ \A g \in Handlers \ {h} : call'[g] = call[g]
      BY <3>1 DEF RestoreInv, file
    <3>5. \A g \in Handlers : Carries(g)'
      BY <3>2, <3>3, <3>4 DEF RestoreInv, Carries, IsSession
    <3>6. ~cut' => /\ \A f, g \in Handlers :
                        call'[f].at # "off" /\ call'[g].at # "off" => f = g
                   /\ \A g \in Handlers : Undisturbed(g)'
      BY <2>c, <3>2, <3>3, <3>4 DEF RestoreInv, Undisturbed
    <3>7. RestoredIsTrusted' /\ CountedChunksOnDisk'
      BY <2>c, <3>2, <3>3 DEF RestoreInv, RestoredIsTrusted, CountedChunksOnDisk, Readable
    <3> QED BY <3>2, <3>3, <3>5, <3>6, <3>7 DEF RestoreInv, IsSession
  <2>7. CASE WriteChunkFile(h)
    <3> DEFINE i == call[h].index
               named == call[h].held.metadata.hashes[i]
    <3>1. /\ call[h].at = "chunk" /\ UNCHANGED <<imported, session, receipt, disruptions, cut>>
          /\ chunks' = [n \in DOMAIN chunks \cup {i} |->
                          IF n = i THEN named ELSE chunks[n]]
      BY <2>7 DEF WriteChunkFile
    <3>2. /\ i \in DOMAIN chunks' /\ chunks'[i] = named
          /\ \A n \in DOMAIN chunks \ {i} : n \in DOMAIN chunks' /\ chunks'[n] = chunks[n]
      BY <3>1
    <3>3. /\ call'[h].at = "count" /\ call'[h].held = call[h].held
          /\ DOMAIN call'[h] = {"at", "held", "index"}
          /\ DOMAIN call' = Handlers
          /\ \A g \in Handlers \ {h} : call'[g] = call[g]
      BY <2>7, <2>b DEF WriteChunkFile
    <3>4. ~cut => /\ \A g \in Handlers \ {h} : call[g].at = "off"
                  /\ session \notin {NoSession, Truncated}
                  /\ call[h].held.metadata = session.metadata
                  /\ call[h].held.received = session.received \cup {i}
                  /\ OnDisk(session)
      <4>1. ASSUME ~cut PROVE \A g \in Handlers \ {h} : call[g].at = "off"
        BY <3>1, <4>1 DEF RestoreInv
      <4>2. ASSUME ~cut
            PROVE  /\ session \notin {NoSession, Truncated}
                   /\ call[h].held.metadata = session.metadata
                   /\ call[h].held.received = session.received \cup {i}
        BY <3>1, <4>2 DEF RestoreInv, Undisturbed
      <4>3. ASSUME ~cut PROVE OnDisk(session)
        BY <3>1, <4>1, <4>2, <4>3 DEF RestoreInv, CountedChunksOnDisk, Readable, OnDisk
      <4> QED BY <4>1, <4>2, <4>3
    <3> HIDE DEF named
    <3>8. ~cut => \A n \in session.received \cup {i} :
                    n \in DOMAIN chunks' /\ chunks'[n] \in {session.metadata.hashes[n], Truncated}
      BY <3>2, <3>4 DEF OnDisk, named
    <3> HIDE DEF i
    <3>5. \A g \in Handlers : Carries(g)'
      BY <3>1, <3>3 DEF RestoreInv, Carries, IsSession
    <3>9. ~cut => Undisturbed(h)'
      BY <3>3, <3>4, <3>8 DEF Undisturbed, OnDisk
    <3>6. ~cut' => /\ \A f, g \in Handlers :
                        call'[f].at # "off" /\ call'[g].at # "off" => f = g
                   /\ \A g \in Handlers : Undisturbed(g)'
      BY <3>1, <3>3, <3>4, <3>9 DEF Undisturbed
    <3>7. RestoredIsTrusted' /\ CountedChunksOnDisk'
      BY <3>1, <3>8 DEF RestoreInv, RestoredIsTrusted, CountedChunksOnDisk
    <3> QED BY <3>1, <3>3, <3>5, <3>6, <3>7 DEF RestoreInv, IsSession
  <2>8. CASE CountChunk(h)
    <3>1. /\ call[h].at = "count" /\ session' = call[h].held
          /\ UNCHANGED <<imported, chunks, receipt, disruptions, cut>>
      BY <2>8 DEF CountChunk
    <3>3. /\ call'[h].at \in {"verify", "off"}
          /\ call'[h].at = "verify" => call'[h].held = call[h].held
          /\ DOMAIN call'[h] = {"at", "held", "index"}
          /\ DOMAIN call' = Handlers
          /\ \A g \in Handlers \ {h} : call'[g] = call[g]
      <4>1. Goes(h, "verify", call[h].held) \/ Goes(h, "off", NoSession)
        BY <2>8 DEF CountChunk
      <4> QED BY <4>1, <2>b
    <3>4. IsSession(session')
      BY <3>1 DEF RestoreInv, Carries
    <3>5. \A g \in Handlers : Carries(g)'
      BY <3>1, <3>3 DEF RestoreInv, Carries, IsSession
    <3>6. ~cut' => /\ \A f, g \in Handlers :
                        call'[f].at # "off" /\ call'[g].at # "off" => f = g
                   /\ \A g \in Handlers : Undisturbed(g)'
      BY <3>1, <3>3 DEF RestoreInv, Undisturbed
    <3>7. RestoredIsTrusted' /\ CountedChunksOnDisk'
      BY <3>1 DEF RestoreInv, Undisturbed, OnDisk, RestoredIsTrusted, CountedChunksOnDisk
    <3> QED BY <3>3, <3>4, <3>5, <3>6, <3>7 DEF RestoreInv, IsSession
  <2>9. CASE VerifySession(h)
    <3>1. /\ call[h].at = "verify"
          /\ UNCHANGED <<imported, session, chunks, receipt, disruptions, cut>>
      BY <2>9 DEF VerifySession
    <3>2. \/ Goes(h, "off", NoSession)
          \/ \E s \in Snapshots : /\ Goes(h, "import", s.state)
                                  /\ Verified(s, call[h].held) /\ imported = Pristine
      BY <2>9 DEF VerifySession, Decoded
    <3>3. /\ call'[h].at \in {"import", "off"}
          /\ call'[h].at = "import" =>
               /\ imported = Pristine /\ call'[h].held # Pristine
               /\ call'[h].held = Genuine[call'[h].held.height]
          /\ DOMAIN call'[h] = {"at", "held", "index"}
          /\ DOMAIN call' = Handlers
          /\ \A g \in Handlers \ {h} : call'[g] = call[g]
      <4>1. CASE Goes(h, "off", NoSession)
        BY <4>1, <2>b
      <4>2. ASSUME NEW s \in Snapshots, Goes(h, "import", s.state),
                   Verified(s, call[h].held), imported = Pristine
            PROVE  <3>3
        <5>1. s.state = Genuine[s.state.height] /\ s.state # Pristine
          BY <4>2, <3>1 DEF RestoreInv, Carries, IsSession, Verified
        <5> QED BY <4>2, <5>1, <2>b
      <4> QED BY <3>2, <4>1, <4>2
    <3>5. \A g \in Handlers : Carries(g)'
      BY <3>1, <3>3 DEF RestoreInv, Carries, IsSession
    <3>6. ~cut' => /\ \A f, g \in Handlers :
                        call'[f].at # "off" /\ call'[g].at # "off" => f = g
                   /\ \A g \in Handlers : Undisturbed(g)'
      BY <3>1, <3>3 DEF RestoreInv, Undisturbed, OnDisk
    <3>7. RestoredIsTrusted' /\ CountedChunksOnDisk'
      BY <3>1, <3>3 DEF RestoreInv, RestoredIsTrusted, CountedChunksOnDisk, Readable
    <3> QED BY <3>1, <3>3, <3>5, <3>6, <3>7 DEF RestoreInv, IsSession
  <2>10. CASE Import(h)
    <3>1. /\ call[h].at = "import" /\ imported' = call[h].held
          /\ UNCHANGED <<session, chunks, receipt, disruptions, cut>>
      BY <2>10 DEF Import
    <3>2. imported' # Pristine /\ imported' = Genuine[imported'.height]
      BY <3>1 DEF RestoreInv, Carries
    <3>3. /\ call'[h].at = "receipt" /\ call'[h].held = call[h].held
          /\ DOMAIN call'[h] = {"at", "held", "index"}
          /\ DOMAIN call' = Handlers
          /\ \A g \in Handlers \ {h} : call'[g] = call[g]
      BY <2>10, <2>b DEF Import
    <3>4. ~cut => receipt = NoSession
      BY <3>1 DEF RestoreInv, Undisturbed, RestoredIsTrusted
    <3>5. \A g \in Handlers : Carries(g)'
      BY <3>1, <3>2, <3>3 DEF RestoreInv, Carries, IsSession
    <3>6. ~cut' => /\ \A f, g \in Handlers :
                        call'[f].at # "off" /\ call'[g].at # "off" => f = g
                   /\ \A g \in Handlers : Undisturbed(g)'
      BY <3>1, <3>3 DEF RestoreInv, Undisturbed
    <3>7. RestoredIsTrusted' /\ CountedChunksOnDisk'
      BY <3>1, <3>2, <3>3, <3>4 DEF RestoreInv, RestoredIsTrusted, CountedChunksOnDisk, Readable
    <3> QED BY <3>1, <3>3, <3>5, <3>6, <3>7 DEF RestoreInv, IsSession
  <2>11. CASE WriteReceipt(h)
    <3>1. /\ call[h].at = "receipt" /\ receipt' = call[h].held
          /\ UNCHANGED <<imported, session, chunks, disruptions, cut>>
      BY <2>11 DEF WriteReceipt
    <3>3. /\ call'[h].at = "close"
          /\ DOMAIN call'[h] = {"at", "held", "index"}
          /\ DOMAIN call' = Handlers
          /\ \A g \in Handlers \ {h} : call'[g] = call[g]
      BY <2>11, <2>b DEF WriteReceipt
    <3>4. imported # Pristine /\ (~cut => imported = receipt')
      BY <3>1 DEF RestoreInv, Carries, Undisturbed
    <3>5. \A g \in Handlers : Carries(g)'
      BY <3>1, <3>3 DEF RestoreInv, Carries, IsSession
    <3>6. ~cut' => /\ \A f, g \in Handlers :
                        call'[f].at # "off" /\ call'[g].at # "off" => f = g
                   /\ \A g \in Handlers : Undisturbed(g)'
      BY <3>1, <3>3 DEF RestoreInv, Undisturbed
    <3>7. RestoredIsTrusted' /\ CountedChunksOnDisk'
      BY <3>1, <3>3, <3>4 DEF RestoreInv, RestoredIsTrusted, CountedChunksOnDisk, Readable
    <3> QED BY <3>1, <3>3, <3>5, <3>6, <3>7 DEF RestoreInv, IsSession
  <2>12. CASE CloseSession(h)
    <3>1. /\ call[h].at = "close" /\ session' = NoSession
          /\ UNCHANGED <<imported, chunks, receipt, disruptions, cut>>
      BY <2>12 DEF CloseSession
    <3>3. /\ call'[h].at = "sweep"
          /\ DOMAIN call'[h] = {"at", "held", "index"}
          /\ DOMAIN call' = Handlers
          /\ \A g \in Handlers \ {h} : call'[g] = call[g]
      BY <2>12, <2>b DEF CloseSession
    <3>5. \A g \in Handlers : Carries(g)'
      BY <3>1, <3>3 DEF RestoreInv, Carries, IsSession
    <3>6. ~cut' => /\ \A f, g \in Handlers :
                        call'[f].at # "off" /\ call'[g].at # "off" => f = g
                   /\ \A g \in Handlers : Undisturbed(g)'
      BY <3>1, <3>3 DEF RestoreInv, Undisturbed
    <3>7. RestoredIsTrusted' /\ CountedChunksOnDisk'
      BY <3>1 DEF RestoreInv, RestoredIsTrusted, CountedChunksOnDisk, Readable
    <3> QED BY <3>1, <3>3, <3>5, <3>6, <3>7 DEF RestoreInv, IsSession
  <2>13. CASE SweepChunks(h)
    <3>1. /\ call[h].at = "sweep" /\ chunks' = << >>
          /\ UNCHANGED <<imported, session, receipt, disruptions, cut>>
      BY <2>13 DEF SweepChunks
    <3>3. /\ call'[h].at = "off"
          /\ DOMAIN call'[h] = {"at", "held", "index"}
          /\ DOMAIN call' = Handlers
          /\ \A g \in Handlers \ {h} : call'[g] = call[g]
      BY <2>13, <2>b DEF SweepChunks
    <3>5. \A g \in Handlers : Carries(g)'
      BY <3>1, <3>3 DEF RestoreInv, Carries, IsSession
    <3>6. ~cut' => /\ \A f, g \in Handlers :
                        call'[f].at # "off" /\ call'[g].at # "off" => f = g
                   /\ \A g \in Handlers : Undisturbed(g)'
      BY <3>1, <3>3 DEF RestoreInv, Undisturbed
    <3>7. RestoredIsTrusted' /\ CountedChunksOnDisk'
      BY <3>1 DEF RestoreInv, Undisturbed, RestoredIsTrusted, CountedChunksOnDisk, Readable
    <3> QED BY <3>1, <3>3, <3>5, <3>6, <3>7 DEF RestoreInv, IsSession
  <2> QED BY <2>3, <2>4, <2>5, <2>6, <2>7, <2>8, <2>9, <2>10, <2>11, <2>12, <2>13
<1>3. RestoreInv => RestoreIsSound
  BY DEF RestoreInv, RestoreIsSound
<1> QED BY <1>1, <1>2, <1>3, PTL DEF RestoreSpec

-----------------------------------------------------------------------------
(* The serving side of state sync.                                         *)

StateSet == [accounts : Nat, governance : Nat, height : Nat, last : Nat]

StateAt(h) == IF h = 0 THEN FreshState ELSE committed[h]

Committed(state) == state.height \in 1..Len(committed) /\ state = committed[state.height]

\* A read is of a state not older than a height read before it, nor newer than
\* one read after it.
ReadOf(seen, i) ==
  \E h \in 0..Len(committed) :
    /\ seen[i] = StateAt(h)[Reads[i]]
    /\ \A j \in 1..(i - 1) : Reads[j] = "height" => seen[j] <= h
    /\ \A j \in (i + 1)..Len(seen) : Reads[j] = "height" => h <= seen[j]

Exporting(e) ==
  /\ DOMAIN exporter[e] = {"at", "seen", "snapshot", "written"}
  /\ exporter[e].at = "off" => exporter[e] = NotRunning
  /\ exporter[e].at = "read" =>
       /\ exporter[e].seen \in Seq(Nat) /\ Len(exporter[e].seen) <= 10
       /\ \A i \in 1..Len(exporter[e].seen) : ReadOf(exporter[e].seen, i)
  /\ exporter[e].at \in {"read", "clear"} => exporter[e].written = 0
  /\ exporter[e].at = "write" => exporter[e].written \in 0..Pieces
  /\ exporter[e].at \in {"clear", "write", "rename"} => Committed(exporter[e].snapshot)

\* What a call alone with its snapshot writes is what it wrote.
WrittenOut(e) ==
  LET name == exporter[e].snapshot
  IN /\ exporter[e].at = "write" => /\ name \in DOMAIN temp
                                    /\ temp[name].chunks = 1..exporter[e].written
     /\ exporter[e].at = "rename" => /\ name \in DOMAIN temp
                                     /\ temp[name].chunks = 1..Pieces

ExportTyped ==
  /\ committed \in Seq(StateSet)
  /\ \A h \in 1..Len(committed) : committed[h].height = h
  /\ DOMAIN db = {"pending", "state"} /\ db.state = StateAt(Len(committed))
  /\ DOMAIN exporter = Exporters
  /\ \A n \in DOMAIN temp : DOMAIN temp[n] = {"chunks", "manifest"}

\* A snapshot that two calls never wrote at one time.
Whole(n) ==
  /\ \A e, f \in Exporters : Working(e, n) /\ Working(f, n) => e = f
  /\ \A e \in Exporters : Working(e, n) => WrittenOut(e)
  /\ n \in DOMAIN temp /\ temp[n].manifest /\ n \notin abandoned =>
       \E e \in Exporters : exporter[e].at = "rename" /\ exporter[e].snapshot = n
  /\ n \in DOMAIN target /\ target[n].manifest => target[n].chunks = 1..Pieces

ExportInv ==
  /\ ExportTyped
  /\ \A e \in Exporters : Exporting(e)
  /\ \A name \in DOMAIN target : Committed(name)
  /\ \A n : n \notin overlapped => Whole(n)

LEMMA ReadsAre ==
  /\ Len(Reads) = 10
  /\ Reads[1] = "accounts" /\ Reads[2] = "governance" /\ Reads[3] = "height"
  /\ Reads[4] = "last" /\ Reads[5] = "accounts" /\ Reads[6] = "governance"
  /\ Reads[7] = "height" /\ Reads[8] = "last" /\ Reads[9] = "height"
  /\ Reads[10] = "last"
BY DEF Reads

LEMMA HeightOfState ==
  ASSUME ExportTyped, NEW h \in 0..Len(committed)
  PROVE  StateAt(h).height = h /\ StateAt(h) \in StateSet
<1>1. CASE h = 0
  BY <1>1 DEF StateAt, FreshState, StateSet
<1>2. CASE h # 0
  <2>1. h \in 1..Len(committed) /\ StateAt(h) = committed[h]
    BY <1>2 DEF StateAt, ExportTyped
  <2> QED BY <2>1 DEF ExportTyped
<1> QED BY <1>1, <1>2

\* Ten reads that agree where they are compared are of one committed state.
LEMMA ReadsOfOneState ==
  ASSUME ExportTyped, NEW seen, seen \in Seq(Nat), Len(seen) = 10,
         \A i \in 1..Len(seen) : ReadOf(seen, i),
         State(seen, 1) = Snapshot(seen).app, SelfConsistent(Snapshot(seen)),
         Snapshot(seen).state.height > 0
  PROVE  Committed(Snapshot(seen).state)
<1> DEFINE made == Snapshot(seen)
<1>0. seen \in Seq(Nat) /\ Len(seen) = 10
  OBVIOUS
<1>1. seen[3] \in Nat /\ seen[7] \in Nat /\ seen[9] \in Nat
  <2>1. \A i \in 1..Len(seen) : seen[i] \in Nat
    BY ONLY seen \in Seq(Nat)
  <2>2. 3 \in 1..10 /\ 7 \in 1..10 /\ 9 \in 1..10
    OBVIOUS
  <2> QED BY ONLY <1>0, <2>1, <2>2, Zenon
<1>2. /\ made.state = [accounts |-> seen[5], governance |-> seen[6],
                       height |-> seen[9], last |-> seen[10]]
      /\ made.app = [accounts |-> seen[5], governance |-> seen[6],
                     height |-> seen[7], last |-> seen[8]]
      /\ State(seen, 1) = [accounts |-> seen[1], governance |-> seen[2],
                           height |-> seen[3], last |-> seen[4]]
  <2>1. /\ State(seen, 5) = [accounts |-> seen[5], governance |-> seen[6],
                              height |-> seen[7], last |-> seen[8]]
        /\ State(seen, 1) = [accounts |-> seen[1], governance |-> seen[2],
                             height |-> seen[3], last |-> seen[4]]
    BY ONLY 5 + 1 = 6 /\ 5 + 2 = 7 /\ 5 + 3 = 8 /\ 1 + 1 = 2 /\ 1 + 2 = 3 /\ 1 + 3 = 4,
            Zenon DEF State
  <2>2. made = [state |-> [State(seen, 5) EXCEPT !.height = seen[9], !.last = seen[10]],
                app |-> State(seen, 5)]
    BY ONLY DEF Snapshot, made
  <2> HIDE DEF made
  <2>3. [State(seen, 5) EXCEPT !.height = seen[9], !.last = seen[10]]
          = [accounts |-> seen[5], governance |-> seen[6],
             height |-> seen[9], last |-> seen[10]]
    <3> DEFINE five == State(seen, 5)
    <3>1. five = [accounts |-> seen[5], governance |-> seen[6],
                  height |-> seen[7], last |-> seen[8]]
      BY ONLY <2>1
    <3> HIDE DEF five
    <3>2. [five EXCEPT !.height = seen[9]]
            = [accounts |-> seen[5], governance |-> seen[6],
               height |-> seen[9], last |-> seen[8]]
      BY ONLY <3>1
    <3> DEFINE higher == [five EXCEPT !.height = seen[9]]
    <3>3. higher = [accounts |-> seen[5], governance |-> seen[6],
                    height |-> seen[9], last |-> seen[8]]
      BY ONLY <3>2
    <3> HIDE DEF higher
    <3>4. [higher EXCEPT !.last = seen[10]]
            = [accounts |-> seen[5], governance |-> seen[6],
               height |-> seen[9], last |-> seen[10]]
      BY ONLY <3>3
    <3> QED BY ONLY <3>4 DEF five, higher
  <2> QED BY ONLY <2>1, <2>2, <2>3, Zenon
<1>3. made.state = made.app /\ State(seen, 1) = made.app /\ made.state.height > 0
  BY DEF SelfConsistent
<1> HIDE DEF made
<1>4. seen[3] = seen[7] /\ seen[9] = seen[7] /\ seen[10] = seen[8] /\ seen[7] > 0
  <2>1. State(seen, 1).height = seen[3] /\ made.app.height = seen[7] /\ made.app.last = seen[8]
        /\ made.state.height = seen[9] /\ made.state.last = seen[10]
    BY <1>2
  <2> QED BY <2>1, <1>3
<1>5. ASSUME NEW i \in 5..8 PROVE seen[i] = StateAt(seen[7])[Reads[i]] /\ seen[7] \in 0..Len(committed)
  <2>1. PICK h \in 0..Len(committed) :
          /\ seen[i] = StateAt(h)[Reads[i]]
          /\ \A j \in 1..(i - 1) : Reads[j] = "height" => seen[j] <= h
          /\ \A j \in (i + 1)..Len(seen) : Reads[j] = "height" => h <= seen[j]
    <3>1. i \in 1..Len(seen)
      OBVIOUS
    <3> QED BY <3>1 DEF ReadOf
  <2>2. seen[3] <= h /\ h <= seen[9]
    <3>1. 3 \in 1..(i - 1) /\ 9 \in (i + 1)..Len(seen)
      OBVIOUS
    <3> QED BY <3>1, <2>1, ReadsAre
  <2>3. h = seen[7]
    <3>1. h \in Int /\ seen[7] <= h /\ h <= seen[7] /\ seen[7] \in Int
      BY ONLY <2>2, <1>1, <1>4, h \in 0..Len(committed)
    <3>2. \A x, y \in Int : x <= y /\ y <= x => x = y
      BY ONLY TRUE
    <3> QED BY ONLY <3>1, <3>2, Zenon
  <2> QED BY <2>1, <2>3
<1>6. /\ seen[5] = StateAt(seen[7]).accounts /\ seen[6] = StateAt(seen[7]).governance
      /\ seen[7] = StateAt(seen[7]).height /\ seen[8] = StateAt(seen[7]).last
      /\ seen[7] \in 1..Len(committed)
  <2>1. 5 \in 5..8 /\ 6 \in 5..8 /\ 7 \in 5..8 /\ 8 \in 5..8
    OBVIOUS
  <2>2. /\ seen[5] = StateAt(seen[7])[Reads[5]] /\ seen[6] = StateAt(seen[7])[Reads[6]]
        /\ seen[7] = StateAt(seen[7])[Reads[7]] /\ seen[8] = StateAt(seen[7])[Reads[8]]
        /\ seen[7] \in 0..Len(committed)
    BY <1>5, <2>1
  <2> QED BY <2>2, <1>4, ReadsAre
<1>7. StateAt(seen[7]) = committed[seen[7]] /\ committed[seen[7]] \in StateSet
  BY <1>6 DEF StateAt, ExportTyped
<1>8. committed[seen[7]] = [accounts |-> seen[5], governance |-> seen[6],
                        height |-> seen[7], last |-> seen[8]]
  BY <1>6, <1>7 DEF StateSet
<1>9. made.state = committed[seen[7]] /\ made.state.height = seen[7]
  BY <1>2, <1>4, <1>8
<1> QED BY <1>6, <1>9 DEF Committed, made

LEMMA ExportStarts == ExportInit => ExportInv
<1> SUFFICES ASSUME ExportInit PROVE ExportInv
  OBVIOUS
<1>1. /\ db = [pending |-> FALSE, state |-> FreshState] /\ committed = << >>
      /\ exporter = [e \in Exporters |-> NotRunning]
      /\ temp = << >> /\ target = << >>
  BY DEF ExportInit
<1>2. NotRunning.at = "off" /\ DOMAIN NotRunning = {"at", "seen", "snapshot", "written"}
  BY DEF NotRunning
<1>3. << >> \in Seq(StateSet) /\ Len(<< >>) = 0 /\ DOMAIN << >> = {}
  OBVIOUS
<1>4. ExportTyped
  BY <1>1, <1>3 DEF ExportTyped, StateAt
<1>5. \A e \in Exporters : Exporting(e) /\ exporter[e].at = "off"
  BY <1>1, <1>2 DEF Exporting
<1>6. \A n : Whole(n)
  BY <1>1, <1>3, <1>5 DEF Whole, Working
<1> QED BY <1>1, <1>3, <1>4, <1>5, <1>6 DEF ExportInv

\* The commit of a block: what was committed stays what it is.
LEMMA CommitKeeps == ExportInv /\ Commit => ExportInv'
<1> SUFFICES ASSUME ExportInv, Commit PROVE ExportInv'
  OBVIOUS
<1> DEFINE n == Len(committed)
<1>1. PICK a \in 0..1, g \in 0..1 :
        LET next == [accounts |-> db.state.accounts + a, governance |-> g,
                     height |-> db.state.height + 1, last |-> db.state.height + 1]
        IN /\ db' = [pending |-> FALSE, state |-> next]
           /\ committed' = Append(committed, next)
  BY DEF Commit
<1> DEFINE next == [accounts |-> db.state.accounts + a, governance |-> g,
                    height |-> db.state.height + 1, last |-> db.state.height + 1]
<1>2. n \in Nat /\ db.state.height = n /\ db.state \in StateSet
  <2>1. n \in Nat /\ n \in 0..n
    BY DEF ExportInv, ExportTyped
  <2> QED BY <2>1, HeightOfState DEF ExportInv, ExportTyped
<1>3. next \in StateSet /\ next.height = n + 1
  BY <1>2 DEF StateSet
<1>4. db' = [pending |-> FALSE, state |-> next] /\ committed' = Append(committed, next)
      /\ UNCHANGED <<exporter, exports, temp, target, overlapped, abandoned>>
  BY <1>1 DEF Commit
<1> HIDE DEF next
<1>5. /\ committed' \in Seq(StateSet) /\ Len(committed') = n + 1
      /\ committed'[n + 1] = next /\ \A h \in 1..n : committed'[h] = committed[h]
  BY <1>3, <1>4 DEF ExportInv, ExportTyped
<1> HIDE DEF n
<1>6. ExportTyped'
  <2>1. \A h \in 1..n + 1 : committed'[h].height = h
    BY <1>2, <1>3, <1>5 DEF ExportInv, ExportTyped, n
  <2>2. DOMAIN db' = {"pending", "state"} /\ db'.state = next
    BY <1>4
  <2>3. StateAt(Len(committed))' = next
    BY <1>2, <1>5 DEF StateAt
  <2> QED BY <1>4, <1>5, <2>1, <2>2, <2>3 DEF ExportInv, ExportTyped
<1>7. \A s : Committed(s) => Committed(s)'
  BY <1>2, <1>5 DEF Committed, n
<1>8. ASSUME NEW e \in Exporters PROVE Exporting(e)'
  <2>1. ASSUME exporter[e].at = "read", NEW i \in 1..Len(exporter[e].seen)
        PROVE  ReadOf(exporter[e].seen, i)'
    <3> DEFINE seen == exporter[e].seen
    <3>1. ReadOf(seen, i)
      BY <2>1 DEF ExportInv, Exporting
    <3>2. PICK h \in 0..n :
            /\ seen[i] = StateAt(h)[Reads[i]]
            /\ \A j \in 1..(i - 1) : Reads[j] = "height" => seen[j] <= h
            /\ \A j \in (i + 1)..Len(seen) : Reads[j] = "height" => h <= seen[j]
      BY <3>1 DEF ReadOf, n
    <3>3. h \in 0..Len(committed') /\ StateAt(h)' = StateAt(h)
      BY <1>2, <1>5 DEF StateAt
    <3>4. seen' = seen
      BY <1>4
    <3> HIDE DEF seen
    <3>5. ReadOf(seen, i)'
      BY <3>2, <3>3, <3>4 DEF ReadOf
    <3> QED BY <3>5 DEF seen
  <2>2. Committed(exporter[e].snapshot) => Committed(exporter[e].snapshot)'
    BY <1>2, <1>4, <1>5 DEF Committed, n
  <2> QED BY <1>4, <2>1, <2>2 DEF ExportInv, Exporting
<1>9. \A name \in DOMAIN target' : Committed(name)'
  BY <1>4, <1>7 DEF ExportInv
<1>10. \A s : s \notin overlapped' => Whole(s)'
  BY <1>4 DEF ExportInv, Whole, Working, WrittenOut
<1> QED BY <1>6, <1>8, <1>9, <1>10 DEF ExportInv

\* What a step of one call leaves as it was.
LEMMA OtherExporters ==
  ASSUME ExportInv, NEW e \in Exporters, UNCHANGED <<db, committed>>,
         DOMAIN exporter' = Exporters,
         \A f \in Exporters \ {e} : exporter'[f] = exporter[f]
  PROVE  /\ \A f \in Exporters \ {e} : Exporting(f)'
         /\ \A s : Committed(s) => Committed(s)'
         /\ (\A m \in DOMAIN temp' : DOMAIN temp'[m] = {"chunks", "manifest"}) => ExportTyped'
<1>1. /\ db' = db /\ committed' = committed /\ \A h : StateAt(h)' = StateAt(h)
      /\ DOMAIN exporter' = Exporters
      /\ \A f \in Exporters \ {e} : exporter'[f] = exporter[f]
  BY DEF StateAt
<1>2. \A s : Committed(s) => Committed(s)'
  BY ONLY <1>1 DEF Committed
<1>3. ASSUME NEW f \in Exporters \ {e} PROVE Exporting(f)'
  <2>1. exporter'[f] = exporter[f] /\ Exporting(f)
    BY <1>1 DEF ExportInv
  <2>2. \A i : ReadOf(exporter[f].seen, i) => ReadOf(exporter[f].seen, i)'
    BY ONLY <1>1, <2>1 DEF ReadOf
  <2>3. Committed(exporter[f].snapshot) => Committed(exporter[f].snapshot)'
    BY ONLY <1>1, <2>1 DEF Committed
  <2> QED BY ONLY <2>1, <2>2, <2>3 DEF Exporting
<1>4. (\A m \in DOMAIN temp' : DOMAIN temp'[m] = {"chunks", "manifest"}) => ExportTyped'
  BY ONLY <1>1, ExportInv DEF ExportInv, ExportTyped
<1> QED BY <1>2, <1>3, <1>4

\* What a call does to its own snapshot leaves every other one as it was.
LEMMA OtherSnapshots ==
  ASSUME NEW e \in Exporters, NEW n, Whole(n), ~Working(e, n), ~Working(e, n)',
         \A f \in Exporters \ {e} : exporter'[f] = exporter[f],
         n \in DOMAIN temp' <=> n \in DOMAIN temp,
         n \in DOMAIN temp => temp'[n] = temp[n],
         n \in DOMAIN target' <=> n \in DOMAIN target,
         n \in DOMAIN target => target'[n] = target[n],
         n \in abandoned => n \in abandoned'
  PROVE  Whole(n)'
<1>1. \A f \in Exporters : Working(f, n)' => f # e /\ Working(f, n) /\ exporter'[f] = exporter[f]
  BY DEF Working
<1>2. \A f, g \in Exporters : Working(f, n)' /\ Working(g, n)' => f = g
  BY <1>1 DEF Whole
<1>3. ASSUME NEW f \in Exporters, Working(f, n)' PROVE WrittenOut(f)'
  <2>1. exporter'[f] = exporter[f] /\ exporter[f].snapshot = n /\ WrittenOut(f)
    BY <1>1, <1>3 DEF Whole, Working
  <2> QED BY <2>1 DEF WrittenOut
<1>4. ASSUME n \in DOMAIN temp', temp'[n].manifest, n \notin abandoned'
      PROVE  \E f \in Exporters : exporter'[f].at = "rename" /\ exporter'[f].snapshot = n
  <2>1. PICK f \in Exporters : exporter[f].at = "rename" /\ exporter[f].snapshot = n
    BY <1>4 DEF Whole
  <2>2. f # e
    BY <2>1 DEF Working
  <2> QED BY <2>1, <2>2
<1>5. n \in DOMAIN target' /\ target'[n].manifest => target'[n].chunks = 1..Pieces
  BY DEF Whole
<1> QED BY ONLY <1>2, <1>3, <1>4, <1>5, Zenon DEF Whole

LEMMA ExportBegins == \A e \in Exporters : ExportInv /\ Begin(e) => ExportInv'
<1> SUFFICES ASSUME NEW e \in Exporters, ExportInv, Begin(e) PROVE ExportInv'
  OBVIOUS
<1>1. /\ exporter[e].at = "off" /\ exporter[e] = NotRunning
      /\ exporter' = [exporter EXCEPT ![e].at = "read"]
      /\ UNCHANGED <<db, committed, temp, target, overlapped, abandoned>>
  BY DEF Begin, ExportInv, Exporting
<1>2. /\ exporter'[e] = [NotRunning EXCEPT !.at = "read"]
      /\ DOMAIN exporter' = Exporters
      /\ \A f \in Exporters \ {e} : exporter'[f] = exporter[f]
  BY <1>1 DEF ExportInv, ExportTyped
<1>3. /\ exporter'[e].at = "read" /\ exporter'[e].seen = << >> /\ exporter'[e].written = 0
      /\ DOMAIN exporter'[e] = {"at", "seen", "snapshot", "written"}
  BY <1>2 DEF NotRunning
<1>4. Exporting(e)'
  <2>1. << >> \in Seq(Nat) /\ Len(<< >>) = 0
    OBVIOUS
  <2> QED BY <1>3, <2>1 DEF Exporting
<1>6. ASSUME NEW n, n \notin overlapped' PROVE Whole(n)'
  <2>1. ~Working(e, n) /\ ~Working(e, n)' /\ Whole(n)
    BY <1>1, <1>3, <1>6 DEF Working, ExportInv
  <2> QED BY <1>1, <1>2, <2>1, OtherSnapshots
<1>7. ExportTyped' /\ \A f \in Exporters \ {e} : Exporting(f)'
  BY <1>1, <1>2, OtherExporters DEF ExportInv, ExportTyped
<1>8. \A name \in DOMAIN target' : Committed(name)'
  BY <1>1 DEF ExportInv, Committed
<1> QED BY <1>4, <1>6, <1>7, <1>8 DEF ExportInv

LEMMA ExportReads == \A e \in Exporters : ExportInv /\ ReadRow(e) => ExportInv'
<1> SUFFICES ASSUME NEW e \in Exporters, ExportInv, ReadRow(e) PROVE ExportInv'
  OBVIOUS
<1> DEFINE seen == exporter[e].seen
           n == Len(seen)
           value == db.state[Reads[n + 1]]
           more == Append(seen, value)
<1>1. /\ exporter[e].at = "read" /\ n < 10
      /\ exporter' = [exporter EXCEPT ![e].seen = more]
      /\ UNCHANGED <<db, committed, exports, temp, target, overlapped, abandoned>>
  BY ReadsAre DEF ReadRow
<1>2. seen \in Seq(Nat) /\ n \in Nat /\ \A i \in 1..n : ReadOf(seen, i)
  BY <1>1 DEF ExportInv, Exporting
<1>3. DOMAIN exporter[e] = {"at", "seen", "snapshot", "written"} /\ exporter[e].written = 0
  BY <1>1 DEF ExportInv, Exporting
<1>4. /\ exporter'[e] = [exporter[e] EXCEPT !.seen = more]
      /\ DOMAIN exporter' = Exporters
      /\ \A f \in Exporters \ {e} : exporter'[f] = exporter[f]
  BY <1>1 DEF ExportInv, ExportTyped
<1>5. /\ exporter'[e].at = "read" /\ exporter'[e].seen = more /\ exporter'[e].written = 0
      /\ DOMAIN exporter'[e] = {"at", "seen", "snapshot", "written"}
      /\ exporter'[e].snapshot = exporter[e].snapshot
  BY <1>1, <1>3, <1>4
<1>6. /\ db.state = StateAt(Len(committed)) /\ Len(committed) \in Nat
      /\ StateAt(Len(committed)).height = Len(committed) /\ StateAt(Len(committed)) \in StateSet
  <2>1. Len(committed) \in Nat /\ Len(committed) \in 0..Len(committed)
    BY DEF ExportInv, ExportTyped
  <2> QED BY <2>1, HeightOfState DEF ExportInv, ExportTyped
<1>7. Reads[n + 1] \in {"accounts", "governance", "height", "last"}
  <2>1. n \in Nat /\ n < 10
    BY <1>1, <1>2
  <2> HIDE DEF n
  <2>2. n + 1 \in 1..10
    BY ONLY <2>1
  <2> QED BY ONLY <2>2, ReadsAre
<1>8. /\ value = StateAt(Len(committed))[Reads[n + 1]] /\ value \in Nat
      /\ Reads[n + 1] = "height" => value = Len(committed)
  BY <1>6, <1>7 DEF StateSet
<1> HIDE DEF value
<1>9. /\ more \in Seq(Nat) /\ Len(more) = n + 1 /\ more[n + 1] = value
      /\ \A i \in 1..n : more[i] = seen[i]
  BY <1>2, <1>8
<1> HIDE DEF seen, n, more
<1>10. ASSUME NEW i \in 1..n
       PROVE  \E h \in 0..Len(committed) :
                /\ more[i] = StateAt(h)[Reads[i]]
                /\ \A j \in 1..(i - 1) : Reads[j] = "height" => more[j] <= h
                /\ \A j \in (i + 1)..(n + 1) : Reads[j] = "height" => h <= more[j]
  <2>1. PICK h \in 0..Len(committed) :
          /\ seen[i] = StateAt(h)[Reads[i]]
          /\ \A j \in 1..(i - 1) : Reads[j] = "height" => seen[j] <= h
          /\ \A j \in (i + 1)..n : Reads[j] = "height" => h <= seen[j]
    BY <1>2 DEF ReadOf, n
  <2>2. more[i] = StateAt(h)[Reads[i]]
    BY <2>1, <1>9
  <2>3. ASSUME NEW j \in 1..(i - 1), Reads[j] = "height" PROVE more[j] <= h
    <3>1. j \in 1..n
      BY <1>2
    <3> QED BY <3>1, <2>1, <2>3, <1>9
  <2>4. ASSUME NEW j \in (i + 1)..(n + 1), Reads[j] = "height" PROVE h <= more[j]
    <3>1. CASE j = n + 1
      BY <3>1, <2>4, <1>6, <1>8, <1>9
    <3>2. CASE j # n + 1
      <4>1. j \in 1..n /\ j \in (i + 1)..n
        BY <3>2, <1>2
      <4> QED BY <4>1, <2>1, <2>4, <1>9
    <3> QED BY <3>1, <3>2
  <2> QED BY <2>2, <2>3, <2>4
<1>11. \A i \in 1..n : Reads[i] = "height" => seen[i] <= Len(committed)
  <2> SUFFICES ASSUME NEW i \in 1..n, Reads[i] = "height" PROVE seen[i] <= Len(committed)
    OBVIOUS
  <2>1. PICK h \in 0..Len(committed) : seen[i] = StateAt(h)[Reads[i]]
    BY <1>2 DEF ReadOf
  <2>2. seen[i] = h
    BY <2>1, HeightOfState DEF ExportInv
  <2> QED BY <2>2, <1>6
<1>12. ASSUME NEW i, i = n + 1
       PROVE  \E h \in 0..Len(committed) :
                /\ more[i] = StateAt(h)[Reads[i]]
                /\ \A j \in 1..(i - 1) : Reads[j] = "height" => more[j] <= h
                /\ \A j \in (i + 1)..(n + 1) : Reads[j] = "height" => h <= more[j]
  <2>1. Len(committed) \in 0..Len(committed)
    BY <1>6
  <2>2. ASSUME NEW j \in 1..(i - 1), Reads[j] = "height" PROVE more[j] <= Len(committed)
    <3>1. j \in 1..n
      BY ONLY <1>2, <1>12, j \in 1..(i - 1)
    <3> QED BY <3>1, <2>2, <1>9, <1>11
  <2>3. \A j \in (i + 1)..(n + 1) : FALSE
    BY ONLY <1>2, <1>12
  <2>4. more[i] = StateAt(Len(committed))[Reads[i]]
    BY ONLY <1>8, <1>9, <1>12, Zenon
  <2> QED BY ONLY <2>1, <2>2, <2>3, <2>4, Zenon
<1>13. ASSUME NEW i \in 1..(n + 1)
       PROVE  \E h \in 0..Len(committed) :
                /\ more[i] = StateAt(h)[Reads[i]]
                /\ \A j \in 1..(i - 1) : Reads[j] = "height" => more[j] <= h
                /\ \A j \in (i + 1)..(n + 1) : Reads[j] = "height" => h <= more[j]
  <2>1. CASE i = n + 1
    BY <2>1, <1>12
  <2>2. CASE i # n + 1
    <3>1. i \in 1..n
      BY <2>2, <1>2
    <3> QED BY <3>1, <1>10
  <2> QED BY <2>1, <2>2
<1>14. Exporting(e)'
  <2>1. ASSUME NEW i \in 1..Len(exporter'[e].seen) PROVE ReadOf(exporter[e].seen, i)'
    <3>1. i \in 1..(n + 1)
      BY <1>5, <1>9
    <3>2. \A h : StateAt(h)' = StateAt(h)
      BY <1>1 DEF StateAt
    <3>3. PICK h \in 0..Len(committed) :
            /\ more[i] = StateAt(h)[Reads[i]]
            /\ \A j \in 1..(i - 1) : Reads[j] = "height" => more[j] <= h
            /\ \A j \in (i + 1)..(n + 1) : Reads[j] = "height" => h <= more[j]
      BY <3>1, <1>13
    <3>4. committed' = committed /\ exporter'[e].seen = more /\ Len(more) = n + 1
      BY <1>1, <1>5, <1>9
    <3> QED BY ONLY <3>2, <3>3, <3>4, Zenon DEF ReadOf
  <2> QED BY <1>1, <1>2, <1>5, <1>9, <2>1 DEF Exporting
<1>15. ExportTyped' /\ \A f \in Exporters \ {e} : Exporting(f)'
  BY <1>1, <1>4, OtherExporters DEF ExportInv, ExportTyped
<1>16. \A name \in DOMAIN target' : Committed(name)'
  BY <1>1 DEF ExportInv, Committed
<1>17. ASSUME NEW name, name \notin overlapped' PROVE Whole(name)'
  <2>1. ~Working(e, name) /\ ~Working(e, name)' /\ Whole(name)
    BY <1>1, <1>5, <1>17 DEF Working, ExportInv
  <2> QED BY <1>1, <1>4, <2>1, OtherSnapshots
<1> QED BY <1>14, <1>15, <1>16, <1>17 DEF ExportInv

LEMMA ExportMade == \A e \in Exporters : ExportInv /\ Exported(e) => ExportInv'
<1> SUFFICES ASSUME NEW e \in Exporters, ExportInv, Exported(e) PROVE ExportInv'
  OBVIOUS
<1> DEFINE seen == exporter[e].seen
           made == Snapshot(seen)
           good == /\ State(seen, 1) = made.app /\ SelfConsistent(made)
                   /\ made.state.height > 0
           next == IF good THEN [NotRunning EXCEPT !.at = "clear", !.snapshot = made.state]
                           ELSE NotRunning
<1>1. /\ exporter[e].at = "read" /\ Len(seen) = 10
      /\ exporter' = [exporter EXCEPT ![e] = next]
      /\ overlapped' = overlapped \cup
           (IF good /\ \E f \in Exporters : Working(f, made.state) THEN {made.state} ELSE {})
      /\ UNCHANGED <<db, committed, exports, temp, target, abandoned>>
  <2>1. CASE good
    BY <2>1, ReadsAre DEF Exported, Holds
  <2>2. CASE ~good
    BY <2>2, ReadsAre DEF Exported, Fails
  <2> QED BY <2>1, <2>2
<1>2. good => Committed(made.state)
  <2>1. ExportTyped /\ seen \in Seq(Nat) /\ \A i \in 1..Len(seen) : ReadOf(seen, i)
    BY <1>1 DEF ExportInv, Exporting
  <2> HIDE DEF seen
  <2> QED BY <1>1, <2>1, ReadsOfOneState
<1> HIDE DEF seen, made, good
<1>3. /\ next.at \in {"clear", "off"} /\ next.written = 0
      /\ DOMAIN next = {"at", "seen", "snapshot", "written"}
      /\ next.at = "clear" => /\ good /\ next.snapshot = made.state
                              /\ Committed(next.snapshot)
      /\ next.at = "off" => next = NotRunning
  <2>1. CASE good
    BY <2>1, <1>2 DEF NotRunning
  <2>2. CASE ~good
    BY <2>2 DEF NotRunning
  <2> QED BY <2>1, <2>2
<1> HIDE DEF next
<1>4. /\ exporter'[e] = next
      /\ DOMAIN exporter' = Exporters
      /\ \A f \in Exporters \ {e} : exporter'[f] = exporter[f]
  BY <1>1 DEF ExportInv, ExportTyped
<1>5. Exporting(e)'
  BY <1>1, <1>3, <1>4 DEF Exporting, Committed
<1>6. ExportTyped' /\ \A f \in Exporters \ {e} : Exporting(f)'
  BY <1>1, <1>4, OtherExporters DEF ExportInv, ExportTyped
<1>7. \A name \in DOMAIN target' : Committed(name)'
  BY <1>1 DEF ExportInv, Committed
<1>8. ASSUME NEW n, n \notin overlapped' PROVE Whole(n)'
  <2>1. Whole(n) /\ ~Working(e, n)
    BY <1>1, <1>8 DEF ExportInv, Working
  <2>2. CASE Working(e, n)'
    <3>1. next.at = "clear" /\ n = made.state /\ good
      BY <2>2, <1>3, <1>4 DEF Working
    <3>2. \A f \in Exporters : ~Working(f, n)
      BY <1>1, <1>8, <3>1
    <3>3. \A f \in Exporters \ {e} : ~Working(f, n)'
      BY <3>2, <1>4 DEF Working
    <3>4. WrittenOut(e)'
      BY <1>4, <3>1 DEF WrittenOut
    <3>5. n \in DOMAIN temp /\ temp[n].manifest => n \in abandoned
      BY <2>1, <3>2 DEF Whole, Working
    <3>6. n \in DOMAIN target /\ target[n].manifest => target[n].chunks = 1..Pieces
      BY <2>1 DEF Whole
    <3> QED BY <1>1, <3>3, <3>4, <3>5, <3>6 DEF Whole
  <2>3. CASE ~Working(e, n)'
    BY <1>1, <1>4, <2>1, <2>3, OtherSnapshots
  <2> QED BY <2>2, <2>3
<1> QED BY <1>5, <1>6, <1>7, <1>8 DEF ExportInv

LEMMA ExportWrites ==
  \A e \in Exporters : ExportInv /\ (ClearTemp(e) \/ WriteChunk(e) \/ WriteManifest(e))
                         => ExportInv'
<1> USE ExportAssumption
<1> SUFFICES ASSUME NEW e \in Exporters, ExportInv,
                    ClearTemp(e) \/ WriteChunk(e) \/ WriteManifest(e)
             PROVE  ExportInv'
  OBVIOUS
<1> DEFINE name == exporter[e].snapshot
<1>a. /\ NotRunning.at = "off" /\ NotRunning.written = 0
      /\ DOMAIN NotRunning = {"at", "seen", "snapshot", "written"}
  BY DEF NotRunning
<1>b. DOMAIN exporter[e] = {"at", "seen", "snapshot", "written"} /\ DOMAIN exporter = Exporters
  BY DEF ExportInv, ExportTyped, Exporting
<1>1. CASE ClearTemp(e)
  <2>1. /\ exporter[e].at = "clear" /\ exporter' = [exporter EXCEPT ![e].at = "write"]
        /\ temp' = With(temp, name, Empty) /\ abandoned' = abandoned \ {name}
        /\ UNCHANGED <<db, committed, exports, target, overlapped>>
    BY <1>1 DEF ClearTemp
  <2>2. /\ exporter'[e].at = "write" /\ exporter'[e].snapshot = name
        /\ exporter'[e].written = exporter[e].written
        /\ DOMAIN exporter'[e] = {"at", "seen", "snapshot", "written"}
        /\ DOMAIN exporter' = Exporters
        /\ \A f \in Exporters \ {e} : exporter'[f] = exporter[f]
    BY <1>b, <2>1
  <2>3. exporter[e].written = 0 /\ Committed(name)
    BY <2>1 DEF ExportInv, Exporting
  <2> HIDE DEF name
  <2>4. /\ name \in DOMAIN temp' /\ temp'[name].chunks = {} /\ temp'[name].manifest = FALSE
        /\ DOMAIN temp'[name] = {"chunks", "manifest"}
        /\ DOMAIN temp' = DOMAIN temp \cup {name}
        /\ \A m \in DOMAIN temp \ {name} : temp'[m] = temp[m]
    BY <2>1 DEF With, Empty
  <2>5. Exporting(e)'
    BY <2>1, <2>2, <2>3 DEF Exporting, Committed
  <2>6. ExportTyped' /\ \A f \in Exporters \ {e} : Exporting(f)'
    BY <2>1, <2>2, <2>4, OtherExporters DEF ExportInv, ExportTyped
  <2>7. ASSUME NEW n, n \notin overlapped' PROVE Whole(n)'
    <3>1. Whole(n)
      BY <2>1, <2>7 DEF ExportInv
    <3>2. CASE n = name
      <4>1. Working(e, n) /\ Working(e, n)'
        BY <2>1, <2>2, <3>2 DEF Working, name
      <4>2. \A f \in Exporters \ {e} : ~Working(f, n)'
        BY <2>2, <3>1, <4>1 DEF Whole, Working
      <4>3. {} = 1..0
        OBVIOUS
      <4>4. WrittenOut(e)'
        BY ONLY <2>2, <2>3, <2>4, <4>3, Zenon DEF WrittenOut
      <4>5. n \in DOMAIN target /\ target[n].manifest => target[n].chunks = 1..Pieces
        BY <3>1 DEF Whole
      <4> QED BY <2>1, <2>4, <3>2, <4>2, <4>4, <4>5 DEF Whole
    <3>3. CASE n # name
      <4>1. ~Working(e, n) /\ ~Working(e, n)'
        BY <2>1, <2>2, <3>3 DEF Working, name
      <4> QED BY <2>1, <2>2, <2>4, <3>1, <3>3, <4>1, OtherSnapshots
    <3> QED BY <3>2, <3>3
  <2>8. \A other \in DOMAIN target' : Committed(other)'
    BY <2>1 DEF ExportInv, Committed
  <2> QED BY <2>5, <2>6, <2>7, <2>8 DEF ExportInv
<1>2. CASE WriteChunk(e)
  <2> DEFINE k == exporter[e].written + 1
  <2>1. /\ exporter[e].at = "write" /\ exporter[e].written < Pieces
        /\ UNCHANGED <<db, committed, exports, target, overlapped, abandoned>>
    BY <1>2 DEF WriteChunk
  <2>2. exporter[e].written \in 0..Pieces /\ Committed(name)
    BY <2>1 DEF ExportInv, Exporting
  <2>3. CASE name \in DOMAIN temp
    <3>1. /\ temp' = [temp EXCEPT ![name].chunks = @ \cup {k}]
          /\ exporter' = [exporter EXCEPT ![e].written = k]
      BY <1>2, <2>3 DEF WriteChunk
    <3>2. /\ exporter'[e].at = "write" /\ exporter'[e].snapshot = name
          /\ exporter'[e].written = k
          /\ DOMAIN exporter'[e] = {"at", "seen", "snapshot", "written"}
          /\ DOMAIN exporter' = Exporters
          /\ \A f \in Exporters \ {e} : exporter'[f] = exporter[f]
      BY <1>b, <2>1, <3>1
    <3> HIDE DEF name
    <3>3. /\ DOMAIN temp' = DOMAIN temp
          /\ temp'[name] = [temp[name] EXCEPT !.chunks = @ \cup {k}]
          /\ \A m \in DOMAIN temp \ {name} : temp'[m] = temp[m]
      BY <2>3, <3>1
    <3>4. /\ temp'[name].chunks = temp[name].chunks \cup {k}
          /\ temp'[name].manifest = temp[name].manifest
          /\ DOMAIN temp'[name] = {"chunks", "manifest"}
      BY <2>3, <3>3 DEF ExportInv, ExportTyped
    <3>5. Exporting(e)'
      BY <2>1, <2>2, <3>2 DEF Exporting, Committed
    <3>6. ExportTyped' /\ \A f \in Exporters \ {e} : Exporting(f)'
      <4>1. \A m \in DOMAIN temp' : DOMAIN temp'[m] = {"chunks", "manifest"}
        BY <3>3, <3>4 DEF ExportInv, ExportTyped
      <4> QED BY <2>1, <3>2, <4>1, OtherExporters
    <3>7. ASSUME NEW n, n \notin overlapped' PROVE Whole(n)'
      <4>1. Whole(n)
        BY <2>1, <3>7 DEF ExportInv
      <4>2. CASE n = name
        <5>1. Working(e, n) /\ Working(e, n)'
          BY <2>1, <3>2, <4>2 DEF Working, name
        <5>2. \A f \in Exporters \ {e} : ~Working(f, n)'
          BY <3>2, <4>1, <5>1 DEF Whole, Working
        <5>3. temp[name].chunks = 1..exporter[e].written
          BY <2>1, <4>1, <4>2, <5>1 DEF Whole, WrittenOut, name
        <5>4. (1..exporter[e].written) \cup {k} = 1..k
          BY <2>2
        <5>5. temp'[name].chunks = 1..k /\ name \in DOMAIN temp'
          BY ONLY <2>3, <3>3, <3>4, <5>3, <5>4, Zenon
        <5>6. WrittenOut(e)'
          BY ONLY <3>2, <5>5 DEF WrittenOut
        <5>7. n \in DOMAIN temp /\ temp[n].manifest => n \in abandoned
          <6>1. \A f \in Exporters : exporter[f].at = "rename" => exporter[f].snapshot # n
            BY <2>1, <4>1, <5>1 DEF Whole, Working
          <6> QED BY <4>1, <6>1 DEF Whole
        <5>8. n \in DOMAIN target /\ target[n].manifest => target[n].chunks = 1..Pieces
          BY <4>1 DEF Whole
        <5> QED BY <2>1, <3>3, <3>4, <4>2, <5>2, <5>6, <5>7, <5>8 DEF Whole
      <4>3. CASE n # name
        <5>1. ~Working(e, n) /\ ~Working(e, n)'
          BY <2>1, <3>2, <4>3 DEF Working, name
        <5> QED BY <2>1, <3>2, <3>3, <4>1, <4>3, <5>1, OtherSnapshots
      <4> QED BY <4>2, <4>3
    <3>8. \A other \in DOMAIN target' : Committed(other)'
      BY <2>1 DEF ExportInv, Committed
    <3> QED BY <3>5, <3>6, <3>7, <3>8 DEF ExportInv
  <2>4. CASE name \notin DOMAIN temp
    <3>1. exporter' = [exporter EXCEPT ![e] = NotRunning] /\ UNCHANGED temp
      BY <1>2, <2>4 DEF WriteChunk, Fails
    <3>2. /\ exporter'[e] = NotRunning /\ DOMAIN exporter' = Exporters
          /\ \A f \in Exporters \ {e} : exporter'[f] = exporter[f]
      BY <1>b, <3>1
    <3>3. ASSUME NEW n, n \notin overlapped' PROVE Whole(n)'
      <4>1. Whole(n)
        BY <2>1, <3>3 DEF ExportInv
      <4>2. n # name
        BY <2>1, <2>4, <4>1 DEF Whole, WrittenOut, Working
      <4>3. ~Working(e, n) /\ ~Working(e, n)'
        BY <1>a, <2>1, <3>2, <4>2 DEF Working
      <4> QED BY <2>1, <3>1, <3>2, <4>1, <4>3, OtherSnapshots
    <3>4. Exporting(e)'
      BY <1>a, <3>2 DEF Exporting
    <3>5. ExportTyped' /\ \A f \in Exporters \ {e} : Exporting(f)'
      BY <2>1, <3>1, <3>2, OtherExporters DEF ExportInv, ExportTyped
    <3>6. \A other \in DOMAIN target' : Committed(other)'
      BY <2>1 DEF ExportInv, Committed
    <3> QED BY <2>1, <3>3, <3>4, <3>5, <3>6 DEF ExportInv
  <2> QED BY <2>3, <2>4
<1>3. CASE WriteManifest(e)
  <2> DEFINE held == IF name \in DOMAIN temp THEN temp[name] ELSE Empty
  <2>1. /\ exporter[e].at = "write" /\ exporter[e].written = Pieces
        /\ temp' = With(temp, name, [held EXCEPT !.manifest = TRUE])
        /\ exporter' = [exporter EXCEPT ![e].at = "rename"]
        /\ UNCHANGED <<db, committed, exports, target, overlapped, abandoned>>
    BY <1>3 DEF WriteManifest
  <2>2. /\ exporter'[e].at = "rename" /\ exporter'[e].snapshot = name
        /\ DOMAIN exporter'[e] = {"at", "seen", "snapshot", "written"}
        /\ DOMAIN exporter' = Exporters
        /\ \A f \in Exporters \ {e} : exporter'[f] = exporter[f]
    BY <1>b, <2>1
  <2>3. DOMAIN held = {"chunks", "manifest"}
    BY DEF ExportInv, ExportTyped, Empty
  <2>4. name \in DOMAIN temp => held = temp[name]
    OBVIOUS
  <2> HIDE DEF held, name
  <2>5. /\ DOMAIN temp' = DOMAIN temp \cup {name}
        /\ temp'[name] = [held EXCEPT !.manifest = TRUE]
        /\ \A m \in DOMAIN temp \ {name} : temp'[m] = temp[m]
    BY <2>1 DEF With
  <2>6. /\ temp'[name].chunks = held.chunks /\ DOMAIN temp'[name] = {"chunks", "manifest"}
    BY <2>3, <2>5
  <2>7. Exporting(e)'
    BY <2>1, <2>2 DEF ExportInv, Exporting, Committed, name
  <2>8. ExportTyped' /\ \A f \in Exporters \ {e} : Exporting(f)'
    <3>1. \A m \in DOMAIN temp' : DOMAIN temp'[m] = {"chunks", "manifest"}
      BY <2>5, <2>6 DEF ExportInv, ExportTyped
    <3> QED BY <2>1, <2>2, <3>1, OtherExporters
  <2>9. ASSUME NEW n, n \notin overlapped' PROVE Whole(n)'
    <3>1. Whole(n)
      BY <2>1, <2>9 DEF ExportInv
    <3>2. CASE n = name
      <4>1. Working(e, n) /\ Working(e, n)'
        BY <2>1, <2>2, <3>2 DEF Working, name
      <4>2. \A f \in Exporters \ {e} : ~Working(f, n)'
        BY <2>2, <3>1, <4>1 DEF Whole, Working
      <4>3. name \in DOMAIN temp /\ temp[name].chunks = 1..Pieces
        BY <2>1, <3>1, <3>2, <4>1 DEF Whole, WrittenOut, name
      <4>4. WrittenOut(e)'
        BY <2>2, <2>4, <2>5, <2>6, <4>3 DEF WrittenOut
      <4>5. n \in DOMAIN target /\ target[n].manifest => target[n].chunks = 1..Pieces
        BY <3>1 DEF Whole
      <4>6. ASSUME NEW g \in Exporters, Working(g, n)' PROVE g = e
        BY <4>2, <4>6, <2>2 DEF Working
      <4>7. \E g \in Exporters : exporter'[g].at = "rename" /\ exporter'[g].snapshot = n
        BY <2>2, <3>2
      <4>8. target' = target
        BY <2>1
      <4>9. \A g \in Exporters : Working(g, n)' => WrittenOut(g)'
        BY <4>4, <4>6
      <4>10. \A g, h \in Exporters : Working(g, n)' /\ Working(h, n)' => g = h
        BY <4>6
      <4>11. (n \in DOMAIN target /\ target[n].manifest => target[n].chunks = 1..Pieces)'
        BY <4>5, <4>8
      <4> QED BY ONLY <4>7, <4>9, <4>10, <4>11, Zenon DEF Whole
    <3>3. CASE n # name
      <4>1. ~Working(e, n) /\ ~Working(e, n)'
        BY <2>1, <2>2, <3>3 DEF Working, name
      <4>2. /\ n \in DOMAIN temp' <=> n \in DOMAIN temp
            /\ n \in DOMAIN temp => temp'[n] = temp[n]
        BY <2>5, <3>3
      <4>3. target' = target /\ abandoned' = abandoned
        BY <2>1
      <4> QED BY ONLY e \in Exporters, <2>2, <3>1, <4>1, <4>2, <4>3, OtherSnapshots
    <3> QED BY <3>2, <3>3
  <2>10. \A other \in DOMAIN target' : Committed(other)'
    BY <2>1 DEF ExportInv, Committed
  <2> QED BY <2>7, <2>8, <2>9, <2>10 DEF ExportInv
<1> QED BY <1>1, <1>2, <1>3

LEMMA ExportEnds ==
  \A e \in Exporters : ExportInv /\ (Publish(e) \/ ExporterKilled(e)) => ExportInv'
<1> SUFFICES ASSUME NEW e \in Exporters, ExportInv, Publish(e) \/ ExporterKilled(e)
             PROVE  ExportInv'
  OBVIOUS
<1> DEFINE name == exporter[e].snapshot
<1>a. /\ NotRunning.at = "off" /\ NotRunning.written = 0
      /\ DOMAIN NotRunning = {"at", "seen", "snapshot", "written"}
  BY DEF NotRunning
<1>b. /\ exporter' = [exporter EXCEPT ![e] = NotRunning] /\ UNCHANGED <<db, committed>>
      /\ exporter[e].at # "off"
  BY DEF Publish, ExporterKilled, Fails
<1>c. /\ exporter'[e] = NotRunning /\ DOMAIN exporter' = Exporters
      /\ \A f \in Exporters \ {e} : exporter'[f] = exporter[f]
  BY <1>b DEF ExportInv, ExportTyped
<1>d. Exporting(e)'
  BY <1>a, <1>c DEF Exporting
<1>e. \A n : ~Working(e, n)'
  BY <1>a, <1>c DEF Working
<1>f. ASSUME NEW n, Whole(n), Working(e, n)
      PROVE  \A f \in Exporters : ~Working(f, n)'
  BY <1>c, <1>e, <1>f DEF Whole, Working
<1>1. CASE Publish(e)
  <2>1. /\ exporter[e].at = "rename" /\ UNCHANGED <<overlapped, abandoned>>
        /\ target' = IF name \in DOMAIN target \/ name \notin DOMAIN temp
                       THEN target ELSE With(target, name, temp[name])
        /\ temp' = Without(temp, name)
    BY <1>1 DEF Publish
  <2>2. Committed(name) /\ Working(e, name)
    BY <2>1 DEF ExportInv, Exporting, Working
  <2>3. Whole(name) => temp[name].chunks = 1..Pieces
    BY <2>1, <2>2 DEF Whole, WrittenOut
  <2>a. \A n : n # name => ~Working(e, n)
    BY DEF Working
  <2> HIDE DEF name
  <2>4. /\ DOMAIN temp' = DOMAIN temp \ {name}
        /\ \A m \in DOMAIN temp' : temp'[m] = temp[m]
    BY <2>1 DEF Without, Restrict
  <2>5. /\ DOMAIN target' \subseteq DOMAIN target \cup {name}
        /\ \A m \in DOMAIN target' : \/ m \in DOMAIN target /\ target'[m] = target[m]
                                     \/ m = name /\ target'[m] = temp[name]
    <3>1. CASE target' = target
      BY <3>1
    <3>2. CASE target' = With(target, name, temp[name]) /\ name \notin DOMAIN target
      <4>1. /\ DOMAIN target' = DOMAIN target \cup {name} /\ target'[name] = temp[name]
            /\ \A m \in DOMAIN target \ {name} : target'[m] = target[m]
        BY <3>2 DEF With
      <4> QED BY <4>1
    <3> QED BY <2>1, <3>1, <3>2
  <2>6. ExportTyped' /\ \A f \in Exporters \ {e} : Exporting(f)'
    BY <1>b, <1>c, <2>4, OtherExporters DEF ExportInv, ExportTyped
  <2>7. \A m \in DOMAIN target' : Committed(m)'
    BY <1>b, <2>2, <2>5 DEF ExportInv, Committed
  <2>8. ASSUME NEW n, n \notin overlapped' PROVE Whole(n)'
    <3>1. Whole(n)
      BY <2>1, <2>8 DEF ExportInv
    <3>2. CASE n = name
      <4>1. \A f \in Exporters : ~Working(f, n)'
        BY <1>f, <2>2, <3>1, <3>2
      <4>2. n \notin DOMAIN temp'
        BY <2>4, <3>2
      <4>3. n \in DOMAIN target' /\ target'[n].manifest => target'[n].chunks = 1..Pieces
        BY <2>3, <2>5, <3>1, <3>2 DEF Whole
      <4> QED BY <4>1, <4>2, <4>3 DEF Whole
    <3>3. CASE n # name
      <4>1. ~Working(e, n) /\ ~Working(e, n)'
        BY <1>e, <2>a, <3>3
      <4>2. /\ n \in DOMAIN target' <=> n \in DOMAIN target
            /\ n \in DOMAIN target => target'[n] = target[n]
        <5>1. DOMAIN target \subseteq DOMAIN target'
          BY <2>1 DEF With
        <5> QED BY <2>5, <3>3, <5>1
      <4> QED BY <1>c, <2>1, <2>4, <3>1, <3>3, <4>1, <4>2, OtherSnapshots
    <3> QED BY <3>2, <3>3
  <2> QED BY <1>d, <2>6, <2>7, <2>8 DEF ExportInv
<1>2. CASE ExporterKilled(e)
  <2>1. /\ UNCHANGED <<temp, target, overlapped>>
        /\ abandoned' = abandoned \cup
                          (IF exporter[e].at = "rename" THEN {name} ELSE {})
    BY <1>2 DEF ExporterKilled
  <2>3. ExportTyped' /\ \A f \in Exporters \ {e} : Exporting(f)'
    BY <1>b, <1>c, <2>1, OtherExporters DEF ExportInv, ExportTyped
  <2>4. \A m \in DOMAIN target' : Committed(m)'
    BY <1>b, <2>1 DEF ExportInv, Committed
  <2>5. ASSUME NEW n, n \notin overlapped' PROVE Whole(n)'
    <3>1. Whole(n)
      BY <2>1, <2>5 DEF ExportInv
    <3>2. CASE Working(e, n)
      <4>1. \A f \in Exporters : ~Working(f, n)'
        BY <1>f, <3>1, <3>2
      <4>2. n = name
        BY <3>2 DEF Working
      <4>3. n \in DOMAIN temp /\ temp[n].manifest => n \in abandoned'
        <5>1. exporter[e].at = "rename" => n \in abandoned'
          BY <2>1, <4>2
        <5>2. exporter[e].at # "rename" =>
                \A f \in Exporters : exporter[f].at = "rename" => exporter[f].snapshot # n
          BY <3>1, <3>2 DEF Whole, Working
        <5>3. n \in abandoned => n \in abandoned'
          BY <2>1
        <5> QED BY <3>1, <5>1, <5>2, <5>3 DEF Whole
      <4>4. n \in DOMAIN target /\ target[n].manifest => target[n].chunks = 1..Pieces
        BY <3>1 DEF Whole
      <4> QED BY <2>1, <4>1, <4>3, <4>4 DEF Whole
    <3>3. CASE ~Working(e, n)
      <4>1. n \in abandoned => n \in abandoned'
        BY <2>1
      <4> QED BY <1>c, <1>e, <2>1, <3>1, <3>3, <4>1, OtherSnapshots
    <3> QED BY <3>2, <3>3
  <2> QED BY <1>d, <2>3, <2>4, <2>5 DEF ExportInv
<1> QED BY <1>1, <1>2

\* What is published is a state the chain committed, whatever calls overlap or
\* are killed; and what is listed is whole, but for a snapshot two calls wrote
\* at the same time and one left by a kill before its renaming until the next
\* call for it: no call spoils the snapshot of another height.
THEOREM ExportSound == ExportSpec => []ServedIsCommitted
<1>1. ExportInv /\ [ExportNext]_exportVars => ExportInv'
  <2> SUFFICES ASSUME ExportInv, [ExportNext]_exportVars PROVE ExportInv'
    OBVIOUS
  <2>a. ASSUME UNCHANGED <<committed, exporter, temp, target, overlapped, abandoned>>,
               db'.state = db.state, DOMAIN db' = DOMAIN db
        PROVE  ExportInv'
    <3>1. \A h : StateAt(h)' = StateAt(h)
      BY <2>a DEF StateAt
    <3>2. ExportTyped'
      BY <2>a, <3>1 DEF ExportInv, ExportTyped
    <3>3. ASSUME NEW e \in Exporters PROVE Exporting(e)'
      <4>1. \A i : ReadOf(exporter[e].seen, i) => ReadOf(exporter[e].seen, i)'
        BY <2>a, <3>1 DEF ReadOf
      <4>2. Committed(exporter[e].snapshot) => Committed(exporter[e].snapshot)'
        BY <2>a DEF Committed
      <4>3. Exporting(e) /\ exporter' = exporter
        BY <2>a DEF ExportInv
      <4> QED BY ONLY <4>1, <4>2, <4>3 DEF Exporting
    <3>4. \A n \in DOMAIN target' : Committed(n)'
      BY <2>a DEF ExportInv, Committed
    <3>5. \A n : n \notin overlapped' => Whole(n)'
      BY <2>a DEF ExportInv, Whole, Working, WrittenOut
    <3> QED BY <3>2, <3>3, <3>4, <3>5 DEF ExportInv
  <2>1. CASE UNCHANGED exportVars
    <3>1. UNCHANGED <<db, committed, exporter, temp, target, overlapped, abandoned>>
      BY <2>1 DEF exportVars
    <3> QED BY <3>1, <2>a
  <2>2. CASE Stage
    <3>1. /\ db' = [db EXCEPT !.pending = TRUE]
          /\ UNCHANGED <<committed, exporter, temp, target, overlapped, abandoned>>
      BY <2>2 DEF Stage
    <3>2. db'.state = db.state /\ DOMAIN db' = DOMAIN db
      BY <3>1 DEF ExportInv, ExportTyped
    <3> QED BY <3>1, <3>2, <2>a
  <2> QED BY <2>1, <2>2, CommitKeeps, ExportBegins, ExportReads, ExportMade, ExportWrites,
             ExportEnds DEF ExportNext
<1>2. ExportInv => ServedIsCommitted
  <2> SUFFICES ASSUME ExportInv PROVE ServedIsCommitted
    OBVIOUS
  <2>1. MaterializedIsCommitted
    <3>1. DOMAIN committed = 1..Len(committed)
      BY DEF ExportInv, ExportTyped
    <3> QED BY <3>1 DEF ExportInv, Committed, MaterializedIsCommitted
  <2>2. ListedIsServed
    <3> SUFFICES ASSUME NEW name \in Listed \ (overlapped \cup abandoned)
                 PROVE  \/ Served(name)
                        \/ \E e \in Exporters :
                             exporter[e].at = "rename" /\ exporter[e].snapshot = name
      BY DEF ListedIsServed
    <3>1. \/ name \in DOMAIN temp /\ temp[name].manifest
          \/ name \in DOMAIN target /\ target[name].manifest
      BY DEF Listed
    <3> QED BY <3>1 DEF ExportInv, Whole, Served
  <2> QED BY <2>1, <2>2 DEF ServedIsCommitted
<1> QED BY <1>1, <1>2, ExportStarts, PTL DEF ExportSpec
-----------------------------------------------------------------------------
(* The services that pay.                                                  *)


IsChallenge(x) ==
  x = [address |-> x.address, status |-> x.status, created |-> x.created,
       claimed |-> x.claimed, tx |-> x.tx, seen |-> x.seen]
IsRequest(f) ==
  f = [pc |-> f.pc, claim |-> f.claim, to |-> f.to, tx |-> f.tx, seen |-> f.seen]
IsPost(p) == p = [tx |-> p.tx, claim |-> p.claim, by |-> p.by, at |-> p.at]

ServiceTypes ==
  /\ now \in Int
  /\ IsSeq(challenges) /\ Len(challenges) <= MaxChallenges
  /\ \A c \in DOMAIN challenges :
       /\ IsChallenge(challenges[c])
       /\ challenges[c].created \in Int /\ challenges[c].claimed \in Int
  /\ IsSeq(distributions) /\ IsSeq(failures)
  /\ \A i \in DOMAIN distributions : distributions[i].at \in Int
  /\ handler = [h \in Handler |-> handler[h]]
  /\ paid = [claim \in Claim |-> paid[claim]]
  /\ forgotten = [claim \in Claim |-> forgotten[claim]]

Active(h) == handler[h] # NoRequest

\* A request holds its challenge, has seen what the cooldown allows, and was
\* accepted only if it was.
RequestOK(f) ==
  /\ IsRequest(f) /\ f.pc \in {"account", "wait", "accepted", "refused"} /\ f.claim \in Claim
  /\ KeyOf(f.claim) = "mining" =>
       f.claim[2] \in DOMAIN challenges /\ challenges[f.claim[2]].status = "submitting"
  /\ KeyOf(f.claim) = "faucet" => f.claim[2] = f.to
  /\ \A i \in f.seen : i \in DOMAIN distributions /\
       (distributions[i].address = f.to => now - distributions[i].at >= Cooldown)
  /\ f.pc = "accepted" => f.tx \in paid[f.claim]

RequestsInv ==
  /\ \A h \in Handler : Active(h) => RequestOK(handler[h])
  /\ \A g, h \in Handler :
       Active(g) /\ Active(h) /\ handler[g].claim = handler[h].claim
         /\ KeyOf(handler[h].claim) = "mining" => g = h

\* Behind a broadcast a request waits for it, or its caller has given up; a request
\* that waits has its broadcast.
PostOK(p) ==
  /\ IsPost(p) /\ p.claim \in Claim
  /\ KeyOf(p.claim) = "mining" => p.claim[2] \in DOMAIN challenges
  /\ p.by = NoOne => p.tx \in forgotten[p.claim]
  /\ p.by # NoOne =>
       /\ p.by \in Handler /\ handler[p.by].pc = "wait"
       /\ handler[p.by].tx = p.tx /\ handler[p.by].claim = p.claim
  /\ p.at = "gossip" => p.tx \in paid[p.claim]

PostsInv ==
  /\ \A p \in posts : PostOK(p)
  /\ \A p, q \in posts : p.by = q.by /\ p.by # NoOne => p = q
  /\ \A h \in Handler : handler[h].pc = "wait" => \E p \in posts : p.by = h

Noted(claim, tx) ==
  \/ /\ KeyOf(claim) = "mining" /\ claim[2] \in DOMAIN challenges
     /\ challenges[claim[2]].status = "submitted" /\ challenges[claim[2]].tx = tx
  \/ /\ KeyOf(claim) = "faucet"
     /\ \E i \in DOMAIN distributions :
          distributions[i].address = claim[2] /\ distributions[i].tx = tx

\* Accepted, and a request has still to be told, or to write it down.
Sent(claim, tx) == \E p \in posts : p.at = "gossip" /\ p.claim = claim /\ p.tx = tx

Held(claim, tx) ==
  \/ \E h \in Handler : handler[h].pc = "accepted" /\ handler[h].claim = claim /\ handler[h].tx = tx
  \/ Sent(claim, tx)

RecordsInv ==
  /\ \A c \in DOMAIN challenges :
       challenges[c].status = "submitted" => challenges[c].tx \in paid[<<"mining", c>>]
  /\ \A i \in DOMAIN distributions :
       /\ distributions[i].address \in Recipient
       /\ distributions[i].tx \in paid[<<"faucet", distributions[i].address>>]
  /\ \A claim \in Claim : \A tx \in paid[claim] :
       Noted(claim, tx) \/ Held(claim, tx) \/ tx \in forgotten[claim]

\* As long as no answer got lost, a challenge is tried again only if it was
\* never paid and nothing is on its way for it.
Unclaimed(claim) ==
  claim[2] \notin DOMAIN challenges \/ challenges[claim[2]].status = "open"

NoPost(claim) == \A p \in posts : p.claim # claim

PaidAtMostOnce(claim) ==
  /\ \A s, t \in paid[claim] : s = t
  /\ \A p, q \in posts : p.claim = claim /\ q.claim = claim => p = q
  /\ \A p \in posts : p.claim = claim /\ p.at # "gossip" => paid[claim] = {}
  /\ Unclaimed(claim) => NoPost(claim) /\ paid[claim] = {}
  /\ \A h \in Handler : Active(h) /\ handler[h].claim = claim =>
       /\ handler[h].pc # "wait" => NoPost(claim)
       /\ handler[h].pc \in {"account", "refused"} => paid[claim] = {}

NoLoss == \A i \in DOMAIN failures : failures[i] \notin {"timeout", "restart"}

OnceInv ==
  NoLoss => \A claim \in Claim : KeyOf(claim) = "mining" => PaidAtMostOnce(claim)

\* What a check of the cooldown has seen lies a cooldown back.
CooldownInv ==
  /\ \A d \in DOMAIN challenges :
       /\ challenges[d].created <= now
       /\ challenges[d].status \in {"submitting", "submitted"} =>
            challenges[d].created <= challenges[d].claimed
       /\ \A c \in challenges[d].seen :
            /\ c \in DOMAIN challenges /\ challenges[c].status = "submitted"
            /\ challenges[c].address = challenges[d].address =>
                 challenges[d].created - challenges[c].claimed >= Cooldown
  /\ \A j \in DOMAIN distributions : \A i \in distributions[j].seen :
       /\ i \in DOMAIN distributions
       /\ distributions[i].address = distributions[j].address =>
            distributions[j].at - distributions[i].at >= Cooldown

ServiceInv ==
  /\ ServiceTypes
  /\ RequestsInv
  /\ PostsInv
  /\ RecordsInv
  /\ OnceInv
  /\ CooldownInv

LEMMA UpdateFacts ==
  ASSUME NEW s, IsSeq(s), NEW t, t = [i \in DOMAIN s |-> t[i]]
  PROVE  IsSeq(t) /\ Len(t) = Len(s)
<1>1. PICK n \in Nat : n = Len(s) /\ DOMAIN s = 1..n
  BY SequenceFacts
<1> DEFINE T == {t[i] : i \in 1..n}
<1>2. t \in [1..n -> T]
  BY <1>1
<1> HIDE DEF T
<1>3. t \in Seq(T) /\ Len(t) = n
  BY <1>2
<1> QED BY <1>1, <1>3 DEF IsSeq

LEMMA ClaimFacts ==
  ASSUME NEW claim \in Claim
  PROVE  \/ /\ KeyOf(claim) = "mining" /\ claim[2] \in 1..MaxChallenges
            /\ claim = <<"mining", claim[2]>>
         \/ /\ KeyOf(claim) = "faucet" /\ claim[2] \in Recipient
            /\ claim = <<"faucet", claim[2]>>
BY DEF Claim, KeyOf

LEMMA MiningClaim ==
  ASSUME ServiceInv, NEW c \in DOMAIN challenges
  PROVE  <<"mining", c>> \in Claim /\ KeyOf(<<"mining", c>>) = "mining" /\ <<"mining", c>>[2] = c
<1>1. Len(challenges) \in Nat /\ DOMAIN challenges = 1..Len(challenges)
      /\ Len(challenges) <= MaxChallenges
  BY SequenceFacts DEF ServiceInv, ServiceTypes
<1>2. c \in 1..MaxChallenges
  BY <1>1, ServiceAssumption
<1> QED BY <1>2 DEF Claim, KeyOf

LEMMA InitService == ServiceInit => ServiceInv
<1> SUFFICES ASSUME ServiceInit
             PROVE  ServiceInv
  OBVIOUS
<1>1. challenges = << >> /\ distributions = << >> /\ failures = << >> /\ posts = {}
  BY DEF ServiceInit
<1>2. IsSeq(<< >>) /\ Len(<< >>) = 0 /\ DOMAIN << >> = {}
  <2>1. << >> \in Seq({})
    OBVIOUS
  <2> QED BY <2>1 DEF IsSeq
<1>3. ServiceTypes
  BY <1>1, <1>2, ServiceAssumption DEF ServiceInit, ServiceTypes
<1>4. RequestsInv /\ PostsInv
  BY <1>1, <1>2 DEF ServiceInit, RequestsInv, PostsInv, Active, NoRequest
<1>5. RecordsInv
  BY <1>1, <1>2 DEF ServiceInit, RecordsInv
<1>6. OnceInv
  <2>1. \A h \in Handler : ~Active(h)
    BY DEF ServiceInit, Active
  <2>2. \A claim \in Claim : paid[claim] = {}
    BY DEF ServiceInit
  <2> QED BY <1>1, <2>1, <2>2 DEF OnceInv, PaidAtMostOnce, NoPost
<1>7. CooldownInv
  BY <1>1, <1>2 DEF CooldownInv
<1> QED BY <1>3, <1>4, <1>5, <1>6, <1>7 DEF ServiceInv

-----------------------------------------------------------------------------
(* The steps.                                                              *)

\* Time passes, or the mempool and the accounts change.
LEMMA StillStep ==
  ASSUME ServiceInv, now' \in Int, now' >= now,
         UNCHANGED <<challenges, distributions, handler, posts, paid, forgotten, failures>>
  PROVE  ServiceInv'
<1>1. now \in Int /\ Cooldown \in Int
  BY ServiceAssumption DEF ServiceInv, ServiceTypes
<1>2. ServiceTypes'
  BY DEF ServiceInv, ServiceTypes
<1>3. RequestsInv'
  <2>1. ASSUME NEW h \in Handler, Active(h) PROVE RequestOK(handler[h])'
    <3>1. RequestOK(handler[h])
      BY <2>1 DEF ServiceInv, RequestsInv
    <3>2. ASSUME NEW i \in handler[h].seen, distributions[i].address = handler[h].to
          PROVE  now' - distributions[i].at >= Cooldown
      <4>1. now - distributions[i].at >= Cooldown /\ distributions[i].at \in Int
        BY <3>1, <3>2 DEF RequestOK, ServiceInv, ServiceTypes
      <4> QED BY <1>1, <4>1
    <3> QED BY <3>1, <3>2 DEF RequestOK
  <2> QED BY <2>1 DEF ServiceInv, RequestsInv, Active
<1>4. PostsInv'
  BY DEF ServiceInv, PostsInv, PostOK
<1>5. RecordsInv'
  BY DEF ServiceInv, RecordsInv, Noted, Held, Sent
<1>6. OnceInv'
  BY DEF ServiceInv, OnceInv, NoLoss, PaidAtMostOnce, NoPost, Unclaimed, Active
<1>7. CooldownInv'
  <2>1. \A d \in DOMAIN challenges : challenges[d].created <= now'
    BY <1>1 DEF ServiceInv, ServiceTypes, CooldownInv
  <2> QED BY <2>1 DEF ServiceInv, CooldownInv
<1> QED BY <1>2, <1>3, <1>4, <1>5, <1>6, <1>7 DEF ServiceInv

LEMMA IssueStep ==
  ASSUME ServiceInv, NEW a \in Recipient, IssueChallenge(a)
  PROVE  ServiceInv'
<1> DEFINE x == [address |-> a, status |-> "open", created |-> now, claimed |-> -1,
                 tx |-> << >>,
                 seen |-> { c \in DOMAIN challenges : challenges[c].status = "submitted" }]
           n == Len(challenges)
<1>1. /\ challenges' = Append(challenges, x) /\ n < MaxChallenges
      /\ \A c \in Claimed(a) : now - challenges[c].claimed >= Cooldown
      /\ UNCHANGED <<now, distributions, handler, posts, paid, forgotten, failures>>
  BY DEF IssueChallenge, history, bounds
<1>2. /\ IsChallenge(x) /\ x.address = a /\ x.status = "open" /\ x.created = now
      /\ x.claimed = -1
      /\ x.seen = { c \in DOMAIN challenges : challenges[c].status = "submitted" }
  BY DEF IsChallenge
<1> HIDE DEF x
<1>3. /\ IsSeq(challenges') /\ Len(challenges') = n + 1 /\ n \in Nat /\ n + 1 \notin DOMAIN challenges
      /\ DOMAIN challenges' = DOMAIN challenges \cup {n + 1} /\ challenges'[n + 1] = x
      /\ \A c \in DOMAIN challenges : challenges'[c] = challenges[c]
  BY <1>1, AppendFacts, SequenceFacts DEF ServiceInv, ServiceTypes
<1>4. now \in Int /\ -1 \in Int
  BY DEF ServiceInv, ServiceTypes
<1>5. ServiceTypes'
  <2>1. Len(challenges') <= MaxChallenges
    BY <1>1, <1>3, ServiceAssumption
  <2>2. \A c \in DOMAIN challenges' : /\ IsChallenge(challenges'[c])
                                      /\ challenges'[c].created \in Int
                                      /\ challenges'[c].claimed \in Int
    BY <1>2, <1>3, <1>4 DEF ServiceInv, ServiceTypes
  <2> QED BY <1>1, <1>3, <2>1, <2>2 DEF ServiceInv, ServiceTypes
<1>6. RequestsInv'
  <2>1. ASSUME NEW h \in Handler, Active(h) PROVE RequestOK(handler[h])'
    <3>1. RequestOK(handler[h])
      BY <2>1 DEF ServiceInv, RequestsInv
    <3> QED BY <1>1, <1>3, <3>1 DEF RequestOK
  <2> QED BY <1>1, <2>1 DEF ServiceInv, RequestsInv, Active
<1>7. PostsInv'
  BY <1>1, <1>3 DEF ServiceInv, PostsInv, PostOK
<1>8. RecordsInv'
  <2>1. \A claim, tx : Noted(claim, tx) => Noted(claim, tx)'
    BY <1>1, <1>3 DEF Noted
  <2>2. \A claim, tx : Held(claim, tx) => Held(claim, tx)'
    BY <1>1 DEF Held, Sent
  <2>3. \A c \in DOMAIN challenges' :
          challenges'[c].status = "submitted" => challenges'[c].tx \in paid'[<<"mining", c>>]
    BY <1>1, <1>2, <1>3 DEF ServiceInv, RecordsInv
  <2> QED BY <1>1, <2>1, <2>2, <2>3 DEF ServiceInv, RecordsInv
<1>9. OnceInv'
  <2> SUFFICES ASSUME NoLoss, NEW claim \in Claim, KeyOf(claim) = "mining"
               PROVE  PaidAtMostOnce(claim)'
    BY <1>1 DEF OnceInv, NoLoss
  <2>1. PaidAtMostOnce(claim)
    BY DEF ServiceInv, OnceInv
  <2>2. Unclaimed(claim)' => Unclaimed(claim)
    BY <1>3 DEF Unclaimed
  <2> QED BY <1>1, <2>1, <2>2 DEF PaidAtMostOnce, NoPost, Active
<1>10. CooldownInv'
  <2>1. ASSUME NEW c \in x.seen, challenges[c].address = a
        PROVE  now - challenges[c].claimed >= Cooldown
    BY <1>1, <1>2, <2>1 DEF Claimed
  <2>2. ASSUME NEW d \in DOMAIN challenges'
        PROVE  /\ challenges'[d].created <= now'
               /\ challenges'[d].status \in {"submitting", "submitted"} =>
                    challenges'[d].created <= challenges'[d].claimed
               /\ \A c \in challenges'[d].seen :
                    /\ c \in DOMAIN challenges' /\ challenges'[c].status = "submitted"
                    /\ challenges'[c].address = challenges'[d].address =>
                         challenges'[d].created - challenges'[c].claimed >= Cooldown
    <3>1. CASE d \in DOMAIN challenges
      BY <1>1, <1>3, <3>1 DEF ServiceInv, CooldownInv
    <3>2. CASE d = n + 1
      BY <1>1, <1>2, <1>3, <1>4, <2>1, <3>2
    <3> QED BY <1>3, <3>1, <3>2
  <2> QED BY <1>1, <2>2 DEF ServiceInv, CooldownInv
<1> QED BY <1>5, <1>6, <1>7, <1>8, <1>9, <1>10 DEF ServiceInv

\* A new request f of h, for which the challenges in held get reserved.
Requested(h, f, ch, held) ==
  /\ ~Active(h) /\ handler' = [handler EXCEPT ![h] = f]
  /\ RequestOK(f)' /\ f.pc = "account"
  /\ UNCHANGED <<now, distributions, posts, paid, forgotten, failures>>
  /\ challenges' = ch /\ DOMAIN ch = DOMAIN challenges
  /\ IsSeq(ch) /\ Len(ch) = Len(challenges)
  /\ held \in SUBSET DOMAIN challenges
  /\ \A c \in DOMAIN challenges \ held : ch[c] = challenges[c]
  /\ \A c \in held :
       /\ challenges[c].status = "open" /\ ch[c].status = "submitting"
       /\ f.claim = <<"mining", c>> /\ IsChallenge(ch[c]) /\ ch[c].claimed = now
       /\ ch[c].address = challenges[c].address /\ ch[c].created = challenges[c].created
       /\ ch[c].seen = challenges[c].seen
  /\ \A c \in DOMAIN challenges : f.claim = <<"mining", c>> => c \in held

LEMMA RequestStep ==
  ASSUME ServiceInv, NEW h \in Handler, NEW f, NEW ch, NEW held, Requested(h, f, ch, held)
  PROVE  ServiceInv'
<1> /\ ~Active(h) /\ handler' = [handler EXCEPT ![h] = f]
    /\ RequestOK(f)' /\ f.pc = "account"
    /\ UNCHANGED <<now, distributions, posts, paid, forgotten, failures>>
    /\ challenges' = ch /\ DOMAIN ch = DOMAIN challenges
    /\ IsSeq(ch) /\ Len(ch) = Len(challenges)
    /\ held \in SUBSET DOMAIN challenges
    /\ \A c \in DOMAIN challenges \ held : ch[c] = challenges[c]
    /\ \A c \in held :
         /\ challenges[c].status = "open" /\ ch[c].status = "submitting"
         /\ f.claim = <<"mining", c>> /\ IsChallenge(ch[c]) /\ ch[c].claimed = now
         /\ ch[c].address = challenges[c].address /\ ch[c].created = challenges[c].created
         /\ ch[c].seen = challenges[c].seen
    /\ \A c \in DOMAIN challenges : f.claim = <<"mining", c>> => c \in held
  BY Zenon DEF Requested
<1>1. /\ now \in Int /\ handler'[h] = f /\ \A g \in Handler \ {h} : handler'[g] = handler[g]
      /\ f.claim \in Claim /\ Active(h)'
  <2>1. handler = [g \in Handler |-> handler[g]] /\ now \in Int
    BY DEF ServiceInv, ServiceTypes
  <2>2. f # NoRequest
    BY DEF NoRequest
  <2>3. f.claim \in Claim
    BY DEF RequestOK
  <2> QED BY <2>1, <2>2, <2>3 DEF Active
<1>2. ServiceTypes'
  <2>1. \A c \in DOMAIN ch : IsChallenge(ch[c]) /\ ch[c].created \in Int /\ ch[c].claimed \in Int
    BY <1>1 DEF ServiceInv, ServiceTypes
  <2>2. handler' = [g \in Handler |-> handler'[g]]
    BY DEF ServiceInv, ServiceTypes
  <2> QED BY <2>1, <2>2 DEF ServiceInv, ServiceTypes
<1>3. RequestsInv'
  <2>1. ASSUME NEW g \in Handler, g # h, Active(g)'
        PROVE  Active(g) /\ RequestOK(handler[g])'
    <3>1. handler'[g] = handler[g] /\ Active(g) /\ RequestOK(handler[g])
      BY <1>1, <2>1 DEF ServiceInv, RequestsInv, Active
    <3>2. KeyOf(handler[g].claim) = "mining" =>
            /\ handler[g].claim[2] \in DOMAIN ch
            /\ ch[handler[g].claim[2]].status = "submitting"
      BY <3>1 DEF RequestOK
    <3> QED BY <3>1, <3>2 DEF RequestOK
  <2>2. ASSUME NEW g \in Handler, g # h, Active(g)', handler'[g].claim = f.claim,
               KeyOf(f.claim) = "mining"
        PROVE  FALSE
    <3>1. Active(g) /\ RequestOK(handler[g]) /\ handler[g].claim = f.claim
      BY <1>1, <2>1, <2>2 DEF ServiceInv, RequestsInv
    <3>2. f.claim = <<"mining", f.claim[2]>> /\ f.claim[2] \in DOMAIN challenges
          /\ challenges[f.claim[2]].status = "submitting"
      BY <1>1, <2>2, <3>1, ClaimFacts DEF RequestOK
    <3> QED BY <3>2
  <2>3. \A g \in Handler : Active(g)' => RequestOK(handler[g])'
    BY <1>1, <2>1
  <2>4. ASSUME NEW g1 \in Handler, NEW g2 \in Handler, Active(g1)', Active(g2)',
               handler'[g1].claim = handler'[g2].claim, KeyOf(handler'[g2].claim) = "mining"
        PROVE  g1 = g2
    <3>1. CASE g1 = h \/ g2 = h
      BY <1>1, <2>2, <2>4, <3>1
    <3>2. CASE g1 # h /\ g2 # h
      BY <1>1, <2>1, <2>4, <3>2 DEF ServiceInv, RequestsInv
    <3> QED BY <3>1, <3>2
  <2> QED BY <2>3, <2>4 DEF RequestsInv
<1>4. PostsInv'
  <2>1. ASSUME NEW p \in posts PROVE PostOK(p)'
    <3>1. PostOK(p)
      BY DEF ServiceInv, PostsInv
    <3>2. p.by # NoOne => p.by # h
      BY <3>1 DEF PostOK, Active, NoRequest
    <3> QED BY <1>1, <3>1, <3>2 DEF PostOK
  <2>2. \A g \in Handler : handler'[g].pc = "wait" => g # h /\ handler[g].pc = "wait"
    BY <1>1
  <2> QED BY <2>1, <2>2 DEF ServiceInv, PostsInv
<1>5. RecordsInv'
  <2>1. \A claim, tx : Noted(claim, tx) => Noted(claim, tx)'
    BY DEF Noted
  <2>2. \A claim, tx : Held(claim, tx) => Held(claim, tx)'
    BY <1>1 DEF Held, Sent, Active, NoRequest
  <2>3. \A c \in DOMAIN ch : ch[c].status = "submitted" => ch[c].tx \in paid'[<<"mining", c>>]
    BY DEF ServiceInv, RecordsInv
  <2> QED BY <2>1, <2>2, <2>3 DEF ServiceInv, RecordsInv
<1>6. OnceInv'
  <2> SUFFICES ASSUME NoLoss, NEW claim \in Claim, KeyOf(claim) = "mining"
               PROVE  PaidAtMostOnce(claim)'
    BY DEF OnceInv, NoLoss
  <2>1. PaidAtMostOnce(claim)
    BY DEF ServiceInv, OnceInv
  <2>2. Unclaimed(claim)' => Unclaimed(claim)
    BY DEF Unclaimed
  <2>3. f.claim = claim => Unclaimed(claim)
    <3>1. claim = <<"mining", claim[2]>>
      BY ClaimFacts
    <3> QED BY <3>1 DEF Unclaimed
  <2>4. NoPost(claim)' <=> NoPost(claim)
    BY DEF NoPost
  <2>5. ASSUME NEW g \in Handler, Active(g)', handler'[g].claim = claim
        PROVE  /\ handler'[g].pc # "wait" => NoPost(claim)
               /\ handler'[g].pc \in {"account", "refused"} => paid[claim] = {}
    <3>1. CASE g = h
      BY <1>1, <2>1, <2>3, <2>5, <3>1 DEF PaidAtMostOnce
    <3>2. CASE g # h
      BY <1>1, <2>1, <2>5, <3>2 DEF PaidAtMostOnce, Active
    <3> QED BY <3>1, <3>2
  <2> QED BY <2>1, <2>2, <2>4, <2>5 DEF PaidAtMostOnce
<1>7. CooldownInv'
  <2>1. ASSUME NEW d \in DOMAIN ch
        PROVE  /\ ch[d].created <= now
               /\ ch[d].status \in {"submitting", "submitted"} => ch[d].created <= ch[d].claimed
               /\ ch[d].seen = challenges[d].seen /\ ch[d].address = challenges[d].address
               /\ ch[d].created = challenges[d].created
    BY DEF ServiceInv, CooldownInv
  <2>2. ASSUME NEW d \in DOMAIN ch, NEW c \in ch[d].seen
        PROVE  /\ c \in DOMAIN ch /\ ch[c].status = "submitted"
               /\ ch[c].address = ch[d].address => ch[d].created - ch[c].claimed >= Cooldown
    <3>1. c \in DOMAIN challenges /\ challenges[c].status = "submitted" /\ c \in challenges[d].seen
      BY <2>1 DEF ServiceInv, CooldownInv
    <3>2. ch[c] = challenges[c]
      BY <3>1
    <3> QED BY <2>1, <3>1, <3>2 DEF ServiceInv, CooldownInv
  <2> QED BY <2>1, <2>2 DEF ServiceInv, CooldownInv
<1> QED BY <1>2, <1>3, <1>4, <1>5, <1>6, <1>7 DEF ServiceInv

LEMMA ReserveStep ==
  ASSUME ServiceInv, NEW h \in Handler, NEW c \in DOMAIN challenges, ReserveSolution(h, c)
  PROVE  ServiceInv'
<1>1. PICK f, ch :
        /\ f = [pc |-> "account", claim |-> <<"mining", c>>, to |-> challenges[c].address,
                tx |-> << >>, seen |-> {}]
        /\ ch = [challenges EXCEPT ![c].status = "submitting", ![c].claimed = now]
  OBVIOUS
<1>2. /\ challenges[c].status = "open" /\ challenges' = ch /\ handler' = [handler EXCEPT ![h] = f]
      /\ ~Active(h)
      /\ UNCHANGED <<now, distributions, posts, paid, forgotten, failures>>
  BY <1>1 DEF ReserveSolution, Request, Free, Active, history
<1>3. IsChallenge(challenges[c]) /\ IsSeq(challenges)
  BY DEF ServiceInv, ServiceTypes
<1>4. /\ DOMAIN ch = DOMAIN challenges /\ ch = [d \in DOMAIN challenges |-> ch[d]]
      /\ \A d \in DOMAIN challenges \ {c} : ch[d] = challenges[d]
      /\ ch[c] = [challenges[c] EXCEPT !.status = "submitting", !.claimed = now]
  <2>1. challenges = [d \in DOMAIN challenges |-> challenges[d]]
    BY <1>3 DEF IsSeq
  <2> QED BY <1>1, <2>1
<1>5. /\ IsChallenge(ch[c]) /\ ch[c].status = "submitting" /\ ch[c].claimed = now
      /\ ch[c].address = challenges[c].address /\ ch[c].created = challenges[c].created
      /\ ch[c].seen = challenges[c].seen
  <2> DEFINE x == challenges[c]
             y == [x EXCEPT !.status = "submitting", !.claimed = now]
  <2>1. IsChallenge(x) /\ ch[c] = y
    BY <1>3, <1>4
  <2> HIDE DEF x
  <2>2. y = [address |-> x.address, status |-> "submitting", created |-> x.created,
             claimed |-> now, tx |-> x.tx, seen |-> x.seen]
    BY <2>1 DEF IsChallenge
  <2> QED BY <2>1, <2>2 DEF IsChallenge, x
<1>6. IsSeq(ch) /\ Len(ch) = Len(challenges)
  BY <1>3, <1>4, UpdateFacts
<1>7. /\ IsRequest(f) /\ f.pc = "account" /\ f.claim = <<"mining", c>> /\ f.seen = {}
      /\ f.claim \in Claim /\ KeyOf(f.claim) = "mining" /\ f.claim[2] = c
  BY <1>1, MiningClaim DEF IsRequest
<1>8. RequestOK(f)'
  BY <1>2, <1>4, <1>5, <1>7 DEF RequestOK
<1>9. \A d \in DOMAIN challenges : f.claim = <<"mining", d>> => d \in {c}
  BY <1>7
<1>10. \A d \in {c} :
           /\ challenges[d].status = "open" /\ ch[d].status = "submitting"
           /\ f.claim = <<"mining", d>> /\ IsChallenge(ch[d]) /\ ch[d].claimed = now
           /\ ch[d].address = challenges[d].address /\ ch[d].created = challenges[d].created
           /\ ch[d].seen = challenges[d].seen
  BY <1>2, <1>5, <1>7
<1>11. {c} \in SUBSET DOMAIN challenges
  OBVIOUS
<1>12. /\ \A d \in DOMAIN challenges \ {c} : ch[d] = challenges[d]
       /\ DOMAIN ch = DOMAIN challenges /\ f.pc = "account"
  BY <1>4, <1>7
<1>13. Requested(h, f, ch, {c})
  BY ONLY <1>2, <1>6, <1>8, <1>9, <1>10, <1>11, <1>12, Zenon DEF Requested
<1> QED BY <1>13, RequestStep

LEMMA FundsStep ==
  ASSUME ServiceInv, NEW h \in Handler, NEW a \in Recipient, RequestFunds(h, a)
  PROVE  ServiceInv'
<1>1. PICK f, ch :
        /\ f = [pc |-> "account", claim |-> <<"faucet", a>>, to |-> a,
                tx |-> << >>, seen |-> DOMAIN distributions]
        /\ ch = challenges
  OBVIOUS
<1>2. /\ handler' = [handler EXCEPT ![h] = f] /\ ~Active(h)
      /\ \A i \in DOMAIN distributions :
           distributions[i].address = a => now - distributions[i].at >= Cooldown
      /\ UNCHANGED <<now, challenges, distributions, posts, paid, forgotten, failures>>
  BY <1>1 DEF RequestFunds, Request, Free, Active, history, store
<1>3. /\ IsRequest(f) /\ f.pc = "account" /\ f.claim = <<"faucet", a>> /\ f.to = a
      /\ f.seen = DOMAIN distributions
      /\ f.claim \in Claim /\ KeyOf(f.claim) = "faucet" /\ f.claim[2] = a
  BY <1>1 DEF IsRequest, Claim, KeyOf
<1>4. RequestOK(f)'
  BY <1>2, <1>3 DEF RequestOK
<1>5. \A d \in DOMAIN challenges : f.claim = <<"mining", d>> => d \in {}
  BY <1>3 DEF KeyOf
<1>6. IsSeq(ch) /\ challenges' = ch /\ DOMAIN ch = DOMAIN challenges /\ Len(ch) = Len(challenges)
  BY <1>1, <1>2 DEF ServiceInv, ServiceTypes
<1>7. {} \in SUBSET DOMAIN challenges /\ \A d \in DOMAIN challenges \ {} : ch[d] = challenges[d]
  BY <1>1
<1>8. Requested(h, f, ch, {})
  BY ONLY <1>2, <1>3, <1>4, <1>5, <1>6, <1>7 DEF Requested
<1> QED BY <1>8, RequestStep

\* Requests go on, and only the validator's side of the books changes.
Progressed ==
  /\ UNCHANGED <<now, challenges, distributions>>
  /\ IsSeq(failures') /\ (NoLoss' => NoLoss)
  /\ handler' = [g \in Handler |-> handler'[g]]
  /\ paid' = [claim \in Claim |-> paid'[claim]]
  /\ forgotten' = [claim \in Claim |-> forgotten'[claim]]
  /\ \A g \in Handler :
       /\ ~Active(g) => handler'[g] = handler[g]
       /\ Active(g) =>
            /\ IsRequest(handler'[g]) /\ handler'[g].claim = handler[g].claim
            /\ handler'[g].to = handler[g].to /\ handler'[g].seen = handler[g].seen
            /\ handler'[g].pc \in {"account", "wait", "accepted", "refused"}
            /\ handler'[g].pc = "accepted" => handler'[g].tx \in paid'[handler[g].claim]
       /\ handler[g].pc = "accepted" => handler'[g] = handler[g]
  /\ \A claim \in Claim :
       /\ paid[claim] \subseteq paid'[claim] /\ forgotten[claim] \subseteq forgotten'[claim]
       /\ \A tx : (tx \in paid'[claim] \ paid[claim] \/ Sent(claim, tx)) =>
            Held(claim, tx)' \/ tx \in forgotten'[claim]

LEMMA ProgressFacts ==
  ASSUME ServiceInv, Progressed
  PROVE  /\ ServiceTypes' /\ RequestsInv' /\ RecordsInv' /\ CooldownInv'
         /\ \A g \in Handler : Active(g)' <=> Active(g)
<1>1. \A g \in Handler : Active(g)' <=> Active(g)
  BY DEF Progressed, Active, NoRequest
<1>2. ServiceTypes'
  BY DEF Progressed, ServiceInv, ServiceTypes
<1>3. RequestsInv'
  <2>1. ASSUME NEW g \in Handler, Active(g)'
        PROVE  RequestOK(handler[g])' /\ handler'[g].claim = handler[g].claim
    <3>1. Active(g) /\ RequestOK(handler[g])
      BY <1>1, <2>1 DEF ServiceInv, RequestsInv
    <3>2. /\ IsRequest(handler'[g]) /\ handler'[g].claim = handler[g].claim
          /\ handler'[g].to = handler[g].to /\ handler'[g].seen = handler[g].seen
          /\ handler'[g].pc \in {"account", "wait", "accepted", "refused"}
          /\ handler'[g].pc = "accepted" => handler'[g].tx \in paid'[handler[g].claim]
          /\ UNCHANGED <<now, challenges, distributions>>
      BY <3>1 DEF Progressed
    <3> QED BY <3>1, <3>2 DEF RequestOK
  <2> QED BY <1>1, <2>1 DEF ServiceInv, RequestsInv
<1>4. RecordsInv'
  <2>1. \A claim, tx : Noted(claim, tx) => Noted(claim, tx)'
    BY DEF Noted, Progressed
  <2>2. ASSUME NEW claim \in Claim, NEW tx, Held(claim, tx)
        PROVE  Held(claim, tx)' \/ tx \in forgotten'[claim]
    BY <2>2 DEF Held, Progressed
  <2>3. \A claim \in Claim : paid[claim] \subseteq paid'[claim]
    BY DEF Progressed
  <2>4. ASSUME NEW c \in DOMAIN challenges', challenges'[c].status = "submitted"
        PROVE  challenges'[c].tx \in paid'[<<"mining", c>>]
    <3>1. challenges' = challenges
      BY DEF Progressed
    <3>2. <<"mining", c>> \in Claim /\ challenges[c].tx \in paid[<<"mining", c>>]
      BY <2>4, <3>1, MiningClaim DEF ServiceInv, RecordsInv
    <3> QED BY <2>3, <3>1, <3>2
  <2>5. ASSUME NEW i \in DOMAIN distributions'
        PROVE  /\ distributions'[i].address \in Recipient
               /\ distributions'[i].tx \in paid'[<<"faucet", distributions'[i].address>>]
    <3>1. distributions' = distributions
      BY DEF Progressed
    <3>2. /\ distributions[i].address \in Recipient
          /\ distributions[i].tx \in paid[<<"faucet", distributions[i].address>>]
      BY <2>5, <3>1 DEF ServiceInv, RecordsInv
    <3>3. <<"faucet", distributions[i].address>> \in Claim
      BY <3>2 DEF Claim
    <3> QED BY <2>3, <3>1, <3>2, <3>3
  <2>6. ASSUME NEW claim \in Claim, NEW tx \in paid'[claim]
        PROVE  (Noted(claim, tx) \/ Held(claim, tx) \/ tx \in forgotten[claim])'
    <3>1. CASE tx \in paid[claim]
      BY <2>1, <2>2, <3>1 DEF ServiceInv, RecordsInv, Progressed
    <3>2. CASE tx \notin paid[claim]
      BY <3>2 DEF Progressed
    <3> QED BY <3>1, <3>2
  <2> QED BY <2>4, <2>5, <2>6 DEF RecordsInv
<1>5. CooldownInv'
  BY DEF Progressed, ServiceInv, CooldownInv
<1> QED BY <1>1, <1>2, <1>3, <1>4, <1>5

\* A challenge that a request works for is reserved, and by that request only.
LEMMA OwnClaim ==
  ASSUME ServiceInv, NEW h \in Handler, Active(h), KeyOf(handler[h].claim) = "mining"
  PROVE  /\ ~Unclaimed(handler[h].claim)
         /\ handler[h].claim[2] \in DOMAIN challenges
         /\ challenges[handler[h].claim[2]].status = "submitting"
         /\ \A g \in Handler : Active(g) /\ handler[g].claim = handler[h].claim => g = h
<1>1. RequestOK(handler[h])
  BY DEF ServiceInv, RequestsInv
<1>2. /\ handler[h].claim[2] \in DOMAIN challenges
      /\ challenges[handler[h].claim[2]].status = "submitting"
  BY <1>1 DEF RequestOK
<1>3. \A g \in Handler : Active(g) /\ handler[g].claim = handler[h].claim => g = h
  BY DEF ServiceInv, RequestsInv
<1> QED BY <1>2, <1>3 DEF Unclaimed

LEMMA ReadStep ==
  ASSUME ServiceInv, NEW h \in Handler, ReadAccount(h)
  PROVE  ServiceInv'
<1>1. PICK f, tx : f = handler[h]
        /\ tx = [from |-> KeyOf(f.claim), to |-> f.to, nonce |-> nonce[KeyOf(f.claim)] + 1]
  OBVIOUS
<1>2. /\ f.pc = "account" /\ UNCHANGED <<now, challenges, distributions, paid, forgotten, failures>>
      /\ \/ /\ handler' = [handler EXCEPT ![h].pc = "wait", ![h].tx = tx]
            /\ posts' = posts \cup {[tx |-> tx, claim |-> f.claim, by |-> h, at |-> "sent"]}
         \/ /\ handler' = [handler EXCEPT ![h].pc = "refused"]
            /\ UNCHANGED posts
  BY <1>1 DEF ReadAccount, store, history, bounds
<1>3. /\ Active(h) /\ RequestOK(f) /\ IsRequest(f)
      /\ handler = [g \in Handler |-> handler[g]]
      /\ paid = [claim \in Claim |-> paid[claim]] /\ IsSeq(failures)
  <2>1. Active(h)
    BY <1>1, <1>2 DEF Active, NoRequest
  <2> QED BY <1>1, <2>1 DEF ServiceInv, RequestsInv, RequestOK, ServiceTypes
<1>4. \A p \in posts : p.by # h
  <2>1. h # NoOne
    BY ServiceAssumption
  <2> QED BY <1>1, <1>2, <2>1 DEF ServiceInv, PostsInv, PostOK
<1>5. ASSUME handler' = [handler EXCEPT ![h].pc = "wait", ![h].tx = tx],
             posts' = posts \cup {[tx |-> tx, claim |-> f.claim, by |-> h, at |-> "sent"]}
      PROVE  ServiceInv'
  <2>1. /\ handler' = [g \in Handler |-> handler'[g]]
        /\ handler'[h] = [f EXCEPT !.pc = "wait", !.tx = tx]
        /\ \A g \in Handler \ {h} : handler'[g] = handler[g]
    BY <1>1, <1>3, <1>5
  <2>2. handler'[h] = [pc |-> "wait", claim |-> f.claim, to |-> f.to, tx |-> tx, seen |-> f.seen]
    BY <1>3, <2>1 DEF IsRequest
  <2>3. /\ IsRequest(handler'[h]) /\ handler'[h].pc = "wait" /\ handler'[h].claim = f.claim
        /\ handler'[h].to = f.to /\ handler'[h].tx = tx /\ handler'[h].seen = f.seen
    BY <2>2 DEF IsRequest
  <2>4. Progressed
    <3>1. ASSUME NEW g \in Handler
          PROVE  /\ ~Active(g) => handler'[g] = handler[g]
                 /\ Active(g) =>
                      /\ IsRequest(handler'[g]) /\ handler'[g].claim = handler[g].claim
                      /\ handler'[g].to = handler[g].to /\ handler'[g].seen = handler[g].seen
                      /\ handler'[g].pc \in {"account", "wait", "accepted", "refused"}
                      /\ handler'[g].pc = "accepted" => handler'[g].tx \in paid'[handler[g].claim]
                 /\ handler[g].pc = "accepted" => handler'[g] = handler[g]
      <4>1. CASE g = h
        BY <1>1, <1>2, <1>3, <2>3, <4>1
      <4>2. CASE g # h
        BY <1>2, <2>1, <4>2 DEF ServiceInv, RequestsInv, RequestOK
      <4> QED BY <4>1, <4>2
    <3>2. posts \subseteq posts'
      BY <1>5
    <3>3. \A claim, tx2 : Sent(claim, tx2) => Held(claim, tx2)'
      BY <3>2 DEF Sent, Held
    <3> QED BY <1>2, <1>3, <2>1, <3>1, <3>3 DEF Progressed, NoLoss, ServiceInv, ServiceTypes
  <2>5. PICK p : p = [tx |-> tx, claim |-> f.claim, by |-> h, at |-> "sent"]
    OBVIOUS
  <2>6. /\ IsPost(p) /\ p.tx = tx /\ p.claim = f.claim /\ p.by = h /\ posts' = posts \cup {p}
        /\ p.at = "sent" /\ f.claim \in Claim
    BY <1>3, <1>5, <2>5 DEF IsPost, RequestOK
  <2>7. PostsInv'
    <3>1. PostOK(p)'
      BY <1>2, <1>3, <2>3, <2>6, ServiceAssumption DEF PostOK, RequestOK
    <3>2. ASSUME NEW q \in posts PROVE PostOK(q)'
      <4>1. PostOK(q) /\ q.by # h
        BY <1>4 DEF ServiceInv, PostsInv
      <4> QED BY <1>2, <2>1, <4>1 DEF PostOK
    <3>3. \A q, r \in posts' : q.by = r.by /\ q.by # NoOne => q = r
      BY <1>4, <2>6 DEF ServiceInv, PostsInv
    <3>4. ASSUME NEW g \in Handler, handler'[g].pc = "wait" PROVE \E q \in posts' : q.by = g
      <4>1. CASE g = h
        BY <2>6, <4>1
      <4>2. CASE g # h
        BY <2>1, <2>6, <3>4, <4>2 DEF ServiceInv, PostsInv
      <4> QED BY <4>1, <4>2
    <3> QED BY <2>6, <3>1, <3>2, <3>3, <3>4 DEF PostsInv
  <2>8. OnceInv'
    <3> SUFFICES ASSUME NoLoss, NEW claim \in Claim, KeyOf(claim) = "mining"
                 PROVE  PaidAtMostOnce(claim)'
      BY <1>2 DEF OnceInv, NoLoss
    <3>1. PaidAtMostOnce(claim) /\ (Unclaimed(claim)' <=> Unclaimed(claim))
      BY <1>2 DEF ServiceInv, OnceInv, Unclaimed
    <3>2. CASE claim = f.claim
      <4>1. /\ ~Unclaimed(claim) /\ \A g \in Handler : Active(g) /\ handler[g].claim = claim => g = h
        BY <1>1, <1>3, <3>2, OwnClaim
      <4>2. NoPost(claim) /\ paid[claim] = {}
        BY <1>1, <1>2, <1>3, <3>1, <3>2 DEF PaidAtMostOnce
      <4>3. \A q \in posts' : q.claim = claim => q = p
        BY <2>6, <4>2 DEF NoPost
      <4>4. \A g \in Handler : Active(g)' /\ handler'[g].claim = claim => g = h
        BY <2>4, <4>1, ProgressFacts DEF Progressed
      <4> QED BY <1>2, <2>3, <3>1, <4>1, <4>2, <4>3, <4>4 DEF PaidAtMostOnce
    <3>3. CASE claim # f.claim
      <4>1. NoPost(claim)' <=> NoPost(claim)
        BY <2>6, <3>3 DEF NoPost
      <4>2. \A q \in posts' : q.claim = claim => q \in posts
        BY <2>6, <3>3
      <4>3. \A g \in Handler : Active(g)' /\ handler'[g].claim = claim =>
              Active(g) /\ handler[g].claim = claim /\ handler'[g] = handler[g]
        BY <2>1, <2>3, <3>3 DEF Active
      <4> QED BY <1>2, <3>1, <4>1, <4>2, <4>3 DEF PaidAtMostOnce
    <3> QED BY <3>2, <3>3
  <2> QED BY <2>4, <2>7, <2>8, ProgressFacts DEF ServiceInv
<1>6. ASSUME handler' = [handler EXCEPT ![h].pc = "refused"], UNCHANGED posts
      PROVE  ServiceInv'
  <2>1. /\ handler' = [g \in Handler |-> handler'[g]]
        /\ handler'[h] = [f EXCEPT !.pc = "refused"]
        /\ \A g \in Handler \ {h} : handler'[g] = handler[g]
    BY <1>1, <1>3, <1>6
  <2>2. handler'[h] = [pc |-> "refused", claim |-> f.claim, to |-> f.to, tx |-> f.tx, seen |-> f.seen]
    BY <1>3, <2>1 DEF IsRequest
  <2>3. /\ IsRequest(handler'[h]) /\ handler'[h].pc = "refused" /\ handler'[h].claim = f.claim
        /\ handler'[h].to = f.to /\ handler'[h].tx = f.tx /\ handler'[h].seen = f.seen
    BY <2>2 DEF IsRequest
  <2>4. Progressed
    <3>1. ASSUME NEW g \in Handler
          PROVE  /\ ~Active(g) => handler'[g] = handler[g]
                 /\ Active(g) =>
                      /\ IsRequest(handler'[g]) /\ handler'[g].claim = handler[g].claim
                      /\ handler'[g].to = handler[g].to /\ handler'[g].seen = handler[g].seen
                      /\ handler'[g].pc \in {"account", "wait", "accepted", "refused"}
                      /\ handler'[g].pc = "accepted" => handler'[g].tx \in paid'[handler[g].claim]
                 /\ handler[g].pc = "accepted" => handler'[g] = handler[g]
      <4>1. CASE g = h
        BY <1>1, <1>2, <1>3, <2>3, <4>1
      <4>2. CASE g # h
        BY <1>2, <2>1, <4>2 DEF ServiceInv, RequestsInv, RequestOK
      <4> QED BY <4>1, <4>2
    <3>2. \A claim, tx2 : Sent(claim, tx2) => Held(claim, tx2)'
      BY <1>6 DEF Sent, Held
    <3> QED BY <1>2, <1>3, <2>1, <3>1, <3>2 DEF Progressed, NoLoss, ServiceInv, ServiceTypes
  <2>5. PostsInv'
    <3>1. ASSUME NEW q \in posts PROVE PostOK(q)'
      <4>1. PostOK(q) /\ q.by # h
        BY <1>4 DEF ServiceInv, PostsInv
      <4> QED BY <1>2, <2>1, <4>1 DEF PostOK
    <3>2. \A g \in Handler : handler'[g].pc = "wait" => handler[g].pc = "wait"
      BY <2>1, <2>3
    <3> QED BY <1>6, <3>1, <3>2 DEF ServiceInv, PostsInv
  <2>6. OnceInv'
    <3> SUFFICES ASSUME NoLoss, NEW claim \in Claim, KeyOf(claim) = "mining"
                 PROVE  PaidAtMostOnce(claim)'
      BY <1>2 DEF OnceInv, NoLoss
    <3>1. /\ PaidAtMostOnce(claim) /\ (Unclaimed(claim)' <=> Unclaimed(claim))
          /\ (NoPost(claim)' <=> NoPost(claim))
      BY <1>2, <1>6 DEF ServiceInv, OnceInv, Unclaimed, NoPost
    <3>2. ASSUME NEW g \in Handler, Active(g)', handler'[g].claim = claim
          PROVE  /\ handler'[g].pc # "wait" => NoPost(claim)
                 /\ handler'[g].pc \in {"account", "refused"} => paid[claim] = {}
      <4>1. CASE g = h
        BY <1>1, <1>2, <1>3, <2>3, <3>1, <3>2, <4>1 DEF PaidAtMostOnce
      <4>2. CASE g # h
        BY <2>1, <3>1, <3>2, <4>2 DEF PaidAtMostOnce, Active
      <4> QED BY <4>1, <4>2
    <3> QED BY <1>2, <1>6, <3>1, <3>2 DEF PaidAtMostOnce
  <2> QED BY <2>4, <2>5, <2>6, ProgressFacts DEF ServiceInv
<1> QED BY <1>2, <1>5, <1>6

\* The answer is written down.
LEMMA SubmittedStep ==
  ASSUME ServiceInv, NEW h \in Handler, Answered(h), KeyOf(handler[h].claim) = "mining"
  PROVE  ServiceInv'
<1>1. PICK f, c : f = handler[h] /\ c = f.claim[2]
  OBVIOUS
<1>2. /\ f.pc = "accepted"
      /\ challenges' = [challenges EXCEPT ![c].status = "submitted", ![c].tx = f.tx]
      /\ handler' = [handler EXCEPT ![h] = NoRequest]
      /\ UNCHANGED <<now, distributions, posts, paid, forgotten, failures>>
  BY <1>1 DEF Answered, Submitted, history, bounds
<1>3. /\ Active(h) /\ RequestOK(f) /\ f.claim \in Claim /\ f.claim = <<"mining", c>>
      /\ f.tx \in paid[f.claim] /\ c \in DOMAIN challenges /\ challenges[c].status = "submitting"
      /\ \A g \in Handler : Active(g) /\ handler[g].claim = f.claim => g = h
  <2>1. Active(h)
    BY <1>1, <1>2 DEF Active, NoRequest
  <2>2. RequestOK(f) /\ f.claim \in Claim /\ f.tx \in paid[f.claim]
    BY <1>1, <1>2, <2>1 DEF ServiceInv, RequestsInv, RequestOK
  <2>3. f.claim = <<"mining", c>>
    BY <1>1, <2>2, ClaimFacts
  <2> QED BY <1>1, <2>1, <2>2, <2>3, OwnClaim
<1>4. /\ IsSeq(challenges) /\ IsChallenge(challenges[c]) /\ handler = [g \in Handler |-> handler[g]]
  BY <1>3 DEF ServiceInv, ServiceTypes
<1>5. /\ DOMAIN challenges' = DOMAIN challenges
      /\ challenges' = [d \in DOMAIN challenges |-> challenges'[d]]
      /\ \A d \in DOMAIN challenges \ {c} : challenges'[d] = challenges[d]
      /\ challenges'[c] = [challenges[c] EXCEPT !.status = "submitted", !.tx = f.tx]
  <2>1. challenges = [d \in DOMAIN challenges |-> challenges[d]]
    BY <1>4 DEF IsSeq
  <2> QED BY <1>2, <1>3, <2>1
<1>6. /\ IsChallenge(challenges'[c]) /\ challenges'[c].status = "submitted" /\ challenges'[c].tx = f.tx
      /\ challenges'[c].address = challenges[c].address /\ challenges'[c].created = challenges[c].created
      /\ challenges'[c].claimed = challenges[c].claimed /\ challenges'[c].seen = challenges[c].seen
  <2>1. PICK x, y : x = challenges[c] /\ y = [x EXCEPT !.status = "submitted", !.tx = f.tx]
    OBVIOUS
  <2>2. y = [address |-> x.address, status |-> "submitted", created |-> x.created,
             claimed |-> x.claimed, tx |-> f.tx, seen |-> x.seen]
    BY <1>4, <2>1 DEF IsChallenge
  <2>3. /\ IsChallenge(y) /\ y.status = "submitted" /\ y.tx = f.tx /\ y.address = x.address
        /\ y.created = x.created /\ y.claimed = x.claimed /\ y.seen = x.seen
    BY <2>2 DEF IsChallenge
  <2> QED BY <1>5, <2>1, <2>3
<1>7. IsSeq(challenges') /\ Len(challenges') = Len(challenges)
  <2>1. PICK s : s = challenges'
    OBVIOUS
  <2> QED BY <1>4, <1>5, <2>1, UpdateFacts
<1>8. /\ handler' = [g \in Handler |-> handler'[g]] /\ handler'[h] = NoRequest
      /\ \A g \in Handler \ {h} : handler'[g] = handler[g]
  BY <1>2, <1>4
<1>9. \A g \in Handler : Active(g)' => g # h /\ Active(g) /\ handler'[g] = handler[g]
  BY <1>8 DEF Active
<1>10. ServiceTypes'
  <2>1. \A d \in DOMAIN challenges : /\ IsChallenge(challenges'[d])
                                     /\ challenges'[d].created \in Int /\ challenges'[d].claimed \in Int
    BY <1>3, <1>5, <1>6 DEF ServiceInv, ServiceTypes
  <2> QED BY <1>2, <1>5, <1>7, <1>8, <2>1 DEF ServiceInv, ServiceTypes
<1>11. RequestsInv'
  <2>1. ASSUME NEW g \in Handler, Active(g)' PROVE RequestOK(handler[g])'
    <3>1. /\ RequestOK(handler[g]) /\ handler'[g] = handler[g] /\ handler[g].claim # f.claim
          /\ handler[g].claim \in Claim
      BY <1>3, <1>9, <2>1 DEF ServiceInv, RequestsInv, RequestOK
    <3>2. ASSUME KeyOf(handler[g].claim) = "mining"
          PROVE  /\ handler[g].claim[2] \in DOMAIN challenges'
                 /\ challenges'[handler[g].claim[2]].status = "submitting"
      <4>1. handler[g].claim = <<"mining", handler[g].claim[2]>>
        BY <3>1, <3>2, ClaimFacts
      <4>2. handler[g].claim[2] # c
        BY <1>3, <3>1, <4>1
      <4> QED BY <1>5, <3>1, <3>2, <4>2 DEF RequestOK
    <3> QED BY <1>2, <3>1, <3>2 DEF RequestOK
  <2> QED BY <1>9, <2>1 DEF ServiceInv, RequestsInv
<1>12. PostsInv'
  <2>1. ASSUME NEW p \in posts PROVE PostOK(p)'
    <3>1. PostOK(p) /\ (p.by # NoOne => p.by # h)
      BY <1>1, <1>2 DEF ServiceInv, PostsInv, PostOK
    <3> QED BY <1>2, <1>5, <1>8, <3>1 DEF PostOK
  <2>2. \A g \in Handler : handler'[g].pc = "wait" => handler[g].pc = "wait"
    BY <1>8 DEF NoRequest
  <2> QED BY <1>2, <2>1, <2>2 DEF ServiceInv, PostsInv
<1>13. RecordsInv'
  <2>1. ASSUME NEW claim \in Claim, NEW tx, Noted(claim, tx) PROVE Noted(claim, tx)'
    BY <1>2, <1>3, <1>5, <2>1 DEF Noted
  <2>2. ASSUME NEW claim \in Claim, NEW tx, Held(claim, tx) PROVE Noted(claim, tx)' \/ Held(claim, tx)'
    <3>1. ASSUME NEW g \in Handler, handler[g].pc = "accepted", handler[g].claim = claim,
                 handler[g].tx = tx
          PROVE  Noted(claim, tx)' \/ Held(claim, tx)'
      <4>1. CASE g = h
        <5>1. claim = f.claim /\ tx = f.tx /\ claim[2] = c /\ KeyOf(claim) = "mining"
          BY <1>1, <3>1, <4>1
        <5> QED BY <1>3, <1>5, <1>6, <5>1 DEF Noted
      <4>2. CASE g # h
        BY <1>8, <3>1, <4>2 DEF Held
      <4> QED BY <4>1, <4>2
    <3>2. ASSUME Sent(claim, tx) PROVE Held(claim, tx)'
      BY <1>2, <3>2 DEF Held, Sent
    <3> QED BY <2>2, <3>1, <3>2 DEF Held
  <2>3. \A d \in DOMAIN challenges' :
          challenges'[d].status = "submitted" => challenges'[d].tx \in paid'[<<"mining", d>>]
    BY <1>2, <1>3, <1>5, <1>6 DEF ServiceInv, RecordsInv
  <2> QED BY <1>2, <2>1, <2>2, <2>3 DEF ServiceInv, RecordsInv
<1>14. OnceInv'
  <2> SUFFICES ASSUME NoLoss, NEW claim \in Claim, KeyOf(claim) = "mining"
               PROVE  PaidAtMostOnce(claim)'
    BY <1>2 DEF OnceInv, NoLoss
  <2>1. PaidAtMostOnce(claim) /\ (NoPost(claim)' <=> NoPost(claim))
    BY <1>2 DEF ServiceInv, OnceInv, NoPost
  <2>2. Unclaimed(claim)' => Unclaimed(claim)
    BY <1>5, <1>6 DEF Unclaimed
  <2> QED BY <1>2, <1>9, <2>1, <2>2 DEF PaidAtMostOnce
<1>15. CooldownInv'
  <2>1. ASSUME NEW d \in DOMAIN challenges
        PROVE  /\ challenges'[d].created <= now
               /\ challenges'[d].status \in {"submitting", "submitted"} =>
                    challenges'[d].created <= challenges'[d].claimed
               /\ challenges'[d].seen = challenges[d].seen /\ challenges'[d].address = challenges[d].address
               /\ challenges'[d].created = challenges[d].created
    <3>1. CASE d = c
      BY <1>3, <1>6, <3>1 DEF ServiceInv, CooldownInv
    <3>2. CASE d # c
      BY <1>5, <3>2 DEF ServiceInv, CooldownInv
    <3> QED BY <3>1, <3>2
  <2>2. ASSUME NEW d \in DOMAIN challenges, NEW e \in challenges'[d].seen
        PROVE  /\ e \in DOMAIN challenges' /\ challenges'[e].status = "submitted"
               /\ challenges'[e].address = challenges'[d].address =>
                    challenges'[d].created - challenges'[e].claimed >= Cooldown
    <3>1. e \in DOMAIN challenges /\ challenges[e].status = "submitted" /\ e \in challenges[d].seen
      BY <2>1, <2>2 DEF ServiceInv, CooldownInv
    <3>2. challenges'[e] = challenges[e]
      BY <1>3, <1>5, <3>1
    <3> QED BY <1>5, <2>1, <3>1, <3>2 DEF ServiceInv, CooldownInv
  <2> QED BY <1>2, <1>5, <2>1, <2>2 DEF ServiceInv, CooldownInv
<1> QED BY <1>10, <1>11, <1>12, <1>13, <1>14, <1>15 DEF ServiceInv

LEMMA DistributedStep ==
  ASSUME ServiceInv, NEW h \in Handler, Answered(h), KeyOf(handler[h].claim) # "mining"
  PROVE  ServiceInv'
<1>1. PICK f, x : f = handler[h] /\ x = [address |-> f.to, at |-> now, tx |-> f.tx, seen |-> f.seen]
  OBVIOUS
<1>2. /\ f.pc = "accepted" /\ distributions' = Append(distributions, x)
      /\ handler' = [handler EXCEPT ![h] = NoRequest]
      /\ UNCHANGED <<now, challenges, posts, paid, forgotten, failures>>
  BY <1>1 DEF Answered, history, bounds
<1>3. /\ RequestOK(f) /\ f.claim \in Claim /\ KeyOf(f.claim) = "faucet" /\ f.claim[2] = f.to
      /\ f.claim = <<"faucet", f.to>> /\ f.to \in Recipient /\ f.tx \in paid[f.claim]
  <2>1. Active(h)
    BY <1>1, <1>2 DEF Active, NoRequest
  <2>2. RequestOK(f) /\ f.claim \in Claim /\ f.tx \in paid[f.claim]
    BY <1>1, <1>2, <2>1 DEF ServiceInv, RequestsInv, RequestOK
  <2>3. KeyOf(f.claim) = "faucet" /\ f.claim[2] \in Recipient /\ f.claim = <<"faucet", f.claim[2]>>
    BY <1>1, <2>2, ClaimFacts
  <2> QED BY <2>2, <2>3 DEF RequestOK
<1>4. x.address = f.to /\ x.at = now /\ x.tx = f.tx /\ x.seen = f.seen
  BY <1>1
<1>5. PICK n : n = Len(distributions) + 1
  OBVIOUS
<1>6. /\ IsSeq(distributions') /\ n \notin DOMAIN distributions
      /\ DOMAIN distributions' = DOMAIN distributions \cup {n} /\ distributions'[n] = x
      /\ \A i \in DOMAIN distributions : distributions'[i] = distributions[i]
  BY <1>2, <1>5, AppendFacts DEF ServiceInv, ServiceTypes
<1>7. /\ handler' = [g \in Handler |-> handler'[g]] /\ handler'[h] = NoRequest
      /\ \A g \in Handler \ {h} : handler'[g] = handler[g]
  BY <1>2 DEF ServiceInv, ServiceTypes
<1>8. \A g \in Handler : Active(g)' => g # h /\ Active(g) /\ handler'[g] = handler[g]
  BY <1>7 DEF Active
<1>9. ServiceTypes'
  <2>1. \A i \in DOMAIN distributions' : distributions'[i].at \in Int
    BY <1>4, <1>6 DEF ServiceInv, ServiceTypes
  <2> QED BY <1>2, <1>6, <1>7, <2>1 DEF ServiceInv, ServiceTypes
<1>10. RequestsInv'
  <2>1. ASSUME NEW g \in Handler, Active(g)' PROVE RequestOK(handler[g])'
    <3>1. RequestOK(handler[g]) /\ handler'[g] = handler[g]
      BY <1>8, <2>1 DEF ServiceInv, RequestsInv
    <3>2. \A i \in handler[g].seen : i \in DOMAIN distributions
      BY <3>1 DEF RequestOK
    <3> QED BY <1>2, <1>6, <3>1, <3>2 DEF RequestOK
  <2> QED BY <1>8, <2>1 DEF ServiceInv, RequestsInv
<1>11. PostsInv'
  <2>1. ASSUME NEW p \in posts PROVE PostOK(p)'
    <3>1. PostOK(p) /\ (p.by # NoOne => p.by # h)
      BY <1>1, <1>2 DEF ServiceInv, PostsInv, PostOK
    <3> QED BY <1>2, <1>7, <3>1 DEF PostOK
  <2>2. \A g \in Handler : handler'[g].pc = "wait" => handler[g].pc = "wait"
    BY <1>7 DEF NoRequest
  <2> QED BY <1>2, <2>1, <2>2 DEF ServiceInv, PostsInv
<1>12. RecordsInv'
  <2>1. ASSUME NEW claim \in Claim, NEW tx, Noted(claim, tx) PROVE Noted(claim, tx)'
    BY <1>2, <1>6, <2>1 DEF Noted
  <2>2. ASSUME NEW claim \in Claim, NEW tx, Held(claim, tx) PROVE Noted(claim, tx)' \/ Held(claim, tx)'
    <3>1. ASSUME NEW g \in Handler, handler[g].pc = "accepted", handler[g].claim = claim,
                 handler[g].tx = tx
          PROVE  Noted(claim, tx)' \/ Held(claim, tx)'
      <4>1. CASE g = h
        <5>1. claim[2] = f.to /\ tx = f.tx /\ KeyOf(claim) = "faucet"
          BY <1>1, <1>3, <3>1, <4>1
        <5>2. n \in DOMAIN distributions' /\ distributions'[n].address = f.to /\ distributions'[n].tx = f.tx
          BY <1>4, <1>6
        <5> QED BY <5>1, <5>2 DEF Noted
      <4>2. CASE g # h
        BY <1>7, <3>1, <4>2 DEF Held
      <4> QED BY <4>1, <4>2
    <3>2. ASSUME Sent(claim, tx) PROVE Held(claim, tx)'
      BY <1>2, <3>2 DEF Held, Sent
    <3> QED BY <2>2, <3>1, <3>2 DEF Held
  <2>3. \A i \in DOMAIN distributions' :
          /\ distributions'[i].address \in Recipient
          /\ distributions'[i].tx \in paid'[<<"faucet", distributions'[i].address>>]
    <3>1. \A i \in DOMAIN distributions :
            /\ distributions[i].address \in Recipient
            /\ distributions[i].tx \in paid[<<"faucet", distributions[i].address>>]
      BY DEF ServiceInv, RecordsInv
    <3>2. paid' = paid
      BY <1>2
    <3>3. x.address \in Recipient /\ x.tx \in paid[<<"faucet", x.address>>]
      BY ONLY <1>3, <1>4
    <3> QED BY ONLY <1>6, <3>1, <3>2, <3>3, Zenon
  <2> QED BY <1>2, <2>1, <2>2, <2>3 DEF ServiceInv, RecordsInv
<1>13. OnceInv'
  <2> SUFFICES ASSUME NoLoss, NEW claim \in Claim, KeyOf(claim) = "mining"
               PROVE  PaidAtMostOnce(claim)'
    BY <1>2 DEF OnceInv, NoLoss
  <2>1. /\ PaidAtMostOnce(claim) /\ (NoPost(claim)' <=> NoPost(claim))
        /\ (Unclaimed(claim)' <=> Unclaimed(claim))
    BY <1>2 DEF ServiceInv, OnceInv, NoPost, Unclaimed
  <2> QED BY <1>2, <1>8, <2>1 DEF PaidAtMostOnce
<1>14. CooldownInv'
  <2>1. \A j \in DOMAIN distributions' : \A i \in distributions'[j].seen :
          /\ i \in DOMAIN distributions
          /\ distributions[i].address = distributions'[j].address =>
               distributions'[j].at - distributions[i].at >= Cooldown
    <3>1. \A i \in x.seen : /\ i \in DOMAIN distributions
                            /\ distributions[i].address = x.address => x.at - distributions[i].at >= Cooldown
      BY <1>3, <1>4 DEF RequestOK
    <3> QED BY <1>6, <3>1 DEF ServiceInv, CooldownInv
  <2>2. \A j \in DOMAIN distributions' : \A i \in distributions'[j].seen :
          distributions'[i] = distributions[i] /\ i \in DOMAIN distributions'
    BY <1>6, <2>1
  <2> QED BY <1>2, <2>1, <2>2 DEF ServiceInv, CooldownInv
<1> QED BY <1>9, <1>10, <1>11, <1>12, <1>13, <1>14 DEF ServiceInv

\* The requests in gone end, and the challenges in released are open again.
Left(gone, ch, released) ==
  /\ gone \subseteq Handler /\ \A h \in gone : Active(h)
  /\ handler' = [h \in Handler |-> IF h \in gone THEN NoRequest ELSE handler[h]]
  /\ posts' = Abandoned(gone) /\ forgotten' = Forgot(gone)
  /\ UNCHANGED <<now, distributions, paid>>
  /\ IsSeq(failures')
  /\ challenges' = ch /\ DOMAIN ch = DOMAIN challenges
  /\ IsSeq(ch) /\ Len(ch) = Len(challenges)
  /\ released \in SUBSET DOMAIN challenges
  /\ \A c \in DOMAIN challenges \ released : ch[c] = challenges[c]
  /\ \A c \in released :
       /\ \E h \in gone : handler[h].claim = <<"mining", c>>
       /\ IsChallenge(ch[c]) /\ ch[c].status = "open" /\ ch[c].claimed \in Int
       /\ ch[c].address = challenges[c].address /\ ch[c].created = challenges[c].created
       /\ ch[c].seen = challenges[c].seen
  /\ NoLoss' =>
       /\ NoLoss
       /\ \A c \in released : NoPost(<<"mining", c>>) /\ paid[<<"mining", c>>] = {}

LEMMA LeaveStep ==
  ASSUME ServiceInv, NEW gone, NEW ch, NEW released, Left(gone, ch, released)
  PROVE  ServiceInv'
<1>1. /\ gone \subseteq Handler /\ \A h \in gone : Active(h)
      /\ handler' = [h \in Handler |-> IF h \in gone THEN NoRequest ELSE handler[h]]
      /\ posts' = Abandoned(gone) /\ forgotten' = Forgot(gone)
      /\ UNCHANGED <<now, distributions, paid>>
      /\ IsSeq(failures')
      /\ challenges' = ch /\ DOMAIN ch = DOMAIN challenges
      /\ IsSeq(ch) /\ Len(ch) = Len(challenges)
      /\ released \in SUBSET DOMAIN challenges
      /\ \A c \in DOMAIN challenges \ released : ch[c] = challenges[c]
  BY Zenon DEF Left
<1>2. \A c \in released :
        /\ \E h \in gone : handler[h].claim = <<"mining", c>>
        /\ IsChallenge(ch[c]) /\ ch[c].status = "open" /\ ch[c].claimed \in Int
        /\ ch[c].address = challenges[c].address /\ ch[c].created = challenges[c].created
        /\ ch[c].seen = challenges[c].seen
  BY Zenon DEF Left
<1>3. NoLoss' => /\ NoLoss
                    /\ \A c \in released : NoPost(<<"mining", c>>) /\ paid[<<"mining", c>>] = {}
  BY Zenon DEF Left
<1>4. ASSUME NEW c \in released
      PROVE  /\ challenges[c].status = "submitting"
             /\ \A g \in Handler : Active(g) /\ handler[g].claim = <<"mining", c>> => g \in gone
  <2>1. PICK h \in gone : handler[h].claim = <<"mining", c>>
    BY <1>2
  <2>2. Active(h) /\ h \in Handler
    BY <1>1
  <2>3. KeyOf(handler[h].claim) = "mining" /\ handler[h].claim[2] = c
    BY <1>1, <2>1, MiningClaim
  <2> QED BY <2>1, <2>2, <2>3, OwnClaim
<1>5. /\ \A g \in gone : handler'[g] = NoRequest
      /\ \A g \in Handler \ gone : handler'[g] = handler[g]
      /\ handler' = [g \in Handler |-> handler'[g]]
  BY <1>1
<1>6. \A g \in Handler : Active(g)' => g \notin gone /\ Active(g) /\ handler'[g] = handler[g]
  BY <1>5 DEF Active
<1>7. NoOne \notin gone
  BY <1>1, ServiceAssumption
<1>8. \A q \in posts' : \E p \in posts : q = IF p.by \in gone THEN [p EXCEPT !.by = NoOne] ELSE p
  BY <1>1 DEF Abandoned
<1>9. \A p \in posts : IsPost(p) => [p EXCEPT !.by = NoOne] = [tx |-> p.tx, claim |-> p.claim, by |-> NoOne,
                                                               at |-> p.at]
  BY DEF IsPost
<1>10. ASSUME NEW q \in posts'
       PROVE  \E p \in posts : /\ IsPost(q) /\ q.tx = p.tx /\ q.claim = p.claim /\ q.at = p.at
                               /\ \/ p.by \in gone /\ q.by = NoOne
                                  \/ p.by \notin gone /\ q = p
  <2>1. PICK p \in posts : q = IF p.by \in gone THEN [p EXCEPT !.by = NoOne] ELSE p
    BY <1>8
  <2>2. IsPost(p)
    BY DEF ServiceInv, PostsInv, PostOK
  <2>3. CASE p.by \in gone
    <3>1. q = [tx |-> p.tx, claim |-> p.claim, by |-> NoOne, at |-> p.at]
      BY <1>9, <2>1, <2>2, <2>3
    <3> QED BY <2>3, <3>1 DEF IsPost
  <2>4. CASE p.by \notin gone
    BY <2>1, <2>2, <2>4
  <2> QED BY <2>3, <2>4
<1>11. /\ forgotten' = [claim \in Claim |-> forgotten'[claim]]
       /\ \A claim \in Claim : forgotten[claim] \subseteq forgotten'[claim]
       /\ \A h \in gone : handler[h].pc \in {"wait", "accepted"} /\ handler[h].claim \in Claim =>
            handler[h].tx \in forgotten'[handler[h].claim]
  BY <1>1 DEF Forgot
<1>12. ServiceTypes'
  <2>1. \A c \in DOMAIN ch : IsChallenge(ch[c]) /\ ch[c].created \in Int /\ ch[c].claimed \in Int
    BY <1>1, <1>2 DEF ServiceInv, ServiceTypes
  <2> QED BY <1>1, <1>5, <1>11, <2>1 DEF ServiceInv, ServiceTypes
<1>13. RequestsInv'
  <2>1. ASSUME NEW g \in Handler, Active(g)' PROVE RequestOK(handler[g])'
    <3>1. /\ RequestOK(handler[g]) /\ handler'[g] = handler[g] /\ g \notin gone /\ Active(g)
          /\ handler[g].claim \in Claim
      BY <1>6, <2>1 DEF ServiceInv, RequestsInv, RequestOK
    <3>2. ASSUME KeyOf(handler[g].claim) = "mining"
          PROVE  handler[g].claim[2] \in DOMAIN ch /\ ch[handler[g].claim[2]].status = "submitting"
      <4>1. handler[g].claim = <<"mining", handler[g].claim[2]>>
        BY <3>1, <3>2, ClaimFacts
      <4>2. handler[g].claim[2] \notin released
        BY <1>4, <3>1, <4>1
      <4> QED BY <1>1, <3>1, <3>2, <4>2 DEF RequestOK
    <3> QED BY <1>1, <3>1, <3>2 DEF RequestOK
  <2> QED BY <1>6, <2>1 DEF ServiceInv, RequestsInv
<1>14. PostsInv'
  <2>1. ASSUME NEW q \in posts' PROVE PostOK(q)'
    <3>1. PICK p \in posts : /\ IsPost(q) /\ q.tx = p.tx /\ q.claim = p.claim /\ q.at = p.at
                             /\ \/ p.by \in gone /\ q.by = NoOne
                                \/ p.by \notin gone /\ q = p
      BY <1>10
    <3>2. PostOK(p) /\ q.claim \in Claim
      BY <3>1 DEF ServiceInv, PostsInv, PostOK
    <3>3. CASE p.by \in gone
      <4>1. handler[p.by].pc = "wait" /\ handler[p.by].tx = p.tx /\ handler[p.by].claim = p.claim
        BY <1>7, <3>2, <3>3 DEF PostOK
      <4>2. q.tx \in forgotten'[q.claim] /\ q.by = NoOne
        BY <1>11, <3>1, <3>2, <3>3, <4>1
      <4> QED BY <1>1, <3>1, <3>2, <4>2 DEF PostOK
    <3>4. CASE p.by \notin gone
      <4>1. q = p /\ (p.by # NoOne => handler'[p.by] = handler[p.by])
        BY <1>5, <3>1, <3>2, <3>4 DEF PostOK
      <4> QED BY <1>1, <1>11, <3>2, <4>1 DEF PostOK
    <3> QED BY <3>3, <3>4
  <2>2. ASSUME NEW q \in posts', NEW r \in posts', q.by = r.by, q.by # NoOne PROVE q = r
    <3>1. q \in posts /\ r \in posts
      BY <1>10, <2>2
    <3> QED BY <2>2, <3>1 DEF ServiceInv, PostsInv
  <2>3. ASSUME NEW g \in Handler, handler'[g].pc = "wait" PROVE \E q \in posts' : q.by = g
    <3>1. g \notin gone /\ handler[g].pc = "wait"
      BY <1>5, <2>3 DEF NoRequest
    <3>2. PICK p \in posts : p.by = g
      BY <3>1 DEF ServiceInv, PostsInv
    <3>3. p \in posts'
      BY <1>1, <3>1, <3>2 DEF Abandoned
    <3> QED BY <3>2, <3>3
  <2> QED BY <2>1, <2>2, <2>3 DEF PostsInv
<1>15. RecordsInv'
  <2>1. ASSUME NEW claim \in Claim, NEW tx, Noted(claim, tx) PROVE Noted(claim, tx)'
    BY <1>1, <1>4, <2>1 DEF Noted
  <2>2. ASSUME NEW claim \in Claim, NEW tx, Held(claim, tx)
        PROVE  Held(claim, tx)' \/ tx \in forgotten'[claim]
    <3>1. ASSUME NEW g \in Handler, handler[g].pc = "accepted", handler[g].claim = claim,
                 handler[g].tx = tx
          PROVE  Held(claim, tx)' \/ tx \in forgotten'[claim]
      <4>1. CASE g \in gone
        BY <1>11, <3>1, <4>1
      <4>2. CASE g \notin gone
        BY <1>5, <3>1, <4>2 DEF Held
      <4> QED BY <4>1, <4>2
    <3>2. ASSUME NEW p \in posts, p.at = "gossip", p.claim = claim, p.tx = tx
          PROVE  Held(claim, tx)'
      <4>1. PICK q : q = IF p.by \in gone THEN [p EXCEPT !.by = NoOne] ELSE p
        OBVIOUS
      <4>2. IsPost(p)
        BY DEF ServiceInv, PostsInv, PostOK
      <4>3. q \in posts'
        BY <1>1, <4>1 DEF Abandoned
      <4>4. q.at = p.at /\ q.claim = p.claim /\ q.tx = p.tx
        BY ONLY <4>1, <4>2 DEF IsPost
      <4> QED BY <3>2, <4>3, <4>4 DEF Held, Sent
    <3> QED BY <2>2, <3>1, <3>2 DEF Held, Sent
  <2>3. \A c \in DOMAIN ch : ch[c].status = "submitted" => ch[c].tx \in paid[<<"mining", c>>]
    BY <1>1, <1>2 DEF ServiceInv, RecordsInv
  <2>4. ASSUME NEW claim \in Claim, NEW tx \in paid[claim]
        PROVE  (Noted(claim, tx) \/ Held(claim, tx) \/ tx \in forgotten[claim])'
    <3>1. Noted(claim, tx) \/ Held(claim, tx) \/ tx \in forgotten[claim]
      BY DEF ServiceInv, RecordsInv
    <3> QED BY <1>11, <2>1, <2>2, <3>1
  <2> QED BY <1>1, <2>3, <2>4 DEF ServiceInv, RecordsInv
<1>16. OnceInv'
  <2> SUFFICES ASSUME NoLoss', NEW claim \in Claim, KeyOf(claim) = "mining"
               PROVE  PaidAtMostOnce(claim)'
    BY DEF OnceInv
  <2>1. PaidAtMostOnce(claim)
    BY <1>3 DEF ServiceInv, OnceInv
  <2>2. NoPost(claim)' <=> NoPost(claim)
    <3>1. NoPost(claim) => NoPost(claim)'
      BY <1>10 DEF NoPost
    <3>2. ASSUME NEW p \in posts, p.claim = claim PROVE \E q \in posts' : q.claim = claim
      <4>1. PICK q : q = IF p.by \in gone THEN [p EXCEPT !.by = NoOne] ELSE p
        OBVIOUS
      <4>2. q \in posts' /\ q.claim = claim
        <5>1. IsPost(p)
          BY <3>2 DEF ServiceInv, PostsInv, PostOK
        <5>2. q \in posts'
          BY <1>1, <3>2, <4>1 DEF Abandoned
        <5>3. q.claim = p.claim
          BY ONLY <4>1, <5>1 DEF IsPost
        <5> QED BY ONLY <3>2, <5>2, <5>3
      <4> QED BY <4>2
    <3> QED BY <3>1, <3>2 DEF NoPost
  <2>3. ASSUME Unclaimed(claim)' PROVE NoPost(claim) /\ paid[claim] = {}
    <3>1. CASE claim[2] \in released
      <4>1. claim = <<"mining", claim[2]>>
        BY ClaimFacts
      <4> QED BY <1>3, <3>1, <4>1
    <3>2. CASE claim[2] \notin released
      BY <1>1, <2>1, <2>3, <3>2 DEF Unclaimed, PaidAtMostOnce
    <3> QED BY <3>1, <3>2
  <2>4. ASSUME NEW q \in posts', NEW r \in posts', q.claim = claim, r.claim = claim PROVE q = r
    <3>1. PICK p \in posts : q = IF p.by \in gone THEN [p EXCEPT !.by = NoOne] ELSE p
      BY <1>8
    <3>2. PICK s \in posts : r = IF s.by \in gone THEN [s EXCEPT !.by = NoOne] ELSE s
      BY <1>8
    <3>3. p.claim = claim /\ s.claim = claim
      BY <1>9, <2>4, <3>1, <3>2 DEF ServiceInv, PostsInv, PostOK
    <3>4. p = s
      BY <2>1, <3>3 DEF PaidAtMostOnce
    <3> QED BY <3>1, <3>2, <3>4
  <2>5. ASSUME NEW q \in posts', q.claim = claim, q.at # "gossip" PROVE paid[claim] = {}
    <3>1. PICK p \in posts : q.claim = p.claim /\ q.at = p.at
      BY <1>10
    <3> QED BY <2>1, <2>5, <3>1 DEF PaidAtMostOnce
  <2> QED BY <1>1, <1>6, <2>1, <2>2, <2>3, <2>4, <2>5 DEF PaidAtMostOnce
<1>17. CooldownInv'
  <2>1. ASSUME NEW d \in DOMAIN ch
        PROVE  /\ ch[d].created <= now
               /\ ch[d].status \in {"submitting", "submitted"} => ch[d].created <= ch[d].claimed
               /\ ch[d].seen = challenges[d].seen /\ ch[d].address = challenges[d].address
               /\ ch[d].created = challenges[d].created
    BY <1>1, <1>2 DEF ServiceInv, CooldownInv
  <2>2. ASSUME NEW d \in DOMAIN ch, NEW c \in ch[d].seen
        PROVE  /\ c \in DOMAIN ch /\ ch[c].status = "submitted"
               /\ ch[c].address = ch[d].address => ch[d].created - ch[c].claimed >= Cooldown
    <3>1. c \in DOMAIN challenges /\ challenges[c].status = "submitted" /\ c \in challenges[d].seen
      BY <1>1, <2>1, <2>2 DEF ServiceInv, CooldownInv
    <3>2. ch[c] = challenges[c]
      BY <1>1, <1>4, <3>1
    <3> QED BY <1>1, <2>1, <3>1, <3>2 DEF ServiceInv, CooldownInv
  <2> QED BY <1>1, <2>1, <2>2 DEF ServiceInv, CooldownInv
<1> QED BY <1>12, <1>13, <1>14, <1>15, <1>16, <1>17 DEF ServiceInv

\* What release_solution does to the challenge of h.
LEMMA ReleaseFacts ==
  ASSUME ServiceInv, NEW h \in Handler, Active(h), Release(handler[h].claim)
  PROVE  \E ch : \E released \in SUBSET DOMAIN challenges :
           /\ challenges' = ch /\ DOMAIN ch = DOMAIN challenges
           /\ IsSeq(ch) /\ Len(ch) = Len(challenges)
           /\ \A c \in DOMAIN challenges \ released : ch[c] = challenges[c]
           /\ \A c \in released :
                /\ handler[h].claim = <<"mining", c>>
                /\ IsChallenge(ch[c]) /\ ch[c].status = "open" /\ ch[c].claimed \in Int
                /\ ch[c].address = challenges[c].address /\ ch[c].created = challenges[c].created
                /\ ch[c].seen = challenges[c].seen
<1>1. PICK claim : claim = handler[h].claim
  OBVIOUS
<1>2. claim \in Claim /\ IsSeq(challenges)
  BY <1>1 DEF ServiceInv, RequestsInv, RequestOK, ServiceTypes
<1>3. CASE KeyOf(claim) = "mining"
  <2>1. PICK c, ch : c = claim[2] /\ ch = [challenges EXCEPT ![c].status = "open", ![c].claimed = -1]
    OBVIOUS
  <2>2. claim = <<"mining", c>> /\ c \in DOMAIN challenges
    BY <1>1, <1>2, <1>3, <2>1, ClaimFacts, OwnClaim
  <2>3. challenges' = ch
    BY <1>1, <1>3, <2>1 DEF Release, Released
  <2>4. IsChallenge(challenges[c])
    BY <2>2 DEF ServiceInv, ServiceTypes
  <2>5. /\ DOMAIN ch = DOMAIN challenges /\ ch = [d \in DOMAIN challenges |-> ch[d]]
        /\ \A d \in DOMAIN challenges \ {c} : ch[d] = challenges[d]
        /\ ch[c] = [challenges[c] EXCEPT !.status = "open", !.claimed = -1]
    <3>1. challenges = [d \in DOMAIN challenges |-> challenges[d]]
      BY <1>2 DEF IsSeq
    <3> QED BY <2>1, <2>2, <3>1
  <2>6. /\ IsChallenge(ch[c]) /\ ch[c].status = "open" /\ ch[c].claimed \in Int
        /\ ch[c].address = challenges[c].address /\ ch[c].created = challenges[c].created
        /\ ch[c].seen = challenges[c].seen
    <3>1. PICK x, y : x = challenges[c] /\ y = [x EXCEPT !.status = "open", !.claimed = -1]
      OBVIOUS
    <3>2. y = [address |-> x.address, status |-> "open", created |-> x.created,
               claimed |-> -1, tx |-> x.tx, seen |-> x.seen]
      BY <2>4, <3>1 DEF IsChallenge
    <3>3. /\ IsChallenge(y) /\ y.status = "open" /\ y.claimed = -1 /\ y.address = x.address
          /\ y.created = x.created /\ y.seen = x.seen
      BY <3>2 DEF IsChallenge
    <3>4. -1 \in Int
      OBVIOUS
    <3> QED BY <2>5, <3>1, <3>3, <3>4
  <2>7. IsSeq(ch) /\ Len(ch) = Len(challenges)
    BY <1>2, <2>5, UpdateFacts
  <2>8. PICK released \in SUBSET DOMAIN challenges : released = {c}
    BY <2>2
  <2>9. \A d \in DOMAIN challenges \ released : ch[d] = challenges[d]
    BY <2>5, <2>8
  <2>10. \A d \in released :
           /\ handler[h].claim = <<"mining", d>>
           /\ IsChallenge(ch[d]) /\ ch[d].status = "open" /\ ch[d].claimed \in Int
           /\ ch[d].address = challenges[d].address /\ ch[d].created = challenges[d].created
           /\ ch[d].seen = challenges[d].seen
    BY <1>1, <2>2, <2>6, <2>8
  <2>11. DOMAIN ch = DOMAIN challenges
    BY <2>5
  <2> QED BY ONLY <2>3, <2>7, <2>9, <2>10, <2>11, ZenonT(60)
<1>4. CASE KeyOf(claim) # "mining"
  <2>1. challenges' = challenges /\ {} \in SUBSET DOMAIN challenges
    BY <1>1, <1>4 DEF Release
  <2> QED BY <1>2, <2>1
<1> QED BY <1>3, <1>4

LEMMA RefusedStep ==
  ASSUME ServiceInv, NEW h \in Handler, Refused(h)
  PROVE  ServiceInv'
<1>1. /\ handler[h].pc = "refused" /\ Release(handler[h].claim)
      /\ handler' = [handler EXCEPT ![h] = NoRequest]
      /\ UNCHANGED <<now, distributions, posts, paid, forgotten, failures>>
  BY DEF Refused, history, bounds
<1>2. Active(h)
  BY <1>1 DEF Active, NoRequest
<1>3. PICK ch : \E released \in SUBSET DOMAIN challenges :
           /\ challenges' = ch /\ DOMAIN ch = DOMAIN challenges
           /\ IsSeq(ch) /\ Len(ch) = Len(challenges)
           /\ \A c \in DOMAIN challenges \ released : ch[c] = challenges[c]
           /\ \A c \in released :
                /\ handler[h].claim = <<"mining", c>>
                /\ IsChallenge(ch[c]) /\ ch[c].status = "open" /\ ch[c].claimed \in Int
                /\ ch[c].address = challenges[c].address /\ ch[c].created = challenges[c].created
                /\ ch[c].seen = challenges[c].seen
  BY <1>1, <1>2, ReleaseFacts
<1>4. PICK released \in SUBSET DOMAIN challenges :
           /\ challenges' = ch /\ DOMAIN ch = DOMAIN challenges
           /\ IsSeq(ch) /\ Len(ch) = Len(challenges)
           /\ \A c \in DOMAIN challenges \ released : ch[c] = challenges[c]
           /\ \A c \in released :
                /\ handler[h].claim = <<"mining", c>>
                /\ IsChallenge(ch[c]) /\ ch[c].status = "open" /\ ch[c].claimed \in Int
                /\ ch[c].address = challenges[c].address /\ ch[c].created = challenges[c].created
                /\ ch[c].seen = challenges[c].seen
  BY <1>3
<1>5. handler' = [g \in Handler |-> IF g \in {h} THEN NoRequest ELSE handler[g]]
  BY <1>1 DEF ServiceInv, ServiceTypes
<1>6. posts' = Abandoned({h})
  <2>1. \A p \in posts : p.by \notin {h}
    BY <1>1, ServiceAssumption DEF ServiceInv, PostsInv, PostOK
  <2> QED BY <1>1, <2>1 DEF Abandoned
<1>7. forgotten' = Forgot({h})
  <2>1. forgotten = [claim \in Claim |-> forgotten[claim]]
    BY DEF ServiceInv, ServiceTypes
  <2>2. \A claim : { g \in {h} : handler[g].pc \in {"wait", "accepted"} /\ handler[g].claim = claim } = {}
    BY <1>1
  <2>3. \A claim : { handler[k].tx : k \in { g \in {h} : handler[g].pc \in {"wait", "accepted"}
                                                         /\ handler[g].claim = claim } } = {}
    BY <2>2
  <2>4. Forgot({h}) = forgotten
    BY <2>1, <2>3 DEF Forgot
  <2> QED BY <1>1, <2>4
<1>8. ASSUME NoLoss'
      PROVE  NoLoss /\ \A c \in released : NoPost(<<"mining", c>>) /\ paid[<<"mining", c>>] = {}
  <2>1. NoLoss
    BY <1>1, <1>8 DEF NoLoss
  <2>2. ASSUME NEW c \in released PROVE NoPost(<<"mining", c>>) /\ paid[<<"mining", c>>] = {}
    <3>1. <<"mining", c>> \in Claim /\ KeyOf(<<"mining", c>>) = "mining" /\ handler[h].claim = <<"mining", c>>
      BY <1>4, MiningClaim
    <3>2. PaidAtMostOnce(<<"mining", c>>)
      BY <2>1, <3>1 DEF ServiceInv, OnceInv
    <3> QED BY <1>1, <1>2, <3>1, <3>2 DEF PaidAtMostOnce
  <2> QED BY <2>1, <2>2
<1>9. /\ {h} \subseteq Handler /\ \A g \in {h} : Active(g)
      /\ UNCHANGED <<now, distributions, paid>> /\ IsSeq(failures')
  BY <1>1, <1>2 DEF ServiceInv, ServiceTypes
<1>10. Left({h}, ch, released)
  BY ONLY <1>4, <1>5, <1>6, <1>7, <1>8, <1>9 DEF Left
<1> QED BY <1>10, LeaveStep

LEMMA TimeoutStep ==
  ASSUME ServiceInv, NEW h \in Handler, Timeout(h)
  PROVE  ServiceInv'
<1>1. /\ handler[h].pc \in {"account", "wait", "accepted"} /\ Release(handler[h].claim)
      /\ handler' = [handler EXCEPT ![h] = NoRequest]
      /\ posts' = Abandoned({h}) /\ forgotten' = Forgot({h})
      /\ failures' = Append(failures, "timeout")
      /\ UNCHANGED <<now, distributions, paid>>
  BY DEF Timeout, Failure
<1>2. Active(h)
  BY <1>1 DEF Active, NoRequest
<1>3. PICK ch : \E released \in SUBSET DOMAIN challenges :
           /\ challenges' = ch /\ DOMAIN ch = DOMAIN challenges
           /\ IsSeq(ch) /\ Len(ch) = Len(challenges)
           /\ \A c \in DOMAIN challenges \ released : ch[c] = challenges[c]
           /\ \A c \in released :
                /\ handler[h].claim = <<"mining", c>>
                /\ IsChallenge(ch[c]) /\ ch[c].status = "open" /\ ch[c].claimed \in Int
                /\ ch[c].address = challenges[c].address /\ ch[c].created = challenges[c].created
                /\ ch[c].seen = challenges[c].seen
  BY <1>1, <1>2, ReleaseFacts
<1>4. PICK released \in SUBSET DOMAIN challenges :
           /\ challenges' = ch /\ DOMAIN ch = DOMAIN challenges
           /\ IsSeq(ch) /\ Len(ch) = Len(challenges)
           /\ \A c \in DOMAIN challenges \ released : ch[c] = challenges[c]
           /\ \A c \in released :
                /\ handler[h].claim = <<"mining", c>>
                /\ IsChallenge(ch[c]) /\ ch[c].status = "open" /\ ch[c].claimed \in Int
                /\ ch[c].address = challenges[c].address /\ ch[c].created = challenges[c].created
                /\ ch[c].seen = challenges[c].seen
  BY <1>3
<1>5. handler' = [g \in Handler |-> IF g \in {h} THEN NoRequest ELSE handler[g]]
  BY <1>1 DEF ServiceInv, ServiceTypes
<1>6. IsSeq(failures') /\ ~NoLoss'
  <2>1. PICK n : n = Len(failures) + 1
    OBVIOUS
  <2>2. IsSeq(failures') /\ n \in DOMAIN failures' /\ failures'[n] = "timeout"
    BY <1>1, <2>1, AppendFacts DEF ServiceInv, ServiceTypes
  <2> QED BY <2>2 DEF NoLoss
<1>7. {h} \subseteq Handler /\ \A g \in {h} : Active(g)
  BY <1>2
<1>8. Left({h}, ch, released)
  BY ONLY <1>1, <1>4, <1>5, <1>6, <1>7 DEF Left
<1> QED BY <1>8, LeaveStep

LEMMA CrashStep ==
  ASSUME ServiceInv, NEW key \in Key, Crash(key)
  PROVE  ServiceInv'
<1>1. PICK gone, ch, released :
        /\ gone = { h \in Handler : handler[h] # NoRequest /\ KeyOf(handler[h].claim) = key }
        /\ ch = challenges /\ released = {}
  OBVIOUS
<1>2. /\ handler' = [h \in Handler |-> IF h \in gone THEN NoRequest ELSE handler[h]]
      /\ posts' = Abandoned(gone) /\ forgotten' = Forgot(gone)
      /\ failures' = Append(failures, "crash")
      /\ UNCHANGED <<now, challenges, distributions, paid>>
  BY <1>1 DEF Crash, Failure, store
<1>3. IsSeq(failures') /\ (NoLoss' => NoLoss)
  BY <1>2, AppendFacts DEF ServiceInv, ServiceTypes, NoLoss
<1>4. gone \subseteq Handler /\ \A h \in gone : Active(h)
  BY <1>1 DEF Active
<1>5. /\ challenges' = ch /\ DOMAIN ch = DOMAIN challenges
      /\ IsSeq(ch) /\ Len(ch) = Len(challenges) /\ released \in SUBSET DOMAIN challenges
      /\ \A c \in DOMAIN challenges \ released : ch[c] = challenges[c]
  BY <1>1, <1>2 DEF ServiceInv, ServiceTypes
<1>6. \A c \in released : FALSE
  BY <1>1
<1>7. UNCHANGED <<now, distributions, paid>>
  BY <1>2
<1>8. Left(gone, ch, released)
  BY ONLY <1>2, <1>3, <1>4, <1>5, <1>6, <1>7 DEF Left
<1> QED BY <1>8, LeaveStep

\* The validator answers the request that waits for the broadcast p, if any.
LEMMA AnswerFacts ==
  ASSUME ServiceInv, NEW p \in posts, NEW pc \in {"accepted", "refused"}, Answer(p, pc)
  PROVE  /\ handler' = [g \in Handler |-> handler'[g]]
         /\ \A g \in Handler :
              /\ p.by # g => handler'[g] = handler[g]
              /\ p.by = g =>
                   /\ Active(g) /\ handler[g].pc = "wait" /\ handler[g].claim = p.claim
                   /\ RequestOK(handler[g])
                   /\ IsRequest(handler'[g]) /\ handler'[g].pc = pc
                   /\ handler'[g].claim = p.claim /\ handler'[g].tx = p.tx
                   /\ handler'[g].to = handler[g].to /\ handler'[g].seen = handler[g].seen
<1>1. /\ PostOK(p) /\ handler = [g \in Handler |-> handler[g]]
      /\ handler' = IF p.by = NoOne THEN handler ELSE [handler EXCEPT ![p.by].pc = pc]
  BY DEF ServiceInv, PostsInv, ServiceTypes, Answer
<1>2. CASE p.by = NoOne
  BY <1>1, <1>2, ServiceAssumption
<1>3. CASE p.by # NoOne
  <2>1. /\ p.by \in Handler /\ handler[p.by].pc = "wait"
        /\ handler[p.by].tx = p.tx /\ handler[p.by].claim = p.claim
    BY <1>1, <1>3 DEF PostOK
  <2>2. Active(p.by)
    BY <2>1 DEF Active, NoRequest
  <2>3. RequestOK(handler[p.by]) /\ IsRequest(handler[p.by])
    BY <2>1, <2>2 DEF ServiceInv, RequestsInv, RequestOK
  <2>4. /\ handler' = [g \in Handler |-> handler'[g]]
        /\ \A g \in Handler \ {p.by} : handler'[g] = handler[g]
        /\ handler'[p.by] = [handler[p.by] EXCEPT !.pc = pc]
    BY <1>1, <1>3, <2>1
  <2>5. PICK f, e : f = handler[p.by] /\ e = [f EXCEPT !.pc = pc]
    OBVIOUS
  <2>6. e = [pc |-> pc, claim |-> f.claim, to |-> f.to, tx |-> f.tx, seen |-> f.seen]
    BY <2>3, <2>5 DEF IsRequest
  <2>7. /\ IsRequest(e) /\ e.pc = pc /\ e.claim = f.claim /\ e.to = f.to /\ e.tx = f.tx /\ e.seen = f.seen
    BY <2>6 DEF IsRequest
  <2>8. handler'[p.by] = e
    BY <2>4, <2>5
  <2>9. /\ handler'[p.by].pc = pc /\ handler'[p.by].claim = handler[p.by].claim
        /\ handler'[p.by].tx = handler[p.by].tx /\ handler'[p.by].to = handler[p.by].to
        /\ handler'[p.by].seen = handler[p.by].seen /\ IsRequest(handler'[p.by])
    BY ONLY <2>5, <2>7, <2>8
  <2> QED BY <2>1, <2>2, <2>3, <2>4, <2>9
<1> QED BY <1>2, <1>3

LEMMA RefuseFacts ==
  ASSUME ServiceInv, NEW p \in posts, p.at # "gossip", Answer(p, "refused"),
         posts' = posts \ {p},
         UNCHANGED <<now, challenges, distributions, paid, forgotten, failures>>
  PROVE  ServiceInv'
<1>1. /\ handler' = [g \in Handler |-> handler'[g]]
      /\ \A g \in Handler :
           /\ p.by # g => handler'[g] = handler[g]
           /\ p.by = g =>
                /\ Active(g) /\ handler[g].pc = "wait" /\ handler[g].claim = p.claim
                /\ RequestOK(handler[g])
                /\ IsRequest(handler'[g]) /\ handler'[g].pc = "refused"
                /\ handler'[g].claim = p.claim /\ handler'[g].tx = p.tx
                /\ handler'[g].to = handler[g].to /\ handler'[g].seen = handler[g].seen
  <2>1. "refused" \in {"accepted", "refused"}
    OBVIOUS
  <2> QED BY <2>1, AnswerFacts
<1>2. Progressed
  <2>1. ASSUME NEW g \in Handler
        PROVE  /\ ~Active(g) => handler'[g] = handler[g]
               /\ Active(g) =>
                    /\ IsRequest(handler'[g]) /\ handler'[g].claim = handler[g].claim
                    /\ handler'[g].to = handler[g].to /\ handler'[g].seen = handler[g].seen
                    /\ handler'[g].pc \in {"account", "wait", "accepted", "refused"}
                    /\ handler'[g].pc = "accepted" => handler'[g].tx \in paid'[handler[g].claim]
               /\ handler[g].pc = "accepted" => handler'[g] = handler[g]
    <3>1. CASE p.by = g
      BY <1>1, <3>1
    <3>2. CASE p.by # g
      BY <1>1, <3>2 DEF ServiceInv, RequestsInv, RequestOK
    <3> QED BY <3>1, <3>2
  <2>2. \A claim, tx : Sent(claim, tx) => Held(claim, tx)'
    BY DEF Sent, Held
  <2> QED BY <1>1, <2>1, <2>2 DEF Progressed, NoLoss, ServiceInv, ServiceTypes
<1>3. PostsInv'
  <2>1. ASSUME NEW q \in posts' PROVE PostOK(q)'
    <3>1. q \in posts /\ q # p /\ PostOK(q) /\ (q.by # NoOne => q.by # p.by)
      BY DEF ServiceInv, PostsInv
    <3>2. q.by # NoOne => q.by \in Handler /\ handler'[q.by] = handler[q.by]
      BY <1>1, <3>1 DEF PostOK
    <3> QED BY <3>1, <3>2 DEF PostOK
  <2>2. ASSUME NEW g \in Handler, handler'[g].pc = "wait" PROVE \E q \in posts' : q.by = g
    <3>1. g # p.by /\ handler[g].pc = "wait"
      BY <1>1, <2>2
    <3> QED BY <3>1 DEF ServiceInv, PostsInv
  <2> QED BY <2>1, <2>2 DEF ServiceInv, PostsInv
<1>4. OnceInv'
  <2> SUFFICES ASSUME NoLoss, NEW claim \in Claim, KeyOf(claim) = "mining"
               PROVE  PaidAtMostOnce(claim)'
    BY DEF OnceInv, NoLoss
  <2>1. PaidAtMostOnce(claim) /\ (Unclaimed(claim)' <=> Unclaimed(claim))
    BY DEF ServiceInv, OnceInv, Unclaimed
  <2>2. NoPost(claim) => NoPost(claim)'
    BY DEF NoPost
  <2>3. ASSUME NEW g \in Handler, Active(g)', handler'[g].claim = claim
        PROVE  /\ handler'[g].pc # "wait" => NoPost(claim)'
               /\ handler'[g].pc \in {"account", "refused"} => paid[claim] = {}
    <3>1. CASE p.by = g
      <4>1. p.claim = claim /\ ~NoPost(claim) /\ paid[claim] = {}
        BY <1>1, <2>1, <2>3, <3>1 DEF NoPost, PaidAtMostOnce
      <4>2. NoPost(claim)'
        BY <2>1, <4>1 DEF NoPost, PaidAtMostOnce
      <4> QED BY <4>1, <4>2
    <3>2. CASE p.by # g
      <4>1. handler'[g] = handler[g] /\ Active(g)
        BY <1>1, <2>3, <3>2 DEF Active
      <4> QED BY <2>1, <2>2, <2>3, <4>1 DEF PaidAtMostOnce
    <3> QED BY <3>1, <3>2
  <2> QED BY <2>1, <2>2, <2>3 DEF PaidAtMostOnce
<1> QED BY <1>2, <1>3, <1>4, ProgressFacts DEF ServiceInv

LEMMA CheckStep ==
  ASSUME ServiceInv, NEW p \in posts, CheckTransaction(p)
  PROVE  ServiceInv'
<1>1. p.at = "sent" /\ UNCHANGED <<now, challenges, distributions, paid, forgotten, failures>>
  BY DEF CheckTransaction, store, history, bounds
<1>2. CASE ~Valid(p.tx)
  BY <1>1, <1>2, RefuseFacts DEF CheckTransaction
<1>3. CASE Valid(p.tx)
  <2>1. PICK r : r = [p EXCEPT !.at = "checked"]
    OBVIOUS
  <2>2. posts' = (posts \ {p}) \cup {r} /\ handler' = handler
    BY <1>3, <2>1 DEF CheckTransaction, Moved
  <2>3. PostOK(p)
    BY DEF ServiceInv, PostsInv
  <2>4. r = [tx |-> p.tx, claim |-> p.claim, by |-> p.by, at |-> "checked"]
    BY <2>1, <2>3 DEF PostOK, IsPost
  <2>5. IsPost(r) /\ r.tx = p.tx /\ r.claim = p.claim /\ r.by = p.by /\ r.at = "checked"
    BY <2>4 DEF IsPost
  <2>6. ServiceTypes' /\ RequestsInv' /\ CooldownInv' /\ RecordsInv'
    <3>1. ServiceTypes'
      BY <1>1, <2>2 DEF ServiceInv, ServiceTypes
    <3>2. RequestsInv'
      BY <1>1, <2>2 DEF ServiceInv, RequestsInv, RequestOK, Active
    <3>3. CooldownInv'
      BY <1>1 DEF ServiceInv, CooldownInv
    <3>4. RecordsInv'
      <4>1. \A claim, tx : Held(claim, tx) => Held(claim, tx)'
        BY <1>1, <2>2 DEF Held, Sent
      <4>2. \A claim, tx : Noted(claim, tx) => Noted(claim, tx)'
        BY <1>1 DEF Noted
      <4> QED BY <1>1, <4>1, <4>2 DEF ServiceInv, RecordsInv
    <3> QED BY <3>1, <3>2, <3>3, <3>4
  <2>7. PostsInv'
    <3>1. ASSUME NEW q \in posts' PROVE PostOK(q)'
      <4>1. PICK s \in posts : /\ PostOK(s) /\ IsPost(q) /\ q.tx = s.tx /\ q.claim = s.claim
                               /\ q.by = s.by /\ (q.at = "gossip" => s.at = "gossip")
        BY <2>2, <2>3, <2>5 DEF ServiceInv, PostsInv, PostOK
      <4> QED BY <1>1, <2>2, <4>1 DEF PostOK
    <3>2. \A q, s \in posts' : q.by = s.by /\ q.by # NoOne => q = s
      BY <2>2, <2>5 DEF ServiceInv, PostsInv
    <3>3. ASSUME NEW g \in Handler, handler'[g].pc = "wait" PROVE \E q \in posts' : q.by = g
      <4>1. PICK q \in posts : q.by = g
        BY <2>2, <3>3 DEF ServiceInv, PostsInv
      <4> QED BY <2>2, <2>5, <4>1
    <3> QED BY <3>1, <3>2, <3>3 DEF PostsInv
  <2>8. OnceInv'
    <3> SUFFICES ASSUME NoLoss, NEW claim \in Claim, KeyOf(claim) = "mining"
                 PROVE  PaidAtMostOnce(claim)'
      BY <1>1 DEF OnceInv, NoLoss
    <3>1. PaidAtMostOnce(claim) /\ (Unclaimed(claim)' <=> Unclaimed(claim))
      BY <1>1 DEF ServiceInv, OnceInv, Unclaimed
    <3>2. NoPost(claim)' <=> NoPost(claim)
      BY <2>2, <2>5 DEF NoPost
    <3>3. \A q, s \in posts' : q.claim = claim /\ s.claim = claim => q = s
      BY <2>2, <2>5, <3>1 DEF PaidAtMostOnce
    <3>4. ASSUME NEW q \in posts', q.claim = claim, q.at # "gossip" PROVE paid[claim] = {}
      BY <1>1, <2>2, <2>5, <3>1, <3>4 DEF PaidAtMostOnce
    <3> QED BY <1>1, <2>2, <3>1, <3>2, <3>3, <3>4 DEF PaidAtMostOnce, Active
  <2> QED BY <2>6, <2>7, <2>8 DEF ServiceInv
<1> QED BY <1>2, <1>3

\* The transaction enters the mempool; the request still waits.
LEMMA InsertFacts ==
  ASSUME ServiceInv, NEW p \in posts, p.at = "checked", posts' = Moved(p, "gossip"),
         paid' = [paid EXCEPT ![p.claim] = @ \cup {p.tx}],
         UNCHANGED <<now, challenges, distributions, handler, forgotten, failures>>
  PROVE  ServiceInv'
<1>1. PICK r : r = [p EXCEPT !.at = "gossip"]
  OBVIOUS
<1>2. posts' = (posts \ {p}) \cup {r}
  BY <1>1 DEF Moved
<1>3. PostOK(p) /\ p.claim \in Claim
  BY DEF ServiceInv, PostsInv, PostOK
<1>4. r = [tx |-> p.tx, claim |-> p.claim, by |-> p.by, at |-> "gossip"]
  BY <1>1, <1>3 DEF PostOK, IsPost
<1>5. IsPost(r) /\ r.tx = p.tx /\ r.claim = p.claim /\ r.by = p.by /\ r.at = "gossip"
  BY <1>4 DEF IsPost
<1>6. /\ paid' = [claim \in Claim |-> paid'[claim]]
      /\ paid'[p.claim] = paid[p.claim] \cup {p.tx}
      /\ \A claim \in Claim \ {p.claim} : paid'[claim] = paid[claim]
  BY <1>3 DEF ServiceInv, ServiceTypes
<1>7. Progressed
  <2>1. ASSUME NEW g \in Handler, Active(g)
        PROVE  /\ IsRequest(handler[g])
               /\ handler[g].pc \in {"account", "wait", "accepted", "refused"}
               /\ handler[g].pc = "accepted" => handler[g].tx \in paid'[handler[g].claim]
    BY <1>6, <2>1 DEF ServiceInv, RequestsInv, RequestOK
  <2>2. ASSUME NEW claim \in Claim
        PROVE  /\ paid[claim] \subseteq paid'[claim]
               /\ \A tx : (tx \in paid'[claim] \ paid[claim] \/ Sent(claim, tx)) => Held(claim, tx)'
    <3>1. \A tx : Sent(claim, tx) => Sent(claim, tx)'
      BY <1>2 DEF Sent
    <3>2. ASSUME NEW tx \in paid'[claim] \ paid[claim] PROVE Sent(claim, tx)'
      <4>1. claim = p.claim /\ tx = p.tx
        BY <1>6, <3>2
      <4> QED BY <1>2, <1>5, <4>1 DEF Sent
    <3> QED BY <1>6, <3>1, <3>2 DEF Held
  <2>3. /\ IsSeq(failures') /\ (NoLoss' => NoLoss)
        /\ UNCHANGED <<now, challenges, distributions, forgotten, handler>>
        /\ handler' = [g \in Handler |-> handler'[g]]
        /\ forgotten' = [claim \in Claim |-> forgotten'[claim]]
    BY DEF NoLoss, ServiceInv, ServiceTypes
  <2> QED BY ONLY <1>6, <2>1, <2>2, <2>3 DEF Progressed
<1>8. PostsInv'
  <2>1. ASSUME NEW q \in posts' PROVE PostOK(q)'
    <3>1. CASE q = r
      BY <1>3, <1>5, <1>6, <3>1 DEF PostOK
    <3>2. CASE q # r
      <4>1. q \in posts /\ PostOK(q)
        BY <1>2, <3>2 DEF ServiceInv, PostsInv
      <4>2. paid[q.claim] \subseteq paid'[q.claim]
        BY <1>6, <4>1 DEF PostOK
      <4> QED BY <4>1, <4>2 DEF PostOK
    <3> QED BY <3>1, <3>2
  <2>2. \A q, s \in posts' : q.by = s.by /\ q.by # NoOne => q = s
    BY <1>2, <1>5 DEF ServiceInv, PostsInv
  <2>3. ASSUME NEW g \in Handler, handler'[g].pc = "wait" PROVE \E q \in posts' : q.by = g
    <3>1. PICK q \in posts : q.by = g
      BY <2>3 DEF ServiceInv, PostsInv
    <3> QED BY <1>2, <1>5, <3>1
  <2> QED BY <2>1, <2>2, <2>3 DEF PostsInv
<1>9. OnceInv'
  <2> SUFFICES ASSUME NoLoss, NEW claim \in Claim, KeyOf(claim) = "mining"
               PROVE  PaidAtMostOnce(claim)'
    BY DEF OnceInv, NoLoss
  <2>1. PaidAtMostOnce(claim) /\ (Unclaimed(claim)' <=> Unclaimed(claim))
    BY DEF ServiceInv, OnceInv, Unclaimed
  <2>2. NoPost(claim)' <=> NoPost(claim)
    BY <1>2, <1>5 DEF NoPost
  <2>3. \A q, s \in posts' : q.claim = claim /\ s.claim = claim => q = s
    BY <1>2, <1>5, <2>1 DEF PaidAtMostOnce
  <2>4. CASE claim = p.claim
    <3>1. ~NoPost(claim) /\ paid[claim] = {}
      BY <2>1, <2>4 DEF NoPost, PaidAtMostOnce
    <3>2. paid'[claim] = {p.tx}
      BY <1>6, <2>4, <3>1
    <3>3. \A q \in posts' : q.claim = claim => q.at = "gossip"
      BY <1>2, <1>5, <2>3, <2>4
    <3>4. ~Unclaimed(claim) /\ \A g \in Handler : Active(g) /\ handler[g].claim = claim
                                                    => handler[g].pc = "wait"
      BY <2>1, <3>1 DEF PaidAtMostOnce
    <3> QED BY <2>1, <2>2, <2>3, <3>2, <3>3, <3>4 DEF PaidAtMostOnce, Active
  <2>5. CASE claim # p.claim
    <3>1. paid'[claim] = paid[claim]
      BY <1>6, <2>5
    <3>2. \A q \in posts' : q.claim = claim => q \in posts
      BY <1>2, <1>5, <2>5
    <3> QED BY <2>1, <2>2, <2>3, <3>1, <3>2 DEF PaidAtMostOnce, Active
  <2> QED BY <2>4, <2>5
<1> QED BY <1>7, <1>8, <1>9, ProgressFacts DEF ServiceInv

LEMMA InsertStep ==
  ASSUME ServiceInv, NEW p \in posts, InsertTransaction(p)
  PROVE  ServiceInv'
<1>1. /\ p.at = "checked"
      /\ UNCHANGED <<now, challenges, distributions, forgotten, failures>>
  BY DEF InsertTransaction, store, bounds
<1>2. CASE \E tx \in mempool : tx.from = p.tx.from
  <2>1. posts' = posts \ {p} /\ Answer(p, "refused") /\ UNCHANGED paid
    BY <1>2 DEF InsertTransaction
  <2> QED BY <1>1, <2>1, RefuseFacts
<1>3. CASE ~\E tx \in mempool : tx.from = p.tx.from
  <2>1. /\ posts' = Moved(p, "gossip") /\ paid' = [paid EXCEPT ![p.claim] = @ \cup {p.tx}]
        /\ UNCHANGED handler
    BY <1>3 DEF InsertTransaction
  <2> QED BY <1>1, <2>1, InsertFacts
<1> QED BY <1>2, <1>3

\* The request learns that its transaction was accepted.
LEMMA AnswerStep ==
  ASSUME ServiceInv, NEW p \in posts, AnswerTransaction(p)
  PROVE  ServiceInv'
<1>1. /\ p.at = "gossip" /\ posts' = posts \ {p} /\ Answer(p, "accepted")
      /\ UNCHANGED <<now, challenges, distributions, paid, forgotten, failures>>
  BY DEF AnswerTransaction, store, history, bounds
<1>2. /\ handler' = [g \in Handler |-> handler'[g]]
      /\ \A g \in Handler :
           /\ p.by # g => handler'[g] = handler[g]
           /\ p.by = g =>
                /\ Active(g) /\ handler[g].pc = "wait" /\ handler[g].claim = p.claim
                /\ RequestOK(handler[g])
                /\ IsRequest(handler'[g]) /\ handler'[g].pc = "accepted"
                /\ handler'[g].claim = p.claim /\ handler'[g].tx = p.tx
                /\ handler'[g].to = handler[g].to /\ handler'[g].seen = handler[g].seen
  <2>1. "accepted" \in {"accepted", "refused"}
    OBVIOUS
  <2> QED BY <1>1, <2>1, AnswerFacts
<1>3. PostOK(p) /\ p.claim \in Claim /\ p.tx \in paid[p.claim]
  BY <1>1 DEF ServiceInv, PostsInv, PostOK
<1>4. Progressed
  <2>1. ASSUME NEW g \in Handler
        PROVE  /\ ~Active(g) => handler'[g] = handler[g]
               /\ Active(g) =>
                    /\ IsRequest(handler'[g]) /\ handler'[g].claim = handler[g].claim
                    /\ handler'[g].to = handler[g].to /\ handler'[g].seen = handler[g].seen
                    /\ handler'[g].pc \in {"account", "wait", "accepted", "refused"}
                    /\ handler'[g].pc = "accepted" => handler'[g].tx \in paid'[handler[g].claim]
               /\ handler[g].pc = "accepted" => handler'[g] = handler[g]
    <3>1. CASE p.by = g
      BY <1>1, <1>2, <1>3, <3>1
    <3>2. CASE p.by # g
      BY <1>1, <1>2, <3>2 DEF ServiceInv, RequestsInv, RequestOK
    <3> QED BY <3>1, <3>2
  <2>2. ASSUME NEW claim \in Claim, NEW tx, Sent(claim, tx)
        PROVE  Held(claim, tx)' \/ tx \in forgotten[claim]
    <3>1. PICK q \in posts : q.at = "gossip" /\ q.claim = claim /\ q.tx = tx
      BY <2>2 DEF Sent
    <3>2. CASE q # p
      BY <1>1, <3>1, <3>2 DEF Held, Sent
    <3>3. CASE q = p /\ p.by = NoOne
      BY <1>3, <3>1, <3>3 DEF PostOK
    <3>4. CASE q = p /\ p.by # NoOne
      <4>1. p.by \in Handler
        BY <1>3, <3>4 DEF PostOK
      <4>2. handler'[p.by].pc = "accepted" /\ handler'[p.by].claim = claim /\ handler'[p.by].tx = tx
        BY <1>2, <3>1, <3>4, <4>1
      <4> QED BY <4>1, <4>2 DEF Held
    <3> QED BY <3>2, <3>3, <3>4
  <2>3. /\ IsSeq(failures') /\ (NoLoss' => NoLoss)
        /\ UNCHANGED <<now, challenges, distributions, forgotten, paid>>
        /\ paid' = [claim \in Claim |-> paid'[claim]]
        /\ forgotten' = [claim \in Claim |-> forgotten'[claim]]
    BY <1>1 DEF NoLoss, ServiceInv, ServiceTypes
  <2> QED BY ONLY <1>2, <2>1, <2>2, <2>3 DEF Progressed
<1>5. PostsInv'
  <2>1. ASSUME NEW q \in posts' PROVE PostOK(q)'
    <3>1. q \in posts /\ q # p /\ PostOK(q) /\ (q.by # NoOne => q.by # p.by)
      BY <1>1 DEF ServiceInv, PostsInv
    <3>2. q.by # NoOne => q.by \in Handler /\ handler'[q.by] = handler[q.by]
      BY <1>2, <3>1 DEF PostOK
    <3> QED BY <1>1, <3>1, <3>2 DEF PostOK
  <2>2. ASSUME NEW g \in Handler, handler'[g].pc = "wait" PROVE \E q \in posts' : q.by = g
    <3>1. g # p.by /\ handler[g].pc = "wait"
      BY <1>2, <2>2
    <3> QED BY <1>1, <3>1 DEF ServiceInv, PostsInv
  <2> QED BY <1>1, <2>1, <2>2 DEF ServiceInv, PostsInv
<1>6. OnceInv'
  <2> SUFFICES ASSUME NoLoss, NEW claim \in Claim, KeyOf(claim) = "mining"
               PROVE  PaidAtMostOnce(claim)'
    BY <1>1 DEF OnceInv, NoLoss
  <2>1. PaidAtMostOnce(claim) /\ (Unclaimed(claim)' <=> Unclaimed(claim))
    BY <1>1 DEF ServiceInv, OnceInv, Unclaimed
  <2>2. NoPost(claim) => NoPost(claim)'
    BY <1>1 DEF NoPost
  <2>3. CASE claim = p.claim
    <3>1. ~NoPost(claim) /\ ~Unclaimed(claim)
      BY <2>1, <2>3 DEF NoPost, PaidAtMostOnce
    <3>2. NoPost(claim)'
      BY <1>1, <2>1, <2>3 DEF NoPost, PaidAtMostOnce
    <3>3. ASSUME NEW g \in Handler, Active(g)', handler'[g].claim = claim
          PROVE  handler'[g].pc = "accepted"
      <4>1. CASE p.by = g
        BY <1>2, <4>1
      <4>2. CASE p.by # g
        <5>1. handler'[g] = handler[g] /\ Active(g)
          BY <1>2, <3>3, <4>2 DEF Active
        <5>2. handler[g].pc = "wait"
          BY <2>1, <3>1, <3>3, <5>1 DEF PaidAtMostOnce
        <5>3. PICK q \in posts : q.by = g
          BY <5>2 DEF ServiceInv, PostsInv
        <5>4. q.claim = claim
          BY <3>3, <5>1, <5>3, ServiceAssumption DEF ServiceInv, PostsInv, PostOK
        <5>5. q = p
          BY <2>1, <2>3, <5>4 DEF PaidAtMostOnce
        <5> QED BY <4>2, <5>3, <5>5
      <4> QED BY <4>1, <4>2
    <3> QED BY <1>1, <2>1, <3>1, <3>2, <3>3 DEF PaidAtMostOnce, NoPost
  <2>4. CASE claim # p.claim
    <3>1. \A g \in Handler : Active(g)' /\ handler'[g].claim = claim =>
            Active(g) /\ handler'[g] = handler[g]
      BY <1>2, <2>4 DEF Active
    <3> QED BY <1>1, <2>1, <2>2, <3>1 DEF PaidAtMostOnce
  <2> QED BY <2>3, <2>4
<1> QED BY <1>4, <1>5, <1>6, ProgressFacts DEF ServiceInv

LEMMA RestartStep ==
  ASSUME ServiceInv, Restart
  PROVE  ServiceInv'
<1> DEFINE told == { h \in Handler : \E p \in posts : p.by = h /\ p.at = "gossip" }
<1>1. /\ posts' = {}
      /\ handler' = [h \in Handler |-> IF handler[h].pc = "wait" THEN [handler[h] EXCEPT !.pc = "refused"]
                                       ELSE handler[h]]
      /\ forgotten' = Forgot(told)
      /\ failures' = Append(failures, "restart")
      /\ UNCHANGED <<now, challenges, distributions, paid>>
  BY DEF Restart, Failure, store
<1> HIDE DEF told
<1>2. IsSeq(failures') /\ ~NoLoss'
  <2>1. PICK n : n = Len(failures) + 1
    OBVIOUS
  <2>2. IsSeq(failures') /\ n \in DOMAIN failures' /\ failures'[n] = "restart"
    BY <1>1, <2>1, AppendFacts DEF ServiceInv, ServiceTypes
  <2> QED BY <2>2 DEF NoLoss
<1>3. ASSUME NEW g \in Handler
      PROVE  /\ handler[g].pc # "wait" => handler'[g] = handler[g]
             /\ handler[g].pc = "wait" =>
                  /\ Active(g) /\ RequestOK(handler[g])
                  /\ IsRequest(handler'[g]) /\ handler'[g].pc = "refused"
                  /\ handler'[g].claim = handler[g].claim /\ handler'[g].to = handler[g].to
                  /\ handler'[g].seen = handler[g].seen
  <2>1. handler[g].pc # "wait" => handler'[g] = handler[g]
    BY <1>1
  <2>2. ASSUME handler[g].pc = "wait"
        PROVE  /\ Active(g) /\ RequestOK(handler[g])
               /\ IsRequest(handler'[g]) /\ handler'[g].pc = "refused"
               /\ handler'[g].claim = handler[g].claim /\ handler'[g].to = handler[g].to
               /\ handler'[g].seen = handler[g].seen
    <3>1. Active(g)
      BY <2>2 DEF Active, NoRequest
    <3>2. RequestOK(handler[g]) /\ IsRequest(handler[g])
      BY <3>1 DEF ServiceInv, RequestsInv, RequestOK
    <3>3. PICK f, e : f = handler[g] /\ e = [f EXCEPT !.pc = "refused"]
      OBVIOUS
    <3>4. e = [pc |-> "refused", claim |-> f.claim, to |-> f.to, tx |-> f.tx, seen |-> f.seen]
      BY <3>2, <3>3 DEF IsRequest
    <3>5. IsRequest(e) /\ e.pc = "refused" /\ e.claim = f.claim /\ e.to = f.to /\ e.seen = f.seen
      BY <3>4 DEF IsRequest
    <3>6. handler'[g] = e
      BY <1>1, <2>2, <3>3
    <3> QED BY <3>1, <3>2, <3>3, <3>5, <3>6
  <2> QED BY <2>1, <2>2
<1>4. Progressed
  <2>1. ASSUME NEW g \in Handler
        PROVE  /\ ~Active(g) => handler'[g] = handler[g]
               /\ Active(g) =>
                    /\ IsRequest(handler'[g]) /\ handler'[g].claim = handler[g].claim
                    /\ handler'[g].to = handler[g].to /\ handler'[g].seen = handler[g].seen
                    /\ handler'[g].pc \in {"account", "wait", "accepted", "refused"}
                    /\ handler'[g].pc = "accepted" => handler'[g].tx \in paid'[handler[g].claim]
               /\ handler[g].pc = "accepted" => handler'[g] = handler[g]
    <3>1. CASE handler[g].pc = "wait"
      BY <1>3, <3>1
    <3>2. CASE handler[g].pc # "wait"
      BY <1>1, <1>3, <3>2 DEF ServiceInv, RequestsInv, RequestOK
    <3> QED BY <3>1, <3>2
  <2>2. \A claim \in Claim : forgotten[claim] \subseteq forgotten'[claim]
    BY <1>1 DEF Forgot
  <2>3. ASSUME NEW claim \in Claim, NEW tx, Sent(claim, tx)
        PROVE  tx \in forgotten'[claim]
    <3>1. PICK p \in posts : p.at = "gossip" /\ p.claim = claim /\ p.tx = tx /\ PostOK(p)
      BY <2>3 DEF Sent, ServiceInv, PostsInv
    <3>2. CASE p.by = NoOne
      BY <2>2, <3>1, <3>2 DEF PostOK
    <3>3. CASE p.by # NoOne
      <4>1. /\ p.by \in told /\ handler[p.by].pc = "wait"
            /\ handler[p.by].tx = tx /\ handler[p.by].claim = claim
        BY <3>1, <3>3 DEF PostOK, told
      <4> QED BY <1>1, <4>1 DEF Forgot
    <3> QED BY <3>2, <3>3
  <2>4. /\ handler' = [g \in Handler |-> handler'[g]] /\ paid' = [claim \in Claim |-> paid'[claim]]
        /\ forgotten' = [claim \in Claim |-> forgotten'[claim]]
        /\ UNCHANGED <<now, challenges, distributions, paid>>
    BY <1>1 DEF ServiceInv, ServiceTypes, Forgot
  <2> QED BY ONLY <1>2, <2>1, <2>2, <2>3, <2>4 DEF Progressed
<1>5. PostsInv'
  <2>1. \A g \in Handler : handler'[g].pc # "wait"
    BY <1>3
  <2> QED BY <1>1, <2>1 DEF PostsInv
<1>6. OnceInv'
  BY <1>2 DEF OnceInv
<1> QED BY <1>4, <1>5, <1>6, ProgressFacts DEF ServiceInv

LEMMA NextService == ServiceInv /\ [ServiceNext]_serviceVars => ServiceInv'
<1> SUFFICES ASSUME ServiceInv, [ServiceNext]_serviceVars
             PROVE  ServiceInv'
  OBVIOUS
<1>0. now \in Int
  BY DEF ServiceInv, ServiceTypes
<1>1. ASSUME Tick PROVE ServiceInv'
  <2>1. now' \in Int /\ now' >= now
    BY <1>0, <1>1 DEF Tick
  <2>2. UNCHANGED <<challenges, distributions, handler, posts, paid, forgotten, failures>>
    BY <1>1 DEF Tick, store, history, bounds
  <2> QED BY <2>1, <2>2, StillStep
<1>2. ASSUME NEW a \in Recipient, IssueChallenge(a) PROVE ServiceInv'
  BY <1>2, IssueStep
<1>3. ASSUME NEW h \in Handler, NEW c \in DOMAIN challenges, ReserveSolution(h, c) PROVE ServiceInv'
  BY <1>3, ReserveStep
<1>4. ASSUME NEW h \in Handler, NEW a \in Recipient, RequestFunds(h, a) PROVE ServiceInv'
  BY <1>4, FundsStep
<1>5. ASSUME NEW h \in Handler, Proceed(h) PROVE ServiceInv'
  BY <1>5, ReadStep, SubmittedStep, DistributedStep, RefusedStep DEF Proceed
<1>6. ASSUME NEW h \in Handler, Timeout(h) PROVE ServiceInv'
  BY <1>6, TimeoutStep
<1>7. ASSUME NEW key \in Key, Crash(key) PROVE ServiceInv'
  BY <1>7, CrashStep
<1>8. ASSUME NEW p \in posts, Process(p) PROVE ServiceInv'
  BY <1>8, CheckStep, InsertStep, AnswerStep DEF Process
<1>9. ASSUME SelectTransactions PROVE ServiceInv'
  <2>1. UNCHANGED <<now, challenges, distributions, handler, posts, paid, forgotten, failures>>
    BY <1>9 DEF SelectTransactions, store, history, bounds
  <2> QED BY <1>0, <2>1, StillStep
<1>10. ASSUME NEW block, Finalize(block) PROVE ServiceInv'
  <2>1. UNCHANGED <<now, challenges, distributions, handler, posts, paid, forgotten, failures>>
    BY <1>10 DEF Finalize, store, history, bounds
  <2> QED BY <1>0, <2>1, StillStep
<1>11. ASSUME Restart PROVE ServiceInv'
  BY <1>11, RestartStep
<1>12. ASSUME UNCHANGED serviceVars PROVE ServiceInv'
  <2>1. UNCHANGED <<now, challenges, distributions, handler, posts, paid, forgotten, failures>>
    BY <1>12 DEF serviceVars, store, history, bounds
  <2> QED BY <1>0, <2>1, StillStep
<1> QED
  BY <1>1, <1>2, <1>3, <1>4, <1>5, <1>6, <1>7, <1>8, <1>9, <1>10, <1>11, <1>12 DEF ServiceNext

LEMMA ServiceSafe == ServiceSpec => []ServiceInv
<1>1. ServiceInit => ServiceInv
  BY InitService
<1>2. ServiceInv /\ [ServiceNext]_serviceVars => ServiceInv'
  BY NextService
<1> QED BY <1>1, <1>2, PTL DEF ServiceSpec

LEMMA PaymentsOnRecord == ServiceInv => PaymentsAccounted
<1> SUFFICES ASSUME ServiceInv, NEW claim \in Claim
             PROVE  /\ Recorded(claim) \cup Unrecorded(claim) \subseteq paid[claim]
                    /\ paid[claim] \subseteq Recorded(claim) \cup Unrecorded(claim) \cup forgotten[claim]
                    /\ KeyOf(claim) = "mining" /\ Cardinality(paid[claim]) > 1
                         => Range(failures) \cap {"timeout", "restart"} # {}
  BY DEF PaymentsAccounted
<1>1. \A tx : tx \in Recorded(claim) <=> Noted(claim, tx)
  <2>1. CASE KeyOf(claim) = "mining"
    BY <2>1 DEF Recorded, Noted
  <2>2. CASE KeyOf(claim) # "mining"
    <3>1. KeyOf(claim) = "faucet"
      BY <2>2, ClaimFacts
    <3> QED BY <3>1 DEF Recorded, Noted
  <2> QED BY <2>1, <2>2
<1>2. \A tx : tx \in Unrecorded(claim) <=> Held(claim, tx)
  BY DEF Unrecorded, Held, Sent
<1>3. ASSUME NEW tx, Noted(claim, tx) PROVE tx \in paid[claim]
  <2>1. CASE KeyOf(claim) = "mining"
    <3>1. claim = <<"mining", claim[2]>>
      BY <2>1, ClaimFacts
    <3> QED BY <1>3, <2>1, <3>1 DEF Noted, ServiceInv, RecordsInv
  <2>2. CASE KeyOf(claim) # "mining"
    <3>1. claim = <<"faucet", claim[2]>>
      BY <2>2, ClaimFacts
    <3> QED BY <1>3, <2>2, <3>1 DEF Noted, ServiceInv, RecordsInv
  <2> QED BY <2>1, <2>2
<1>4. ASSUME NEW tx, Held(claim, tx) PROVE tx \in paid[claim]
  <2>1. ASSUME NEW h \in Handler, handler[h].pc = "accepted", handler[h].claim = claim,
               handler[h].tx = tx
        PROVE  tx \in paid[claim]
    <3>1. Active(h)
      BY <2>1 DEF Active, NoRequest
    <3> QED BY <2>1, <3>1 DEF ServiceInv, RequestsInv, RequestOK
  <2>2. ASSUME Sent(claim, tx) PROVE tx \in paid[claim]
    BY <2>2 DEF Sent, ServiceInv, PostsInv, PostOK
  <2> QED BY <1>4, <2>1, <2>2 DEF Held
<1>5. paid[claim] \subseteq Recorded(claim) \cup Unrecorded(claim) \cup forgotten[claim]
  BY <1>1, <1>2 DEF ServiceInv, RecordsInv
<1>6. ASSUME KeyOf(claim) = "mining", Range(failures) \cap {"timeout", "restart"} = {}
      PROVE  ~(Cardinality(paid[claim]) > 1)
  <2>1. NoLoss
    BY <1>6 DEF NoLoss, Range
  <2>2. \A s, t \in paid[claim] : s = t
    BY <1>6, <2>1 DEF ServiceInv, OnceInv, PaidAtMostOnce
  <2>3. paid[claim] = {} \/ \E s : paid[claim] = {s}
    BY <2>2
  <2>4. Cardinality(paid[claim]) \in {0, 1}
    BY <2>3, FS_EmptySet, FS_Singleton
  <2> QED BY <2>4
<1> QED BY <1>1, <1>2, <1>3, <1>4, <1>5, <1>6

LEMMA CooldownKept == ServiceInv => CooldownBetweenRecords
<1> SUFFICES ASSUME ServiceInv
             PROVE  CooldownBetweenRecords
  OBVIOUS
<1>1. Cooldown \in Int
  BY ServiceAssumption
<1>2. ASSUME NEW c \in DOMAIN challenges, NEW d \in DOMAIN challenges,
             challenges[c].status = "submitted", challenges[d].status = "submitted",
             challenges[c].address = challenges[d].address, c \in challenges[d].seen
      PROVE  challenges[d].claimed - challenges[c].claimed >= Cooldown
  <2>1. /\ challenges[d].created <= challenges[d].claimed
        /\ challenges[d].created - challenges[c].claimed >= Cooldown
    BY <1>2 DEF ServiceInv, CooldownInv
  <2>2. challenges[d].created \in Int /\ challenges[d].claimed \in Int /\ challenges[c].claimed \in Int
    BY DEF ServiceInv, ServiceTypes
  <2> QED BY <1>1, <2>1, <2>2
<1>3. \A i, j \in DOMAIN distributions :
        distributions[i].address = distributions[j].address /\ i \in distributions[j].seen
          => distributions[j].at - distributions[i].at >= Cooldown
  BY DEF ServiceInv, CooldownInv
<1> QED BY <1>2, <1>3 DEF CooldownBetweenRecords

\* What a service has on record was accepted by the validator, and what was
\* accepted is on record, except for requests that are not over and answers that
\* got lost; no challenge is paid twice unless a client timed out or the validator
\* restarted; and between two payments on record lies a cooldown, unless the check
\* for the later one ran before the earlier was on record (RewardsAccounted).  For
\* any number of addresses, requests, crashes and restarts.
THEOREM RewardsOnRecord == ServiceSpec => []RewardsAccounted
<1>1. ServiceInv => RewardsAccounted
  BY PaymentsOnRecord, CooldownKept DEF RewardsAccounted
<1> QED BY <1>1, ServiceSafe, PTL
=============================================================================

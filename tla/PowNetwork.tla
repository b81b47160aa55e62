----------------------------- MODULE PowNetwork -----------------------------
(***************************************************************************)
(* PowNetworkChain of pow_network_v32.py: the graph of all known branches, *)
(* the orphan pool, the choice of the branch with the most cumulative work *)
(* and the reorganization of the canonical tables and of the mempool.      *)
(*                                                                         *)
(* Handlers run on one event loop and accept_block awaits nothing, so      *)
(* handlers do not interleave; but accept_block commits to SQLite several  *)
(* times and calls itself for orphans, and the process may stop between    *)
(* two commits.  Each commit is a step; `stack` holds the local variables  *)
(* of the running calls and is all that a crash loses.                     *)
(*                                                                         *)
(* A block is its own hash.  Block is the set of blocks that miners may    *)
(* have produced, `Contents` what they contain.  Replaying a branch is a   *)
(* function of its blocks, so the blocks, transactions and utxos tables    *)
(* are represented by `tip`: they are Replay[tip].                         *)
(***************************************************************************)
EXTENDS PowTransactions, SequencesExt

CONSTANTS
  Block,         \* blocks that exist somewhere, without the genesis
  Genesis,
  Contents,      \* Block -> [parent, height, time, work, miner, value, txs]
  MaxFuture,     \* max_future_seconds
  MaxOrphans,    \* MAX_ORPHANS, 1024 in the code
  OrphanBatch,   \* LIMIT of the query for the orphans of a parent, 64
  MaxClock,      \* bound of the model: last reading of the clock
  MaxCrashes     \* bound of the model: number of crashes

Node == Block \cup {Genesis}

\* A block contains the hash of its parent, so that no chain of parents returns to
\* a block or goes on for ever: among any blocks there are some whose parents are
\* not.
ASSUME NetworkAssumption ==
  /\ Genesis \notin Block
  /\ Contents \in [Block -> [parent : Node, height : Nat, time : Nat,
                             work : Nat \ {0}, miner : Address, value : Nat,
                             txs : Seq(Tx)]]
  /\ IsFiniteSet(Block)
  /\ \A S \in (SUBSET Block) \ {{}} : \E b \in S : Contents[b].parent \notin S
  /\ MaxFuture \in Nat /\ MaxOrphans \in Nat /\ OrphanBatch \in Nat
  /\ MaxClock \in Nat /\ MaxCrashes \in Nat

VARIABLES
  graph,        \* block_graph table: known block -> its status
  orphans,      \* orphan_blocks table, oldest first
  tip,          \* last row of the blocks table
  mempool,      \* mempool table
  clock,        \* now_seconds()
  stack,        \* running calls of accept_block, innermost last
  crashes,      \* number of crashes so far
  stranded,     \* history: blocks whose handler died before comparing work
  unmarked      \* history: a handler died between table swap and statuses

vars == <<graph, orphans, tip, mempool, clock, stack, crashes, stranded, unmarked>>

Known == DOMAIN graph
Parent(b) == Contents[b].parent

-----------------------------------------------------------------------------
(* _validate_path_replay: PowChain.submit_block on an empty chain for every *)
(* block of the path.                                                       *)

Ledger(ok, height, time, work, utxos, txs) ==
  [ok |-> ok, height |-> height, time |-> time, work |-> work,
   utxos |-> utxos, txs |-> txs]

GenesisLedger == Ledger(TRUE, 0, 0, 0, {}, {})

\* submit_block accepts c on the ledger l.  The block's timestamp must exceed
\* its parent's, which implies that it exceeds the median of the branch.
BlockConnects(l, c) ==
  /\ c.height = l.height + 1
  /\ c.time > l.time
  /\ Len(c.txs) + 1 <= MaxTxPerBlock
  /\ Connects(l.utxos, c.height, c.txs)
  /\ CoinbaseExact(c.height, c.txs, c.value)

Extend(l, c) ==
  Ledger(l.ok /\ BlockConnects(l, c), c.height, c.time, l.work + c.work,
         Applied(l.utxos, c.txs, <<c.height, c.miner, c.value>>),
         l.txs \cup TxsOf(c.txs))

Replay[b \in Node] ==
  IF b = Genesis THEN GenesisLedger ELSE Extend(Replay[Parent(b)], Contents[b])

\* No block of the path is too far in the future: timestamps increase, so it is
\* enough to look at the last one.
Timely(b) == Contents[b].time <= clock + MaxFuture

\* _path_hashes
Path[b \in Node] == IF b = Genesis THEN {Genesis} ELSE {b} \cup Path[Parent(b)]

Utxos     == Replay[tip].utxos
Confirmed == Replay[tip].txs
NextHeight == Replay[tip].height + 1

-----------------------------------------------------------------------------
(* submit_transaction, run to completion on the event loop.                *)

AdmissibleTx(t) ==
  /\ t \notin Confirmed
  /\ t \notin mempool
  /\ ValidTx(t, Utxos, NextHeight)
  /\ TxIn[t] \cap MempoolSpent(mempool) = {}

SubmitTransaction(t) ==
  /\ stack = << >>
  /\ AdmissibleTx(t)
  /\ mempool' = mempool \cup {t}
  /\ UNCHANGED <<graph, orphans, tip, clock, stack, crashes, stranded, unmarked>>

-----------------------------------------------------------------------------
(* accept_block.                                                           *)

\* The locals of one call: the block, how far the call has come, the list
\* mempool_existing + disconnected with the ones already resubmitted, and the
\* rows and queue of _process_orphans.  `had` is history: all transactions that
\* were pending or confirmed when the call replaced the tables.
Frame(b) == [block |-> b, phase |-> "inserted", readmit |-> {}, seen |-> {},
             had |-> {}, rows |-> << >>, queue |-> << >>]
Phases == {"inserted", "swapped", "readmit", "scan", "orphans", "retry"}

Top == stack[Len(stack)]
SetTop(frame) == [stack EXCEPT ![Len(stack)] = frame]
Running(phase) == stack # << >> /\ Top.phase = phase

\* The rows of a table that are in S, in their order.
Rows(table, S) ==
  LET kept[n \in 0..Len(table)] ==
        IF n = 0 THEN << >>
        ELSE IF table[n] \in S THEN Append(kept[n - 1], table[n]) ELSE kept[n - 1]
  IN  kept[Len(table)]

Without(table, b) == Rows(table, ToSet(table) \ {b})

Children(p) == { b \in Block : Parent(b) = p }

\* The checks succeed and the row is committed with status 'side'.
Accepts(b) ==
  /\ b \notin Known
  /\ Parent(b) \in Known
  /\ Replay[b].ok
  /\ Timely(b)

Insert(b) == graph' = [x \in Known \cup {b} |-> IF x = b THEN "side" ELSE graph[x]]

\* A block arrives, by P2P message or RPC.  A known or an invalid block changes
\* nothing.
ReceiveBlock(b) ==
  /\ stack = << >>
  /\ Accepts(b)
  /\ Insert(b)
  /\ orphans' = Without(orphans, b)
  /\ stack' = <<Frame(b)>>
  /\ UNCHANGED <<tip, mempool, clock, crashes, stranded, unmarked>>

\* _store_orphan: INSERT OR IGNORE, then the oldest rows above the limit go.
ReceiveOrphan(b) ==
  /\ stack = << >>
  /\ b \notin Known
  /\ Parent(b) \notin Known
  /\ b \notin ToSet(orphans)
  /\ LET all == Append(orphans, b) IN
     orphans' = IF Len(all) > MaxOrphans THEN Tail(all) ELSE all
  /\ UNCHANGED <<graph, tip, mempool, clock, stack, crashes, stranded, unmarked>>

\* _activate_chain, first commit: the canonical tables are replaced and the
\* mempool is emptied.  Transactions of the old branch above the fork are kept
\* in `disconnected`, those of the mempool in `mempool_existing`.
\* (Mutant: only the transactions of the old tip.)
DisconnectedTip(b) == IF tip \in Path[b] THEN {} ELSE TxsOf(Contents[tip].txs)

Disconnected(b) ==
  UNION { TxsOf(Contents[x].txs) : x \in Path[tip] \ Path[b] }

\* (Mutant: a tie wins.)
AsHeavyAsTip(b)  == Replay[b].work >= Replay[tip].work

HeavierThanTip(b) == Replay[b].work > Replay[tip].work

Activate ==
  /\ Running("inserted")
  /\ HeavierThanTip(Top.block)
  /\ tip' = Top.block
  /\ mempool' = {}
  /\ stack' = SetTop([Top EXCEPT !.phase = "swapped",
                                 !.readmit = mempool \cup Disconnected(Top.block),
                                 !.had = mempool \cup Confirmed])
  /\ UNCHANGED <<graph, orphans, clock, crashes, stranded, unmarked>>

KeepTip ==
  /\ Running("inserted")
  /\ ~HeavierThanTip(Top.block)
  /\ stack' = SetTop([Top EXCEPT !.phase = "scan"])
  /\ UNCHANGED <<graph, orphans, tip, mempool, clock, crashes, stranded, unmarked>>

\* Second commit: the statuses of the graph.
\* (Mutant: the old branch is not reset to 'side'.)
MarkOnlyNewBranch ==
  /\ Running("swapped")
  /\ graph' = [x \in Known |-> IF x \in Path[Top.block] THEN "canonical" ELSE graph[x]]
  /\ stack' = SetTop([Top EXCEPT !.phase = "readmit"])
  /\ unmarked' = FALSE
  /\ UNCHANGED <<orphans, tip, mempool, clock, crashes, stranded>>

MarkStatuses ==
  /\ Running("swapped")
  /\ graph' = [x \in Known |-> IF x \in Path[Top.block] THEN "canonical" ELSE "side"]
  /\ stack' = SetTop([Top EXCEPT !.phase = "readmit"])
  /\ unmarked' = FALSE
  /\ UNCHANGED <<orphans, tip, mempool, clock, crashes, stranded>>

\* One commit per resubmitted transaction; a refused one is dropped.  The code
\* goes through the rows by received_at_ms, a wall clock that ties and steps
\* back; the model takes any order.
Readmit(t) ==
  /\ Running("readmit")
  /\ t \in Top.readmit \ Top.seen
  /\ mempool' = IF AdmissibleTx(t) THEN mempool \cup {t} ELSE mempool
  /\ stack' = SetTop([Top EXCEPT !.seen = @ \cup {t}])
  /\ UNCHANGED <<graph, orphans, tip, clock, crashes, stranded, unmarked>>

ReadmitDone ==
  /\ Running("readmit")
  /\ Top.readmit \subseteq Top.seen
  /\ stack' = SetTop([Top EXCEPT !.phase = "scan"])
  /\ UNCHANGED <<graph, orphans, tip, mempool, clock, crashes, stranded, unmarked>>

-----------------------------------------------------------------------------
(* _process_orphans.  Its bound of MAX_ORPHANS rows per call is not        *)
(* modelled: every row is deleted when it is processed, no call adds one,  *)
(* and the pool never holds more.                                          *)

\* SELECT ... WHERE previous_hash = p ORDER BY received_at_ms LIMIT 64.
\* (Mutant: one row fewer.)
OrphansOfShort(p) ==
  LET rows == Rows(orphans, Children(p))
  IN  SubSeq(rows, 1, Min({Len(rows), OrphanBatch}) - 1)

OrphansOf(p) ==
  LET rows == Rows(orphans, Children(p))
  IN  SubSeq(rows, 1, Min({Len(rows), OrphanBatch}))

ScanOrphans ==
  /\ Running("scan")
  /\ stack' = SetTop([Top EXCEPT !.phase = "orphans", !.rows = OrphansOf(Top.block)])
  /\ UNCHANGED <<graph, orphans, tip, mempool, clock, crashes, stranded, unmarked>>

\* The row is deleted and the deletion committed before the block is retried.
DeleteOrphan ==
  /\ Running("orphans")
  /\ Top.rows # << >>
  /\ orphans' = Without(orphans, Head(Top.rows))
  /\ stack' = SetTop([Top EXCEPT !.phase = "retry"])
  /\ UNCHANGED <<graph, tip, mempool, clock, crashes, stranded, unmarked>>

\* accept_block(child): the nested call runs before the rest of the rows.
RetryOrphan ==
  /\ Running("retry")
  /\ LET b == Head(Top.rows)
         outer(queue) == [Top EXCEPT !.phase = "orphans", !.rows = Tail(@), !.queue = queue]
     IN  \/ /\ Accepts(b)
            /\ Insert(b)
            /\ stack' = Append(SetTop(outer(Append(Top.queue, b))), Frame(b))
         \/ /\ ~Accepts(b)
            /\ stack' = SetTop(outer(IF b \in Known THEN Append(Top.queue, b)
                                                    ELSE Top.queue))
            /\ UNCHANGED graph
  /\ UNCHANGED <<orphans, tip, mempool, clock, crashes, stranded, unmarked>>

NextInQueue ==
  /\ Running("orphans")
  /\ Top.rows = << >>
  /\ Top.queue # << >>
  /\ stack' = SetTop([Top EXCEPT !.rows = OrphansOf(Head(Top.queue)), !.queue = Tail(@)])
  /\ UNCHANGED <<graph, orphans, tip, mempool, clock, crashes, stranded, unmarked>>

Return ==
  /\ Running("orphans")
  /\ Top.rows = << >>
  /\ Top.queue = << >>
  /\ stack' = SubSeq(stack, 1, Len(stack) - 1)
  /\ UNCHANGED <<graph, orphans, tip, mempool, clock, crashes, stranded, unmarked>>

-----------------------------------------------------------------------------
(* The environment.                                                        *)

Tick ==
  /\ stack = << >>
  /\ clock < MaxClock
  /\ clock' = clock + 1
  /\ UNCHANGED <<graph, orphans, tip, mempool, stack, crashes, stranded, unmarked>>

\* The process dies inside accept_block and restarts.  _bootstrap_graph inserts
\* the canonical blocks that the graph lacks and leaves the others alone.
Crash ==
  /\ stack # << >>
  /\ crashes < MaxCrashes
  /\ crashes' = crashes + 1
  /\ stack' = << >>
  /\ graph' = [x \in Known \cup Path[tip] |-> IF x \in Known THEN graph[x] ELSE "canonical"]
  /\ stranded' = IF Top.phase = "inserted" THEN stranded \cup {Top.block} ELSE stranded
  /\ unmarked' = (unmarked \/ Top.phase = "swapped")
  /\ UNCHANGED <<orphans, tip, mempool, clock>>

-----------------------------------------------------------------------------
Init ==
  /\ graph = [x \in {Genesis} |-> "canonical"]
  /\ orphans = << >>
  /\ tip = Genesis
  /\ mempool = {}
  /\ clock = 0
  /\ stack = << >>
  /\ crashes = 0
  /\ stranded = {}
  /\ unmarked = FALSE

AcceptBlock ==
  \/ \E b \in Block : ReceiveBlock(b) \/ ReceiveOrphan(b)
  \/ Activate \/ KeepTip
  \/ MarkStatuses
  \/ \E t \in Tx : Readmit(t)
  \/ ReadmitDone

ProcessOrphans ==
  ScanOrphans \/ DeleteOrphan \/ RetryOrphan \/ NextInQueue \/ Return

Next ==
  \/ \E t \in Tx : SubmitTransaction(t)
  \/ AcceptBlock
  \/ ProcessOrphans
  \/ Tick
  \/ Crash

Spec == Init /\ [][Next]_vars

-----------------------------------------------------------------------------
(* Properties.                                                             *)

Frames == [block : Block, phase : Phases, readmit : SUBSET Tx, seen : SUBSET Tx,
           had : SUBSET Tx, rows : Seq(Block), queue : Seq(Block)]

\* The tables and the locals of the running calls hold values of their kind;
\* the graph is closed under parents and the tip and every running block are
\* in it.
TypeOK ==
  /\ Known \subseteq Node /\ Genesis \in Known
  /\ graph \in [Known -> {"side", "canonical"}]
  /\ \A b \in Known \ {Genesis} : Parent(b) \in Known
  /\ orphans \in Seq(Block)
  /\ tip \in Known
  /\ mempool \subseteq Tx
  /\ clock \in Nat /\ crashes \in Nat
  /\ stack \in Seq(Frames)
  /\ \A i \in 1..Len(stack) : stack[i].block \in Known
  /\ stranded \subseteq Known
  /\ unmarked \in BOOLEAN

\* Between two handlers the graph marks as canonical exactly the blocks of the
\* canonical chain, unless a handler died between the two commits and no branch
\* has been activated since.
StatusMatchesTip ==
  (stack = << >> /\ ~unmarked) =>
     \A b \in Known : graph[b] = "canonical" <=> b \in Path[tip]

\* At every instant, in the middle of a reorganization or after a crash too,
\* each transaction of the mempool is unconfirmed and valid at the next height,
\* and two of them spend the same output only if one, which came first, does not
\* name in lower case any output they share.  A mempool in lower case can
\* therefore be mined as a whole on the tip.
MempoolMinable ==
  /\ mempool \cap Confirmed = {}
  /\ \A t \in mempool : ValidTx(t, Utxos, NextHeight)
  /\ \A t, u \in mempool :
       t # u => TxIn[t] \cap Plain(u) = {} \/ TxIn[u] \cap Plain(t) = {}

\* Statuses and mempool both fit the tip, each in the states where it can.
TablesFollowTip == StatusMatchesTip /\ MempoolMinable

\* t and u spend one output and t names none that they share in lower case.
Displaces(u, t) == TxIn[t] \cap TxIn[u] # {} /\ TxIn[u] \cap Plain(t) = {}

\* A reorganization that runs to its end keeps every transaction it can: of
\* those that were pending or confirmed before it, exactly the ones that are
\* unconfirmed and valid on the new branch are in the mempool (V0.32.md:
\* "re-admitted to the mempool only when they remain valid against the new UTXO
\* set").  Two that were pending together although they spend one output, each
\* spelled in its way, may meet in the other order now: the one that is missing
\* does not name in lower case any output it shares with the one that is kept.
ReadmitsExactlyTheValid ==
  (Running("readmit") /\ Top.readmit \subseteq Top.seen) =>
     LET fit == { t \in Top.had : t \notin Confirmed /\ ValidTx(t, Utxos, NextHeight) }
     IN  /\ mempool \subseteq fit
         /\ \A t \in fit \ mempool : \E u \in mempool : Displaces(u, t)

\* Between two handlers, as long as no handler died, an orphan waits for a parent
\* that is known only if that parent has more than OrphanBatch children.
OrphanWaitsOnlyBehindBatch ==
  (stack = << >> /\ crashes = 0) =>
     \A i \in 1..Len(orphans) :
       Parent(orphans[i]) \in Known =>
         Cardinality(Children(Parent(orphans[i]))) > OrphanBatch

\* A block is noticed when its work has been compared with the tip's; the blocks
\* that a crash kept from it are not, although their row is in the graph.
Comparing == Running("inserted")

Noticed == (IF Comparing THEN Known \ {Top.block} ELSE Known) \ stranded

ValidBranch == [b \in Node |-> Replay[b].ok]
BranchWork  == [b \in Node |-> Replay[b].work]

Choice == INSTANCE HeaviestChain WITH
  Valid <- ValidBranch, Work <- BranchWork,
  noticed <- Noticed, best <- tip

\* The graph, the orphan pool, the commits and the crashes implement the plain
\* fork choice: each step takes notice of at most one block and the tip is the
\* first noticed block of greatest work.
ImplementsHeaviestChain == Choice!Spec
=============================================================================

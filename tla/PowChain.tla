------------------------------ MODULE PowChain ------------------------------
(***************************************************************************)
(* The linear proof-of-work node: PowChain of pow_v31.py behind the        *)
(* endpoints of pow_node_v31.py.  Every endpoint is a synchronous function *)
(* that opens its own SQLite connection, so requests run in parallel on    *)
(* the server's thread pool: their SELECTs interleave with the commits of  *)
(* other requests and only the final BEGIN IMMEDIATE ... COMMIT of         *)
(* submit_block and the INSERT of submit_transaction are atomic.           *)
(*                                                                         *)
(* A block extends the tip or is refused, so a block that was the tip once *)
(* is named by its height.  Headers (version, target, seed, timestamp,     *)
(* Merkle root, proof of work) are abstracted: the blocks submitted here   *)
(* have valid ones.                                                        *)
(***************************************************************************)
EXTENDS PowTransactions

CONSTANTS
  Client,        \* requests to submittransaction running at the same time
  ForeignBody,   \* transaction lists of blocks not built from a template
  MaxHeight      \* bound of the model: no work is started above it

ASSUME BoundsAssumption == ForeignBody \subseteq Seq(Tx) /\ MaxHeight \in Nat

\* A miner is named by the address its coinbase pays.
Miner == Address

VARIABLES
  height,        \* blocks table: height of the tip
  utxos,         \* utxos table: set of outpoints
  transactions,  \* transactions table: confirmed txid -> block_height
  mempool,       \* mempool table: set of txids
  request,       \* client -> its submittransaction request
  job            \* miner -> its template, then the block it submits

vars == <<height, utxos, transactions, mempool, request, job>>

Confirmed == DOMAIN transactions

NoRequest == [pc |-> "idle"]
NoJob     == [pc |-> "idle", prev |-> 0, rows |-> {}, txs |-> << >>,
              value |-> 0, template |-> FALSE]

-----------------------------------------------------------------------------
\* _create_genesis: block 0 has no transactions, hence no outputs.
Init ==
  /\ height = 0
  /\ utxos = {}
  /\ transactions = [t \in {} |-> 0]
  /\ mempool = {}
  /\ request = [c \in Client |-> NoRequest]
  /\ job = [m \in Miner |-> NoJob]

-----------------------------------------------------------------------------
(* submit_transaction, one request per client.                             *)

\* The two SELECTs for a txid that is confirmed or already in the mempool.
CheckTx(c, t) ==
  /\ request[c].pc = "idle"
  /\ t \notin Confirmed
  /\ t \notin mempool
  /\ request' = [request EXCEPT ![c] = [pc |-> "checked", tx |-> t]]
  /\ UNCHANGED <<height, utxos, transactions, mempool, job>>

\* validate_transaction(mempool_policy=True) at tip height + 1.
AdmissibleTx(t) ==
  /\ ValidTx(t, utxos, height + 1)
  /\ TxIn[t] \cap MempoolSpent(mempool) = {}

ValidateTx(c) ==
  /\ request[c].pc = "checked"
  /\ request' = [request EXCEPT ![c] =
       IF AdmissibleTx(@.tx) THEN [@ EXCEPT !.pc = "valid"] ELSE NoRequest]
  /\ UNCHANGED <<height, utxos, transactions, mempool, job>>

\* INSERT INTO mempool; the primary key rejects a txid that is there.
InsertTx(c) ==
  /\ request[c].pc = "valid"
  /\ mempool' = mempool \cup {request[c].tx}
  /\ request' = [request EXCEPT ![c] = NoRequest]
  /\ UNCHANGED <<height, utxos, transactions, job>>

-----------------------------------------------------------------------------
(* get_block_template, read by read.                                       *)

TemplateTip(m) ==
  /\ job[m].pc = "idle"
  /\ height < MaxHeight
  /\ job' = [job EXCEPT ![m].pc = "tip", ![m].prev = height]
  /\ UNCHANGED <<height, utxos, transactions, mempool, request>>

\* SELECT ... ORDER BY fee DESC LIMIT max_transactions_per_block - 1.  Rows of
\* equal fee come in order of arrival; the model takes them in any order.
TopRows(rows) ==
  /\ rows \subseteq mempool
  /\ Cardinality(rows) <= MaxTxPerBlock - 1
  /\ rows # mempool => Cardinality(rows) = MaxTxPerBlock - 1
  /\ \A t \in rows, u \in mempool \ rows : Fee(t) >= Fee(u)

TemplateRows(m) ==
  /\ job[m].pc = "tip"
  /\ \E rows \in SUBSET mempool :
       /\ TopRows(rows)
       /\ job' = [job EXCEPT ![m].pc = "rows", ![m].rows = rows]
  /\ UNCHANGED <<height, utxos, transactions, mempool, request>>

\* One turn of the loop over the rows: validate_transaction without the
\* mempool policy, then the test against the outpoints already `seen`, all as
\* written.  Until the template is done, `value` is the sum of the fees.
\* (Mutant: without that test.)
SelectableUnseen(t, prev, txs) == ValidTx(t, utxos, prev + 1)

Selectable(t, prev, txs) ==
  /\ ValidTx(t, utxos, prev + 1)
  /\ \A i \in 1..Len(txs) : Written(t) \cap Written(txs[i]) = {}

Considered(b, t) ==
  IF Selectable(t, b.prev, b.txs)
  THEN [b EXCEPT !.rows = @ \ {t}, !.txs = Append(@, t), !.value = @ + Fee(t)]
  ELSE [b EXCEPT !.rows = @ \ {t}]

TemplateCheck(m) ==
  /\ job[m].pc = "rows"
  /\ \E t \in job[m].rows :
       /\ \A u \in job[m].rows : Fee(t) >= Fee(u)
       /\ job' = [job EXCEPT ![m] = Considered(@, t)]
  /\ UNCHANGED <<height, utxos, transactions, mempool, request>>

\* The coinbase and the header are built; the miner then finds a nonce.
TemplateDone(m) ==
  /\ job[m].pc = "rows"
  /\ job[m].rows = {}
  /\ job' = [job EXCEPT
       ![m].pc = "found", ![m].template = TRUE,
       ![m].value = Subsidy(job[m].prev + 1) + @]
  /\ UNCHANGED <<height, utxos, transactions, mempool, request>>

\* A block assembled by other software, its coinbase right or one unit off.
ForeignBlock(m) ==
  /\ job[m].pc = "idle"
  /\ height < MaxHeight
  /\ \E s \in ForeignBody, extra \in {0, 1} :
       job' = [job EXCEPT
         ![m].pc = "found", ![m].prev = height, ![m].txs = s,
         ![m].value = Subsidy(height + 1) + Fees(s) + extra]
  /\ UNCHANGED <<height, utxos, transactions, mempool, request>>

-----------------------------------------------------------------------------
(* submit_block.                                                           *)

\* tip() and the header rules: only a child of the tip is considered.
CheckBlock(m) ==
  /\ job[m].pc = "found"
  /\ job' = [job EXCEPT ![m] =
       IF @.prev = height THEN [@ EXCEPT !.pc = "checked"] ELSE NoJob]
  /\ UNCHANGED <<height, utxos, transactions, mempool, request>>

\* _validate_block_transactions against the utxos table as it is now.
Acceptable(b) ==
  /\ Len(b.txs) + 1 <= MaxTxPerBlock
  /\ Connects(utxos, b.prev + 1, b.txs)
  /\ b.value >= 0
  /\ CoinbaseExact(b.prev + 1, b.txs, b.value)

ValidateBlock(m) ==
  /\ job[m].pc = "checked"
  /\ job' = [job EXCEPT ![m] =
       IF Acceptable(@) THEN [@ EXCEPT !.pc = "valid"] ELSE NoJob]
  /\ UNCHANGED <<height, utxos, transactions, mempool, request>>

CoinbaseOf(m) == <<job[m].prev + 1, m, job[m].value>>

\* The INSERTs of the transaction meet no row with the same primary key:
\* blocks(height), transactions(txid), utxos(txid, vout).
KeysFree(m) ==
  LET s == job[m].txs IN
  /\ job[m].prev = height
  /\ TxsOf(s) \cap Confirmed = {}
  /\ \A i, j \in 1..Len(s) : s[i] = s[j] => i = j
  /\ (Created(s) \cup {CoinbaseOutput(CoinbaseOf(m))}) \cap (utxos \ Spent(s)) = {}

\* The test that keeps a row of the mempool looks its inputs up as written.
StillThere(t, table) == Plain(t) = TxIn[t] /\ TxIn[t] \subseteq table

\* BEGIN IMMEDIATE ... COMMIT.
CommitBlock(m) ==
  /\ job[m].pc = "valid"
  /\ KeysFree(m)
  /\ height' = height + 1
  /\ utxos' = Applied(utxos, job[m].txs, CoinbaseOf(m))
  /\ transactions' = [t \in Confirmed \cup TxsOf(job[m].txs) |->
                        IF t \in Confirmed THEN transactions[t] ELSE height + 1]
  /\ mempool' = { t \in mempool \ TxsOf(job[m].txs) : StillThere(t, utxos') }
  /\ job' = [job EXCEPT ![m] = NoJob]
  /\ UNCHANGED request

\* An INSERT fails: rollback, and the request answers with an error.
RollbackBlock(m) ==
  /\ job[m].pc = "valid"
  /\ ~KeysFree(m)
  /\ job' = [job EXCEPT ![m] = NoJob]
  /\ UNCHANGED <<height, utxos, transactions, mempool, request>>

-----------------------------------------------------------------------------
SubmitTransaction(c) == (\E t \in Tx : CheckTx(c, t)) \/ ValidateTx(c) \/ InsertTx(c)

GetBlockTemplate(m) ==
  TemplateTip(m) \/ TemplateRows(m) \/ TemplateCheck(m) \/ TemplateDone(m)

SubmitBlock(m) ==
  ForeignBlock(m) \/ CheckBlock(m) \/ ValidateBlock(m) \/ CommitBlock(m) \/ RollbackBlock(m)

Next ==
  \/ \E c \in Client : SubmitTransaction(c)
  \/ \E m \in Miner : GetBlockTemplate(m) \/ SubmitBlock(m)

Spec == Init /\ [][Next]_vars

-----------------------------------------------------------------------------
(* Properties.                                                             *)

Requests == {NoRequest} \cup [pc : {"checked", "valid"}, tx : Tx]
Jobs == [pc : {"idle", "tip", "rows", "found", "checked", "valid"}, prev : Nat,
         rows : SUBSET Tx, txs : Seq(Tx), value : Int, template : BOOLEAN]

\* Every table and every request in flight holds values of its kind.
TypeOK ==
  /\ height \in Nat
  /\ utxos \subseteq Outpoint
  /\ transactions \in [Confirmed -> Nat]
  /\ Confirmed \subseteq Tx
  /\ mempool \subseteq Tx
  /\ request \in [Client -> Requests]
  /\ job \in [Miner -> Jobs]

\* The UTXO table is what the transaction table says is unspent, although
\* blocks are validated outside the transaction that commits them: no two
\* confirmed transactions spend the same output, the outputs of a confirmed
\* transaction are unspent or spent by a confirmed transaction, and a row of
\* utxos is such an output or a coinbase of the chain.
UtxoMatchesTransactions ==
  /\ \A t, u \in Confirmed : t # u => TxIn[t] \cap TxIn[u] = {}
  /\ utxos \cap SpentBy(Confirmed) = {}
  /\ UNION { Outputs(t) : t \in Confirmed } \subseteq utxos \cup SpentBy(Confirmed)
  /\ \A op \in utxos : \/ \E t \in Confirmed : op \in Outputs(t)
                       \/ TxidOf(op) \in Coinbase /\ TxidOf(op)[1] \in 1..height

\* No confirmed transaction spent a coinbase less than coinbase_maturity blocks
\* after the block of that coinbase, whichever request validated it and when.
MaturityRespected ==
  \A t \in Confirmed : \A op \in TxIn[t] : Mature(op, transactions[t])

\* The unspent amounts add up to the subsidies of the blocks so far: fees are
\* neither lost nor paid twice and no interleaving creates coins.
SupplyIsSubsidies ==
  AmountSum(utxos) = MapThenSumSet(Subsidy, 1..height)

\* A block that passed validation and whose parent is still the tip commits:
\* no primary key of the transactions or utxos table stands in its way, and
\* what was validated outside the transaction still holds inside it.
CommitNeverRollsBack ==
  \A m \in Miner : (job[m].pc = "valid" /\ job[m].prev = height)
                      => KeysFree(m) /\ Acceptable(job[m])

\* Two of the transactions spend one output and spell its txid in different
\* letters.
SpelledApart(txs) ==
  \E i, j \in 1..Len(txs) : \E op \in TxIn[txs[i]] \cap TxIn[txs[j]] :
     Spelling[txs[i]][op] # Spelling[txs[j]][op]

\* A block mined on a template is accepted if the tip is still the template's:
\* get_block_template reads tip, mempool and outputs one by one while blocks
\* and transactions are committed, yet never mixes two states of the chain.
\* The one exception is a template with two spends of one output that spell it
\* differently, which neither the mempool nor `seen` takes for a conflict: its
\* block is refused.
TemplateAccepted ==
  \A m \in Miner :
    (job[m].pc = "found" /\ job[m].template /\ job[m].prev = height)
       => Acceptable(job[m]) \/ SpelledApart(job[m].txs)

\* What was validated on the tip, and what was mined on a template of the tip
\* that spells no output in two ways, commits whatever other requests did in
\* between.
CurrentWorkCommits == CommitNeverRollsBack /\ TemplateAccepted
=============================================================================

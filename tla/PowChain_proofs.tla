--------------------------- MODULE PowChain_proofs ---------------------------
(***************************************************************************)
(* Safety of the linear node for every set of transactions, clients and    *)
(* miners, every subsidy schedule and every chain length.                  *)
(*                                                                         *)
(* The invariants of PowChain are not inductive: a commit uses what        *)
(* ValidateBlock found some steps before.  IInv adds what a block or a     *)
(* template in the making has established, provided that the tip is still  *)
(* the one it was started on, and where the inputs of confirmed            *)
(* transactions come from.  SupplyInv, with the finiteness of the UTXO     *)
(* table that sums need, is inductive given IInv.                          *)
(*                                                                         *)
(* The last part, which shares nothing with the chain, is about the        *)
(* campaign of evidence (LaunchCampaign) for every number of people,       *)
(* files and repetitions.  A file is never changed, so the invariant says  *)
(* of each one how it fits those it names; what is behind a decision then  *)
(* follows by induction over the chain of names.                           *)
(***************************************************************************)
EXTENDS PowChain, LaunchCampaign, PowTransactions_proofs

-----------------------------------------------------------------------------
(* The inductive invariant.                                                *)

LedgerInv == SoundLedger(utxos, Confirmed, height) /\ MaturityRespected

\* The operators below take the tip h and the UTXO table U as parameters, so
\* that they can be moved from one state to the next.
AcceptableOn(b, U) ==
  /\ Len(b.txs) + 1 <= MaxTxPerBlock
  /\ Connects(U, b.prev + 1, b.txs)
  /\ b.value >= 0
  /\ CoinbaseExact(b.prev + 1, b.txs, b.value)

\* What the loop of get_block_template knows of the transactions it has taken.
PickedOn(b, U) ==
  /\ \A i \in 1..Len(b.txs) :
       /\ TxIn[b.txs[i]] \subseteq U
       /\ \A op \in TxIn[b.txs[i]] : Mature(op, b.prev + 1)
       /\ Fee(b.txs[i]) >= 0
  /\ \A i, j \in 1..Len(b.txs) :
       i < j => Written(b.txs[i]) \cap Written(b.txs[j]) = {}

TemplateOn(b, U) == AcceptableOn(b, U) \/ SpelledApart(b.txs)

Fresh(b) == b.txs = << >> /\ b.rows = {} /\ b.value = 0 /\ b.template = FALSE

Collected(b) ==
  /\ b.template = FALSE
  /\ IsFiniteSet(b.rows)
  /\ Len(b.txs) + Cardinality(b.rows) <= MaxTxPerBlock - 1
  /\ b.value = Fees(b.txs)
  /\ b.value >= 0

JobOK(b, h, U) ==
  /\ b.prev <= h
  /\ b.pc \in {"idle", "tip"} => Fresh(b)
  /\ b.pc = "rows" => Collected(b) /\ (b.prev = h => PickedOn(b, U))
  /\ (b.pc = "found" /\ b.template /\ b.prev = h) => TemplateOn(b, U)
  /\ (b.pc = "valid" /\ b.prev = h) => AcceptableOn(b, U)

JobInv == \A m \in Miner : JobOK(job[m], height, utxos)

IInv == TypeOK /\ LedgerInv /\ JobInv

-----------------------------------------------------------------------------
(* A validated block on the tip meets no existing key.                     *)

\* What the lemmas about ledgers need.
LEMMA LedgerFacts ==
  ASSUME TypeOK, LedgerInv
  PROVE  /\ height \in Nat /\ Confirmed \in SUBSET Tx
         /\ SoundLedger(utxos, Confirmed, height)
BY DEF TypeOK, LedgerInv

\* The coinbase of a block with an acceptable value.
LEMMA CoinbaseOfType ==
  ASSUME TypeOK, NEW m \in Miner, job[m].value >= 0
  PROVE  CoinbaseOf(m) \in Coinbase /\ CoinbaseOf(m)[1] = job[m].prev + 1
<1>1. job[m].prev \in Nat /\ job[m].value \in Int
  BY DEF TypeOK, Jobs
<1>2. job[m].prev + 1 \in Nat \ {0} /\ job[m].value \in Nat /\ m \in Address
  BY <1>1 DEF Miner
<1> QED BY <1>2 DEF CoinbaseOf, Coinbase

\* KeysFree follows from what validation found and from the ledger.
LEMMA AcceptableKeysFree ==
  ASSUME TypeOK, LedgerInv, NEW m \in Miner, job[m].prev = height,
         AcceptableOn(job[m], utxos)
  PROVE  KeysFree(m)
<1> DEFINE s == job[m].txs
<1>1. s \in Seq(Tx) /\ job[m].prev \in Nat /\ height \in Nat
  BY DEF TypeOK, Jobs
<1>2. Connects(utxos, height + 1, s) /\ job[m].value >= 0
  BY DEF AcceptableOn
<1>3. TxsOf(s) \cap Confirmed = {}
  <2>1. height + 1 \in Nat
    BY <1>1
  <2> QED BY <1>1, <1>2, <2>1, LedgerFacts, ConnectedUnconfirmed
<1>4. \A i, j \in 1..Len(s) : s[i] = s[j] => i = j
  BY <1>1, <1>2, ConnectedInjective
<1>5. Created(s) \cap utxos = {}
  <2>1. ASSUME NEW i \in 1..Len(s) PROVE Outputs(s[i]) \cap utxos = {}
    BY <1>1, <1>3, LedgerFacts, NewOutputsAbsent DEF TxsOf
  <2> QED BY <2>1 DEF Created, OutsOf
<1>6. CoinbaseOutput(CoinbaseOf(m)) \notin utxos
  BY <1>2, CoinbaseOfType, LedgerFacts, NewCoinbaseAbsent
<1> QED BY <1>3, <1>4, <1>5, <1>6 DEF KeysFree

-----------------------------------------------------------------------------
(* A commit preserves the ledger.                                          *)

\* The commit of an acceptable block, its primary keys free, leaves a sound
\* ledger: deleting Spent and inserting Created is what the new rows of the
\* transactions table demand.
LEMMA CommitPreservesLedger ==
  ASSUME TypeOK, LedgerInv, NEW m \in Miner, CommitBlock(m),
         AcceptableOn(job[m], utxos)
  PROVE  LedgerInv'
<1> DEFINE s == job[m].txs
           cb == CoinbaseOf(m)
<1>1. s \in Seq(Tx) /\ height \in Nat /\ job[m].prev = height /\ Len(s) \in Nat
  BY DEF TypeOK, Jobs, CommitBlock, KeysFree
<1>2. Connects(utxos, height + 1, s) /\ job[m].value >= 0
  BY <1>1 DEF AcceptableOn
<1>3. /\ height' = height + 1
      /\ utxos' = (utxos \ Spent(s)) \cup Created(s) \cup {CoinbaseOutput(cb)}
      /\ transactions' = [t \in Confirmed \cup TxsOf(s) |->
                            IF t \in Confirmed THEN transactions[t] ELSE height + 1]
  BY DEF CommitBlock, Applied
<1>4. Confirmed' = Confirmed \cup TxsOf(s)
  BY <1>3 DEF Confirmed
<1>5. TxsOf(s) \cap Confirmed = {}
  BY DEF CommitBlock, KeysFree
<1>6. cb \in Coinbase /\ cb[1] = height + 1
  BY <1>1, <1>2, CoinbaseOfType
<1> HIDE DEF s, cb
<1>7. SoundLedger(utxos', Confirmed', height')
  <2>1. utxos' = Applied(utxos, s, cb)
    BY <1>3 DEF Applied
  <2> QED BY <1>1, <1>2, <1>3, <1>4, <1>6, <2>1, LedgerFacts, BlockKeepsLedger
<1>8. MaturityRespected'
  <2> SUFFICES ASSUME NEW t \in Confirmed', NEW op \in TxIn[t]
               PROVE  Mature(op, transactions'[t])
    BY DEF MaturityRespected, Mature
  <2>1. CASE t \in Confirmed
    BY <1>3, <2>1 DEF LedgerInv, MaturityRespected
  <2>2. CASE t \in TxsOf(s)
    <3>1. transactions'[t] = height + 1
      BY <1>3, <1>5, <2>2
    <3>2. PICK i \in 1..Len(s) : t = s[i]
      BY <2>2 DEF TxsOf
    <3>3. Mature(op, height + 1)
      BY <1>2, <3>2 DEF Connects
    <3> QED BY <3>1, <3>3
  <2> QED BY <1>4, <2>1, <2>2
<1> QED BY <1>7, <1>8 DEF LedgerInv

-----------------------------------------------------------------------------
(* Requests: none of their steps touches the ledger.                       *)

\* The ledger is sound after a step that leaves its tables alone, like every
\* read of a request.
LEMMA LedgerUnchanged ==
  ASSUME LedgerInv, UNCHANGED <<height, utxos, transactions>>
  PROVE  LedgerInv'
<1>1. Confirmed' = Confirmed
  BY DEF Confirmed
<1> QED
  BY <1>1 DEF LedgerInv, MaturityRespected

\* What the miners know stays true after a step of a client.
LEMMA JobsUnchanged ==
  ASSUME JobInv, UNCHANGED <<height, utxos, job>>
  PROVE  JobInv'
BY DEF JobInv

\* One job changes, the tip and the UTXO table do not.
LEMMA OneJob ==
  ASSUME TypeOK, JobInv, NEW m \in Miner, NEW b \in Jobs,
         UNCHANGED <<height, utxos, transactions, mempool, request>>,
         job' = [job EXCEPT ![m] = b], JobOK(b, height, utxos)
  PROVE  TypeOK' /\ JobInv'
<1>1. job \in [Miner -> Jobs]
  BY DEF TypeOK
<1>2. job'[m] = b /\ \A k \in Miner : k # m => job'[k] = job[k]
  BY <1>1
<1>3. job' \in [Miner -> Jobs]
  BY <1>1
<1>4. TypeOK'
  BY <1>3 DEF TypeOK, Confirmed
<1>5. JobInv'
  BY <1>2 DEF JobInv
<1> QED BY <1>4, <1>5

\* submit_transaction preserves the invariant at each of its steps.
LEMMA SubmitTransactionStep ==
  ASSUME IInv, NEW c \in Client, SubmitTransaction(c)
  PROVE  IInv'
<1>1. UNCHANGED <<height, utxos, transactions, job>>
  BY DEF SubmitTransaction, CheckTx, ValidateTx, InsertTx
<1>2. LedgerInv' /\ JobInv'
  BY <1>1, LedgerUnchanged, JobsUnchanged DEF IInv
<1>3. request[c] \in Requests /\ request \in [Client -> Requests]
  BY DEF IInv, TypeOK
<1>4. request' \in [Client -> Requests] /\ mempool' \subseteq Tx
  <2>1. ASSUME NEW t \in Tx, CheckTx(c, t)
        PROVE  request' \in [Client -> Requests] /\ mempool' \subseteq Tx
    <3>1. [pc |-> "checked", tx |-> t] \in Requests
      BY DEF Requests
    <3> QED BY <1>3, <2>1, <3>1 DEF CheckTx, IInv, TypeOK
  <2>2. CASE ValidateTx(c)
    <3>1. request[c] \in [pc : {"checked", "valid"}, tx : Tx]
      BY <1>3, <2>2 DEF ValidateTx, Requests, NoRequest
    <3>2. [request[c] EXCEPT !.pc = "valid"] \in Requests /\ NoRequest \in Requests
      BY <3>1 DEF Requests
    <3> QED BY <1>3, <2>2, <3>2 DEF ValidateTx, IInv, TypeOK
  <2>3. CASE InsertTx(c)
    <3>1. request[c] \in [pc : {"checked", "valid"}, tx : Tx]
      BY <1>3, <2>3 DEF InsertTx, Requests, NoRequest
    <3>2. request[c].tx \in Tx /\ NoRequest \in Requests
      BY <3>1 DEF Requests
    <3> QED BY <1>3, <2>3, <3>2 DEF InsertTx, IInv, TypeOK
  <2> QED BY <2>1, <2>2, <2>3 DEF SubmitTransaction
<1>5. TypeOK'
  BY <1>1, <1>4 DEF IInv, TypeOK, Confirmed
<1> QED BY <1>2, <1>5 DEF IInv

-----------------------------------------------------------------------------
(* Jobs: templates and submitted blocks.                                   *)

\* The types of the fields of a job.
LEMMA JobFields ==
  ASSUME TypeOK, NEW m \in Miner
  PROVE  /\ job[m] \in Jobs
         /\ job[m].prev \in Nat /\ job[m].rows \subseteq Tx /\ job[m].txs \in Seq(Tx)
         /\ job[m].value \in Int /\ job[m].template \in BOOLEAN
         /\ height \in Nat
BY DEF TypeOK, Jobs

\* A miner without a job knows nothing that could become false.
LEMMA NoJobOK == NoJob \in Jobs /\ (height \in Nat => JobOK(NoJob, height, utxos))
BY DEF NoJob, Jobs, JobOK, Fresh

\* get_block_template reads the tip: the template starts empty.
LEMMA TemplateTipStep ==
  ASSUME IInv, NEW m \in Miner, TemplateTip(m)
  PROVE  TypeOK' /\ JobInv'
<1> DEFINE b == [job[m] EXCEPT !.pc = "tip", !.prev = height]
<1>1. job[m] \in Jobs /\ height \in Nat
  BY JobFields DEF IInv
<1>2. b \in Jobs
  BY <1>1 DEF Jobs
<1>3. Fresh(job[m])
  BY DEF IInv, JobInv, JobOK, TemplateTip
<1>4. JobOK(b, height, utxos)
  BY <1>1, <1>3 DEF JobOK, Fresh, Jobs
<1>5. job' = [job EXCEPT ![m] = b]
  BY DEF TemplateTip
<1> QED BY <1>2, <1>4, <1>5, OneJob DEF IInv, TemplateTip

\* get_block_template reads the mempool rows: none is taken yet.
LEMMA TemplateRowsStep ==
  ASSUME IInv, NEW m \in Miner, TemplateRows(m)
  PROVE  TypeOK' /\ JobInv'
<1>1. PICK rows \in SUBSET mempool :
         /\ TopRows(rows)
         /\ job' = [job EXCEPT ![m].pc = "rows", ![m].rows = rows]
  BY DEF TemplateRows
<1> DEFINE b == [job[m] EXCEPT !.pc = "rows", !.rows = rows]
<1>2. job[m] \in Jobs /\ height \in Nat /\ rows \subseteq Tx
  BY JobFields DEF IInv, TypeOK
<1>3. b \in Jobs
  BY <1>2 DEF Jobs
<1>4. Fresh(job[m]) /\ job[m].prev <= height
  BY DEF IInv, JobInv, JobOK, TemplateRows
<1>5. IsFiniteSet(rows) /\ Cardinality(rows) <= MaxTxPerBlock - 1
  BY <1>1, <1>2, TxAssumption, FS_Subset DEF TopRows
<1>6. Cardinality(rows) \in Nat
  BY <1>5, FS_CardinalityType
<1>7. /\ b.pc = "rows" /\ b.txs = << >> /\ b.value = 0 /\ b.template = FALSE
      /\ b.rows = rows /\ b.prev = job[m].prev
  BY <1>2, <1>4 DEF Jobs, Fresh
<1>8. Collected(b) /\ PickedOn(b, utxos)
  <2>1. Len(b.txs) = 0 /\ 1..Len(b.txs) = {}
    BY <1>7
  <2>2. Collected(b)
    BY <1>5, <1>6, <1>7, <2>1, FeesEmpty, ConfigAssumption DEF Collected
  <2> QED BY <2>1, <2>2, Zenon DEF PickedOn
<1>9. JobOK(b, height, utxos)
  BY <1>4, <1>7, <1>8 DEF JobOK
<1>10. job' = [job EXCEPT ![m] = b]
  BY <1>1
<1> QED BY <1>3, <1>9, <1>10, OneJob DEF IInv, TemplateRows

\* One turn of the loop of get_block_template: what is taken stays mature,
\* unspent and free of conflicts, and the fees add up.
LEMMA TemplateCheckStep ==
  ASSUME IInv, NEW m \in Miner, TemplateCheck(m)
  PROVE  TypeOK' /\ JobInv'
<1> DEFINE a == job[m]
<1>1. PICK t \in a.rows : job' = [job EXCEPT ![m] = Considered(a, t)]
  BY DEF TemplateCheck
<1>2. /\ a \in Jobs /\ height \in Nat
      /\ a.prev \in Nat /\ a.rows \subseteq Tx /\ a.txs \in Seq(Tx) /\ a.value \in Int
      /\ a.pc = "rows" /\ t \in Tx /\ a.prev <= height
  BY JobFields DEF IInv, JobInv, JobOK, TemplateCheck
<1>3. Collected(a) /\ (a.prev = height => PickedOn(a, utxos))
  BY <1>2 DEF IInv, JobInv, JobOK
<1>4. /\ IsFiniteSet(a.rows \ {t})
      /\ Cardinality(a.rows \ {t}) = Cardinality(a.rows) - 1
      /\ Cardinality(a.rows) \in Nat
  BY <1>3, FS_RemoveElement, FS_CardinalityType DEF Collected
<1>5. Fee(t) \in Int
  BY <1>2, FeeType
<1>6. CASE Selectable(t, a.prev, a.txs)
  <2> DEFINE b == [a EXCEPT !.rows = @ \ {t}, !.txs = Append(@, t), !.value = @ + Fee(t)]
  <2>1. b \in Jobs
    <3>1. Append(a.txs, t) \in Seq(Tx) /\ a.value + Fee(t) \in Int
      BY <1>2, <1>5
    <3> QED BY <1>2, <3>1 DEF Jobs
  <2>2. /\ b.pc = "rows" /\ b.prev = a.prev /\ b.rows = a.rows \ {t}
        /\ b.txs = Append(a.txs, t) /\ b.value = a.value + Fee(t)
        /\ b.template = a.template
    BY <1>2 DEF Jobs
  <2>3. /\ TxIn[t] \subseteq utxos
        /\ \A op \in TxIn[t] : Mature(op, a.prev + 1)
        /\ Fee(t) >= 0
        /\ \A i \in 1..Len(a.txs) : Written(t) \cap Written(a.txs[i]) = {}
    BY <1>6 DEF Selectable, ValidTx
  <2>4. Len(b.txs) = Len(a.txs) + 1 /\ Len(a.txs) \in Nat
    BY <1>2, <2>2
  <2>5. Collected(b)
    <3>1. b.value = Fees(b.txs)
      BY <1>2, <1>3, <2>2, FeesAppend DEF Collected
    <3> HIDE DEF b
    <3>2. Len(b.txs) + Cardinality(b.rows) <= MaxTxPerBlock - 1
      BY <1>3, <1>4, <2>2, <2>4, ConfigAssumption DEF Collected
    <3> QED BY <1>2, <1>3, <1>4, <1>5, <2>2, <2>3, <3>1, <3>2 DEF Collected
  <2> HIDE DEF b
  <2>6. ASSUME a.prev = height PROVE PickedOn(b, utxos)
    <3>1. PickedOn(a, utxos)
      BY <1>3, <2>6
    <3>2. \A i \in 1..Len(a.txs) : b.txs[i] = a.txs[i]
      BY <1>2, <2>2
    <3>3. b.txs[Len(a.txs) + 1] = t
      BY <1>2, <2>2
    <3>4. \A i \in 1..Len(b.txs) : i \in 1..Len(a.txs) \/ i = Len(a.txs) + 1
      BY <2>4
    <3>5. \A i \in 1..Len(a.txs) : Written(a.txs[i]) \cap Written(t) = {}
      BY <2>3
    <3>6. ASSUME NEW i \in 1..Len(b.txs)
          PROVE  /\ TxIn[b.txs[i]] \subseteq utxos
                 /\ \A op \in TxIn[b.txs[i]] : Mature(op, b.prev + 1)
                 /\ Fee(b.txs[i]) >= 0
      BY <2>2, <2>3, <3>1, <3>2, <3>3, <3>4 DEF PickedOn
    <3>7. ASSUME NEW i \in 1..Len(b.txs), NEW j \in 1..Len(b.txs), i < j
          PROVE  Written(b.txs[i]) \cap Written(b.txs[j]) = {}
      <4>1. i \in 1..Len(a.txs) /\ b.txs[i] = a.txs[i]
        BY <2>4, <3>2, <3>4, <3>7
      <4>2. CASE j \in 1..Len(a.txs)
        BY <3>1, <3>2, <3>7, <4>1, <4>2 DEF PickedOn
      <4>3. CASE j = Len(a.txs) + 1
        BY <3>3, <3>5, <4>1, <4>3
      <4> QED BY <3>4, <4>2, <4>3
    <3> QED BY <3>6, <3>7 DEF PickedOn
  <2>7. JobOK(b, height, utxos)
    BY <1>2, <2>2, <2>5, <2>6 DEF JobOK
  <2>8. job' = [job EXCEPT ![m] = b]
    BY <1>1, <1>6 DEF b, Considered
  <2> QED BY <2>1, <2>7, <2>8, OneJob DEF IInv, TemplateCheck
<1>7. CASE ~ Selectable(t, a.prev, a.txs)
  <2> DEFINE b == [a EXCEPT !.rows = @ \ {t}]
  <2>1. b \in Jobs
    BY <1>2 DEF Jobs
  <2>2. /\ b.pc = "rows" /\ b.prev = a.prev /\ b.rows = a.rows \ {t}
        /\ b.txs = a.txs /\ b.value = a.value /\ b.template = a.template
    BY <1>2 DEF Jobs
  <2> HIDE DEF b
  <2>3. Collected(b) /\ (b.prev = height => PickedOn(b, utxos))
    <3>1. Len(b.txs) \in Nat
      BY <1>2, <2>2
    <3>2. Len(b.txs) + Cardinality(b.rows) <= MaxTxPerBlock - 1
      BY <1>3, <1>4, <2>2, <3>1, ConfigAssumption DEF Collected
    <3> QED BY <1>3, <1>4, <2>2, <3>2 DEF Collected, PickedOn
  <2>4. JobOK(b, height, utxos)
    BY <1>2, <2>2, <2>3 DEF JobOK
  <2>5. job' = [job EXCEPT ![m] = b]
    BY <1>1, <1>7 DEF b, Considered
  <2> QED BY <2>1, <2>4, <2>5, OneJob DEF IInv, TemplateCheck
<1> QED BY <1>6, <1>7

\* Transactions that differ in their inputs as written and spell no output in two
\* ways spend different outputs.
LEMMA WrittenApart ==
  ASSUME NEW s \in Seq(Tx), ~SpelledApart(s), NEW i \in 1..Len(s), NEW j \in 1..Len(s),
         Written(s[i]) \cap Written(s[j]) = {}
  PROVE  TxIn[s[i]] \cap TxIn[s[j]] = {}
<1> SUFFICES ASSUME NEW op \in TxIn[s[i]], op \in TxIn[s[j]] PROVE FALSE
  OBVIOUS
<1>1. Spelling[s[i]][op] = Spelling[s[j]][op]
  BY DEF SpelledApart
<1>2. <<op, Spelling[s[i]][op]>> \in Written(s[i])
  BY DEF Written
<1>3. <<op, Spelling[s[j]][op]>> \in Written(s[j])
  BY DEF Written
<1> QED BY <1>1, <1>2, <1>3

\* The template is complete: it is acceptable on the tip it was started on, unless
\* two of its transactions spell one output differently.
LEMMA TemplateDoneStep ==
  ASSUME IInv, NEW m \in Miner, TemplateDone(m)
  PROVE  TypeOK' /\ JobInv'
<1> DEFINE a == job[m]
           v == Subsidy(a.prev + 1) + a.value
           b == [a EXCEPT !.pc = "found", !.template = TRUE, !.value = v]
<1>1. /\ a \in Jobs /\ height \in Nat
      /\ a.prev \in Nat /\ a.txs \in Seq(Tx) /\ a.value \in Int
      /\ a.pc = "rows" /\ a.rows = {} /\ a.prev <= height
  BY JobFields DEF IInv, JobInv, JobOK, TemplateDone
<1>2. Collected(a) /\ (a.prev = height => PickedOn(a, utxos))
  BY <1>1 DEF IInv, JobInv, JobOK
<1>3. Subsidy(a.prev + 1) \in Nat /\ v \in Int /\ v >= 0
  <2>1. Subsidy(a.prev + 1) \in Nat
    <3>1. a.prev + 1 \in Nat
      BY <1>1
    <3> QED BY <3>1, SubsidyType
  <2> QED BY <1>1, <1>2, <2>1 DEF Collected
<1>4. b \in Jobs
  BY <1>1, <1>3 DEF Jobs
<1>5. /\ b.pc = "found" /\ b.prev = a.prev /\ b.txs = a.txs /\ b.value = v
  BY <1>1 DEF Jobs
<1>6. job' = [job EXCEPT ![m] = b]
  BY DEF TemplateDone
<1> HIDE DEF b
<1>7. ASSUME a.prev = height, ~SpelledApart(b.txs) PROVE AcceptableOn(b, utxos)
  <2>1. Connects(utxos, b.prev + 1, b.txs)
    <3>1. a.prev + 1 \in Nat /\ PickedOn(a, utxos)
      BY <1>1, <1>2, <1>7
    <3>2. \A i, j \in 1..Len(a.txs) : i < j => TxIn[a.txs[i]] \cap TxIn[a.txs[j]] = {}
      BY <1>1, <1>5, <1>7, <3>1, WrittenApart DEF PickedOn
    <3>3. Connects(utxos, a.prev + 1, a.txs)
      BY <1>1, <3>1, <3>2, DisjointConnects DEF PickedOn
    <3> QED BY <1>5, <3>3
  <2>2. Len(b.txs) + 1 <= MaxTxPerBlock
    BY <1>1, <1>2, <1>5, FS_EmptySet, ConfigAssumption DEF Collected
  <2>3. CoinbaseExact(b.prev + 1, b.txs, b.value)
    BY <1>2, <1>5 DEF CoinbaseExact, Collected
  <2> QED BY <1>3, <1>5, <2>1, <2>2, <2>3 DEF AcceptableOn
<1>8. a.prev = height => TemplateOn(b, utxos)
  BY <1>7, Zenon DEF TemplateOn
<1>9. JobOK(b, height, utxos)
  BY <1>1, <1>5, <1>8 DEF JobOK
<1> QED BY <1>4, <1>6, <1>9, OneJob DEF IInv, TemplateDone

\* A block of other software claims nothing.
LEMMA ForeignBlockStep ==
  ASSUME IInv, NEW m \in Miner, ForeignBlock(m)
  PROVE  TypeOK' /\ JobInv'
<1> DEFINE a == job[m]
<1>1. PICK s \in ForeignBody, extra \in {0, 1} :
         job' = [job EXCEPT ![m].pc = "found", ![m].prev = height, ![m].txs = s,
                            ![m].value = Subsidy(height + 1) + Fees(s) + extra]
  BY DEF ForeignBlock
<1> DEFINE v == Subsidy(height + 1) + Fees(s) + extra
           b == [a EXCEPT !.pc = "found", !.prev = height, !.txs = s, !.value = v]
<1>2. a \in Jobs /\ height \in Nat /\ s \in Seq(Tx)
  BY JobFields, BoundsAssumption DEF IInv
<1>3. v \in Int
  <2>1. Subsidy(height + 1) \in Nat /\ Fees(s) \in Int
    BY <1>2, SubsidyType, FeesType
  <2> QED BY <2>1
<1>4. b \in Jobs
  BY <1>2, <1>3 DEF Jobs
<1>5. Fresh(a)
  BY DEF IInv, JobInv, JobOK, ForeignBlock
<1>6. b.pc = "found" /\ b.prev = height /\ b.template = FALSE
  BY <1>2, <1>5 DEF Jobs, Fresh
<1>7. job' = [job EXCEPT ![m] = b]
  BY <1>1
<1> HIDE DEF b
<1>8. JobOK(b, height, utxos)
  BY <1>2, <1>6 DEF JobOK
<1> QED BY <1>4, <1>7, <1>8, OneJob DEF IInv, ForeignBlock

\* submit_block looks at the tip: nothing is validated yet.
LEMMA CheckBlockStep ==
  ASSUME IInv, NEW m \in Miner, CheckBlock(m)
  PROVE  TypeOK' /\ JobInv'
<1> DEFINE a == job[m]
           b == [a EXCEPT !.pc = "checked"]
<1>1. a \in Jobs /\ height \in Nat /\ a.prev <= height
  BY JobFields DEF IInv, JobInv, JobOK
<1>2. b \in Jobs /\ b.pc = "checked" /\ b.prev = a.prev
  BY <1>1 DEF Jobs
<1>3. job' = [job EXCEPT ![m] = b] \/ job' = [job EXCEPT ![m] = NoJob]
  BY DEF CheckBlock
<1> HIDE DEF b
<1>4. JobOK(b, height, utxos)
  BY <1>1, <1>2 DEF JobOK
<1>5. NoJob \in Jobs /\ JobOK(NoJob, height, utxos)
  BY <1>1, NoJobOK
<1> QED BY <1>2, <1>3, <1>4, <1>5, OneJob DEF IInv, CheckBlock

\* submit_block validates the transactions: what Acceptable says is now known.
LEMMA ValidateBlockStep ==
  ASSUME IInv, NEW m \in Miner, ValidateBlock(m)
  PROVE  TypeOK' /\ JobInv'
<1> DEFINE a == job[m]
           b == [a EXCEPT !.pc = "valid"]
<1>1. a \in Jobs /\ height \in Nat /\ a.prev <= height
  BY JobFields DEF IInv, JobInv, JobOK
<1>2. /\ b \in Jobs /\ b.pc = "valid"
      /\ b.prev = a.prev /\ b.txs = a.txs /\ b.value = a.value
  BY <1>1 DEF Jobs
<1>3. \/ Acceptable(a) /\ job' = [job EXCEPT ![m] = b]
      \/ job' = [job EXCEPT ![m] = NoJob]
  BY DEF ValidateBlock
<1> HIDE DEF b
<1>4. ASSUME Acceptable(a) PROVE JobOK(b, height, utxos)
  <2>1. AcceptableOn(b, utxos)
    BY <1>2, <1>4 DEF Acceptable, AcceptableOn
  <2> QED BY <1>1, <1>2, <2>1 DEF JobOK
<1>5. NoJob \in Jobs /\ JobOK(NoJob, height, utxos)
  BY <1>1, NoJobOK
<1> QED BY <1>2, <1>3, <1>4, <1>5, OneJob DEF IInv, ValidateBlock

\* A block that fails to commit leaves no trace.
LEMMA RollbackBlockStep ==
  ASSUME IInv, NEW m \in Miner, RollbackBlock(m)
  PROVE  TypeOK' /\ JobInv'
<1>1. NoJob \in Jobs /\ JobOK(NoJob, height, utxos)
  BY JobFields, NoJobOK DEF IInv
<1> QED BY <1>1, OneJob DEF IInv, RollbackBlock

\* submit_block commits: the ledger stays sound and what the other miners know of
\* the old tip is void, because their parent is no longer the tip.
LEMMA CommitBlockStep ==
  ASSUME IInv, NEW m \in Miner, CommitBlock(m)
  PROVE  IInv'
<1> DEFINE a == job[m]
           s == a.txs
<1>1. /\ a \in Jobs /\ height \in Nat /\ a.prev = height /\ s \in Seq(Tx)
      /\ height' = height + 1 /\ a.pc = "valid"
  BY JobFields DEF IInv, CommitBlock, KeysFree
<1>2. AcceptableOn(a, utxos)
  BY <1>1 DEF IInv, JobInv, JobOK
<1>3. LedgerInv'
  BY <1>2, CommitPreservesLedger DEF IInv
<1>4. NoJob \in Jobs /\ JobOK(NoJob, height', utxos')
  BY <1>1 DEF NoJob, Jobs, JobOK, Fresh
<1>5. job \in [Miner -> Jobs] /\ job' = [job EXCEPT ![m] = NoJob]
  BY DEF IInv, TypeOK, CommitBlock
<1>6. JobInv'
  <2> SUFFICES ASSUME NEW k \in Miner PROVE JobOK(job'[k], height', utxos')
    BY DEF JobInv
  <2>1. CASE k = m
    BY <1>4, <1>5, <2>1
  <2>2. CASE k # m
    <3>1. job'[k] = job[k] /\ job[k].prev \in Nat
      BY <1>5, <2>2, JobFields DEF IInv
    <3>2. JobOK(job[k], height, utxos)
      BY DEF IInv, JobInv
    <3>3. job[k].prev <= height' /\ job[k].prev # height'
      BY <1>1, <3>1, <3>2 DEF JobOK
    <3> QED BY <3>1, <3>2, <3>3 DEF JobOK
  <2> QED BY <2>1, <2>2
<1>7. TypeOK'
  <2>1. utxos' \subseteq Outpoint
    <3>1. \A i \in 1..Len(s) : Outputs(s[i]) \subseteq Outpoint
      BY <1>1, OutputsType
    <3>2. Created(s) \subseteq Outpoint
      BY <3>1 DEF Created, OutsOf
    <3>3. CoinbaseOf(m) \in Coinbase
      BY <1>2, CoinbaseOfType DEF AcceptableOn, IInv
    <3>4. CoinbaseOutput(CoinbaseOf(m)) \in Outpoint
      BY <3>3 DEF CoinbaseOutput, Outpoint
    <3>5. utxos \subseteq Outpoint
      BY DEF IInv, TypeOK
    <3> QED BY <3>2, <3>4, <3>5 DEF CommitBlock, Applied
  <2>2. TxsOf(s) \subseteq Tx /\ Confirmed \subseteq Tx
    BY <1>1 DEF TxsOf, IInv, TypeOK
  <2>3. transactions' \in [Confirmed' -> Nat] /\ Confirmed' \subseteq Tx
    <3>1. transactions' = [t \in Confirmed \cup TxsOf(s) |->
                             IF t \in Confirmed THEN transactions[t] ELSE height + 1]
      BY DEF CommitBlock
    <3>2. \A t \in Confirmed : transactions[t] \in Nat
      BY DEF IInv, TypeOK
    <3>3. Confirmed' = Confirmed \cup TxsOf(s)
      BY <3>1 DEF Confirmed
    <3> QED BY <1>1, <2>2, <3>1, <3>2, <3>3
  <2>4. mempool' \subseteq Tx /\ request' \in [Client -> Requests]
    BY DEF CommitBlock, IInv, TypeOK
  <2>5. job' \in [Miner -> Jobs]
    BY <1>4, <1>5
  <2> QED BY <1>1, <2>1, <2>3, <2>4, <2>5 DEF TypeOK
<1> QED BY <1>3, <1>6, <1>7 DEF IInv

-----------------------------------------------------------------------------
(* The theorems.                                                           *)

\* The invariant holds of a database with the genesis block alone.
LEMMA InitInv == Init => IInv
<1> SUFFICES ASSUME Init PROVE IInv
  OBVIOUS
<1>1. Confirmed = {} /\ height = 0 /\ utxos = {}
  BY DEF Init, Confirmed
<1>2. TypeOK
  BY <1>1, NoJobOK DEF Init, TypeOK, Requests, Confirmed
<1>3. LedgerInv
  BY <1>1, EmptyLedger DEF LedgerInv, MaturityRespected
<1>4. JobInv
  BY <1>1, NoJobOK DEF Init, JobInv
<1> QED BY <1>2, <1>3, <1>4 DEF IInv

\* Every step of every request preserves the invariant.
LEMMA NextInv == IInv /\ [Next]_vars => IInv'
<1> SUFFICES ASSUME IInv, [Next]_vars PROVE IInv'
  OBVIOUS
<1>1. ASSUME NEW c \in Client, SubmitTransaction(c) PROVE IInv'
  BY <1>1, SubmitTransactionStep
<1>2. ASSUME NEW m \in Miner, GetBlockTemplate(m) PROVE IInv'
  <2>1. TypeOK' /\ JobInv'
    BY <1>2, TemplateTipStep, TemplateRowsStep, TemplateCheckStep, TemplateDoneStep
       DEF GetBlockTemplate
  <2>2. UNCHANGED <<height, utxos, transactions>>
    BY <1>2 DEF GetBlockTemplate, TemplateTip, TemplateRows, TemplateCheck, TemplateDone
  <2> QED BY <2>1, <2>2, LedgerUnchanged DEF IInv
<1>3. ASSUME NEW m \in Miner, SubmitBlock(m) PROVE IInv'
  <2>1. CASE CommitBlock(m)
    BY <2>1, CommitBlockStep
  <2>2. CASE ForeignBlock(m) \/ CheckBlock(m) \/ ValidateBlock(m) \/ RollbackBlock(m)
    <3>1. TypeOK' /\ JobInv'
      BY <2>2, ForeignBlockStep, CheckBlockStep, ValidateBlockStep, RollbackBlockStep
    <3>2. UNCHANGED <<height, utxos, transactions>>
      BY <2>2 DEF ForeignBlock, CheckBlock, ValidateBlock, RollbackBlock
    <3> QED BY <3>1, <3>2, LedgerUnchanged DEF IInv
  <2> QED BY <1>3, <2>1, <2>2 DEF SubmitBlock
<1>4. CASE UNCHANGED vars
  <2>1. LedgerInv' /\ JobInv'
    BY <1>4, LedgerUnchanged, JobsUnchanged DEF vars, IInv
  <2>2. TypeOK'
    BY <1>4 DEF vars, IInv, TypeOK, Confirmed
  <2> QED BY <2>1, <2>2 DEF IInv
<1> QED BY <1>1, <1>2, <1>3, <1>4 DEF Next

\* The inductive invariant holds in every reachable state of the node.
THEOREM Invariance == Spec => []IInv
BY InitInv, NextInv, PTL DEF Spec

\* Every reachable state of the linear node is well typed.
THEOREM TypeCorrect == Spec => []TypeOK
<1>1. IInv => TypeOK
  BY DEF IInv
<1> QED BY <1>1, Invariance, PTL

\* In every interleaving of submissions and templates the UTXO table is what the
\* transaction table says is unspent: nothing is spent twice, no output is lost
\* and none is invented.
THEOREM LedgerSound == Spec => []UtxoMatchesTransactions
<1>1. IInv => UtxoMatchesTransactions
  BY DEF IInv, LedgerInv, SoundLedger, UtxoMatchesTransactions
<1> QED BY <1>1, Invariance, PTL

\* No interleaving lets a coinbase be spent before it is mature.
THEOREM CoinbaseMatures == Spec => []MaturityRespected
<1>1. IInv => MaturityRespected
  BY DEF IInv, LedgerInv
<1> QED BY <1>1, Invariance, PTL

\* A block validated outside the transaction that commits it commits if its
\* parent is still the tip: the checks need no repetition inside.  A template that
\* spells no output in two ways is acceptable as long as its tip is the tip, whatever
\* was submitted while it was put together.
THEOREM ValidatedBlocksCommit == Spec => []CurrentWorkCommits
<1>1. IInv => CommitNeverRollsBack
  <2> SUFFICES ASSUME IInv, NEW m \in Miner, job[m].pc = "valid", job[m].prev = height
               PROVE  KeysFree(m) /\ Acceptable(job[m])
    BY DEF CommitNeverRollsBack
  <2>1. AcceptableOn(job[m], utxos)
    BY DEF IInv, JobInv, JobOK
  <2>2. KeysFree(m)
    BY <2>1, AcceptableKeysFree DEF IInv
  <2> QED BY <2>1, <2>2 DEF Acceptable, AcceptableOn
<1>2. IInv => TemplateAccepted
  BY DEF IInv, JobInv, JobOK, TemplateAccepted, TemplateOn, Acceptable, AcceptableOn
<1>3. IInv => CurrentWorkCommits
  BY <1>1, <1>2 DEF CurrentWorkCommits
<1> QED BY <1>3, Invariance, PTL

-----------------------------------------------------------------------------
(* The supply.  The sum of the subsidies is that of FoldInduction with     *)
(* SubsidyAt(u, h) as the subsidy of height h (u is not used).             *)

SubsidyAt(u, h) == Subsidy(h)

Schedule == INSTANCE FoldInduction WITH Op <- SubsidyAt

SupplyInv == IsFiniteSet(utxos) /\ SupplyIsSubsidies

LEMMA ScheduleIs ==
  /\ SupplyIsSubsidies <=> AmountSum(utxos) = Schedule!Total(0, 1..height)
  /\ SupplyIsSubsidies' <=> AmountSum(utxos') = Schedule!Total(0, 1..height')
  /\ \A S : IsFiniteSet(S) => Schedule!IsFiniteSet(S)
BY DEF SupplyIsSubsidies, AmountSum, Schedule!Total, SubsidyAt, MapThenSumSet, MapThenFoldSet,
       Schedule!MapThenSumSet, Schedule!MapThenFoldSet, IsFiniteSet, Schedule!IsFiniteSet

\* One block more, one subsidy more.
LEMMA NextSubsidy ==
  ASSUME NEW h \in Nat
  PROVE  /\ Schedule!Total(0, 1..h) \in Nat
         /\ Schedule!Total(0, 1..(h + 1)) = Subsidy(h + 1) + Schedule!Total(0, 1..h)
<1>1. IsFiniteSet(1..h) /\ Schedule!IsFiniteSet(1..h)
  BY FS_Interval, ScheduleIs
<1>2. \A k \in 1..(h + 1) : SubsidyAt(0, k) \in Nat
  BY SubsidyType DEF SubsidyAt
<1>3. Schedule!Amounts(0, 1..h) /\ SubsidyAt(0, h + 1) \in Int /\ \A k \in 1..h : SubsidyAt(0, k) \in Nat
  BY <1>2 DEF Schedule!Amounts
<1>4. 1..(h + 1) = (1..h) \cup {h + 1} /\ h + 1 \notin 1..h
  OBVIOUS
<1>5. Schedule!Total(0, (1..h) \cup {h + 1}) = SubsidyAt(0, h + 1) + Schedule!Total(0, 1..h)
  BY <1>1, <1>3, <1>4, Schedule!TotalAdd
<1>6. Schedule!Total(0, 1..h) \in Nat
  BY <1>1, <1>3, Schedule!TotalNat
<1> QED BY <1>4, <1>5, <1>6, Zenon DEF SubsidyAt

\* A commit takes the fees out of the unspent amounts and puts them back with the
\* subsidy in the coinbase.
LEMMA CommitSupply ==
  ASSUME IInv, SupplyInv, NEW m \in Miner, CommitBlock(m)
  PROVE  SupplyInv'
<1> DEFINE s == job[m].txs
           cb == CoinbaseOf(m)
           W == (utxos \ Spent(s)) \cup Created(s)
<1>1. /\ s \in Seq(Tx) /\ height \in Nat /\ job[m].prev = height
      /\ job[m].pc = "valid" /\ job[m].value \in Int
  BY JobFields DEF IInv, CommitBlock, KeysFree
<1>2. AcceptableOn(job[m], utxos)
  BY <1>1 DEF IInv, JobInv, JobOK
<1>3. /\ Connects(utxos, height + 1, s) /\ job[m].value >= 0
      /\ job[m].value = Subsidy(height + 1) + Fees(s)
  BY <1>1, <1>2 DEF AcceptableOn, CoinbaseExact
<1>4. height' = height + 1 /\ utxos' = W \cup {CoinbaseOutput(cb)}
  BY DEF CommitBlock, Applied
<1>5. utxos \in SUBSET Outpoint /\ IsFiniteSet(utxos)
  BY DEF IInv, TypeOK, SupplyInv
<1>6. \A i \in 1..Len(s) : s[i] \in Tx /\ s[i] \notin Confirmed /\ Outputs(s[i]) \cap utxos = {}
  <2>1. TxsOf(s) \cap Confirmed = {}
    BY DEF CommitBlock, KeysFree
  <2> QED BY <1>1, <2>1, LedgerFacts, NewOutputsAbsent DEF TxsOf, IInv
<1>7. cb \in Coinbase /\ cb[1] = height + 1 /\ cb[3] = job[m].value
  BY <1>1, <1>3, CoinbaseOfType DEF IInv, CoinbaseOf
<1> HIDE DEF s, cb
<1>8. IsFiniteSet(W) /\ W \in SUBSET Outpoint /\ AmountSum(W) = AmountSum(utxos) - Fees(s)
  <2>1. height + 1 \in Nat
    BY <1>1
  <2> QED BY <1>1, <1>3, <1>5, <1>6, <2>1, ConnectedSum
<1>9. CoinbaseOutput(cb) \notin W
  <2>1. CoinbaseOutput(cb) \notin utxos
    BY <1>7, LedgerFacts, NewCoinbaseAbsent DEF IInv
  <2>2. ASSUME NEW i \in 1..Len(s) PROVE CoinbaseOutput(cb) \notin Outputs(s[i])
    <3>1. TxidOf(CoinbaseOutput(cb)) = cb /\ cb # s[i]
      BY <1>6, <1>7, TxAssumption DEF TxidOf, CoinbaseOutput
    <3> QED BY <1>6, <3>1, OutputsType
  <2> QED BY <2>1, <2>2 DEF Created, OutsOf
<1>10. CoinbaseOutput(cb) \in Outpoint /\ Amount(CoinbaseOutput(cb)) = job[m].value
  <2>1. CoinbaseOutput(cb) \in Outpoint /\ TxidOf(CoinbaseOutput(cb)) = cb
    BY <1>7 DEF Outpoint, TxidOf, CoinbaseOutput
  <2>2. cb \notin Tx
    BY <1>7, TxAssumption
  <2> QED BY <1>7, <2>1, <2>2 DEF Amount
<1> HIDE DEF W
<1>11. IsFiniteSet(utxos') /\ AmountSum(utxos') = job[m].value + AmountSum(W)
  <2>1. AmountIn(0, CoinbaseOutput(cb)) = job[m].value
    BY <1>10 DEF AmountIn
  <2>2. Worth!IsFiniteSet(W) /\ Worth!Amounts(0, W)
    BY <1>8, FiniteIs, AmountSumType
  <2>3. Worth!Total(0, W \cup {CoinbaseOutput(cb)}) = AmountIn(0, CoinbaseOutput(cb)) + Worth!Total(0, W)
    <3>1. /\ W \cap {CoinbaseOutput(cb)} = {} /\ CoinbaseOutput(cb) \notin W
          /\ AmountIn(0, CoinbaseOutput(cb)) \in Int
      BY <1>1, <1>9, <2>1
    <3>2. PICK x : x = CoinbaseOutput(cb)
      OBVIOUS
    <3>3. /\ Worth!Total(0, W \cup {x}) = AmountIn(0, x) + Worth!Total(0, W)
      BY ONLY <3>1, <3>2, <2>2, Worth!TotalAdd
    <3> QED BY ONLY <3>2, <3>3
  <2>4. IsFiniteSet(utxos')
    BY <1>4, <1>8, FS_AddElement
  <2> QED BY <1>4, <2>1, <2>3, <2>4, AmountSumIs, Zenon
<1>12. AmountSum(utxos) = Schedule!Total(0, 1..height)
  BY ScheduleIs DEF SupplyInv
<1>13. /\ Schedule!Total(0, 1..height) \in Nat
       /\ Schedule!Total(0, 1..height') = Subsidy(height + 1) + Schedule!Total(0, 1..height)
  BY <1>1, <1>4, NextSubsidy
<1>14. Fees(s) \in Int /\ Subsidy(height + 1) \in Nat
  <2>1. s \in Seq(Tx) /\ height + 1 \in Nat
    BY ONLY <1>1
  <2>2. Fees(s) \in Int
    BY ONLY <2>1, FeesType
  <2>3. Subsidy(height + 1) \in Nat
    BY ONLY <2>1, SubsidyType
  <2> QED BY ONLY <2>2, <2>3
<1>15. AmountSum(utxos') = Schedule!Total(0, 1..height')
  BY ONLY <1>3, <1>8, <1>11, <1>12, <1>13, <1>14
<1> QED BY <1>11, <1>15, ScheduleIs DEF SupplyInv

LEMMA NextSupply == IInv /\ SupplyInv /\ [Next]_vars => SupplyInv'
<1> SUFFICES ASSUME IInv, SupplyInv, [Next]_vars
             PROVE  SupplyInv'
  OBVIOUS
<1>1. ASSUME UNCHANGED <<height, utxos>> PROVE SupplyInv'
  BY <1>1, ScheduleIs DEF SupplyInv
<1>2. ASSUME NEW c \in Client, SubmitTransaction(c) PROVE SupplyInv'
  BY <1>1, <1>2 DEF SubmitTransaction, CheckTx, ValidateTx, InsertTx
<1>3. ASSUME NEW m \in Miner, GetBlockTemplate(m) PROVE SupplyInv'
  BY <1>1, <1>3 DEF GetBlockTemplate, TemplateTip, TemplateRows, TemplateCheck, TemplateDone
<1>4. ASSUME NEW m \in Miner, SubmitBlock(m) PROVE SupplyInv'
  <2>1. CASE CommitBlock(m)
    BY <2>1, CommitSupply
  <2>2. CASE ForeignBlock(m) \/ CheckBlock(m) \/ ValidateBlock(m) \/ RollbackBlock(m)
    BY <1>1, <2>2 DEF ForeignBlock, CheckBlock, ValidateBlock, RollbackBlock
  <2> QED BY <1>4, <2>1, <2>2 DEF SubmitBlock
<1>5. CASE UNCHANGED vars
  BY <1>1, <1>5 DEF vars
<1> QED BY <1>2, <1>3, <1>4, <1>5 DEF Next

\* The unspent amounts add up to the subsidies of the blocks in every reachable
\* state: no interleaving creates coins, loses a fee or pays one twice.
THEOREM SupplyExact == Spec => []SupplyIsSubsidies
<1>1. Init => SupplyInv
  <2> SUFFICES ASSUME Init PROVE SupplyInv
    OBVIOUS
  <2>1. utxos = {} /\ height = 0 /\ 1..0 = {}
    BY DEF Init
  <2>2. Schedule!Total(0, {}) = 0
    BY Schedule!TotalEmpty
  <2> QED BY <2>1, <2>2, AmountSumEmpty, FS_EmptySet, ScheduleIs DEF SupplyInv
<1>2. SupplyInv => SupplyIsSubsidies
  BY DEF SupplyInv
<1> QED BY <1>1, <1>2, InitInv, NextInv, NextSupply, PTL DEF Spec

-----------------------------------------------------------------------------
(* The campaign.                                                           *)

KindOf(ref) == ref[1][1]

AllRefs == UNION {Refs(slot) : slot \in DOMAIN files}

\* What says nothing of the identity, being older or part of it, and what names it.
Unnamed == {"register", "supply", "edge", "review", "economics", "plan", "policy",
            "readiness", "remediation", "identity"}
Naming == {"approval", "finalgate", "report", "runbook", "cutover", "slo", "drill",
           "upgrade", "risk", "signoff", "repro", "rehearsal", "freeze", "decision",
           "live", "cluster", "attest", "ceremony", "soak29", "fault29", "real",
           "realfreeze", "inventory", "checkpoint", "archive", "health", "edgegate",
           "monitor", "bundle"}
LaunchKinds == Unnamed \cup Naming

\* The kinds of the files that a file of kind k names.
Inputs(k) ==
  CASE k = "reviewfreeze" -> {"reviewgate"}
    [] k = "remediation" -> {"register", "supply", "edge"}
    [] k = "refreeze" -> {"remediation"}
    [] k = "identity" -> {"readiness", "remediation", "policy", "economics", "plan", "review"}
    [] k = "finalgate" -> {"identity", "approval"}
    [] k = "report" -> {"finalgate"}
    [] k = "rehearsal" -> {"report", "runbook", "cutover", "drill", "upgrade", "risk",
                           "repro", "slo", "signoff"}
    [] k = "freeze" -> {"rehearsal"}
    [] k = "decision" -> {"freeze"}
    [] k = "cluster" -> {"live"}
    [] k = "ceremony" -> {"attest"}
    [] k = "soak29" -> {"cluster"}
    [] k = "real" -> {"freeze", "rehearsal", "cluster", "ceremony", "soak29", "fault29"}
    [] k = "realfreeze" -> {"real"}
    [] k = "checkpoint" -> {"inventory"}
    [] k = "edgegate" -> {"health"}
    [] k = "bundle" -> {"realfreeze", "checkpoint", "archive", "edgegate", "monitor"}
    [] k = "checklist" -> {"bundle"}
    [] k = "benchgate" -> {"bench"}
    [] k = "algorithm" -> {"benchgate"}
    [] k = "powgate" -> {"powhost", "convergence", "powsoak", "powfault"}
    [] k = "powfreeze" -> {"powgate"}
    [] k = "activation" -> {"algorithm"}
    [] k = "handoff" -> {"powfreeze", "campaign", "rehearsal36", "activation"}
    [] k = "algoreview" -> {"benchgate", "algorithm", "handoff", "activation"}
    [] k = "powbundle" -> {"deployment", "payoutpolicy", "algoreview", "handoff"}
    [] OTHER -> {}

\* The gates that a later file only names when they were passed.
Gates == {"finalgate", "rehearsal", "cluster", "ceremony", "soak29", "real",
          "checkpoint", "edgegate"}
Deciding == Gates \cup {"remediation", "decision", "bundle"}

\* A file b of kind k fits the files there are: it has the fields of its kind and
\* names files of the kinds its command reads,
WellNamed(k, b) ==
  /\ "of" \in DOMAIN b => \A p \in b.of : p \in AllRefs /\ KindOf(p) \in Inputs(k)
  /\ Inputs(k) # {} => "of" \in DOMAIN b
  /\ k \in Unnamed => "id" \notin DOMAIN b
  /\ k \in Naming => "id" \in DOMAIN b
  /\ k = "readiness" => "commit" \notin DOMAIN b
  /\ k \in Deciding => "ok" \in DOMAIN b
  /\ k \in LaunchKinds /\ "of" \in DOMAIN b => "commit" \in DOMAIN b

\* a gate that was passed agrees with all of them, which had passed themselves,
\* the samples of a soak apart,
Agreeing(k, b) ==
  ("of" \in DOMAIN b /\ k \in LaunchKinds /\ (k \in Deciding => b.ok)) =>
    \A p \in b.of :
      /\ "commit" \in DOMAIN Body(p) /\ KindOf(p) # "register" => Body(p).commit = b.commit
      /\ "id" \in DOMAIN Body(p) => Body(p).id = b.id
      /\ KindOf(p) \in Gates /\ k # "soak29" => Body(p).ok

HostsBehind(b) ==
  \E hosts \in SUBSET RefsOf("host") :
    /\ Holders(hosts, MinHosts)
    /\ Cardinality(Values(hosts, "provider")) >= 2
    /\ AllSay(hosts, "commit", b.commit)
    /\ AllSay(hosts, "genesis", b.genesis)

Retested(f, commit) ==
  \E r \in RefsOf("retest") : r[1][2] = f /\ Body(r).ok /\ Body(r).commit = commit

\* and has the people and retests it asks for.
Remedied(b) ==
  \A f \in Findings :
    /\ \A p \in b.of : KindOf(p) = "register" => f \in Body(p).fixed
    /\ Retested(f, b.commit)

ApprovedByHolders(b) ==
  /\ \A p \in b.of : KindOf(p) = "identity" => Passed(Body(p).of)
  /\ Holders(Kind(b.of, "approval"), MinApprovals)

SignedOff(b) ==
  LET signoffs == Kind(b.of, "signoff")
  IN /\ Scopes \subseteq Values(signoffs, "who")
     /\ b.strict => Cardinality(Values(signoffs, "key")) >= MinApprovals
     /\ Passed(signoffs)
     /\ \A s \in signoffs : Body(s).subject \in b.of

OneNetwork(b) == Holders(b.of, MinHosts) /\ SameNetwork(b.of)

Soaked(b) == MostPassed(b.of) /\ AllSay(b.of, "split", FALSE)

Backed(k, b) ==
  /\ k = "remediation" /\ b.ok => Remedied(b)
  /\ k = "finalgate" /\ b.ok => ApprovedByHolders(b)
  /\ k = "rehearsal" /\ b.ok => SignedOff(b)
  /\ k = "freeze" => \E g \in b.of : b.of = {g}
  /\ k \in {"cluster", "ceremony"} /\ b.ok => OneNetwork(b)
  /\ k = "cluster" /\ b.ok => b.split = FALSE
  /\ k = "soak29" /\ b.ok => Soaked(b)
  /\ k = "reviewgate" /\ b.ok => HostsBehind(b)
  /\ k = "reviewfreeze" => HostsBehind(b)

\* On the network with proof of work: what is compared with the files named.
ReviewOf(b) ==
  /\ \A p, q \in b.of : KindOf(p) = "handoff" /\ KindOf(q) = "handoff" => p = q
  /\ \A d \in b.of : KindOf(d) = "algorithm" =>
       /\ Body(d).choice # "hold"
       /\ Body(d).choice = "randomx" =>
            \E a \in b.of : KindOf(a) = "activation" /\ Body(a).of = {d}

BundleOf(b) ==
  /\ \A p \in b.of : KindOf(p) \in {"deployment", "handoff"} => Body(p).genesis = b.genesis
  /\ \A p \in b.of : KindOf(p) = "deployment" => Body(p).commit = b.commit
  /\ \A p \in b.of : KindOf(p) = "algoreview" =>
       Kind(Body(p).of, "handoff") = Kind(b.of, "handoff")

GenesisOf(b, kind) == \A p \in b.of : KindOf(p) = kind => Body(p).genesis = b.genesis

Compared(k, b) ==
  /\ k = "algorithm" /\ b.choice # "hold" => Passed(b.of)
  /\ k = "powgate" /\ b.ok => GenesisOf(b, "powhost")
  /\ k = "powfreeze" => GenesisOf(b, "powgate") /\ \A p \in b.of : Body(p).ok
  /\ k = "handoff" => GenesisOf(b, "powfreeze")
  /\ k = "algoreview" => ReviewOf(b)
  /\ k = "powbundle" => BundleOf(b)

Fitting(k, b) == WellNamed(k, b) /\ Agreeing(k, b) /\ Backed(k, b) /\ Compared(k, b)

\* Every file fits those it was made from.
CampaignInv ==
  /\ IsFiniteSet(DOMAIN files)
  /\ files = [slot \in DOMAIN files |-> files[slot]]
  /\ \A slot \in DOMAIN files : IsSeq(files[slot])
  /\ \A q \in AllRefs : Fitting(KindOf(q), Body(q))

LEMMA RefFacts ==
  /\ \A q : q \in AllRefs <=>
       /\ q = <<q[1], q[2]>>
       /\ q[1] \in DOMAIN files /\ q[2] \in DOMAIN files[q[1]]
  /\ \A kind, q : q \in RefsOf(kind) <=> q \in AllRefs /\ KindOf(q) = kind
BY DEF AllRefs, Refs, RefsOf, KindOf

LEMMA PickFacts ==
  ASSUME NEW slots, NEW pick \in OneOfEach(slots)
  PROVE  /\ DOMAIN pick = slots
         /\ \A s \in slots : pick[s] \in AllRefs /\ KindOf(pick[s]) = s[1]
<1>1. PICK v : /\ pick = [s \in slots |-> <<s, v[s]>>]
               /\ \A s \in slots : s \in DOMAIN files /\ v[s] \in DOMAIN files[s]
  BY DEF OneOfEach
<1>2. \A s \in slots : pick[s] = <<s, v[s]>>
  BY <1>1
<1>3. \A s \in slots : <<s, v[s]>> \in AllRefs /\ KindOf(<<s, v[s]>>) = s[1]
  BY <1>1 DEF AllRefs, Refs, KindOf
<1> QED BY <1>1, <1>2, <1>3

\* What one function makes of a finite set is finite.
LEMMA ImageFinite ==
  ASSUME NEW S, IsFiniteSet(S), NEW f, NEW T, T = {f[x] : x \in S}
  PROVE  IsFiniteSet(T)
<1> DEFINE g == [x \in S |-> f[x]]
<1>1. g \in Surjection(S, T)
  BY DEF Surjection
<1> QED BY <1>1, FS_Surjection

\* What the members of s are mapped to, together.
Merged(f, s) == UNION {f[x] : x \in s}

LEMMA UnionFinite ==
  ASSUME NEW S, IsFiniteSet(S), NEW f, \A x \in S : IsFiniteSet(f[x])
  PROVE  IsFiniteSet(Merged(f, S))
<1> DEFINE C == {s \in SUBSET S : IsFiniteSet(Merged(f, s))}
<1>1. {} \in C
  <2>1. Merged(f, {}) = {}
    BY DEF Merged
  <2> QED BY <2>1, FS_EmptySet
<1>2. ASSUME NEW s \in SUBSET S, NEW x \in S \ s, s \in C
      PROVE  s \cup {x} \in C
  <2>1. \A z : z \in Merged(f, s \cup {x}) <=> \E y \in s \cup {x} : z \in f[y]
    BY DEF Merged
  <2>2. \A z : z \in Merged(f, s) <=> \E y \in s : z \in f[y]
    BY DEF Merged
  <2>3. \A z : z \in Merged(f, s \cup {x}) <=> z \in Merged(f, s) \cup f[x]
    BY <2>1, <2>2
  <2>4. Merged(f, s \cup {x}) = Merged(f, s) \cup f[x]
    BY <2>3
  <2>5. IsFiniteSet(Merged(f, s)) /\ IsFiniteSet(f[x])
    BY <1>2
  <2>6. IsFiniteSet(Merged(f, s) \cup f[x])
    BY <2>5, FS_Union
  <2> QED BY <2>4, <2>6
<1> HIDE DEF C
<1>3. \A s \in SUBSET S : \A x \in S \ s : s \in C => s \cup {x} \in C
  BY <1>2
<1>4. S \in C
  BY <1>1, <1>3, FiniteIs, Worth!SubsetInduction
<1> QED BY <1>4 DEF C

LEMMA RefsFinite ==
  ASSUME CampaignInv
  PROVE  IsFiniteSet(AllRefs)
<1> DEFINE f == [slot \in DOMAIN files |-> Refs(slot)]
<1>1. ASSUME NEW slot \in DOMAIN files
      PROVE  IsFiniteSet(f[slot])
  <2> DEFINE g == [i \in DOMAIN files[slot] |-> <<slot, i>>]
  <2>1. PICK n \in Nat : DOMAIN files[slot] = 1..n
    BY SequenceFacts DEF CampaignInv
  <2>2. IsFiniteSet(1..n)
    BY FS_Interval
  <2>3. f[slot] = {g[i] : i \in 1..n}
    BY <2>1 DEF Refs
  <2> HIDE DEF f, g
  <2> QED BY <2>2, <2>3, ImageFinite
<1>2. AllRefs = Merged(f, DOMAIN files)
  BY DEF AllRefs, Merged
<1>3. IsFiniteSet(DOMAIN files)
  BY DEF CampaignInv
<1> HIDE DEF f
<1> QED BY <1>1, <1>2, <1>3, UnionFinite

\* Of one value, all say the same.
LEMMA OneValue ==
  ASSUME CampaignInv, NEW S, S \subseteq AllRefs, NEW field,
         Cardinality(Values(S, field)) = 1
  PROVE  \A r, q \in S : Body(r)[field] = Body(q)[field]
<1> DEFINE f == [r \in S |-> Body(r)[field]]
<1>1. IsFiniteSet(S)
  BY RefsFinite, FS_Subset
<1>2. Values(S, field) = {f[r] : r \in S}
  BY DEF Values
<1>3. IsFiniteSet(Values(S, field))
  <2> HIDE DEF f
  <2> QED BY <1>1, <1>2, ImageFinite
<1>4. PICK v : Values(S, field) = {v}
  BY <1>3, FS_Singleton
<1>5. \A r \in S : Body(r)[field] \in Values(S, field)
  BY DEF Values
<1> QED BY <1>4, <1>5

LEMMA OneSays ==
  ASSUME CampaignInv, NEW S, S \subseteq AllRefs, NEW field,
         Cardinality(Values(S, field)) = 1
  PROVE  AllSay(S, field, One(Values(S, field)))
<1>1. \A r, q \in S : Body(r)[field] = Body(q)[field]
  BY OneValue
<1>2. ASSUME NEW r \in S
      PROVE  Body(r)[field] = One(Values(S, field))
  <2>1. Values(S, field) = {Body(r)[field]}
    BY <1>1 DEF Values
  <2> QED BY <2>1 DEF One
<1> QED BY <1>2 DEF AllSay

\* The files behind one are found step by step, and none is missing.
LEMMA NamedFacts ==
  ASSUME NEW refs
  PROVE  \A p : p \in Named(refs) <=>
           \/ p \in refs
           \/ \E q \in refs : /\ "of" \in DOMAIN Body(q) /\ ~FailedSample(q)
                             /\ p \in Body(q).of
BY DEF Named

TraceOf(f, ref) == f[0] = {ref} /\ \A n \in 1..Depth : f[n] = Named(f[n - 1])

LEMMA BehindIs ==
  ASSUME CampaignInv, NEW ref \in AllRefs
  PROVE  \E f : TraceOf(f, ref) /\ Behind(ref) = f[Depth]
<1> DEFINE Links == [n \in 1..Depth |-> [refs \in SUBSET AllRefs |-> Named(refs)]]
           Body1(f, n) == IF n = 0 THEN {ref} ELSE Named(f[n - 1])
           Trace == CHOOSE f : f = [n \in 0..Depth |-> Body1(f, n)]
<1>1. ASSUME NEW refs \in SUBSET AllRefs PROVE Named(refs) \in SUBSET AllRefs
  <2>1. \A q \in AllRefs : "of" \in DOMAIN Body(q) => Body(q).of \subseteq AllRefs
    BY DEF CampaignInv, Fitting, WellNamed
  <2> QED BY <2>1, NamedFacts
<1>2. Links \in [1..Depth -> [SUBSET AllRefs -> SUBSET AllRefs]]
  BY <1>1
<1>3. {ref} \in SUBSET AllRefs /\ Depth \in Nat
  BY DEF Depth
<1>4. Worth!HasRecurrence(Depth, SUBSET AllRefs, {ref}, Links)
  <2> HIDE DEF Links
  <2> QED BY <1>2, <1>3, Worth!IntervalRecursion, Zenon
<1>5. PICK f \in [0..Depth -> SUBSET AllRefs] :
        f[0] = {ref} /\ \A n \in 1..Depth : f[n] = Links[n][f[n - 1]]
  <2> HIDE DEF Links
  <2> QED BY <1>4 DEF Worth!HasRecurrence
<1>6. ASSUME NEW n \in 0..Depth PROVE f[n] = Body1(f, n)
  <2>1. CASE n = 0
    BY <2>1, <1>5
  <2>2. CASE n # 0
    <3>1. n \in 1..Depth /\ n - 1 \in 0..Depth
      BY <2>2, <1>3
    <3>2. f[n] = Links[n][f[n - 1]] /\ f[n - 1] \in SUBSET AllRefs
      BY <3>1, <1>5
    <3> QED BY <3>1, <3>2, <2>2
  <2> QED BY <2>1, <2>2
<1>7. f = [n \in 0..Depth |-> Body1(f, n)]
  <2> HIDE DEF Body1
  <2> QED BY <1>5, <1>6
<1>8. Trace = [n \in 0..Depth |-> Body1(Trace, n)]
  <2> HIDE DEF Body1
  <2> QED BY <1>7
<1>9. Behind(ref) = Trace[Depth]
  BY DEF Behind
<1> HIDE DEF Trace
<1>10. ASSUME NEW n \in 0..Depth PROVE Trace[n] = Body1(Trace, n)
  <2> HIDE DEF Body1
  <2> QED BY <1>8
<1>11. Trace[0] = {ref}
  <2>1. 0 \in 0..Depth
    BY <1>3
  <2> QED BY <2>1, <1>10
<1>12. ASSUME NEW n \in 1..Depth PROVE Trace[n] = Named(Trace[n - 1])
  <2>1. n \in 0..Depth /\ n # 0
    BY <1>3
  <2> QED BY <2>1, <1>10
<1>13. TraceOf(Trace, ref)
  BY <1>11, <1>12 DEF TraceOf
<1> QED BY <1>9, <1>13

\* What holds of a file, and of the files that one of which it holds names,
\* holds of all behind it.
LEMMA BehindClosed ==
  ASSUME CampaignInv, NEW ref \in AllRefs, NEW K, ref \in K,
         \A q \in K : q \in AllRefs /\ "of" \in DOMAIN Body(q) /\ ~FailedSample(q)
                      => Body(q).of \subseteq K
  PROVE  Behind(ref) \subseteq K \cap AllRefs
<1>1. PICK f : TraceOf(f, ref) /\ Behind(ref) = f[Depth]
  BY BehindIs
<1> DEFINE N == {n \in Nat : n <= Depth => f[n] \subseteq K \cap AllRefs}
<1>2. 0 \in N
  BY <1>1 DEF TraceOf
<1>3. ASSUME NEW n \in N PROVE n + 1 \in N
  <2>1. SUFFICES ASSUME n + 1 <= Depth PROVE f[n + 1] \subseteq K \cap AllRefs
    OBVIOUS
  <2>2. n \in Nat /\ n + 1 \in 1..Depth /\ (n + 1) - 1 = n
    BY <2>1 DEF Depth
  <2>3. f[n] \subseteq K \cap AllRefs
    BY <2>1, <2>2 DEF Depth
  <2>4. f[n + 1] = Named(f[n])
    BY <1>1, <2>2 DEF TraceOf
  <2>5. \A q \in AllRefs : "of" \in DOMAIN Body(q) => Body(q).of \subseteq AllRefs
    BY DEF CampaignInv, Fitting, WellNamed
  <2>6. ASSUME NEW p \in Named(f[n]) PROVE p \in K \cap AllRefs
    BY <2>3, <2>5, NamedFacts
  <2> QED BY <2>4, <2>6
<1>4. N = Nat
  <2>1. N \subseteq Nat
    OBVIOUS
  <2> HIDE DEF N
  <2> QED BY <1>2, <1>3, <2>1, Worth!Induction
<1>5. Depth \in N /\ Depth <= Depth
  BY <1>4 DEF Depth
<1> QED BY <1>1, <1>5

\* A file, the files it names and those that these name are behind it, where no
\* failed sample is on the way.
LEMMA BehindHas ==
  ASSUME CampaignInv, NEW ref \in AllRefs, ~FailedSample(ref)
  PROVE  /\ ref \in Behind(ref)
         /\ "of" \in DOMAIN Body(ref) =>
              \A p \in Body(ref).of :
                /\ p \in Behind(ref)
                /\ "of" \in DOMAIN Body(p) /\ ~FailedSample(p)
                     => Body(p).of \subseteq Behind(ref)
<1>1. PICK f : TraceOf(f, ref) /\ Behind(ref) = f[Depth]
  BY BehindIs
<1>2. f[0] = {ref} /\ f[1] = Named(f[0]) /\ f[2] = Named(f[1])
  <2>1. 1 \in 1..Depth /\ 2 \in 1..Depth /\ 1 - 1 = 0 /\ 2 - 1 = 1
    BY DEF Depth
  <2> QED BY <2>1, <1>1 DEF TraceOf
<1> DEFINE N == {n \in Nat : n + 2 <= Depth => f[2] \subseteq f[n + 2]}
<1>3. 0 \in N
  OBVIOUS
<1>4. ASSUME NEW n \in N PROVE n + 1 \in N
  <2>1. SUFFICES ASSUME (n + 1) + 2 <= Depth PROVE f[2] \subseteq f[(n + 1) + 2]
    OBVIOUS
  <2>2. n \in Nat /\ (n + 1) + 2 \in 1..Depth /\ ((n + 1) + 2) - 1 = n + 2 /\ n + 2 <= Depth
    BY <2>1 DEF Depth
  <2>3. f[(n + 1) + 2] = Named(f[n + 2])
    BY <1>1, <2>2 DEF TraceOf
  <2> QED BY <2>2, <2>3, NamedFacts
<1>5. N = Nat
  <2>1. N \subseteq Nat
    OBVIOUS
  <2> HIDE DEF N
  <2> QED BY <1>3, <1>4, <2>1, Worth!Induction
<1>6. f[2] \subseteq Behind(ref)
  <2>1. 10 \in N
    <3> HIDE DEF N
    <3> QED BY <1>5
  <2>2. 10 + 2 = Depth
    BY DEF Depth
  <2>3. f[2] \subseteq f[10 + 2]
    BY <2>1, <2>2
  <2> QED BY <1>1, <2>2, <2>3
<1>7. f[1] \subseteq f[2] /\ ref \in f[1]
  BY <1>2, NamedFacts
<1>8. ASSUME "of" \in DOMAIN Body(ref), NEW p \in Body(ref).of
      PROVE  /\ p \in f[1]
             /\ "of" \in DOMAIN Body(p) /\ ~FailedSample(p) => Body(p).of \subseteq f[2]
  <2>1. p \in f[1]
    BY <1>8, <1>2, NamedFacts
  <2> QED BY <2>1, <1>2, NamedFacts
<1> QED BY <1>6, <1>7, <1>8

\* A step that only adds files.
Grown ==
  /\ AllRefs \subseteq AllRefs'
  /\ \A q \in AllRefs : files'[q[1]][q[2]] = files[q[1]][q[2]]

Added(slot, body) ==
  /\ slot \in DOMAIN files
  /\ files' = [files EXCEPT ![slot] = Append(@, body)]

LEMMA AddedFrame ==
  ASSUME CampaignInv, NEW slot, NEW body, Added(slot, body)
  PROVE  /\ Grown
         /\ IsFiniteSet(DOMAIN files')
         /\ files' = [s \in DOMAIN files' |-> files'[s]]
         /\ \A s \in DOMAIN files' : IsSeq(files'[s])
         /\ \A q \in AllRefs' : q \in AllRefs \/ (KindOf(q) = slot[1] /\ files'[q[1]][q[2]] = body)
<1> DEFINE n == Len(files[slot]) + 1
<1>1. slot \in DOMAIN files /\ files' = [files EXCEPT ![slot] = Append(@, body)]
  BY DEF Added
<1>2. files = [s \in DOMAIN files |-> files[s]] /\ IsSeq(files[slot])
  BY <1>1 DEF CampaignInv
<1>3. /\ DOMAIN files' = DOMAIN files
      /\ files'[slot] = Append(files[slot], body)
      /\ \A s \in DOMAIN files : s # slot => files'[s] = files[s]
      /\ files' = [s \in DOMAIN files' |-> files'[s]]
  BY <1>1, <1>2
<1>4. /\ IsSeq(files'[slot])
      /\ DOMAIN files'[slot] = DOMAIN files[slot] \cup {n}
      /\ files'[slot][n] = body
      /\ \A i \in DOMAIN files[slot] : files'[slot][i] = files[slot][i]
  BY <1>2, <1>3, AppendFacts
<1> HIDE DEF n
<1>5. \A q : q \in AllRefs <=> /\ q = <<q[1], q[2]>>
                               /\ q[1] \in DOMAIN files /\ q[2] \in DOMAIN files[q[1]]
  BY RefFacts
<1>6. \A q : q \in AllRefs' <=> /\ q = <<q[1], q[2]>>
                                /\ q[1] \in DOMAIN files' /\ q[2] \in DOMAIN files'[q[1]]
  BY DEF AllRefs, Refs
<1>7. ASSUME NEW q \in AllRefs
      PROVE  q \in AllRefs' /\ files'[q[1]][q[2]] = files[q[1]][q[2]]
  BY <1>3, <1>4, <1>5, <1>6
<1>8. ASSUME NEW q \in AllRefs', q \notin AllRefs
      PROVE  KindOf(q) = slot[1] /\ files'[q[1]][q[2]] = body
  <2>1. q[1] = slot /\ q[2] = n
    BY <1>8, <1>3, <1>4, <1>5, <1>6
  <2> QED BY <2>1, <1>4 DEF KindOf
<1>9. \A s \in DOMAIN files' : IsSeq(files'[s])
  BY <1>3, <1>4 DEF CampaignInv
<1>10. IsFiniteSet(DOMAIN files')
  BY <1>3 DEF CampaignInv
<1> QED BY <1>3, <1>7, <1>8, <1>9, <1>10 DEF Grown

LEMMA Steady ==
  ASSUME Grown, NEW S, S \subseteq AllRefs
  PROVE  /\ \A field : Values(S, field)' = Values(S, field)
         /\ \A field, v : AllSay(S, field, v) => AllSay(S, field, v)'
         /\ Passed(S) => Passed(S)'
         /\ \A kind : Kind(S, kind)' = Kind(S, kind)
<1>1. \A r \in S : files'[r[1]][r[2]] = files[r[1]][r[2]]
  BY DEF Grown
<1>2. ASSUME NEW field
      PROVE  {files'[r[1]][r[2]][field] : r \in S} = {files[r[1]][r[2]][field] : r \in S}
  BY <1>1
<1>3. \A field : Values(S, field)' = Values(S, field)
  BY <1>2 DEF Values, Body
<1>4. ASSUME NEW field, NEW v
      PROVE  AllSay(S, field, v) => AllSay(S, field, v)'
  BY <1>1 DEF AllSay, Body
<1>5. Passed(S) => Passed(S)'
  BY <1>1 DEF Passed, Body
<1>6. \A kind : Kind(S, kind)' = Kind(S, kind)
  BY DEF Kind
<1> QED BY <1>3, <1>4, <1>5, <1>6

LEMMA SteadyHolders ==
  ASSUME Grown, NEW S, S \subseteq AllRefs
  PROVE  /\ \A n : Holders(S, n) => Holders(S, n)'
         /\ SameNetwork(S) => SameNetwork(S)'
<1>1. \A field : Values(S, field)' = Values(S, field)
  BY Steady
<1>2. Passed(S) => Passed(S)'
  BY Steady
<1>3. ASSUME NEW n
      PROVE  Holders(S, n) => Holders(S, n)'
  <2>1. Values(S, "who")' = Values(S, "who") /\ Values(S, "key")' = Values(S, "key")
    BY <1>1
  <2> QED BY <1>2, <2>1 DEF Holders
<1>4. SameNetwork(S) => SameNetwork(S)'
  <2>1. \A field \in {"commit", "id", "genesis"} : Values(S, field)' = Values(S, field)
    BY <1>1
  <2> QED BY <2>1 DEF SameNetwork
<1> QED BY <1>3, <1>4

LEMMA StillWellNamed ==
  ASSUME Grown, NEW k, NEW b, WellNamed(k, b)
  PROVE  WellNamed(k, b)'
BY DEF WellNamed, Grown

LEMMA StillAgreeing ==
  ASSUME Grown, NEW k, NEW b, WellNamed(k, b), Agreeing(k, b)
  PROVE  Agreeing(k, b)'
<1>1. "of" \in DOMAIN b => \A p \in b.of : files'[p[1]][p[2]] = files[p[1]][p[2]]
  BY DEF WellNamed, Grown
<1> QED BY <1>1 DEF Agreeing, Body

LEMMA StillHosts ==
  ASSUME Grown, NEW b, HostsBehind(b)
  PROVE  HostsBehind(b)'
<1>1. PICK hosts \in SUBSET RefsOf("host") :
        /\ Holders(hosts, MinHosts)
        /\ Cardinality(Values(hosts, "provider")) >= 2
        /\ AllSay(hosts, "commit", b.commit)
        /\ AllSay(hosts, "genesis", b.genesis)
  BY DEF HostsBehind
<1>2. hosts \subseteq AllRefs /\ \A q \in hosts : KindOf(q) = "host"
  BY RefFacts
<1>3. hosts \subseteq AllRefs'
  BY <1>2 DEF Grown
<1>4. hosts \in SUBSET RefsOf("host")'
  <2>1. \A kind, q : q \in RefsOf(kind)' <=> q \in AllRefs' /\ KindOf(q) = kind
    BY DEF AllRefs, Refs, RefsOf, KindOf
  <2> QED BY <1>2, <1>3, <2>1
<1>5. Values(hosts, "provider")' = Values(hosts, "provider")
  BY <1>2, Steady
<1>6. AllSay(hosts, "commit", b.commit)' /\ AllSay(hosts, "genesis", b.genesis)'
  BY <1>1, <1>2, Steady
<1>7. Holders(hosts, MinHosts)'
  BY <1>1, <1>2, SteadyHolders
<1> QED BY <1>1, <1>4, <1>5, <1>6, <1>7 DEF HostsBehind

LEMMA StillRetested ==
  ASSUME Grown, NEW f, NEW commit, Retested(f, commit)
  PROVE  Retested(f, commit)'
<1>1. PICK r \in RefsOf("retest") : r[1][2] = f /\ Body(r).ok /\ Body(r).commit = commit
  BY DEF Retested
<1>2. r \in AllRefs /\ KindOf(r) = "retest"
  BY RefFacts
<1>3. r \in AllRefs' /\ files'[r[1]][r[2]] = files[r[1]][r[2]]
  BY <1>2 DEF Grown
<1>4. r \in RefsOf("retest")'
  <2>1. \A kind, q : q \in RefsOf(kind)' <=> q \in AllRefs' /\ KindOf(q) = kind
    BY DEF AllRefs, Refs, RefsOf, KindOf
  <2> QED BY <1>2, <1>3, <2>1
<1> QED BY <1>1, <1>3, <1>4 DEF Retested, Body

\* The kinds of files that name others, with the kinds of these.
LEMMA InputsAre ==
  /\ Inputs("reviewfreeze") = {"reviewgate"}
  /\ Inputs("remediation") = {"register", "supply", "edge"}
  /\ Inputs("refreeze") = {"remediation"}
  /\ Inputs("identity") = {"readiness", "remediation", "policy", "economics", "plan", "review"}
  /\ Inputs("finalgate") = {"identity", "approval"}
  /\ Inputs("report") = {"finalgate"}
  /\ Inputs("rehearsal") = {"report", "runbook", "cutover", "drill", "upgrade", "risk",
                            "repro", "slo", "signoff"}
  /\ Inputs("freeze") = {"rehearsal"}
  /\ Inputs("decision") = {"freeze"}
  /\ Inputs("cluster") = {"live"}
  /\ Inputs("ceremony") = {"attest"}
  /\ Inputs("soak29") = {"cluster"}
  /\ Inputs("real") = {"freeze", "rehearsal", "cluster", "ceremony", "soak29", "fault29"}
  /\ Inputs("realfreeze") = {"real"}
  /\ Inputs("checkpoint") = {"inventory"}
  /\ Inputs("edgegate") = {"health"}
  /\ Inputs("bundle") = {"realfreeze", "checkpoint", "archive", "edgegate", "monitor"}
  /\ Inputs("checklist") = {"bundle"}
BY DEF Inputs

LEMMA PowInputsAre ==
  /\ Inputs("benchgate") = {"bench"}
  /\ Inputs("algorithm") = {"benchgate"}
  /\ Inputs("powgate") = {"powhost", "convergence", "powsoak", "powfault"}
  /\ Inputs("powfreeze") = {"powgate"}
  /\ Inputs("activation") = {"algorithm"}
  /\ Inputs("handoff") = {"powfreeze", "campaign", "rehearsal36", "activation"}
  /\ Inputs("algoreview") = {"benchgate", "algorithm", "handoff", "activation"}
  /\ Inputs("powbundle") = {"deployment", "payoutpolicy", "algoreview", "handoff"}
BY DEF Inputs

LEMMA StillRemedied ==
  ASSUME Grown, NEW b, b.of \subseteq AllRefs, Remedied(b)
  PROVE  Remedied(b)'
<1>1. ASSUME NEW f \in Findings, NEW p \in b.of, KindOf(p) = "register"
      PROVE  f \in Body(p)'.fixed
  BY <1>1 DEF Grown, Body, Remedied
<1>2. ASSUME NEW f \in Findings
      PROVE  Retested(f, b.commit)'
  BY <1>2, StillRetested DEF Remedied
<1> QED BY <1>1, <1>2 DEF Remedied

LEMMA StillApproved ==
  ASSUME CampaignInv, Grown, NEW b, b.of \subseteq AllRefs, ApprovedByHolders(b)
  PROVE  ApprovedByHolders(b)'
<1>1. Holders(Kind(b.of, "approval"), MinApprovals) /\ Kind(b.of, "approval") \subseteq AllRefs
  BY DEF ApprovedByHolders, Kind
<1>2. Holders(Kind(b.of, "approval"), MinApprovals)'
  BY <1>1, SteadyHolders DEF Kind
<1>3. ASSUME NEW p \in b.of, KindOf(p) = "identity"
      PROVE  Passed(Body(p).of)'
  <2>1. p \in AllRefs /\ Body(p)' = Body(p)
    BY DEF Grown, Body
  <2>2. PICK o : o = Body(p).of
    OBVIOUS
  <2>3. (Body(p)').of = o
    BY <2>1, <2>2
  <2>4. Passed(o)
    BY <1>3, <2>2 DEF ApprovedByHolders
  <2>5. WellNamed("identity", Body(p))
    BY <1>3, <2>1 DEF CampaignInv, Fitting
  <2>6. o \subseteq AllRefs
    BY <2>2, <2>5, InputsAre DEF WellNamed
  <2>7. Passed(o)'
    BY <2>4, <2>6, Steady
  <2> QED BY <2>3, <2>7
<1> QED BY <1>2, <1>3 DEF ApprovedByHolders

LEMMA StillSignedOff ==
  ASSUME Grown, NEW b, b.of \subseteq AllRefs, SignedOff(b)
  PROVE  SignedOff(b)'
<1>1. PICK S : S = Kind(b.of, "signoff")
  OBVIOUS
<1>2. S \subseteq AllRefs /\ Kind(b.of, "signoff")' = S
  BY <1>1 DEF Kind
<1>3. /\ Scopes \subseteq Values(S, "who")
      /\ b.strict => Cardinality(Values(S, "key")) >= MinApprovals
      /\ Passed(S) /\ \A s \in S : Body(s).subject \in b.of
  BY <1>1 DEF SignedOff
<1>4. Values(S, "who")' = Values(S, "who") /\ Values(S, "key")' = Values(S, "key") /\ Passed(S)'
  BY <1>2, <1>3, Steady
<1>5. \A s \in S : (Body(s)').subject \in b.of
  BY <1>2, <1>3 DEF Grown, Body
<1> QED BY <1>2, <1>3, <1>4, <1>5 DEF SignedOff

LEMMA StillSoaked ==
  ASSUME Grown, NEW b, b.of \subseteq AllRefs, Soaked(b)
  PROVE  Soaked(b)'
<1>1. \A s \in b.of : Body(s)' = Body(s)
  BY DEF Grown, Body
<1>2. {s \in b.of : Body(s).ok}' = {s \in b.of : Body(s).ok}
  BY <1>1
<1>3. MostPassed(b.of)'
  BY <1>2 DEF Soaked, MostPassed
<1>4. AllSay(b.of, "split", FALSE)'
  BY Steady DEF Soaked
<1> QED BY <1>3, <1>4 DEF Soaked

LEMMA StillBacked ==
  ASSUME CampaignInv, Grown, NEW k, NEW b, WellNamed(k, b), Backed(k, b)
  PROVE  Backed(k, b)'
<1>1. ASSUME k \in {"remediation", "finalgate", "rehearsal", "cluster", "ceremony", "soak29"}
      PROVE  b.of \subseteq AllRefs
  <2>1. Inputs(k) # {}
    BY <1>1, InputsAre
  <2> QED BY <2>1 DEF WellNamed
<1>2. k = "remediation" /\ b.ok => Remedied(b)'
  BY <1>1, StillRemedied DEF Backed
<1>3. k = "finalgate" /\ b.ok => ApprovedByHolders(b)'
  BY <1>1, StillApproved DEF Backed
<1>4. k = "rehearsal" /\ b.ok => SignedOff(b)'
  BY <1>1, StillSignedOff DEF Backed
<1>5. k \in {"cluster", "ceremony"} /\ b.ok => OneNetwork(b)'
  <2>1. ASSUME k \in {"cluster", "ceremony"}, b.ok
        PROVE  OneNetwork(b)'
    BY <1>1, <2>1, SteadyHolders DEF Backed, OneNetwork
  <2> QED BY <2>1
<1>6. k = "freeze" => \E g \in b.of : b.of = {g}
  BY DEF Backed
<1>7. (k = "reviewgate" /\ b.ok => HostsBehind(b)') /\ (k = "reviewfreeze" => HostsBehind(b)')
  BY StillHosts DEF Backed
<1>8. k = "soak29" /\ b.ok => Soaked(b)'
  BY <1>1, StillSoaked DEF Backed
<1>9. k = "cluster" /\ b.ok => b.split = FALSE
  BY DEF Backed
<1> QED BY <1>2, <1>3, <1>4, <1>5, <1>6, <1>7, <1>8, <1>9 DEF Backed

LEMMA StillCompared ==
  ASSUME Grown, NEW k, NEW b, WellNamed(k, b), Compared(k, b)
  PROVE  Compared(k, b)'
<1>1. ASSUME k \in {"algorithm", "powgate", "powfreeze", "handoff", "algoreview", "powbundle"}
      PROVE  b.of \subseteq AllRefs
  <2>1. Inputs(k) # {}
    BY <1>1, PowInputsAre
  <2> QED BY <2>1 DEF WellNamed
<1>2. ASSUME b.of \subseteq AllRefs
      PROVE  \A p \in b.of : Body(p)' = Body(p)
  BY <1>2 DEF Grown, Body
<1>3. ASSUME k = "algorithm", b.choice # "hold"
      PROVE  Passed(b.of)'
  BY <1>1, <1>3, Steady DEF Compared
<1>4. ASSUME b.of \subseteq AllRefs, NEW kind, GenesisOf(b, kind)
      PROVE  GenesisOf(b, kind)'
  BY <1>2, <1>4 DEF GenesisOf
<1>5. ASSUME k = "powfreeze"
      PROVE  \A p \in b.of : (Body(p)').ok
  BY <1>1, <1>2, <1>5 DEF Compared
<1>6. ASSUME k = "algoreview"
      PROVE  ReviewOf(b)'
  BY <1>1, <1>2, <1>6 DEF Compared, ReviewOf
<1>7. ASSUME k = "powbundle"
      PROVE  BundleOf(b)'
  <2>1. \A p \in b.of : Body(p)' = Body(p)
    BY <1>1, <1>2, <1>7
  <2>2. BundleOf(b)
    BY <1>7 DEF Compared
  <2> QED BY <2>1, <2>2 DEF BundleOf, Kind
<1> QED BY <1>1, <1>3, <1>4, <1>5, <1>6, <1>7 DEF Compared

LEMMA StillFits ==
  ASSUME CampaignInv, Grown, NEW k, NEW b, Fitting(k, b)
  PROVE  Fitting(k, b)'
BY StillWellNamed, StillAgreeing, StillBacked, StillCompared DEF Fitting

\* A file that fits those there are keeps the invariant.
LEMMA AddedInv ==
  ASSUME CampaignInv, NEW slot, NEW body, Added(slot, body), Fitting(slot[1], body)
  PROVE  CampaignInv'
<1>1. /\ Grown
      /\ IsFiniteSet(DOMAIN files')
      /\ files' = [s \in DOMAIN files' |-> files'[s]]
      /\ \A s \in DOMAIN files' : IsSeq(files'[s])
      /\ \A q \in AllRefs' : q \in AllRefs \/ (KindOf(q) = slot[1] /\ files'[q[1]][q[2]] = body)
  BY AddedFrame
<1>2. Fitting(slot[1], body)'
  BY <1>1, StillFits
<1>3. ASSUME NEW q \in AllRefs'
      PROVE  Fitting(KindOf(q), Body(q))'
  <2>1. PICK b : b = Body(q)'
    OBVIOUS
  <2>2. CASE q \in AllRefs
    <3>1. b = Body(q)
      BY <1>1, <2>1, <2>2 DEF Grown, Body
    <3>2. Fitting(KindOf(q), b)
      BY <2>2, <3>1 DEF CampaignInv
    <3>3. Fitting(KindOf(q), b)'
      BY <1>1, <3>2, StillFits
    <3> QED BY <2>1, <3>3
  <2>3. CASE KindOf(q) = slot[1] /\ files'[q[1]][q[2]] = body
    <3>1. b = body
      BY <2>1, <2>3 DEF Body
    <3> QED BY <1>2, <2>1, <2>3, <3>1
  <2> QED BY <1>1, <2>2, <2>3
<1> QED BY <1>1, <1>3 DEF CampaignInv

-----------------------------------------------------------------------------
(* Every command saves a file that fits.                                   *)

Adds(slot) == \E body : Added(slot, body) /\ Fitting(slot[1], body)

\* What is made from what is typed alone names no file.
Leaves == {"soak", "faultplan", "fault", "recovery", "signer", "redundancy", "readiness",
           "incident", "host", "register", "retest", "supply", "edge", "plan", "policy",
           "economics", "review", "approval", "runbook", "cutover", "slo", "drill",
           "upgrade", "risk", "signoff", "repro", "live", "attest", "fault29",
           "inventory", "archive", "health", "monitor", "bench", "powhost",
           "convergence", "powsoak", "powfault", "campaign", "rehearsal36",
           "deployment", "payoutpolicy"}

Leaf(k, b) ==
  /\ k \in Leaves
  /\ "of" \notin DOMAIN b
  /\ k \in Unnamed => "id" \notin DOMAIN b
  /\ k \in Naming => "id" \in DOMAIN b
  /\ k = "readiness" => "commit" \notin DOMAIN b

LEMMA LeafInputs == \A k \in Leaves : Inputs(k) = {}
BY DEF Leaves, Inputs

LEMMA LeafFits ==
  ASSUME NEW k, NEW b, Leaf(k, b)
  PROVE  Fitting(k, b)
<1>1. k \in Leaves /\ Inputs(k) = {}
  BY LeafInputs DEF Leaf
<1>2. /\ k \notin Deciding
      /\ k \notin {"remediation", "finalgate", "rehearsal", "freeze", "cluster", "ceremony",
                   "soak29", "reviewgate", "reviewfreeze", "algorithm", "powgate", "powfreeze",
                   "handoff", "algoreview", "powbundle"}
  BY <1>1 DEF Leaves, Deciding, Gates
<1>3. WellNamed(k, b)
  BY <1>1, <1>2 DEF Leaf, WellNamed
<1>4. Agreeing(k, b)
  BY DEF Leaf, Agreeing
<1>5. Backed(k, b)
  BY <1>2 DEF Backed
<1>6. Compared(k, b)
  BY <1>2 DEF Compared
<1> QED BY <1>3, <1>4, <1>5, <1>6 DEF Fitting

LEMMA SaveAdds ==
  ASSUME NEW slot \in DOMAIN files, NEW body, NEW typed, NEW given, NEW slots,
         Save(slot, body, typed, given, slots), Fitting(slot[1], body)
  PROVE  Adds(slot)
BY DEF Save, Added, Adds

LEMMA RecordAdds ==
  ASSUME NEW slot \in DOMAIN files, NEW bodies, NEW typed,
         Record(slot, bodies, typed), \A b \in bodies : Leaf(slot[1], b)
  PROVE  Adds(slot)
<1>1. PICK body \in bodies : Save(slot, body, typed, {}, {})
  BY DEF Record
<1>2. Fitting(slot[1], body)
  BY LeafFits
<1> QED BY <1>1, <1>2, SaveAdds

LEMMA Leaves24 ==
  /\ \A b \in SoakSummaries : Leaf("soak", b)
  /\ \A b \in FaultPlans : Leaf("faultplan", b)
  /\ \A plan : \A b \in FaultResults(plan) : Leaf("fault", b)
  /\ \A kind : \A b \in RecoveryRecords(kind) : Leaf("recovery", b)
  /\ \A b \in SignerRecords : Leaf("signer", b)
  /\ \A b \in RedundancyReports : Leaf("redundancy", b)
  /\ \A s, f, r, n, d : Leaf("readiness", Readiness(s, f, r, n, d))
  /\ \A b \in IncidentRecords : Leaf("incident", b)
  /\ \A b \in HostAttestations : Leaf("host", b)
  /\ \A b \in FindingsRegisters : Leaf("register", b)
  /\ \A b \in RetestRecords : Leaf("retest", b)
  /\ \A b \in SupplyAttestations : Leaf("supply", b)
  /\ \A b \in EdgeAttestations : Leaf("edge", b)
<1> USE DEF Leaf, Leaves, Unnamed, Naming
<1>1. \A b \in SoakSummaries : Leaf("soak", b)
  BY DEF SoakSummaries
<1>2. \A b \in FaultPlans : Leaf("faultplan", b)
  BY DEF FaultPlans
<1>3. \A plan : \A b \in FaultResults(plan) : Leaf("fault", b)
  BY DEF FaultResults
<1>4. \A kind : \A b \in RecoveryRecords(kind) : Leaf("recovery", b)
  BY DEF RecoveryRecords
<1>5. \A b \in SignerRecords : Leaf("signer", b)
  BY DEF SignerRecords
<1>6. \A b \in RedundancyReports : Leaf("redundancy", b)
  BY DEF RedundancyReports
<1>7. \A s, f, r, n, d : Leaf("readiness", Readiness(s, f, r, n, d))
  BY DEF Readiness
<1>8. \A b \in IncidentRecords : Leaf("incident", b)
  BY DEF IncidentRecords
<1>9. \A b \in HostAttestations : Leaf("host", b)
  BY DEF HostAttestations
<1>10. \A b \in FindingsRegisters : Leaf("register", b)
  BY DEF FindingsRegisters
<1>11. \A b \in RetestRecords : Leaf("retest", b)
  BY DEF RetestRecords
<1>12. \A b \in SupplyAttestations : Leaf("supply", b)
  BY DEF SupplyAttestations
<1>13. \A b \in EdgeAttestations : Leaf("edge", b)
  BY DEF EdgeAttestations
<1> HIDE DEF Leaf, Leaves, Unnamed, Naming
<1> QED BY <1>1, <1>2, <1>3, <1>4, <1>5, <1>6, <1>7, <1>8, <1>9, <1>10, <1>11, <1>12, <1>13

LEMMA Leaves27 ==
  /\ \A b \in UpgradePlans : Leaf("plan", b)
  /\ \A b \in GovernancePolicies : Leaf("policy", b)
  /\ \A b \in EconomicsFreezes : Leaf("economics", b)
  /\ \A b \in ExternalReviews : Leaf("review", b)
  /\ \A b \in ReleaseApprovals : Leaf("approval", b)
  /\ \A b \in OfCandidate : \A k \in {"runbook", "cutover", "slo", "drill", "risk", "repro",
                                      "fault29", "archive", "health"} : Leaf(k, b)
  /\ \A b \in UpgradeRehearsals : Leaf("upgrade", b)
  /\ \A b \in ReviewSignoffs : Leaf("signoff", b)
  /\ \A b \in HostObservations : Leaf("live", b)
  /\ \A b \in GenesisAttestations : Leaf("attest", b)
  /\ \A b \in MonitorInventories : Leaf("inventory", b)
  /\ \A b \in SignerMonitors : Leaf("monitor", b)
<1> USE DEF Leaf, Leaves, Unnamed, Naming
<1>1. \A b \in UpgradePlans : Leaf("plan", b)
  BY DEF UpgradePlans
<1>2. \A b \in GovernancePolicies : Leaf("policy", b)
  BY DEF GovernancePolicies
<1>3. \A b \in EconomicsFreezes : Leaf("economics", b)
  BY DEF EconomicsFreezes
<1>4. \A b \in ExternalReviews : Leaf("review", b)
  BY DEF ExternalReviews
<1>5. \A b \in ReleaseApprovals : Leaf("approval", b)
  BY DEF ReleaseApprovals
<1>6. \A b \in OfCandidate : \A k \in {"runbook", "cutover", "slo", "drill", "risk", "repro",
                                       "fault29", "archive", "health"} : Leaf(k, b)
  BY DEF OfCandidate
<1>7. \A b \in UpgradeRehearsals : Leaf("upgrade", b)
  BY DEF UpgradeRehearsals
<1>8. \A b \in ReviewSignoffs : Leaf("signoff", b)
  BY DEF ReviewSignoffs
<1>9. \A b \in HostObservations : Leaf("live", b)
  BY DEF HostObservations
<1>10. \A b \in GenesisAttestations : Leaf("attest", b)
  BY DEF GenesisAttestations
<1>11. \A b \in MonitorInventories : Leaf("inventory", b)
  BY DEF MonitorInventories
<1>12. \A b \in SignerMonitors : Leaf("monitor", b)
  BY DEF SignerMonitors
<1> HIDE DEF Leaf, Leaves, Unnamed, Naming
<1> QED BY <1>1, <1>2, <1>3, <1>4, <1>5, <1>6, <1>7, <1>8, <1>9, <1>10, <1>11, <1>12

LEMMA Leaves34 ==
  /\ \A b \in BenchmarkRecords : Leaf("bench", b)
  /\ \A b \in PowHosts : Leaf("powhost", b)
  /\ \A b \in Convergences : Leaf("convergence", b)
  /\ \A b \in PowSoaks : Leaf("powsoak", b)
  /\ \A b \in PowFaults : Leaf("powfault", b)
  /\ \A b \in CampaignSummaries : Leaf("campaign", b)
  /\ \A b \in UndoRehearsals : Leaf("rehearsal36", b)
  /\ \A b \in DeploymentPlans : Leaf("deployment", b)
  /\ \A b \in PayoutPolicies : Leaf("payoutpolicy", b)
<1> USE DEF Leaf, Leaves, Unnamed, Naming
<1>1. \A b \in BenchmarkRecords : Leaf("bench", b)
  BY DEF BenchmarkRecords
<1>2. \A b \in PowHosts : Leaf("powhost", b)
  BY DEF PowHosts
<1>3. \A b \in Convergences : Leaf("convergence", b)
  BY DEF Convergences
<1>4. \A b \in PowSoaks : Leaf("powsoak", b)
  BY DEF PowSoaks
<1>5. \A b \in PowFaults : Leaf("powfault", b)
  BY DEF PowFaults
<1>6. \A b \in CampaignSummaries : Leaf("campaign", b)
  BY DEF CampaignSummaries
<1>7. \A b \in UndoRehearsals : Leaf("rehearsal36", b)
  BY DEF UndoRehearsals
<1>8. \A b \in DeploymentPlans : Leaf("deployment", b)
  BY DEF DeploymentPlans
<1>9. \A b \in PayoutPolicies : Leaf("payoutpolicy", b)
  BY DEF PayoutPolicies
<1> HIDE DEF Leaf, Leaves, Unnamed, Naming
<1> QED BY <1>1, <1>2, <1>3, <1>4, <1>5, <1>6, <1>7, <1>8, <1>9

\* Most kinds are not compared in some way.
LEMMA Uncompared ==
  /\ \A k, b : Backed(k, b) \/ k \in {"remediation", "finalgate", "rehearsal", "freeze",
                                      "cluster", "ceremony", "soak29", "reviewgate",
                                      "reviewfreeze"}
  /\ \A k, b : Compared(k, b) \/ k \in {"algorithm", "powgate", "powfreeze", "handoff",
                                        "algoreview", "powbundle"}
  /\ \A k, b : Agreeing(k, b) \/ k \in LaunchKinds
BY DEF Backed, Compared, Agreeing

\* What is known of the files that a command reads.
LEMMA ReadFacts ==
  ASSUME CampaignInv, NEW kind, NEW q \in RefsOf(kind)
  PROVE  /\ q \in AllRefs /\ KindOf(q) = kind
         /\ WellNamed(kind, Body(q)) /\ Agreeing(kind, Body(q))
         /\ Backed(kind, Body(q)) /\ Compared(kind, Body(q))
         /\ kind \in Unnamed => "id" \notin DOMAIN Body(q)
         /\ kind \in Deciding => "ok" \in DOMAIN Body(q)
BY RefFacts DEF CampaignInv, Fitting, WellNamed

LEMMA RemediationFits ==
  ASSUME CampaignInv, NEW commit, NEW genesis, NEW register \in RefsOf("register"),
         NEW retests \in SUBSET RefsOf("retest"), NEW supply \in RefsOf("supply"),
         NEW edges \in SUBSET RefsOf("edge")
  PROVE  Fitting("remediation",
                 RemediationGate(commit, genesis, register, retests, supply, edges))
<1> DEFINE b == RemediationGate(commit, genesis, register, retests, supply, edges)
<1>1. /\ DOMAIN b = {"commit", "genesis", "ok", "of"}
      /\ b.commit = commit /\ b.of = {register, supply} \cup edges
      /\ b.ok => /\ \A f \in Findings :
                      /\ f \in Body(register).fixed
                      /\ \E r \in LatestRetest(retests, f, commit) : Body(r).ok
                 /\ Body(supply).commit = commit /\ AllSay(edges, "commit", commit)
  BY DEF RemediationGate
<1> HIDE DEF b
<1>2. \A p \in b.of : /\ p \in AllRefs
                      /\ \/ p = register /\ KindOf(p) = "register"
                         \/ p = supply /\ KindOf(p) = "supply"
                         \/ p \in edges /\ KindOf(p) = "edge"
  BY <1>1, RefFacts
<1>3. \A p \in b.of : "id" \notin DOMAIN Body(p)
  BY <1>2, ReadFacts, RefFacts DEF Unnamed
<1>4. WellNamed("remediation", b)
  BY <1>1, <1>2, InputsAre DEF WellNamed, Unnamed, Naming, Deciding
<1>5. Agreeing("remediation", b)
  BY <1>1, <1>2, <1>3 DEF Agreeing, Gates, Deciding, AllSay
<1>6. ASSUME b.ok, NEW f \in Findings
      PROVE  Retested(f, commit)
  <2>1. PICK r \in LatestRetest(retests, f, commit) : Body(r).ok
    BY <1>1, <1>6
  <2>2. r \in retests /\ r[1] = <<"retest", f>> /\ Body(r).commit = commit
    BY <2>1 DEF LatestRetest
  <2>3. r \in RefsOf("retest") /\ r[1][2] = f
    BY <2>2
  <2> QED BY <2>1, <2>2, <2>3 DEF Retested
<1>7. b.ok => Remedied(b)
  BY <1>1, <1>2, <1>6 DEF Remedied
<1>8. Backed("remediation", b)
  BY <1>7 DEF Backed
<1> QED BY <1>4, <1>5, <1>8, Uncompared DEF Fitting, b

LEMMA ReviewGateFits ==
  ASSUME CampaignInv, NEW readiness, NEW incident, NEW hosts \in SUBSET RefsOf("host")
  PROVE  Fitting("reviewgate", ReviewGate(readiness, hosts, incident))
<1> DEFINE b == ReviewGate(readiness, hosts, incident)
<1>1. /\ DOMAIN b = {"ok", "commit", "genesis"}
      /\ b.commit = One(Values(hosts, "commit")) /\ b.genesis = One(Values(hosts, "genesis"))
      /\ b.ok => /\ Cardinality(hosts) >= MinHosts
                 /\ Cardinality(Values(hosts, "who")) = Cardinality(hosts)
                 /\ Cardinality(Values(hosts, "key")) = Cardinality(hosts)
                 /\ Cardinality(Values(hosts, "provider")) >= 2
                 /\ AllSay(hosts, "ok", TRUE)
                 /\ Cardinality(Values(hosts, "commit")) = 1
                 /\ Cardinality(Values(hosts, "genesis")) = 1
  BY DEF ReviewGate
<1> HIDE DEF b
<1>2. hosts \subseteq AllRefs
  BY RefFacts
<1>3. \A field : Cardinality(Values(hosts, field)) = 1
                  => AllSay(hosts, field, One(Values(hosts, field)))
  BY <1>2, OneSays
<1>4. ASSUME b.ok
      PROVE  HostsBehind(b)
  <2>1. Holders(hosts, MinHosts)
    BY <1>1, <1>4 DEF Holders, Passed, AllSay
  <2>2. AllSay(hosts, "commit", b.commit) /\ AllSay(hosts, "genesis", b.genesis)
    BY <1>1, <1>3, <1>4
  <2> QED BY <1>1, <1>4, <2>1, <2>2 DEF HostsBehind
<1>5. WellNamed("reviewgate", b)
  BY <1>1 DEF WellNamed, Unnamed, Naming, Deciding, Gates, Inputs
<1>6. Agreeing("reviewgate", b)
  BY <1>1 DEF Agreeing
<1>7. Backed("reviewgate", b)
  BY <1>4 DEF Backed
<1> QED BY <1>5, <1>6, <1>7, Uncompared DEF Fitting, b

LEMMA ReviewFreezeFits ==
  ASSUME CampaignInv, NEW gate \in RefsOf("reviewgate"), NEW b \in ReviewFreezes(gate)
  PROVE  Fitting("reviewfreeze", b)
<1>1. /\ DOMAIN b = {"commit", "genesis", "of"} /\ b.of = {gate} /\ Body(gate).ok
      /\ b.commit = Body(gate).commit /\ b.genesis = Body(gate).genesis
  BY DEF ReviewFreezes
<1>2. gate \in AllRefs /\ KindOf(gate) = "reviewgate" /\ Backed("reviewgate", Body(gate))
  BY ReadFacts
<1>3. HostsBehind(b)
  BY <1>1, <1>2 DEF Backed, HostsBehind
<1>4. WellNamed("reviewfreeze", b)
  BY <1>1, <1>2, InputsAre DEF WellNamed, Unnamed, Naming, Deciding, Gates, LaunchKinds
<1>5. Agreeing("reviewfreeze", b)
  BY Uncompared DEF LaunchKinds, Unnamed, Naming
<1>6. Backed("reviewfreeze", b)
  BY <1>3 DEF Backed
<1> QED BY <1>4, <1>5, <1>6, Uncompared DEF Fitting

LEMMA RefreezeFits ==
  ASSUME CampaignInv, NEW gate \in RefsOf("remediation"), NEW b \in Refreezes(gate)
  PROVE  Fitting("refreeze", b)
<1>1. DOMAIN b = {"commit", "genesis", "of"} /\ b.of = {gate}
  BY DEF Refreezes
<1>2. gate \in AllRefs /\ KindOf(gate) = "remediation"
  BY ReadFacts
<1>3. WellNamed("refreeze", b)
  BY <1>1, <1>2, InputsAre DEF WellNamed, Unnamed, Naming, Deciding, Gates, LaunchKinds
<1>4. Agreeing("refreeze", b)
  BY Uncompared DEF LaunchKinds, Unnamed, Naming
<1> QED BY <1>3, <1>4, Uncompared DEF Fitting

LEMMA First == \A k, n : <<k, n>>[1] = k
OBVIOUS

LEMMA IdentityFits ==
  ASSUME CampaignInv, NEW pick \in OneOfEach(IdentitySlots), SameCandidate(pick)
  PROVE  Fitting("identity", Identity(pick))
<1> DEFINE b == Identity(pick)
           gate == pick[<<"remediation", "">>]
           reviews == {pick[<<"review", kind>>] : kind \in ReviewKinds}
<1>1. DOMAIN b = {"commit", "genesis", "of"} /\ b.commit = Body(gate).commit
      /\ b.of = Chosen(pick)
  BY DEF Identity
<1>2. /\ AllSay(reviews \cup {pick[<<"economics", "">>], pick[<<"policy", "">>],
                              pick[<<"plan", "">>]}, "commit", Body(gate).commit)
  BY DEF SameCandidate
<1>3. DOMAIN pick = IdentitySlots
      /\ \A s \in IdentitySlots : pick[s] \in AllRefs /\ KindOf(pick[s]) = s[1]
  BY PickFacts
<1> HIDE DEF b
<1>4. ASSUME NEW p \in b.of
      PROVE  /\ p \in AllRefs
             /\ \/ p = gate /\ KindOf(p) = "remediation"
                \/ KindOf(p) = "readiness"
                \/ /\ KindOf(p) \in {"policy", "economics", "plan", "review"}
                   /\ Body(p).commit = Body(gate).commit
  <2>1. PICK s \in IdentitySlots : p = pick[s]
    BY <1>1, <1>3 DEF Chosen
  <2>2. p \in AllRefs /\ KindOf(p) = s[1]
    BY <2>1, <1>3
  <2>3. \/ s \in {<<"readiness", "">>, <<"remediation", "">>}
        \/ s \in {<<"policy", "">>, <<"economics", "">>, <<"plan", "">>}
        \/ \E kind \in ReviewKinds : s = <<"review", kind>>
    BY DEF IdentitySlots
  <2>4. CASE s \in {<<"readiness", "">>, <<"remediation", "">>}
    <3>1. s = <<"readiness", "">> => s[1] = "readiness"
      BY First
    <3>2. s = <<"remediation", "">> => s[1] = "remediation"
      BY First
    <3>3. s = <<"remediation", "">> => p = gate
      BY <2>1
    <3> HIDE DEF gate
    <3> QED BY <2>2, <2>4, <3>1, <3>3, <3>2
  <2>5. CASE s \in {<<"policy", "">>, <<"economics", "">>, <<"plan", "">>}
    <3>1. s[1] \in {"policy", "economics", "plan"}
      BY <2>5, First
    <3>2. p \in {pick[<<"economics", "">>], pick[<<"policy", "">>], pick[<<"plan", "">>]}
      BY <2>1, <2>5
    <3>3. \A r \in {pick[<<"economics", "">>], pick[<<"policy", "">>], pick[<<"plan", "">>]} :
            Body(r).commit = Body(gate).commit
      <4> HIDE DEF reviews, gate
      <4> QED BY <1>2 DEF AllSay
    <3> HIDE DEF reviews, gate
    <3> QED BY <2>2, <3>1, <3>2, <3>3
  <2>6. CASE \E kind \in ReviewKinds : s = <<"review", kind>>
    <3>1. p \in reviews /\ KindOf(p) = "review"
      BY <2>1, <2>2, <2>6
    <3> HIDE DEF reviews
    <3> QED BY <1>2, <2>2, <3>1 DEF AllSay
  <2> QED BY <2>3, <2>4, <2>5, <2>6
<1> HIDE DEF reviews, gate
<1>5. ASSUME NEW p \in b.of
      PROVE  /\ KindOf(p) \in Inputs("identity")
             /\ "id" \notin DOMAIN Body(p)
             /\ KindOf(p) = "readiness" => "commit" \notin DOMAIN Body(p)
             /\ KindOf(p) \notin Gates
  <2>1. KindOf(p) \in Inputs("identity")
    BY <1>4, InputsAre
  <2>2. KindOf(p) \in Unnamed /\ KindOf(p) \notin Gates
    BY <1>4 DEF Unnamed, Gates
  <2>3. WellNamed(KindOf(p), Body(p))
    BY <1>4 DEF CampaignInv, Fitting
  <2> QED BY <2>1, <2>2, <2>3 DEF WellNamed
<1>6. WellNamed("identity", b)
  BY <1>1, <1>4, <1>5 DEF WellNamed, Unnamed, Naming, Deciding, Gates
<1>7. Agreeing("identity", b)
  BY <1>1, <1>4, <1>5 DEF Agreeing
<1> QED BY <1>6, <1>7, Uncompared DEF Fitting, b

LEMMA FinalGateFits ==
  ASSUME CampaignInv, NEW identity \in RefsOf("identity"),
         NEW approvals \in SUBSET RefsOf("approval"), NEW b \in FinalGates(identity, approvals)
  PROVE  Fitting("finalgate", b)
<1>1. b = [commit |-> Body(identity).commit, id |-> identity,
           ok |-> /\ Passed(Body(identity).of)
                  /\ Cardinality(approvals) >= MinApprovals
                  /\ Cardinality(Values(approvals, "key")) = Cardinality(approvals)
                  /\ Cardinality(Values(approvals, "who")) = Cardinality(approvals)
                  /\ AllSay(approvals, "ok", TRUE),
           of |-> {identity} \cup approvals]
      /\ AllSay(approvals, "id", identity)
      /\ AllSay(approvals, "commit", Body(identity).commit)
  BY DEF FinalGates
<1>2. /\ DOMAIN b = {"commit", "id", "ok", "of"}
      /\ b.commit = Body(identity).commit /\ b.id = identity
      /\ b.of = {identity} \cup approvals
      /\ b.ok => /\ Passed(Body(identity).of)
                 /\ Cardinality(approvals) >= MinApprovals
                 /\ Cardinality(Values(approvals, "key")) = Cardinality(approvals)
                 /\ Cardinality(Values(approvals, "who")) = Cardinality(approvals)
                 /\ AllSay(approvals, "ok", TRUE)
      /\ AllSay(approvals, "id", identity)
      /\ AllSay(approvals, "commit", Body(identity).commit)
  BY <1>1
<1>3. ASSUME NEW p \in b.of
      PROVE  /\ p \in AllRefs
             /\ \/ p = identity /\ KindOf(p) = "identity" /\ "id" \notin DOMAIN Body(p)
                \/ p \in approvals /\ KindOf(p) = "approval"
  BY <1>2, ReadFacts DEF Unnamed
<1>4. WellNamed("finalgate", b)
  BY <1>2, <1>3, InputsAre DEF WellNamed, Unnamed
<1>5. Agreeing("finalgate", b)
  BY <1>2, <1>3 DEF Agreeing, AllSay, Gates
<1>6. approvals \subseteq b.of /\ \A p \in b.of : p \in approvals <=> KindOf(p) = "approval"
  BY <1>2, <1>3, ReadFacts
<1>7. Kind(b.of, "approval") = approvals
  BY <1>6 DEF Kind, KindOf
<1>8. b.ok => ApprovedByHolders(b)
  <2>1. ASSUME b.ok
        PROVE  Holders(approvals, MinApprovals)
    BY <1>2, <2>1 DEF Holders, Passed, AllSay
  <2>2. ASSUME b.ok, NEW p \in b.of, KindOf(p) = "identity"
        PROVE  Passed(Body(p).of)
    <3>1. p = identity
      BY <1>3, <2>2
    <3> QED BY <1>2, <2>2, <3>1
  <2> QED BY <1>7, <2>1, <2>2 DEF ApprovedByHolders
<1>9. Backed("finalgate", b)
  BY <1>8 DEF Backed
<1> QED BY <1>4, <1>5, <1>9, Uncompared DEF Fitting

LEMMA ReportFits ==
  ASSUME CampaignInv, NEW gate \in RefsOf("finalgate"), NEW b \in FinalReports(gate)
  PROVE  Fitting("report", b)
<1>1. /\ DOMAIN b = {"commit", "id", "of"} /\ b.of = {gate} /\ Body(gate).ok
      /\ b.commit = Body(gate).commit /\ b.id = Body(gate).id
  BY DEF FinalReports
<1>2. gate \in AllRefs /\ KindOf(gate) = "finalgate"
  BY ReadFacts
<1>3. WellNamed("report", b)
  BY <1>1, <1>2, InputsAre DEF WellNamed, Unnamed, Deciding, Gates
<1>4. Agreeing("report", b)
  BY <1>1, <1>2 DEF Agreeing
<1> QED BY <1>3, <1>4, Uncompared DEF Fitting

\* What was chosen, and the kinds of it.
LEMMA ChosenFacts ==
  ASSUME NEW slots, NEW pick \in OneOfEach(slots)
  PROVE  \A p \in Chosen(pick) : p \in AllRefs /\ \E s \in slots : KindOf(p) = s[1]
<1>1. DOMAIN pick = slots
      /\ \A s \in slots : pick[s] \in AllRefs /\ KindOf(pick[s]) = s[1]
  BY PickFacts
<1> QED BY <1>1 DEF Chosen

LEMMA RehearsalFits ==
  ASSUME CampaignInv, NEW final \in RefsOf("report"), NEW core, core \subseteq AllRefs,
         \A p \in core : KindOf(p) \in {"runbook", "cutover", "drill", "upgrade", "risk",
                                        "repro"},
         NEW slos \in SUBSET RefsOf("slo"), NEW signoffs \in SUBSET RefsOf("signoff"),
         NEW strict, NEW paired
  PROVE  Fitting("rehearsal", RehearsalGate(final, core, slos, signoffs, strict, paired))
<1> DEFINE b == RehearsalGate(final, core, slos, signoffs, strict, paired)
           rest == core \cup slos \cup signoffs
<1>1. /\ DOMAIN b = {"commit", "id", "strict", "paired", "ok", "of"}
      /\ b.commit = Body(final).commit /\ b.id = Body(final).id /\ b.strict = strict
      /\ b.of = {final} \cup core \cup slos \cup signoffs
      /\ b.ok => /\ Matches(rest, Body(final)) /\ Passed(rest)
                 /\ AllSay(signoffs, "subject", final)
                 /\ Scopes \subseteq Values(signoffs, "who")
                 /\ strict => Cardinality(Values(signoffs, "key")) >= MinApprovals
  BY DEF RehearsalGate
<1>2. b.ok => \A p \in rest : /\ Body(p).commit = b.commit /\ Body(p).id = b.id
  <2> HIDE DEF b, rest
  <2> QED BY <1>1 DEF Matches, AllSay
<1> HIDE DEF b
<1>3. ASSUME NEW p \in b.of
      PROVE  /\ p \in AllRefs
             /\ \/ p = final /\ KindOf(p) = "report"
                \/ p \in rest /\ KindOf(p) \in {"runbook", "cutover", "drill", "upgrade",
                                                "risk", "repro", "slo"}
                \/ p \in rest /\ p \in signoffs /\ KindOf(p) = "signoff"
  BY <1>1, RefFacts
<1>4. signoffs \subseteq rest /\ rest \subseteq b.of
  BY <1>1
<1> HIDE DEF rest
<1>5. WellNamed("rehearsal", b)
  BY <1>1, <1>3, InputsAre DEF WellNamed, Unnamed
<1>6. Agreeing("rehearsal", b)
  BY <1>1, <1>2, <1>3 DEF Agreeing, Gates, Deciding
<1>7. Kind(b.of, "signoff") = signoffs
  <2>1. \A p \in b.of : p \in signoffs <=> KindOf(p) = "signoff"
    BY <1>3, RefFacts
  <2> QED BY <1>4, <2>1 DEF Kind, KindOf
<1>8. ASSUME b.ok
      PROVE  SignedOff(b)
  <2>1. Passed(signoffs)
    BY <1>1, <1>4, <1>8 DEF Passed
  <2>2. \A s \in signoffs : Body(s).subject \in b.of
    BY <1>1, <1>8 DEF AllSay
  <2> QED BY <1>1, <1>7, <1>8, <2>1, <2>2 DEF SignedOff
<1>9. Backed("rehearsal", b)
  BY <1>8 DEF Backed
<1> QED BY <1>5, <1>6, <1>9, Uncompared DEF Fitting, b

LEMMA FreezeFits ==
  ASSUME CampaignInv, NEW gate \in RefsOf("rehearsal"), NEW b \in ReleaseFreezes(gate)
  PROVE  Fitting("freeze", b)
<1>1. /\ DOMAIN b = {"commit", "id", "of"} /\ b.of = {gate} /\ Body(gate).ok
      /\ b.commit = Body(gate).commit /\ b.id = Body(gate).id
  BY DEF ReleaseFreezes
<1>2. gate \in AllRefs /\ KindOf(gate) = "rehearsal"
  BY ReadFacts
<1>3. WellNamed("freeze", b)
  BY <1>1, <1>2, InputsAre DEF WellNamed, Unnamed, Deciding, Gates
<1>4. Agreeing("freeze", b)
  BY <1>1, <1>2 DEF Agreeing
<1>5. Backed("freeze", b)
  BY <1>1 DEF Backed
<1> QED BY <1>3, <1>4, <1>5, Uncompared DEF Fitting

LEMMA DecisionFits ==
  ASSUME CampaignInv, NEW freeze \in RefsOf("freeze"), NEW b \in LaunchDecisions(freeze)
  PROVE  Fitting("decision", b)
<1>1. /\ DOMAIN b = {"commit", "id", "ok", "of"} /\ b.of = {freeze}
      /\ b.commit = Body(freeze).commit /\ b.id = Body(freeze).id
  BY DEF LaunchDecisions
<1>2. freeze \in AllRefs /\ KindOf(freeze) = "freeze"
  BY ReadFacts
<1>3. WellNamed("decision", b)
  BY <1>1, <1>2, InputsAre DEF WellNamed, Unnamed
<1>4. Agreeing("decision", b)
  BY <1>1, <1>2 DEF Agreeing, Gates
<1> QED BY <1>3, <1>4, Uncompared DEF Fitting

\* All of one network agree with the first.
LEMMA NetworkFacts ==
  ASSUME CampaignInv, NEW S, S \subseteq AllRefs, SameNetwork(S), NEW first \in S
  PROVE  \A r \in S : Body(r).commit = Body(first).commit /\ Body(r).id = Body(first).id
<1>1. Cardinality(Values(S, "commit")) = 1 /\ Cardinality(Values(S, "id")) = 1
  BY DEF SameNetwork
<1>2. \A r, q \in S : Body(r)["commit"] = Body(q)["commit"]
  BY <1>1, OneValue
<1>3. \A r, q \in S : Body(r)["id"] = Body(q)["id"]
  BY <1>1, OneValue
<1> QED BY <1>2, <1>3

ClusterOf(hosts, first, same) ==
  [commit |-> Body(first).commit, genesis |-> Body(first).genesis,
  id |-> Body(first).id, same |-> same,
  ok |-> /\ AllSay(hosts, "ok", TRUE)
         /\ SameNetwork(hosts)
         /\ Distinct(hosts, "who") /\ Distinct(hosts, "key")
         /\ Cardinality(Values(hosts, "who")) = Cardinality(hosts)
         /\ Cardinality(Values(hosts, "provider")) >= 2
         /\ same
         /\ Cardinality(Values(hosts, "hash")) = 1,
  split |-> Cardinality(Values(hosts, "hash")) > 1,
  of |-> hosts]

LEMMA ClusterFits ==
  ASSUME CampaignInv, NEW hosts \in SUBSET RefsOf("live"), NEW b \in ClusterObservations(hosts)
  PROVE  Fitting("cluster", b)
<1>1. ClusterObservations(hosts)
        = {ClusterOf(hosts, first, same) : first \in {h \in hosts : Cardinality(hosts) >= MinHosts},
                     same \in BOOLEAN}
  BY DEF ClusterObservations, ClusterOf
<1>2. PICK first \in hosts, same \in BOOLEAN : b = ClusterOf(hosts, first, same)
  BY <1>1
<1>3. /\ DOMAIN b = {"commit", "genesis", "id", "same", "ok", "split", "of"}
      /\ b.commit = Body(first).commit /\ b.id = Body(first).id /\ b.of = hosts
      /\ b.ok => /\ AllSay(hosts, "ok", TRUE) /\ SameNetwork(hosts)
                 /\ Distinct(hosts, "who") /\ Distinct(hosts, "key")
      /\ b.split = (Cardinality(Values(hosts, "hash")) > 1)
      /\ b.ok => Cardinality(Values(hosts, "hash")) = 1
  BY <1>2 DEF ClusterOf
<1>4. hosts \subseteq AllRefs /\ \A p \in hosts : KindOf(p) = "live"
  BY RefFacts
<1>5. WellNamed("cluster", b)
  BY <1>3, <1>4, InputsAre DEF WellNamed, Unnamed
<1>6. b.ok => \A p \in hosts : Body(p).commit = b.commit /\ Body(p).id = b.id
  BY <1>3, <1>4, NetworkFacts
<1>7. Agreeing("cluster", b)
  BY <1>3, <1>4, <1>6 DEF Agreeing, Gates, Deciding
<1>8. b.ok => OneNetwork(b)
  BY <1>3 DEF OneNetwork, Holders, Passed, AllSay, Distinct
<1>9. b.ok => b.split = FALSE
  <2> DEFINE n == Cardinality(Values(hosts, "hash"))
  <2>1. (b.split = (n > 1)) /\ (b.ok => n = 1)
    BY <1>3
  <2> HIDE DEF n
  <2>2. n = 1 => (n > 1) = FALSE
    OBVIOUS
  <2> QED BY <2>1, <2>2
<1>10. Backed("cluster", b)
  BY <1>8, <1>9 DEF Backed
<1> QED BY <1>5, <1>7, <1>10, Uncompared DEF Fitting

LEMMA CeremonyFits ==
  ASSUME CampaignInv, NEW attestations \in SUBSET RefsOf("attest"),
         NEW b \in GenesisCeremonies(attestations)
  PROVE  Fitting("ceremony", b)
<1>1. PICK first \in attestations :
        b = [commit |-> Body(first).commit, genesis |-> Body(first).genesis,
             id |-> Body(first).id,
             ok |-> /\ SameNetwork(attestations)
                    /\ Distinct(attestations, "who") /\ Distinct(attestations, "key")
                    /\ Cardinality(Values(attestations, "who")) = Cardinality(attestations)
                    /\ AllSay(attestations, "ok", TRUE),
             of |-> attestations]
  BY DEF GenesisCeremonies
<1>2. /\ DOMAIN b = {"commit", "genesis", "id", "ok", "of"}
      /\ b.commit = Body(first).commit /\ b.id = Body(first).id /\ b.of = attestations
      /\ b.ok => /\ AllSay(attestations, "ok", TRUE) /\ SameNetwork(attestations)
                 /\ Distinct(attestations, "who") /\ Distinct(attestations, "key")
  BY <1>1
<1>3. attestations \subseteq AllRefs /\ \A p \in attestations : KindOf(p) = "attest"
  BY RefFacts
<1>4. WellNamed("ceremony", b)
  BY <1>2, <1>3, InputsAre DEF WellNamed, Unnamed
<1>5. b.ok => \A p \in attestations : Body(p).commit = b.commit /\ Body(p).id = b.id
  BY <1>2, <1>3, NetworkFacts
<1>6. Agreeing("ceremony", b)
  BY <1>2, <1>3, <1>5 DEF Agreeing, Gates, Deciding
<1>7. b.ok => OneNetwork(b)
  BY <1>2 DEF OneNetwork, Holders, Passed, AllSay, Distinct
<1>8. Backed("ceremony", b)
  BY <1>7 DEF Backed
<1> QED BY <1>4, <1>6, <1>8, Uncompared DEF Fitting

SoakOf(taken, first, long) ==
  [commit |-> Body(first).commit, genesis |-> Body(first).genesis,
  id |-> Body(first).id, same |-> long,
  ok |-> /\ SameNetwork(taken) /\ long
         /\ MostPassed(taken) /\ AllSay(taken, "split", FALSE),
  of |-> taken]

LEMMA SoakFits ==
  ASSUME CampaignInv, NEW taken \in SUBSET RefsOf("cluster"), NEW b \in SoakEvidence(taken)
  PROVE  Fitting("soak29", b)
<1>1. SoakEvidence(taken)
        = {SoakOf(taken, first, long) : first \in {s \in taken : Cardinality(taken) >= 2},
                     long \in BOOLEAN}
  BY DEF SoakEvidence, SoakOf
<1>2. PICK first \in taken, long \in BOOLEAN : b = SoakOf(taken, first, long)
  BY <1>1
<1>3. /\ DOMAIN b = {"commit", "genesis", "id", "same", "ok", "of"}
      /\ b.commit = Body(first).commit /\ b.id = Body(first).id /\ b.of = taken
      /\ b.ok => SameNetwork(taken) /\ Soaked(b)
  BY <1>2 DEF SoakOf, Soaked
<1>4. taken \subseteq AllRefs /\ \A p \in taken : KindOf(p) = "cluster"
  BY RefFacts
<1>5. WellNamed("soak29", b)
  BY <1>3, <1>4, InputsAre DEF WellNamed, Unnamed
<1>6. b.ok => \A p \in taken : Body(p).commit = b.commit /\ Body(p).id = b.id
  BY <1>3, <1>4, NetworkFacts
<1>7. Agreeing("soak29", b)
  BY <1>3, <1>4, <1>6 DEF Agreeing, Gates, Deciding
<1>8. Backed("soak29", b)
  BY <1>3 DEF Backed
<1> QED BY <1>5, <1>7, <1>8, Uncompared DEF Fitting

LEMMA RealFits ==
  ASSUME CampaignInv, NEW freeze \in RefsOf("freeze"), NEW rehearsal \in RefsOf("rehearsal"),
         NEW cluster \in RefsOf("cluster"), NEW ceremony \in RefsOf("ceremony"),
         NEW soak \in RefsOf("soak29"), NEW done \in SUBSET RefsOf("fault29"),
         NEW b \in RealGates(freeze, rehearsal, cluster, ceremony, soak, done)
  PROVE  Fitting("real", b)
<1>1. /\ DOMAIN b = {"commit", "id", "ok", "of"}
      /\ b.commit = Body(freeze).commit /\ b.id = Body(freeze).id
      /\ b.of = {freeze, rehearsal, cluster, ceremony, soak} \cup done
      /\ b.ok => /\ Matches({cluster, ceremony, soak} \cup done, Body(freeze))
                 /\ Passed({cluster, ceremony, soak})
      /\ Body(rehearsal).ok /\ Body(freeze).of = {rehearsal}
  BY DEF RealGates
<1>2. ASSUME NEW p \in b.of
      PROVE  /\ p \in AllRefs
             /\ \/ p = freeze /\ KindOf(p) = "freeze"
                \/ p = rehearsal /\ KindOf(p) = "rehearsal"
                \/ p = cluster /\ KindOf(p) = "cluster"
                \/ p = ceremony /\ KindOf(p) = "ceremony"
                \/ p = soak /\ KindOf(p) = "soak29"
                \/ p \in done /\ KindOf(p) = "fault29"
  BY <1>1, RefFacts
<1>3. WellNamed("real", b)
  BY <1>1, <1>2, InputsAre DEF WellNamed, Unnamed
<1>4. b.ok => \A p \in {cluster, ceremony, soak} \cup done :
                Body(p).commit = b.commit /\ Body(p).id = b.id
  BY <1>1 DEF Matches, AllSay
<1>5. b.ok => \A p \in {cluster, ceremony, soak} : Body(p).ok
  <2>1. \A p \in {cluster, ceremony, soak} : "ok" \in DOMAIN Body(p)
    BY ReadFacts DEF Deciding, Gates
  <2> QED BY <1>1, <2>1 DEF Passed
<1>6. /\ "commit" \in DOMAIN Body(rehearsal) => Body(rehearsal).commit = b.commit
      /\ "id" \in DOMAIN Body(rehearsal) => Body(rehearsal).id = b.id
  <2>1. WellNamed("freeze", Body(freeze)) /\ Agreeing("freeze", Body(freeze))
    BY ReadFacts
  <2>2. "of" \in DOMAIN Body(freeze) /\ "freeze" \in LaunchKinds /\ "freeze" \notin Deciding
    BY <2>1, InputsAre DEF WellNamed, LaunchKinds, Naming, Deciding, Gates
  <2>3. KindOf(rehearsal) # "register"
    BY ReadFacts
  <2> QED BY <1>1, <2>1, <2>2, <2>3 DEF Agreeing
<1>7. Agreeing("real", b)
  <2>1. SUFFICES ASSUME b.ok, NEW p \in b.of
                 PROVE  /\ "commit" \in DOMAIN Body(p) => Body(p).commit = b.commit
                        /\ "id" \in DOMAIN Body(p) => Body(p).id = b.id
                        /\ KindOf(p) \in Gates => Body(p).ok
    BY <1>1 DEF Agreeing, Deciding, Gates
  <2>2. p = freeze \/ p = rehearsal \/ p \in {cluster, ceremony, soak} \/ p \in done
    BY <1>2
  <2>3. CASE p = freeze
    <3>1. KindOf(p) \notin Gates
      BY <2>3, ReadFacts DEF Gates
    <3> QED BY <1>1, <2>3, <3>1
  <2>4. CASE p = rehearsal
    BY <1>1, <1>6, <2>4
  <2>5. CASE p \in {cluster, ceremony, soak}
    BY <1>4, <1>5, <2>1, <2>5
  <2>6. CASE p \in done
    <3>1. KindOf(p) \notin Gates
      BY <2>6, ReadFacts DEF Gates
    <3> QED BY <1>4, <2>1, <2>6, <3>1
  <2> QED BY <2>2, <2>3, <2>4, <2>5, <2>6
<1> QED BY <1>3, <1>7, Uncompared DEF Fitting

LEMMA RealFreezeFits ==
  ASSUME CampaignInv, NEW gate \in RefsOf("real"), NEW b \in RealFreezes(gate)
  PROVE  Fitting("realfreeze", b)
<1>1. /\ DOMAIN b = {"commit", "id", "of"} /\ b.of = {gate} /\ Body(gate).ok
      /\ b.commit = Body(gate).commit /\ b.id = Body(gate).id
  BY DEF RealFreezes
<1>2. gate \in AllRefs /\ KindOf(gate) = "real"
  BY ReadFacts
<1>3. WellNamed("realfreeze", b)
  BY <1>1, <1>2, InputsAre DEF WellNamed, Unnamed, Deciding, Gates
<1>4. Agreeing("realfreeze", b)
  BY <1>1, <1>2 DEF Agreeing
<1> QED BY <1>3, <1>4, Uncompared DEF Fitting

LEMMA CheckpointFits ==
  ASSUME CampaignInv, NEW inventory \in RefsOf("inventory"),
         NEW b \in MonitorCheckpoints(inventory)
  PROVE  Fitting("checkpoint", b)
<1>1. /\ DOMAIN b = {"commit", "genesis", "id", "ok", "of"} /\ b.of = {inventory}
      /\ b.commit = Body(inventory).commit /\ b.id = Body(inventory).id
  BY DEF MonitorCheckpoints
<1>2. inventory \in AllRefs /\ KindOf(inventory) = "inventory"
  BY ReadFacts
<1>3. WellNamed("checkpoint", b)
  BY <1>1, <1>2, InputsAre DEF WellNamed, Unnamed
<1>4. Agreeing("checkpoint", b)
  BY <1>1, <1>2 DEF Agreeing, Gates
<1> QED BY <1>3, <1>4, Uncompared DEF Fitting

LEMMA EdgeGateFits ==
  ASSUME CampaignInv, NEW records \in SUBSET RefsOf("health"),
         NEW b \in EdgeRedundancyGates(records)
  PROVE  Fitting("edgegate", b)
<1>1. PICK first \in records :
        /\ DOMAIN b = {"commit", "id", "ok", "of"} /\ b.of = records
        /\ b.commit = Body(first).commit /\ b.id = Body(first).id
        /\ Cardinality(Values(records, "commit")) = 1
        /\ Cardinality(Values(records, "id")) = 1
  BY DEF EdgeRedundancyGates
<1>2. records \subseteq AllRefs /\ \A p \in records : KindOf(p) = "health"
  BY RefFacts
<1>3. WellNamed("edgegate", b)
  BY <1>1, <1>2, InputsAre DEF WellNamed, Unnamed
<1>4. \A r, q \in records : Body(r)["commit"] = Body(q)["commit"]
  BY <1>1, <1>2, OneValue
<1>5. \A r, q \in records : Body(r)["id"] = Body(q)["id"]
  BY <1>1, <1>2, OneValue
<1>6. Agreeing("edgegate", b)
  BY <1>1, <1>2, <1>4, <1>5 DEF Agreeing, Gates
<1> QED BY <1>3, <1>6, Uncompared DEF Fitting

LEMMA BundleFits ==
  ASSUME CampaignInv, NEW freeze \in RefsOf("realfreeze"),
         NEW point \in RefsOf("checkpoint"), NEW archive \in RefsOf("archive"),
         NEW edges \in RefsOf("edgegate"), NEW signers \in SUBSET RefsOf("monitor")
  PROVE  Fitting("bundle", EvidenceBundle(freeze, point, archive, edges, signers))
<1> DEFINE b == EvidenceBundle(freeze, point, archive, edges, signers)
           rest == {point, archive, edges} \cup signers
<1>1. /\ DOMAIN b = {"commit", "id", "ok", "of"}
      /\ b.commit = Body(freeze).commit /\ b.id = Body(freeze).id
      /\ b.of = {freeze} \cup rest
      /\ b.ok => Matches(rest, Body(freeze)) /\ Passed(rest)
  BY DEF EvidenceBundle
<1>2. b.ok => \A p \in rest : /\ Body(p).commit = b.commit /\ Body(p).id = b.id
                              /\ "ok" \in DOMAIN Body(p) => Body(p).ok
  <2> HIDE DEF b, rest
  <2> QED BY <1>1 DEF Matches, AllSay, Passed
<1> HIDE DEF b
<1>3. ASSUME NEW p \in b.of
      PROVE  /\ p \in AllRefs
             /\ \/ p = freeze /\ KindOf(p) = "realfreeze"
                \/ p \in rest /\ KindOf(p) \in {"checkpoint", "archive", "edgegate", "monitor"}
  BY <1>1, RefFacts
<1> HIDE DEF rest
<1>4. WellNamed("bundle", b)
  BY <1>1, <1>3, InputsAre DEF WellNamed, Unnamed
<1>5. ASSUME NEW p \in b.of, KindOf(p) \in Gates
      PROVE  "ok" \in DOMAIN Body(p)
  BY <1>3, <1>5 DEF CampaignInv, Fitting, WellNamed, Deciding
<1>6. Agreeing("bundle", b)
  BY <1>1, <1>2, <1>3, <1>5 DEF Agreeing, Gates, Deciding
<1> QED BY <1>4, <1>6, Uncompared DEF Fitting, b

LEMMA ChecklistFits ==
  ASSUME CampaignInv, NEW bundle \in RefsOf("bundle"), NEW b \in OperatorChecklists(bundle)
  PROVE  Fitting("checklist", b)
<1>1. DOMAIN b = {"commit", "id", "ok", "of"} /\ b.of = {bundle}
  BY DEF OperatorChecklists
<1>2. bundle \in AllRefs /\ KindOf(bundle) = "bundle"
  BY ReadFacts
<1>3. WellNamed("checklist", b)
  BY <1>1, <1>2, InputsAre DEF WellNamed, Unnamed, Naming, LaunchKinds
<1>4. Agreeing("checklist", b)
  BY Uncompared DEF LaunchKinds, Unnamed, Naming
<1> QED BY <1>3, <1>4, Uncompared DEF Fitting

\* On the network with proof of work no file names a launch or its people.
LEMMA PowFits ==
  ASSUME NEW k \in {"benchgate", "algorithm", "powgate", "powfreeze", "activation", "handoff",
                    "algoreview", "powbundle"},
         NEW b, "of" \in DOMAIN b,
         \A p \in b.of : p \in AllRefs /\ KindOf(p) \in Inputs(k),
         Compared(k, b)
  PROVE  Fitting(k, b)
<1>1. k \notin LaunchKinds /\ k \notin Deciding /\ k # "readiness"
  BY DEF LaunchKinds, Unnamed, Naming, Deciding, Gates
<1>2. k \notin {"remediation", "finalgate", "rehearsal", "freeze", "cluster", "ceremony",
                "soak29", "reviewgate", "reviewfreeze"}
  OBVIOUS
<1>3. WellNamed(k, b)
  BY <1>1 DEF WellNamed, LaunchKinds
<1> QED BY <1>1, <1>2, <1>3, Uncompared DEF Fitting

LEMMA BenchGateFits ==
  ASSUME CampaignInv, NEW records \in SUBSET RefsOf("bench"), NEW strict
  PROVE  Fitting("benchgate", BenchmarkGate(records, strict))
<1> DEFINE b == BenchmarkGate(records, strict)
<1>1. "of" \in DOMAIN b /\ b.of = records
  BY DEF BenchmarkGate
<1> HIDE DEF b
<1>2. \A p \in b.of : p \in AllRefs /\ KindOf(p) \in Inputs("benchgate")
  BY <1>1, RefFacts, PowInputsAre
<1>3. Compared("benchgate", b)
  BY Uncompared
<1> QED BY <1>1, <1>2, <1>3, PowFits DEF b

LEMMA AlgorithmFits ==
  ASSUME CampaignInv, NEW gate \in RefsOf("benchgate"), NEW b \in AlgorithmDecisions(gate)
  PROVE  Fitting("algorithm", b)
<1>1. "of" \in DOMAIN b /\ b.of = {gate} /\ (b.choice # "hold" => Body(gate).ok)
  BY DEF AlgorithmDecisions
<1>2. \A p \in b.of : p \in AllRefs /\ KindOf(p) \in Inputs("algorithm")
  BY <1>1, RefFacts, PowInputsAre
<1>3. Compared("algorithm", b)
  BY <1>1 DEF Compared, Passed
<1> QED BY <1>1, <1>2, <1>3, PowFits

LEMMA PowGateFits ==
  ASSUME CampaignInv, NEW hosts \in SUBSET RefsOf("powhost"), NEW convergence \in RefsOf("convergence"),
         NEW soak \in RefsOf("powsoak"), NEW fault \in RefsOf("powfault"), NEW strict
  PROVE  Fitting("powgate", PowTestnetGate(hosts, convergence, soak, fault, strict))
<1> DEFINE b == PowTestnetGate(hosts, convergence, soak, fault, strict)
<1>1. /\ "of" \in DOMAIN b /\ b.of = hosts \cup {convergence, soak, fault}
      /\ b.genesis = One(Values(hosts, "genesis"))
      /\ b.ok => Cardinality(Values(hosts, "genesis")) = 1
  BY DEF PowTestnetGate
<1> HIDE DEF b
<1>2. \A p \in b.of : p \in AllRefs /\ KindOf(p) \in Inputs("powgate")
  BY <1>1, RefFacts, PowInputsAre
<1>3. \A p \in b.of : KindOf(p) = "powhost" => p \in hosts
  BY <1>1, RefFacts
<1>4. hosts \subseteq AllRefs
  BY RefFacts
<1>5. b.ok => AllSay(hosts, "genesis", b.genesis)
  BY <1>1, <1>4, OneSays
<1>6. Compared("powgate", b)
  BY <1>3, <1>5 DEF Compared, GenesisOf, AllSay
<1> QED BY <1>1, <1>2, <1>6, PowFits DEF b

LEMMA PowFreezeFits ==
  ASSUME CampaignInv, NEW gate \in RefsOf("powgate"), NEW commit, NEW b \in PowFreezes(gate, commit)
  PROVE  Fitting("powfreeze", b)
<1>1. /\ "of" \in DOMAIN b /\ b.of = {gate} /\ b.genesis = Body(gate).genesis
      /\ Body(gate).ok
  BY DEF PowFreezes
<1>2. \A p \in b.of : p \in AllRefs /\ KindOf(p) \in Inputs("powfreeze")
  BY <1>1, RefFacts, PowInputsAre
<1>3. Compared("powfreeze", b)
  BY <1>1 DEF Compared, GenesisOf
<1> QED BY <1>1, <1>2, <1>3, PowFits

LEMMA ActivationFits ==
  ASSUME CampaignInv, NEW decision \in RefsOf("algorithm"), NEW b \in ActivationProposals(decision)
  PROVE  Fitting("activation", b)
<1>1. "of" \in DOMAIN b /\ b.of = {decision}
  BY DEF ActivationProposals
<1>2. \A p \in b.of : p \in AllRefs /\ KindOf(p) \in Inputs("activation")
  BY <1>1, RefFacts, PowInputsAre
<1>3. Compared("activation", b)
  BY Uncompared
<1> QED BY <1>1, <1>2, <1>3, PowFits

LEMMA HandoffFits ==
  ASSUME CampaignInv, NEW commit, NEW genesis, NEW freeze \in RefsOf("powfreeze"),
         NEW campaign \in RefsOf("campaign"), NEW rehearsal \in RefsOf("rehearsal36"),
         NEW activation \in SUBSET RefsOf("activation"),
         NEW b \in ReviewHandoffs(commit, genesis, freeze, campaign, rehearsal, activation)
  PROVE  Fitting("handoff", b)
<1>1. /\ "of" \in DOMAIN b /\ b.of = {freeze, campaign, rehearsal} \cup activation
      /\ b.genesis = genesis /\ genesis = Body(freeze).genesis
  BY DEF ReviewHandoffs
<1>2. \A p \in b.of : p \in AllRefs /\ KindOf(p) \in Inputs("handoff")
  BY <1>1, RefFacts, PowInputsAre
<1>3. \A p \in b.of : KindOf(p) = "powfreeze" => p = freeze
  BY <1>1, RefFacts
<1>4. Compared("handoff", b)
  BY <1>1, <1>3 DEF Compared, GenesisOf
<1> QED BY <1>1, <1>2, <1>4, PowFits

LEMMA AlgoReviewFits ==
  ASSUME CampaignInv, NEW gate \in RefsOf("benchgate"), NEW decision \in RefsOf("algorithm"),
         NEW handoff \in RefsOf("handoff"), NEW activation \in SUBSET RefsOf("activation"),
         NEW asserted, NEW b \in AlgorithmReviews(gate, decision, handoff, activation, asserted)
  PROVE  Fitting("algoreview", b)
<1>1. /\ "of" \in DOMAIN b /\ b.of = {gate, decision, handoff} \cup activation
      /\ b.choice = Body(decision).choice /\ b.choice # "hold"
      /\ \A a \in activation : Body(a).of = {decision}
      /\ b.choice = "randomx" => activation # {}
  BY DEF AlgorithmReviews
<1>2. ASSUME NEW p \in b.of
      PROVE  /\ p \in AllRefs
             /\ \/ p = gate /\ KindOf(p) = "benchgate"
                \/ p = decision /\ KindOf(p) = "algorithm"
                \/ p = handoff /\ KindOf(p) = "handoff"
                \/ p \in activation /\ KindOf(p) = "activation"
  BY <1>1, RefFacts
<1>3. \A p \in b.of : p \in AllRefs /\ KindOf(p) \in Inputs("algoreview")
  BY <1>2, PowInputsAre
<1>4. ASSUME b.choice = "randomx"
      PROVE  \E a \in b.of : KindOf(a) = "activation" /\ Body(a).of = {decision}
  BY <1>1, <1>4, RefFacts
<1>5. ReviewOf(b)
  BY <1>1, <1>2, <1>4 DEF ReviewOf
<1>6. Compared("algoreview", b)
  BY <1>5 DEF Compared
<1> QED BY <1>1, <1>3, <1>6, PowFits

LEMMA PowBundleFits ==
  ASSUME CampaignInv, NEW commit, NEW deployment \in RefsOf("deployment"),
         NEW policy \in RefsOf("payoutpolicy"), NEW review \in RefsOf("algoreview"),
         NEW handoff \in RefsOf("handoff"),
         NEW b \in ReviewBundles(commit, deployment, policy, review, handoff)
  PROVE  Fitting("powbundle", b)
<1>1. /\ "of" \in DOMAIN b /\ b.of = {deployment, policy, review, handoff}
      /\ b.commit = commit /\ b.genesis = Body(deployment).genesis
      /\ Body(deployment).commit = commit
      /\ Body(handoff).genesis = Body(deployment).genesis
      /\ handoff \in Body(review).of
  BY DEF ReviewBundles
<1>2. ASSUME NEW p \in b.of
      PROVE  /\ p \in AllRefs
             /\ \/ p = deployment /\ KindOf(p) = "deployment"
                \/ p = policy /\ KindOf(p) = "payoutpolicy"
                \/ p = review /\ KindOf(p) = "algoreview"
                \/ p = handoff /\ KindOf(p) = "handoff"
  BY <1>1, RefFacts
<1>3. \A p \in b.of : p \in AllRefs /\ KindOf(p) \in Inputs("powbundle")
  BY <1>2, PowInputsAre
<1>4. KindOf(handoff) = "handoff"
  BY RefFacts
<1>5. \A p \in b.of : KindOf(p) = "handoff" => p = handoff
  BY <1>1, RefFacts
<1>6. Kind(b.of, "handoff") = {handoff}
  <2>1. handoff \in b.of
    BY <1>1
  <2> QED BY <2>1, <1>4, <1>5 DEF Kind, KindOf
<1>7. Kind(Body(review).of, "handoff") = {handoff}
  <2>1. ReviewOf(Body(review))
    BY ReadFacts DEF Compared
  <2>2. \A q \in Body(review).of : KindOf(q) = "handoff" => q = handoff
    BY <1>1, <1>4, <2>1 DEF ReviewOf
  <2> QED BY <1>1, <1>4, <2>2 DEF Kind, KindOf
<1>8. BundleOf(b)
  BY <1>1, <1>2, <1>6, <1>7 DEF BundleOf
<1>9. Compared("powbundle", b)
  BY <1>8 DEF Compared
<1> QED BY <1>1, <1>3, <1>9, PowFits

\* The commands of a version, one after the other.
LEMMA RecordFits ==
  ASSUME NEW slot \in DOMAIN files
  PROVE  \A bodies, typed : /\ Record(slot, bodies, typed)
                            /\ \A b \in bodies : Leaf(slot[1], b)
                            => Adds(slot)
BY RecordAdds

LEMMA Saved ==
  ASSUME NEW slot \in DOMAIN files
  PROVE  \A body, typed, given, slots : /\ Save(slot, body, typed, given, slots)
                                        /\ Fitting(slot[1], body)
                                        => Adds(slot)
BY SaveAdds

LEMMA Adds24 ==
  ASSUME CampaignInv, NEW slot \in DOMAIN files, RunV24(slot)
  PROVE  Adds(slot)
<1>1. ASSUME slot[1] = "fault", NEW plan, NEW b \in FaultResults(plan), NEW given, NEW slots,
             Save(slot, b, {"ok"}, given, slots)
      PROVE  Adds(slot)
  BY <1>1, Leaves24, LeafFits, SaveAdds
<1>2. ASSUME slot[1] = "readiness", NEW s, NEW f, NEW r, NEW n, NEW d, NEW given, NEW slots,
             Save(slot, Readiness(s, f, r, n, d), {}, given, slots)
      PROVE  Adds(slot)
  BY <1>2, Leaves24, LeafFits, SaveAdds
<1>3. ASSUME NEW bodies, NEW typed, Record(slot, bodies, typed),
             \/ slot[1] = "soak" /\ bodies = SoakSummaries
             \/ slot[1] = "faultplan" /\ bodies = FaultPlans
             \/ slot[1] = "recovery" /\ bodies = RecoveryRecords(slot[2])
             \/ slot[1] = "signer" /\ bodies = SignerRecords
             \/ slot[1] = "redundancy" /\ bodies = RedundancyReports
      PROVE  Adds(slot)
  BY <1>3, Leaves24, RecordFits
<1> QED BY <1>1, <1>2, <1>3 DEF RunV24

LEMMA Adds25 ==
  ASSUME CampaignInv, NEW slot \in DOMAIN files, RunV25(slot)
  PROVE  Adds(slot)
<1>1. ASSUME slot[1] = "reviewgate", NEW readiness, NEW incident,
             NEW hosts \in SUBSET RefsOf("host"), NEW given, NEW slots,
             Save(slot, ReviewGate(readiness, hosts, incident), {}, given, slots)
      PROVE  Adds(slot)
  BY <1>1, ReviewGateFits, Saved
<1>2. ASSUME slot[1] = "reviewfreeze", NEW gate \in RefsOf("reviewgate"),
             NEW f \in ReviewFreezes(gate), NEW given, NEW slots,
             Save(slot, f, {}, given, slots)
      PROVE  Adds(slot)
  BY <1>2, ReviewFreezeFits, Saved
<1>3. ASSUME NEW bodies, NEW typed, Record(slot, bodies, typed),
             \/ slot[1] = "incident" /\ bodies = IncidentRecords
             \/ slot[1] = "host" /\ bodies = HostAttestations
      PROVE  Adds(slot)
  BY <1>3, Leaves24, RecordFits
<1> QED BY <1>1, <1>2, <1>3 DEF RunV25

LEMMA Adds26 ==
  ASSUME CampaignInv, NEW slot \in DOMAIN files, RunV26(slot)
  PROVE  Adds(slot)
<1>1. ASSUME slot[1] = "remediation", NEW commit \in Commits, NEW genesis \in Genesis,
             NEW register \in RefsOf("register"), NEW retests \in SUBSET RefsOf("retest"),
             NEW supply \in RefsOf("supply"), NEW edges \in SUBSET RefsOf("edge"),
             NEW typed, NEW given, NEW slots,
             Save(slot, RemediationGate(commit, genesis, register, retests, supply, edges),
                  typed, given, slots)
      PROVE  Adds(slot)
  BY <1>1, RemediationFits, Saved
<1>2. ASSUME slot[1] = "refreeze", NEW gate \in RefsOf("remediation"),
             NEW f \in Refreezes(gate), NEW given, NEW slots, Save(slot, f, {}, given, slots)
      PROVE  Adds(slot)
  BY <1>2, RefreezeFits, Saved
<1>3. ASSUME NEW bodies, NEW typed, Record(slot, bodies, typed),
             \/ slot[1] = "register" /\ bodies = FindingsRegisters
             \/ slot[1] = "retest" /\ bodies = RetestRecords
             \/ slot[1] = "supply" /\ bodies = SupplyAttestations
             \/ slot[1] = "edge" /\ bodies = EdgeAttestations
      PROVE  Adds(slot)
  BY <1>3, Leaves24, RecordFits
<1> QED BY <1>1, <1>2, <1>3 DEF RunV26

LEMMA Picked ==
  ASSUME NEW slots, NEW pick \in OneOfEach(slots), NEW kind, <<kind, "">> \in slots
  PROVE  pick[<<kind, "">>] \in RefsOf(kind)
<1>1. pick[<<kind, "">>] \in AllRefs /\ KindOf(pick[<<kind, "">>]) = <<kind, "">>[1]
  BY PickFacts
<1> QED BY <1>1, First, RefFacts

LEMMA Adds27 ==
  ASSUME CampaignInv, NEW slot \in DOMAIN files, RunV27(slot)
  PROVE  Adds(slot)
<1>1. ASSUME slot[1] = "identity", NEW pick \in OneOfEach(IdentitySlots), SameCandidate(pick),
             NEW given, NEW slots, Save(slot, Identity(pick), {}, given, slots)
      PROVE  Adds(slot)
  BY <1>1, IdentityFits, Saved
<1>2. ASSUME slot[1] = "finalgate", NEW identity \in RefsOf("identity"),
             NEW approvals \in SUBSET RefsOf("approval"), NEW g \in FinalGates(identity, approvals),
             NEW given, NEW slots, Save(slot, g, {}, given, slots)
      PROVE  Adds(slot)
  BY <1>2, FinalGateFits, Saved
<1>3. ASSUME slot[1] = "report", NEW gate \in RefsOf("finalgate"), NEW r \in FinalReports(gate),
             NEW given, NEW slots, Save(slot, r, {}, given, slots)
      PROVE  Adds(slot)
  BY <1>3, ReportFits, Saved
<1>4. ASSUME NEW bodies, NEW typed, Record(slot, bodies, typed),
             \/ slot[1] = "plan" /\ bodies = UpgradePlans
             \/ slot[1] = "policy" /\ bodies = GovernancePolicies
             \/ slot[1] = "economics" /\ bodies = EconomicsFreezes
             \/ slot[1] = "review" /\ bodies = ExternalReviews
             \/ slot[1] = "approval" /\ bodies = ReleaseApprovals
      PROVE  Adds(slot)
  BY <1>4, Leaves27, RecordFits
<1> QED BY <1>1, <1>2, <1>3, <1>4 DEF RunV27

LEMMA Adds28 ==
  ASSUME CampaignInv, NEW slot \in DOMAIN files, RunV28(slot)
  PROVE  Adds(slot)
<1>1. ASSUME slot[1] = "rehearsal", NEW final \in RefsOf("report"),
             NEW core \in OneOfEach(Core28), NEW slos \in SUBSET RefsOf("slo"),
             NEW signoffs \in SUBSET RefsOf("signoff"), NEW strict, NEW paired,
             NEW given, NEW slots,
             Save(slot, RehearsalGate(final, Chosen(core), slos, signoffs, strict, paired),
                  {"strict", "paired"}, given, slots)
      PROVE  Adds(slot)
  <2>1. ASSUME NEW s \in Core28
        PROVE  s[1] \in {"runbook", "cutover", "drill", "upgrade", "risk", "repro"}
    <3>1. PICK k \in {"runbook", "cutover", "drill", "upgrade", "risk", "repro"} : s = <<k, "">>
      BY DEF Core28
    <3> QED BY <3>1, First
  <2>2. Chosen(core) \subseteq AllRefs
        /\ \A p \in Chosen(core) : KindOf(p) \in {"runbook", "cutover", "drill", "upgrade",
                                                  "risk", "repro"}
    BY <2>1, ChosenFacts
  <2> QED BY <1>1, <2>2, RehearsalFits, Saved
<1>2. ASSUME slot[1] = "freeze", NEW gate \in RefsOf("rehearsal"),
             NEW f \in ReleaseFreezes(gate), NEW given, NEW slots, Save(slot, f, {}, given, slots)
      PROVE  Adds(slot)
  BY <1>2, FreezeFits, Saved
<1>3. ASSUME slot[1] = "decision", NEW freeze \in RefsOf("freeze"),
             NEW d \in LaunchDecisions(freeze), NEW given, NEW slots,
             Save(slot, d, {"ok"}, given, slots)
      PROVE  Adds(slot)
  BY <1>3, DecisionFits, Saved
<1>4. LaunchRunbooks \subseteq OfCandidate /\ CutoverRehearsals = OfCandidate
      /\ EdgeSlos = OfCandidate /\ SignerDrills = OfCandidate
      /\ RiskRegisters = OfCandidate /\ ReproAttestations = OfCandidate
  BY DEF LaunchRunbooks, CutoverRehearsals, EdgeSlos, SignerDrills, RiskRegisters,
         ReproAttestations
<1>5. ASSUME NEW bodies, NEW typed, Record(slot, bodies, typed),
             \/ slot[1] = "runbook" /\ bodies = LaunchRunbooks
             \/ slot[1] = "cutover" /\ bodies = CutoverRehearsals
             \/ slot[1] = "slo" /\ bodies = EdgeSlos
             \/ slot[1] = "drill" /\ bodies = SignerDrills
             \/ slot[1] = "upgrade" /\ bodies = UpgradeRehearsals
             \/ slot[1] = "risk" /\ bodies = RiskRegisters
             \/ slot[1] = "signoff" /\ bodies = ReviewSignoffs
             \/ slot[1] = "repro" /\ bodies = ReproAttestations
      PROVE  Adds(slot)
  BY <1>4, <1>5, Leaves27, RecordFits
<1> QED BY <1>1, <1>2, <1>3, <1>5 DEF RunV28

LEMMA Adds29 ==
  ASSUME CampaignInv, NEW slot \in DOMAIN files, RunV29(slot)
  PROVE  Adds(slot)
<1>1. ASSUME slot[1] = "cluster", NEW hosts \in SUBSET RefsOf("live"),
             NEW c \in ClusterObservations(hosts), NEW given, NEW slots,
             Save(slot, c, {"same"}, given, slots)
      PROVE  Adds(slot)
  BY <1>1, ClusterFits, Saved
<1>2. ASSUME slot[1] = "ceremony", NEW attestations \in SUBSET RefsOf("attest"),
             NEW c \in GenesisCeremonies(attestations), NEW given, NEW slots,
             Save(slot, c, {}, given, slots)
      PROVE  Adds(slot)
  BY <1>2, CeremonyFits, Saved
<1>3. ASSUME slot[1] = "soak29", NEW taken \in SUBSET RefsOf("cluster"),
             NEW s \in SoakEvidence(taken), NEW given, NEW slots,
             Save(slot, s, {"same"}, given, slots)
      PROVE  Adds(slot)
  BY <1>3, SoakFits, Saved
<1>4. ASSUME slot[1] = "real", NEW pick \in OneOfEach(RealSlots),
             NEW cluster \in RefsOf("cluster"), NEW done \in SUBSET RefsOf("fault29"),
             NEW g \in RealGates(pick[<<"freeze", "">>], pick[<<"rehearsal", "">>], cluster,
                                 pick[<<"ceremony", "">>], pick[<<"soak29", "">>], done),
             NEW given, NEW slots, Save(slot, g, {}, given, slots)
      PROVE  Adds(slot)
  <2>1. \A k \in {"freeze", "rehearsal", "ceremony", "soak29"} : <<k, "">> \in RealSlots
    BY DEF RealSlots
  <2>2. /\ pick[<<"freeze", "">>] \in RefsOf("freeze")
        /\ pick[<<"rehearsal", "">>] \in RefsOf("rehearsal")
        /\ pick[<<"ceremony", "">>] \in RefsOf("ceremony")
        /\ pick[<<"soak29", "">>] \in RefsOf("soak29")
    BY <2>1, Picked
  <2> QED BY <1>4, <2>2, RealFits, Saved
<1>5. ASSUME slot[1] = "realfreeze", NEW gate \in RefsOf("real"),
             NEW f \in RealFreezes(gate), NEW given, NEW slots, Save(slot, f, {}, given, slots)
      PROVE  Adds(slot)
  BY <1>5, RealFreezeFits, Saved
<1>6. LiveFaults = OfCandidate
  BY DEF LiveFaults
<1>7. ASSUME NEW bodies, NEW typed, Record(slot, bodies, typed),
             \/ slot[1] = "live" /\ bodies = HostObservations
             \/ slot[1] = "attest" /\ bodies = GenesisAttestations
             \/ slot[1] = "fault29" /\ bodies = LiveFaults
      PROVE  Adds(slot)
  BY <1>6, <1>7, Leaves27, RecordFits
<1> QED BY <1>1, <1>2, <1>3, <1>4, <1>5, <1>7 DEF RunV29

LEMMA Adds30 ==
  ASSUME CampaignInv, NEW slot \in DOMAIN files, RunV30(slot)
  PROVE  Adds(slot)
<1>1. ASSUME slot[1] = "checkpoint", NEW inventory \in RefsOf("inventory"),
             NEW c \in MonitorCheckpoints(inventory), NEW given, NEW slots,
             Save(slot, c, {"ok"}, given, slots)
      PROVE  Adds(slot)
  BY <1>1, CheckpointFits, Saved
<1>2. ASSUME slot[1] = "edgegate", NEW records \in SUBSET RefsOf("health"),
             NEW g \in EdgeRedundancyGates(records), NEW given, NEW slots,
             Save(slot, g, {}, given, slots)
      PROVE  Adds(slot)
  BY <1>2, EdgeGateFits, Saved
<1>3. ASSUME slot[1] = "bundle", NEW pick \in OneOfEach(BundleSlots),
             NEW signers \in SUBSET RefsOf("monitor"), NEW given, NEW slots,
             Save(slot, EvidenceBundle(pick[<<"realfreeze", "">>], pick[<<"checkpoint", "">>],
                                       pick[<<"archive", "">>], pick[<<"edgegate", "">>],
                                       signers), {}, given, slots)
      PROVE  Adds(slot)
  <2>1. \A k \in {"realfreeze", "checkpoint", "archive", "edgegate"} : <<k, "">> \in BundleSlots
    BY DEF BundleSlots
  <2>2. /\ pick[<<"realfreeze", "">>] \in RefsOf("realfreeze")
        /\ pick[<<"checkpoint", "">>] \in RefsOf("checkpoint")
        /\ pick[<<"archive", "">>] \in RefsOf("archive")
        /\ pick[<<"edgegate", "">>] \in RefsOf("edgegate")
    BY <2>1, Picked
  <2> QED BY <1>3, <2>2, BundleFits, Saved
<1>4. ASSUME slot[1] = "checklist", NEW bundle \in RefsOf("bundle"),
             NEW c \in OperatorChecklists(bundle), NEW given, NEW slots,
             Save(slot, c, {"ok"}, given, slots)
      PROVE  Adds(slot)
  BY <1>4, ChecklistFits, Saved
<1>5. ArchiveManifests \subseteq OfCandidate /\ EdgeHealthRecords = OfCandidate
  BY DEF ArchiveManifests, EdgeHealthRecords
<1>6. ASSUME NEW bodies, NEW typed, Record(slot, bodies, typed),
             \/ slot[1] = "inventory" /\ bodies = MonitorInventories
             \/ slot[1] = "archive" /\ bodies = ArchiveManifests
             \/ slot[1] = "health" /\ bodies = EdgeHealthRecords
             \/ slot[1] = "monitor" /\ bodies = SignerMonitors
      PROVE  Adds(slot)
  BY <1>5, <1>6, Leaves27, RecordFits
<1> QED BY <1>1, <1>2, <1>3, <1>4, <1>6 DEF RunV30

LEMMA AddsPow34 ==
  ASSUME CampaignInv, NEW slot \in DOMAIN files, RunPow34(slot)
  PROVE  Adds(slot)
<1>1. ASSUME slot[1] = "benchgate", NEW records \in SUBSET RefsOf("bench"), NEW strict,
             NEW given, NEW slots,
             Save(slot, BenchmarkGate(records, strict), {"strict"}, given, slots)
      PROVE  Adds(slot)
  BY <1>1, BenchGateFits, Saved
<1>2. ASSUME slot[1] = "algorithm", NEW gate \in RefsOf("benchgate"),
             NEW d \in AlgorithmDecisions(gate), NEW given, NEW slots,
             Save(slot, d, {"choice"}, given, slots)
      PROVE  Adds(slot)
  BY <1>2, AlgorithmFits, Saved
<1>3. ASSUME NEW bodies, NEW typed, Record(slot, bodies, typed),
             slot[1] = "bench", bodies = BenchmarkRecords
      PROVE  Adds(slot)
  BY <1>3, Leaves34, RecordFits
<1> QED BY <1>1, <1>2, <1>3 DEF RunPow34

LEMMA AddsPow35 ==
  ASSUME CampaignInv, NEW slot \in DOMAIN files, RunPow35(slot)
  PROVE  Adds(slot)
<1>1. ASSUME slot[1] = "powgate", NEW hosts \in SUBSET RefsOf("powhost"), NEW strict,
             NEW pick \in OneOfEach(Ones({"convergence", "powsoak", "powfault"})),
             NEW given, NEW slots,
             Save(slot, PowTestnetGate(hosts, pick[<<"convergence", "">>],
                                       pick[<<"powsoak", "">>], pick[<<"powfault", "">>],
                                       strict), {"strict"}, given, slots)
      PROVE  Adds(slot)
  <2>1. \A k \in {"convergence", "powsoak", "powfault"} :
          <<k, "">> \in Ones({"convergence", "powsoak", "powfault"})
    BY DEF Ones
  <2>2. /\ pick[<<"convergence", "">>] \in RefsOf("convergence")
        /\ pick[<<"powsoak", "">>] \in RefsOf("powsoak")
        /\ pick[<<"powfault", "">>] \in RefsOf("powfault")
    BY <2>1, Picked
  <2> QED BY <1>1, <2>2, PowGateFits, Saved
<1>2. ASSUME slot[1] = "powfreeze", NEW gate \in RefsOf("powgate"), NEW commit,
             NEW f \in PowFreezes(gate, commit), NEW given, NEW slots,
             Save(slot, f, {"commit"}, given, slots)
      PROVE  Adds(slot)
  BY <1>2, PowFreezeFits, Saved
<1>3. ASSUME NEW bodies, NEW typed, Record(slot, bodies, typed),
             \/ slot[1] = "powhost" /\ bodies = PowHosts
             \/ slot[1] = "convergence" /\ bodies = Convergences
             \/ slot[1] = "powsoak" /\ bodies = PowSoaks
             \/ slot[1] = "powfault" /\ bodies = PowFaults
      PROVE  Adds(slot)
  BY <1>3, Leaves34, RecordFits
<1> QED BY <1>1, <1>2, <1>3 DEF RunPow35

LEMMA OptionalFacts ==
  ASSUME NEW refs, NEW given \in Optional(refs)
  PROVE  given \in SUBSET refs
BY DEF Optional

LEMMA AddsPow36 ==
  ASSUME CampaignInv, NEW slot \in DOMAIN files, RunPow36(slot)
  PROVE  Adds(slot)
<1>1. ASSUME slot[1] = "activation", NEW decision \in RefsOf("algorithm"),
             NEW a \in ActivationProposals(decision), NEW typed, NEW given, NEW slots,
             Save(slot, a, typed, given, slots)
      PROVE  Adds(slot)
  BY <1>1, ActivationFits, Saved
<1>2. ASSUME slot[1] = "handoff", NEW commit, NEW genesis,
             NEW pick \in OneOfEach(Ones({"powfreeze", "campaign", "rehearsal36"})),
             NEW activation \in Optional(RefsOf("activation")),
             NEW h \in ReviewHandoffs(commit, genesis, pick[<<"powfreeze", "">>],
                                      pick[<<"campaign", "">>],
                                      pick[<<"rehearsal36", "">>], activation),
             NEW typed, NEW given, NEW slots, Save(slot, h, typed, given, slots)
      PROVE  Adds(slot)
  <2>1. \A k \in {"powfreeze", "campaign", "rehearsal36"} :
          <<k, "">> \in Ones({"powfreeze", "campaign", "rehearsal36"})
    BY DEF Ones
  <2>2. /\ pick[<<"powfreeze", "">>] \in RefsOf("powfreeze")
        /\ pick[<<"campaign", "">>] \in RefsOf("campaign")
        /\ pick[<<"rehearsal36", "">>] \in RefsOf("rehearsal36")
    BY <2>1, Picked
  <2>3. activation \in SUBSET RefsOf("activation")
    BY OptionalFacts
  <2> QED BY <1>2, <2>2, <2>3, HandoffFits, Saved
<1>3. ASSUME NEW bodies, NEW typed, Record(slot, bodies, typed),
             \/ slot[1] = "campaign" /\ bodies = CampaignSummaries
             \/ slot[1] = "rehearsal36" /\ bodies = UndoRehearsals
      PROVE  Adds(slot)
  BY <1>3, Leaves34, RecordFits
<1> QED BY <1>1, <1>2, <1>3 DEF RunPow36

LEMMA AddsPow37 ==
  ASSUME CampaignInv, NEW slot \in DOMAIN files, RunPow37(slot)
  PROVE  Adds(slot)
<1>1. ASSUME slot[1] = "algoreview",
             NEW pick \in OneOfEach(Ones({"benchgate", "algorithm", "handoff"})),
             NEW activation \in Optional(RefsOf("activation")), NEW asserted,
             NEW r \in AlgorithmReviews(pick[<<"benchgate", "">>], pick[<<"algorithm", "">>],
                                        pick[<<"handoff", "">>], activation, asserted),
             NEW typed, NEW given, NEW slots, Save(slot, r, typed, given, slots)
      PROVE  Adds(slot)
  <2>1. \A k \in {"benchgate", "algorithm", "handoff"} :
          <<k, "">> \in Ones({"benchgate", "algorithm", "handoff"})
    BY DEF Ones
  <2>2. /\ pick[<<"benchgate", "">>] \in RefsOf("benchgate")
        /\ pick[<<"algorithm", "">>] \in RefsOf("algorithm")
        /\ pick[<<"handoff", "">>] \in RefsOf("handoff")
    BY <2>1, Picked
  <2>3. activation \in SUBSET RefsOf("activation")
    BY OptionalFacts
  <2> QED BY <1>1, <2>2, <2>3, AlgoReviewFits, Saved
<1>2. ASSUME slot[1] = "powbundle", NEW commit,
             NEW pick \in OneOfEach(Ones({"deployment", "payoutpolicy", "algoreview",
                                          "handoff"})),
             NEW b \in ReviewBundles(commit, pick[<<"deployment", "">>],
                                     pick[<<"payoutpolicy", "">>],
                                     pick[<<"algoreview", "">>], pick[<<"handoff", "">>]),
             NEW typed, NEW given, NEW slots, Save(slot, b, typed, given, slots)
      PROVE  Adds(slot)
  <2>1. \A k \in {"deployment", "payoutpolicy", "algoreview", "handoff"} :
          <<k, "">> \in Ones({"deployment", "payoutpolicy", "algoreview", "handoff"})
    BY DEF Ones
  <2>2. /\ pick[<<"deployment", "">>] \in RefsOf("deployment")
        /\ pick[<<"payoutpolicy", "">>] \in RefsOf("payoutpolicy")
        /\ pick[<<"algoreview", "">>] \in RefsOf("algoreview")
        /\ pick[<<"handoff", "">>] \in RefsOf("handoff")
    BY <2>1, Picked
  <2> QED BY <1>2, <2>2, PowBundleFits, Saved
<1>3. ASSUME NEW bodies, NEW typed, Record(slot, bodies, typed),
             \/ slot[1] = "deployment" /\ bodies = DeploymentPlans
             \/ slot[1] = "payoutpolicy" /\ bodies = PayoutPolicies
      PROVE  Adds(slot)
  BY <1>3, Leaves34, RecordFits
<1> QED BY <1>1, <1>2, <1>3 DEF RunPow37

\* What earlier parts left fits: what is behind it is cut off.
LEMMA CampaignStarts == CampaignInit => CampaignInv
<1> SUFFICES ASSUME CampaignInit PROVE CampaignInv
  OBVIOUS
<1>1. PICK start \in Starts : files = start.files
  BY DEF CampaignInit
<1>2. /\ IsFiniteSet(DOMAIN files)
      /\ files = [s \in DOMAIN files |-> files[s]]
      /\ \A s \in DOMAIN files :
           \/ files[s] = << >>
           \/ /\ s[1] \in {"readiness", "plan", "identity", "report", "live"}
              /\ files[s] \in Seq(Earlier(s[1]))
  BY <1>1, StartsAssumption
<1>3. ASSUME NEW s \in DOMAIN files PROVE IsSeq(files[s])
  <2>1. CASE files[s] = << >>
    <3>1. files[s] \in Seq(Nat)
      BY <2>1
    <3> QED BY <3>1 DEF IsSeq
  <2>2. CASE files[s] \in Seq(Earlier(s[1]))
    BY <2>2 DEF IsSeq
  <2> QED BY <1>2, <2>1, <2>2
<1>4. ASSUME NEW q \in AllRefs
      PROVE  /\ KindOf(q) \in {"readiness", "plan", "identity", "report", "live"}
             /\ Body(q) \in Earlier(KindOf(q))
  <2>1. PICK s \in DOMAIN files : q[1] = s /\ q[2] \in DOMAIN files[s]
    BY RefFacts
  <2>2. files[s] # << >>
    BY <2>1
  <2>3. /\ s[1] \in {"readiness", "plan", "identity", "report", "live"}
        /\ files[s] \in Seq(Earlier(s[1]))
    BY <1>2, <2>2
  <2>4. files[s][q[2]] \in Earlier(s[1])
    <3>1. PICK E : E = Earlier(s[1])
      OBVIOUS
    <3>2. files[s] \in Seq(E)
      BY <2>3, <3>1
    <3>3. files[s][q[2]] \in E
      BY <2>1, <3>2
    <3> QED BY <3>1, <3>3
  <2> QED BY <2>1, <2>3, <2>4 DEF KindOf, Body
<1>5. ASSUME NEW b \in Earlier("readiness") PROVE Fitting("readiness", b)
  <2>1. DOMAIN b = {"ok"}
    BY DEF Earlier
  <2> QED BY <2>1, LeafFits DEF Leaf, Leaves, Unnamed, Naming
<1>6. ASSUME NEW b \in Earlier("plan") PROVE Fitting("plan", b)
  <2>1. b \in UpgradePlans
    BY DEF Earlier, UpgradePlans
  <2> QED BY <2>1, Leaves27, LeafFits
<1>7. ASSUME NEW b \in Earlier("identity") PROVE Fitting("identity", b)
  <2>1. DOMAIN b = {"commit", "genesis", "of"} /\ b.of = {}
    BY DEF Earlier
  <2>2. WellNamed("identity", b)
    BY <2>1 DEF WellNamed, Naming, Deciding, Gates
  <2>3. Agreeing("identity", b)
    BY <2>1 DEF Agreeing
  <2> QED BY <2>2, <2>3, Uncompared DEF Fitting
<1>8. ASSUME NEW b \in Earlier("report") PROVE Fitting("report", b)
  <2>1. DOMAIN b = {"commit", "id", "of"} /\ b.of = {}
    BY DEF Earlier
  <2>2. WellNamed("report", b)
    BY <2>1 DEF WellNamed, Unnamed, Deciding, Gates
  <2>3. Agreeing("report", b)
    BY <2>1 DEF Agreeing
  <2> QED BY <2>2, <2>3, Uncompared DEF Fitting
<1>9. ASSUME NEW b \in Earlier("live") PROVE Fitting("live", b)
  <2>1. DOMAIN b = {"who", "key", "provider", "commit", "genesis", "id", "hash", "ok"}
    BY DEF Earlier
  <2> QED BY <2>1, LeafFits DEF Leaf, Leaves, Unnamed, Naming
<1>10. \A q \in AllRefs : Fitting(KindOf(q), Body(q))
  BY <1>4, <1>5, <1>6, <1>7, <1>8, <1>9
<1> QED BY <1>2, <1>3, <1>10 DEF CampaignInv

LEMMA CampaignStep == CampaignInv /\ [CampaignNext]_evidenceVars => CampaignInv'
<1> SUFFICES ASSUME CampaignInv, [CampaignNext]_evidenceVars PROVE CampaignInv'
  OBVIOUS
<1>1. CASE CampaignNext
  <2>1. PICK slot \in DOMAIN files :
          \/ RunV24(slot) \/ RunV25(slot) \/ RunV26(slot) \/ RunV27(slot)
          \/ RunV28(slot) \/ RunV29(slot) \/ RunV30(slot)
          \/ RunPow34(slot) \/ RunPow35(slot) \/ RunPow36(slot) \/ RunPow37(slot)
    BY <1>1 DEF CampaignNext
  <2>2. Adds(slot)
    BY <2>1, Adds24, Adds25, Adds26, Adds27, Adds28, Adds29, Adds30,
       AddsPow34, AddsPow35, AddsPow36, AddsPow37
  <2>3. PICK body : Added(slot, body) /\ Fitting(slot[1], body)
    BY <2>2 DEF Adds
  <2> QED BY <2>3, AddedInv
<1>2. CASE UNCHANGED evidenceVars
  <2>1. files' = files
    BY <1>2 DEF evidenceVars
  <2>2. AllRefs' = AllRefs
    BY <2>1 DEF AllRefs, Refs
  <2>3. Grown
    BY <2>1, <2>2 DEF Grown
  <2>4. ASSUME NEW q \in AllRefs
        PROVE  Fitting(KindOf(q), Body(q))'
    <3>1. PICK b : b = Body(q)
      OBVIOUS
    <3>2. Body(q)' = b
      BY <2>1, <3>1 DEF Body
    <3>3. Fitting(KindOf(q), b)'
      BY <2>3, <3>1, StillFits DEF CampaignInv
    <3> QED BY <3>2, <3>3
  <2> QED BY <2>1, <2>2, <2>4 DEF CampaignInv
<1> QED BY <1>1, <1>2

LEMMA CampaignSafe == CampaignSpec => []CampaignInv
BY CampaignStarts, CampaignStep, PTL DEF CampaignSpec

\* What the artifacts of a launch name are artifacts of a launch.
LEMMA LaunchInputs ==
  ASSUME NEW k \in LaunchKinds, NEW j \in Inputs(k)
  PROVE  /\ j \in LaunchKinds \ {"decision", "bundle"}
         /\ k \in Unnamed => j \in Unnamed
         /\ j = "remediation" => k = "identity"
         /\ j = "identity" => k = "finalgate"
         /\ j = "cluster" => k \in {"real", "soak29"}
         /\ k = "soak29" => j = "cluster"
         /\ k # "register"
BY DEF LaunchKinds, Unnamed, Naming, Inputs

\* What may be behind r when all of it is of r's candidate.
OneWith(r) ==
  {q \in AllRefs :
     /\ KindOf(q) \in LaunchKinds
     /\ "id" \in DOMAIN Body(q) => Body(q).id = Body(r).id
     /\ "commit" \in DOMAIN Body(q) /\ KindOf(q) # "register"
          => Body(q).commit = Body(r).commit
     /\ KindOf(q) \in Deciding => Body(q).ok \/ FailedSample(q)
     /\ KindOf(q) = "cluster" => Body(q).split = FALSE
     /\ KindOf(q) = "identity" => Passed(Body(q).of)}

LEMMA BehindCandidate ==
  ASSUME CampaignInv, NEW r \in AllRefs,
         KindOf(r) \in {"report", "decision", "realfreeze", "bundle", "freeze"},
         KindOf(r) \in Deciding => Body(r).ok
  PROVE  Behind(r) \subseteq OneWith(r)
<1>1. r \in OneWith(r)
  BY DEF OneWith, LaunchKinds, Naming
<1>2. ASSUME NEW q \in OneWith(r), "of" \in DOMAIN Body(q), ~FailedSample(q),
             NEW p \in Body(q).of
      PROVE  p \in OneWith(r)
  <2>1. /\ q \in AllRefs /\ KindOf(q) \in LaunchKinds
        /\ "id" \in DOMAIN Body(q) => Body(q).id = Body(r).id
        /\ "commit" \in DOMAIN Body(q) /\ KindOf(q) # "register"
             => Body(q).commit = Body(r).commit
        /\ KindOf(q) \in Deciding => Body(q).ok
        /\ KindOf(q) = "identity" => Passed(Body(q).of)
    BY <1>2 DEF OneWith
  <2>2. /\ WellNamed(KindOf(q), Body(q)) /\ Agreeing(KindOf(q), Body(q))
        /\ Backed(KindOf(q), Body(q))
    BY <2>1 DEF CampaignInv, Fitting
  <2>3. p \in AllRefs /\ KindOf(p) \in Inputs(KindOf(q)) /\ "commit" \in DOMAIN Body(q)
    BY <1>2, <2>1, <2>2 DEF WellNamed
  <2>4. /\ KindOf(p) \in LaunchKinds \ {"decision", "bundle"}
        /\ KindOf(q) \in Unnamed => KindOf(p) \in Unnamed
        /\ KindOf(p) = "remediation" => KindOf(q) = "identity"
        /\ KindOf(p) = "identity" => KindOf(q) = "finalgate"
        /\ KindOf(p) = "cluster" => KindOf(q) \in {"real", "soak29"}
        /\ KindOf(q) = "soak29" => KindOf(p) = "cluster"
        /\ KindOf(q) # "register"
    BY <2>1, <2>3, LaunchInputs
  <2>5. WellNamed(KindOf(p), Body(p))
    BY <2>3 DEF CampaignInv, Fitting
  <2>6. /\ "commit" \in DOMAIN Body(p) /\ KindOf(p) # "register" => Body(p).commit = Body(q).commit
        /\ "id" \in DOMAIN Body(p) => Body(p).id = Body(q).id
        /\ KindOf(p) \in Gates /\ KindOf(q) # "soak29" => Body(p).ok
    BY <1>2, <2>1, <2>2 DEF Agreeing
  <2>7. "commit" \in DOMAIN Body(p) /\ KindOf(p) # "register" => Body(p).commit = Body(r).commit
    BY <2>1, <2>3, <2>4, <2>6
  <2>8. "id" \in DOMAIN Body(p) => Body(p).id = Body(r).id
    <3>1. CASE KindOf(q) \in Unnamed
      BY <3>1, <2>4, <2>5 DEF WellNamed
    <3>2. CASE KindOf(q) \in Naming
      BY <3>2, <2>1, <2>2, <2>6 DEF WellNamed
    <3> QED BY <3>1, <3>2, <2>1 DEF LaunchKinds
  <2>9. KindOf(p) \in Deciding => Body(p).ok \/ FailedSample(p)
    <3>1. CASE KindOf(p) \in Gates
      BY <3>1, <2>4, <2>6 DEF FailedSample, KindOf
    <3>2. CASE KindOf(p) = "remediation"
      <4>1. Passed(Body(q).of) /\ "ok" \in DOMAIN Body(p)
        BY <3>2, <2>1, <2>4, <2>5 DEF WellNamed, Deciding
      <4> QED BY <1>2, <4>1 DEF Passed
    <3> QED BY <3>1, <3>2, <2>4 DEF Deciding
  <2>10. KindOf(p) = "identity" => Passed(Body(p).of)
    <3>1. KindOf(p) = "identity" => KindOf(q) = "finalgate" /\ Body(q).ok
      BY <2>1, <2>4 DEF Deciding, Gates
    <3>2. KindOf(p) = "identity" => ApprovedByHolders(Body(q))
      BY <3>1, <2>2 DEF Backed
    <3> QED BY <1>2, <3>2 DEF ApprovedByHolders
  <2>11. KindOf(p) = "cluster" => Body(p).split = FALSE
    <3>1. CASE KindOf(q) = "soak29"
      <4>1. Soaked(Body(q))
        BY <3>1, <2>1, <2>2 DEF Backed, Deciding, Gates
      <4> QED BY <1>2, <4>1 DEF Soaked, AllSay
    <3>2. CASE KindOf(p) = "cluster" /\ KindOf(q) # "soak29"
      <4>1. Body(p).ok
        BY <3>2, <2>6 DEF Gates
      <4> QED BY <3>2, <4>1, <2>3 DEF CampaignInv, Fitting, Backed
    <3> QED BY <3>1, <3>2
  <2> QED BY <2>3, <2>4, <2>7, <2>8, <2>9, <2>10, <2>11 DEF OneWith
<1>3. \A q \in OneWith(r) :
        q \in AllRefs /\ "of" \in DOMAIN Body(q) /\ ~FailedSample(q)
          => Body(q).of \subseteq OneWith(r)
  BY <1>2
<1> QED BY <1>1, <1>3, BehindClosed

LEMMA LaunchSafe == CampaignInv => LaunchIsOneCandidate
<1> SUFFICES ASSUME CampaignInv,
                    NEW r \in Approved \cup RefsOf("realfreeze") \cup Published,
                    NEW q \in Behind(r)
             PROVE  /\ "id" \in DOMAIN Body(q) => Body(q).id = Body(r).id
                    /\ "commit" \in DOMAIN Body(q) /\ q[1][1] # "register"
                         => Body(q).commit = Body(r).commit
  BY DEF LaunchIsOneCandidate
<1>1. r \in AllRefs /\ KindOf(r) \in {"decision", "realfreeze", "bundle"}
  BY RefFacts DEF Approved, Published
<1>2. KindOf(r) \in Deciding => Body(r).ok
  BY <1>1, RefFacts DEF Approved, Published, Deciding, Gates
<1>3. q \in OneWith(r)
  BY <1>1, <1>2, BehindCandidate
<1> QED BY <1>3 DEF OneWith, KindOf

\* Behind a freeze, the sign-offs are those its rehearsal names.
LEMMA SignOffsBehind ==
  ASSUME CampaignInv, NEW f \in RefsOf("freeze"), NEW g, Body(f).of = {g}
  PROVE  /\ g \in AllRefs /\ KindOf(g) = "rehearsal" /\ Body(g).ok
         /\ Kind(Behind(f), "signoff") = Kind(Body(g).of, "signoff")
         /\ Body(g).of \subseteq Behind(f)
<1> DEFINE Low == Unnamed \cup {"finalgate", "approval"}
           K == {q \in AllRefs : q = f \/ q = g \/ q \in Body(g).of \/ KindOf(q) \in Low}
<1>1. f \in AllRefs /\ KindOf(f) = "freeze"
  BY ReadFacts
<1>2. "of" \in DOMAIN Body(f) /\ g \in AllRefs /\ KindOf(g) = "rehearsal"
  BY <1>1, InputsAre DEF CampaignInv, Fitting, WellNamed
<1>3. Body(g).ok
  BY <1>1, <1>2 DEF CampaignInv, Fitting, Agreeing, LaunchKinds, Naming, Deciding, Gates
<1>4. /\ "of" \in DOMAIN Body(g)
      /\ \A p \in Body(g).of : p \in AllRefs /\ KindOf(p) \in Inputs("rehearsal")
  BY <1>2, InputsAre DEF CampaignInv, Fitting, WellNamed
<1>5. ASSUME NEW q \in K, "of" \in DOMAIN Body(q), NEW p \in Body(q).of
      PROVE  p \in K
  <2>1. p \in AllRefs /\ KindOf(p) \in Inputs(KindOf(q))
    BY <1>5 DEF CampaignInv, Fitting, WellNamed
  <2>2. CASE q = f
    BY <2>1, <2>2, <1>5
  <2>3. CASE q = g
    BY <2>1, <2>3, <1>5
  <2>4. CASE q \in Body(g).of
    <3>1. KindOf(q) \in Inputs("rehearsal")
      BY <2>4, <1>4
    <3>2. KindOf(p) = "finalgate"
      BY <2>1, <3>1 DEF Inputs
    <3> QED BY <2>1, <3>2
  <2>5. CASE KindOf(q) \in Low
    <3>1. KindOf(p) \in Low
      BY <2>1, <2>5 DEF Inputs, Unnamed
    <3> QED BY <2>1, <3>1
  <2> QED BY <2>2, <2>3, <2>4, <2>5
<1>6. f \in K
  BY <1>1
<1>7. Behind(f) \subseteq K
  <2>1. \A q \in K : q \in AllRefs /\ "of" \in DOMAIN Body(q) => Body(q).of \subseteq K
    BY <1>5
  <2> HIDE DEF K
  <2> QED BY <1>1, <1>6, <2>1, BehindClosed
<1>8. Body(g).of \subseteq Behind(f)
  <2>1. ~FailedSample(f) /\ ~FailedSample(g)
    BY <1>1, <1>2 DEF FailedSample, KindOf
  <2> QED BY <1>1, <1>2, <1>4, <2>1, BehindHas
<1>9. \A q \in Behind(f) : q[1][1] = "signoff" => q \in Body(g).of
  BY <1>1, <1>2, <1>7 DEF KindOf, Unnamed
<1> QED BY <1>2, <1>3, <1>8, <1>9 DEF Kind

LEMMA QuorumsSafe == CampaignInv => QuorumsAreDistinct
<1> SUFFICES ASSUME CampaignInv PROVE QuorumsAreDistinct
  OBVIOUS
<1>1. ASSUME NEW r \in RefsOf("report"), NEW g \in Kind(Behind(r), "finalgate")
      PROVE  /\ Holders(Kind(Body(g).of, "approval"), MinApprovals)
             /\ AllSay(Kind(Body(g).of, "approval"), "id", Body(r).id)
  <2>1. r \in AllRefs /\ KindOf(r) = "report"
    BY ReadFacts
  <2>2. g \in OneWith(r) /\ KindOf(g) = "finalgate"
    BY <2>1, BehindCandidate DEF Kind, KindOf, Deciding, Gates
  <2>3. /\ g \in AllRefs /\ Body(g).ok
        /\ "id" \in DOMAIN Body(g) => Body(g).id = Body(r).id
    BY <2>2 DEF OneWith, Deciding, Gates, FailedSample, KindOf
  <2>4. /\ WellNamed("finalgate", Body(g)) /\ Agreeing("finalgate", Body(g))
        /\ Backed("finalgate", Body(g))
    BY <2>2, <2>3 DEF CampaignInv, Fitting
  <2>5. Body(g).id = Body(r).id /\ "of" \in DOMAIN Body(g)
    BY <2>3, <2>4, InputsAre DEF WellNamed, Naming
  <2>6. ASSUME NEW p \in Kind(Body(g).of, "approval")
        PROVE  Body(p)["id"] = Body(r).id
    <3>1. p \in Body(g).of /\ p \in AllRefs /\ KindOf(p) = "approval"
      BY <2>4, <2>5 DEF Kind, KindOf, WellNamed
    <3>2. "id" \in DOMAIN Body(p)
      BY <3>1 DEF CampaignInv, Fitting, WellNamed, Naming
    <3>3. Body(p).id = Body(g).id
      BY <2>3, <2>4, <2>5, <3>1, <3>2 DEF Agreeing, LaunchKinds, Naming
    <3> QED BY <2>5, <3>3
  <2> QED BY <2>3, <2>4, <2>6 DEF Backed, ApprovedByHolders, AllSay
<1>2. ASSUME NEW f \in RefsOf("freeze")
      PROVE  /\ Scopes \subseteq Values(Kind(Behind(f), "signoff"), "who")
             /\ (\A g \in Body(f).of : Body(g).strict) =>
                  Cardinality(Values(Kind(Behind(f), "signoff"), "key")) >= MinApprovals
             /\ Passed(Kind(Behind(f), "signoff"))
             /\ \A s \in Kind(Behind(f), "signoff") : Body(s).subject \in Behind(f)
  <2>1. PICK g : Body(f).of = {g}
    BY ReadFacts DEF Backed
  <2>2. /\ g \in AllRefs /\ KindOf(g) = "rehearsal" /\ Body(g).ok
        /\ Kind(Behind(f), "signoff") = Kind(Body(g).of, "signoff")
        /\ Body(g).of \subseteq Behind(f)
    BY <2>1, SignOffsBehind
  <2>3. SignedOff(Body(g))
    BY <2>2 DEF CampaignInv, Fitting, Backed
  <2> QED BY <2>1, <2>2, <2>3 DEF SignedOff
<1>3. ASSUME NEW f \in RefsOf("reviewfreeze")
      PROVE  HostsBehind(Body(f))
  BY ReadFacts DEF Backed
<1>4. ASSUME NEW f \in RefsOf("realfreeze"), NEW c \in Behind(f)
      PROVE  /\ \/ c[1][1] = "cluster" /\ Body(c).ok
                \/ c[1][1] = "ceremony"
                => Holders(Body(c).of, MinHosts) /\ SameNetwork(Body(c).of)
             /\ c[1][1] = "soak29" => MostPassed(Body(c).of)
             /\ c[1][1] = "cluster" => Body(c).split = FALSE
  <2>1. f \in AllRefs /\ KindOf(f) = "realfreeze"
    BY ReadFacts
  <2>2. c \in OneWith(f) /\ KindOf(c) = c[1][1]
    BY <2>1, BehindCandidate DEF KindOf, Deciding, Gates
  <2>3. /\ c \in AllRefs
        /\ KindOf(c) \in {"ceremony", "soak29"} => Body(c).ok
        /\ KindOf(c) = "cluster" => Body(c).split = FALSE
    BY <2>2 DEF OneWith, Deciding, Gates, FailedSample
  <2>4. Backed(KindOf(c), Body(c))
    BY <2>3 DEF CampaignInv, Fitting
  <2> QED BY <2>2, <2>3, <2>4 DEF Backed, OneNetwork, Soaked
<1>5. ASSUME NEW f \in RefsOf("realfreeze")
      PROVE  LET samples == Kind(Behind(f), "cluster")
             IN /\ \A c \in {s \in samples : Body(s).ok} \cup Kind(Behind(f), "ceremony") :
                     Holders(Body(c).of, MinHosts) /\ SameNetwork(Body(c).of)
                /\ \A s \in Kind(Behind(f), "soak29") : MostPassed(Body(s).of)
                /\ AllSay(samples, "split", FALSE)
  BY <1>4 DEF Kind, AllSay
<1> QED BY <1>1, <1>2, <1>3, <1>5 DEF QuorumsAreDistinct, HostsBehind, Kind

\* A register behind an identity is named by a remediation the identity names.
LEMMA RegistersBehind ==
  ASSUME CampaignInv, NEW i \in AllRefs, KindOf(i) = "identity",
         NEW register \in Kind(Behind(i), "register")
  PROVE  \E p \in Body(i).of : /\ p \in AllRefs /\ KindOf(p) = "remediation"
                               /\ register \in Body(p).of
<1> DEFINE K == {q \in AllRefs :
                   \/ q = i
                   \/ q \in Body(i).of
                   \/ /\ KindOf(q) \in Inputs("remediation")
                      /\ \E p \in Body(i).of : KindOf(p) = "remediation" /\ q \in Body(p).of}
<1>1. /\ "of" \in DOMAIN Body(i)
      /\ \A p \in Body(i).of : p \in AllRefs /\ KindOf(p) \in Inputs("identity")
  BY InputsAre DEF CampaignInv, Fitting, WellNamed
<1>2. ASSUME NEW q \in K, "of" \in DOMAIN Body(q), NEW p \in Body(q).of
      PROVE  p \in K
  <2>1. p \in AllRefs /\ KindOf(p) \in Inputs(KindOf(q))
    BY <1>2 DEF CampaignInv, Fitting, WellNamed
  <2>2. CASE q = i
    BY <2>1, <2>2, <1>2
  <2>3. CASE q \in Body(i).of
    <3>1. KindOf(q) = "remediation"
      BY <2>1, <2>3, <1>1 DEF Inputs
    <3> QED BY <2>1, <2>3, <3>1, <1>2
  <2>4. CASE KindOf(q) \in Inputs("remediation")
    BY <2>1, <2>4 DEF Inputs
  <2> QED BY <2>2, <2>3, <2>4
<1>3. Behind(i) \subseteq K
  <2>1. \A q \in K : q \in AllRefs /\ "of" \in DOMAIN Body(q) => Body(q).of \subseteq K
    BY <1>2
  <2>2. i \in K
    OBVIOUS
  <2> HIDE DEF K
  <2> QED BY <2>1, <2>2, BehindClosed
<1>4. register \in K /\ KindOf(register) = "register"
  BY <1>3 DEF Kind, KindOf
<1>5. register # i /\ register \notin Body(i).of
  BY <1>1, <1>4, InputsAre
<1> QED BY <1>1, <1>4, <1>5

LEMMA RetestsSafe == CampaignInv => FindingsRetested
<1> SUFFICES ASSUME CampaignInv,
                    NEW r \in RefsOf("report"), NEW i \in Behind(r), i[1][1] = "identity",
                    NEW register \in Kind(Behind(i), "register"), NEW f \in Findings
             PROVE  f \in Body(register).fixed /\ Retested(f, Body(i).commit)
  BY DEF FindingsRetested, Kind, Retested
<1>1. r \in AllRefs /\ KindOf(r) = "report"
  BY ReadFacts
<1>2. i \in OneWith(r) /\ KindOf(i) = "identity"
  BY <1>1, BehindCandidate DEF KindOf, Deciding, Gates
<1>3. i \in AllRefs /\ Passed(Body(i).of)
  BY <1>2 DEF OneWith
<1>4. PICK p \in Body(i).of : /\ p \in AllRefs /\ KindOf(p) = "remediation"
                              /\ register \in Body(p).of
  BY <1>2, <1>3, RegistersBehind
<1>5. /\ WellNamed("remediation", Body(p)) /\ Backed("remediation", Body(p))
      /\ WellNamed("identity", Body(i)) /\ Agreeing("identity", Body(i))
  BY <1>2, <1>3, <1>4 DEF CampaignInv, Fitting
<1>6. "ok" \in DOMAIN Body(p) /\ "of" \in DOMAIN Body(p) /\ "commit" \in DOMAIN Body(p)
  BY <1>5, InputsAre DEF WellNamed, Deciding, LaunchKinds, Unnamed
<1>7. Remedied(Body(p))
  BY <1>3, <1>5, <1>6 DEF Passed, Backed
<1>8. "of" \in DOMAIN Body(i) /\ Body(p).commit = Body(i).commit
  BY <1>4, <1>5, <1>6, InputsAre DEF WellNamed, Agreeing, LaunchKinds, Unnamed, Deciding, Gates
<1>9. KindOf(register) = "register"
  BY DEF Kind, KindOf
<1> QED BY <1>4, <1>7, <1>8, <1>9 DEF Remedied

\* What names the artifacts of the network with proof of work.
LEMMA PowInputs ==
  ASSUME NEW k, NEW j \in Inputs(k)
  PROVE  /\ j # "powbundle"
         /\ j \in {"deployment", "algoreview"} => k = "powbundle"
         /\ j = "handoff" => k \in {"powbundle", "algoreview"}
         /\ j = "powfreeze" => k = "handoff"
         /\ j = "powgate" => k = "powfreeze"
         /\ j = "powhost" => k = "powgate"
BY DEF Inputs

LEMMA BehindBundle ==
  ASSUME CampaignInv, NEW b \in RefsOf("powbundle")
  PROVE  \A q \in Behind(b) :
           /\ KindOf(q) \in {"handoff", "powfreeze", "powgate", "powhost", "deployment"}
                => Body(q).genesis = Body(b).genesis
           /\ KindOf(q) = "deployment" => Body(q).commit = Body(b).commit
<1> DEFINE K == {q \in AllRefs :
                   /\ KindOf(q) = "powbundle" => q = b
                   /\ KindOf(q) \in {"deployment", "algoreview"} => q \in Body(b).of
                   /\ KindOf(q) \in {"handoff", "powfreeze", "powgate", "powhost"}
                        => Body(q).genesis = Body(b).genesis
                   /\ KindOf(q) = "powgate" => Body(q).ok}
<1>1. b \in AllRefs /\ KindOf(b) = "powbundle" /\ BundleOf(Body(b))
  BY ReadFacts DEF Compared
<1>2. ASSUME NEW q \in K, "of" \in DOMAIN Body(q), NEW p \in Body(q).of
      PROVE  p \in K
  <2>1. p \in AllRefs /\ KindOf(p) \in Inputs(KindOf(q)) /\ Compared(KindOf(q), Body(q))
    BY <1>2 DEF CampaignInv, Fitting, WellNamed
  <2>2. /\ KindOf(p) # "powbundle"
        /\ KindOf(p) \in {"deployment", "algoreview"} => KindOf(q) = "powbundle"
        /\ KindOf(p) = "handoff" => KindOf(q) \in {"powbundle", "algoreview"}
        /\ KindOf(p) = "powfreeze" => KindOf(q) = "handoff"
        /\ KindOf(p) = "powgate" => KindOf(q) = "powfreeze"
        /\ KindOf(p) = "powhost" => KindOf(q) = "powgate"
    BY <2>1, PowInputs
  <2>3. KindOf(q) = "powbundle" => q = b
    OBVIOUS
  <2>4. KindOf(p) \in {"deployment", "algoreview"} => p \in Body(b).of
    BY <1>2, <2>2, <2>3
  <2>5. KindOf(p) = "handoff" => Body(p).genesis = Body(b).genesis
    <3>1. SUFFICES ASSUME KindOf(p) = "handoff" PROVE p \in Body(b).of
      BY <1>1 DEF BundleOf
    <3>2. CASE KindOf(q) = "algoreview"
      <4>1. q \in Body(b).of
        BY <3>2
      <4>2. Kind(Body(q).of, "handoff") = Kind(Body(b).of, "handoff")
        BY <1>1, <3>2, <4>1 DEF BundleOf
      <4>3. p \in Kind(Body(q).of, "handoff")
        BY <1>2, <3>1 DEF Kind, KindOf
      <4> QED BY <4>2, <4>3 DEF Kind
    <3> QED BY <1>2, <2>2, <2>3, <3>1, <3>2
  <2>6. KindOf(p) = "powfreeze" => Body(p).genesis = Body(b).genesis
    BY <1>2, <2>1, <2>2 DEF Compared, GenesisOf
  <2>7. KindOf(p) = "powgate" => Body(p).ok /\ Body(p).genesis = Body(b).genesis
    BY <1>2, <2>1, <2>2 DEF Compared, GenesisOf
  <2>8. KindOf(p) = "powhost" => Body(p).genesis = Body(b).genesis
    BY <1>2, <2>1, <2>2 DEF Compared, GenesisOf
  <2> QED BY <2>1, <2>2, <2>4, <2>5, <2>6, <2>7, <2>8
<1>3. Behind(b) \subseteq K
  <2>1. \A q \in K : q \in AllRefs /\ "of" \in DOMAIN Body(q) => Body(q).of \subseteq K
    BY <1>2
  <2>2. b \in K
    BY <1>1
  <2> HIDE DEF K
  <2> QED BY <1>1, <2>1, <2>2, BehindClosed
<1> QED BY <1>1, <1>3 DEF BundleOf

LEMMA BundlesSafe == CampaignInv => ReadyBundleIsOneChain
<1> SUFFICES ASSUME CampaignInv, NEW b \in RefsOf("powbundle")
             PROVE  /\ \A q \in Behind(b) :
                         q[1][1] \in {"handoff", "powfreeze", "powgate", "powhost", "deployment"}
                           => Body(q).genesis = Body(b).genesis
                    /\ AllSay(Kind(Behind(b), "deployment"), "commit", Body(b).commit)
                    /\ \A review \in Kind(Body(b).of, "algoreview") :
                         /\ Kind(Body(review).of, "handoff") = Kind(Body(b).of, "handoff")
                         /\ \A d \in Kind(Body(review).of, "algorithm") :
                              /\ Body(d).choice # "hold"
                              /\ Passed(Body(d).of)
                              /\ Body(d).choice = "randomx"
                                   => \E a \in Kind(Body(review).of, "activation") :
                                        Body(a).of = {d}
  BY DEF ReadyBundleIsOneChain
<1>1. \A q \in Behind(b) :
        q[1][1] \in {"handoff", "powfreeze", "powgate", "powhost", "deployment"}
          => Body(q).genesis = Body(b).genesis
  BY BehindBundle DEF KindOf
<1>2. AllSay(Kind(Behind(b), "deployment"), "commit", Body(b).commit)
  BY BehindBundle DEF AllSay, Kind, KindOf
<1>3. /\ b \in AllRefs /\ KindOf(b) = "powbundle" /\ BundleOf(Body(b))
      /\ WellNamed("powbundle", Body(b))
  BY ReadFacts DEF Compared
<1>4. ASSUME NEW review \in Kind(Body(b).of, "algoreview")
      PROVE  /\ Kind(Body(review).of, "handoff") = Kind(Body(b).of, "handoff")
             /\ \A d \in Kind(Body(review).of, "algorithm") :
                  /\ Body(d).choice # "hold"
                  /\ Passed(Body(d).of)
                  /\ Body(d).choice = "randomx"
                       => \E a \in Kind(Body(review).of, "activation") : Body(a).of = {d}
  <2>1. review \in AllRefs /\ KindOf(review) = "algoreview" /\ review \in Body(b).of
    BY <1>3, PowInputsAre DEF Kind, KindOf, WellNamed
  <2>2. ReviewOf(Body(review)) /\ WellNamed("algoreview", Body(review))
    BY <2>1 DEF CampaignInv, Fitting, Compared
  <2>3. Kind(Body(review).of, "handoff") = Kind(Body(b).of, "handoff")
    BY <1>3, <2>1 DEF BundleOf
  <2>4. ASSUME NEW d \in Kind(Body(review).of, "algorithm")
        PROVE  /\ Body(d).choice # "hold"
               /\ Passed(Body(d).of)
               /\ Body(d).choice = "randomx"
                    => \E a \in Kind(Body(review).of, "activation") : Body(a).of = {d}
    <3>1. d \in AllRefs /\ d \in Body(review).of /\ KindOf(d) = "algorithm"
      BY <2>2, PowInputsAre DEF Kind, KindOf, WellNamed
    <3>2. Body(d).choice # "hold"
      BY <2>2, <3>1 DEF ReviewOf
    <3>3. Passed(Body(d).of)
      BY <3>1, <3>2 DEF CampaignInv, Fitting, Compared
    <3>4. Body(d).choice = "randomx"
            => \E a \in Kind(Body(review).of, "activation") : Body(a).of = {d}
      BY <2>2, <3>1 DEF ReviewOf, Kind, KindOf
    <3> QED BY <3>2, <3>3, <3>4
  <2> QED BY <2>3, <2>4
<1> QED BY <1>1, <1>2, <1>4

(***************************************************************************)
(* Whatever the people type, however many of them, whichever files they    *)
(* name and however often a command is run again: a decision, a freeze or  *)
(* a bundle rests on files of one candidate all the way down.  What a      *)
(* sample that failed saw is not among them, though a soak that passed may *)
(* count the sample.                                                       *)
(***************************************************************************)
THEOREM CampaignRestsOnOneCandidate == CampaignSpec => []OneCandidateThroughout
<1>1. CampaignInv => OneCandidateThroughout
  BY LaunchSafe, BundlesSafe DEF OneCandidateThroughout
<1> QED BY <1>1, CampaignSafe, PTL

(***************************************************************************)
(* ... and each gate it passed had its quorum of different people, hosts   *)
(* and keys, and a passed retest of that commit for every finding.  The    *)
(* launch rehearsal has enough keys only if its minimum was left as it is; *)
(* behind a soak is the share of samples asked for, none of which saw two  *)
(* states, and those that passed have their quorum.                        *)
(***************************************************************************)
THEOREM CampaignGatesAreBacked == CampaignSpec => []GatesAreBacked
<1>1. CampaignInv => GatesAreBacked
  BY QuorumsSafe, RetestsSafe DEF GatesAreBacked
<1> QED BY <1>1, CampaignSafe, PTL
=============================================================================

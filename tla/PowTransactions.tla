-------------------------- MODULE PowTransactions --------------------------
(***************************************************************************)
(* The UTXO rules shared by the linear chain of pow_v31.py and by the fork *)
(* choice of pow_network_v32.py, which replays branches through the same   *)
(* PowChain code.                                                          *)
(*                                                                         *)
(* A txid is a hash of the whole transaction, so a transaction is its own  *)
(* txid here: a regular transaction is an element of Tx, a coinbase is     *)
(* <<height, address, value>>, the fields that distinguish two coinbase    *)
(* transactions (the free-text message is constant).  An outpoint is       *)
(* <<txid, vout>>, vout counting from 1.  Signatures are abstracted: the   *)
(* elements of Tx are transactions whose owners did sign them.             *)
(*                                                                         *)
(* An input names its outpoint in letters that its sender chooses, and     *)
(* they enter the transaction's own txid.  Validation lowers them before   *)
(* it looks the outpoint up: TxIn is the lowered form.  What other code    *)
(* compares as it is written is told apart by Spelling.                    *)
(***************************************************************************)
EXTENDS Integers, Sequences, FiniteSets, FiniteSetsExt

CONSTANTS
  Tx,                 \* regular transactions
  TxIn,               \* Tx -> the set of outpoints it spends
  Spelling,           \* Tx -> its inputs' letters: 0 is lower case, as stored
  TxOut,              \* Tx -> the sequence of its output amounts
  Address,            \* addresses a coinbase may pay
  InitialSubsidy,
  HalvingInterval,
  CoinbaseMaturity,
  MaxTxPerBlock       \* max_transactions_per_block, the coinbase included

Coinbase == (Nat \ {0}) \X Address \X Nat
Outpoint == (Tx \cup Coinbase) \X (Nat \ {0})

\* No transaction has the form of a coinbase: is_coinbase() separates them by
\* a field that enters the hash.
ASSUME TxAssumption ==
  /\ IsFiniteSet(Tx)
  /\ Tx \cap Coinbase = {}
  /\ TxIn \in [Tx -> SUBSET Outpoint]
  /\ \A t \in Tx : TxIn[t] # {} /\ IsFiniteSet(TxIn[t])
  /\ TxOut \in [Tx -> Seq(Nat \ {0})]
  /\ \A t \in Tx : Spelling[t] \in [TxIn[t] -> Nat]

ASSUME ConfigAssumption ==
  /\ InitialSubsidy \in Nat
  /\ HalvingInterval \in Nat \ {0}
  /\ CoinbaseMaturity \in Nat
  /\ MaxTxPerBlock \in Nat \ {0}

-----------------------------------------------------------------------------
(* Amounts and fees.                                                       *)

TxidOf(op) == op[1]
Outputs(t) == { <<t, n>> : n \in DOMAIN TxOut[t] }
CoinbaseOutput(cb) == <<cb, 1>>

\* The amount column of a utxos row is a function of its outpoint; an input may
\* also name an output that no transaction has.
Amount(op) ==
  LET t == TxidOf(op) IN
  IF t \notin Tx THEN t[3]
  ELSE IF op[2] \in DOMAIN TxOut[t] THEN TxOut[t][op[2]] ELSE 0

\* Sum of the amounts of a finite set of outpoints.
AmountSum(ops) == MapThenSumSet(Amount, ops)

Fee(t) == AmountSum(TxIn[t]) - AmountSum(Outputs(t))

\* Fees of the transactions s[1], ..., s[Len(s)].
Fees(s) ==
  LET sum[n \in 0..Len(s)] == IF n = 0 THEN 0 ELSE sum[n - 1] + Fee(s[n])
  IN  sum[Len(s)]

\* initial_subsidy >> (height // halving_interval), and 0 after 64 halvings.
Halved(n) ==
  LET shifted[i \in 0..n] == IF i = 0 THEN InitialSubsidy ELSE shifted[i - 1] \div 2
  IN  shifted[n]

Subsidy(h) ==
  LET halvings == h \div HalvingInterval
  IN  IF halvings >= 64 THEN 0 ELSE Halved(halvings)

-----------------------------------------------------------------------------
(* Validity against a UTXO table.                                          *)

Mature(op, spendHeight) ==
  TxidOf(op) \in Coinbase => spendHeight - TxidOf(op)[1] >= CoinbaseMaturity

\* validate_transaction without the mempool policy: every input is an unspent
\* and mature row, and the outputs do not exceed the inputs.
ValidTx(t, utxos, spendHeight) ==
  /\ TxIn[t] \subseteq utxos
  /\ \A op \in TxIn[t] : Mature(op, spendHeight)
  /\ TxOut[t] # << >>
  /\ Fee(t) >= 0

SpentBy(txs) == UNION { TxIn[t] : t \in txs }

\* The outpoints that t names as the tables do.  The query for any other name
\* finds no row.
Plain(t) == { op \in TxIn[t] : Spelling[t][op] = 0 }

\* What a lowered outpoint is compared with: the mempool's inputs as written.
MempoolSpent(mempool) == UNION { Plain(t) : t \in mempool }

\* The inputs as written, for code that lowers neither side of a comparison.
Written(t) == { <<op, Spelling[t][op]>> : op \in TxIn[t] }

\* The overlay that _validate_block_transactions holds when it reaches s[i].
Overlay(utxos, s, i) ==
  (utxos \cup UNION { Outputs(s[j]) : j \in 1..(i - 1) })
     \ UNION { TxIn[s[j]] : j \in 1..(i - 1) }

\* The loop over the regular transactions of a block at height h.
\* (Mutant: maturity is that of the next height.)
ConnectsEarly(utxos, h, s) ==
  \A i \in 1..Len(s) :
    /\ TxIn[s[i]] \subseteq Overlay(utxos, s, i)
    /\ \A op \in TxIn[s[i]] : Mature(op, h + 1)
    /\ Fee(s[i]) >= 0

Connects(utxos, h, s) ==
  \A i \in 1..Len(s) :
    /\ TxIn[s[i]] \subseteq Overlay(utxos, s, i)
    /\ \A op \in TxIn[s[i]] : Mature(op, h)
    /\ Fee(s[i]) >= 0

InsOf(s)  == UNION { TxIn[s[i]] : i \in 1..Len(s) }
OutsOf(s) == UNION { Outputs(s[i]) : i \in 1..Len(s) }

\* The `spent` and `created` lists: an output created and spent in the same
\* block is on neither.
\* (Mutant: such an output is inserted all the same.)
CreatedAll(s) == OutsOf(s)

Spent(s)   == InsOf(s) \ OutsOf(s)
Created(s) == OutsOf(s) \ InsOf(s)

\* The utxos table after the DELETEs and INSERTs of submit_block.
Applied(utxos, s, cb) == (utxos \ Spent(s)) \cup Created(s) \cup {CoinbaseOutput(cb)}

TxsOf(s) == { s[i] : i \in 1..Len(s) }

\* The coinbase rule: its outputs are worth exactly subsidy plus fees.
\* (Mutant: worth at least that.)
CoinbaseEnough(h, s, value) == value >= Subsidy(h) + Fees(s)

CoinbaseExact(h, s, value) == value = Subsidy(h) + Fees(s)
=============================================================================

------------------------------ MODULE PoolPayout ------------------------------
(***************************************************************************)
(* Payouts of the mining pool: pool_payout_v34.py.  Every command is a     *)
(* process of its own (cli_v34.py) that opens the pool's database and the  *)
(* node's.  Its SELECTs are separate reads; meanwhile the pool credits     *)
(* miners, the node mines and reorganizes, and another operator may run a  *)
(* command.  Only the INSERT of a plan, the UPDATE of mark_submitted and   *)
(* the transaction of reconcile_payout_plan are atomic.                    *)
(*                                                                         *)
(* A plan is its payout transaction, whose txid is UNIQUE in the table:    *)
(* [payouts, coins, fee], signed by the one hot wallet.  A coin of that    *)
(* wallet is [id, amount]; the change of a plan is a coin whose id is the  *)
(* plan.  All coins are mature.                                            *)
(***************************************************************************)
EXTENDS Integers, SequencesExt

CONSTANTS
  MinerOrder,      \* payout addresses, sorted
  Operator,        \* operators that may run a command at the same time
  Argument,        \* arguments of build: [minimum, fee, maxTotal, recipients]
  WalletCoin,      \* coins of the hot wallet at the start
  Confirmations,   \* minimum_confirmations
  Credit,          \* amounts the pool may credit to a miner
  MaxCredits,      \* bound of the model: number of credits
  MaxPlans,        \* bound of the model: number of plans
  MaxTip           \* bound of the model: height of the chain

Miner == ToSet(MinerOrder)

ASSUME PayoutAssumption ==
  /\ MinerOrder \in Seq(Miner)
  /\ Argument \subseteq [minimum : Nat \ {0}, fee : Nat, maxTotal : Nat \ {0},
                         recipients : Nat \ {0}]
  /\ IsFiniteSet(WalletCoin) /\ \A c \in WalletCoin : c.amount \in Nat
  /\ Confirmations \in Nat \ {0}
  /\ Credit \subseteq Nat
  /\ MaxTip \in Nat

VARIABLES
  balance,      \* balances table: miner -> pending_amount
  plans,        \* payout_plans_v34 table: plan -> its state
  coins,        \* node: unspent outputs of the hot wallet
  mempool,      \* node: pending payout transactions
  confirmed,    \* node: confirmed payout transaction -> its height
  tip,          \* node: height of the tip
  command,      \* operator -> the command it runs
  credited,     \* history: sum of what the pool credited to each miner
  credits,      \* history: number of credits
  overlapped,   \* history: two commands have run at the same time
  torn          \* history: a reorganization came between the two reads of the
                \* node by a reconcile_payout_plan

vars == <<balance, plans, coins, mempool, confirmed, tip, command, credited,
          credits, overlapped, torn>>

pool  == <<balance, plans, credited, credits>>
node  == <<coins, mempool, confirmed, tip>>

Idle == [pc |-> "idle"]

Sum(f(_), S) == MapThenSumSet(f, S)
PayoutTotal(p) == Sum(LAMBDA m : p.payouts[m], Miner)
CoinTotal(cs) == Sum(LAMBDA c : c.amount, cs)
Change(p) == CoinTotal(p.coins) - PayoutTotal(p) - p.fee
ChangeCoins(p) == IF Change(p) = 0 THEN {} ELSE {[id |-> p, amount |-> Change(p)]}

-----------------------------------------------------------------------------
Init ==
  /\ balance = [m \in Miner |-> 0]
  /\ plans = [p \in {} |-> "built"]
  /\ coins = WalletCoin
  /\ mempool = {}
  /\ confirmed = [p \in {} |-> 0]
  /\ tip = 0
  /\ command = [o \in Operator |-> Idle]
  /\ credited = [m \in Miner |-> 0]
  /\ credits = 0
  /\ overlapped = FALSE
  /\ torn = FALSE

\* A command starts.
Start(o, frame) ==
  /\ command[o] = Idle
  /\ command' = [command EXCEPT ![o] = frame]
  /\ overlapped' = (overlapped \/ \E q \in Operator : command[q] # Idle)

-----------------------------------------------------------------------------
(* build_payout_plan.                                                      *)

\* The command reads the balances ...
BuildReadBalances(o) ==
  /\ Cardinality(DOMAIN plans) < MaxPlans
  /\ \E arg \in Argument : Start(o, [pc |-> "reserved", arg |-> arg, balances |-> balance])
  /\ UNCHANGED <<pool, node, torn>>

\* ... and what the open plans reserve.
Open(p) == plans[p] \in {"built", "submitted"}

Reserved(m) == Sum(LAMBDA p : p.payouts[m], { p \in DOMAIN plans : Open(p) })

\* The claims that reach the threshold, the first `recipients` of them.
ClaimOf(balances, arg) ==
  LET free[m \in Miner] == Max({0, balances[m] - Reserved(m)})
      due(i) == free[MinerOrder[i]] >= arg.minimum
      rank(i) == Cardinality({ j \in 1..i : due(j) })
  IN  [i \in 1..Len(MinerOrder) |->
         IF due(i) /\ rank(i) <= arg.recipients THEN free[MinerOrder[i]] ELSE 0]

BuildReadReserved(o) ==
  /\ command[o].pc = "reserved"
  /\ LET claim == ClaimOf(command[o].balances, command[o].arg) IN
     command' = [command EXCEPT ![o] =
       IF \E i \in DOMAIN claim : claim[i] > 0
       THEN [pc |-> "coins", arg |-> @.arg, claim |-> claim] ELSE Idle]
  /\ UNCHANGED <<pool, node, overlapped, torn>>

\* The claims are served in order as far as the budget goes; a payout below the
\* threshold is not made.
Payouts(claim, budget, minimum) ==
  LET left[i \in 0..Len(claim)] ==
        IF i = 0 THEN budget
        ELSE LET amount == Min({claim[i], left[i - 1]})
             IN  IF amount < minimum THEN left[i - 1] ELSE left[i - 1] - amount
  IN  [m \in Miner |-> LET i == CHOOSE j \in 1..Len(MinerOrder) : MinerOrder[j] = m
                       IN  left[i - 1] - left[i]]

\* The coins are taken in order of amount until they cover what is required.
Covers(cs, required) ==
  /\ CoinTotal(cs) >= required
  /\ \A c \in cs, d \in coins \ cs : c.amount >= d.amount
  /\ \E c \in cs : CoinTotal(cs \ {c}) < required /\ \A d \in cs : c.amount <= d.amount

\* get_utxos(wallet), and the transaction.
BuildReadCoins(o) ==
  /\ command[o].pc = "coins"
  /\ LET arg == command[o].arg
         payouts == Payouts(command[o].claim, Min({CoinTotal(coins) - arg.fee, arg.maxTotal}),
                            arg.minimum)
         required == Sum(LAMBDA m : payouts[m], Miner) + arg.fee
     IN  IF CoinTotal(coins) > arg.fee /\ \E m \in Miner : payouts[m] > 0
         THEN \E cs \in SUBSET coins :
                /\ Covers(cs, required)
                /\ command' = [command EXCEPT ![o] =
                     [pc |-> "insert", plan |-> [payouts |-> payouts, coins |-> cs, fee |-> arg.fee]]]
         ELSE command' = [command EXCEPT ![o] = Idle]
  /\ UNCHANGED <<pool, node, overlapped, torn>>

\* INSERT, or IntegrityError if the same transaction has a plan already.
BuildInsert(o) ==
  /\ command[o].pc = "insert"
  /\ plans' = IF command[o].plan \in DOMAIN plans THEN plans
              ELSE [p \in DOMAIN plans \cup {command[o].plan} |->
                      IF p \in DOMAIN plans THEN plans[p] ELSE "built"]
  /\ command' = [command EXCEPT ![o] = Idle]
  /\ UNCHANGED <<balance, credited, credits, node, overlapped, torn>>

-----------------------------------------------------------------------------
(* mark_submitted.                                                         *)

MarkRead(o) ==
  /\ \E p \in DOMAIN plans :
       plans[p] # "finalized" /\ Start(o, [pc |-> "mark", plan |-> p])
  /\ UNCHANGED <<pool, node, torn>>

MarkWrite(o) ==
  /\ command[o].pc = "mark"
  /\ plans' = [plans EXCEPT ![command[o].plan] = "submitted"]
  /\ command' = [command EXCEPT ![o] = Idle]
  /\ UNCHANGED <<balance, credited, credits, node, overlapped, torn>>

-----------------------------------------------------------------------------
(* reconcile_payout_plan.                                                  *)

\* SELECT the plan; a finalized one is left alone.
\* (Mutant: it is not.)
ReconcileAny(o) ==
  /\ \E p \in DOMAIN plans : Start(o, [pc |-> "height", plan |-> p])
  /\ UNCHANGED <<pool, node, torn>>

ReconcileRead(o) ==
  /\ \E p \in DOMAIN plans :
       plans[p] # "finalized" /\ Start(o, [pc |-> "height", plan |-> p])
  /\ UNCHANGED <<pool, node, torn>>

\* SELECT block_height: an unconfirmed transaction ends the command.
ReconcileReadHeight(o) ==
  /\ command[o].pc = "height"
  /\ LET p == command[o].plan IN
     command' = [command EXCEPT ![o] =
       IF p \in DOMAIN confirmed THEN [pc |-> "tip", plan |-> p, height |-> confirmed[p]]
                                 ELSE Idle]
  /\ UNCHANGED <<pool, node, overlapped, torn>>

\* chain.tip(): so does too little depth.
\* (Mutant: one confirmation fewer.)
DeepEnoughLess(height) == tip - height + 1 >= Confirmations - 1

DeepEnough(height) == tip - height + 1 >= Confirmations

ReconcileReadTip(o) ==
  /\ command[o].pc = "tip"
  /\ command' = [command EXCEPT ![o] =
       IF DeepEnough(@.height) THEN [pc |-> "debit", plan |-> @.plan] ELSE Idle]
  /\ UNCHANGED <<pool, node, overlapped, torn>>

\* BEGIN IMMEDIATE: all debits and the new state, or a rollback if one balance is
\* too small.
Debit(o) ==
  /\ command[o].pc = "debit"
  /\ LET p == command[o].plan IN
     IF \A m \in Miner : balance[m] >= p.payouts[m]
     THEN /\ balance' = [m \in Miner |-> balance[m] - p.payouts[m]]
          /\ plans' = [plans EXCEPT ![p] = "finalized"]
     ELSE UNCHANGED <<balance, plans>>
  /\ command' = [command EXCEPT ![o] = Idle]
  /\ UNCHANGED <<credited, credits, node, overlapped, torn>>

-----------------------------------------------------------------------------
(* The pool and the node.                                                  *)

\* credit_pplns for one miner.
CreditMiner(m) ==
  /\ credits < MaxCredits
  /\ \E amount \in Credit :
       /\ balance' = [balance EXCEPT ![m] = @ + amount]
       /\ credited' = [credited EXCEPT ![m] = @ + amount]
  /\ credits' = credits + 1
  /\ UNCHANGED <<plans, node, command, overlapped, torn>>

\* The operator exports the transaction of a plan and submits it to the node.
SubmitPayout(p) ==
  /\ p \notin DOMAIN confirmed
  /\ p \notin mempool
  /\ p.coins \subseteq coins
  /\ \A q \in mempool : p.coins \cap q.coins = {}
  /\ mempool' = mempool \cup {p}
  /\ UNCHANGED <<pool, coins, confirmed, tip, command, overlapped, torn>>

\* A block confirms some of the pending transactions.
MineBlock ==
  /\ tip < MaxTip
  /\ tip' = tip + 1
  /\ \E txs \in SUBSET mempool :
       /\ confirmed' = [p \in DOMAIN confirmed \cup txs |->
                          IF p \in txs THEN tip + 1 ELSE confirmed[p]]
       /\ mempool' = mempool \ txs
       /\ coins' = (coins \ UNION { p.coins : p \in txs })
                     \cup UNION { ChangeCoins(p) : p \in txs }
  /\ UNCHANGED <<pool, command, overlapped, torn>>

\* The last block is replaced by two; its payouts return to the mempool, and what
\* spends their change is dropped.
Reorganize ==
  /\ tip > 0
  /\ tip < MaxTip
  /\ tip' = tip + 1
  /\ LET undone == { p \in DOMAIN confirmed : confirmed[p] = tip }
         unspent == (coins \ UNION { ChangeCoins(p) : p \in undone })
                      \cup UNION { p.coins : p \in undone }
     IN  /\ confirmed' = [p \in DOMAIN confirmed \ undone |-> confirmed[p]]
         /\ coins' = unspent
         /\ mempool' = { p \in mempool \cup undone : p.coins \subseteq unspent }
  /\ torn' = (torn \/ \E o \in Operator : command[o].pc = "tip")
  /\ UNCHANGED <<pool, command, overlapped>>

-----------------------------------------------------------------------------
Build(o) ==
  BuildReadBalances(o) \/ BuildReadReserved(o) \/ BuildReadCoins(o) \/ BuildInsert(o)

Mark(o) == MarkRead(o) \/ MarkWrite(o)

Reconcile(o) ==
  ReconcileRead(o) \/ ReconcileReadHeight(o) \/ ReconcileReadTip(o) \/ Debit(o)

Chain ==
  (\E p \in DOMAIN plans : SubmitPayout(p)) \/ MineBlock \/ Reorganize

Next ==
  \/ \E o \in Operator : Build(o) \/ Mark(o) \/ Reconcile(o)
  \/ \E m \in Miner : CreditMiner(m)
  \/ Chain

Spec == Init /\ [][Next]_vars

-----------------------------------------------------------------------------
(* Properties.                                                             *)

IsPlan(p) ==
  /\ p.payouts \in [Miner -> Nat]
  /\ p.fee \in Nat
  /\ \A c \in p.coins : c.amount \in Nat

\* The tables hold values of their kind; no balance is ever negative, even if
\* commands overlap in any way.
TypeOK ==
  /\ balance \in [Miner -> Nat]
  /\ plans \in [DOMAIN plans -> {"built", "submitted", "finalized"}]
  /\ \A p \in DOMAIN plans : IsPlan(p)
  /\ mempool \subseteq DOMAIN plans
  /\ confirmed \in [DOMAIN confirmed -> 1..tip]
  /\ DOMAIN confirmed \subseteq DOMAIN plans
  /\ tip \in Nat
  /\ \A o \in Operator :
       command[o].pc \in {"idle", "reserved", "coins", "insert", "mark", "height", "tip", "debit"}

\* V0.34.md: "pending payout reservation so the same PPLNS claim is not planned
\* twice": together the open plans promise no miner more than its balance.
ClaimPlannedOnce == \A m \in Miner : Reserved(m) <= balance[m]

\* It holds as long as no two commands overlap, whatever the pool and the node do
\* during a command.
ClaimPlannedOnceAlone == ~overlapped => ClaimPlannedOnce

\* V0.34.md: "idempotent payout finalization": however often the plans are
\* reconciled, as long as no two commands overlap, a miner is debited exactly what the
\* finalized plans pay it, once each.
DebitedOnceAlone ==
  ~overlapped =>
    \A m \in Miner :
      credited[m] - balance[m]
        = Sum(LAMBDA p : p.payouts[m], { p \in DOMAIN plans : plans[p] = "finalized" })

\* The two together: overlapping commands apart, a claim is planned and paid once.
PaidOnceAlone == ClaimPlannedOnceAlone /\ DebitedOnceAlone

\* V0.34.md: "Only after the transaction is confirmed to the configured depth
\* does reconciliation debit the internal PPLNS balances".  With reorganizations
\* of one block and Confirmations > 1, the payouts of a finalized plan are
\* therefore on the chain.
FinalizedIsConfirmed ==
  \A p \in DOMAIN plans : plans[p] = "finalized" => p \in DOMAIN confirmed

\* It holds unless a reorganization comes between the read of the transaction's
\* height and the read of the tip.
FinalizedIsConfirmedUntorn == ~torn => FinalizedIsConfirmed
=============================================================================

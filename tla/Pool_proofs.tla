------------------------------ MODULE Pool_proofs ------------------------------
(***************************************************************************)
(* The pool: its payout commands and its mining, for any miners,           *)
(* operators, addresses, arguments, coins, templates and bounds.           *)
(*                                                                         *)
(* Payouts.  DepthRespected: no plan is finalized before its transaction   *)
(* is buried, whatever commands overlap, provided that no reorganization   *)
(* comes between the two reads of the node.  TypeCorrect and PaidOnce: as  *)
(* long as no two commands overlapped, no miner is promised more than was  *)
(* credited, and balances have lost exactly what finalized plans pay.      *)
(* Neither property is inductive: what a running command has read must     *)
(* still be true.  IInv says so of the two reads of the node, PaidInv of   *)
(* the reads of balances and plans, and that coins and claims cover what a *)
(* plan about to be stored pays.                                           *)
(*                                                                         *)
(* Mining.  RewardsDistributed, CountedOnce, AcceptedAreCredited and       *)
(* ReservedHaveShares: balances are what the credited blocks earned, no    *)
(* submission counts twice, and what the node accepted and the miners      *)
(* reserved has been credited and counted, with the named exceptions.      *)
(* MiningInv adds to them what is true while a submission runs: its key is *)
(* reserved and not yet counted, and no other accepted block has that key. *)
(***************************************************************************)
EXTENDS PoolPayout, PowPool, FiniteSetTheorems, FunctionTheorems, TLAPS

\* The transaction of p has a block on top of it.
Buried(p) == p \in DOMAIN confirmed /\ confirmed[p] < tip

\* What a command has read of the node is true.
ReadsTrue(c) ==
  /\ c.pc = "tip"   => c.plan \in DOMAIN confirmed /\ c.height = confirmed[c.plan]
  /\ c.pc = "debit" => Buried(c.plan)

AllReadsTrue == \A o \in Operator : ReadsTrue(command[o])

FinalizedAreBuried == \A p \in DOMAIN plans : plans[p] = "finalized" => Buried(p)

\* Heights are heights of the chain, and no confirmed transaction is pending.
NodeInv ==
  /\ tip \in Nat
  /\ confirmed = [p \in DOMAIN confirmed |-> confirmed[p]]
  /\ \A p \in DOMAIN confirmed : confirmed[p] \in Nat /\ confirmed[p] <= tip
  /\ mempool \cap DOMAIN confirmed = {}

CommandInv == command = [o \in Operator |-> command[o]]

IInv ==
  /\ NodeInv
  /\ CommandInv
  /\ torn \in BOOLEAN
  /\ ~torn => AllReadsTrue /\ FinalizedAreBuried

-----------------------------------------------------------------------------
\* The invariant holds before the first block and the first plan.
LEMMA InitInv == Init => IInv
<1> SUFFICES ASSUME Init
             PROVE  IInv
  OBVIOUS
<1>1. DOMAIN confirmed = {} /\ DOMAIN plans = {}
  BY DEF Init
<1>2. NodeInv
  BY <1>1 DEF Init, NodeInv
<1>3. CommandInv /\ torn \in BOOLEAN
  BY DEF Init, CommandInv
<1>4. AllReadsTrue
  BY DEF Init, AllReadsTrue, ReadsTrue, Idle
<1>5. FinalizedAreBuried
  BY <1>1 DEF FinalizedAreBuried
<1> QED BY <1>2, <1>3, <1>4, <1>5 DEF IInv

\* A command that reads neither the height nor the tip and finalizes nothing: its
\* next frame claims nothing of the node.
LEMMA OtherCommand ==
  ASSUME IInv, NEW o \in Operator, NEW frame,
         frame.pc \notin {"tip", "debit"},
         command' = [command EXCEPT ![o] = frame],
         \A p \in DOMAIN plans' : plans'[p] = "finalized" =>
            p \in DOMAIN plans /\ plans[p] = "finalized",
         UNCHANGED <<confirmed, mempool, tip, torn>>
  PROVE  IInv'
<1>1. NodeInv' /\ CommandInv' /\ torn' \in BOOLEAN
  BY DEF IInv, NodeInv, CommandInv
<1>2. ASSUME ~torn'
      PROVE  AllReadsTrue' /\ FinalizedAreBuried'
  <2>1. AllReadsTrue /\ FinalizedAreBuried
    BY <1>2 DEF IInv
  <2>2. ASSUME NEW q \in Operator
        PROVE  ReadsTrue(command[q])'
    <3>1. CASE q = o
      BY <3>1 DEF IInv, CommandInv, ReadsTrue
    <3>2. CASE q # o
      <4>1. command'[q] = command[q]
        BY <3>2 DEF IInv, CommandInv
      <4> QED BY <2>1, <4>1 DEF AllReadsTrue, ReadsTrue, Buried
    <3> QED BY <3>1, <3>2
  <2>3. FinalizedAreBuried'
    BY <2>1 DEF FinalizedAreBuried, Buried
  <2> QED BY <2>2, <2>3 DEF AllReadsTrue
<1> QED BY <1>1, <1>2 DEF IInv

\* Building a plan preserves the invariant.
LEMMA BuildStep ==
  ASSUME IInv, NEW o \in Operator, Build(o)
  PROVE  IInv'
<1>1. CASE BuildReadBalances(o)
  <2>1. PICK arg \in Argument :
          Start(o, [pc |-> "reserved", arg |-> arg, balances |-> balance])
    BY <1>1 DEF BuildReadBalances
  <2>2. command' = [command EXCEPT ![o] =
                      [pc |-> "reserved", arg |-> arg, balances |-> balance]]
    BY <2>1 DEF Start
  <2> QED BY <1>1, <2>2, OtherCommand DEF BuildReadBalances, pool, node
<1>2. CASE BuildReadReserved(o)
  <2> DEFINE claim == ClaimOf(command[o].balances, command[o].arg)
             full  == [pc |-> "coins", arg |-> command[o].arg, claim |-> claim]
             next  == IF \E i \in DOMAIN claim : claim[i] > 0 THEN full ELSE Idle
  <2>1. command' = [command EXCEPT ![o] = next]
    BY <1>2 DEF BuildReadReserved
  <2>2. next.pc \notin {"tip", "debit"}
    <3> HIDE DEF claim
    <3> QED BY DEF Idle
  <2>3. UNCHANGED <<plans, confirmed, mempool, tip, torn>>
    BY <1>2 DEF BuildReadReserved, pool, node
  <2> HIDE DEF next
  <2> QED BY <2>1, <2>2, <2>3, OtherCommand
<1>3. CASE BuildReadCoins(o)
  <2> DEFINE full(payouts, cs) ==
               [pc |-> "insert",
                plan |-> [payouts |-> payouts, coins |-> cs, fee |-> command[o].arg.fee]]
  <2>1. UNCHANGED <<plans, confirmed, mempool, tip, torn>>
    BY <1>3 DEF BuildReadCoins, pool, node
  <2>2. CASE command' = [command EXCEPT ![o] = Idle]
    <3>1. Idle.pc \notin {"tip", "debit"}
      BY DEF Idle
    <3> QED BY <2>1, <2>2, <3>1, OtherCommand
  <2>3. ASSUME NEW payouts, NEW cs, command' = [command EXCEPT ![o] = full(payouts, cs)]
        PROVE  IInv'
    <3>1. full(payouts, cs).pc \notin {"tip", "debit"}
      OBVIOUS
    <3> HIDE DEF full
    <3> QED BY <2>1, <2>3, <3>1, OtherCommand
  <2>4. \/ command' = [command EXCEPT ![o] = Idle]
        \/ \E payouts, cs : command' = [command EXCEPT ![o] = full(payouts, cs)]
    BY <1>3, Zenon DEF BuildReadCoins
  <2> HIDE DEF full
  <2> QED BY <2>2, <2>3, <2>4
<1>4. CASE BuildInsert(o)
  BY <1>4, OtherCommand DEF BuildInsert, Idle, node
<1> QED BY <1>1, <1>2, <1>3, <1>4 DEF Build

\* So does marking one.
LEMMA MarkStep ==
  ASSUME IInv, NEW o \in Operator, Mark(o)
  PROVE  IInv'
<1>1. CASE MarkRead(o)
  <2>1. PICK p \in DOMAIN plans : Start(o, [pc |-> "mark", plan |-> p])
    BY <1>1 DEF MarkRead
  <2>2. command' = [command EXCEPT ![o] = [pc |-> "mark", plan |-> p]]
    BY <2>1 DEF Start
  <2> QED BY <1>1, <2>2, OtherCommand DEF MarkRead, pool, node
<1>2. CASE MarkWrite(o)
  BY <1>2, OtherCommand DEF MarkWrite, Idle, node
<1> QED BY <1>1, <1>2 DEF Mark

\* Reconciling a plan: the two reads establish what the debit relies on.
LEMMA ReconcileStep ==
  ASSUME IInv, Confirmations > 1, NEW o \in Operator, Reconcile(o)
  PROVE  IInv'
<1>1. CASE ReconcileRead(o)
  <2>1. PICK p \in DOMAIN plans : Start(o, [pc |-> "height", plan |-> p])
    BY <1>1 DEF ReconcileRead
  <2>2. command' = [command EXCEPT ![o] = [pc |-> "height", plan |-> p]]
    BY <2>1 DEF Start
  <2> QED BY <1>1, <2>2, OtherCommand DEF ReconcileRead, pool, node
<1>2. ASSUME UNCHANGED <<confirmed, mempool, tip, torn>>, CommandInv',
             \A q \in Operator \ {o} : command'[q] = command[q],
             ~torn /\ AllReadsTrue /\ FinalizedAreBuried =>
               ReadsTrue(command[o])' /\ FinalizedAreBuried'
      PROVE  IInv'
  <2>1. NodeInv' /\ torn' \in BOOLEAN
    BY <1>2 DEF IInv, NodeInv
  <2>2. ASSUME ~torn, NEW q \in Operator
        PROVE  ReadsTrue(command[q])'
    <3>1. AllReadsTrue /\ FinalizedAreBuried
      BY <2>2 DEF IInv
    <3>2. CASE q = o
      BY <1>2, <2>2, <3>1, <3>2
    <3>3. CASE q # o
      <4>1. command'[q] = command[q]
        BY <1>2, <3>3
      <4> QED BY <1>2, <3>1, <4>1 DEF AllReadsTrue, ReadsTrue, Buried
    <3> QED BY <3>2, <3>3
  <2>3. ~torn' => AllReadsTrue' /\ FinalizedAreBuried'
    BY <1>2, <2>2 DEF IInv, AllReadsTrue
  <2> QED BY <1>2, <2>1, <2>3 DEF IInv
<1>3. CASE ReconcileReadHeight(o)
  <2> DEFINE p == command[o].plan
             found == [pc |-> "tip", plan |-> p, height |-> confirmed[p]]
             next == IF p \in DOMAIN confirmed THEN found ELSE Idle
  <2>1. command' = [command EXCEPT ![o] = next]
    BY <1>3 DEF ReconcileReadHeight
  <2>2. command'[o] = next /\ CommandInv' /\ \A q \in Operator \ {o} : command'[q] = command[q]
    <3> HIDE DEF next
    <3> QED BY <2>1 DEF IInv, CommandInv
  <2>3. UNCHANGED <<plans, confirmed, mempool, tip, torn>>
    BY <1>3 DEF ReconcileReadHeight, pool, node
  <2>4. ReadsTrue(command[o])'
    BY <2>2, <2>3 DEF ReadsTrue, Idle
  <2>5. FinalizedAreBuried => FinalizedAreBuried'
    BY <2>3 DEF FinalizedAreBuried, Buried
  <2> HIDE DEF next
  <2> QED BY <1>2, <2>2, <2>3, <2>4, <2>5
<1>4. CASE ReconcileReadTip(o)
  <2> DEFINE c == command[o]
             deep == [pc |-> "debit", plan |-> c.plan]
             next == IF DeepEnough(c.height) THEN deep ELSE Idle
  <2>1. c.pc = "tip" /\ command' = [command EXCEPT ![o] = next]
    BY <1>4 DEF ReconcileReadTip
  <2>2. command'[o] = next /\ CommandInv' /\ \A q \in Operator \ {o} : command'[q] = command[q]
    <3> HIDE DEF next
    <3> QED BY <2>1 DEF IInv, CommandInv
  <2>3. UNCHANGED <<plans, confirmed, mempool, tip, torn>>
    BY <1>4 DEF ReconcileReadTip, pool, node
  <2>4. ASSUME AllReadsTrue
        PROVE  ReadsTrue(command[o])'
    <3>1. c.plan \in DOMAIN confirmed /\ c.height = confirmed[c.plan]
      BY <2>1, <2>4 DEF AllReadsTrue, ReadsTrue
    <3>2. CASE DeepEnough(c.height)
      <4>1. confirmed[c.plan] \in Nat /\ tip \in Nat /\ Confirmations \in Nat
        BY <3>1, PayoutAssumption DEF IInv, NodeInv
      <4>2. tip - confirmed[c.plan] + 1 >= Confirmations
        BY <3>1, <3>2 DEF DeepEnough
      <4>3. confirmed[c.plan] < tip
        BY <4>1, <4>2
      <4>4. next = deep
        BY <3>2
      <4> QED BY <2>2, <2>3, <3>1, <4>3, <4>4 DEF ReadsTrue, Buried
    <3>3. CASE ~DeepEnough(c.height)
      BY <2>2, <3>3 DEF ReadsTrue, Idle
    <3> QED BY <3>2, <3>3
  <2>5. FinalizedAreBuried => FinalizedAreBuried'
    BY <2>3 DEF FinalizedAreBuried, Buried
  <2> HIDE DEF next, c
  <2> QED BY <1>2, <2>2, <2>3, <2>4, <2>5
<1>5. CASE Debit(o)
  <2>1. /\ command[o].pc = "debit"
        /\ command' = [command EXCEPT ![o] = Idle]
        /\ UNCHANGED <<confirmed, mempool, tip, torn>>
        /\ plans' = plans \/ plans' = [plans EXCEPT ![command[o].plan] = "finalized"]
    BY <1>5 DEF Debit, node
  <2>2. command'[o] = Idle /\ CommandInv' /\ \A q \in Operator \ {o} : command'[q] = command[q]
    BY <2>1 DEF IInv, CommandInv
  <2>3. ReadsTrue(command[o])'
    BY <2>2 DEF ReadsTrue, Idle
  <2>4. ASSUME AllReadsTrue, FinalizedAreBuried
        PROVE  FinalizedAreBuried'
    <3>1. Buried(command[o].plan)
      BY <2>1, <2>4 DEF AllReadsTrue, ReadsTrue
    <3> QED BY <2>1, <2>4, <3>1 DEF FinalizedAreBuried, Buried
  <2> QED BY <1>2, <2>1, <2>2, <2>3, <2>4
<1> QED BY <1>1, <1>3, <1>4, <1>5 DEF Reconcile

\* The node: a block above the others, or two in the place of the last one, leave
\* what is buried where it is.
LEMMA ChainStep ==
  ASSUME IInv, Chain
  PROVE  IInv'
<1>1. UNCHANGED <<plans, command>> /\ CommandInv'
  BY DEF Chain, SubmitPayout, MineBlock, Reorganize, pool, IInv, CommandInv
<1>2. ASSUME NodeInv', torn' \in BOOLEAN, ~torn' => ~torn,
             ~torn' => \A p : Buried(p) => Buried(p)',
             ~torn' => \A o \in Operator : command[o].pc = "tip" =>
               (\A p \in DOMAIN confirmed : p \in DOMAIN confirmed' /\ confirmed'[p] = confirmed[p])
      PROVE  IInv'
  <2>1. ASSUME ~torn'
        PROVE  AllReadsTrue' /\ FinalizedAreBuried'
    <3>1. AllReadsTrue /\ FinalizedAreBuried
      BY <1>2, <2>1 DEF IInv
    <3>2. AllReadsTrue'
      BY <1>1, <1>2, <2>1, <3>1 DEF AllReadsTrue, ReadsTrue
    <3>3. FinalizedAreBuried'
      BY <1>1, <1>2, <2>1, <3>1 DEF FinalizedAreBuried
    <3> QED BY <3>2, <3>3
  <2> QED BY <1>1, <1>2, <2>1 DEF IInv
<1>3. ASSUME NEW p \in DOMAIN plans, SubmitPayout(p)
      PROVE  IInv'
  <2>1. UNCHANGED <<confirmed, tip, torn>> /\ mempool' = mempool \cup {p} /\ p \notin DOMAIN confirmed
    BY <1>3 DEF SubmitPayout
  <2>2. NodeInv'
    BY <2>1 DEF IInv, NodeInv
  <2> QED BY <1>2, <2>1, <2>2 DEF Buried, IInv
<1>4. CASE MineBlock
  <2>1. PICK txs \in SUBSET mempool :
          /\ confirmed' = [p \in DOMAIN confirmed \cup txs |->
                             IF p \in txs THEN tip + 1 ELSE confirmed[p]]
          /\ mempool' = mempool \ txs
    BY <1>4 DEF MineBlock
  <2>2. tip' = tip + 1 /\ torn' = torn /\ tip \in Nat
    BY <1>4 DEF MineBlock, IInv, NodeInv
  <2>3. \A p \in DOMAIN confirmed : p \in DOMAIN confirmed' /\ confirmed'[p] = confirmed[p]
    BY <2>1 DEF IInv, NodeInv
  <2>4. NodeInv'
    <3>1. \A p \in DOMAIN confirmed' : confirmed'[p] \in Nat /\ confirmed'[p] <= tip'
      BY <2>1, <2>2 DEF IInv, NodeInv
    <3>2. mempool' \cap DOMAIN confirmed' = {}
      BY <2>1 DEF IInv, NodeInv
    <3>3. confirmed' = [p \in DOMAIN confirmed' |-> confirmed'[p]]
      BY <2>1
    <3> QED BY <2>2, <3>1, <3>2, <3>3 DEF NodeInv
  <2>5. \A p : Buried(p) => Buried(p)'
    BY <2>2, <2>3 DEF Buried, IInv, NodeInv
  <2> QED BY <1>2, <2>2, <2>3, <2>4, <2>5 DEF IInv
<1>5. CASE Reorganize
  <2> DEFINE undone == { p \in DOMAIN confirmed : confirmed[p] = tip }
  <2>1. /\ confirmed' = [p \in DOMAIN confirmed \ undone |-> confirmed[p]]
        /\ mempool' \subseteq mempool \cup undone
        /\ tip' = tip + 1 /\ tip \in Nat
    BY <1>5 DEF Reorganize, IInv, NodeInv
  <2>2. torn' = (torn \/ \E o \in Operator : command[o].pc = "tip")
    BY <1>5 DEF Reorganize
  <2>3. \A p \in DOMAIN confirmed' : p \in DOMAIN confirmed /\ p \notin undone /\ confirmed'[p] = confirmed[p]
    BY <2>1
  <2>4. NodeInv'
    <3>1. \A p \in DOMAIN confirmed' : confirmed'[p] \in Nat /\ confirmed'[p] <= tip'
      BY <2>1, <2>3 DEF IInv, NodeInv
    <3>2. mempool' \cap DOMAIN confirmed' = {}
      BY <2>1, <2>3 DEF IInv, NodeInv
    <3>3. confirmed' = [p \in DOMAIN confirmed' |-> confirmed'[p]]
      BY <2>1
    <3> QED BY <2>1, <3>1, <3>2, <3>3 DEF NodeInv
  <2>5. \A p : Buried(p) => Buried(p)'
    BY <2>1 DEF Buried, IInv, NodeInv
  <2>6. torn' \in BOOLEAN /\ (~torn' => ~torn /\ \A o \in Operator : command[o].pc # "tip")
    BY <2>2 DEF IInv
  <2> QED BY <1>2, <2>4, <2>5, <2>6
<1> QED BY <1>3, <1>4, <1>5 DEF Chain

-----------------------------------------------------------------------------
\* Every step of every process preserves the invariant.
LEMMA NextInv ==
  ASSUME Confirmations > 1
  PROVE  IInv /\ [Next]_vars => IInv'
<1> SUFFICES ASSUME IInv, [Next]_vars
             PROVE  IInv'
  OBVIOUS
<1>1. CASE UNCHANGED vars
  BY <1>1 DEF vars, IInv, NodeInv, CommandInv, AllReadsTrue, ReadsTrue, FinalizedAreBuried, Buried
<1>2. ASSUME NEW m \in Miner, CreditMiner(m)
      PROVE  IInv'
  BY <1>2 DEF CreditMiner, node, IInv, NodeInv, CommandInv, AllReadsTrue, ReadsTrue,
              FinalizedAreBuried, Buried
<1> QED BY <1>1, <1>2, BuildStep, MarkStep, ReconcileStep, ChainStep DEF Next

\* With more than one confirmation required, the payouts of a finalized plan are
\* on the chain in every reachable state, unless a reorganization has come
\* between the two reads of a reconcile_payout_plan.
THEOREM DepthRespected ==
  ASSUME Confirmations > 1
  PROVE  Spec => []FinalizedIsConfirmedUntorn
<1>1. IInv => FinalizedIsConfirmedUntorn
  BY DEF IInv, FinalizedAreBuried, Buried, FinalizedIsConfirmedUntorn, FinalizedIsConfirmed
<1>2. IInv /\ [Next]_vars => IInv'
  BY NextInv
<1> QED BY <1>1, <1>2, InitInv, PTL DEF Spec

-----------------------------------------------------------------------------
(* Claims and debits.  The sums are the community modules' MapThenSumSet,  *)
(* of which FoldInduction says what they are: PaidTo(m, p) is what plan p  *)
(* pays miner m, GivenTo(x, m) what the payouts x give m, Worth(u, c) the  *)
(* amount of a coin (u is not used).                                       *)

PaidTo(m, p) == p.payouts[m]
GivenTo(x, m) == x[m]
Worth(u, c) == c.amount

Plans == INSTANCE FoldInduction WITH Op <- PaidTo
Shares == INSTANCE FoldInduction WITH Op <- GivenTo
Coins == INSTANCE FoldInduction WITH Op <- Worth

Stage == {"idle", "reserved", "coins", "insert", "mark", "height", "tip", "debit"}

\* A plan pays no more than its coins are worth.
PlanOK(p) == IsPlan(p) /\ IsFiniteSet(p.coins) /\ Change(p) \in Nat

FrameOK(c) ==
  /\ c.pc \in Stage
  /\ c.pc = "idle" => c = Idle
  /\ c.pc = "reserved" => c.arg \in Argument /\ c.balances \in [Miner -> Nat]
  /\ c.pc = "coins" => c.arg \in Argument /\ c.claim \in [1..Len(MinerOrder) -> Nat]
  /\ c.pc = "insert" => PlanOK(c.plan)
  /\ c.pc \in {"mark", "height", "tip", "debit"} => c.plan \in DOMAIN plans

PoolInv ==
  /\ balance \in [Miner -> Nat] /\ credited \in [Miner -> Nat]
  /\ plans \in [DOMAIN plans -> {"built", "submitted", "finalized"}]
  /\ IsFiniteSet(DOMAIN plans) /\ \A p \in DOMAIN plans : PlanOK(p)
  /\ overlapped \in BOOLEAN
  /\ CommandInv /\ \A o \in Operator : FrameOK(command[o])

CoinInv ==
  /\ tip \in Nat
  /\ IsFiniteSet(coins) /\ \A c \in coins : c.amount \in Nat
  /\ mempool \subseteq DOMAIN plans
  /\ confirmed \in [DOMAIN confirmed -> 1..tip] /\ DOMAIN confirmed \subseteq DOMAIN plans

Reservable(m, amount) == amount <= balance[m] - Reserved(m)

\* What a command that runs alone may still rely on.
Reliable(c) ==
  /\ c.pc = "reserved" => \A m \in Miner : c.balances[m] <= balance[m]
  /\ c.pc = "coins" => \A i \in 1..Len(MinerOrder) : Reservable(MinerOrder[i], c.claim[i])
  /\ c.pc = "insert" => \A m \in Miner : Reservable(m, c.plan.payouts[m])
  /\ c.pc \in {"mark", "height", "tip", "debit"} => plans[c.plan] # "finalized"

AloneInv ==
  ~overlapped =>
    /\ \A o, q \in Operator : command[o] # Idle /\ command[q] # Idle => o = q
    /\ \A o \in Operator : Reliable(command[o])
    /\ PaidOnceAlone

PaidInv == PoolInv /\ CoinInv /\ AloneInv

LEMMA OrderFacts ==
  /\ MinerOrder \in Seq(Miner) /\ Len(MinerOrder) \in Nat
  /\ \A i \in 1..Len(MinerOrder) : MinerOrder[i] \in Miner
  /\ \A m \in Miner : \E i \in 1..Len(MinerOrder) : MinerOrder[i] = m
  /\ IsFiniteSet(Miner)
<1>1. /\ MinerOrder \in Seq(Miner) /\ Len(MinerOrder) \in Nat
      /\ DOMAIN MinerOrder = 1..Len(MinerOrder)
  BY PayoutAssumption
<1>2. /\ \A i \in 1..Len(MinerOrder) : MinerOrder[i] \in Miner
      /\ \A m \in Miner : \E i \in 1..Len(MinerOrder) : MinerOrder[i] = m
  BY <1>1 DEF Miner, ToSet
<1>3. IsFiniteSet(1..Len(MinerOrder))
  BY <1>1, FS_Interval
<1>4. MinerOrder \in Surjection(1..Len(MinerOrder), Miner)
  BY <1>1, <1>2 DEF Surjection
<1>5. IsFiniteSet(Miner)
  BY <1>3, <1>4, FS_Surjection
<1> QED BY <1>1, <1>2, <1>5

LEMMA MaxTwo ==
  ASSUME NEW x \in Int, NEW y \in Int
  PROVE  Max({x, y}) = IF x >= y THEN x ELSE y
<1>1. \E z \in {x, y} : \A w \in {x, y} : z >= w
  OBVIOUS
<1>2. Max({x, y}) \in {x, y} /\ Max({x, y}) >= x /\ Max({x, y}) >= y
  BY <1>1 DEF Max
<1> QED BY <1>2

LEMMA MinTwo ==
  ASSUME NEW x \in Int, NEW y \in Int
  PROVE  Min({x, y}) = IF x <= y THEN x ELSE y
<1>1. \E z \in {x, y} : \A w \in {x, y} : z <= w
  OBVIOUS
<1>2. Min({x, y}) \in {x, y} /\ Min({x, y}) <= x /\ Min({x, y}) <= y
  BY <1>1 DEF Min
<1> QED BY <1>2

-----------------------------------------------------------------------------
(* The sums.                                                               *)

OpenOf(table) == {p \in DOMAIN table : table[p] \in {"built", "submitted"}}
PaidOf(table) == {p \in DOMAIN table : table[p] = "finalized"}

LEMMA FiniteIs ==
  ASSUME NEW S, IsFiniteSet(S)
  PROVE  Plans!IsFiniteSet(S) /\ Shares!IsFiniteSet(S) /\ Coins!IsFiniteSet(S)
BY DEF IsFiniteSet, Plans!IsFiniteSet, Shares!IsFiniteSet, Coins!IsFiniteSet

LEMMA ReservedIs ==
  \A m : /\ Reserved(m) = Plans!Total(m, OpenOf(plans))
         /\ Reserved(m)' = Plans!Total(m, OpenOf(plans'))
BY DEF Reserved, Sum, Open, OpenOf, Plans!Total, PaidTo, MapThenSumSet, MapThenFoldSet,
       Plans!MapThenSumSet, Plans!MapThenFoldSet

\* The two sums of a miner, over the open and over the finalized plans.
Booked(m) == Reserved(m) <= balance[m]
Settled(m) == credited[m] - balance[m] = Plans!Total(m, PaidOf(plans))

LEMMA PaidIs ==
  /\ PaidOnceAlone <=> (~overlapped => \A m \in Miner : Booked(m) /\ Settled(m))
  /\ PaidOnceAlone' <=> (~overlapped' => \A m \in Miner : Booked(m)' /\ Settled(m)')
BY DEF PaidOnceAlone, ClaimPlannedOnceAlone, ClaimPlannedOnce, DebitedOnceAlone, Sum,
       Booked, Settled, PaidOf, Plans!Total, PaidTo, MapThenSumSet, MapThenFoldSet,
       Plans!MapThenSumSet, Plans!MapThenFoldSet

\* What the plans of a set pay a miner is a natural number.
LEMMA PlanSums ==
  ASSUME PoolInv, NEW m \in Miner, NEW S \in SUBSET DOMAIN plans
  PROVE  /\ IsFiniteSet(S) /\ Plans!Amounts(m, S) /\ Plans!Total(m, S) \in Nat
         /\ \A p \in S : p.payouts[m] \in Nat
<1>1. IsFiniteSet(S)
  BY FS_Subset DEF PoolInv
<1>2. \A p \in S : PaidTo(m, p) \in Nat /\ p.payouts[m] \in Nat
  BY DEF PoolInv, PlanOK, IsPlan, PaidTo
<1> QED BY <1>1, <1>2, FiniteIs, Plans!TotalNat DEF Plans!Amounts

LEMMA CoinSums ==
  ASSUME NEW S, IsFiniteSet(S), \A c \in S : c.amount \in Nat
  PROVE  CoinTotal(S) \in Nat
<1>1. CoinTotal(S) = Coins!Total(0, S)
  BY DEF CoinTotal, Sum, Coins!Total, Worth, MapThenSumSet, MapThenFoldSet,
         Coins!MapThenSumSet, Coins!MapThenFoldSet
<1> QED BY <1>1, FiniteIs, Coins!TotalNat DEF Worth

LEMMA ShareSums ==
  ASSUME NEW x \in [Miner -> Nat]
  PROVE  Sum(LAMBDA m : x[m], Miner) \in Nat
<1>1. Sum(LAMBDA m : x[m], Miner) = Shares!Total(x, Miner)
  BY DEF Sum, Shares!Total, GivenTo, MapThenSumSet, MapThenFoldSet,
         Shares!MapThenSumSet, Shares!MapThenFoldSet
<1> QED BY <1>1, OrderFacts, FiniteIs, Shares!TotalNat DEF GivenTo

-----------------------------------------------------------------------------
(* What a build computes.                                                  *)

\* A claim is what a miner has beyond what the open plans promise it.
LEMMA ClaimFacts ==
  ASSUME PoolInv, NEW b \in [Miner -> Nat], NEW arg
  PROVE  /\ ClaimOf(b, arg) \in [1..Len(MinerOrder) -> Nat]
         /\ \A i \in 1..Len(MinerOrder) :
              LET m == MinerOrder[i] IN
              \/ ClaimOf(b, arg)[i] = 0
              \/ ClaimOf(b, arg)[i] = b[m] - Reserved(m)
<1> DEFINE free == [m \in Miner |-> Max({0, b[m] - Reserved(m)})]
<1>1. ASSUME NEW m \in Miner
      PROVE  free[m] \in Nat /\ (free[m] = 0 \/ free[m] = b[m] - Reserved(m))
  <2>1. Reserved(m) \in Nat
    <3>1. OpenOf(plans) \in SUBSET DOMAIN plans
      BY DEF OpenOf
    <3> QED BY <3>1, PlanSums, ReservedIs
  <2>2. b[m] - Reserved(m) \in Int
    BY <2>1
  <2>3. Max({0, b[m] - Reserved(m)}) = IF 0 >= b[m] - Reserved(m) THEN 0 ELSE b[m] - Reserved(m)
    BY <2>2, MaxTwo
  <2> QED BY <2>2, <2>3
<1>2. \A i \in 1..Len(MinerOrder) : ClaimOf(b, arg)[i] \in {0, free[MinerOrder[i]]}
  BY DEF ClaimOf
<1>3. ClaimOf(b, arg) = [i \in 1..Len(MinerOrder) |-> ClaimOf(b, arg)[i]]
  BY DEF ClaimOf
<1> HIDE DEF free
<1>4. ASSUME NEW i \in 1..Len(MinerOrder) PROVE ClaimOf(b, arg)[i] \in Nat
  <2>1. free[MinerOrder[i]] \in Nat
    BY <1>1, OrderFacts
  <2> QED BY <1>2, <2>1
<1>5. ClaimOf(b, arg) \in [1..Len(MinerOrder) -> Nat]
  BY <1>3, <1>4
<1>6. ASSUME NEW i \in 1..Len(MinerOrder)
      PROVE  \/ ClaimOf(b, arg)[i] = 0
             \/ ClaimOf(b, arg)[i] = b[MinerOrder[i]] - Reserved(MinerOrder[i])
  <2>1. MinerOrder[i] \in Miner
    BY OrderFacts
  <2> QED BY <1>1, <1>2, <2>1
<1> QED BY <1>5, <1>6

\* Nobody is paid more than its claim, and nobody less than nothing.
LEMMA PayoutFacts ==
  ASSUME NEW claim \in [1..Len(MinerOrder) -> Nat], NEW budget \in Int,
         NEW minimum \in Nat \ {0}
  PROVE  /\ Payouts(claim, budget, minimum) \in [Miner -> Nat]
         /\ \A m \in Miner : \E i \in 1..Len(MinerOrder) :
              MinerOrder[i] = m /\ Payouts(claim, budget, minimum)[m] <= claim[i]
<1> DEFINE n == Len(MinerOrder)
           After(i, x) == LET amount == Min({claim[i], x})
                          IN  IF amount < minimum THEN x ELSE x - amount
           Eq(f) == f = [i \in 0..Len(claim) |-> IF i = 0 THEN budget ELSE After(i, f[i - 1])]
           Step == [i \in 1..n |-> [x \in Int |-> After(i, x)]]
           left == CHOOSE f : Eq(f)
<1>1. n \in Nat /\ DOMAIN claim = 1..n /\ Len(claim) = n
  <2>1. n \in Nat /\ DOMAIN claim = 1..n
    BY OrderFacts
  <2>2. claim \in Seq(Nat)
    BY <2>1
  <2> QED BY <2>1, <2>2
<1>2. ASSUME NEW i \in 1..n, NEW x \in Int
      PROVE  After(i, x) \in Int /\ x - After(i, x) \in Nat /\ x - After(i, x) <= claim[i]
  <2>1. claim[i] \in Nat
    BY <1>1
  <2>2. Min({claim[i], x}) = IF claim[i] <= x THEN claim[i] ELSE x
    BY <2>1, MinTwo
  <2> QED BY <2>1, <2>2
<1> HIDE DEF After
<1>3. Step \in [1..n -> [Int -> Int]]
  BY <1>2
<1>4. PICK f \in [0..n -> Int] : f[0] = budget /\ \A i \in 1..n : f[i] = Step[i][f[i - 1]]
  <2> HIDE DEF Step
  <2>1. Coins!HasRecurrence(n, Int, budget, Step)
    BY <1>1, <1>3, Coins!IntervalRecursion, Zenon
  <2> QED BY <2>1 DEF Coins!HasRecurrence
<1>5. \E g : Eq(g)
  <2>1. ASSUME NEW i \in 1..n PROVE f[i] = After(i, f[i - 1])
    <3>1. i - 1 \in 0..n
      BY <1>1
    <3>2. f[i - 1] \in Int
      BY <1>4, <3>1
    <3>3. Step[i][f[i - 1]] = After(i, f[i - 1])
      BY <3>2
    <3> QED BY <1>4, <3>3
  <2>2. \A i \in 0..n : f[i] = IF i = 0 THEN budget ELSE After(i, f[i - 1])
    <3> TAKE i \in 0..n
    <3>1. i = 0 \/ i \in 1..n
      BY <1>1
    <3> QED BY <1>4, <2>1, <3>1
  <2>3. f = [i \in 0..n |-> IF i = 0 THEN budget ELSE After(i, f[i - 1])]
    BY <1>4, <2>2
  <2> QED BY <1>1, <2>3
<1>6. Eq(left)
  <2> HIDE DEF Eq
  <2> QED BY <1>5
<1> HIDE DEF left
<1>7. ASSUME NEW i \in 0..n PROVE left[i] \in Int
  <2> DEFINE Wrong == {k \in 0..n : left[k] \notin Int}
  <2>1. SUFFICES ASSUME Wrong # {} PROVE FALSE
    OBVIOUS
  <2>2. PICK k \in Wrong : \A j \in Wrong : k <= j
    <3>1. Wrong \subseteq Nat
      OBVIOUS
    <3> HIDE DEF Wrong
    <3> QED BY <2>1, <3>1, Coins!LeastElement
  <2>3. k # 0 /\ k \in 1..n
    BY <1>1, <1>6, <2>2
  <2>4. k - 1 \in 0..n /\ k - 1 \notin Wrong
    BY <1>1, <2>2, <2>3
  <2>5. left[k - 1] \in Int /\ left[k] = After(k, left[k - 1])
    BY <1>1, <1>6, <2>3, <2>4
  <2> QED BY <1>2, <2>2, <2>3, <2>5
<1>8. Payouts(claim, budget, minimum)
        = [m \in Miner |-> LET i == CHOOSE j \in 1..n : MinerOrder[j] = m
                           IN  left[i - 1] - left[i]]
  BY DEF Payouts, left, After
<1>9. ASSUME NEW m \in Miner
      PROVE  /\ Payouts(claim, budget, minimum)[m] \in Nat
             /\ \E i \in 1..n : MinerOrder[i] = m /\ Payouts(claim, budget, minimum)[m] <= claim[i]
  <2> DEFINE i == CHOOSE j \in 1..n : MinerOrder[j] = m
  <2>1. i \in 1..n /\ MinerOrder[i] = m
    BY OrderFacts
  <2>2. Payouts(claim, budget, minimum)[m] = left[i - 1] - left[i]
    BY <1>8
  <2> HIDE DEF i
  <2>3. i - 1 \in 0..n /\ i \in 0..n /\ i # 0
    BY <1>1, <2>1
  <2>4. left[i - 1] \in Int /\ left[i] = After(i, left[i - 1])
    BY <1>1, <1>6, <1>7, <2>3
  <2> QED BY <1>2, <2>1, <2>2, <2>4
<1>10. Payouts(claim, budget, minimum) = [m \in Miner |-> Payouts(claim, budget, minimum)[m]]
  BY <1>8
<1>11. Payouts(claim, budget, minimum) \in [Miner -> Nat]
  BY <1>9, <1>10
<1> QED BY <1>9, <1>11

-----------------------------------------------------------------------------
(* The steps.                                                              *)

LEMMA InitPaid == Init => PaidInv
<1> SUFFICES ASSUME Init
             PROVE  PaidInv
  OBVIOUS
<1>1. /\ DOMAIN plans = {} /\ plans = [p \in {} |-> "built"]
      /\ DOMAIN confirmed = {} /\ confirmed = [p \in {} |-> 0]
      /\ \A o \in Operator : command[o] = Idle /\ Idle.pc = "idle"
      /\ \A m \in Miner : balance[m] = 0 /\ credited[m] = 0
  BY DEF Init, Idle
<1>2. PoolInv
  <2>1. IsFiniteSet(DOMAIN plans)
    BY <1>1, FS_EmptySet
  <2>2. CommandInv /\ \A o \in Operator : FrameOK(command[o])
    BY <1>1 DEF Init, CommandInv, FrameOK, Stage
  <2> QED BY <1>1, <2>1, <2>2 DEF Init, PoolInv
<1>3. CoinInv
  BY <1>1, PayoutAssumption DEF Init, CoinInv
<1>4. AloneInv
  <2>1. OpenOf(plans) = {} /\ PaidOf(plans) = {}
    BY <1>1 DEF OpenOf, PaidOf
  <2>2. ASSUME NEW m \in Miner PROVE Booked(m) /\ Settled(m)
    <3>1. Plans!Total(m, {}) = 0
      BY Plans!TotalEmpty
    <3>2. Reserved(m) = 0 /\ balance[m] = 0 /\ credited[m] = 0
      BY <1>1, <2>1, <3>1, ReservedIs
    <3> QED BY <2>1, <3>1, <3>2 DEF Booked, Settled
  <2>3. PaidOnceAlone
    BY <2>2, PaidIs
  <2>4. \A o \in Operator : Reliable(command[o])
    BY <1>1 DEF Reliable
  <2> QED BY <1>1, <2>3, <2>4 DEF AloneInv
<1> QED BY <1>2, <1>3, <1>4 DEF PaidInv

\* Whether something is a plan does not depend on the state.
LEMMA PlanStays == \A p : PlanOK(p)' <=> PlanOK(p)
BY DEF PlanOK, IsPlan, Change, CoinTotal, PayoutTotal, Sum, MapThenSumSet, MapThenFoldSet

\* A step of one command leaves the frames of the others.
LEMMA FramesKept ==
  ASSUME PoolInv, NEW o \in Operator, NEW f, FrameOK(f),
         command' = [command EXCEPT ![o] = f], DOMAIN plans \subseteq DOMAIN plans'
  PROVE  /\ CommandInv' /\ command'[o] = f
         /\ \A q \in Operator : q # o => command'[q] = command[q]
         /\ \A q \in Operator : FrameOK(command[q])'
<1>1. CommandInv' /\ command'[o] = f /\ \A q \in Operator : q # o => command'[q] = command[q]
  BY DEF PoolInv, CommandInv
<1>2. ASSUME NEW q \in Operator
      PROVE  FrameOK(command[q])'
  <2>1. FrameOK(command'[q])
    BY <1>1 DEF PoolInv
  <2> QED BY <2>1 DEF FrameOK
<1> QED BY <1>1, <1>2

\* If no commands have overlapped, all but one are idle.
LEMMA OthersIdle ==
  ASSUME AloneInv, ~overlapped, NEW o \in Operator, command[o] # Idle
  PROVE  \A q \in Operator : q # o => command[q] = Idle
BY DEF AloneInv

\* What a step has to show for AloneInv if it is the only command.
LEMMA StaysAlone ==
  ASSUME NEW o \in Operator,
         ~overlapped' => /\ \A q \in Operator : q # o => command'[q] = Idle
                         /\ Reliable(command[o])'
                         /\ \A m \in Miner : Booked(m)' /\ Settled(m)'
  PROVE  AloneInv'
<1> SUFFICES ASSUME ~overlapped'
             PROVE  /\ \A p, q \in Operator : command'[p] # Idle /\ command'[q] # Idle => p = q
                    /\ \A q \in Operator : Reliable(command[q])'
                    /\ PaidOnceAlone'
  BY DEF AloneInv
<1>1. \A p, q \in Operator : command'[p] # Idle /\ command'[q] # Idle => p = q
  OBVIOUS
<1>2. ASSUME NEW q \in Operator PROVE Reliable(command[q])'
  <2>1. CASE q = o
    BY <2>1
  <2>2. CASE q # o
    BY <2>2 DEF Reliable, Idle
  <2> QED BY <2>1, <2>2
<1>3. PaidOnceAlone'
  BY PaidIs
<1> QED BY <1>1, <1>2, <1>3

\* A step that only reads: it starts a command or goes on with one.
LEMMA ReadStep ==
  ASSUME PaidInv, NEW o \in Operator, NEW f, FrameOK(f),
         command' = [command EXCEPT ![o] = f],
         UNCHANGED <<balance, plans, credited, coins, mempool, confirmed, tip>>,
         \/ command[o] # Idle /\ overlapped' = overlapped
         \/ overlapped' = (overlapped \/ \E q \in Operator : command[q] # Idle),
         ~overlapped => Reliable(f)
  PROVE  PaidInv'
<1>1. PoolInv /\ CoinInv /\ AloneInv
  BY DEF PaidInv
<1>2. /\ CommandInv' /\ command'[o] = f
      /\ \A q \in Operator : q # o => command'[q] = command[q]
      /\ \A q \in Operator : FrameOK(command[q])'
  BY <1>1, FramesKept
<1>3. overlapped' \in BOOLEAN /\ (overlapped => overlapped')
  BY <1>1 DEF PoolInv
<1>4. PoolInv'
  BY <1>1, <1>2, <1>3, PlanStays DEF PoolInv
<1>5. CoinInv'
  BY <1>1 DEF CoinInv
<1>6. ASSUME ~overlapped'
      PROVE  /\ \A q \in Operator : q # o => command'[q] = Idle
             /\ Reliable(command[o])'
             /\ \A m \in Miner : Booked(m)' /\ Settled(m)'
  <2>1. ~overlapped
    BY <1>3, <1>6
  <2>2. \A q \in Operator : q # o => command'[q] = Idle
    BY <1>1, <1>2, <1>6, <2>1, OthersIdle
  <2>3. \A m : Reserved(m)' = Reserved(m)
    BY ReservedIs
  <2>4. Reliable(command[o])'
    BY <1>2, <2>1, <2>3 DEF Reliable, Reservable
  <2>5. \A m \in Miner : Booked(m) /\ Settled(m)
    BY <1>1, <2>1, PaidIs DEF AloneInv
  <2>6. \A m \in Miner : Booked(m)' /\ Settled(m)'
    BY <2>3, <2>5 DEF Booked, Settled
  <2> QED BY <2>2, <2>4, <2>6
<1>7. AloneInv'
  BY <1>6, StaysAlone
<1> QED BY <1>4, <1>5, <1>7 DEF PaidInv

\* build_payout_plan reads the balances: later they can only have grown.
LEMMA ReadBalances ==
  ASSUME PaidInv, NEW o \in Operator, BuildReadBalances(o)
  PROVE  PaidInv'
<1>1. PICK arg \in Argument : Start(o, [pc |-> "reserved", arg |-> arg, balances |-> balance])
  BY DEF BuildReadBalances
<1> DEFINE f == [pc |-> "reserved", arg |-> arg, balances |-> balance]
<1>2. f.pc = "reserved" /\ f.arg = arg /\ f.balances = balance
  OBVIOUS
<1>3. command' = [command EXCEPT ![o] = f]
      /\ overlapped' = (overlapped \/ \E q \in Operator : command[q] # Idle)
  BY <1>1 DEF Start
<1> HIDE DEF f
<1>4. UNCHANGED <<balance, plans, credited, coins, mempool, confirmed, tip>>
  BY DEF BuildReadBalances, pool, node
<1>5. FrameOK(f)
  BY <1>2 DEF FrameOK, Stage, PaidInv, PoolInv
<1>6. Reliable(f)
  BY <1>2 DEF Reliable, PaidInv, PoolInv
<1> QED BY <1>3, <1>4, <1>5, <1>6, ReadStep

\* It reads what is reserved: the claims fit in what is left of the balances.
LEMMA ReadReserved ==
  ASSUME PaidInv, NEW o \in Operator, BuildReadReserved(o)
  PROVE  PaidInv'
<1> DEFINE c == command[o]
           claim == ClaimOf(c.balances, c.arg)
           full == [pc |-> "coins", arg |-> c.arg, claim |-> claim]
           f == IF \E i \in DOMAIN claim : claim[i] > 0 THEN full ELSE Idle
<1>1. c.pc = "reserved" /\ command' = [command EXCEPT ![o] = f] /\ c # Idle
      /\ overlapped' = overlapped
  BY DEF BuildReadReserved, Idle
<1>2. UNCHANGED <<balance, plans, credited, coins, mempool, confirmed, tip>>
  BY DEF BuildReadReserved, pool, node
<1>3. PoolInv /\ AloneInv /\ FrameOK(c) /\ c.arg \in Argument /\ c.balances \in [Miner -> Nat]
  BY <1>1 DEF PaidInv, PoolInv, FrameOK
<1> HIDE DEF c
<1>4. /\ claim \in [1..Len(MinerOrder) -> Nat]
      /\ \A i \in 1..Len(MinerOrder) :
           claim[i] = 0 \/ claim[i] = c.balances[MinerOrder[i]] - Reserved(MinerOrder[i])
  BY <1>3, ClaimFacts
<1> HIDE DEF claim
<1>5. full.pc = "coins" /\ full.arg = c.arg /\ full.claim = claim
  OBVIOUS
<1>6. (f = full \/ f = Idle) /\ Idle.pc = "idle"
  BY DEF Idle
<1> HIDE DEF full, f
<1>7. FrameOK(f)
  BY <1>3, <1>4, <1>5, <1>6 DEF FrameOK, Stage
<1>8. ASSUME ~overlapped PROVE Reliable(f)
  <2>1. Reliable(c) /\ PaidOnceAlone
    BY <1>3, <1>8 DEF AloneInv, c
  <2>2. ASSUME NEW i \in 1..Len(MinerOrder)
        PROVE  Reservable(MinerOrder[i], claim[i])
    <3> DEFINE m == MinerOrder[i]
    <3>1. m \in Miner
      BY OrderFacts
    <3>2. Booked(m) /\ c.balances[m] <= balance[m]
      BY <1>1, <1>8, <2>1, <3>1, PaidIs DEF Reliable
    <3>3. Reserved(m) \in Nat
      <4>1. OpenOf(plans) \in SUBSET DOMAIN plans
        BY DEF OpenOf
      <4> QED BY <1>3, <3>1, <4>1, PlanSums, ReservedIs
    <3>4. balance[m] \in Nat /\ c.balances[m] \in Nat
      BY <1>3, <3>1 DEF PoolInv
    <3>5. claim[i] = 0 \/ claim[i] = c.balances[m] - Reserved(m)
      BY <1>4
    <3> HIDE DEF m
    <3>6. claim[i] <= balance[m] - Reserved(m)
      BY <3>2, <3>3, <3>4, <3>5 DEF Booked
    <3> QED BY <3>6 DEF Reservable, m
  <2>3. CASE f = full
    BY <1>5, <2>2, <2>3 DEF Reliable
  <2>4. CASE f = Idle
    BY <1>6, <2>4 DEF Reliable
  <2> QED BY <1>6, <2>3, <2>4
<1> QED BY <1>1, <1>2, <1>7, <1>8, ReadStep DEF c

\* It reads the coins: no payout exceeds its claim, and the coins cover them all.
LEMMA ReadCoins ==
  ASSUME PaidInv, NEW o \in Operator, BuildReadCoins(o)
  PROVE  PaidInv'
<1> DEFINE c == command[o]
           arg == c.arg
           budget == Min({CoinTotal(coins) - arg.fee, arg.maxTotal})
           payouts == Payouts(c.claim, budget, arg.minimum)
           required == Sum(LAMBDA m : payouts[m], Miner) + arg.fee
           plan(cs) == [payouts |-> payouts, coins |-> cs, fee |-> arg.fee]
           full(cs) == [pc |-> "insert", plan |-> plan(cs)]
<1>1. c.pc = "coins" /\ c # Idle /\ overlapped' = overlapped
  BY DEF BuildReadCoins, Idle
<1>2. UNCHANGED <<balance, plans, credited, coins, mempool, confirmed, tip>>
  BY DEF BuildReadCoins, pool, node
<1>3. \/ command' = [command EXCEPT ![o] = Idle]
      \/ \E cs \in SUBSET coins : Covers(cs, required) /\ command' = [command EXCEPT ![o] = full(cs)]
  BY Zenon DEF BuildReadCoins
<1>4. PoolInv /\ CoinInv /\ AloneInv /\ arg \in Argument /\ c.claim \in [1..Len(MinerOrder) -> Nat]
  BY <1>1 DEF PaidInv, PoolInv, FrameOK
<1>5. arg.fee \in Nat /\ arg.maxTotal \in Nat /\ arg.minimum \in Nat \ {0}
  BY <1>4, PayoutAssumption
<1> HIDE DEF c, arg
<1>6. CoinTotal(coins) \in Nat
  BY <1>4, CoinSums DEF CoinInv
<1>7. budget \in Int
  <2>1. budget = IF CoinTotal(coins) - arg.fee <= arg.maxTotal
                 THEN CoinTotal(coins) - arg.fee ELSE arg.maxTotal
    BY <1>5, <1>6, MinTwo
  <2> QED BY <1>5, <1>6, <2>1
<1> HIDE DEF budget
<1>8. /\ payouts \in [Miner -> Nat]
      /\ \A m \in Miner : \E i \in 1..Len(MinerOrder) : MinerOrder[i] = m /\ payouts[m] <= c.claim[i]
  BY <1>4, <1>5, <1>7, PayoutFacts
<1> HIDE DEF payouts
<1>9. CASE command' = [command EXCEPT ![o] = Idle]
  <2>1. FrameOK(Idle) /\ Reliable(Idle)
    BY DEF FrameOK, Reliable, Idle, Stage
  <2> QED BY <1>1, <1>2, <1>9, <2>1, ReadStep DEF c
<1>10. ASSUME NEW cs \in SUBSET coins, Covers(cs, required), command' = [command EXCEPT ![o] = full(cs)]
       PROVE  PaidInv'
  <2> DEFINE p == plan(cs)
  <2>1. p.payouts = payouts /\ p.coins = cs /\ p.fee = arg.fee
    OBVIOUS
  <2>2. full(cs).pc = "insert" /\ full(cs).plan = p
    OBVIOUS
  <2> HIDE DEF plan, full, p
  <2>3. PlanOK(p)
    <3>1. IsFiniteSet(cs) /\ \A d \in cs : d.amount \in Nat
      BY <1>4, FS_Subset DEF CoinInv
    <3>2. CoinTotal(cs) \in Nat
      BY <3>1, CoinSums
    <3>3. Sum(LAMBDA m : payouts[m], Miner) \in Nat
      BY <1>8, ShareSums
    <3>4. PayoutTotal(p) = Sum(LAMBDA m : payouts[m], Miner)
      BY <2>1 DEF PayoutTotal
    <3>5. CoinTotal(cs) >= required
      BY <1>10 DEF Covers
    <3>6. Change(p) = CoinTotal(cs) - Sum(LAMBDA m : payouts[m], Miner) - arg.fee
      BY <2>1, <3>4 DEF Change
    <3>7. Change(p) \in Nat
      <4> DEFINE t == Sum(LAMBDA m : payouts[m], Miner)
      <4>1. CoinTotal(cs) >= t + arg.fee /\ Change(p) = CoinTotal(cs) - t - arg.fee /\ t \in Nat
        BY <3>3, <3>5, <3>6
      <4> HIDE DEF t
      <4> QED BY <1>5, <3>2, <4>1
    <3> QED BY <1>5, <1>8, <2>1, <3>1, <3>7 DEF PlanOK, IsPlan
  <2>4. FrameOK(full(cs))
    BY <2>2, <2>3 DEF FrameOK, Stage
  <2>5. ASSUME ~overlapped PROVE Reliable(full(cs))
    <3>1. Reliable(c)
      BY <1>4, <2>5 DEF AloneInv, c
    <3>2. ASSUME NEW m \in Miner PROVE Reservable(m, payouts[m])
      <4>1. PICK i \in 1..Len(MinerOrder) : MinerOrder[i] = m /\ payouts[m] <= c.claim[i]
        BY <1>8
      <4>2. c.claim[i] <= balance[m] - Reserved(m)
        BY <1>1, <3>1, <4>1 DEF Reliable, Reservable
      <4>3. Reserved(m) \in Nat
        <5>1. OpenOf(plans) \in SUBSET DOMAIN plans
          BY DEF OpenOf
        <5> QED BY <1>4, <5>1, PlanSums, ReservedIs
      <4>4. balance[m] \in Nat /\ payouts[m] \in Nat /\ c.claim[i] \in Nat
        BY <1>4, <1>8 DEF PoolInv
      <4> QED BY <4>1, <4>2, <4>3, <4>4 DEF Reservable
    <3> QED BY <2>1, <2>2, <3>2 DEF Reliable
  <2>6. command[o] # Idle /\ overlapped' = overlapped
    BY <1>1 DEF c
  <2> QED BY <1>2, <1>10, <2>4, <2>5, <2>6, ReadStep
<1> QED BY <1>3, <1>9, <1>10

\* INSERT: a new plan is open, and within what was left of every balance.
LEMMA InsertStep ==
  ASSUME PaidInv, NEW o \in Operator, BuildInsert(o)
  PROVE  PaidInv'
<1> DEFINE p == command[o].plan
<1>1. /\ command[o].pc = "insert" /\ command[o] # Idle
      /\ command' = [command EXCEPT ![o] = Idle]
      /\ UNCHANGED <<balance, credited, coins, mempool, confirmed, tip, overlapped>>
      /\ plans' = IF p \in DOMAIN plans THEN plans
                  ELSE [x \in DOMAIN plans \cup {p} |-> IF x \in DOMAIN plans THEN plans[x] ELSE "built"]
  BY DEF BuildInsert, Idle, node
<1>2. PoolInv /\ CoinInv /\ AloneInv /\ PlanOK(p)
  BY <1>1 DEF PaidInv, PoolInv, FrameOK
<1>3. /\ DOMAIN plans' = DOMAIN plans \cup {p}
      /\ \A x \in DOMAIN plans : plans'[x] = plans[x]
      /\ p \notin DOMAIN plans => plans'[p] = "built"
      /\ plans' = [x \in DOMAIN plans' |-> plans'[x]]
  BY <1>1, <1>2 DEF PoolInv
<1>4. FrameOK(Idle) /\ Idle.pc = "idle"
  BY DEF FrameOK, Idle, Stage
<1>5. /\ CommandInv' /\ command'[o] = Idle
      /\ \A q \in Operator : q # o => command'[q] = command[q]
      /\ \A q \in Operator : FrameOK(command[q])'
  BY <1>1, <1>2, <1>3, <1>4, FramesKept
<1> HIDE DEF p
<1>6. PoolInv'
  <2>1. IsFiniteSet(DOMAIN plans')
    BY <1>2, <1>3, FS_AddElement DEF PoolInv
  <2>2. \A x \in DOMAIN plans' : PlanOK(x)'
    BY <1>2, <1>3, PlanStays DEF PoolInv
  <2>3. \A x \in DOMAIN plans' : plans'[x] \in {"built", "submitted", "finalized"}
    BY <1>2, <1>3 DEF PoolInv
  <2>4. plans' \in [DOMAIN plans' -> {"built", "submitted", "finalized"}]
    BY <1>3, <2>3
  <2> QED BY <1>1, <1>2, <1>5, <2>1, <2>2, <2>4 DEF PoolInv
<1>7. CoinInv'
  BY <1>1, <1>2, <1>3 DEF CoinInv
<1>8. ASSUME ~overlapped'
      PROVE  /\ \A q \in Operator : q # o => command'[q] = Idle
             /\ Reliable(command[o])'
             /\ \A m \in Miner : Booked(m)' /\ Settled(m)'
  <2>1. /\ \A q \in Operator : q # o => command'[q] = Idle
        /\ Reliable(command[o]) /\ PaidOnceAlone
    BY <1>1, <1>2, <1>5, <1>8, OthersIdle DEF AloneInv
  <2>2. Reliable(command[o])'
    BY <1>4, <1>5 DEF Reliable
  <2>3. ASSUME NEW m \in Miner PROVE Booked(m)' /\ Settled(m)'
    <3>1. Booked(m) /\ Settled(m) /\ Reservable(m, p.payouts[m])
      BY <1>1, <1>8, <2>1, PaidIs DEF Reliable, p
    <3>2. PaidOf(plans') = PaidOf(plans)
      BY <1>3 DEF PaidOf
    <3>3. CASE p \in DOMAIN plans
      <4>1. plans' = plans
        BY <1>1, <3>3 DEF p
      <4> QED BY <1>1, <3>1, <4>1, ReservedIs DEF Booked, Settled
    <3>4. CASE p \notin DOMAIN plans
      <4>1. OpenOf(plans') = OpenOf(plans) \cup {p} /\ p \notin OpenOf(plans)
            /\ OpenOf(plans) \in SUBSET DOMAIN plans
        BY <1>3, <3>4 DEF OpenOf
      <4>2. /\ IsFiniteSet(OpenOf(plans)) /\ Plans!Amounts(m, OpenOf(plans))
            /\ Plans!Total(m, OpenOf(plans)) \in Nat
        BY <1>2, <4>1, PlanSums
      <4>3. PaidTo(m, p) = p.payouts[m] /\ p.payouts[m] \in Nat
        BY <1>2 DEF PaidTo, PlanOK, IsPlan
      <4>4. Plans!Total(m, OpenOf(plans) \cup {p}) = PaidTo(m, p) + Plans!Total(m, OpenOf(plans))
        BY <4>1, <4>2, <4>3, FiniteIs, Plans!TotalAdd
      <4>5. Reserved(m)' = p.payouts[m] + Reserved(m)
        BY <4>1, <4>3, <4>4, ReservedIs, Zenon
      <4>6. Reserved(m) \in Nat /\ balance[m] \in Nat
        BY <1>2, <4>2, ReservedIs DEF PoolInv
      <4>7. Reserved(m)' <= balance[m]
        BY <3>1, <4>3, <4>5, <4>6 DEF Reservable
      <4> QED BY <1>1, <3>1, <3>2, <4>7 DEF Booked, Settled
    <3> QED BY <3>3, <3>4
  <2> QED BY <2>1, <2>2, <2>3
<1>9. AloneInv'
  BY <1>8, StaysAlone
<1> QED BY <1>6, <1>7, <1>9 DEF PaidInv

\* mark_submitted and reconcile_payout_plan look a plan up.
LEMMA LookUp ==
  ASSUME PaidInv, NEW o \in Operator, MarkRead(o) \/ ReconcileRead(o)
  PROVE  PaidInv'
<1>1. PICK p \in DOMAIN plans, stage \in {"mark", "height"} :
        plans[p] # "finalized" /\ Start(o, [pc |-> stage, plan |-> p])
  BY DEF MarkRead, ReconcileRead
<1> DEFINE f == [pc |-> stage, plan |-> p]
<1>2. f.pc = stage /\ f.plan = p
  OBVIOUS
<1>3. command' = [command EXCEPT ![o] = f]
      /\ overlapped' = (overlapped \/ \E q \in Operator : command[q] # Idle)
  BY <1>1 DEF Start
<1> HIDE DEF f
<1>4. UNCHANGED <<balance, plans, credited, coins, mempool, confirmed, tip>>
  BY DEF MarkRead, ReconcileRead, pool, node
<1>5. FrameOK(f) /\ Reliable(f)
  BY <1>1, <1>2 DEF FrameOK, Reliable, Stage
<1> QED BY <1>3, <1>4, <1>5, ReadStep

\* reconcile_payout_plan reads the height and the tip: it goes on with its plan or
\* ends.
LEMMA ReadNode ==
  ASSUME PaidInv, NEW o \in Operator, ReconcileReadHeight(o) \/ ReconcileReadTip(o)
  PROVE  PaidInv'
<1> DEFINE c == command[o]
           Goes(f) == f.pc \in {"tip", "debit"} /\ f.plan = c.plan
<1>1. c.pc \in {"height", "tip"} /\ c # Idle /\ overlapped' = overlapped
  BY DEF ReconcileReadHeight, ReconcileReadTip, Idle
<1>2. PICK f : command' = [command EXCEPT ![o] = f] /\ (f = Idle \/ Goes(f))
  <2>1. CASE ReconcileReadHeight(o)
    <3> DEFINE found == [pc |-> "tip", plan |-> c.plan, height |-> confirmed[c.plan]]
               f == IF c.plan \in DOMAIN confirmed THEN found ELSE Idle
    <3>1. command' = [command EXCEPT ![o] = f]
      BY <2>1 DEF ReconcileReadHeight
    <3>2. f = Idle \/ Goes(f)
      OBVIOUS
    <3> QED BY <3>1, <3>2
  <2>2. CASE ReconcileReadTip(o)
    <3> DEFINE deep == [pc |-> "debit", plan |-> c.plan]
               f == IF DeepEnough(c.height) THEN deep ELSE Idle
    <3>1. command' = [command EXCEPT ![o] = f]
      BY <2>2 DEF ReconcileReadTip
    <3>2. f = Idle \/ Goes(f)
      OBVIOUS
    <3> QED BY <3>1, <3>2
  <2> QED BY <2>1, <2>2
<1>3. UNCHANGED <<balance, plans, credited, coins, mempool, confirmed, tip>>
  BY DEF ReconcileReadHeight, ReconcileReadTip, pool, node
<1> HIDE DEF c
<1>4. FrameOK(c) /\ (~overlapped => Reliable(c))
  BY DEF PaidInv, PoolInv, AloneInv, c
<1>5. FrameOK(f) /\ (~overlapped => Reliable(f))
  BY <1>1, <1>2, <1>4 DEF FrameOK, Reliable, Stage, Idle
<1> QED BY <1>1, <1>2, <1>3, <1>5, ReadStep DEF c

\* A plan changes its state: what a step has to show of the sums.
LEMMA PlanStep ==
  ASSUME PaidInv, NEW o \in Operator, command[o] # Idle, NEW p \in DOMAIN plans,
         command' = [command EXCEPT ![o] = Idle], overlapped' = overlapped,
         UNCHANGED <<credited, coins, mempool, confirmed, tip>>,
         balance' \in [Miner -> Nat],
         NEW state \in {"submitted", "finalized"},
         plans' = [plans EXCEPT ![p] = state],
         ~overlapped /\ PaidOnceAlone => \A m \in Miner : Booked(m)' /\ Settled(m)'
  PROVE  PaidInv'
<1>1. PoolInv /\ CoinInv /\ AloneInv
  BY DEF PaidInv
<1>2. FrameOK(Idle) /\ Idle.pc = "idle"
  BY DEF FrameOK, Idle, Stage
<1>3. /\ DOMAIN plans' = DOMAIN plans
      /\ plans' \in [DOMAIN plans' -> {"built", "submitted", "finalized"}]
  BY <1>1 DEF PoolInv
<1>4. /\ CommandInv' /\ command'[o] = Idle
      /\ \A q \in Operator : q # o => command'[q] = command[q]
      /\ \A q \in Operator : FrameOK(command[q])'
  BY <1>1, <1>2, <1>3, FramesKept
<1>5. PoolInv'
  BY <1>1, <1>3, <1>4, PlanStays DEF PoolInv
<1>6. CoinInv'
  BY <1>1, <1>3 DEF CoinInv
<1>7. ASSUME ~overlapped'
      PROVE  /\ \A q \in Operator : q # o => command'[q] = Idle
             /\ Reliable(command[o])'
             /\ \A m \in Miner : Booked(m)' /\ Settled(m)'
  <2>1. \A q \in Operator : q # o => command'[q] = Idle
    BY <1>1, <1>4, <1>7, OthersIdle
  <2>2. Reliable(command[o])'
    BY <1>2, <1>4 DEF Reliable
  <2>3. PaidOnceAlone
    BY <1>1, <1>7 DEF AloneInv
  <2> QED BY <1>7, <2>1, <2>2, <2>3
<1>8. AloneInv'
  BY <1>7, StaysAlone
<1> QED BY <1>5, <1>6, <1>8 DEF PaidInv

\* UPDATE of mark_submitted: the plan stays open.
LEMMA MarkWriteStep ==
  ASSUME PaidInv, NEW o \in Operator, MarkWrite(o)
  PROVE  PaidInv'
<1> DEFINE p == command[o].plan
<1>1. /\ command[o].pc = "mark" /\ command[o] # Idle /\ overlapped' = overlapped
      /\ plans' = [plans EXCEPT ![p] = "submitted"]
      /\ command' = [command EXCEPT ![o] = Idle]
      /\ UNCHANGED <<balance, credited, coins, mempool, confirmed, tip>>
  BY DEF MarkWrite, Idle, node
<1>2. PoolInv /\ AloneInv /\ p \in DOMAIN plans /\ balance' \in [Miner -> Nat]
  BY <1>1 DEF PaidInv, PoolInv, FrameOK
<1>3. ASSUME ~overlapped, PaidOnceAlone, NEW m \in Miner
      PROVE  Booked(m)' /\ Settled(m)'
  <2>1. Booked(m) /\ Settled(m) /\ plans[p] # "finalized"
    BY <1>1, <1>2, <1>3, PaidIs DEF AloneInv, Reliable
  <2> HIDE DEF p
  <2>2. DOMAIN plans' = DOMAIN plans /\ plans'[p] = "submitted"
        /\ \A x \in DOMAIN plans : x # p => plans'[x] = plans[x]
    BY <1>1, <1>2 DEF PoolInv
  <2>3. plans[p] \in {"built", "submitted"}
    BY <1>2, <2>1 DEF PoolInv
  <2>4. OpenOf(plans') = OpenOf(plans) /\ PaidOf(plans') = PaidOf(plans)
    BY <1>2, <2>2, <2>3 DEF OpenOf, PaidOf
  <2> QED BY <1>1, <2>1, <2>4, ReservedIs DEF Booked, Settled
<1> HIDE DEF p
<1> QED BY <1>1, <1>2, <1>3, PlanStep

\* The transaction of reconcile_payout_plan: what the plan pays leaves the
\* reservations, the balances and the debt to the miners at once.
LEMMA DebitStep ==
  ASSUME PaidInv, NEW o \in Operator, Debit(o)
  PROVE  PaidInv'
<1> DEFINE p == command[o].plan
<1>1. /\ command[o].pc = "debit" /\ command[o] # Idle /\ overlapped' = overlapped
      /\ command' = [command EXCEPT ![o] = Idle]
      /\ UNCHANGED <<credited, coins, mempool, confirmed, tip>>
  BY DEF Debit, Idle, node
<1>2. PoolInv /\ AloneInv /\ p \in DOMAIN plans
  BY <1>1 DEF PaidInv, PoolInv, FrameOK
<1>3. PlanOK(p)
  BY <1>2 DEF PoolInv
<1>4. \/ UNCHANGED <<balance, plans>>
      \/ /\ \A m \in Miner : balance[m] >= p.payouts[m]
         /\ balance' = [m \in Miner |-> balance[m] - p.payouts[m]]
         /\ plans' = [plans EXCEPT ![p] = "finalized"]
  BY DEF Debit
<1>5. CASE UNCHANGED <<balance, plans>>
  <2>1. FrameOK(Idle) /\ Reliable(Idle)
    BY DEF FrameOK, Reliable, Idle, Stage
  <2> QED BY <1>1, <1>5, <2>1, ReadStep
<1> HIDE DEF p
<1>6. CASE /\ \A m \in Miner : balance[m] >= p.payouts[m]
           /\ balance' = [m \in Miner |-> balance[m] - p.payouts[m]]
           /\ plans' = [plans EXCEPT ![p] = "finalized"]
  <2>1. \A m \in Miner : p.payouts[m] \in Nat /\ balance[m] \in Nat /\ credited[m] \in Nat
    BY <1>2, <1>3 DEF PoolInv, PlanOK, IsPlan
  <2>2. balance' \in [Miner -> Nat]
    BY <1>6, <2>1
  <2>3. ASSUME ~overlapped, PaidOnceAlone, NEW m \in Miner
        PROVE  Booked(m)' /\ Settled(m)'
    <3>1. Booked(m) /\ Settled(m) /\ plans[p] # "finalized"
      BY <1>1, <1>2, <2>3, PaidIs DEF AloneInv, Reliable, p
    <3>2. DOMAIN plans' = DOMAIN plans /\ plans'[p] = "finalized"
          /\ \A x \in DOMAIN plans : x # p => plans'[x] = plans[x]
      BY <1>2, <1>6 DEF PoolInv
    <3>3. plans[p] \in {"built", "submitted"}
      BY <1>2, <3>1 DEF PoolInv
    <3>4. /\ OpenOf(plans') = OpenOf(plans) \ {p} /\ p \in OpenOf(plans)
          /\ PaidOf(plans') = PaidOf(plans) \cup {p} /\ p \notin PaidOf(plans)
          /\ OpenOf(plans) \in SUBSET DOMAIN plans /\ PaidOf(plans) \in SUBSET DOMAIN plans
      BY <1>2, <3>2, <3>3 DEF OpenOf, PaidOf
    <3>5. /\ IsFiniteSet(OpenOf(plans)) /\ Plans!Amounts(m, OpenOf(plans))
          /\ IsFiniteSet(PaidOf(plans)) /\ Plans!Amounts(m, PaidOf(plans))
          /\ Plans!Total(m, OpenOf(plans)) \in Nat /\ Plans!Total(m, PaidOf(plans)) \in Nat
      BY <1>2, <3>4, PlanSums
    <3>6. PaidTo(m, p) = p.payouts[m] /\ PaidTo(m, p) \in Int
      BY <2>1 DEF PaidTo
    <3>7. Plans!Total(m, OpenOf(plans)) = PaidTo(m, p) + Plans!Total(m, OpenOf(plans) \ {p})
      BY <3>4, <3>5, FiniteIs, Plans!TotalTake
    <3>8. Plans!Total(m, PaidOf(plans) \cup {p}) = PaidTo(m, p) + Plans!Total(m, PaidOf(plans))
      BY <3>4, <3>5, <3>6, FiniteIs, Plans!TotalAdd
    <3>9. Reserved(m) = p.payouts[m] + Reserved(m)'
      BY <3>4, <3>6, <3>7, ReservedIs, Zenon
    <3>10. Plans!Total(m, PaidOf(plans')) = p.payouts[m] + Plans!Total(m, PaidOf(plans))
      BY <3>4, <3>6, <3>8, Zenon
    <3>11. Reserved(m)' \in Int
      <4>1. OpenOf(plans') \in SUBSET DOMAIN plans
        BY <3>4
      <4> QED BY <1>2, <4>1, PlanSums, ReservedIs
    <3>12. balance'[m] = balance[m] - p.payouts[m] /\ credited'[m] = credited[m]
      BY <1>1, <1>6
    <3>13. Booked(m)'
      BY <2>1, <3>1, <3>9, <3>11, <3>12 DEF Booked
    <3>14. Settled(m)'
      <4>1. credited[m] - balance[m] = Plans!Total(m, PaidOf(plans))
        BY <3>1 DEF Settled
      <4>2. credited[m] - (balance[m] - p.payouts[m]) = p.payouts[m] + Plans!Total(m, PaidOf(plans))
        BY <2>1, <3>5, <4>1
      <4> QED BY <3>10, <3>12, <4>2 DEF Settled
    <3> QED BY <3>13, <3>14
  <2> QED BY <1>1, <1>2, <1>6, <2>2, <2>3, PlanStep
<1> QED BY <1>4, <1>5, <1>6

\* credit_pplns: the balance and the history of credits grow by the same amount.
LEMMA CreditStep ==
  ASSUME PaidInv, NEW m \in Miner, CreditMiner(m)
  PROVE  PaidInv'
<1>1. PICK amount \in Credit : /\ balance' = [balance EXCEPT ![m] = @ + amount]
                               /\ credited' = [credited EXCEPT ![m] = @ + amount]
  BY DEF CreditMiner
<1>2. UNCHANGED <<plans, coins, mempool, confirmed, tip, command, overlapped>>
  BY DEF CreditMiner, node
<1>3. PoolInv /\ CoinInv /\ AloneInv /\ amount \in Nat
  BY PayoutAssumption DEF PaidInv
<1>4. /\ balance' \in [Miner -> Nat] /\ credited' \in [Miner -> Nat]
      /\ \A x \in Miner : /\ balance[x] \in Nat /\ credited[x] \in Nat
                          /\ balance'[x] >= balance[x]
                          /\ credited'[x] - balance'[x] = credited[x] - balance[x]
  BY <1>1, <1>3 DEF PoolInv
<1>5. \A x : FrameOK(x)' <=> FrameOK(x)
  BY <1>2, PlanStays DEF FrameOK
<1>6. PoolInv'
  BY <1>2, <1>3, <1>4, <1>5, PlanStays DEF PoolInv, CommandInv
<1>7. CoinInv'
  BY <1>2, <1>3 DEF CoinInv
<1>8. ASSUME ~overlapped PROVE PaidOnceAlone' /\ \A o \in Operator : Reliable(command[o])'
  <2>1. PaidOnceAlone /\ \A o \in Operator : Reliable(command[o]) /\ FrameOK(command[o])
    BY <1>3, <1>8 DEF AloneInv, PoolInv
  <2>2. ASSUME NEW x \in Miner PROVE Reserved(x) \in Nat /\ Reserved(x)' = Reserved(x)
    <3>1. OpenOf(plans) \in SUBSET DOMAIN plans
      BY DEF OpenOf
    <3> QED BY <1>2, <1>3, <3>1, PlanSums, ReservedIs
  <2>3. ASSUME NEW x \in Miner PROVE Booked(x)' /\ Settled(x)'
    <3>1. Booked(x) /\ Settled(x)
      BY <1>8, <2>1, PaidIs
    <3> QED BY <1>2, <1>4, <2>2, <3>1 DEF Booked, Settled
  <2>4. ASSUME NEW x \in Miner, NEW n \in Int, Reservable(x, n)
        PROVE  n <= balance'[x] - Reserved(x)'
    BY <1>4, <2>2, <2>4 DEF Reservable
  <2>5. ASSUME NEW o \in Operator PROVE Reliable(command[o])'
    <3>1. PICK c : command[o] = c
      OBVIOUS
    <3>2. command'[o] = c /\ Reliable(c) /\ FrameOK(c)
      BY <1>2, <2>1, <3>1
    <3>3. c.pc = "reserved" => \A x \in Miner : c.balances[x] <= balance'[x]
      <4> SUFFICES ASSUME c.pc = "reserved", NEW x \in Miner PROVE c.balances[x] <= balance'[x]
        OBVIOUS
      <4>1. c.balances[x] \in Nat /\ c.balances[x] <= balance[x]
        BY <3>2 DEF Reliable, FrameOK
      <4> QED BY <1>4, <4>1
    <3>4. c.pc = "coins" => \A i \in 1..Len(MinerOrder) :
            c.claim[i] <= balance'[MinerOrder[i]] - Reserved(MinerOrder[i])'
      <4> SUFFICES ASSUME c.pc = "coins", NEW i \in 1..Len(MinerOrder)
                   PROVE  c.claim[i] <= balance'[MinerOrder[i]] - Reserved(MinerOrder[i])'
        OBVIOUS
      <4>1. c.claim \in [1..Len(MinerOrder) -> Nat]
        BY <3>2, Zenon DEF FrameOK
      <4>2. Reservable(MinerOrder[i], c.claim[i])
        BY <3>2, Zenon DEF Reliable
      <4>3. c.claim[i] \in Nat
        BY ONLY <4>1, i \in 1..Len(MinerOrder), Zenon
      <4>4. MinerOrder[i] \in Miner
        BY OrderFacts, Zenon
      <4> QED BY <2>4, <4>2, <4>3, <4>4
    <3>5. c.pc = "insert" => \A x \in Miner : c.plan.payouts[x] <= balance'[x] - Reserved(x)'
      <4> SUFFICES ASSUME c.pc = "insert", NEW x \in Miner
                   PROVE  c.plan.payouts[x] <= balance'[x] - Reserved(x)'
        OBVIOUS
      <4>1. c.plan.payouts[x] \in Int /\ Reservable(x, c.plan.payouts[x])
        BY <3>2 DEF Reliable, FrameOK, PlanOK, IsPlan
      <4> QED BY <2>4, <4>1
    <3>6. c.pc \in {"mark", "height", "tip", "debit"} => plans'[c.plan] # "finalized"
      BY <1>2, <3>2 DEF Reliable
    <3>7. Reliable(c)'
      BY <1>2, <3>3, <3>4, <3>5, <3>6 DEF Reliable, Reservable
    <3> QED BY <3>2, <3>7 DEF Reliable
  <2> QED BY <2>3, <2>5, PaidIs
<1>9. AloneInv'
  BY <1>2, <1>3, <1>8 DEF AloneInv
<1> QED BY <1>6, <1>7, <1>9 DEF PaidInv

\* A step of the node leaves the tables and the commands.
LEMMA NodeStep ==
  ASSUME PaidInv, UNCHANGED <<balance, plans, credited, command, overlapped>>, CoinInv'
  PROVE  PaidInv'
<1>1. PoolInv /\ AloneInv
  BY DEF PaidInv
<1>2. \A c : FrameOK(c)' <=> FrameOK(c)
  BY PlanStays DEF FrameOK
<1>3. PoolInv'
  BY <1>1, <1>2, PlanStays DEF PoolInv, CommandInv
<1>4. \A m : Reserved(m)' = Reserved(m)
  BY ReservedIs
<1>5. \A c : Reliable(c)' <=> Reliable(c)
  BY <1>4 DEF Reliable, Reservable
<1>6. \A m : (Booked(m)' <=> Booked(m)) /\ (Settled(m)' <=> Settled(m))
  BY <1>4 DEF Booked, Settled
<1>7. PaidOnceAlone' <=> PaidOnceAlone
  BY <1>6, PaidIs
<1>8. AloneInv'
  BY <1>1, <1>5, <1>7 DEF AloneInv
<1> QED BY <1>3, <1>8 DEF PaidInv

\* Every coin that a block or a reorganization makes available is a coin of a plan
\* or its change.
LEMMA PaidChain ==
  ASSUME PaidInv, Chain
  PROVE  PaidInv'
<1>1. UNCHANGED <<balance, plans, credited, command, overlapped>>
  BY DEF Chain, SubmitPayout, MineBlock, Reorganize, pool
<1>2. PoolInv /\ CoinInv
  BY DEF PaidInv
<1>3. ASSUME NEW p \in DOMAIN plans, SubmitPayout(p)
      PROVE  CoinInv'
  BY <1>1, <1>2, <1>3 DEF SubmitPayout, CoinInv
<1>4. ASSUME MineBlock PROVE CoinInv'
  <2>1. PICK txs \in SUBSET mempool :
          /\ confirmed' = [p \in DOMAIN confirmed \cup txs |->
                             IF p \in txs THEN tip + 1 ELSE confirmed[p]]
          /\ mempool' = mempool \ txs
          /\ coins' = (coins \ UNION { p.coins : p \in txs }) \cup UNION { ChangeCoins(p) : p \in txs }
    BY <1>4 DEF MineBlock
  <2>2. tip' = tip + 1 /\ tip \in Nat
    BY <1>2, <1>4 DEF MineBlock, CoinInv
  <2>3. \A p \in txs : p \in DOMAIN plans /\ PlanOK(p)
    BY <1>2 DEF PoolInv, CoinInv
  <2>4. ASSUME NEW p \in txs
        PROVE  IsFiniteSet(ChangeCoins(p)) /\ \A c \in ChangeCoins(p) : c.amount \in Nat
    <3>1. Change(p) \in Nat
      BY <2>3 DEF PlanOK
    <3>2. ChangeCoins(p) = {} \/ ChangeCoins(p) = {[id |-> p, amount |-> Change(p)]}
      BY DEF ChangeCoins
    <3>3. [id |-> p, amount |-> Change(p)].amount = Change(p)
      OBVIOUS
    <3> QED BY <3>1, <3>2, <3>3, FS_EmptySet, FS_Singleton
  <2> DEFINE change == { ChangeCoins(p) : p \in txs }
  <2>5. IsFiniteSet(UNION change)
    <3>1. txs \subseteq DOMAIN plans
      BY <2>3
    <3>2. IsFiniteSet(txs)
      BY <1>2, <3>1, FS_Subset DEF PoolInv
    <3>3. IsFiniteSet(change)
      <4> DEFINE g == [p \in txs |-> ChangeCoins(p)]
      <4>1. g \in Surjection(txs, change)
        BY DEF Surjection
      <4> HIDE DEF g, change
      <4> QED BY <3>2, <4>1, FS_Surjection
    <3>4. \A x \in change : IsFiniteSet(x)
      BY <2>4
    <3> HIDE DEF change
    <3> QED BY <3>3, <3>4, FS_UNION
  <2>6. IsFiniteSet(coins') /\ \A c \in coins' : c.amount \in Nat
    <3>1. IsFiniteSet(coins \ UNION { p.coins : p \in txs })
      BY <1>2, FS_Difference DEF CoinInv
    <3>2. coins' = (coins \ UNION { p.coins : p \in txs }) \cup UNION change
      BY <2>1
    <3>3. IsFiniteSet(coins')
      BY <2>5, <3>1, <3>2, FS_Union
    <3>4. \A c \in coins' : c \in coins \/ \E p \in txs : c \in ChangeCoins(p)
      BY <2>1
    <3> QED BY <1>2, <2>4, <3>3, <3>4 DEF CoinInv
  <2>7. mempool' \subseteq DOMAIN plans'
    BY <1>1, <1>2, <2>1 DEF CoinInv
  <2>8. /\ confirmed' \in [DOMAIN confirmed' -> 1..tip']
        /\ DOMAIN confirmed' \subseteq DOMAIN plans'
    <3>1. DOMAIN confirmed' = DOMAIN confirmed \cup txs
      BY <2>1
    <3>2. \A p \in DOMAIN confirmed' : confirmed'[p] \in 1..tip'
      BY <1>2, <2>1, <2>2 DEF CoinInv
    <3>3. confirmed' = [p \in DOMAIN confirmed' |-> confirmed'[p]]
      BY <2>1
    <3>4. confirmed' \in [DOMAIN confirmed' -> 1..tip']
      BY <3>2, <3>3
    <3> QED BY <1>1, <1>2, <2>3, <3>1, <3>4 DEF CoinInv
  <2> QED BY <2>2, <2>6, <2>7, <2>8 DEF CoinInv
<1>5. ASSUME Reorganize PROVE CoinInv'
  <2> DEFINE undone == { p \in DOMAIN confirmed : confirmed[p] = tip }
             returned == { p.coins : p \in undone }
             unspent == (coins \ UNION { ChangeCoins(p) : p \in undone }) \cup UNION returned
  <2>1. /\ tip' = tip + 1 /\ tip \in Nat
        /\ confirmed' = [p \in DOMAIN confirmed \ undone |-> confirmed[p]]
        /\ coins' = unspent
        /\ mempool' = { p \in mempool \cup undone : p.coins \subseteq unspent }
    BY <1>2, <1>5 DEF Reorganize, CoinInv
  <2>2. \A p \in undone : p \in DOMAIN plans /\ PlanOK(p)
    BY <1>2 DEF PoolInv, CoinInv
  <2>3. \A p \in undone : IsFiniteSet(p.coins) /\ \A c \in p.coins : c.amount \in Nat
    BY <2>2 DEF PlanOK, IsPlan
  <2>4. mempool' \subseteq DOMAIN plans'
    BY <1>1, <1>2, <2>1, <2>2 DEF CoinInv
  <2>5. /\ confirmed' \in [DOMAIN confirmed' -> 1..tip']
        /\ DOMAIN confirmed' \subseteq DOMAIN plans'
    <3>1. DOMAIN confirmed' \subseteq DOMAIN confirmed
      BY <2>1
    <3>2. \A p \in DOMAIN confirmed' : confirmed'[p] \in 1..tip'
      BY <1>2, <2>1 DEF CoinInv
    <3>3. confirmed' = [p \in DOMAIN confirmed' |-> confirmed'[p]]
      BY <2>1
    <3>4. confirmed' \in [DOMAIN confirmed' -> 1..tip']
      BY <3>2, <3>3
    <3> QED BY <1>1, <1>2, <3>1, <3>4 DEF CoinInv
  <2>6. IsFiniteSet(coins') /\ \A c \in coins' : c.amount \in Nat
    <3>1. undone \subseteq DOMAIN plans
      BY <2>2
    <3>2. IsFiniteSet(undone)
      BY <1>2, <3>1, FS_Subset DEF PoolInv
    <3>3. IsFiniteSet(returned)
      <4> DEFINE g == [p \in undone |-> p.coins]
      <4>1. g \in Surjection(undone, returned)
        BY DEF Surjection
      <4> HIDE DEF g, returned, undone
      <4> QED BY <3>2, <4>1, FS_Surjection
    <3>4. \A x \in returned : IsFiniteSet(x)
      BY <2>3
    <3>5. \A c \in coins' : c \in coins \/ \E p \in undone : c \in p.coins
      BY <2>1
    <3> HIDE DEF returned
    <3>6. IsFiniteSet(UNION returned)
      BY <3>3, <3>4, FS_UNION
    <3>7. IsFiniteSet(coins \ UNION { ChangeCoins(p) : p \in undone })
      BY <1>2, FS_Difference DEF CoinInv
    <3>8. IsFiniteSet(coins')
      BY <2>1, <3>6, <3>7, FS_Union
    <3> HIDE DEF undone
    <3> QED BY <1>2, <2>3, <3>5, <3>8 DEF CoinInv
  <2> HIDE DEF undone
  <2> QED BY <2>1, <2>4, <2>5, <2>6 DEF CoinInv
<1>6. CoinInv'
  BY <1>3, <1>4, <1>5 DEF Chain
<1> QED BY <1>1, <1>6, NodeStep

LEMMA NextPaid == PaidInv /\ [Next]_vars => PaidInv'
<1> SUFFICES ASSUME PaidInv, [Next]_vars
             PROVE  PaidInv'
  OBVIOUS
<1>1. CASE UNCHANGED vars
  <2>1. CoinInv'
    BY <1>1 DEF vars, PaidInv, CoinInv
  <2> QED BY <1>1, <2>1, NodeStep DEF vars
<1>2. ASSUME NEW o \in Operator, Build(o) PROVE PaidInv'
  BY <1>2, ReadBalances, ReadReserved, ReadCoins, InsertStep DEF Build
<1>3. ASSUME NEW o \in Operator, Mark(o) PROVE PaidInv'
  BY <1>3, LookUp, MarkWriteStep DEF Mark
<1>4. ASSUME NEW o \in Operator, Reconcile(o) PROVE PaidInv'
  BY <1>4, LookUp, ReadNode, DebitStep DEF Reconcile
<1> QED BY <1>1, <1>2, <1>3, <1>4, CreditStep, PaidChain DEF Next

\* As long as no two commands overlap, the open plans together promise no miner
\* more than its balance, and a miner has been debited exactly what the finalized
\* plans pay it, whatever the pool and the node do during a command.
THEOREM PaidOnce == Spec => []PaidOnceAlone
<1>1. PaidInv => PaidOnceAlone
  BY PaidIs DEF PaidInv, AloneInv
<1> QED BY <1>1, InitPaid, NextPaid, PTL DEF Spec

\* The tables hold values of their kind in every reachable state; in particular no
\* balance is negative, overlapping commands included.
THEOREM TypeCorrect == Spec => []TypeOK
<1>1. PaidInv => TypeOK
  BY DEF PaidInv, PoolInv, CoinInv, PlanOK, FrameOK, Stage, TypeOK
<1> QED BY <1>1, InitPaid, NextPaid, PTL DEF Spec

-----------------------------------------------------------------------------
(* The mining pool.                                                        *)

Counted(k) == \E i \in 1..Len(shares) : shares[i].key = k

\* What is true of the submission that is running: it is reserved and not yet
\* counted; the node has accepted its block once the pool has heard so, and no
\* other block of the same key.
CallInv ==
  call # NoCall =>
    /\ Key(call) \in reserved
    /\ call.pc \in {"post", "add"} => ~Counted(Key(call))
    /\ call.pc \in {"post", "credit", "refresh"} => call.nonce \in BlockNonce
    /\ call.pc \in {"add", "credit"} /\ call.nonce \in BlockNonce => Block(call) \in accepted
    /\ call.pc = "credit" => shares # << >>
    /\ call.pc = "refresh" => Block(call) \in rounds
    /\ \A b \in accepted : BlockKey(b) = Key(call) => b = Block(call)

\* Keys are reserved before anything else happens under them.
ReservedFirst ==
  /\ \A i \in 1..Len(shares) : shares[i].key \in reserved
  /\ \A b \in accepted : BlockKey(b) \in reserved

\* An accepted block has been credited, or its submission ended badly, or is the
\* one that is running.
AcceptedInv ==
  /\ rounds \subseteq accepted
  /\ \A b \in accepted :
       \/ b \in rounds
       \/ BlockKey(b) \in cut
       \/ version = "v0.31" /\ BlockKey(b) \in refused
       \/ call # NoCall /\ Key(call) = BlockKey(b)

\* The same of a reserved submission and its share.
CountedInv ==
  \A k \in reserved :
    \/ k \in cut \cup refused
    \/ Counted(k)
    \/ call # NoCall /\ call.pc \in {"post", "add"} /\ Key(call) = k

OwedInv == IsFiniteSet(rounds) /\ BalancesAreRewards

MiningInv ==
  /\ PoolTypeOK
  /\ CallInv
  /\ ReservedFirst
  /\ AcceptedInv
  /\ CountedInv
  /\ SubmissionCountsOnce
  /\ OwedInv

-----------------------------------------------------------------------------
(* What a round pays.                                                      *)

Earned(u, b) == b.template.reward
Earnings == INSTANCE FoldInduction WITH Op <- Earned

LEMMA FiniteInPool ==
  ASSUME NEW S, IsFiniteSet(S)
  PROVE  Shares!IsFiniteSet(S) /\ Earnings!IsFiniteSet(S)
BY DEF IsFiniteSet, Shares!IsFiniteSet, Earnings!IsFiniteSet

LEMMA OwedIs ==
  /\ BalancesAreRewards <=> Shares!Total(balances, Address) = Earnings!Total(0, rounds)
  /\ BalancesAreRewards' <=> Shares!Total(balances', Address) = Earnings!Total(0, rounds')
BY DEF BalancesAreRewards, Shares!Total, Earnings!Total, GivenTo, Earned, MapThenSumSet,
       MapThenFoldSet, Shares!MapThenSumSet, Shares!MapThenFoldSet,
       Earnings!MapThenSumSet, Earnings!MapThenFoldSet

LEMMA AddressFacts ==
  /\ Len(AddressOrder) \in Nat
  /\ \A i \in 1..Len(AddressOrder) : AddressOrder[i] \in Address
  /\ \A a \in Address : \E i \in 1..Len(AddressOrder) : AddressOrder[i] = a
  /\ IsFiniteSet(Address)
<1>1. /\ Len(AddressOrder) \in Nat
      /\ AddressOrder \in [1..Len(AddressOrder) -> Address]
      /\ DOMAIN AddressOrder = 1..Len(AddressOrder)
  BY PoolAssumption
<1>2. \A a \in Address : \E i \in 1..Len(AddressOrder) : AddressOrder[i] = a
  BY <1>1 DEF Address, ToSet
<1>3. IsFiniteSet(1..Len(AddressOrder))
  BY <1>1, FS_Interval
<1>4. AddressOrder \in Surjection(1..Len(AddressOrder), Address)
  BY <1>1, <1>2 DEF Surjection
<1>5. IsFiniteSet(Address)
  BY <1>3, <1>4, FS_Surjection
<1> QED BY <1>1, <1>2, <1>5

\* The sum of a function over addresses.
LEMMA AddressSums ==
  ASSUME NEW f \in [Address -> Int], NEW S \in SUBSET Address
  PROVE  /\ IsFiniteSet(S) /\ Shares!IsFiniteSet(S) /\ Shares!Amounts(f, S)
         /\ Shares!Total(f, S) \in Int
<1>1. IsFiniteSet(S)
  BY AddressFacts, FS_Subset
<1>2. Shares!IsFiniteSet(S) /\ Shares!Amounts(f, S)
  BY <1>1, FiniteInPool DEF Shares!Amounts, GivenTo
<1> QED BY <1>1, <1>2, Shares!TotalTake

\* The rows whose payout is one of S.
RowsOf(rows, S) == { i \in 1..Len(rows) : rows[i].payout \in S }

LEMMA RowFacts ==
  ASSUME NEW rows, NEW S, Len(rows) \in Nat
  PROVE  IsFiniteSet(RowsOf(rows, S)) /\ Cardinality(RowsOf(rows, S)) \in 0..Len(rows)
<1>0. PICK n \in Nat : n = Len(rows)
  OBVIOUS
<1>1. IsFiniteSet(1..n) /\ Cardinality(1..n) = n
  <2>1. 1 \in Int /\ n \in Int /\ n - 1 + 1 = n /\ (1 > n => n = 0)
    OBVIOUS
  <2>2. Cardinality(1..n) = IF 1 > n THEN 0 ELSE n - 1 + 1
    BY <2>1, FS_Interval
  <2> QED BY <2>1, <2>2, FS_Interval
<1>2. RowsOf(rows, S) \in SUBSET (1..n)
  BY <1>0 DEF RowsOf
<1>3. IsFiniteSet(RowsOf(rows, S)) /\ Cardinality(RowsOf(rows, S)) <= n
  BY <1>1, <1>2, FS_Subset
<1>4. Cardinality(RowsOf(rows, S)) \in Nat
  BY <1>3, FS_CardinalityType
<1> QED BY <1>0, <1>3, <1>4

LEMMA CountIs ==
  ASSUME NEW rows, NEW a, Len(rows) \in Nat
  PROVE  CountOf(a, rows) \in Nat /\ CountOf(a, rows) = Cardinality(RowsOf(rows, {a}))
<1>1. RowsOf(rows, {a}) = { i \in 1..Len(rows) : rows[i].payout = a }
  BY DEF RowsOf
<1>2. CountOf(a, rows) = Cardinality(RowsOf(rows, {a}))
  BY <1>1 DEF CountOf
<1> QED BY <1>2, RowFacts

\* The window's rows by address: no row counts twice.
CountsOf(rows) == [a \in Address |-> CountOf(a, rows)]

LEMMA CountSums ==
  ASSUME NEW rows, Len(rows) \in Nat, NEW S \in SUBSET Address
  PROVE  /\ CountsOf(rows) \in [Address -> Nat]
         /\ Shares!Total(CountsOf(rows), S) \in 0..Len(rows)
<1>1. ASSUME NEW a PROVE CountOf(a, rows) \in Nat
  BY CountIs
<1>2. CountsOf(rows) \in [Address -> Nat]
  BY <1>1 DEF CountsOf
<1> DEFINE C == {s \in SUBSET S :
                   Shares!Total(CountsOf(rows), s) = Cardinality(RowsOf(rows, s))}
<1>3. {} \in C
  <2>1. RowsOf(rows, {}) = {}
    BY DEF RowsOf
  <2> QED BY <2>1, Shares!TotalEmpty, FS_EmptySet
<1>4. ASSUME NEW s \in SUBSET S, NEW x \in S \ s, s \in C
      PROVE  s \cup {x} \in C
  <2>1. x \in Address /\ s \in SUBSET Address /\ CountsOf(rows) \in [Address -> Int]
    BY <1>2
  <2>2. Shares!Total(CountsOf(rows), s \cup {x}) = CountsOf(rows)[x] + Shares!Total(CountsOf(rows), s)
    <3>1. GivenTo(CountsOf(rows), x) = CountsOf(rows)[x] /\ CountsOf(rows)[x] \in Int
      BY <2>1 DEF GivenTo
    <3> QED BY <2>1, <3>1, AddressSums, Shares!TotalAdd
  <2>3. CountsOf(rows)[x] = Cardinality(RowsOf(rows, {x}))
    BY <2>1, CountIs DEF CountsOf
  <2>4. /\ RowsOf(rows, s \cup {x}) = RowsOf(rows, s) \cup RowsOf(rows, {x})
        /\ RowsOf(rows, s) \cap RowsOf(rows, {x}) = {}
    BY DEF RowsOf
  <2>5. Cardinality(RowsOf(rows, s)) \in Nat /\ Cardinality(RowsOf(rows, {x})) \in Nat
    BY RowFacts
  <2>6. Cardinality(RowsOf(rows, s \cup {x}))
          = Cardinality(RowsOf(rows, s)) + Cardinality(RowsOf(rows, {x}))
    <3>1. Cardinality(RowsOf(rows, s) \cap RowsOf(rows, {x})) = 0
      BY <2>4, FS_EmptySet
    <3>2. IsFiniteSet(RowsOf(rows, s)) /\ IsFiniteSet(RowsOf(rows, {x}))
      BY RowFacts
    <3>3. Cardinality(RowsOf(rows, s) \cup RowsOf(rows, {x}))
            = Cardinality(RowsOf(rows, s)) + Cardinality(RowsOf(rows, {x}))
                - Cardinality(RowsOf(rows, s) \cap RowsOf(rows, {x}))
      BY <3>2, FS_Union
    <3>4. Cardinality(RowsOf(rows, s \cup {x})) = Cardinality(RowsOf(rows, s) \cup RowsOf(rows, {x}))
      BY <2>4
    <3> QED BY ONLY <2>5, <3>1, <3>3, <3>4
  <2> QED BY <1>4, <2>2, <2>3, <2>5, <2>6
<1>5. IsFiniteSet(S) /\ Shares!IsFiniteSet(S)
  BY AddressFacts, FS_Subset, FiniteInPool
<1> HIDE DEF C
<1>6. S \in C
  BY <1>3, <1>4, <1>5, Shares!SubsetInduction
<1>7. Shares!Total(CountsOf(rows), S) = Cardinality(RowsOf(rows, S))
  BY <1>6 DEF C
<1> QED BY <1>2, <1>7, RowFacts

LEMMA DivFacts ==
  ASSUME NEW x \in Nat, NEW n \in Nat \ {0}
  PROVE  x \div n \in Nat /\ n * (x \div n) <= x /\ (x = 0 => x \div n = 0)
OBVIOUS

\* Portions are natural numbers that together do not exceed the reward.
LEMMA PortionFacts ==
  ASSUME NEW reward \in Nat, NEW rows, Len(rows) \in Nat \ {0}
  PROVE  /\ Portions(reward, rows) \in [Address -> Nat]
         /\ \A a \in Address : CountOf(a, rows) = 0 => Portions(reward, rows)[a] = 0
         /\ \A S \in SUBSET Address : Shares!Total(Portions(reward, rows), S) \in 0..reward
<1> DEFINE n == Len(rows)
           p == Portions(reward, rows)
           count == CountsOf(rows)
<1>1. ASSUME NEW a \in Address
      PROVE  /\ p[a] \in Nat /\ n * p[a] <= reward * count[a] /\ count[a] \in Nat
             /\ count[a] = CountOf(a, rows)
             /\ CountOf(a, rows) = 0 => p[a] = 0
  <2>1. count[a] \in Nat /\ count[a] = CountOf(a, rows)
    BY CountSums DEF CountsOf
  <2>2. p[a] = (reward * count[a]) \div n
    BY <2>1 DEF Portions
  <2>3. reward * count[a] \in Nat /\ (count[a] = 0 => reward * count[a] = 0)
    BY <2>1
  <2> HIDE DEF p, count
  <2> QED BY <2>1, <2>2, <2>3, DivFacts
<1>2. p \in [Address -> Nat] /\ count \in [Address -> Nat]
  BY <1>1 DEF Portions, CountsOf
<1>3. ASSUME NEW S \in SUBSET Address
      PROVE  Shares!Total(p, S) \in 0..reward
  <2> DEFINE C == {s \in SUBSET S : n * Shares!Total(p, s) <= reward * Shares!Total(count, s)}
  <2> HIDE DEF p, count
  <2>1. {} \in C
    <3>1. Shares!Total(p, {}) = 0 /\ Shares!Total(count, {}) = 0
      BY Shares!TotalEmpty
    <3> QED BY <3>1
  <2>2. ASSUME NEW s \in SUBSET S, NEW x \in S \ s, s \in C
        PROVE  s \cup {x} \in C
    <3>1. x \in Address /\ s \in SUBSET Address /\ p \in [Address -> Int] /\ count \in [Address -> Int]
      BY <1>2
    <3>2. /\ Shares!Total(p, s \cup {x}) = p[x] + Shares!Total(p, s)
          /\ Shares!Total(count, s \cup {x}) = count[x] + Shares!Total(count, s)
      BY <3>1, AddressSums, Shares!TotalAdd DEF GivenTo
    <3>3. /\ n \in Nat /\ p[x] \in Nat /\ count[x] \in Nat /\ n * p[x] <= reward * count[x]
          /\ Shares!Total(p, s) \in Int /\ Shares!Total(count, s) \in Int
      BY <1>1, <3>1, AddressSums
    <3>4. n * Shares!Total(p, s) <= reward * Shares!Total(count, s)
      BY <2>2
    <3>5. n * Shares!Total(p, s \cup {x}) <= reward * Shares!Total(count, s \cup {x})
      <4>1. PICK u, v, i, j : /\ u = Shares!Total(p, s) /\ v = Shares!Total(count, s)
                              /\ i = p[x] /\ j = count[x]
        OBVIOUS
      <4>2. u \in Int /\ v \in Int /\ i \in Int /\ j \in Int
        BY ONLY <3>3, <4>1
      <4>3. n * (i + u) = n * i + n * u
        BY ONLY <3>3, <4>2
      <4>4. reward * (j + v) = reward * j + reward * v
        BY ONLY <4>2, reward \in Nat
      <4>5. n * i <= reward * j
        BY ONLY <3>3, <4>1
      <4>6. n * u <= reward * v
        BY ONLY <3>4, <4>1
      <4>7. n * i \in Int /\ n * u \in Int
        BY ONLY <3>3, <4>2
      <4>8. reward * j \in Int /\ reward * v \in Int
        BY ONLY <4>2, reward \in Nat
      <4>9. n * i + n * u <= reward * j + reward * v
        BY ONLY <4>5, <4>6, <4>7, <4>8
      <4>10. n * (i + u) <= reward * (j + v)
        BY ONLY <4>3, <4>4, <4>9
      <4> QED BY ONLY <3>2, <4>1, <4>10
    <3> QED BY <3>5
  <2>3. IsFiniteSet(S) /\ Shares!IsFiniteSet(S)
    BY AddressFacts, FS_Subset, FiniteInPool
  <2> HIDE DEF C
  <2>4. S \in C
    BY <2>1, <2>2, <2>3, Shares!SubsetInduction
  <2>5. n * Shares!Total(p, S) <= reward * Shares!Total(count, S)
    BY <2>4 DEF C
  <2>6. Shares!Total(count, S) \in 0..n
    BY CountSums DEF count
  <2>7. Shares!Total(p, S) \in Nat
    BY <1>2, <2>3, Shares!TotalNat DEF GivenTo
  <2> DEFINE total == Shares!Total(p, S)
             all == Shares!Total(count, S)
  <2> HIDE DEF total, all, n
  <2>8. n \in Nat \ {0} /\ total \in Nat /\ all \in 0..n /\ n * total <= reward * all
    BY <2>5, <2>6, <2>7 DEF total, all, n
  <2>9. total <= reward
    <3>1. reward * all <= reward * n
      BY <2>8
    <3>2. n * total <= n * reward
      BY <2>8, <3>1
    <3> QED BY <2>8, <3>2
  <2> QED BY <2>8, <2>9 DEF total
<1> QED BY <1>1, <1>2, <1>3

\* A round pays every address at least nothing, and all of them the reward.
LEMMA CreditFacts ==
  ASSUME NEW reward \in Nat, NEW rows, Len(rows) \in Nat \ {0},
         \A i \in 1..Len(rows) : rows[i].payout \in Address
  PROVE  /\ Credits(reward, rows) \in [Address -> Nat]
         /\ Shares!Total(Credits(reward, rows), Address) = reward
<1> DEFINE k      == Len(AddressOrder)
           paid   == { i \in 1..k : CountOf(AddressOrder[i], rows) > 0 }
           last   == AddressOrder[Max(paid)]
           others == { AddressOrder[i] : i \in paid } \ {last}
           p      == Portions(reward, rows)
           rest   == MapThenSumSet(LAMBDA o : p[o], others)
           c      == [p EXCEPT ![last] = reward - rest]
<1>1. c = Credits(reward, rows)
  BY DEF Credits
<1>2. paid # {}
  <2>1. 1 \in 1..Len(rows) /\ rows[1].payout \in Address
    OBVIOUS
  <2>2. PICK i \in 1..k : AddressOrder[i] = rows[1].payout
    BY <2>1, AddressFacts
  <2>3. 1 \in RowsOf(rows, {AddressOrder[i]})
    BY <2>1, <2>2 DEF RowsOf
  <2>4. Cardinality(RowsOf(rows, {AddressOrder[i]})) # 0
    <3>1. IsFiniteSet(RowsOf(rows, {AddressOrder[i]}))
      BY RowFacts
    <3> QED BY <2>3, <3>1, FS_EmptySet
  <2>5. CountOf(AddressOrder[i], rows) > 0
    <3>1. /\ CountOf(AddressOrder[i], rows) \in Nat
          /\ CountOf(AddressOrder[i], rows) = Cardinality(RowsOf(rows, {AddressOrder[i]}))
      BY CountIs
    <3> QED BY <2>4, <3>1
  <2> QED BY <2>5
<1>3. Max(paid) \in paid
  <2>1. k \in Nat /\ paid \in SUBSET (1..k)
    BY AddressFacts
  <2> HIDE DEF paid
  <2>2. Shares!Max(paid) \in paid
    BY <1>2, <2>1, Shares!MaxIsMember
  <2> QED BY <2>2 DEF Max, Shares!Max
<1>4. last \in Address /\ others \in SUBSET Address /\ last \notin others
  BY <1>3, AddressFacts
<1>5. ASSUME NEW a \in Address, a # last, a \notin others
      PROVE  p[a] = 0
  <2>1. PICK i \in 1..k : AddressOrder[i] = a
    BY AddressFacts
  <2>2. ~(CountOf(a, rows) > 0)
    BY <1>5, <2>1
  <2>3. CountOf(a, rows) \in Nat
    BY CountIs
  <2>4. CountOf(a, rows) = 0
    BY <2>2, <2>3
  <2> QED BY <2>4, PortionFacts
<1>6. rest = Shares!Total(p, others)
  BY DEF Shares!Total, GivenTo, MapThenSumSet, MapThenFoldSet, Shares!MapThenSumSet,
         Shares!MapThenFoldSet
<1>7. p \in [Address -> Nat] /\ Shares!Total(p, others) \in 0..reward
  BY <1>4, PortionFacts
<1>8. rest \in 0..reward /\ reward - rest \in Nat
  BY <1>6, <1>7
<1> HIDE DEF rest, others, last, p
<1>9. /\ c \in [Address -> Nat] /\ c \in [Address -> Int]
      /\ c[last] = reward - rest /\ \A a \in Address \ {last} : c[a] = p[a]
  BY <1>4, <1>7, <1>8
<1> HIDE DEF c
<1>10. Shares!Total(c, Address) = c[last] + Shares!Total(c, Address \ {last})
  BY <1>4, <1>9, AddressSums, Shares!TotalTake DEF GivenTo
<1> DEFINE idle == (Address \ {last}) \ others
<1>11. idle \in SUBSET Address /\ Address \ {last} = others \cup idle /\ others \cap idle = {}
  BY <1>4
<1>12. \A a \in idle : c[a] = 0
  BY <1>5, <1>9
<1> HIDE DEF idle
<1>13. Shares!Total(c, others \cup idle) = Shares!Total(c, others) + Shares!Total(c, idle)
  <2>1. others \in SUBSET Address /\ idle \in SUBSET Address /\ others \cap idle = {}
    BY <1>4, <1>11
  <2>2. /\ Shares!IsFiniteSet(others) /\ Shares!IsFiniteSet(idle)
        /\ Shares!Amounts(c, others) /\ Shares!Amounts(c, idle)
        /\ Shares!Amounts(c, others \cup idle)
    BY <1>9, <2>1, AddressSums
  <2> QED BY ONLY <2>1, <2>2, Shares!TotalUnion
<1>14. Shares!Total(c, others) = Shares!Total(p, others)
  <2>1. \A x \in others : GivenTo(c, x) = GivenTo(p, x)
    BY <1>4, <1>9 DEF GivenTo
  <2> QED BY <1>4, <1>9, <2>1, AddressSums, Shares!TotalSame
<1>15. Shares!Total(c, idle) = 0
  <2>1. \A x \in idle : GivenTo(c, x) = 0
    BY <1>12 DEF GivenTo
  <2> QED BY <1>9, <1>11, <2>1, AddressSums, Shares!TotalZero
<1>16. Shares!Total(c, Address) = reward
  <2>1. Address \ {last} = others \cup idle /\ Shares!Total(p, others) = rest
    BY ONLY <1>6, <1>11
  <2>2. PICK w : w = Shares!Total(c, Address)
    OBVIOUS
  <2>3. w = c[last] + rest
    BY ONLY <2>1, <2>2, <1>8, <1>10, <1>13, <1>14, <1>15
  <2>4. w = reward
    BY ONLY <2>3, <1>8, <1>9, reward \in Nat
  <2> QED BY ONLY <2>2, <2>4
<1> QED BY <1>1, <1>9, <1>16

-----------------------------------------------------------------------------
(* The invariant.                                                          *)

Running == [pc : {"post", "add", "credit", "refresh"}, worker : Worker,
            template : Template, nonce : Nonce, attempt : 1..Attempts]

LEMMA CallFacts ==
  ASSUME PoolTypeOK, call # NoCall
  PROVE  /\ call \in Running
         /\ call.pc \in {"post", "add", "credit", "refresh"} /\ call.worker \in Worker
         /\ call.template \in Template /\ call.nonce \in Nonce /\ call.attempt \in 1..Attempts
         /\ Key(call) \in Keys /\ BlockKey(Block(call)) = Key(call)
         /\ call.nonce \in BlockNonce => Block(call) \in Blocks
<1>1. call \in Running
  BY DEF PoolTypeOK, Calls, Running
<1>2. /\ call.pc \in {"post", "add", "credit", "refresh"} /\ call.worker \in Worker
      /\ call.template \in Template /\ call.nonce \in Nonce /\ call.attempt \in 1..Attempts
  BY <1>1 DEF Running
<1> QED BY <1>1, <1>2 DEF Key, Keys, BlockKey, Block, Blocks

LEMMA InitMining == PoolInit => MiningInv
<1> SUFFICES ASSUME PoolInit
             PROVE  MiningInv
  OBVIOUS
<1>1. PoolTypeOK
  BY PoolAssumption DEF PoolInit, PoolTypeOK, Calls
<1>2. CallInv /\ ReservedFirst /\ AcceptedInv /\ CountedInv /\ SubmissionCountsOnce
  BY DEF PoolInit, CallInv, ReservedFirst, AcceptedInv, CountedInv, SubmissionCountsOnce
<1>3. BalancesAreRewards
  <2>1. Shares!Total(balances, Address) = 0
    <3>1. \A a \in Address : GivenTo(balances, a) = 0
      BY DEF PoolInit, GivenTo
    <3>2. Shares!IsFiniteSet(Address)
      BY AddressFacts, FiniteInPool
    <3> QED BY <3>1, <3>2, Shares!TotalZero
  <2>2. Earnings!Total(0, rounds) = 0
    BY Earnings!TotalEmpty DEF PoolInit
  <2> QED BY <2>1, <2>2, OwedIs
<1>4. IsFiniteSet(rounds)
  BY FS_EmptySet DEF PoolInit
<1> QED BY <1>1, <1>2, <1>3, <1>4 DEF MiningInv, OwedInv

\* Nothing changes but the node's tip, the clock, the job and the miners' work.
LEMMA QuietStep ==
  ASSUME MiningInv, PoolTypeOK',
         UNCHANGED <<version, accepted, reserved, shares, balances, rounds, call, cut, refused>>
  PROVE  MiningInv'
<1>1. CallInv'
  BY DEF MiningInv, CallInv, Counted
<1>2. ReservedFirst' /\ AcceptedInv' /\ SubmissionCountsOnce'
  BY DEF MiningInv, ReservedFirst, AcceptedInv, SubmissionCountsOnce
<1>3. CountedInv'
  BY DEF MiningInv, CountedInv, Counted
<1>4. OwedInv'
  BY OwedIs DEF MiningInv, OwedInv
<1> QED BY <1>1, <1>2, <1>3, <1>4 DEF MiningInv

\* What the node may accept in a step of the submission that is running.
AcceptsNothingElse == accepted' = accepted \/ accepted' = accepted \cup {Block(call)}

\* The submission ends: it is counted among those that ended badly, or it is done.
LEMMA EndCall ==
  ASSUME MiningInv, PoolTypeOK', call # NoCall, call' = NoCall,
         UNCHANGED <<version, reserved, shares, balances, rounds>>, AcceptsNothingElse,
         cut \subseteq cut', refused \subseteq refused',
         \/ Key(call) \in cut'
         \/ version = "v0.31" /\ Key(call) \in refused'
         \/ call.pc = "refresh" /\ accepted' = accepted
  PROVE  MiningInv'
<1>1. BlockKey(Block(call)) = Key(call) /\ Key(call) \in reserved
  BY CallFacts DEF MiningInv, CallInv
<1>2. CallInv' /\ SubmissionCountsOnce'
  BY DEF MiningInv, CallInv, SubmissionCountsOnce
<1>3. ReservedFirst'
  BY <1>1 DEF MiningInv, ReservedFirst, AcceptsNothingElse
<1>4. AcceptedInv'
  <2>1. rounds' \subseteq accepted'
    BY DEF MiningInv, AcceptedInv, AcceptsNothingElse
  <2>2. ASSUME NEW b \in accepted'
        PROVE  \/ b \in rounds'
               \/ BlockKey(b) \in cut'
               \/ version' = "v0.31" /\ BlockKey(b) \in refused'
    <3>1. CASE BlockKey(b) # Key(call)
      <4>1. b \in accepted
        BY <1>1, <3>1 DEF AcceptsNothingElse
      <4> QED BY <3>1, <4>1 DEF MiningInv, AcceptedInv
    <3>2. CASE BlockKey(b) = Key(call) /\ call.pc = "refresh" /\ accepted' = accepted
      BY <3>2 DEF MiningInv, CallInv
    <3> QED BY <3>1, <3>2
  <2> QED BY <2>1, <2>2 DEF AcceptedInv
<1>5. CountedInv'
  BY DEF MiningInv, CountedInv, Counted
<1>6. OwedInv'
  BY OwedIs DEF MiningInv, OwedInv
<1> QED BY <1>2, <1>3, <1>4, <1>5, <1>6 DEF MiningInv

\* The submission goes on, having posted its block.
LEMMA PostGoesOn ==
  ASSUME MiningInv, PoolTypeOK', call # NoCall, call.pc = "post", NEW c, call' = c, c # NoCall,
         c.template = call.template, c.nonce = call.nonce, c.pc \in {"post", "add"},
         c.pc = "add" => Block(call) \in accepted',
         UNCHANGED <<version, reserved, shares, balances, rounds, cut, refused>>,
         AcceptsNothingElse
  PROVE  MiningInv'
<1>1. BlockKey(Block(call)) = Key(call) /\ Key(call) \in reserved
  BY CallFacts DEF MiningInv, CallInv
<1>2. Key(c) = Key(call) /\ Block(c) = Block(call)
  BY DEF Key, Block
<1>3. CallInv'
  <2>1. ~Counted(Key(c))' /\ Key(c) \in reserved'
    BY <1>1, <1>2 DEF MiningInv, CallInv, Counted
  <2>2. c.nonce \in BlockNonce
    BY DEF MiningInv, CallInv
  <2>3. \A b \in accepted' : BlockKey(b) = Key(c) => b = Block(c)
    BY <1>2 DEF MiningInv, CallInv, AcceptsNothingElse
  <2> QED BY <1>2, <2>1, <2>2, <2>3 DEF CallInv
<1>4. ReservedFirst' /\ SubmissionCountsOnce'
  BY <1>1 DEF MiningInv, ReservedFirst, AcceptsNothingElse, SubmissionCountsOnce
<1>5. AcceptedInv'
  BY <1>1, <1>2 DEF MiningInv, AcceptedInv, AcceptsNothingElse
<1>6. CountedInv'
  BY <1>2 DEF MiningInv, CountedInv, Counted
<1>7. OwedInv'
  BY OwedIs DEF MiningInv, OwedInv
<1> QED BY <1>3, <1>4, <1>5, <1>6, <1>7 DEF MiningInv

-----------------------------------------------------------------------------
(* The steps.                                                              *)

\* mining.get_job, and what happens around the pool.
LEMMA AroundStep ==
  ASSUME MiningInv, UNCHANGED <<version, refused>>,
         NodeMoves \/ Tick \/ \E w \in Worker : GetJob(w)
  PROVE  MiningInv'
<1>1. UNCHANGED <<version, accepted, reserved, shares, balances, rounds, call, cut, refused>>
  BY DEF NodeMoves, Tick, GetJob, CachedJob, RefreshedJob
<1>2. best' \in 0..MaxBest /\ clock' \in 0..MaxClock
  <2>1. best \in 0..MaxBest /\ clock \in 0..MaxClock
    BY DEF MiningInv, PoolTypeOK
  <2>2. CASE NodeMoves
    BY <2>1, <2>2, PoolAssumption DEF NodeMoves
  <2>3. CASE Tick
    BY <2>1, <2>3, PoolAssumption DEF Tick
  <2>4. CASE \E w \in Worker : GetJob(w)
    BY <2>1, <2>4 DEF GetJob, CachedJob, RefreshedJob
  <2> QED BY <2>2, <2>3, <2>4
<1>3. job' \subseteq Template /\ work' \in [Worker -> SUBSET Template]
  <2>1. job \subseteq Template /\ work \in [Worker -> SUBSET Template]
    BY DEF MiningInv, PoolTypeOK
  <2>2. CASE NodeMoves \/ Tick
    BY <2>1, <2>2 DEF NodeMoves, Tick
  <2>3. ASSUME NEW w \in Worker, CachedJob(w)
        PROVE  job' \subseteq Template /\ work' \in [Worker -> SUBSET Template]
    BY <2>1, <2>3 DEF CachedJob
  <2>4. ASSUME NEW w \in Worker, RefreshedJob(w)
        PROVE  job' \subseteq Template /\ work' \in [Worker -> SUBSET Template]
    BY <2>1, <2>4 DEF RefreshedJob
  <2> QED BY <2>2, <2>3, <2>4 DEF GetJob
<1>4. PoolTypeOK'
  BY <1>1, <1>2, <1>3 DEF MiningInv, PoolTypeOK
<1> QED BY <1>1, <1>4, QuietStep

LEMMA SubmitStep ==
  ASSUME MiningInv, UNCHANGED <<version, refused>>,
         NEW w \in Worker, NEW n \in NoncesOf[w], Submit(w, n)
  PROVE  MiningInv'
<1>1. PICK t \in work[w] :
        /\ <<JobId(t), n>> \notin reserved
        /\ reserved' = reserved \cup {<<JobId(t), n>>}
        /\ call' = [pc |-> IF n \in BlockNonce THEN "post" ELSE "add",
                    worker |-> w, template |-> t, nonce |-> n, attempt |-> 1]
  BY DEF Submit
<1>2. call = NoCall /\ UNCHANGED <<best, accepted, clock, job, work, shares, balances, rounds, cut>>
  BY DEF Submit
<1> DEFINE c == call'
           k == <<JobId(t), n>>
<1>3. /\ c.pc = (IF n \in BlockNonce THEN "post" ELSE "add") /\ c.worker = w
      /\ c.template = t /\ c.nonce = n /\ Key(c) = k
  BY <1>1 DEF Key
<1>4. t \in Template /\ n \in Nonce /\ k \in Keys
  BY DEF MiningInv, PoolTypeOK, Nonce, Keys
<1>5. c \in Running
  BY <1>1, <1>4, PoolAssumption DEF Running
<1>6. PoolTypeOK'
  BY <1>1, <1>2, <1>4, <1>5 DEF MiningInv, PoolTypeOK, Calls, Running
<1>7. c # NoCall
  <2>1. c.pc # NoCall.pc
    BY <1>3 DEF NoCall
  <2> QED BY <2>1
<1> HIDE DEF c
<1>8. CallInv'
  <2>1. ~Counted(k)'
    BY <1>1, <1>2 DEF MiningInv, ReservedFirst, Counted
  <2>2. \A b \in accepted' : BlockKey(b) # k
    BY <1>1, <1>2 DEF MiningInv, ReservedFirst
  <2>3. Key(c) \in reserved' /\ c.pc \in {"post", "add"} /\ (c.pc = "post" <=> n \in BlockNonce)
    BY <1>1, <1>3
  <2> HIDE DEF k
  <2> QED BY <1>3, <2>1, <2>2, <2>3 DEF CallInv, c
<1>9. ReservedFirst' /\ AcceptedInv' /\ SubmissionCountsOnce'
  BY <1>1, <1>2 DEF MiningInv, ReservedFirst, AcceptedInv, SubmissionCountsOnce
<1>10. CountedInv'
  BY <1>1, <1>2, <1>3, <1>7 DEF MiningInv, CountedInv, Counted, c
<1>11. OwedInv'
  BY <1>2, OwedIs DEF MiningInv, OwedInv
<1> QED BY <1>6, <1>8, <1>9, <1>10, <1>11 DEF MiningInv

\* What the node takes is of its kind.
LEMMA TakesFacts ==
  ASSUME MiningInv, call.pc = "post", best < MaxBest, NodeTakes(Block(call))
  PROVE  /\ AcceptsNothingElse /\ Block(call) \in accepted'
         /\ accepted' \subseteq Blocks /\ best' \in 0..MaxBest /\ call # NoCall
<1>1. call # NoCall
  BY DEF NoCall
<1>2. call.nonce \in BlockNonce /\ Block(call) \in Blocks
  BY <1>1, CallFacts DEF MiningInv, CallInv
<1>3. best \in 0..MaxBest /\ accepted \subseteq Blocks
  BY DEF MiningInv, PoolTypeOK
<1> QED BY <1>1, <1>2, <1>3, PoolAssumption DEF NodeTakes, AcceptsNothingElse

\* Another attempt, or the end of the request.
LEMMA RetryStep ==
  ASSUME MiningInv, UNCHANGED <<version, refused>>, call.pc = "post", Retry,
         UNCHANGED <<clock, job, work, reserved, shares, balances, rounds>>,
         AcceptsNothingElse, accepted' \subseteq Blocks, best' \in 0..MaxBest
  PROVE  MiningInv'
<1>1. call # NoCall
  BY DEF NoCall
<1>2. call \in Running /\ call.attempt \in 1..Attempts /\ Key(call) \in Keys
  BY <1>1, CallFacts DEF MiningInv
<1>3. CASE call.attempt < Attempts
  <2> DEFINE c == [call EXCEPT !.attempt = @ + 1]
  <2>1. call' = c /\ UNCHANGED cut
    BY <1>3 DEF Retry
  <2>2. call.attempt + 1 \in 1..Attempts
    BY <1>2, <1>3, PoolAssumption
  <2>3. /\ c \in Running /\ c.pc = "post" /\ c.template = call.template
        /\ c.nonce = call.nonce
    BY <1>2, <2>2 DEF Running
  <2> HIDE DEF c
  <2>4. c # NoCall
    BY <2>3 DEF NoCall
  <2>5. PoolTypeOK'
    BY <2>1, <2>3 DEF MiningInv, PoolTypeOK, Calls, Running
  <2> QED BY <1>1, <2>1, <2>3, <2>4, <2>5, PostGoesOn
<1>4. CASE ~(call.attempt < Attempts)
  <2>1. call' = NoCall /\ cut' = cut \cup {Key(call)}
    BY <1>4 DEF Retry, Raise
  <2>2. PoolTypeOK'
    BY <1>2, <2>1 DEF MiningInv, PoolTypeOK, Calls
  <2> QED BY <1>1, <2>1, <2>2, EndCall
<1> QED BY <1>3, <1>4

LEMMA PostStep ==
  ASSUME MiningInv, UNCHANGED <<version, refused>>, PostAccepted \/ PostAnswerLost \/ PostLost
  PROVE  MiningInv'
<1>1. CASE PostAccepted
  <2>1. /\ AcceptsNothingElse /\ Block(call) \in accepted' /\ accepted' \subseteq Blocks
        /\ best' \in 0..MaxBest /\ call # NoCall /\ call.pc = "post"
        /\ UNCHANGED <<clock, job, work, reserved, shares, balances, rounds, cut>>
    BY <1>1, TakesFacts DEF PostAccepted
  <2> DEFINE c == [call EXCEPT !.pc = "add"]
  <2>2. call' = c /\ call \in Running
    BY <1>1, <2>1, CallFacts DEF PostAccepted, MiningInv
  <2>3. c \in Running /\ c.pc = "add" /\ c.template = call.template /\ c.nonce = call.nonce
    BY <2>2 DEF Running
  <2> HIDE DEF c
  <2>4. c # NoCall
    BY <2>3 DEF NoCall
  <2>5. PoolTypeOK'
    BY <2>1, <2>2, <2>3 DEF MiningInv, PoolTypeOK, Calls, Running
  <2> QED BY <2>1, <2>2, <2>3, <2>4, <2>5, PostGoesOn
<1>2. CASE PostAnswerLost
  BY <1>2, TakesFacts, RetryStep DEF PostAnswerLost
<1>3. CASE PostLost
  <2>1. AcceptsNothingElse /\ accepted' \subseteq Blocks /\ best' \in 0..MaxBest
    BY <1>3 DEF PostLost, AcceptsNothingElse, MiningInv, PoolTypeOK
  <2> QED BY <1>3, <2>1, RetryStep DEF PostLost
<1> QED BY <1>1, <1>2, <1>3

\* The node refuses the block, which only a v0.31 node does.
LEMMA RefusedStep ==
  ASSUME MiningInv, PostRefused, UNCHANGED version
  PROVE  MiningInv'
<1>1. call # NoCall /\ Key(call) \in Keys
  BY CallFacts DEF MiningInv, PostRefused, NoCall
<1>2. version = "v0.31"
  BY DEF PostRefused, NodeAccepts, MiningInv, PoolTypeOK
<1>3. PoolTypeOK'
  BY <1>1 DEF PostRefused, MiningInv, PoolTypeOK, Calls
<1> QED BY <1>1, <1>2, <1>3, EndCall DEF PostRefused, AcceptsNothingElse

\* The pool stops, or the job is refreshed after a block.
LEMMA StopStep ==
  ASSUME MiningInv, UNCHANGED <<version, refused>>, Crash \/ RefreshAfterBlock
  PROVE  MiningInv'
<1>1. call # NoCall /\ call' = NoCall
  BY DEF Crash, RefreshAfterBlock, NoCall
<1>2. Key(call) \in Keys
  BY <1>1, CallFacts DEF MiningInv
<1>3. CASE Crash
  <2>1. PoolTypeOK'
    BY <1>2, <1>3 DEF Crash, MiningInv, PoolTypeOK, Calls
  <2> QED BY <1>1, <1>3, <2>1, EndCall DEF Crash, AcceptsNothingElse
<1>4. CASE RefreshAfterBlock
  <2>1. PoolTypeOK'
    BY <1>4 DEF RefreshAfterBlock, MiningInv, PoolTypeOK, Calls
  <2> QED BY <1>1, <1>4, <2>1, EndCall DEF RefreshAfterBlock, AcceptsNothingElse
<1> QED BY <1>3, <1>4

\* The share is counted; its key was not among those of the others.
LEMMA ShareStep ==
  ASSUME MiningInv, UNCHANGED <<version, refused>>, AddShare
  PROVE  MiningInv'
<1> DEFINE k == Key(call)
           s == [payout |-> PayoutOf[call.worker], key |-> k]
           solves == call.nonce \in BlockNonce
           c == IF solves THEN [call EXCEPT !.pc = "credit"] ELSE NoCall
           n == Len(shares)
<1>1. /\ call.pc = "add" /\ shares' = Append(shares, s) /\ call' = c
      /\ UNCHANGED <<best, accepted, clock, job, work, reserved, balances, rounds, cut>>
  BY DEF AddShare
<1>2. call # NoCall
  BY <1>1 DEF NoCall
<1>3. /\ call \in Running /\ call.worker \in Worker /\ k \in Keys /\ k \in reserved
      /\ BlockKey(Block(call)) = k /\ ~Counted(k)
  BY <1>1, <1>2, CallFacts DEF MiningInv, CallInv
<1>4. s \in [payout : Address, key : Keys] /\ s.key = k
  BY <1>3, PoolAssumption
<1>5. shares \in Seq([payout : Address, key : Keys]) /\ n \in Nat
  BY DEF MiningInv, PoolTypeOK
<1>6. solves => c \in Running /\ c.pc = "credit" /\ Key(c) = k /\ Block(c) = Block(call)
                /\ c.nonce \in BlockNonce
  BY <1>3 DEF Running, Key, Block
<1>7. ~solves => c = NoCall
  OBVIOUS
<1> HIDE DEF c, s, k
<1>8. /\ Len(shares') = n + 1 /\ shares'[n + 1] = s /\ \A i \in 1..n : shares'[i] = shares[i]
      /\ shares' \in Seq([payout : Address, key : Keys])
  BY <1>1, <1>4, <1>5
<1>9. PoolTypeOK'
  BY <1>1, <1>6, <1>7, <1>8 DEF MiningInv, PoolTypeOK, Calls, Running
<1>10. ASSUME NEW i \in 1..Len(shares')
       PROVE  i = n + 1 \/ (i \in 1..n /\ shares'[i] = shares[i])
  BY <1>5, <1>8
<1>11. SubmissionCountsOnce'
  <2>1. ASSUME NEW i \in 1..n PROVE shares[i].key # k
    BY <1>3, <2>1 DEF Counted
  <2>2. ASSUME NEW i \in 1..Len(shares'), NEW j \in 1..Len(shares'),
               shares'[i].key = shares'[j].key
        PROVE  i = j
    BY <1>4, <1>8, <1>10, <2>1, <2>2 DEF MiningInv, SubmissionCountsOnce
  <2> QED BY <2>2 DEF SubmissionCountsOnce
<1>12. ReservedFirst'
  BY <1>1, <1>3, <1>4, <1>8, <1>10 DEF MiningInv, ReservedFirst
<1>13. ASSUME NEW j, Counted(j) \/ j = k
       PROVE  Counted(j)'
  BY <1>4, <1>5, <1>8, <1>13 DEF Counted
<1>14. CountedInv'
  <2>1. ASSUME NEW j \in reserved' PROVE j \in (cut \cup refused)' \/ Counted(j)'
    BY <1>1, <1>13, <2>1 DEF MiningInv, CountedInv, k
  <2> QED BY <2>1 DEF CountedInv
<1>15. CallInv'
  <2>1. CASE solves
    <3>1. shares' # << >>
      BY <1>5, <1>8
    <3>2. Block(call) \in accepted /\ \A b \in accepted : BlockKey(b) = k => b = Block(call)
      BY <1>1, <1>2, <2>1 DEF MiningInv, CallInv, k
    <3> QED BY <1>1, <1>3, <1>6, <2>1, <3>1, <3>2 DEF CallInv
  <2>2. CASE ~solves
    BY <1>1, <1>7, <2>2 DEF CallInv
  <2> QED BY <2>1, <2>2
<1>16. AcceptedInv'
  <2>1. rounds' \subseteq accepted'
    BY <1>1 DEF MiningInv, AcceptedInv
  <2>2. ASSUME NEW b \in accepted'
        PROVE  \/ b \in rounds'
               \/ BlockKey(b) \in cut'
               \/ version' = "v0.31" /\ BlockKey(b) \in refused'
               \/ call' # NoCall /\ Key(call') = BlockKey(b)
    <3>1. CASE BlockKey(b) # k
      BY <1>1, <2>2, <3>1 DEF MiningInv, AcceptedInv, k
    <3>2. CASE BlockKey(b) = k
      <4>1. b = Block(call) /\ b \in Blocks
        BY <1>1, <1>2, <2>2, <3>2 DEF MiningInv, CallInv, PoolTypeOK, k
      <4>2. solves
        BY <4>1 DEF Block, Blocks
      <4>3. c # NoCall
        BY <1>6, <4>2 DEF NoCall
      <4> QED BY <1>1, <1>6, <3>2, <4>2, <4>3
    <3> QED BY <3>1, <3>2
  <2> QED BY <2>1, <2>2 DEF AcceptedInv
<1>17. OwedInv'
  BY <1>1, OwedIs DEF MiningInv, OwedInv
<1> QED BY <1>9, <1>11, <1>12, <1>14, <1>15, <1>16, <1>17 DEF MiningInv

LEMMA SeqMember ==
  ASSUME NEW R, NEW s \in Seq(R), NEW i \in 1..Len(s)
  PROVE  s[i] \in R
OBVIOUS

LEMMA WindowFacts ==
  ASSUME PoolTypeOK, shares # << >>
  PROVE  /\ Len(WindowShares) \in Nat \ {0}
         /\ \A i \in 1..Len(WindowShares) : WindowShares[i].payout \in Address
<1> DEFINE n == Len(shares)
           x == n - Window + 1
           m == Max({1, x})
<1>1. shares \in Seq([payout : Address, key : Keys]) /\ n \in Nat \ {0}
  BY DEF PoolTypeOK
<1>0. ASSUME NEW j \in 1..n PROVE shares[j].payout \in Address
  <2> DEFINE R == [payout : Address, key : Keys]
  <2>1. shares[j] \in R
    <3>1. shares \in Seq(R)
      BY <1>1
    <3> HIDE DEF R
    <3> QED BY <3>1, SeqMember
  <2> QED BY <2>1
<1>2. Window \in Nat \ {0}
  BY PoolAssumption
<1>3. x \in Int /\ x <= n
  BY <1>1, <1>2
<1>4. m = IF 1 >= x THEN 1 ELSE x
  BY <1>3, MaxTwo
<1>5. m \in 1..n
  BY <1>1, <1>3, <1>4
<1>6. WindowShares = SubSeq(shares, m, n)
  BY DEF WindowShares
<1> HIDE DEF m, n
<1>7. Len(WindowShares) = n - m + 1
  BY <1>1, <1>5, <1>6 DEF n
<1>8. \A i \in 1..Len(WindowShares) : WindowShares[i] = shares[m + i - 1]
  BY <1>1, <1>5, <1>6, <1>7 DEF n
<1>9. ASSUME NEW i \in 1..Len(WindowShares) PROVE WindowShares[i].payout \in Address
  <2>1. m + i - 1 \in 1..n
    BY <1>1, <1>5, <1>7
  <2> QED BY <1>0, <1>8, <2>1
<1> QED BY <1>1, <1>5, <1>7, <1>9

\* The round is credited: all of its reward, once.
LEMMA CreditingStep ==
  ASSUME MiningInv, UNCHANGED <<version, refused>>, CreditPPLNS
  PROVE  MiningInv'
<1> DEFINE b == Block(call)
           given == Credits(call.template.reward, WindowShares)
           c == [call EXCEPT !.pc = "refresh"]
<1>1. /\ call.pc = "credit" /\ call' = c
      /\ UNCHANGED <<best, accepted, clock, job, work, reserved, shares, cut>>
      /\ IF b \in rounds THEN UNCHANGED <<balances, rounds>>
         ELSE /\ balances' = [a \in Address |-> balances[a] + given[a]]
              /\ rounds' = rounds \cup {b}
  BY DEF CreditPPLNS
<1>2. call # NoCall
  BY <1>1 DEF NoCall
<1>3. /\ call \in Running /\ call.template \in Template /\ Key(call) \in reserved
      /\ BlockKey(b) = Key(call) /\ b \in accepted /\ b \in Blocks /\ call.nonce \in BlockNonce
      /\ \A d \in accepted : BlockKey(d) = Key(call) => d = b
      /\ shares # << >>
  BY <1>1, <1>2, CallFacts DEF MiningInv, CallInv
<1>4. c \in Running /\ c.pc = "refresh" /\ Key(c) = Key(call) /\ Block(c) = b
      /\ c.nonce \in BlockNonce
  BY <1>3 DEF Running, Key, Block
<1>5. c # NoCall
  BY <1>4 DEF NoCall
<1>6. /\ given \in [Address -> Nat]
      /\ Shares!Total(given, Address) = call.template.reward
      /\ b.template.reward = call.template.reward /\ b.template.reward \in Nat
  <2>1. call.template.reward \in Nat /\ b.template = call.template
    BY <1>3, PoolAssumption DEF Template, Block
  <2>2. /\ Len(WindowShares) \in Nat \ {0}
        /\ \A i \in 1..Len(WindowShares) : WindowShares[i].payout \in Address
    BY <1>3, WindowFacts DEF MiningInv
  <2> QED BY <2>1, <2>2, CreditFacts
<1> HIDE DEF given, b, c
<1>7. /\ balances \in [Address -> Nat] /\ rounds \subseteq Blocks /\ IsFiniteSet(rounds)
      /\ Shares!Total(balances, Address) = Earnings!Total(0, rounds)
  BY OwedIs DEF MiningInv, PoolTypeOK, OwedInv
<1>8. /\ balances' \in [Address -> Nat] /\ rounds' \subseteq Blocks /\ IsFiniteSet(rounds')
      /\ b \in rounds' /\ rounds \subseteq rounds' /\ rounds' \subseteq rounds \cup {b}
  <2>1. CASE b \in rounds
    BY <1>1, <1>7, <2>1
  <2>2. CASE b \notin rounds
    <3>1. \A a \in Address : balances[a] \in Nat /\ given[a] \in Nat
      BY <1>6, <1>7
    <3>2. IsFiniteSet(rounds \cup {b})
      BY <1>7, FS_AddElement
    <3>3. balances' \in [Address -> Nat]
      BY <1>1, <2>2, <3>1
    <3>4. rounds' = rounds \cup {b}
      BY <1>1, <2>2
    <3> QED BY <1>3, <1>7, <3>2, <3>3, <3>4
  <2> QED BY <2>1, <2>2
<1>9. Shares!Total(balances', Address) = Earnings!Total(0, rounds')
  <2>1. CASE b \in rounds
    BY <1>1, <1>7, <2>1
  <2>2. CASE b \notin rounds
    <3>1. Earnings!IsFiniteSet(rounds) /\ Shares!IsFiniteSet(Address)
      BY <1>7, AddressFacts, FiniteInPool
    <3>2. Earnings!Amounts(0, rounds)
      <4>1. ASSUME NEW d \in rounds PROVE d.template.reward \in Int
        <5>1. d \in Blocks
          BY <1>7
        <5>2. d.template \in Template
          BY <5>1 DEF Blocks
        <5>3. d.template.reward \in Reward
          BY <5>2 DEF Template
        <5>4. d.template.reward \in Nat
          BY <5>3, PoolAssumption
        <5> QED BY <5>4
      <4> QED BY <4>1 DEF Earnings!Amounts, Earned
    <3>3. Earned(0, b) \in Int /\ Earned(0, b) = call.template.reward
      BY <1>6 DEF Earned
    <3>4. Earnings!Total(0, rounds \cup {b}) = Earned(0, b) + Earnings!Total(0, rounds)
      BY <2>2, <3>1, <3>2, <3>3, Earnings!TotalAdd
    <3>5. PICK next : next = balances' /\ next = [a \in Address |-> balances[a] + given[a]]
      BY <1>1, <2>2
    <3>6. \A a \in Address : GivenTo(next, a) = GivenTo(balances, a) + GivenTo(given, a)
      BY <3>5 DEF GivenTo
    <3>7. Shares!Amounts(balances, Address) /\ Shares!Amounts(given, Address)
      BY <1>6, <1>7 DEF Shares!Amounts, GivenTo
    <3>8. Shares!Total(next, Address)
            = Shares!Total(balances, Address) + Shares!Total(given, Address)
      BY <3>1, <3>6, <3>7, Shares!TotalPlus
    <3>9. rounds' = rounds \cup {b}
      BY <1>1, <2>2
    <3>10. Earnings!Total(0, rounds) \in Int
      BY <3>1, <3>2, Earnings!TotalTake
    <3> QED BY ONLY <1>6, <1>7, <3>3, <3>4, <3>5, <3>8, <3>9, <3>10
  <2> QED BY <2>1, <2>2
<1>10. OwedInv'
  BY <1>8, <1>9, OwedIs DEF OwedInv
<1>11. PoolTypeOK'
  BY <1>1, <1>4, <1>8 DEF MiningInv, PoolTypeOK, Calls, Running
<1>12. CallInv'
  BY <1>1, <1>3, <1>4, <1>8 DEF CallInv
<1>13. ReservedFirst' /\ SubmissionCountsOnce'
  BY <1>1 DEF MiningInv, ReservedFirst, SubmissionCountsOnce
<1>14. AcceptedInv'
  <2>1. rounds' \subseteq accepted'
    BY <1>1, <1>3, <1>8 DEF MiningInv, AcceptedInv
  <2>2. ASSUME NEW d \in accepted'
        PROVE  \/ d \in rounds'
               \/ BlockKey(d) \in cut'
               \/ version' = "v0.31" /\ BlockKey(d) \in refused'
    BY <1>1, <1>3, <1>8, <2>2 DEF MiningInv, AcceptedInv
  <2> QED BY <2>1, <2>2 DEF AcceptedInv
<1>15. CountedInv'
  BY <1>1 DEF MiningInv, CountedInv, Counted
<1> QED BY <1>10, <1>11, <1>12, <1>13, <1>14, <1>15 DEF MiningInv

LEMMA NextMining == MiningInv /\ [PoolNext]_poolVars => MiningInv'
<1> SUFFICES ASSUME MiningInv, [PoolNext]_poolVars
             PROVE  MiningInv'
  OBVIOUS
<1>1. CASE UNCHANGED poolVars
  <2>1. PoolTypeOK'
    BY <1>1 DEF poolVars, MiningInv, PoolTypeOK
  <2> QED BY <1>1, <2>1, QuietStep DEF poolVars
<1>2. CASE PostRefused /\ UNCHANGED version
  BY <1>2, RefusedStep
<1>3. ASSUME NEW w \in Worker, UNCHANGED <<version, refused>>,
             GetJob(w) \/ \E n \in NoncesOf[w] : Submit(w, n)
      PROVE  MiningInv'
  BY <1>3, AroundStep, SubmitStep
<1>4. CASE FinishSubmit /\ UNCHANGED <<version, refused>>
  BY <1>4, PostStep, ShareStep, CreditingStep, StopStep DEF FinishSubmit
<1>5. CASE (NodeMoves \/ Tick \/ Crash) /\ UNCHANGED <<version, refused>>
  BY <1>5, AroundStep, StopStep
<1> QED BY <1>1, <1>2, <1>3, <1>4, <1>5 DEF PoolNext

\* What miners are owed is what the credited blocks earned, to the atomic unit,
\* whatever the node, the network and the crashes of the pool do.
THEOREM RewardsDistributed == PoolSpec => []BalancesAreRewards
<1>1. MiningInv => BalancesAreRewards
  BY DEF MiningInv, OwedInv
<1> QED BY <1>1, InitMining, NextMining, PTL DEF PoolSpec

\* No submission counts as two shares.
THEOREM CountedOnce == PoolSpec => []SubmissionCountsOnce
<1>1. MiningInv => SubmissionCountsOnce
  BY DEF MiningInv
<1> QED BY <1>1, InitMining, NextMining, PTL DEF PoolSpec

\* Between two requests the credited blocks are the accepted ones, except for
\* those whose submission ended in a crash or without an answer, or was refused by
\* a v0.31 node that had it.
THEOREM AcceptedAreCredited == PoolSpec => []CreditedExactly
<1>1. MiningInv => CreditedExactly
  BY DEF MiningInv, AcceptedInv, CreditedExactly
<1> QED BY <1>1, InitMining, NextMining, PTL DEF PoolSpec

\* Between two requests a reserved submission has its share, or its request ended
\* badly.
THEOREM ReservedHaveShares == PoolSpec => []ReservedAreCounted
<1>1. MiningInv => ReservedAreCounted
  BY DEF MiningInv, CountedInv, Counted, ReservedAreCounted
<1> QED BY <1>1, InitMining, NextMining, PTL DEF PoolSpec

\* The pool's tables hold values of their kind; no balance is ever negative.
THEOREM PoolTypeCorrect == PoolSpec => []PoolTypeOK
<1>1. MiningInv => PoolTypeOK
  BY DEF MiningInv
<1> QED BY <1>1, InitMining, NextMining, PTL DEF PoolSpec
=============================================================================

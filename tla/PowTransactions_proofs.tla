----------------------- MODULE PowTransactions_proofs -----------------------
(***************************************************************************)
(* Facts about the operators of PowTransactions: what the recursive        *)
(* functions for fees and subsidies return, when a list of transactions    *)
(* connects to a UTXO table, and what it does to the sum of the amounts.   *)
(*                                                                         *)
(* The induction over numbers and the sums of amounts are those of         *)
(* FoldInduction, with AmountIn(u, op) as the amount of an outpoint (u is  *)
(* not used).  What is said of finite sets and of sequences is of use to   *)
(* other modules too.                                                      *)
(***************************************************************************)
EXTENDS PowTransactions, FiniteSetTheorems, TLAPS

AmountIn(u, op) == Amount(op)

Worth == INSTANCE FoldInduction WITH Op <- AmountIn

-----------------------------------------------------------------------------
(* Sets and sequences.                                                     *)

LEMMA FiniteIs == \A S : IsFiniteSet(S) <=> Worth!IsFiniteSet(S)
BY DEF IsFiniteSet, Worth!IsFiniteSet

\* A sequence, of whatever it is made.
IsSeq(s) == \E S : s \in Seq(S)

LEMMA SequenceFacts ==
  ASSUME NEW s, IsSeq(s)
  PROVE  Len(s) \in Nat /\ DOMAIN s = 1..Len(s)
BY DEF IsSeq

LEMMA AppendFacts ==
  ASSUME NEW s, IsSeq(s), NEW x
  PROVE  /\ IsSeq(Append(s, x)) /\ Len(Append(s, x)) = Len(s) + 1
         /\ DOMAIN Append(s, x) = DOMAIN s \cup {Len(s) + 1}
         /\ Append(s, x)[Len(s) + 1] = x /\ Len(s) + 1 \notin DOMAIN s
         /\ \A i \in DOMAIN s : Append(s, x)[i] = s[i]
<1>1. PICK S : s \in Seq(S)
  BY DEF IsSeq
<1>2. Len(s) \in Nat /\ DOMAIN s = 1..Len(s)
  BY <1>1
<1> DEFINE T == S \cup {x}
<1>3. s \in Seq(T)
  <2>1. \A i \in 1..Len(s) : s[i] \in T
    BY <1>1
  <2>2. s = [i \in 1..Len(s) |-> s[i]]
    BY <1>1
  <2> HIDE DEF T
  <2> QED BY <1>2, <2>1, <2>2
<1>4. x \in T
  OBVIOUS
<1> HIDE DEF T
<1>5. /\ Append(s, x) \in Seq(T) /\ Len(Append(s, x)) = Len(s) + 1
      /\ Append(s, x)[Len(s) + 1] = x /\ \A i \in 1..Len(s) : Append(s, x)[i] = s[i]
  BY <1>3, <1>4
<1>6. DOMAIN Append(s, x) = 1..(Len(s) + 1)
  BY <1>5
<1>7. 1..(Len(s) + 1) = 1..Len(s) \cup {Len(s) + 1} /\ Len(s) + 1 \notin 1..Len(s)
  BY <1>2
<1> QED BY <1>2, <1>5, <1>6, <1>7 DEF IsSeq

-----------------------------------------------------------------------------
(* Amounts.                                                                *)

LEMMA AmountSumIs == \A S : AmountSum(S) = Worth!Total(0, S)
BY DEF AmountSum, Worth!Total, AmountIn, MapThenSumSet, MapThenFoldSet,
       Worth!MapThenSumSet, Worth!MapThenFoldSet

\* The amount of an outpoint is a natural number.
LEMMA AmountType == \A op \in Outpoint : Amount(op) \in Nat
<1> SUFFICES ASSUME NEW op \in Outpoint
             PROVE  Amount(op) \in Nat
  OBVIOUS
<1> DEFINE t == TxidOf(op)
<1>1. t \in Tx \/ t \in Coinbase
  BY DEF Outpoint, TxidOf
<1>2. CASE t \in Tx
  <2>1. TxOut[t] \in Seq(Nat \ {0})
    BY <1>2, TxAssumption
  <2>2. \A n \in DOMAIN TxOut[t] : TxOut[t][n] \in Nat
    BY <2>1
  <2> QED BY <1>2, <2>2 DEF Amount
<1>3. CASE t \notin Tx
  <2>1. t[3] \in Nat
    BY <1>1, <1>3 DEF Coinbase
  <2> QED BY <1>3, <2>1 DEF Amount
<1> QED BY <1>2, <1>3

\* The sum of the amounts of finitely many outpoints.
LEMMA AmountSumType ==
  ASSUME NEW S \in SUBSET Outpoint, IsFiniteSet(S)
  PROVE  AmountSum(S) \in Nat /\ Worth!Amounts(0, S)
<1>1. \A op \in S : AmountIn(0, op) \in Nat
  BY AmountType DEF AmountIn
<1>2. Worth!Total(0, S) \in Nat
  BY <1>1, FiniteIs, Worth!TotalNat
<1> QED BY <1>1, <1>2, AmountSumIs DEF Worth!Amounts

\* Outputs that are added or taken away are added or taken away from it.
LEMMA AmountSumUnion ==
  ASSUME NEW S \in SUBSET Outpoint, IsFiniteSet(S),
         NEW T \in SUBSET Outpoint, IsFiniteSet(T), S \cap T = {}
  PROVE  AmountSum(S \cup T) = AmountSum(S) + AmountSum(T)
BY AmountSumType, FiniteIs, AmountSumIs, Worth!TotalUnion

LEMMA AmountSumWithout ==
  ASSUME NEW S \in SUBSET Outpoint, IsFiniteSet(S), NEW T \in SUBSET S
  PROVE  AmountSum(S \ T) = AmountSum(S) - AmountSum(T)
BY AmountSumType, FiniteIs, AmountSumIs, Worth!TotalWithout

LEMMA AmountSumEmpty == AmountSum({}) = 0
BY AmountSumIs, Worth!TotalEmpty

\* The outputs of a transaction are finitely many outpoints with its txid.
LEMMA OutputsType ==
  ASSUME NEW t \in Tx
  PROVE  /\ Outputs(t) \in SUBSET Outpoint /\ IsFiniteSet(Outputs(t))
         /\ \A op \in Outputs(t) : TxidOf(op) = t
<1>1. TxOut[t] \in Seq(Nat \ {0})
  BY TxAssumption
<1>2. DOMAIN TxOut[t] = 1..Len(TxOut[t]) /\ Len(TxOut[t]) \in Nat
  BY <1>1
<1>3. Outputs(t) \in SUBSET Outpoint /\ \A op \in Outputs(t) : TxidOf(op) = t
  BY <1>2 DEF Outputs, Outpoint, TxidOf
<1>4. IsFiniteSet(Outputs(t))
  <2> DEFINE g == [n \in 1..Len(TxOut[t]) |-> <<t, n>>]
  <2>1. g \in Surjection(1..Len(TxOut[t]), Outputs(t))
    BY <1>2 DEF Surjection, Outputs
  <2>2. IsFiniteSet(1..Len(TxOut[t]))
    BY <1>2, FS_Interval
  <2> HIDE DEF g
  <2> QED BY <2>1, <2>2, FS_Surjection
<1> QED BY <1>3, <1>4

\* A fee is an integer.
LEMMA FeeType == \A t \in Tx : Fee(t) \in Int
<1> SUFFICES ASSUME NEW t \in Tx PROVE Fee(t) \in Int
  OBVIOUS
<1>1. TxIn[t] \in SUBSET Outpoint /\ IsFiniteSet(TxIn[t])
  BY TxAssumption
<1>2. AmountSum(TxIn[t]) \in Nat /\ AmountSum(Outputs(t)) \in Nat
  BY <1>1, OutputsType, AmountSumType
<1> QED BY <1>2 DEF Fee

-----------------------------------------------------------------------------
(* Subsidies and fees.                                                     *)

\* Shifting a natural number gives a natural number.
LEMMA HalvedType ==
  ASSUME NEW n \in Nat
  PROVE  Halved(n) \in Nat
<1> DEFINE Step == [k \in 1..n |-> [v \in Nat |-> v \div 2]]
           Rec(sh) ==
             sh = [i \in 0..n |-> IF i = 0 THEN InitialSubsidy ELSE sh[i - 1] \div 2]
<1>1. \E sh : Rec(sh)
  <2>1. Step \in [1..n -> [Nat -> Nat]]
    OBVIOUS
  <2>2. \A k \in 1..n, v \in Nat : Step[k][v] = v \div 2
    OBVIOUS
  <2> HIDE DEF Step
  <2>3. Worth!HasRecurrence(n, Nat, InitialSubsidy, Step)
    BY <2>1, ConfigAssumption, Worth!IntervalRecursion, Zenon
  <2>4. PICK f \in [0..n -> Nat] :
           f[0] = InitialSubsidy /\ \A k \in 1..n : f[k] = Step[k][f[k - 1]]
    BY <2>3 DEF Worth!HasRecurrence
  <2>5. ASSUME NEW k \in 1..n PROVE f[k] = f[k - 1] \div 2
    <3>1. f[k] = Step[k][f[k - 1]]
      BY <2>4
    <3>2. f[k - 1] \in Nat
      <4>1. k - 1 \in 0..n
        OBVIOUS
      <4> QED BY <2>4, <4>1
    <3> QED BY <2>2, <3>1, <3>2, Zenon
  <2>6. Rec(f)
    BY <2>4, <2>5
  <2> QED BY <2>6
<1>2. PICK sh : Rec(sh) /\ Halved(n) = sh[n]
  <2>1. Halved(n) = (CHOOSE sh : Rec(sh))[n]
    BY DEF Halved
  <2> HIDE DEF Rec
  <2> QED BY <1>1, <2>1
<1> DEFINE Bad == { i \in 0..n : sh[i] \notin Nat }
<1>3. sh[0] = InitialSubsidy /\ \A i \in 1..n : sh[i] = sh[i - 1] \div 2
  BY <1>2
<1>4. SUFFICES ASSUME Bad # {} PROVE FALSE
  <2>1. n \notin Bad => sh[n] \in Nat
    OBVIOUS
  <2> HIDE DEF Bad, Rec
  <2> QED BY <1>2, <2>1
<1>5. PICK i \in Bad : \A k \in Bad : i <= k
  <2> Bad \subseteq Nat OBVIOUS
  <2> HIDE DEF Bad
  <2> QED BY <1>4, Worth!LeastElement
<1>6. i # 0
  BY <1>3, <1>5, ConfigAssumption
<1>7. i - 1 \in 0..n /\ i - 1 \notin Bad
  BY <1>5, <1>6
<1> QED
  BY <1>3, <1>5, <1>6, <1>7

\* The subsidy is a natural number at every height.
LEMMA SubsidyType == \A h \in Nat : Subsidy(h) \in Nat
<1> SUFFICES ASSUME NEW h \in Nat PROVE Subsidy(h) \in Nat
  OBVIOUS
<1>1. h \div HalvingInterval \in Nat
  BY ConfigAssumption
<1> QED BY <1>1, HalvedType DEF Subsidy

\* The recursive function inside Fees exists, and it adds up the fees.
LEMMA FeesUnfold ==
  ASSUME NEW s \in Seq(Tx)
  PROVE  \E sum \in [0..Len(s) -> Int] :
            /\ sum[0] = 0
            /\ \A i \in 1..Len(s) : sum[i] = sum[i - 1] + Fee(s[i])
            /\ Fees(s) = sum[Len(s)]
<1> DEFINE n == Len(s)
           Step == [k \in 1..n |-> [v \in Int |-> v + Fee(s[k])]]
           Rec(sum) ==
             sum = [i \in 0..n |-> IF i = 0 THEN 0 ELSE sum[i - 1] + Fee(s[i])]
<1>1. \A k \in 1..n : Fee(s[k]) \in Int
  BY FeeType
<1>2. n \in Nat
  OBVIOUS
<1>3. \E sum : Rec(sum)
  <2>1. Step \in [1..n -> [Int -> Int]]
    BY <1>1
  <2>2. \A k \in 1..n, v \in Int : Step[k][v] = v + Fee(s[k])
    OBVIOUS
  <2> HIDE DEF n, Step
  <2>3. Worth!HasRecurrence(n, Int, 0, Step)
    <3>1. 0 \in Int
      OBVIOUS
    <3> QED BY <1>2, <2>1, <3>1, Worth!IntervalRecursion, Zenon
  <2>4. PICK f \in [0..n -> Int] :
           f[0] = 0 /\ \A k \in 1..n : f[k] = Step[k][f[k - 1]]
    BY <2>3 DEF Worth!HasRecurrence
  <2>5. ASSUME NEW k \in 1..n PROVE f[k] = f[k - 1] + Fee(s[k])
    <3>1. f[k] = Step[k][f[k - 1]]
      BY <2>4
    <3>2. f[k - 1] \in Int
      <4>1. k - 1 \in 0..n
        BY <1>2
      <4> QED BY <2>4, <4>1
    <3> QED BY <2>2, <3>1, <3>2, Zenon
  <2>6. Rec(f)
    BY <1>2, <2>4, <2>5
  <2> QED BY <2>6
<1>4. PICK sum : Rec(sum) /\ Fees(s) = sum[n]
  <2>1. Fees(s) = (CHOOSE sum : Rec(sum))[n]
    BY DEF Fees
  <2> HIDE DEF Rec
  <2> QED BY <1>3, <2>1
<1>5. sum[0] = 0 /\ \A i \in 1..n : sum[i] = sum[i - 1] + Fee(s[i])
  <2> HIDE DEF n
  <2> QED BY <1>2, <1>4
<1> DEFINE Bad == { i \in 0..n : sum[i] \notin Int }
<1>6. Bad = {}
  <2>1. SUFFICES ASSUME Bad # {} PROVE FALSE
    OBVIOUS
  <2>2. PICK i \in Bad : \A k \in Bad : i <= k
    <3> Bad \subseteq Nat OBVIOUS
    <3> HIDE DEF Bad
    <3> QED BY <2>1, Worth!LeastElement
  <2> HIDE DEF n, Rec
  <2>3. i \in 1..n
    BY <1>2, <1>5, <2>2
  <2>4. i - 1 \in 0..n /\ i - 1 \notin Bad
    BY <1>2, <2>2, <2>3
  <2> QED
    BY <1>1, <1>2, <1>5, <2>2, <2>3, <2>4
<1>7. sum \in [0..n -> Int]
  <2>1. sum = [i \in 0..n |-> sum[i]]
    BY <1>4
  <2>2. \A i \in 0..n : sum[i] \in Int
    BY <1>6
  <2> HIDE DEF n, Rec, Bad
  <2> QED BY <2>1, <2>2
<1> QED
  BY <1>4, <1>5, <1>7

\* The fees of a list of transactions are an integer.
LEMMA FeesType == \A s \in Seq(Tx) : Fees(s) \in Int
<1> SUFFICES ASSUME NEW s \in Seq(Tx) PROVE Fees(s) \in Int
  OBVIOUS
<1>1. PICK sum \in [0..Len(s) -> Int] : Fees(s) = sum[Len(s)]
  BY FeesUnfold
<1>2. Len(s) \in 0..Len(s)
  OBVIOUS
<1> QED BY <1>1, <1>2

\* No transactions, no fees.
LEMMA FeesEmpty == Fees(<< >>) = 0
<1>1. << >> \in Seq(Tx) /\ Len(<< >>) = 0
  OBVIOUS
<1>2. PICK sum \in [0..0 -> Int] : sum[0] = 0 /\ Fees(<< >>) = sum[0]
  BY <1>1, FeesUnfold
<1> QED BY <1>2

\* One transaction more adds its fee, as the loops of get_block_template and
\* _validate_block_transactions do.
LEMMA FeesAppend ==
  ASSUME NEW s \in Seq(Tx), NEW t \in Tx
  PROVE  Fees(Append(s, t)) = Fees(s) + Fee(t)
<1> DEFINE n == Len(s)
           u == Append(s, t)
<1>1. n \in Nat /\ u \in Seq(Tx) /\ Len(u) = n + 1 /\ u[n + 1] = t
  OBVIOUS
<1>2. \A i \in 1..n : u[i] = s[i]
  OBVIOUS
<1>3. PICK f \in [0..n -> Int] :
         /\ f[0] = 0
         /\ \A i \in 1..n : f[i] = f[i - 1] + Fee(s[i])
         /\ Fees(s) = f[n]
  BY FeesUnfold
<1> HIDE DEF u
<1>4. PICK g \in [0..(n + 1) -> Int] :
         /\ g[0] = 0
         /\ \A i \in 1..(n + 1) : g[i] = g[i - 1] + Fee(u[i])
         /\ Fees(u) = g[n + 1]
  BY <1>1, FeesUnfold
<1> HIDE DEF n
<1> DEFINE Bad == { i \in 0..n : g[i] # f[i] }
<1>5. Bad = {}
  <2>1. SUFFICES ASSUME Bad # {} PROVE FALSE
    OBVIOUS
  <2>2. PICK i \in Bad : \A k \in Bad : i <= k
    <3> Bad \subseteq Nat OBVIOUS
    <3> HIDE DEF Bad
    <3> QED BY <2>1, Worth!LeastElement
  <2>3. i \in 1..n
    BY <1>1, <1>3, <1>4, <2>2
  <2>4. i - 1 \in 0..n /\ i - 1 \notin Bad
    BY <1>1, <2>2, <2>3
  <2>5. g[i - 1] = f[i - 1]
    BY <2>4
  <2>6. f[i] = f[i - 1] + Fee(s[i]) /\ g[i] = g[i - 1] + Fee(s[i])
    BY <1>1, <1>2, <1>3, <1>4, <2>3
  <2> QED BY <2>2, <2>5, <2>6
<1>6. g[n] = f[n]
  <2>1. n \in 0..n
    BY <1>1
  <2>2. n \notin Bad
    BY <1>5, Zenon
  <2> QED BY <2>1, <2>2
<1>7. g[n + 1] = g[n] + Fee(t)
  BY <1>1, <1>4
<1>8. Fees(u) = Fees(s) + Fee(t)
  BY <1>3, <1>4, <1>6, <1>7
<1> QED BY <1>8 DEF u

-----------------------------------------------------------------------------
(* Lists of transactions that connect to a UTXO table.                     *)

\* An input of a connecting list is in the table or an output of a transaction
\* that stands before it.
LEMMA ConnectedInput ==
  ASSUME NEW U, NEW h \in Nat, NEW s \in Seq(Tx), Connects(U, h, s),
         NEW i \in 1..Len(s), NEW op \in TxIn[s[i]]
  PROVE  op \in U \/ \E j \in 1..(i - 1) : op \in Outputs(s[j])
BY DEF Connects, Overlay

\* Two transactions of a connecting list spend different outputs.
LEMMA ConnectedDisjoint ==
  ASSUME NEW U, NEW h \in Nat, NEW s \in Seq(Tx), Connects(U, h, s),
         NEW i \in 1..Len(s), NEW j \in 1..Len(s), i < j
  PROVE  TxIn[s[i]] \cap TxIn[s[j]] = {}
<1>1. i \in 1..(j - 1)
  OBVIOUS
<1>2. TxIn[s[j]] \subseteq Overlay(U, s, j)
  BY DEF Connects
<1> QED BY <1>1, <1>2 DEF Overlay

\* Therefore no transaction occurs twice in it.
LEMMA ConnectedInjective ==
  ASSUME NEW U, NEW h \in Nat, NEW s \in Seq(Tx), Connects(U, h, s),
         NEW i \in 1..Len(s), NEW j \in 1..Len(s), s[i] = s[j]
  PROVE  i = j
<1>1. TxIn[s[i]] # {}
  BY TxAssumption
<1>2. ~ (i < j) /\ ~ (j < i)
  BY <1>1, ConnectedDisjoint
<1> QED BY <1>2

\* Conversely, mature inputs that are in the table and differ from one another
\* make a list connect: what get_block_template relies on.
LEMMA DisjointConnects ==
  ASSUME NEW U, NEW h \in Nat, NEW s \in Seq(Tx),
         \A i \in 1..Len(s) : /\ TxIn[s[i]] \subseteq U
                              /\ \A op \in TxIn[s[i]] : Mature(op, h)
                              /\ Fee(s[i]) >= 0,
         \A i, j \in 1..Len(s) : i < j => TxIn[s[i]] \cap TxIn[s[j]] = {}
  PROVE  Connects(U, h, s)
<1> SUFFICES ASSUME NEW i \in 1..Len(s), NEW op \in TxIn[s[i]]
             PROVE  op \in Overlay(U, s, i)
  BY DEF Connects
<1>1. \A j \in 1..(i - 1) : j \in 1..Len(s) /\ j < i
  OBVIOUS
<1> QED BY <1>1 DEF Overlay

\* The transactions of a connecting list with new outputs take their fees out of
\* the sum of the unspent amounts, and nothing else.
LEMMA ConnectedSum ==
  ASSUME NEW U \in SUBSET Outpoint, IsFiniteSet(U),
         NEW h \in Nat, NEW s \in Seq(Tx), Connects(U, h, s),
         \A i \in 1..Len(s) : Outputs(s[i]) \cap U = {}
  PROVE  LET W == (U \ Spent(s)) \cup Created(s)
         IN  IsFiniteSet(W) /\ W \in SUBSET Outpoint /\ AmountSum(W) = AmountSum(U) - Fees(s)
<1> DEFINE n == Len(s)
           In(i) == TxIn[s[i]]
           Out(i) == Outputs(s[i])
           O(k) == (U \cup UNION { Out(j) : j \in 1..k }) \ UNION { In(j) : j \in 1..k }
<1>1. n \in Nat /\ \A i \in 1..n : s[i] \in Tx
  OBVIOUS
<1>2. \A i \in 1..n : /\ In(i) \in SUBSET Outpoint /\ IsFiniteSet(In(i))
                      /\ Out(i) \in SUBSET Outpoint /\ IsFiniteSet(Out(i))
                      /\ \A op \in Out(i) : TxidOf(op) = s[i]
                      /\ Out(i) \cap U = {}
                      /\ Fee(s[i]) = AmountSum(In(i)) - AmountSum(Out(i))
  BY <1>1, OutputsType, TxAssumption DEF Fee
<1>3. \A i, j \in 1..n : s[i] = s[j] => i = j
  BY ConnectedInjective
<1>4. \A i \in 1..n : In(i) \subseteq O(i - 1)
  BY DEF Connects, Overlay
<1>5. PICK sum \in [0..n -> Int] :
        /\ sum[0] = 0
        /\ \A i \in 1..n : sum[i] = sum[i - 1] + Fee(s[i])
        /\ Fees(s) = sum[n]
  BY FeesUnfold
<1> HIDE DEF n, In, Out
\* One transaction more.
<1>6. ASSUME NEW k \in 1..n
      PROVE  O(k) = (O(k - 1) \ In(k)) \cup Out(k) /\ (O(k - 1) \ In(k)) \cap Out(k) = {}
  <2>1. \A j \in 1..k : j \in 1..(k - 1) \/ j = k
    BY <1>1
  <2>2. \A j \in 1..(k - 1) : j \in 1..k /\ j \in 1..n /\ j # k
    BY <1>1
  <2>3. ASSUME NEW j \in 1..(k - 1) PROVE Out(j) \cap Out(k) = {}
    BY <1>2, <1>3, <2>2
  <2>4. ASSUME NEW j \in 1..k PROVE In(j) \cap Out(k) = {}
    <3>1. j \in 1..n /\ \A i \in 1..(j - 1) : i \in 1..(k - 1)
      BY <1>1
    <3>2. In(j) \subseteq U \cup UNION { Out(i) : i \in 1..(j - 1) }
      BY <1>4, <3>1
    <3> QED BY <1>2, <2>3, <3>1, <3>2
  <2>5. k \in 1..k
    BY <1>1
  <2> DEFINE outs == UNION { Out(j) : j \in 1..(k - 1) }
             ins  == UNION { In(j) : j \in 1..(k - 1) }
  <2>6. UNION { Out(j) : j \in 1..k } = outs \cup Out(k)
    BY <2>1, <2>2, <2>5, Zenon
  <2>7. UNION { In(j) : j \in 1..k } = ins \cup In(k)
    BY <2>1, <2>2, <2>5, Zenon
  <2>8. (ins \cup In(k)) \cap Out(k) = {}
    BY <2>2, <2>4, <2>5
  <2>9. (U \cup outs) \cap Out(k) = {}
    BY <1>2, <2>3
  <2>10. O(k) = (U \cup (outs \cup Out(k))) \ (ins \cup In(k)) /\ O(k - 1) = (U \cup outs) \ ins
    BY <2>6, <2>7, Zenon
  <2> HIDE DEF outs, ins, O
  <2> QED BY <2>8, <2>9, <2>10
<1> DEFINE Right(k) == /\ O(k) \in SUBSET Outpoint /\ IsFiniteSet(O(k))
                       /\ AmountSum(O(k)) = AmountSum(U) - sum[k]
<1>7. Right(0)
  <2>1. O(0) = U
    OBVIOUS
  <2>2. AmountSum(U) \in Nat
    BY AmountSumType
  <2> HIDE DEF O
  <2> QED BY <1>5, <2>1, <2>2
<1>8. ASSUME NEW k \in 1..n, Right(k - 1) PROVE Right(k)
  <2> DEFINE P == O(k - 1)
  <2>1. /\ O(k) = (P \ In(k)) \cup Out(k) /\ (P \ In(k)) \cap Out(k) = {} /\ In(k) \in SUBSET P
    BY <1>4, <1>6
  <2>2. P \in SUBSET Outpoint /\ IsFiniteSet(P) /\ AmountSum(P) = AmountSum(U) - sum[k - 1]
    BY <1>8
  <2> HIDE DEF O, P
  <2>3. IsFiniteSet(P \ In(k)) /\ P \ In(k) \in SUBSET Outpoint
    BY <2>2, FS_Difference
  <2>4. IsFiniteSet(O(k)) /\ O(k) \in SUBSET Outpoint
    <3>1. IsFiniteSet(Out(k)) /\ Out(k) \in SUBSET Outpoint
      BY <1>2
    <3>2. IsFiniteSet((P \ In(k)) \cup Out(k))
      BY ONLY <2>3, <3>1, FS_Union
    <3> QED BY <2>1, <2>3, <3>1, <3>2
  <2>5. AmountSum(P \ In(k)) = AmountSum(P) - AmountSum(In(k))
    BY <2>1, <2>2, AmountSumWithout
  <2>6. AmountSum(O(k)) = AmountSum(P \ In(k)) + AmountSum(Out(k))
    BY <1>2, <2>1, <2>3, AmountSumUnion
  <2>7. AmountSum(U) \in Nat /\ AmountSum(In(k)) \in Nat /\ AmountSum(Out(k)) \in Nat
    BY <1>2, AmountSumType
  <2>8. sum[k - 1] \in Int /\ sum[k] = sum[k - 1] + (AmountSum(In(k)) - AmountSum(Out(k)))
    <3>1. k - 1 \in 0..n
      BY <1>1
    <3> QED BY <1>2, <1>5, <3>1
  <2>9. AmountSum(O(k)) = AmountSum(U) - sum[k]
    BY ONLY <2>2, <2>5, <2>6, <2>7, <2>8
  <2> QED BY <2>4, <2>9
<1> HIDE DEF Right
<1>9. Right(n)
  <2> DEFINE Wrong == { k \in 0..n : ~Right(k) }
  <2>1. SUFFICES ASSUME Wrong # {} PROVE FALSE
    BY <1>1
  <2>2. PICK k \in Wrong : \A j \in Wrong : k <= j
    <3>1. Wrong \subseteq Nat
      OBVIOUS
    <3> HIDE DEF Wrong
    <3> QED BY <2>1, <3>1, Worth!LeastElement
  <2>3. k \in 1..n
    BY <1>1, <1>7, <2>2
  <2>4. k - 1 \in 0..n /\ k - 1 \notin Wrong
    BY <1>1, <2>2, <2>3
  <2> QED BY <1>8, <2>2, <2>3, <2>4
<1>10. (U \ Spent(s)) \cup Created(s) = O(n)
  <2>1. OutsOf(s) \cap U = {}
    BY <1>2 DEF OutsOf, n, Out
  <2>2. O(n) = (U \cup OutsOf(s)) \ InsOf(s)
    BY DEF OutsOf, InsOf, n, In, Out
  <2> HIDE DEF O
  <2> QED BY <2>1, <2>2 DEF Spent, Created
<1> HIDE DEF O
<1> QED BY <1>5, <1>9, <1>10 DEF Right

-----------------------------------------------------------------------------
(* Ledgers: the unspent outputs U and the confirmed transactions T of a     *)
(* chain of height h.                                                      *)

\* An input of a confirmed transaction is an output of a confirmed transaction
\* or of a coinbase of the chain.  Without this part a confirmed transaction
\* might connect a second time.
InputsFrom(T, h) ==
  \A t \in T : \A op \in TxIn[t] :
     \/ TxidOf(op) \in T
     \/ TxidOf(op) \in Coinbase /\ TxidOf(op)[1] \in 1..h

SoundLedger(U, T, h) ==
  /\ \A t, u \in T : t # u => TxIn[t] \cap TxIn[u] = {}
  /\ U \cap SpentBy(T) = {}
  /\ UNION { Outputs(t) : t \in T } \subseteq U \cup SpentBy(T)
  /\ \A op \in U : \/ \E t \in T : op \in Outputs(t)
                   \/ TxidOf(op) \in Coinbase /\ TxidOf(op)[1] \in 1..h
  /\ InputsFrom(T, h)

\* The ledger before the first block.
LEMMA EmptyLedger == SoundLedger({}, {}, 0)
BY DEF SoundLedger, InputsFrom, SpentBy

\* No transaction of a block that connects to the UTXO table is confirmed: the
\* first one that were would spend an output that is spent already.
LEMMA ConnectedUnconfirmed ==
  ASSUME NEW U, NEW T \in SUBSET Tx, NEW h \in Nat, SoundLedger(U, T, h),
         NEW k \in Nat, NEW s \in Seq(Tx), Connects(U, k, s)
  PROVE  TxsOf(s) \cap T = {}
<1> DEFINE Old == { i \in 1..Len(s) : s[i] \in T }
<1>1. SUFFICES ASSUME Old # {} PROVE FALSE
  BY DEF TxsOf
<1>2. PICK i \in Old : \A n \in Old : i <= n
  <2> Old \subseteq Nat OBVIOUS
  <2> HIDE DEF Old
  <2> QED BY <1>1, Worth!LeastElement
<1>3. i \in 1..Len(s) /\ s[i] \in T /\ s[i] \in Tx
  OBVIOUS
<1>4. PICK op \in TxIn[s[i]] : TRUE
  BY <1>3, TxAssumption
<1>5. op \notin U
  BY <1>3 DEF SoundLedger, SpentBy
<1>6. PICK j \in 1..(i - 1) : op \in Outputs(s[j])
  BY <1>3, <1>5, ConnectedInput
<1>7. j \in 1..Len(s) /\ j < i /\ s[j] \in Tx
  BY <1>3
<1>8. TxidOf(op) = s[j]
  BY <1>6, <1>7, OutputsType
<1>9. s[j] \in T
  BY <1>3, <1>7, <1>8, TxAssumption DEF SoundLedger, InputsFrom
<1> QED BY <1>2, <1>7, <1>9

\* An output of an unconfirmed transaction is not in the UTXO table.
LEMMA NewOutputsAbsent ==
  ASSUME NEW U, NEW T \in SUBSET Tx, NEW h \in Nat, SoundLedger(U, T, h),
         NEW t \in Tx, t \notin T
  PROVE  Outputs(t) \cap U = {}
<1> SUFFICES ASSUME NEW op \in Outputs(t), op \in U PROVE FALSE
  OBVIOUS
<1>1. TxidOf(op) = t
  BY OutputsType
<1>2. TxidOf(op) \notin Coinbase
  BY <1>1, TxAssumption
<1>3. PICK u \in T : op \in Outputs(u)
  BY <1>2 DEF SoundLedger
<1>4. TxidOf(op) = u
  BY <1>3, OutputsType
<1> QED BY <1>1, <1>4

\* The output of a coinbase of the next height is neither in the UTXO table nor
\* spent.
LEMMA NewCoinbaseAbsent ==
  ASSUME NEW U, NEW T \in SUBSET Tx, NEW h \in Nat, SoundLedger(U, T, h),
         NEW cb \in Coinbase, cb[1] = h + 1
  PROVE  /\ CoinbaseOutput(cb) \notin U
         /\ CoinbaseOutput(cb) \notin SpentBy(T)
<1>1. TxidOf(CoinbaseOutput(cb)) = cb
  BY DEF TxidOf, CoinbaseOutput
<1>2. cb \notin Tx /\ cb[1] \notin 1..h
  BY TxAssumption
<1>3. CoinbaseOutput(cb) \notin U
  <2>1. ASSUME NEW t \in T PROVE CoinbaseOutput(cb) \notin Outputs(t)
    BY <1>1, <1>2, OutputsType
  <2> QED BY <1>1, <1>2, <2>1 DEF SoundLedger
<1>4. CoinbaseOutput(cb) \notin SpentBy(T)
  BY <1>1, <1>2 DEF SoundLedger, InputsFrom, SpentBy
<1> QED BY <1>3, <1>4

\* A block that connects keeps the ledger sound: deleting Spent and inserting
\* Created is what its transactions demand.
LEMMA BlockKeepsLedger ==
  ASSUME NEW U, NEW T \in SUBSET Tx, NEW h \in Nat, SoundLedger(U, T, h),
         NEW s \in Seq(Tx), Connects(U, h + 1, s), NEW cb \in Coinbase, cb[1] = h + 1
  PROVE  SoundLedger(Applied(U, s, cb), T \cup TxsOf(s), h + 1)
<1> DEFINE T2 == T \cup TxsOf(s)
           W == Applied(U, s, cb)
<1>1. s \in Seq(Tx) /\ h \in Nat /\ h + 1 \in Nat /\ Len(s) \in Nat
  OBVIOUS
<1>2. Connects(U, h + 1, s)
  OBVIOUS
<1>3. W = (U \ Spent(s)) \cup Created(s) \cup {CoinbaseOutput(cb)}
  BY DEF Applied
<1>4. T2 = T \cup TxsOf(s)
  OBVIOUS
<1> HIDE DEF T2, W
<1>5. TxsOf(s) \cap T = {} /\ TxsOf(s) \subseteq Tx /\ T \subseteq Tx
  BY <1>1, ConnectedUnconfirmed DEF TxsOf
<1>6. cb \in Coinbase /\ cb[1] = h + 1 /\ TxidOf(CoinbaseOutput(cb)) = cb
  BY DEF CoinbaseOutput, TxidOf
<1>7. CoinbaseOutput(cb) \notin U /\ CoinbaseOutput(cb) \notin SpentBy(T)
  BY <1>6, NewCoinbaseAbsent
\* Where an input of a new transaction comes from.
<1>8. ASSUME NEW t \in TxsOf(s), NEW op \in TxIn[t]
      PROVE  op \in U \/ \E u \in TxsOf(s) : op \in Outputs(u)
  <2>1. PICK i \in 1..Len(s) : t = s[i]
    BY DEF TxsOf
  <2>2. op \in U \/ \E j \in 1..(i - 1) : op \in Outputs(s[j])
    <3>1. h + 1 \in Nat /\ op \in TxIn[s[i]]
      BY <1>1, <2>1
    <3> QED BY <1>1, <1>2, <3>1, ConnectedInput
  <2>3. \A j \in 1..(i - 1) : s[j] \in TxsOf(s)
    BY <1>1, <2>1 DEF TxsOf
  <2> QED BY <2>2, <2>3
\* New transactions have new outputs.
<1>9. \A t \in TxsOf(s) : Outputs(t) \cap U = {} /\ \A op \in Outputs(t) : TxidOf(op) = t
  BY <1>5, NewOutputsAbsent, OutputsType
<1>10. InsOf(s) = SpentBy(TxsOf(s)) /\ OutsOf(s) = UNION { Outputs(t) : t \in TxsOf(s) }
  BY DEF InsOf, OutsOf, SpentBy, TxsOf
<1>11. SpentBy(T2) = SpentBy(T) \cup InsOf(s)
  BY <1>4, <1>10 DEF SpentBy
\* Nothing that new transactions create was spent before.
<1>12. OutsOf(s) \cap SpentBy(T) = {}
  <2> SUFFICES ASSUME NEW t \in TxsOf(s), NEW op \in Outputs(t),
                      NEW u \in T, op \in TxIn[u]
               PROVE  FALSE
    BY <1>10 DEF SpentBy
  <2>1. TxidOf(op) = t
    BY <1>9
  <2>2. t \notin Coinbase /\ t \notin T
    BY <1>5, TxAssumption
  <2> QED BY <2>1, <2>2 DEF SoundLedger, InputsFrom
<1>13. CoinbaseOutput(cb) \notin InsOf(s)
  <2> SUFFICES ASSUME NEW t \in TxsOf(s), CoinbaseOutput(cb) \in TxIn[t] PROVE FALSE
    BY <1>10 DEF SpentBy
  <2>1. PICK u \in TxsOf(s) : CoinbaseOutput(cb) \in Outputs(u)
    BY <1>7, <1>8
  <2>2. cb = u
    BY <1>6, <1>9, <2>1
  <2> QED BY <1>5, <1>6, <2>2, TxAssumption
<1>14. /\ \A t, u \in T2 : t # u => TxIn[t] \cap TxIn[u] = {}
       /\ W \cap SpentBy(T2) = {}
       /\ UNION { Outputs(t) : t \in T2 } \subseteq W \cup SpentBy(T2)
       /\ \A op \in W : \/ \E t \in T2 : op \in Outputs(t)
                        \/ TxidOf(op) \in Coinbase /\ TxidOf(op)[1] \in 1..(h + 1)
  <2>1. ASSUME NEW t \in T2, NEW u \in T2, t # u
        PROVE  TxIn[t] \cap TxIn[u] = {}
    <3>1. ASSUME NEW x \in T, NEW y \in TxsOf(s)
          PROVE  TxIn[x] \cap TxIn[y] = {}
      <4> SUFFICES ASSUME NEW op \in TxIn[x], op \in TxIn[y] PROVE FALSE
        OBVIOUS
      <4>1. op \in SpentBy(T)
        BY DEF SpentBy
      <4>2. op \notin U
        BY <4>1 DEF SoundLedger
      <4>3. op \in OutsOf(s)
        BY <1>8, <1>10, <4>2
      <4> QED BY <1>12, <4>1, <4>3
    <3>2. ASSUME NEW x \in TxsOf(s), NEW y \in TxsOf(s), x # y
          PROVE  TxIn[x] \cap TxIn[y] = {}
      <4>1. PICK i \in 1..Len(s), j \in 1..Len(s) : x = s[i] /\ y = s[j]
        BY DEF TxsOf
      <4>2. i < j \/ j < i
        BY <3>2, <4>1
      <4>3. h + 1 \in Nat
        BY <1>1
      <4>4. TxIn[s[i]] \cap TxIn[s[j]] = {} \/ TxIn[s[j]] \cap TxIn[s[i]] = {}
        BY <1>1, <1>2, <4>2, <4>3, ConnectedDisjoint
      <4> QED BY <4>1, <4>4
    <3>3. CASE t \in T /\ u \in T
      BY <2>1, <3>3 DEF SoundLedger
    <3> QED BY <1>4, <2>1, <3>1, <3>2, <3>3
  <2>2. W \cap SpentBy(T2) = {}
    <3> SUFFICES ASSUME NEW op \in W, op \in SpentBy(T) \cup InsOf(s)
                 PROVE  FALSE
      BY <1>11
    <3>1. CASE op \in U \ Spent(s)
      <4>1. op \notin SpentBy(T)
        BY <3>1 DEF SoundLedger
      <4>2. op \in InsOf(s) /\ op \in OutsOf(s)
        BY <3>1, <4>1 DEF Spent
      <4> QED BY <1>9, <1>10, <3>1, <4>2
    <3>2. CASE op \in Created(s)
      BY <1>12, <3>2 DEF Created
    <3>3. CASE op = CoinbaseOutput(cb)
      BY <1>7, <1>13, <3>3
    <3> QED BY <1>3, <3>1, <3>2, <3>3
  <2>3. ASSUME NEW t \in T2, NEW op \in Outputs(t)
        PROVE  op \in W \cup SpentBy(T2)
    <3>1. CASE t \in T
      <4>1. op \in U \cup SpentBy(T)
        BY <3>1 DEF SoundLedger
      <4> QED BY <1>3, <1>11, <4>1 DEF Spent
    <3>2. CASE t \in TxsOf(s)
      <4>1. op \in OutsOf(s)
        BY <1>10, <3>2
      <4> QED BY <1>3, <1>11, <4>1 DEF Created
    <3> QED BY <1>4, <3>1, <3>2
  <2>4. ASSUME NEW op \in W
        PROVE  \/ \E t \in T2 : op \in Outputs(t)
               \/ TxidOf(op) \in Coinbase /\ TxidOf(op)[1] \in 1..(h + 1)
    <3>1. CASE op \in U
      BY <1>1, <1>3, <1>4, <3>1 DEF SoundLedger
    <3>2. CASE op \in Created(s)
      BY <1>4, <1>10, <3>2 DEF Created
    <3>3. CASE op = CoinbaseOutput(cb)
      BY <1>1, <1>3, <1>6, <3>3
    <3> QED BY <1>3, <3>1, <3>2, <3>3
  <2>5. UNION { Outputs(t) : t \in T2 } \subseteq W \cup SpentBy(T2)
    BY <2>3
  <2> QED BY <2>1, <2>2, <2>4, <2>5
<1>15. InputsFrom(T2, h + 1)
  <2> SUFFICES ASSUME NEW t \in T2, NEW op \in TxIn[t]
               PROVE  \/ TxidOf(op) \in T2
                      \/ TxidOf(op) \in Coinbase /\ TxidOf(op)[1] \in 1..(h + 1)
    BY DEF InputsFrom
  <2>1. CASE t \in T
    BY <1>1, <1>3, <1>4, <2>1 DEF SoundLedger, InputsFrom
  <2>2. CASE t \in TxsOf(s)
    <3>1. CASE op \in U
      <4>1. \A u \in T : op \in Outputs(u) => TxidOf(op) = u
        BY <1>5, OutputsType
      <4> QED BY <1>1, <1>3, <1>4, <3>1, <4>1 DEF SoundLedger
    <3>2. CASE \E u \in TxsOf(s) : op \in Outputs(u)
      BY <1>4, <1>9, <3>2
    <3> QED BY <1>8, <2>2, <3>1, <3>2
  <2> QED BY <1>4, <2>1, <2>2
<1>16. SoundLedger(W, T2, h + 1)
  BY <1>14, <1>15 DEF SoundLedger
<1> QED BY <1>16 DEF T2, W
=============================================================================

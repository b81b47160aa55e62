--------------------------- MODULE PowNetwork_proofs ---------------------------
(***************************************************************************)
(* Fork choice for any tree of blocks, any transactions and any number of  *)
(* crashes: the tables follow the tip, a reorganization readmits exactly   *)
(* the valid transactions, no orphan is left behind, and the node          *)
(* implements HeaviestChain.                                               *)
(*                                                                         *)
(* The first part is about the tree: the recursive functions Path and      *)
(* Replay exist because parents are well-founded, and the ledger of a      *)
(* branch that replays is sound.  NetInv says what a running call of       *)
(* accept_block has established in each of its phases.                     *)
(***************************************************************************)
EXTENDS PowNetwork, PowTransactions_proofs

-----------------------------------------------------------------------------
(* Induction and recursion over the tree of blocks.                        *)

LEMMA BlockFacts ==
  ASSUME NEW b \in Block
  PROVE  /\ b # Genesis /\ b \in Node /\ Parent(b) \in Node
         /\ Contents[b].height \in Nat /\ Contents[b].time \in Nat
         /\ Contents[b].work \in Nat \ {0} /\ Contents[b].miner \in Address
         /\ Contents[b].value \in Nat /\ Contents[b].txs \in Seq(Tx)
BY NetworkAssumption DEF Parent, Node

\* What holds of the genesis, and of a block whenever it holds of its parent,
\* holds of every node.
LEMMA ParentInduction ==
  ASSUME NEW P, Genesis \in P, \A b \in Block : Parent(b) \in P => b \in P
  PROVE  Node \subseteq P
<1> DEFINE S == Block \ P
<1>1. SUFFICES ASSUME S # {} PROVE FALSE
  BY DEF Node
<1>2. PICK b \in S : Contents[b].parent \notin S
  <2>1. S \in (SUBSET Block) \ {{}}
    BY <1>1
  <2> HIDE DEF S
  <2> QED BY <2>1, NetworkAssumption
<1>3. Parent(b) \in Node
  BY BlockFacts
<1> QED BY <1>2, <1>3 DEF Parent, Node

\* f starts with g at the genesis and applies Step[b] at each block b.
Obeys(f, g, Step) ==
  /\ f[Genesis] = g
  /\ \A b \in DOMAIN f \ {Genesis} :
       Parent(b) \in DOMAIN f /\ f[b] = Step[b][f[Parent(b)]]

\* Recursion over parents defines a function.
LEMMA TreeRecursion ==
  ASSUME NEW S, NEW g \in S, NEW Step \in [Block -> [S -> S]]
  PROVE  \E f \in [Node -> S] : Obeys(f, g, Step)
<1> DEFINE Part(f) == /\ DOMAIN f \subseteq Node /\ Genesis \in DOMAIN f
                      /\ \A b \in DOMAIN f : f[b] \in S
                      /\ Obeys(f, g, Step)
\* Two functions that obey the equations on parts of the tree agree.
<1>1. ASSUME NEW f, NEW h, Part(f), Part(h)
      PROVE  \A b \in DOMAIN f \cap DOMAIN h : f[b] = h[b]
  <2> DEFINE P == { b \in Node : b \in DOMAIN f \cap DOMAIN h => f[b] = h[b] }
  <2>1. Genesis \in P
    BY <1>1 DEF Obeys, Node
  <2>2. ASSUME NEW b \in Block, Parent(b) \in P PROVE b \in P
    <3>1. SUFFICES ASSUME b \in DOMAIN f, b \in DOMAIN h PROVE f[b] = h[b]
      BY BlockFacts
    <3>2. b # Genesis
      BY BlockFacts
    <3>3. Parent(b) \in DOMAIN f /\ Parent(b) \in DOMAIN h
      BY <1>1, <3>1, <3>2 DEF Obeys
    <3>4. f[Parent(b)] = h[Parent(b)]
      BY <2>2, <3>3
    <3>5. f[b] = Step[b][f[Parent(b)]] /\ h[b] = Step[b][h[Parent(b)]]
      BY <1>1, <3>1, <3>2 DEF Obeys
    <3> QED BY <3>4, <3>5
  <2>3. Node \subseteq P
    <3> HIDE DEF P
    <3> QED BY <2>1, <2>2, ParentInduction
  <2> QED BY <1>1, <2>3
\* Every node lies in such a part.
<1>2. \A b \in Node : \E f : Part(f) /\ b \in DOMAIN f
  <2> DEFINE P == { b \in Node : \E f : Part(f) /\ b \in DOMAIN f }
  <2>1. Genesis \in P
    <3> DEFINE f == [x \in {Genesis} |-> g]
    <3>1. Part(f) /\ Genesis \in DOMAIN f
      BY DEF Obeys, Node
    <3> HIDE DEF f
    <3> QED BY <3>1 DEF Node
  <2>2. ASSUME NEW b \in Block, Parent(b) \in P PROVE b \in P
    <3>1. PICK f : Part(f) /\ Parent(b) \in DOMAIN f
      BY <2>2
    <3>2. b # Genesis /\ b \in Node
      BY BlockFacts
    <3>3. CASE b \in DOMAIN f
      BY <3>1, <3>2, <3>3
    <3>4. CASE b \notin DOMAIN f
      <4> DEFINE h == [x \in DOMAIN f \cup {b} |->
                         IF x = b THEN Step[b][f[Parent(b)]] ELSE f[x]]
      <4>1. DOMAIN h = DOMAIN f \cup {b} /\ h[b] = Step[b][f[Parent(b)]]
        OBVIOUS
      <4>2. \A x \in DOMAIN f : h[x] = f[x]
        BY <3>4
      <4>3. f[Parent(b)] \in S
        BY <3>1
      <4>4. Step[b][f[Parent(b)]] \in S
        BY <4>3
      <4> HIDE DEF h
      <4>5. \A x \in DOMAIN h : h[x] \in S
        BY <3>1, <4>1, <4>2, <4>4
      <4>6. Obeys(h, g, Step)
        BY <3>1, <3>2, <4>1, <4>2 DEF Obeys
      <4>7. Part(h) /\ b \in DOMAIN h
        BY <3>1, <3>2, <4>1, <4>5, <4>6
      <4> HIDE DEF Part
      <4> QED BY <3>2, <4>7
    <3> QED BY <3>3, <3>4
  <2>3. Node \subseteq P
    <3> HIDE DEF P
    <3> QED BY <2>1, <2>2, ParentInduction
  <2> HIDE DEF Part
  <2> QED BY <2>3
<1> DEFINE At(b) == CHOOSE f : Part(f) /\ b \in DOMAIN f
           F == [b \in Node |-> At(b)[b]]
<1> HIDE DEF Part
<1>3. \A b \in Node : Part(At(b)) /\ b \in DOMAIN At(b)
  BY <1>2
<1> HIDE DEF At
<1>4. F \in [Node -> S]
  BY <1>3 DEF Part
<1>5. F[Genesis] = g
  <2>1. Genesis \in Node
    BY DEF Node
  <2> QED BY <1>3, <2>1 DEF Part, Obeys
<1>6. ASSUME NEW b \in Node, b # Genesis
      PROVE  Parent(b) \in Node /\ F[b] = Step[b][F[Parent(b)]]
  <2>1. Parent(b) \in DOMAIN At(b) /\ At(b)[b] = Step[b][At(b)[Parent(b)]]
    BY <1>3, <1>6 DEF Part, Obeys
  <2>2. Parent(b) \in Node
    BY <1>3, <2>1 DEF Part
  <2>3. At(b)[Parent(b)] = At(Parent(b))[Parent(b)]
    BY <1>1, <1>3, <2>1, <2>2
  <2> QED BY <2>1, <2>2, <2>3
<1>7. Obeys(F, g, Step)
  <2>1. DOMAIN F = Node
    OBVIOUS
  <2> HIDE DEF F
  <2> QED BY <1>5, <1>6, <2>1 DEF Obeys
<1> QED BY <1>4, <1>7

\* _path_hashes walks from a block to the genesis.
LEMMA PathUnfold ==
  /\ Path \in [Node -> SUBSET Node]
  /\ Path[Genesis] = {Genesis}
  /\ \A b \in Block : Path[b] = {b} \cup Path[Parent(b)]
<1> DEFINE Rec(f) ==
             f = [b \in Node |-> IF b = Genesis THEN {Genesis} ELSE {b} \cup f[Parent(b)]]
           Step == [b \in Block |-> [v \in SUBSET Node |-> {b} \cup v]]
<1>1. PICK f \in [Node -> SUBSET Node] : Obeys(f, {Genesis}, Step)
  <2>1. {Genesis} \in SUBSET Node
    BY DEF Node
  <2>2. Step \in [Block -> [SUBSET Node -> SUBSET Node]]
    BY DEF Node
  <2> HIDE DEF Step
  <2> QED BY <2>1, <2>2, TreeRecursion
<1>2. Rec(f)
  <2>1. ASSUME NEW b \in Node, b # Genesis PROVE f[b] = {b} \cup f[Parent(b)]
    <3>1. b \in Block /\ Parent(b) \in Node
      BY <2>1, BlockFacts DEF Node
    <3>2. f[b] = Step[b][f[Parent(b)]]
      BY <1>1, <2>1 DEF Obeys
    <3>3. f[Parent(b)] \in SUBSET Node
      BY <3>1
    <3> QED BY <3>1, <3>2, <3>3
  <2>2. f[Genesis] = {Genesis}
    BY <1>1 DEF Obeys
  <2>3. DOMAIN f = Node
    OBVIOUS
  <2> QED BY <2>1, <2>2, <2>3
<1>3. Rec(Path)
  <2>1. Path = CHOOSE h : Rec(h)
    BY DEF Path
  <2> HIDE DEF Rec
  <2> QED BY <1>2, <2>1
<1> DEFINE P == { b \in Node : Path[b] \in SUBSET Node }
<1>4. \A b \in Node : Path[b] = IF b = Genesis THEN {Genesis} ELSE {b} \cup Path[Parent(b)]
  BY <1>3
<1>5. Genesis \in P
  BY <1>4 DEF Node
<1>6. ASSUME NEW b \in Block, Parent(b) \in P PROVE b \in P
  BY <1>4, <1>6, BlockFacts
<1>7. Node \subseteq P
  <2> HIDE DEF P
  <2> QED BY <1>5, <1>6, ParentInduction
<1>8. Path \in [Node -> SUBSET Node]
  <2>1. Path = [b \in Node |-> Path[b]]
    BY <1>3
  <2> QED BY <1>7, <2>1
<1>9. Genesis \in Node
  BY DEF Node
<1> QED BY <1>4, <1>8, <1>9, BlockFacts

-----------------------------------------------------------------------------
(* Replaying a branch.                                                     *)

\* Outputs of transactions and of coinbases, at heights that no block has too.
AnyOutput == (Tx \cup (Nat \X Address \X Nat)) \X Nat

Ledgers == [ok : BOOLEAN, height : Nat, time : Nat, work : Nat,
            utxos : SUBSET AnyOutput, txs : SUBSET Tx]

LEMMA ExtendFields ==
  ASSUME NEW l, NEW c
  PROVE  /\ Extend(l, c).ok = (l.ok /\ BlockConnects(l, c))
         /\ Extend(l, c).height = c.height /\ Extend(l, c).work = l.work + c.work
         /\ Extend(l, c).utxos = Applied(l.utxos, c.txs, <<c.height, c.miner, c.value>>)
         /\ Extend(l, c).txs = l.txs \cup TxsOf(c.txs)
BY DEF Extend, Ledger

LEMMA ExtendType ==
  ASSUME NEW l \in Ledgers, NEW b \in Block
  PROVE  Extend(l, Contents[b]) \in Ledgers
<1> DEFINE c == Contents[b]
           cb == <<c.height, c.miner, c.value>>
<1>1. /\ c.height \in Nat /\ c.time \in Nat /\ c.work \in Nat /\ c.txs \in Seq(Tx)
      /\ cb \in Nat \X Address \X Nat
  BY BlockFacts
<1>2. Created(c.txs) \subseteq AnyOutput
  <2>1. ASSUME NEW i \in 1..Len(c.txs) PROVE Outputs(c.txs[i]) \subseteq AnyOutput
    <3>1. c.txs[i] \in Tx
      BY <1>1
    <3>2. Outputs(c.txs[i]) \subseteq Outpoint /\ \A op \in Outputs(c.txs[i]) : TxidOf(op) = c.txs[i]
      BY <3>1, OutputsType
    <3> QED BY <3>1, <3>2 DEF Outpoint, AnyOutput, TxidOf
  <2> QED BY <2>1 DEF Created, OutsOf
<1>3. CoinbaseOutput(cb) \in AnyOutput
  BY <1>1 DEF CoinbaseOutput, AnyOutput
<1>4. TxsOf(c.txs) \subseteq Tx
  BY <1>1 DEF TxsOf
<1> HIDE DEF c, cb
<1>5. /\ l.ok \in BOOLEAN /\ l.work \in Nat /\ l.utxos \in SUBSET AnyOutput /\ l.txs \in SUBSET Tx
  BY DEF Ledgers
<1>6. Applied(l.utxos, c.txs, cb) \in SUBSET AnyOutput
  BY <1>2, <1>3, <1>5 DEF Applied
<1>7. (l.ok /\ BlockConnects(l, c)) \in BOOLEAN
  OBVIOUS
<1>8. l.txs \cup TxsOf(c.txs) \in SUBSET Tx
  BY <1>4, <1>5
<1>9. l.work + c.work \in Nat
  BY <1>1, <1>5
<1>10. Extend(l, c) = [ok |-> l.ok /\ BlockConnects(l, c), height |-> c.height,
                       time |-> c.time, work |-> l.work + c.work,
                       utxos |-> Applied(l.utxos, c.txs, cb), txs |-> l.txs \cup TxsOf(c.txs)]
  BY DEF Extend, Ledger, cb
<1>11. Extend(l, c) \in Ledgers
  BY <1>1, <1>6, <1>7, <1>8, <1>9, <1>10 DEF Ledgers
<1> QED BY <1>11 DEF c

LEMMA GenesisType == GenesisLedger \in Ledgers
BY DEF GenesisLedger, Ledger, Ledgers

\* _validate_path_replay: each block is submitted to the ledger of its parent.
LEMMA ReplayUnfold ==
  /\ Replay \in [Node -> Ledgers]
  /\ Replay[Genesis] = GenesisLedger
  /\ \A b \in Block : Replay[b] = Extend(Replay[Parent(b)], Contents[b])
<1> DEFINE Rec(f) ==
             f = [b \in Node |-> IF b = Genesis THEN GenesisLedger
                                 ELSE Extend(f[Parent(b)], Contents[b])]
           Step == [b \in Block |-> [l \in Ledgers |-> Extend(l, Contents[b])]]
<1>1. PICK f \in [Node -> Ledgers] : Obeys(f, GenesisLedger, Step)
  <2>1. Step \in [Block -> [Ledgers -> Ledgers]]
    BY ExtendType
  <2> HIDE DEF Step
  <2> QED BY <2>1, GenesisType, TreeRecursion
<1>2. Rec(f)
  <2>1. ASSUME NEW b \in Node, b # Genesis PROVE f[b] = Extend(f[Parent(b)], Contents[b])
    <3>1. b \in Block /\ Parent(b) \in Node
      BY <2>1, BlockFacts DEF Node
    <3>2. f[b] = Step[b][f[Parent(b)]]
      BY <1>1, <2>1 DEF Obeys
    <3>3. f[Parent(b)] \in Ledgers
      BY <3>1
    <3> QED BY <3>1, <3>2, <3>3
  <2>2. f[Genesis] = GenesisLedger
    BY <1>1 DEF Obeys
  <2>3. DOMAIN f = Node
    OBVIOUS
  <2> QED BY <2>1, <2>2, <2>3
<1>3. Rec(Replay)
  <2>1. Replay = CHOOSE h : Rec(h)
    BY DEF Replay
  <2> HIDE DEF Rec
  <2> QED BY <1>2, <2>1
<1> DEFINE P == { b \in Node : Replay[b] \in Ledgers }
<1>4. \A b \in Node : Replay[b] = IF b = Genesis THEN GenesisLedger
                                  ELSE Extend(Replay[Parent(b)], Contents[b])
  BY <1>3
<1>5. Genesis \in P
  BY <1>4, GenesisType DEF Node
<1>6. ASSUME NEW b \in Block, Parent(b) \in P PROVE b \in P
  <2>1. Replay[b] = Extend(Replay[Parent(b)], Contents[b]) /\ b \in Node
    BY <1>4, BlockFacts
  <2>2. Replay[Parent(b)] \in Ledgers
    BY <1>6
  <2> QED BY <2>1, <2>2, ExtendType
<1>7. Node \subseteq P
  <2> HIDE DEF P
  <2> QED BY <1>5, <1>6, ParentInduction
<1>8. Replay \in [Node -> Ledgers]
  <2>1. Replay = [b \in Node |-> Replay[b]]
    BY <1>3
  <2> QED BY <1>7, <2>1
<1>9. Genesis \in Node
  BY DEF Node
<1> QED BY <1>4, <1>8, <1>9, BlockFacts

\* The confirmed transactions of a branch are those of its blocks.
TxsOnPath(b) == UNION { TxsOf(Contents[x].txs) : x \in Path[b] \ {Genesis} }

LEMMA PathFacts ==
  ASSUME NEW b \in Node
  PROVE  b \in Path[b] /\ Path[b] \subseteq Node /\ Genesis \in Path[b]
<1> DEFINE P == { x \in Node : x \in Path[x] /\ Genesis \in Path[x] }
<1>1. Genesis \in P
  BY PathUnfold DEF Node
<1>2. ASSUME NEW x \in Block, Parent(x) \in P PROVE x \in P
  BY <1>2, PathUnfold, BlockFacts
<1>3. Node \subseteq P
  <2> HIDE DEF P
  <2> QED BY <1>1, <1>2, ParentInduction
<1> QED BY <1>3, PathUnfold

\* A set of nodes that contains the parents of its blocks contains their paths.
LEMMA PathInside ==
  ASSUME NEW K \in SUBSET Node, \A x \in K \ {Genesis} : Parent(x) \in K, NEW b \in K
  PROVE  Path[b] \subseteq K
<1> DEFINE P == { x \in Node : x \in K => Path[x] \subseteq K }
<1>1. Genesis \in P
  BY PathUnfold DEF Node
<1>2. ASSUME NEW x \in Block, Parent(x) \in P PROVE x \in P
  <2>1. SUFFICES ASSUME x \in K PROVE Path[x] \subseteq K
    BY BlockFacts
  <2>2. Parent(x) \in K
    BY <2>1, BlockFacts
  <2> QED BY <1>2, <2>1, <2>2, PathUnfold
<1>3. Node \subseteq P
  <2> HIDE DEF P
  <2> QED BY <1>1, <1>2, ParentInduction
<1> QED BY <1>3

LEMMA ReplayTxs == \A b \in Node : Replay[b].txs = TxsOnPath(b)
<1> DEFINE P == { b \in Node : Replay[b].txs = TxsOnPath(b) }
<1>1. Genesis \in P
  <2>1. TxsOnPath(Genesis) = {}
    BY PathUnfold DEF TxsOnPath
  <2>2. Replay[Genesis].txs = {}
    BY ReplayUnfold DEF GenesisLedger, Ledger
  <2> QED BY <2>1, <2>2 DEF Node
<1>2. ASSUME NEW b \in Block, Parent(b) \in P PROVE b \in P
  <2>1. Replay[b].txs = Replay[Parent(b)].txs \cup TxsOf(Contents[b].txs)
    <3>1. Replay[b] = Extend(Replay[Parent(b)], Contents[b])
      BY ReplayUnfold
    <3>2. Extend(Replay[Parent(b)], Contents[b]).txs = Replay[Parent(b)].txs \cup TxsOf(Contents[b].txs)
      BY ONLY ExtendFields
    <3> QED BY <3>1, <3>2, Zenon
  <2>2. Path[b] \ {Genesis} = {b} \cup (Path[Parent(b)] \ {Genesis})
    BY PathUnfold, BlockFacts
  <2>3. TxsOnPath(b) = TxsOf(Contents[b].txs) \cup TxsOnPath(Parent(b))
    BY <2>2 DEF TxsOnPath
  <2> QED BY <1>2, <2>1, <2>3, BlockFacts
<1>3. Node \subseteq P
  <2> HIDE DEF P
  <2> QED BY <1>1, <1>2, ParentInduction
<1> QED BY <1>3

\* The ledger of a branch that replays is sound.
LEMMA ReplaySound ==
  \A b \in Node : Replay[b].ok => SoundLedger(Replay[b].utxos, Replay[b].txs, Replay[b].height)
<1> DEFINE Good(l) == l.ok => SoundLedger(l.utxos, l.txs, l.height)
           P == { b \in Node : Good(Replay[b]) }
<1>1. Genesis \in P
  BY ReplayUnfold, EmptyLedger DEF Node, GenesisLedger, Ledger
<1>2. ASSUME NEW b \in Block, Parent(b) \in P PROVE b \in P
  <2> DEFINE l == Replay[Parent(b)]
             c == Contents[b]
             m == Extend(l, c)
             cb == <<c.height, c.miner, c.value>>
  <2>1. Replay[b] = m /\ b \in Node /\ Good(l)
    BY <1>2, ReplayUnfold, BlockFacts
  <2>2. l \in Ledgers
    BY ReplayUnfold, BlockFacts
  <2> HIDE DEF l
  <2>3. /\ m.ok = (l.ok /\ BlockConnects(l, c)) /\ m.height = c.height
        /\ m.utxos = Applied(l.utxos, c.txs, cb) /\ m.txs = l.txs \cup TxsOf(c.txs)
    BY DEF Extend, Ledger
  <2> HIDE DEF m
  <2>4. SUFFICES ASSUME m.ok PROVE SoundLedger(m.utxos, m.txs, m.height)
    BY <2>1
  <2>5. /\ l.ok /\ c.height = l.height + 1 /\ Connects(l.utxos, c.height, c.txs)
    BY <2>3, <2>4 DEF BlockConnects
  <2>6. l.height \in Nat /\ l.txs \in SUBSET Tx /\ SoundLedger(l.utxos, l.txs, l.height)
    BY <2>1, <2>2, <2>5 DEF Ledgers
  <2>7. c.txs \in Seq(Tx) /\ cb \in Coinbase /\ cb[1] = l.height + 1
    BY <2>5, <2>6, BlockFacts DEF Coinbase
  <2> HIDE DEF c, cb
  <2> QED BY <2>3, <2>5, <2>6, <2>7, BlockKeepsLedger
<1>3. Node \subseteq P
  <2> HIDE DEF P
  <2> QED BY <1>1, <1>2, ParentInduction
<1> QED BY <1>3

-----------------------------------------------------------------------------
(* Selecting rows of the orphan pool.                                      *)

Unique(s) == \A i, j \in 1..Len(s) : s[i] = s[j] => i = j

\* kept[n] are the members of S among the first n rows.
Keeps(kept, table, S, T) ==
  /\ kept \in [0..Len(table) -> Seq(T)]
  /\ kept[0] = << >>
  /\ \A n \in 1..Len(table) :
       kept[n] = IF table[n] \in S THEN Append(kept[n - 1], table[n]) ELSE kept[n - 1]
  /\ Rows(table, S) = kept[Len(table)]

\* The recursive function inside Rows exists.
LEMMA RowsUnfold ==
  ASSUME NEW T, NEW table \in Seq(T), NEW S
  PROVE  \E kept : Keeps(kept, table, S, T)
<1> DEFINE N == Len(table)
           Step == [n \in 1..N |-> [v \in Seq(T) |->
                      IF table[n] \in S THEN Append(v, table[n]) ELSE v]]
           Rec(f) ==
             f = [n \in 0..N |->
                    IF n = 0 THEN << >>
                    ELSE IF table[n] \in S THEN Append(f[n - 1], table[n]) ELSE f[n - 1]]
<1>1. N \in Nat /\ \A n \in 1..N : table[n] \in T
  OBVIOUS
<1>2. PICK f \in [0..N -> Seq(T)] : f[0] = << >> /\ \A n \in 1..N : f[n] = Step[n][f[n - 1]]
  <2>1. Step \in [1..N -> [Seq(T) -> Seq(T)]]
    BY <1>1
  <2>2. << >> \in Seq(T)
    OBVIOUS
  <2> HIDE DEF N, Step
  <2>3. Worth!HasRecurrence(N, Seq(T), << >>, Step)
    BY <1>1, <2>1, <2>2, Worth!IntervalRecursion, Zenon
  <2> QED BY <2>3 DEF Worth!HasRecurrence
<1>3. ASSUME NEW n \in 1..N
      PROVE  f[n] = IF table[n] \in S THEN Append(f[n - 1], table[n]) ELSE f[n - 1]
  <2>1. f[n - 1] \in Seq(T)
    <3>1. n - 1 \in 0..N
      BY <1>1
    <3> QED BY <1>2, <3>1
  <2>2. f[n] = Step[n][f[n - 1]]
    BY <1>2
  <2>3. \A v \in Seq(T) : Step[n][v] = IF table[n] \in S THEN Append(v, table[n]) ELSE v
    OBVIOUS
  <2> HIDE DEF Step
  <2> QED BY <2>1, <2>2, <2>3, Zenon
<1>4. Rec(f)
  <2>1. f = [n \in 0..N |-> f[n]]
    BY <1>2
  <2>2. \A n \in 0..N : n # 0 => n \in 1..N
    BY <1>1
  <2> HIDE DEF N, Step
  <2> QED BY <1>2, <1>3, <2>1, <2>2
<1>5. Rec(CHOOSE h : Rec(h))
  <2> HIDE DEF Rec
  <2> QED BY <1>4
<1>6. Rows(table, S) = (CHOOSE h : Rec(h))[N]
  BY DEF Rows
<1>7. PICK h : Rec(h) /\ Rows(table, S) = h[N]
  <2> HIDE DEF Rec
  <2> QED BY <1>5, <1>6
<1> HIDE DEF N, Step
\* The two functions agree.
<1> DEFINE Bad == { n \in 0..N : h[n] # f[n] }
<1>8. Bad = {}
  <2>1. SUFFICES ASSUME Bad # {} PROVE FALSE
    OBVIOUS
  <2>2. PICK n \in Bad : \A k \in Bad : n <= k
    <3>1. Bad \subseteq Nat
      OBVIOUS
    <3> HIDE DEF Bad
    <3> QED BY <2>1, <3>1, Worth!LeastElement
  <2>3. h[0] = << >>
    BY <1>1, <1>7
  <2>4. n \in 1..N
    BY <1>1, <1>2, <2>2, <2>3
  <2>5. n - 1 \in 0..N /\ n - 1 \notin Bad
    BY <1>1, <2>2, <2>4
  <2>6. h[n] = IF table[n] \in S THEN Append(h[n - 1], table[n]) ELSE h[n - 1]
    <3>1. n \in 0..N /\ n # 0
      BY ONLY <1>1, <2>4
    <3>2. \A k \in 0..N : h[k] = IF k = 0 THEN << >>
                                  ELSE IF table[k] \in S THEN Append(h[k - 1], table[k]) ELSE h[k - 1]
      BY ONLY <1>7, Zenon
    <3> QED BY ONLY <3>1, <3>2, Zenon
  <2>7. h[n] # f[n]
    BY <2>2
  <2>8. h[n - 1] = f[n - 1]
    BY <2>5
  <2>9. f[n] = IF table[n] \in S THEN Append(f[n - 1], table[n]) ELSE f[n - 1]
    BY <1>3, <2>4
  <2>10. CASE table[n] \in S
    BY ONLY <2>6, <2>7, <2>8, <2>9, <2>10, Zenon
  <2>11. CASE table[n] \notin S
    BY ONLY <2>6, <2>7, <2>8, <2>9, <2>11, Zenon
  <2> QED BY <2>10, <2>11
<1>9. Rows(table, S) = f[N]
  <2>1. N \in 0..N
    BY <1>1
  <2> QED BY <1>7, <1>8, <2>1
<1> QED BY <1>2, <1>3, <1>9 DEF N, Keeps

\* Rows keeps the members of S, and keeps them different.
LEMMA RowsFacts ==
  ASSUME NEW T, NEW table \in Seq(T), NEW S
  PROVE  /\ Rows(table, S) \in Seq(T)
         /\ ToSet(Rows(table, S)) = ToSet(table) \cap S
         /\ Unique(table) => Unique(Rows(table, S))
<1> DEFINE N == Len(table)
<1>1. N \in Nat /\ DOMAIN table = 1..N /\ \A n \in 1..N : table[n] \in T
  OBVIOUS
<1>0. PICK kept : Keeps(kept, table, S, T)
  BY RowsUnfold, Zenon
<1>2. /\ kept \in [0..N -> Seq(T)] /\ kept[0] = << >>
      /\ \A n \in 1..N :
           kept[n] = IF table[n] \in S THEN Append(kept[n - 1], table[n]) ELSE kept[n - 1]
      /\ Rows(table, S) = kept[N]
  BY <1>0 DEF Keeps
<1> HIDE DEF N
<1> DEFINE In(s, x) == \E i \in 1..Len(s) : s[i] = x
           Good(n) == /\ \A x : In(kept[n], x) <=> x \in S /\ \E i \in 1..n : table[i] = x
                      /\ Unique(table) => Unique(kept[n])
<1>3. Good(0)
  <2>1. kept[0] = << >> /\ Len(<< >>) = 0
    BY <1>2
  <2> QED BY <2>1 DEF Unique
<1>4. ASSUME NEW n \in 1..N, Good(n - 1) PROVE Good(n)
  <2> DEFINE v == kept[n - 1]
             w == kept[n]
  <2>1. v \in Seq(T) /\ table[n] \in T /\ w = IF table[n] \in S THEN Append(v, table[n]) ELSE v
    <3>1. n - 1 \in 0..N
      BY <1>1
    <3> QED BY <1>1, <1>2, <3>1
  <2>2. /\ \A x : In(v, x) <=> x \in S /\ \E i \in 1..(n - 1) : table[i] = x
        /\ Unique(table) => Unique(v)
    BY <1>4
  <2> HIDE DEF v, w
  <2>3. \A i \in 1..n : i \in 1..(n - 1) \/ i = n
    BY <1>1
  <2>4. n \in 1..n /\ \A i \in 1..(n - 1) : i \in 1..n /\ i \in 1..N /\ i # n
    BY <1>1
  <2>5. CASE table[n] \notin S
    <3>1. w = v
      BY <2>1, <2>5
    <3>2. \A x : In(w, x) <=> x \in S /\ \E i \in 1..n : table[i] = x
      BY <2>2, <2>3, <2>4, <2>5, <3>1
    <3> QED BY <2>2, <3>1, <3>2 DEF v, w
  <2>6. CASE table[n] \in S
    <3>1. w = Append(v, table[n])
      BY <2>1, <2>6
    <3>2. /\ Len(w) = Len(v) + 1 /\ Len(v) \in Nat /\ w[Len(v) + 1] = table[n]
          /\ \A i \in 1..Len(v) : w[i] = v[i]
      BY <2>1, <3>1
    <3>3. /\ \A i \in 1..Len(w) : i \in 1..Len(v) \/ i = Len(v) + 1
          /\ Len(v) + 1 \in 1..Len(w) /\ \A i \in 1..Len(v) : i \in 1..Len(w)
      BY <3>2
    <3>4. \A x : In(w, x) <=> In(v, x) \/ x = table[n]
      BY <3>2, <3>3
    <3>5. \A x : In(w, x) <=> x \in S /\ \E i \in 1..n : table[i] = x
      <4> HIDE DEF In
      <4> QED BY <2>2, <2>3, <2>4, <2>6, <3>4
    <3>6. ASSUME Unique(table) PROVE Unique(w)
      <4>1. ~In(v, table[n])
        <5>1. \A i \in 1..(n - 1) : table[i] # table[n]
          BY <1>1, <2>4, <3>6 DEF Unique, N
        <5> HIDE DEF In
        <5> QED BY <2>2, <5>1
      <4>2. Unique(v)
        BY <2>2, <3>6
      <4>3. ASSUME NEW i \in 1..Len(w), NEW j \in 1..Len(w), w[i] = w[j] PROVE i = j
        <5>1. CASE i \in 1..Len(v) /\ j \in 1..Len(v)
          BY <3>2, <4>2, <4>3, <5>1 DEF Unique
        <5>2. CASE i = Len(v) + 1 /\ j \in 1..Len(v)
          BY <3>2, <4>1, <4>3, <5>2
        <5>3. CASE j = Len(v) + 1 /\ i \in 1..Len(v)
          BY <3>2, <4>1, <4>3, <5>3
        <5> QED BY <3>3, <5>1, <5>2, <5>3
      <4> QED BY <4>3 DEF Unique
    <3> HIDE DEF In
    <3> QED BY <3>5, <3>6 DEF w
  <2> QED BY <2>5, <2>6
<1> HIDE DEF Good
<1>5. Good(N)
  <2> DEFINE Wrong == { n \in 0..N : ~Good(n) }
  <2>1. SUFFICES ASSUME Wrong # {} PROVE FALSE
    BY <1>1
  <2>2. PICK n \in Wrong : \A k \in Wrong : n <= k
    <3>1. Wrong \subseteq Nat
      OBVIOUS
    <3> HIDE DEF Wrong
    <3> QED BY <2>1, <3>1, Worth!LeastElement
  <2>3. n \in 1..N
    BY <1>1, <1>3, <2>2
  <2>4. n - 1 \in 0..N /\ n - 1 \notin Wrong
    BY <1>1, <2>2, <2>3
  <2> QED BY <1>4, <2>2, <2>3, <2>4
<1>6. kept[N] \in Seq(T)
  <2>1. N \in 0..N
    BY <1>1
  <2> QED BY <1>2, <2>1
<1>7. ToSet(kept[N]) = ToSet(table) \cap S
  <2>1. DOMAIN kept[N] = 1..Len(kept[N])
    BY <1>6
  <2> QED BY <1>1, <1>5, <2>1 DEF Good, ToSet
<1> QED BY <1>2, <1>5, <1>6, <1>7 DEF Good

-----------------------------------------------------------------------------
(* The invariant.                                                          *)

\* Every known branch replays.
AllReplay == \A b \in Known : Replay[b].ok

\* Only the innermost call is not waiting for a nested one.
Nested == \A i \in 1..(Len(stack) - 1) : stack[i].phase = "orphans"

\* The statuses of the graph fit the tip between the swap of the tables and the
\* next one, unless a handler died in the gap.
Marked ==
  ~unmarked /\ ~Running("swapped") =>
     \A b \in Known : graph[b] = "canonical" <=> b \in Path[tip]

\* The mempool may hold both, in one order or the other.
Apart(t, u) == TxIn[t] \cap Plain(u) = {} \/ TxIn[u] \cap Plain(t) = {}

Spends(T) == \A t, u \in T : t # u => Apart(t, u)

FitsTip(t) == t \notin Confirmed /\ ValidTx(t, Utxos, NextHeight)

\* What a call in the middle of a reorganization knows of its lists.
Readmitting(f) ==
  /\ f.seen \subseteq f.readmit /\ f.readmit \subseteq f.had
  /\ f.had \ f.readmit \subseteq Confirmed
  /\ Spends(f.readmit)
  /\ \A t \in mempool : t \in f.seen /\ FitsTip(t)
  /\ \A t \in f.seen \ mempool : FitsTip(t) => \E u \in mempool : Displaces(u, t)

FrameOK(f) ==
  /\ f.phase = "inserted" => f.block \notin stranded /\ f.seen = {}
  /\ f.phase = "swapped" => f.seen = {}
  /\ f.phase \in {"swapped", "readmit"} => f.block = tip /\ Readmitting(f)
  /\ f.phase = "retry" => f.rows # << >>

TopOK == stack # << >> => FrameOK(Top)

NetInv == TypeOK /\ AllReplay /\ Nested /\ Marked /\ MempoolMinable /\ TopOK

-----------------------------------------------------------------------------
(* The stack of running calls.                                             *)

LEMMA TopFacts ==
  ASSUME TypeOK, stack # << >>
  PROVE  /\ Len(stack) \in Nat /\ Len(stack) >= 1 /\ stack \in Seq(Frames)
         /\ Top \in Frames /\ Top.block \in Known /\ Top.block \in Block
         /\ Top.readmit \in SUBSET Tx /\ Top.seen \in SUBSET Tx /\ Top.had \in SUBSET Tx
         /\ Top.rows \in Seq(Block) /\ Top.queue \in Seq(Block) /\ Top.phase \in Phases
<1>1. stack \in Seq(Frames) /\ \A i \in 1..Len(stack) : stack[i].block \in Known
  BY DEF TypeOK
<1>2. Len(stack) \in Nat /\ Len(stack) >= 1
  BY <1>1
<1>3. Len(stack) \in 1..Len(stack)
  BY <1>2
<1>4. Top \in Frames /\ Top.block \in Known
  BY <1>1, <1>3 DEF Top
<1> HIDE DEF Top
<1> QED BY <1>1, <1>2, <1>4 DEF Frames

\* Replacing the locals of the innermost call.
LEMMA SetTopFacts ==
  ASSUME NEW s \in Seq(Frames), s # << >>, NEW f \in Frames,
         NEW u, u = [s EXCEPT ![Len(s)] = f]
  PROVE  /\ u \in Seq(Frames) /\ Len(u) = Len(s) /\ u # << >> /\ u[Len(u)] = f
         /\ \A i \in 1..(Len(s) - 1) : u[i] = s[i]
<1>1. Len(s) \in Nat /\ Len(s) >= 1
  OBVIOUS
<1>2. u \in Seq(Frames) /\ Len(u) = Len(s)
  BY <1>1
<1>3. u[Len(s)] = f /\ \A i \in 1..(Len(s) - 1) : u[i] = s[i]
  BY <1>1
<1>4. u # << >>
  <2>1. Len(u) # 0
    BY <1>1, <1>2
  <2> QED BY ONLY <2>1
<1> QED BY ONLY <1>2, <1>3, <1>4

\* The same of a step: the call keeps its block.
LEMMA StackStep ==
  ASSUME TypeOK, stack # << >>, NEW f \in Frames, f.block = Top.block, stack' = SetTop(f)
  PROVE  /\ stack' \in Seq(Frames) /\ stack' # << >> /\ Top' = f
         /\ Len(stack') = Len(stack)
         /\ \A i \in 1..(Len(stack) - 1) : stack'[i] = stack[i]
         /\ \A i \in 1..Len(stack') : stack'[i].block = stack[i].block
<1>1. stack \in Seq(Frames) /\ Len(stack) \in Nat
  BY TopFacts
<1>2. /\ stack' \in Seq(Frames) /\ stack' # << >> /\ Len(stack') = Len(stack)
      /\ stack'[Len(stack')] = f /\ \A i \in 1..(Len(stack) - 1) : stack'[i] = stack[i]
  BY <1>1, SetTopFacts DEF SetTop
<1>3. Top' = f
  BY <1>2 DEF Top
<1>4. \A i \in 1..Len(stack') : stack'[i].block = stack[i].block
  <2>1. \A i \in 1..Len(stack') : i \in 1..(Len(stack) - 1) \/ i = Len(stack)
    BY <1>1, <1>2
  <2> QED BY <1>2, <2>1 DEF Top
<1> QED BY <1>2, <1>3, <1>4

-----------------------------------------------------------------------------
(* What the tables and the tip give.                                       *)

LEMMA TipFacts ==
  ASSUME TypeOK, AllReplay
  PROVE  /\ tip \in Node /\ Path[tip] \subseteq Known /\ Confirmed \in SUBSET Tx
         /\ SoundLedger(Utxos, Confirmed, Replay[tip].height)
         /\ Confirmed = TxsOnPath(tip)
<1>1. tip \in Node /\ tip \in Known /\ Known \in SUBSET Node
  BY DEF TypeOK
<1>2. Path[tip] \subseteq Known
  <2>1. \A x \in Known \ {Genesis} : Parent(x) \in Known
    BY DEF TypeOK
  <2> QED BY <1>1, <2>1, PathInside
<1>3. Replay[tip] \in Ledgers
  BY <1>1, ReplayUnfold
<1>4. Replay[tip].ok
  BY <1>1 DEF AllReplay
<1>5. Confirmed \in SUBSET Tx
  BY <1>3 DEF Ledgers, Confirmed
<1> QED
  BY <1>1, <1>2, <1>4, <1>5, ReplaySound, ReplayTxs DEF Utxos, Confirmed

\* The step changes nothing of what the fork choice shows.
Still == UNCHANGED <<Noticed, tip>>

LEMMA StillFacts ==
  ASSUME Known' = Known, UNCHANGED <<tip, stranded>>, ~Comparing, ~Comparing'
  PROVE  Still
BY DEF Still, Noticed

\* A step that only moves the innermost call on, past the reorganization.
LEMMA QuietStep ==
  ASSUME NetInv, stack # << >>, NEW f \in Frames, f.block = Top.block, stack' = SetTop(f),
         Top.phase # "swapped", f.phase \in {"scan", "orphans", "retry"},
         f.phase = "retry" => f.rows # << >>,
         UNCHANGED <<graph, tip, mempool, stranded, unmarked>>,
         orphans' \in Seq(Block), clock' \in Nat, crashes' \in Nat
  PROVE  NetInv' /\ Known' = Known /\ ~Comparing' /\ (Top.phase # "inserted" => Still)
<1>1. /\ stack' \in Seq(Frames) /\ stack' # << >> /\ Top' = f /\ Len(stack') = Len(stack)
      /\ \A i \in 1..(Len(stack) - 1) : stack'[i] = stack[i]
      /\ \A i \in 1..Len(stack') : stack'[i].block = stack[i].block
  BY StackStep DEF NetInv
<1>2. Known' = Known /\ Confirmed' = Confirmed /\ Utxos' = Utxos /\ NextHeight' = NextHeight
  BY DEF Known, Confirmed, Utxos, NextHeight
<1>3. TypeOK'
  BY <1>1, <1>2 DEF NetInv, TypeOK
<1>4. AllReplay'
  BY <1>2 DEF NetInv, AllReplay
<1>5. Nested'
  BY <1>1 DEF NetInv, Nested
<1>6. Marked'
  <2>1. ~Running("swapped") /\ ~Running("swapped")'
    BY <1>1 DEF Running
  <2> QED BY <1>2, <2>1 DEF NetInv, Marked
<1>7. MempoolMinable'
  BY <1>2 DEF NetInv, MempoolMinable, ValidTx
<1>8. TopOK'
  BY <1>1 DEF TopOK, FrameOK
<1>9. ~Comparing'
  BY <1>1 DEF Comparing, Running
<1>10. Top.phase # "inserted" => Still
  BY <1>2, <1>9, StillFacts DEF Comparing, Running
<1> QED BY <1>2, <1>3, <1>4, <1>5, <1>6, <1>7, <1>8, <1>9, <1>10 DEF NetInv

\* The rows that a query for the orphans of a parent returns.
LEMMA MinOfTwo ==
  ASSUME NEW a \in Nat, NEW b \in Nat
  PROVE  /\ Min({a, b}) \in Nat /\ Min({a, b}) <= a /\ Min({a, b}) <= b
         /\ Min({a, b}) = a \/ Min({a, b}) = b
<1>1. \E x \in {a, b} : \A y \in {a, b} : x <= y
  OBVIOUS
<1> QED BY <1>1 DEF Min

LEMMA PoolFacts ==
  ASSUME orphans \in Seq(Block), NEW p, NEW rows, rows = Rows(orphans, Children(p))
  PROVE  /\ rows \in Seq(Block)
         /\ \E k \in Nat : /\ OrphansOf(p) = SubSeq(rows, 1, k)
                           /\ k <= Len(rows) /\ k <= OrphanBatch
                           /\ k = Len(rows) \/ k = OrphanBatch
         /\ OrphansOf(p) \in Seq(Block)
<1>1. rows \in Seq(Block)
  BY RowsFacts
<1>2. Len(rows) \in Nat /\ OrphanBatch \in Nat
  BY <1>1, NetworkAssumption
<1>3. PICK k : k = Min({Len(rows), OrphanBatch})
  OBVIOUS
<1>4. k \in Nat /\ k <= Len(rows) /\ k <= OrphanBatch /\ (k = Len(rows) \/ k = OrphanBatch)
  BY <1>2, <1>3, MinOfTwo
<1>5. OrphansOf(p) = SubSeq(rows, 1, k)
  BY <1>3 DEF OrphansOf
<1>6. SubSeq(rows, 1, k) \in Seq(Block)
  BY <1>1, <1>4
<1> QED BY <1>1, <1>4, <1>5, <1>6

LEMMA KeepTipInv ==
  ASSUME NetInv, KeepTip PROVE NetInv' /\ Known' = Known /\ ~Comparing'
<1>1. stack # << >> /\ Top.phase = "inserted"
  BY DEF KeepTip, Running
<1>2. PICK f : f = [Top EXCEPT !.phase = "scan"]
  OBVIOUS
<1>3. f \in Frames /\ f.block = Top.block /\ f.phase = "scan"
  BY <1>1, <1>2, TopFacts DEF NetInv, Frames, Phases
<1>4. orphans \in Seq(Block) /\ clock \in Nat /\ crashes \in Nat
  BY DEF NetInv, TypeOK
<1> QED BY <1>1, <1>2, <1>3, <1>4, QuietStep DEF KeepTip

LEMMA ReadmitDoneInv == ASSUME NetInv, ReadmitDone PROVE NetInv' /\ Still
<1>1. stack # << >> /\ Top.phase = "readmit"
  BY DEF ReadmitDone, Running
<1>2. PICK f : f = [Top EXCEPT !.phase = "scan"]
  OBVIOUS
<1>3. f \in Frames /\ f.block = Top.block /\ f.phase = "scan"
  BY <1>1, <1>2, TopFacts DEF NetInv, Frames, Phases
<1>4. orphans \in Seq(Block) /\ clock \in Nat /\ crashes \in Nat
  BY DEF NetInv, TypeOK
<1> QED BY <1>1, <1>2, <1>3, <1>4, QuietStep DEF ReadmitDone

LEMMA ScanOrphansInv == ASSUME NetInv, ScanOrphans PROVE NetInv' /\ Still
<1>1. stack # << >> /\ Top.phase = "scan"
  BY DEF ScanOrphans, Running
<1>2. PICK r : r = OrphansOf(Top.block)
  OBVIOUS
<1>3. PICK f : f = [Top EXCEPT !.phase = "orphans", !.rows = r]
  OBVIOUS
<1>4. orphans \in Seq(Block) /\ clock \in Nat /\ crashes \in Nat
  BY DEF NetInv, TypeOK
<1>5. r \in Seq(Block)
  BY <1>2, <1>4, PoolFacts
<1>6. f \in Frames /\ f.block = Top.block /\ f.phase = "orphans"
  BY <1>1, <1>3, <1>5, TopFacts DEF NetInv, Frames, Phases
<1>7. stack' = SetTop(f)
  BY <1>2, <1>3 DEF ScanOrphans
<1> QED BY <1>1, <1>4, <1>6, <1>7, QuietStep DEF ScanOrphans

LEMMA DeleteOrphanInv == ASSUME NetInv, DeleteOrphan PROVE NetInv' /\ Still
<1>1. stack # << >> /\ Top.phase = "orphans" /\ Top.rows # << >>
  BY DEF DeleteOrphan, Running
<1>2. PICK f : f = [Top EXCEPT !.phase = "retry"]
  OBVIOUS
<1>3. f \in Frames /\ f.block = Top.block /\ f.phase = "retry" /\ f.rows = Top.rows
  BY <1>1, <1>2, TopFacts DEF NetInv, Frames, Phases
<1>4. orphans \in Seq(Block) /\ clock \in Nat /\ crashes \in Nat
  BY DEF NetInv, TypeOK
<1>5. orphans' \in Seq(Block)
  BY <1>4, RowsFacts DEF DeleteOrphan, Without
<1> QED BY <1>1, <1>2, <1>3, <1>4, <1>5, QuietStep DEF DeleteOrphan

LEMMA NextInQueueInv == ASSUME NetInv, NextInQueue PROVE NetInv' /\ Still
<1>1. stack # << >> /\ Top.phase = "orphans" /\ Top.queue # << >>
  BY DEF NextInQueue, Running
<1>2. PICK r : r = OrphansOf(Head(Top.queue))
  OBVIOUS
<1>3. PICK q : q = Tail(Top.queue)
  OBVIOUS
<1>4. PICK f : f = [Top EXCEPT !.rows = r, !.queue = q]
  OBVIOUS
<1>5. orphans \in Seq(Block) /\ clock \in Nat /\ crashes \in Nat
  BY DEF NetInv, TypeOK
<1>6. r \in Seq(Block)
  BY <1>2, <1>5, PoolFacts
<1>7. q \in Seq(Block)
  BY <1>1, <1>3, TopFacts DEF NetInv
<1>8. f \in Frames /\ f.block = Top.block /\ f.phase = "orphans"
  BY <1>1, <1>4, <1>6, <1>7, TopFacts DEF NetInv, Frames, Phases
<1>9. stack' = SetTop(f)
  BY <1>2, <1>3, <1>4 DEF NextInQueue
<1> QED BY <1>1, <1>5, <1>8, <1>9, QuietStep DEF NextInQueue

\* The locals of a call that starts.
LEMMA FrameFacts ==
  ASSUME NEW b \in Block
  PROVE  /\ Frame(b) \in Frames /\ Frame(b).block = b /\ Frame(b).phase = "inserted"
         /\ Frame(b).seen = {} /\ Frame(b).rows = << >> /\ Frame(b).queue = << >>
BY DEF Frame, Frames, Phases

\* A block is inserted and its call starts above the calls in s.
LEMMA InsertStep ==
  ASSUME NetInv, NEW b \in Block, Accepts(b), Insert(b),
         NEW s \in Seq(Frames), stack' = Append(s, Frame(b)),
         \A i \in 1..Len(s) : s[i].phase = "orphans" /\ s[i].block \in Known,
         ~Running("swapped"), ~Comparing,
         UNCHANGED <<tip, mempool, clock, crashes, stranded, unmarked>>,
         orphans' \in Seq(Block)
  PROVE  NetInv' /\ Still
<1>1. Known' = Known \cup {b} /\ graph' = [x \in Known \cup {b} |-> IF x = b THEN "side" ELSE graph[x]]
  BY DEF Insert, Known
<1>2. b \notin Known /\ Parent(b) \in Known /\ Replay[b].ok
  BY DEF Accepts
<1>3. tip \in Known /\ Path[tip] \subseteq Known /\ stranded \subseteq Known /\ b \in Node
  BY TipFacts, BlockFacts DEF NetInv, TypeOK
<1>4. PICK g : g = Frame(b)
  OBVIOUS
<1>5. /\ g \in Frames /\ g.block = b /\ g.phase = "inserted" /\ g.seen = {}
  BY <1>4, FrameFacts
<1>6. /\ stack' = Append(s, g) /\ stack' \in Seq(Frames) /\ stack' # << >>
      /\ Len(s) \in Nat /\ Len(stack') = Len(s) + 1 /\ stack'[Len(s) + 1] = g
      /\ \A i \in 1..Len(s) : stack'[i] = s[i]
  BY <1>4, <1>5
<1>7. Top' = g
  BY <1>6 DEF Top
<1>8. Confirmed' = Confirmed /\ Utxos' = Utxos /\ NextHeight' = NextHeight
  BY DEF Confirmed, Utxos, NextHeight
<1>9. TypeOK'
  <2>1. Known' \subseteq Node /\ Genesis \in Known' /\ tip' \in Known' /\ stranded' \subseteq Known'
    BY <1>1, <1>3 DEF NetInv, TypeOK
  <2>2. graph' \in [Known' -> {"side", "canonical"}]
    BY <1>1 DEF NetInv, TypeOK
  <2>3. \A x \in Known' \ {Genesis} : Parent(x) \in Known'
    BY <1>1, <1>2 DEF NetInv, TypeOK
  <2>4. \A i \in 1..Len(stack') : stack'[i].block \in Known'
    <3>1. \A i \in 1..Len(stack') : i \in 1..Len(s) \/ i = Len(s) + 1
      BY <1>6
    <3> QED BY <1>1, <1>5, <1>6, <3>1
  <2>5. /\ mempool' \subseteq Tx /\ clock' \in Nat /\ crashes' \in Nat /\ unmarked' \in BOOLEAN
    BY DEF NetInv, TypeOK
  <2> QED BY <1>6, <2>1, <2>2, <2>3, <2>4, <2>5 DEF TypeOK
<1>10. AllReplay'
  BY <1>1, <1>2 DEF NetInv, AllReplay
<1>11. Nested'
  <2>1. Len(stack') - 1 = Len(s)
    BY <1>6
  <2> QED BY <1>6, <2>1 DEF Nested
<1>12. Marked'
  <2>1. ~Running("swapped")'
    BY <1>5, <1>7 DEF Running
  <2>2. SUFFICES ASSUME ~unmarked
                 PROVE  \A x \in Known' : graph'[x] = "canonical" <=> x \in Path[tip]
    BY <2>1 DEF Marked
  <2>3. \A x \in Known : graph[x] = "canonical" <=> x \in Path[tip]
    BY <2>2 DEF NetInv, Marked
  <2> QED BY <1>1, <1>2, <1>3, <2>3
<1>13. MempoolMinable'
  BY <1>8 DEF NetInv, MempoolMinable, ValidTx
<1>14. TopOK'
  BY <1>2, <1>3, <1>5, <1>7 DEF TopOK, FrameOK
<1>15. Still
  <2>1. Comparing' /\ Top'.block = b
    BY <1>5, <1>6, <1>7 DEF Comparing, Running
  <2>2. Noticed' = (Known' \ {Top'.block}) \ stranded'
    BY <2>1 DEF Noticed
  <2>3. Noticed = Known \ stranded
    BY DEF Noticed
  <2> QED BY <1>1, <1>2, <2>1, <2>2, <2>3 DEF Still
<1> QED BY <1>9, <1>10, <1>11, <1>12, <1>13, <1>14, <1>15 DEF NetInv

LEMMA ReceiveBlockInv ==
  ASSUME NetInv, NEW b \in Block, ReceiveBlock(b) PROVE NetInv' /\ Still
<1>1. orphans' \in Seq(Block)
  BY RowsFacts DEF NetInv, TypeOK, ReceiveBlock, Without
<1>2. PICK s : s = << >>
  OBVIOUS
<1>3. s \in Seq(Frames) /\ \A i \in 1..Len(s) : FALSE
  BY <1>2
<1>4. stack' = Append(s, Frame(b))
  BY <1>2 DEF ReceiveBlock
<1>5. ~Running("swapped") /\ ~Comparing
  BY DEF ReceiveBlock, Running, Comparing
<1> QED BY <1>1, <1>3, <1>4, <1>5, InsertStep DEF ReceiveBlock

LEMMA RetryOrphanInv == ASSUME NetInv, RetryOrphan PROVE NetInv' /\ Still
<1>1. stack # << >> /\ Top.phase = "retry" /\ Top.rows # << >>
  BY DEF RetryOrphan, Running, NetInv, TopOK, FrameOK
<1>2. PICK b : b = Head(Top.rows)
  OBVIOUS
<1>3. b \in Block
  BY <1>1, <1>2, TopFacts DEF NetInv
<1>4. orphans \in Seq(Block) /\ orphans' = orphans /\ clock \in Nat /\ crashes \in Nat
  BY DEF NetInv, TypeOK, RetryOrphan
<1>5. ASSUME NEW q \in Seq(Block), NEW f,
             f = [Top EXCEPT !.phase = "orphans", !.rows = Tail(@), !.queue = q]
      PROVE  f \in Frames /\ f.block = Top.block /\ f.phase = "orphans"
  <2>1. Tail(Top.rows) \in Seq(Block)
    BY <1>1, TopFacts DEF NetInv
  <2> QED BY <1>1, <1>5, <2>1, TopFacts DEF NetInv, Frames, Phases
<1>6. CASE Accepts(b)
  <2>1. PICK q : q = Append(Top.queue, b)
    OBVIOUS
  <2>2. PICK f : f = [Top EXCEPT !.phase = "orphans", !.rows = Tail(@), !.queue = q]
    OBVIOUS
  <2>3. PICK s : s = SetTop(f)
    OBVIOUS
  <2>4. Insert(b) /\ stack' = Append(s, Frame(b))
    BY <1>2, <1>6, <2>1, <2>2, <2>3 DEF RetryOrphan
  <2>5. q \in Seq(Block)
    BY <1>1, <1>3, <2>1, TopFacts DEF NetInv
  <2>6. f \in Frames /\ f.block = Top.block /\ f.phase = "orphans"
    BY ONLY <1>5, <2>2, <2>5, Zenon
  <2>7. stack \in Seq(Frames) /\ Len(stack) \in Nat /\ Top.block \in Known
    BY <1>1, TopFacts DEF NetInv
  <2>8. /\ s \in Seq(Frames) /\ Len(s) = Len(stack) /\ s[Len(s)] = f
        /\ \A i \in 1..(Len(stack) - 1) : s[i] = stack[i]
    BY <1>1, <2>3, <2>6, <2>7, SetTopFacts DEF SetTop
  <2>9. ASSUME NEW i \in 1..Len(s) PROVE s[i].phase = "orphans" /\ s[i].block \in Known
    <3>1. CASE i = Len(s)
      BY <2>6, <2>7, <2>8, <3>1
    <3>2. CASE i # Len(s)
      <4>1. i \in 1..(Len(stack) - 1) /\ i \in 1..Len(stack)
        BY <2>7, <2>8, <3>2
      <4>2. stack[i].phase = "orphans" /\ stack[i].block \in Known
        BY <4>1 DEF NetInv, Nested, TypeOK
      <4> QED BY <2>8, <4>1, <4>2
    <3> QED BY <3>1, <3>2
  <2>10. ~Running("swapped") /\ ~Comparing
    BY <1>1 DEF Running, Comparing
  <2>11. UNCHANGED <<tip, mempool, clock, crashes, stranded, unmarked>>
    BY DEF RetryOrphan
  <2> QED BY <1>3, <1>4, <1>6, <2>4, <2>8, <2>9, <2>10, <2>11, InsertStep
<1>7. CASE ~Accepts(b)
  <2>1. PICK q : q = IF b \in Known THEN Append(Top.queue, b) ELSE Top.queue
    OBVIOUS
  <2>2. PICK f : f = [Top EXCEPT !.phase = "orphans", !.rows = Tail(@), !.queue = q]
    OBVIOUS
  <2>3. stack' = SetTop(f) /\ graph' = graph
    BY <1>2, <1>7, <2>1, <2>2 DEF RetryOrphan
  <2>4. q \in Seq(Block)
    BY <1>1, <1>3, <2>1, TopFacts DEF NetInv
  <2>5. f \in Frames /\ f.block = Top.block /\ f.phase = "orphans"
    BY ONLY <1>5, <2>2, <2>4, Zenon
  <2>6. UNCHANGED <<graph, tip, mempool, clock, crashes, stranded, unmarked>>
    BY <2>3 DEF RetryOrphan
  <2> QED BY <1>1, <1>4, <2>3, <2>5, <2>6, QuietStep
<1> QED BY <1>6, <1>7

\* Where mempool and tip stay, what is known of the lists of a call does too.
LEMMA SameReadmitting ==
  ASSUME mempool' = mempool, Confirmed' = Confirmed, Utxos' = Utxos,
         NextHeight' = NextHeight, NEW f, Readmitting(f)
  PROVE  Readmitting(f)'
<1>1. \A t : FitsTip(t)' <=> FitsTip(t)
  BY DEF FitsTip, ValidTx
<1>2. (\A t \in mempool : t \in f.seen /\ FitsTip(t))'
  BY <1>1 DEF Readmitting
<1>3. (\A t \in f.seen \ mempool : FitsTip(t) => \E u \in mempool : Displaces(u, t))'
  BY <1>1 DEF Readmitting, Displaces
<1> QED BY <1>2, <1>3 DEF Readmitting, Spends, Apart

\* A step outside accept_block that changes no table of the chain.
LEMMA SameTables ==
  ASSUME NetInv, UNCHANGED <<graph, tip, mempool, stack, stranded, unmarked>>,
         orphans' \in Seq(Block), clock' \in Nat, crashes' \in Nat
  PROVE  NetInv' /\ Still
<1>1. /\ Known' = Known /\ Confirmed' = Confirmed /\ Utxos' = Utxos
      /\ NextHeight' = NextHeight /\ Top' = Top
  BY DEF Known, Confirmed, Utxos, NextHeight, Top
<1>2. TypeOK'
  BY <1>1 DEF NetInv, TypeOK
<1>3. AllReplay' /\ Nested'
  BY <1>1 DEF NetInv, AllReplay, Nested
<1>4. Marked'
  BY <1>1 DEF NetInv, Marked, Running
<1>5. MempoolMinable'
  BY <1>1 DEF NetInv, MempoolMinable, ValidTx
<1>6. TopOK'
  <2>1. stack # << >> => FrameOK(Top)
    BY DEF NetInv, TopOK
  <2>2. SUFFICES ASSUME stack # << >> PROVE FrameOK(Top)'
    BY DEF TopOK
  <2>3. PICK f : f = Top
    OBVIOUS
  <2>4. FrameOK(f) /\ Top' = f
    BY <1>1, <2>1, <2>2, <2>3
  <2>5. FrameOK(f)'
    BY <1>1, <2>4, SameReadmitting DEF FrameOK
  <2>6. FrameOK(Top)' = FrameOK(f)'
    BY <2>4 DEF FrameOK, Readmitting
  <2> QED BY <2>5, <2>6
<1>7. Still
  BY <1>1 DEF Still, Noticed, Comparing, Running
<1> QED BY <1>2, <1>3, <1>4, <1>5, <1>6, <1>7 DEF NetInv

LEMMA ReceiveOrphanInv ==
  ASSUME NetInv, NEW b \in Block, ReceiveOrphan(b) PROVE NetInv' /\ Still
<1>1. orphans \in Seq(Block) /\ clock \in Nat /\ crashes \in Nat
  BY DEF NetInv, TypeOK
<1>2. PICK all : all = Append(orphans, b)
  OBVIOUS
<1>3. all \in Seq(Block) /\ all # << >>
  BY <1>1, <1>2
<1>4. orphans' = IF Len(all) > MaxOrphans THEN Tail(all) ELSE all
  BY <1>2 DEF ReceiveOrphan
<1>5. orphans' \in Seq(Block)
  BY <1>3, <1>4
<1> QED BY <1>1, <1>5, SameTables DEF ReceiveOrphan

LEMMA TickInv == ASSUME NetInv, Tick PROVE NetInv' /\ Still
<1>1. orphans \in Seq(Block) /\ clock + 1 \in Nat /\ crashes \in Nat
  BY DEF NetInv, TypeOK
<1> QED BY <1>1, SameTables DEF Tick

\* A transaction that is let in keeps the mempool minable.
LEMMA AdmitKeepsMinable ==
  ASSUME MempoolMinable, NEW t \in Tx, AdmissibleTx(t), mempool' = mempool \cup {t},
         tip' = tip
  PROVE  MempoolMinable'
<1>1. Confirmed' = Confirmed /\ Utxos' = Utxos /\ NextHeight' = NextHeight
  BY DEF Confirmed, Utxos, NextHeight
<1>2. /\ t \notin Confirmed /\ ValidTx(t, Utxos, NextHeight)
      /\ \A u \in mempool : TxIn[t] \cap Plain(u) = {}
  BY DEF AdmissibleTx, MempoolSpent
<1>3. (mempool \cap Confirmed = {})'
  BY <1>1, <1>2 DEF MempoolMinable
<1>4. (\A u \in mempool : ValidTx(u, Utxos, NextHeight))'
  <2>1. \A u \in mempool : ValidTx(u, Utxos, NextHeight)
    BY DEF MempoolMinable
  <2>2. \A u \in mempool' : ValidTx(u, Utxos, NextHeight)
    BY <1>2, <2>1
  <2> QED BY <1>1, <2>2 DEF ValidTx
<1>5. (\A u, v \in mempool :
          u # v => TxIn[u] \cap Plain(v) = {} \/ TxIn[v] \cap Plain(u) = {})'
  BY <1>2 DEF MempoolMinable, Plain
<1> QED BY <1>3, <1>4, <1>5 DEF MempoolMinable

LEMMA SubmitTransactionInv ==
  ASSUME NetInv, NEW t \in Tx, SubmitTransaction(t) PROVE NetInv' /\ Still
<1>1. MempoolMinable'
  BY AdmitKeepsMinable DEF NetInv, SubmitTransaction
<1>2. Known' = Known
  BY DEF Known, SubmitTransaction
<1>3. TypeOK'
  BY <1>2 DEF NetInv, TypeOK, SubmitTransaction
<1>4. AllReplay' /\ Nested'
  BY <1>2 DEF NetInv, AllReplay, Nested, SubmitTransaction
<1>5. Marked'
  BY <1>2 DEF NetInv, Marked, Running, SubmitTransaction
<1>6. TopOK'
  BY DEF TopOK, SubmitTransaction
<1>7. Still
  BY <1>2, StillFacts DEF SubmitTransaction, Comparing, Running
<1> QED BY <1>1, <1>3, <1>4, <1>5, <1>6, <1>7 DEF NetInv

LEMMA WithoutLast ==
  ASSUME NEW s \in Seq(Frames), Len(s) >= 1, NEW u, u = SubSeq(s, 1, Len(s) - 1)
  PROVE  /\ u \in Seq(Frames) /\ Len(u) = Len(s) - 1
         /\ \A i \in 1..Len(u) : u[i] = s[i] /\ i \in 1..Len(s)
<1>1. PICK k : k = Len(s) - 1
  OBVIOUS
<1>2. k \in Nat /\ k <= Len(s) /\ Len(s) \in Nat
  BY <1>1
<1>3. u = SubSeq(s, 1, k)
  BY <1>1
<1>4. u \in Seq(Frames)
  BY <1>2, <1>3
<1>5. Len(u) = k
  BY <1>2, <1>3
<1>6. \A i \in 1..k : u[i] = s[i]
  BY <1>2, <1>3
<1>7. \A i \in 1..k : i \in 1..Len(s)
  BY <1>2
<1> QED BY ONLY <1>1, <1>4, <1>5, <1>6, <1>7

\* The call returns to the one that waits for it.
LEMMA ReturnInv == ASSUME NetInv, Return PROVE NetInv' /\ Still
<1>1. stack # << >> /\ Top.phase = "orphans"
  BY DEF Return, Running
<1>2. stack \in Seq(Frames) /\ Len(stack) \in Nat /\ Len(stack) >= 1
  BY <1>1, TopFacts DEF NetInv
<1>3. stack' = SubSeq(stack, 1, Len(stack) - 1)
  BY DEF Return
<1>4. /\ stack' \in Seq(Frames) /\ Len(stack') = Len(stack) - 1
      /\ \A i \in 1..Len(stack') : stack'[i] = stack[i] /\ i \in 1..Len(stack)
  <2>1. PICK s : s = stack
    OBVIOUS
  <2>2. PICK u : u = stack'
    OBVIOUS
  <2>3. s \in Seq(Frames) /\ Len(s) >= 1 /\ u = SubSeq(s, 1, Len(s) - 1)
    BY <1>2, <1>3, <2>1, <2>2
  <2>4. /\ u \in Seq(Frames) /\ Len(u) = Len(s) - 1
        /\ \A i \in 1..Len(u) : u[i] = s[i] /\ i \in 1..Len(s)
    BY ONLY <2>3, WithoutLast, ZenonT(60)
  <2> QED BY <2>1, <2>2, <2>4
<1>5. UNCHANGED <<graph, orphans, tip, mempool, clock, crashes, stranded, unmarked>>
  BY DEF Return
<1>6. Known' = Known /\ Confirmed' = Confirmed /\ Utxos' = Utxos /\ NextHeight' = NextHeight
  BY <1>5 DEF Known, Confirmed, Utxos, NextHeight
<1>7. TypeOK'
  BY <1>4, <1>5, <1>6 DEF NetInv, TypeOK
<1>8. \A i \in 1..Len(stack') : stack'[i].phase = "orphans"
  BY <1>2, <1>4 DEF NetInv, Nested
<1>9. stack' # << >> => Top'.phase = "orphans"
  <2>1. ASSUME stack' # << >> PROVE Len(stack') \in 1..Len(stack')
    BY <1>4, <2>1
  <2> QED BY <1>8, <2>1 DEF Top
<1>10. AllReplay'
  BY <1>6 DEF NetInv, AllReplay
<1>11. Nested'
  <2>1. Len(stack') - 1 \in Int /\ \A i \in 1..(Len(stack') - 1) : i \in 1..Len(stack')
    BY <1>2, <1>4
  <2> QED BY <1>8, <2>1 DEF Nested
<1>12. Marked'
  <2>1. ~Running("swapped") /\ ~Running("swapped")'
    BY <1>1, <1>9 DEF Running
  <2> QED BY <1>5, <1>6, <2>1 DEF NetInv, Marked
<1>13. MempoolMinable'
  BY <1>5, <1>6 DEF NetInv, MempoolMinable, ValidTx
<1>14. TopOK'
  BY <1>9 DEF TopOK, FrameOK
<1>15. Still
  BY <1>1, <1>5, <1>6, <1>9, StillFacts DEF Comparing, Running
<1> QED BY <1>7, <1>10, <1>11, <1>12, <1>13, <1>14, <1>15 DEF NetInv

\* After a crash the graph lacks no canonical block, so that the bootstrap adds
\* none.
LEMMA CrashInv == ASSUME NetInv, Crash PROVE NetInv' /\ Still
<1>1. stack # << >> /\ stack' = << >>
  BY DEF Crash
<1>2. Path[tip] \subseteq Known /\ Top.block \in Known
  BY <1>1, TipFacts, TopFacts DEF NetInv
<1>3. graph' = graph
  <2>1. graph = [x \in Known |-> graph[x]]
    BY DEF NetInv, TypeOK
  <2>2. Known \cup Path[tip] = Known
    BY <1>2
  <2>3. graph' = [x \in Known |-> graph[x]]
    BY <2>2 DEF Crash
  <2> QED BY <2>1, <2>3
<1>4. UNCHANGED <<orphans, tip, mempool, clock>>
  BY DEF Crash
<1>5. Known' = Known /\ Confirmed' = Confirmed /\ Utxos' = Utxos /\ NextHeight' = NextHeight
  BY <1>3, <1>4 DEF Known, Confirmed, Utxos, NextHeight
<1>6. TypeOK'
  <2>1. crashes' \in Nat /\ unmarked' \in BOOLEAN /\ stranded' \subseteq Known
    BY <1>2 DEF NetInv, TypeOK, Crash
  <2>2. stack' \in Seq(Frames) /\ \A i \in 1..Len(stack') : FALSE
    BY <1>1
  <2> QED BY <1>3, <1>4, <1>5, <2>1, <2>2 DEF NetInv, TypeOK
<1>7. AllReplay'
  BY <1>5 DEF NetInv, AllReplay
<1>8. Nested'
  BY <1>1 DEF Nested
<1>9. Marked'
  <2>1. ~unmarked' => ~unmarked /\ ~Running("swapped")
    BY DEF Crash, Running
  <2> QED BY <1>3, <1>4, <1>5, <2>1 DEF NetInv, Marked
<1>10. MempoolMinable'
  BY <1>4, <1>5 DEF NetInv, MempoolMinable, ValidTx
<1>11. TopOK'
  BY <1>1 DEF TopOK
<1>12. Still
  <2>1. ~Comparing' /\ Noticed' = Known \ stranded'
    BY <1>1, <1>5 DEF Noticed, Comparing, Running
  <2>2. CASE Comparing
    <3>1. Top.phase = "inserted" /\ stranded' = stranded \cup {Top.block}
      BY <2>2 DEF Comparing, Running, Crash
    <3>2. Noticed = (Known \ {Top.block}) \ stranded
      BY <2>2 DEF Noticed
    <3> QED BY <1>4, <2>1, <3>1, <3>2 DEF Still
  <2>3. CASE ~Comparing
    <3>1. stranded' = stranded
      BY <1>1, <2>3 DEF Comparing, Running, Crash
    <3> QED BY <1>4, <1>5, <2>1, <2>3, <3>1, StillFacts
  <2> QED BY <2>2, <2>3
<1> QED BY <1>6, <1>7, <1>8, <1>9, <1>10, <1>11, <1>12 DEF NetInv

\* The second commit: the statuses follow the tip again.
LEMMA MarkStatusesInv == ASSUME NetInv, MarkStatuses PROVE NetInv' /\ Still
<1>1. stack # << >> /\ Top.phase = "swapped" /\ FrameOK(Top)
  BY DEF MarkStatuses, Running, NetInv, TopOK
<1>2. PICK f : f = [Top EXCEPT !.phase = "readmit"]
  OBVIOUS
<1>3. /\ f \in Frames /\ f.block = Top.block /\ f.phase = "readmit" /\ f.seen = Top.seen
      /\ f.readmit = Top.readmit /\ f.had = Top.had
  BY <1>1, <1>2, TopFacts DEF NetInv, Frames, Phases
<1>4. stack' = SetTop(f)
  BY <1>2 DEF MarkStatuses
<1>5. /\ stack' \in Seq(Frames) /\ stack' # << >> /\ Top' = f /\ Len(stack') = Len(stack)
      /\ \A i \in 1..(Len(stack) - 1) : stack'[i] = stack[i]
      /\ \A i \in 1..Len(stack') : stack'[i].block = stack[i].block
  BY <1>1, <1>3, <1>4, StackStep DEF NetInv
<1>6. Top.block = tip /\ Readmitting(Top)
  BY <1>1 DEF FrameOK
<1>7. graph' = [x \in Known |-> IF x \in Path[tip] THEN "canonical" ELSE "side"]
  BY <1>6 DEF MarkStatuses
<1>8. UNCHANGED <<orphans, tip, mempool, clock, crashes, stranded>> /\ unmarked' = FALSE
  BY DEF MarkStatuses
<1>9. Known' = Known /\ Confirmed' = Confirmed /\ Utxos' = Utxos /\ NextHeight' = NextHeight
  BY <1>7, <1>8 DEF Known, Confirmed, Utxos, NextHeight
<1>10. TypeOK'
  BY <1>5, <1>7, <1>8, <1>9 DEF NetInv, TypeOK
<1>11. AllReplay'
  BY <1>9 DEF NetInv, AllReplay
<1>12. Nested'
  BY <1>5 DEF NetInv, Nested
<1>13. Marked'
  BY <1>7, <1>8, <1>9 DEF Marked
<1>14. MempoolMinable'
  BY <1>8, <1>9 DEF NetInv, MempoolMinable, ValidTx
<1>15. FrameOK(f)'
  <2>1. Readmitting(f)
    BY <1>3, <1>6 DEF Readmitting
  <2>2. Readmitting(f)'
    BY <1>8, <1>9, <2>1, SameReadmitting
  <2> QED BY <1>3, <1>6, <1>8, <2>2 DEF FrameOK
<1>16. TopOK'
  <2>1. FrameOK(Top)' = FrameOK(f)'
    BY <1>5 DEF FrameOK, Readmitting
  <2> QED BY <1>15, <2>1 DEF TopOK
<1>17. Still
  BY <1>1, <1>3, <1>5, <1>8, <1>9, StillFacts DEF Comparing, Running
<1> QED BY <1>10, <1>11, <1>12, <1>13, <1>14, <1>16, <1>17 DEF NetInv

\* One transaction is resubmitted.  What was let in so far spends nothing that it
\* spends, so that it is refused only if it is confirmed or invalid.
LEMMA ReadmitInv ==
  ASSUME NetInv, NEW t \in Tx, Readmit(t) PROVE NetInv' /\ Still
<1>1. stack # << >> /\ Top.phase = "readmit" /\ FrameOK(Top)
  BY DEF Readmit, Running, NetInv, TopOK
<1>2. PICK f : f = [Top EXCEPT !.seen = @ \cup {t}]
  OBVIOUS
<1>3. /\ f \in Frames /\ f.block = Top.block /\ f.phase = "readmit"
      /\ f.seen = Top.seen \cup {t} /\ f.readmit = Top.readmit /\ f.had = Top.had
  BY <1>1, <1>2, TopFacts DEF NetInv, Frames, Phases
<1>4. stack' = SetTop(f)
  BY <1>2 DEF Readmit
<1>5. /\ stack' \in Seq(Frames) /\ stack' # << >> /\ Top' = f /\ Len(stack') = Len(stack)
      /\ \A i \in 1..(Len(stack) - 1) : stack'[i] = stack[i]
      /\ \A i \in 1..Len(stack') : stack'[i].block = stack[i].block
  BY <1>1, <1>3, <1>4, StackStep DEF NetInv
<1>6. Top.block = tip /\ Readmitting(Top)
  BY <1>1 DEF FrameOK
<1>7. t \in Top.readmit /\ t \notin Top.seen
  BY DEF Readmit
<1>8. UNCHANGED <<graph, orphans, tip, clock, crashes, stranded, unmarked>>
  BY DEF Readmit
<1>9. mempool' = IF AdmissibleTx(t) THEN mempool \cup {t} ELSE mempool
  BY DEF Readmit
<1>10. Known' = Known /\ Confirmed' = Confirmed /\ Utxos' = Utxos /\ NextHeight' = NextHeight
  BY <1>8 DEF Known, Confirmed, Utxos, NextHeight
<1>11. MempoolMinable'
  <2>1. CASE AdmissibleTx(t)
    BY <1>8, <1>9, <2>1, AdmitKeepsMinable DEF NetInv
  <2>2. CASE ~AdmissibleTx(t)
    BY <1>9, <1>10, <2>2 DEF NetInv, MempoolMinable, ValidTx
  <2> QED BY <2>1, <2>2
<1>12. TypeOK'
  <2>1. mempool' \subseteq Tx
    BY <1>9 DEF NetInv, TypeOK
  <2> QED BY <1>5, <1>8, <1>10, <2>1 DEF NetInv, TypeOK
<1>13. AllReplay'
  BY <1>10 DEF NetInv, AllReplay
<1>14. Nested'
  BY <1>5 DEF NetInv, Nested
<1>15. Marked'
  <2>1. ~Running("swapped") /\ ~Running("swapped")'
    BY <1>1, <1>3, <1>5 DEF Running
  <2> QED BY <1>8, <1>10, <2>1 DEF NetInv, Marked
<1>16. Readmitting(f)'
  <2>1. /\ Top.seen \subseteq Top.readmit /\ Top.readmit \subseteq Top.had
        /\ Top.had \ Top.readmit \subseteq Confirmed /\ Spends(Top.readmit)
        /\ \A u \in mempool : u \in Top.seen /\ FitsTip(u)
        /\ \A u \in Top.seen \ mempool : FitsTip(u) => \E v \in mempool : Displaces(v, u)
    BY <1>6 DEF Readmitting
  <2>2. t \notin mempool
    BY <1>7, <2>1
  <2>3. AdmissibleTx(t) => FitsTip(t)
    BY DEF AdmissibleTx, FitsTip
  <2>4. ASSUME FitsTip(t), ~AdmissibleTx(t)
        PROVE  \E u \in mempool : Displaces(u, t)
    <3>1. PICK u \in mempool : TxIn[t] \cap Plain(u) # {}
      BY <2>2, <2>4 DEF AdmissibleTx, FitsTip, MempoolSpent
    <3>2. u \in Top.readmit /\ u # t
      BY <2>1, <2>2
    <3>3. Apart(t, u)
      BY <1>7, <2>1, <3>2 DEF Spends
    <3>4. TxIn[u] \cap Plain(t) = {}
      BY <3>1, <3>3 DEF Apart
    <3>5. TxIn[t] \cap TxIn[u] # {}
      BY <3>1 DEF Plain
    <3> QED BY <3>4, <3>5 DEF Displaces
  <2>5. \A u : FitsTip(u)' <=> FitsTip(u)
    BY <1>10 DEF FitsTip, ValidTx
  <2>6. \A u \in mempool' : u \in f.seen /\ FitsTip(u)'
    BY <1>3, <1>9, <2>1, <2>3, <2>5
  <2>7. \A u \in f.seen \ mempool' : FitsTip(u)' => \E v \in mempool' : Displaces(v, u)
    <3>1. SUFFICES ASSUME NEW u \in f.seen \ mempool', FitsTip(u)
                   PROVE  \E v \in mempool : Displaces(v, u)
      BY <1>9, <2>5
    <3>2. CASE u = t
      BY <1>9, <2>4, <3>1, <3>2
    <3>3. CASE u # t
      BY <1>3, <1>9, <2>1, <3>1, <3>3
    <3> QED BY <3>2, <3>3
  <2>8. (\A u \in mempool : u \in f.seen /\ FitsTip(u))'
    BY <2>6
  <2>9. (\A u \in f.seen \ mempool : FitsTip(u) => \E v \in mempool : Displaces(v, u))'
    BY <2>7 DEF Displaces
  <2>10. f.seen \subseteq f.readmit
    BY <1>3, <1>7, <2>1
  <2> QED BY <1>3, <1>10, <2>1, <2>8, <2>9, <2>10 DEF Readmitting
<1>17. TopOK'
  <2>1. FrameOK(f)'
    BY <1>3, <1>6, <1>8, <1>16 DEF FrameOK
  <2>2. FrameOK(Top)' = FrameOK(f)'
    BY <1>5 DEF FrameOK, Readmitting
  <2> QED BY <2>1, <2>2 DEF TopOK
<1>18. Still
  BY <1>1, <1>3, <1>5, <1>8, <1>10, StillFacts DEF Comparing, Running
<1> QED BY <1>11, <1>12, <1>13, <1>14, <1>15, <1>17, <1>18 DEF NetInv

\* The transactions that a reorganization disconnects are confirmed before it, and
\* those that it does not are confirmed after it.
LEMMA DisconnectedFacts ==
  ASSUME TypeOK, AllReplay, NEW b \in Node
  PROVE  /\ Disconnected(b) \subseteq Confirmed
         /\ Confirmed \ Disconnected(b) \subseteq TxsOnPath(b)
<1>1. Confirmed = TxsOnPath(tip)
  BY TipFacts
<1>2. Genesis \in Path[b]
  BY PathFacts
<1> QED BY <1>1, <1>2 DEF Disconnected, TxsOnPath

\* The first commit of a reorganization.
LEMMA ActivateInv ==
  ASSUME NetInv, Activate PROVE NetInv' /\ Known' = Known /\ ~Comparing'
<1>1. stack # << >> /\ Top.phase = "inserted" /\ FrameOK(Top)
  BY DEF Activate, Running, NetInv, TopOK
<1>2. PICK b : b = Top.block
  OBVIOUS
<1>3. PICK r : r = mempool \cup Disconnected(b)
  OBVIOUS
<1>4. PICK h : h = mempool \cup Confirmed
  OBVIOUS
<1>5. PICK f : f = [Top EXCEPT !.phase = "swapped", !.readmit = r, !.had = h]
  OBVIOUS
<1>6. b \in Known /\ b \in Block /\ b \in Node
  BY <1>1, <1>2, TopFacts DEF NetInv, Node
<1>7. Disconnected(b) \subseteq Confirmed /\ Confirmed \ Disconnected(b) \subseteq TxsOnPath(b)
  BY <1>6, DisconnectedFacts DEF NetInv
<1>8. mempool \subseteq Tx /\ Confirmed \subseteq Tx /\ SoundLedger(Utxos, Confirmed, Replay[tip].height)
  BY TipFacts DEF NetInv, TypeOK
<1>9. r \in SUBSET Tx /\ h \in SUBSET Tx
  BY <1>3, <1>4, <1>7, <1>8
<1>10. /\ f \in Frames /\ f.block = b /\ f.phase = "swapped" /\ f.seen = {}
       /\ f.readmit = r /\ f.had = h
  <2>1. Top.seen = {}
    BY <1>1 DEF FrameOK
  <2> QED BY <1>1, <1>2, <1>5, <1>9, <2>1, TopFacts DEF NetInv, Frames, Phases
<1>11. stack' = SetTop(f)
  BY <1>2, <1>3, <1>4, <1>5 DEF Activate
<1>12. /\ stack' \in Seq(Frames) /\ stack' # << >> /\ Top' = f /\ Len(stack') = Len(stack)
       /\ \A i \in 1..(Len(stack) - 1) : stack'[i] = stack[i]
       /\ \A i \in 1..Len(stack') : stack'[i].block = stack[i].block
  BY <1>1, <1>2, <1>10, <1>11, StackStep DEF NetInv
<1>13. tip' = b /\ mempool' = {} /\ UNCHANGED <<graph, orphans, clock, crashes, stranded, unmarked>>
  BY <1>2 DEF Activate
<1>14. Known' = Known
  BY <1>13 DEF Known
<1>15. Confirmed' = TxsOnPath(b)
  BY <1>6, <1>13, ReplayTxs DEF Confirmed
<1>16. TypeOK'
  BY <1>6, <1>12, <1>13, <1>14 DEF NetInv, TypeOK
<1>17. AllReplay'
  BY <1>14 DEF NetInv, AllReplay
<1>18. Nested'
  BY <1>12 DEF NetInv, Nested
<1>19. Marked'
  <2>1. Running("swapped")'
    BY <1>10, <1>12 DEF Running
  <2> QED BY <2>1 DEF Marked
<1>20. MempoolMinable'
  BY <1>13 DEF MempoolMinable
<1>21. Spends(r)
  <2>1. SUFFICES ASSUME NEW t \in r, NEW u \in r, t # u PROVE Apart(t, u)
    BY DEF Spends
  <2>2. ASSUME NEW v \in mempool, NEW w \in Confirmed
        PROVE  TxIn[v] \cap TxIn[w] = {} /\ TxIn[w] \cap TxIn[v] = {}
    <3>1. TxIn[v] \subseteq Utxos
      BY DEF NetInv, MempoolMinable, ValidTx
    <3>2. Utxos \cap TxIn[w] = {}
      BY <1>8 DEF SoundLedger, SpentBy
    <3> QED BY <3>1, <3>2
  <2>3. CASE t \in mempool /\ u \in mempool
    BY <2>1, <2>3 DEF NetInv, MempoolMinable, Apart
  <2>4. TxIn[t] \cap TxIn[u] = {} => Apart(t, u)
    BY DEF Apart, Plain
  <2>5. CASE t \in Confirmed /\ u \in Confirmed
    BY <1>8, <2>1, <2>4, <2>5 DEF SoundLedger
  <2> QED BY <1>3, <1>7, <2>2, <2>3, <2>4, <2>5
<1>22. Readmitting(f)'
  <2>1. f.seen \subseteq f.readmit /\ f.readmit \subseteq f.had /\ Spends(f.readmit)
    BY <1>3, <1>4, <1>7, <1>10, <1>21
  <2>2. f.had \ f.readmit \subseteq Confirmed'
    BY <1>3, <1>4, <1>7, <1>10, <1>15
  <2>3. f.seen = {} /\ mempool' = {}
    BY <1>10, <1>13
  <2> QED BY <2>1, <2>2, <2>3 DEF Readmitting, Spends, Apart
<1>23. TopOK'
  <2>1. FrameOK(f)'
    BY <1>10, <1>13, <1>22 DEF FrameOK
  <2>2. FrameOK(Top)' = FrameOK(f)'
    BY <1>12 DEF FrameOK, Readmitting
  <2> QED BY <2>1, <2>2 DEF TopOK
<1>24. ~Comparing'
  BY <1>10, <1>12 DEF Comparing, Running
<1> QED BY <1>14, <1>16, <1>17, <1>18, <1>19, <1>20, <1>23, <1>24 DEF NetInv

LEMMA InitInv == Init => NetInv
<1> SUFFICES ASSUME Init PROVE NetInv
  OBVIOUS
<1>1. /\ graph = [x \in {Genesis} |-> "canonical"] /\ orphans = << >> /\ tip = Genesis
      /\ mempool = {} /\ clock = 0 /\ stack = << >> /\ crashes = 0 /\ stranded = {}
      /\ unmarked = FALSE
  BY DEF Init
<1>2. Known = {Genesis} /\ Genesis \in Node
  BY <1>1 DEF Known, Node
<1>3. TypeOK
  <2>1. graph \in [{Genesis} -> {"side", "canonical"}]
    BY <1>1
  <2>2. orphans \in Seq(Block) /\ stack \in Seq(Frames) /\ \A i \in 1..Len(stack) : FALSE
    BY <1>1
  <2> QED BY <1>1, <1>2, <2>1, <2>2 DEF TypeOK
<1>4. AllReplay
  BY <1>2, ReplayUnfold DEF AllReplay, GenesisLedger, Ledger
<1>5. Marked
  BY <1>1, <1>2, PathUnfold DEF Marked
<1> QED BY <1>1, <1>3, <1>4, <1>5 DEF NetInv, Nested, MempoolMinable, TopOK

LEMMA NextInv == NetInv /\ [Next]_vars => NetInv'
<1> SUFFICES ASSUME NetInv, [Next]_vars PROVE NetInv'
  OBVIOUS
<1>1. CASE \E t \in Tx : SubmitTransaction(t)
  BY <1>1, SubmitTransactionInv
<1>2. CASE AcceptBlock
  BY <1>2, ReceiveBlockInv, ReceiveOrphanInv, ActivateInv, KeepTipInv, MarkStatusesInv,
     ReadmitInv, ReadmitDoneInv DEF AcceptBlock
<1>3. CASE ProcessOrphans
  BY <1>3, ScanOrphansInv, DeleteOrphanInv, RetryOrphanInv, NextInQueueInv, ReturnInv
     DEF ProcessOrphans
<1>4. CASE Tick
  BY <1>4, TickInv
<1>5. CASE Crash
  BY <1>5, CrashInv
<1>6. CASE UNCHANGED vars
  <2>1. orphans \in Seq(Block) /\ clock \in Nat /\ crashes \in Nat
    BY DEF NetInv, TypeOK
  <2> QED BY <1>6, <2>1, SameTables DEF vars
<1> QED BY <1>1, <1>2, <1>3, <1>4, <1>5, <1>6 DEF Next

LEMMA InvariantHolds == Spec => []NetInv
BY InitInv, NextInv, PTL DEF Spec

\* The statuses of the block graph and the mempool fit the tip, in the middle of a
\* reorganization and after crashes too.
THEOREM TablesFit == Spec => []TablesFollowTip
<1>1. NetInv => TablesFollowTip
  BY DEF NetInv, Marked, TablesFollowTip, StatusMatchesTip, Running
<1> QED BY <1>1, InvariantHolds, PTL

\* A completed reorganization leaves in the mempool exactly the transactions, of
\* those that were pending or confirmed before it, that the new branch leaves
\* unconfirmed and valid, but for one that shares an output with a kept one and
\* spells it otherwise.
THEOREM ReadmitsValid == Spec => []ReadmitsExactlyTheValid
<1>1. NetInv => ReadmitsExactlyTheValid
  <2> DEFINE fit == { t \in Top.had : t \notin Confirmed /\ ValidTx(t, Utxos, NextHeight) }
  <2>1. SUFFICES ASSUME NetInv, Running("readmit"), Top.readmit \subseteq Top.seen
                 PROVE  /\ mempool \subseteq fit
                        /\ \A t \in fit \ mempool : \E u \in mempool : Displaces(u, t)
    BY DEF ReadmitsExactlyTheValid
  <2>2. Readmitting(Top)
    BY <2>1 DEF Running, NetInv, TopOK, FrameOK
  <2>3. \A t \in fit : t \in Top.seen /\ FitsTip(t)
    BY <2>1, <2>2 DEF Readmitting, FitsTip
  <2>4. \A t \in mempool : t \in fit
    BY <2>2 DEF Readmitting, FitsTip
  <2> HIDE DEF fit
  <2> QED BY <2>2, <2>3, <2>4 DEF Readmitting
<1> QED BY <1>1, InvariantHolds, PTL

-----------------------------------------------------------------------------
(* The refinement of HeaviestChain.                                        *)

LEMMA ChoiceInit == Init => Choice!Init
<1>1. SUFFICES ASSUME Init PROVE Noticed = {Genesis} /\ tip = Genesis
  BY DEF Choice!Init
<1>2. Known = {Genesis} /\ stranded = {} /\ stack = << >>
  BY <1>1 DEF Init, Known
<1> QED BY <1>1, <1>2 DEF Init, Noticed, Comparing, Running

\* A comparison of work takes notice of the block that was compared.
LEMMA ComparedIsNoticed ==
  ASSUME NetInv, Comparing, Known' = Known, ~Comparing', stranded' = stranded,
         tip' = IF HeavierThanTip(Top.block) THEN Top.block ELSE tip
  PROVE  Choice!Next
<1>1. PICK b : b = Top.block
  OBVIOUS
<1>2. stack # << >> /\ Top.phase = "inserted"
  BY DEF Comparing, Running
<1>3. b \in Known /\ b \in Node /\ tip \in Node /\ b \notin stranded
  BY <1>1, <1>2, TopFacts, TipFacts DEF NetInv, Node, TopOK, FrameOK
<1>4. Noticed = (Known \ {b}) \ stranded /\ Noticed' = Known \ stranded
  BY <1>1 DEF Noticed
<1>5. b \notin Noticed /\ Noticed' = Noticed \cup {b}
  BY <1>3, <1>4
<1>6. Replay[b].ok
  BY <1>3 DEF NetInv, AllReplay
<1>7. tip' = IF Replay[b].work > Replay[tip].work THEN b ELSE tip
  BY <1>1 DEF HeavierThanTip
<1>8. /\ ValidBranch[b] = Replay[b].ok /\ BranchWork[b] = Replay[b].work
      /\ BranchWork[tip] = Replay[tip].work
  BY <1>3 DEF ValidBranch, BranchWork
<1>9. Choice!Notice(b)
  BY <1>3, <1>5, <1>6, <1>7, <1>8 DEF Choice!Notice
<1> QED BY <1>3, <1>9 DEF Choice!Next

LEMMA ChoiceStep ==
  NetInv /\ [Next]_vars => [Choice!Next]_<<Noticed, tip>>
<1> SUFFICES ASSUME NetInv, [Next]_vars PROVE Choice!Next \/ Still
  BY DEF Still
<1>1. CASE \E t \in Tx : SubmitTransaction(t)
  BY <1>1, SubmitTransactionInv
<1>2. CASE AcceptBlock
  <2>1. CASE Activate
    <3>1. Comparing /\ HeavierThanTip(Top.block) /\ tip' = Top.block /\ stranded' = stranded
      BY <2>1 DEF Activate, Comparing
    <3> QED BY <2>1, <3>1, ActivateInv, ComparedIsNoticed
  <2>2. CASE KeepTip
    <3>1. Comparing /\ ~HeavierThanTip(Top.block) /\ tip' = tip /\ stranded' = stranded
      BY <2>2 DEF KeepTip, Comparing
    <3> QED BY <2>2, <3>1, KeepTipInv, ComparedIsNoticed
  <2> QED
    BY <1>2, <2>1, <2>2, ReceiveBlockInv, ReceiveOrphanInv, MarkStatusesInv, ReadmitInv,
       ReadmitDoneInv DEF AcceptBlock
<1>3. CASE ProcessOrphans
  BY <1>3, ScanOrphansInv, DeleteOrphanInv, RetryOrphanInv, NextInQueueInv, ReturnInv
     DEF ProcessOrphans
<1>4. CASE Tick
  BY <1>4, TickInv
<1>5. CASE Crash
  BY <1>5, CrashInv
<1>6. CASE UNCHANGED vars
  <2>1. orphans \in Seq(Block) /\ clock \in Nat /\ crashes \in Nat
    BY DEF NetInv, TypeOK
  <2> QED BY <1>6, <2>1, SameTables DEF vars
<1> QED BY <1>1, <1>2, <1>3, <1>4, <1>5, <1>6 DEF Next

\* The graph of branches, the orphan pool, the separate commits and the crashes
\* implement the plain fork choice.
THEOREM ForkChoiceImplemented == Spec => ImplementsHeaviestChain
BY ChoiceInit, ChoiceStep, InvariantHolds, PTL
   DEF Spec, ImplementsHeaviestChain, Choice!Spec

-----------------------------------------------------------------------------
(* Orphans that wait for a known parent.                                   *)

Crowded(p) == Cardinality(Children(p)) > OrphanBatch

\* The running call with locals f will come to the orphan o: it has still to look
\* for the orphans of its own block, or the parent of o is in its queue, or o
\* among its rows.
ComesTo(f, o) ==
  \/ f.block = Parent(o) /\ f.phase \notin {"orphans", "retry"}
  \/ Parent(o) \in ToSet(f.queue)
  \/ o \in ToSet(f.rows)

WaitsIn(s, o) == \E i \in 1..Len(s) : ComesTo(s[i], o)

ListsOK(f) == f.phase \notin {"orphans", "retry"} => f.rows = << >> /\ f.queue = << >>

\* An orphan is in the pool once, the one that is retried is not in it, and as long
\* as no handler died some call comes to each orphan whose parent is known.
OrphanInv ==
  /\ Unique(orphans)
  /\ \A i \in 1..Len(stack) : ListsOK(stack[i])
  /\ Running("retry") => Head(Top.rows) \notin ToSet(orphans)
  /\ crashes = 0 =>
       \A o \in ToSet(orphans) :
         Parent(o) \in Known => Crowded(Parent(o)) \/ WaitsIn(stack, o)

\* Different members of a set are no more than the set has.
LEMMA UniqueLength ==
  ASSUME NEW C, IsFiniteSet(C), NEW s \in Seq(C), Unique(s)
  PROVE  Len(s) <= Cardinality(C)
<1>1. Len(s) \in Nat /\ s \in [1..Len(s) -> C]
  OBVIOUS
<1>2. s \in Injection(1..Len(s), C)
  BY <1>1 DEF Injection, IsInjective, Unique
<1>3. Cardinality(1..Len(s)) = Len(s)
  <2>1. Len(s) \in Int
    BY <1>1
  <2>2. Cardinality(1..Len(s)) = IF 1 > Len(s) THEN 0 ELSE Len(s) - 1 + 1
    BY ONLY <2>1, 1 \in Int, FS_Interval
  <2> QED BY <2>1, <2>2
<1> QED BY <1>2, <1>3, FS_Injection

LEMMA FiniteChildren ==
  ASSUME NEW p
  PROVE  IsFiniteSet(Children(p)) /\ Cardinality(Children(p)) \in Nat
<1>1. Children(p) \subseteq Block /\ IsFiniteSet(Block)
  BY NetworkAssumption DEF Children
<1> QED BY <1>1, FS_Subset, FS_CardinalityType

\* The query for the orphans of a parent misses none, unless the parent has more
\* children than the query returns.
LEMMA AllSelected ==
  ASSUME orphans \in Seq(Block), Unique(orphans), NEW p, ~Crowded(p),
         NEW o \in ToSet(orphans), Parent(o) = p
  PROVE  o \in ToSet(OrphansOf(p))
<1>1. PICK rows : rows = Rows(orphans, Children(p))
  OBVIOUS
<1>2. rows \in Seq(Block) /\ ToSet(rows) = ToSet(orphans) \cap Children(p) /\ Unique(rows)
  BY <1>1, RowsFacts
<1>3. rows \in Seq(Children(p))
  <2>1. Len(rows) \in Nat /\ \A i \in 1..Len(rows) : rows[i] \in ToSet(rows)
    BY <1>2 DEF ToSet
  <2>2. \A i \in 1..Len(rows) : rows[i] \in Children(p)
    BY <1>2, <2>1
  <2>3. rows = [i \in 1..Len(rows) |-> rows[i]]
    BY <1>2
  <2> QED BY <2>1, <2>2, <2>3
<1>4. Len(rows) <= Cardinality(Children(p))
  BY <1>2, <1>3, FiniteChildren, UniqueLength
<1>5. Len(rows) \in Nat /\ OrphanBatch \in Nat /\ Cardinality(Children(p)) \in Nat
  BY <1>2, FiniteChildren, NetworkAssumption
<1>6. Len(rows) <= OrphanBatch
  BY <1>4, <1>5 DEF Crowded
<1>7. PICK k \in Nat : /\ OrphansOf(p) = SubSeq(rows, 1, k)
                       /\ k <= Len(rows) /\ k <= OrphanBatch
                       /\ k = Len(rows) \/ k = OrphanBatch
  BY <1>1, PoolFacts
<1>8. k = Len(rows)
  BY <1>5, <1>6, <1>7
<1>9. \A i \in 1..Len(rows) : SubSeq(rows, 1, k)[i] = rows[i]
  BY <1>2, <1>8
<1>10. Len(SubSeq(rows, 1, k)) = Len(rows) /\ SubSeq(rows, 1, k) \in Seq(Block)
  BY <1>2, <1>8
<1>11. o \in Block /\ o \in Children(p)
  BY DEF Children, ToSet
<1>12. PICK i \in 1..Len(rows) : rows[i] = o
  BY <1>2, <1>11 DEF ToSet
<1> QED BY <1>7, <1>9, <1>10, <1>12 DEF ToSet

\* A call that comes to an orphan does so after a step of the innermost call, if
\* that call does.
LEMMA StillWaits ==
  ASSUME NEW s \in Seq(Frames), s # << >>, NEW f \in Frames,
         NEW u, u = [s EXCEPT ![Len(s)] = f],
         NEW o, WaitsIn(s, o), ComesTo(s[Len(s)], o) => ComesTo(f, o)
  PROVE  WaitsIn(u, o)
<1>1. /\ u \in Seq(Frames) /\ Len(u) = Len(s) /\ u # << >> /\ u[Len(u)] = f
      /\ \A i \in 1..(Len(s) - 1) : u[i] = s[i]
  BY SetTopFacts
<1>2. PICK i \in 1..Len(s) : ComesTo(s[i], o)
  BY DEF WaitsIn
<1>3. i \in 1..(Len(s) - 1) \/ i = Len(s)
  OBVIOUS
<1>4. CASE i \in 1..(Len(s) - 1)
  <2>1. u[i] = s[i] /\ i \in 1..Len(u)
    BY <1>1, <1>4
  <2> QED BY <1>2, <2>1 DEF WaitsIn
<1>5. CASE i = Len(s)
  <2>1. ComesTo(f, o)
    BY <1>2, <1>5, Zenon
  <2>2. i = Len(u) /\ i \in 1..Len(u)
    BY ONLY <1>1, <1>5, i \in 1..Len(s)
  <2>3. u[i] = f
    BY <1>1, <2>2, Zenon
  <2> QED BY <2>1, <2>2, <2>3, Zenon DEF WaitsIn
<1> QED BY <1>3, <1>4, <1>5

\* A step of the innermost call.
LEMMA OrphanTopStep ==
  ASSUME NetInv, OrphanInv, stack # << >>, NEW f \in Frames, stack' = SetTop(f),
         Known' = Known, crashes' = crashes,
         Unique(orphans'), ToSet(orphans') \subseteq ToSet(orphans),
         ListsOK(f), f.phase = "retry" => Head(f.rows) \notin ToSet(orphans'),
         \A o \in ToSet(orphans') : ComesTo(Top, o) => Crowded(Parent(o)) \/ ComesTo(f, o)
  PROVE  OrphanInv'
<1>1. PICK s : s = stack
  OBVIOUS
<1>2. PICK u : u = stack'
  OBVIOUS
<1>3. s \in Seq(Frames) /\ s # << >> /\ Len(s) \in Nat /\ s[Len(s)] = Top
  BY <1>1, TopFacts DEF NetInv, Top
<1>4. u = [s EXCEPT ![Len(s)] = f]
  BY <1>1, <1>2 DEF SetTop
<1>5. /\ u \in Seq(Frames) /\ Len(u) = Len(s) /\ u # << >> /\ u[Len(u)] = f
      /\ \A i \in 1..(Len(s) - 1) : u[i] = s[i]
  BY <1>3, <1>4, SetTopFacts
<1>6. ASSUME NEW i \in 1..Len(u) PROVE ListsOK(u[i])
  <2>1. i \in 1..(Len(s) - 1) \/ i = Len(u)
    BY <1>3, <1>5
  <2>2. CASE i = Len(u)
    <3>1. u[i] = f
      BY <1>5, <2>2, Zenon
    <3> QED BY <3>1, Zenon
  <2>3. CASE i \in 1..(Len(s) - 1)
    <3>1. u[i] = s[i] /\ i \in 1..Len(s)
      BY <1>3, <1>5, <2>3
    <3>2. ListsOK(s[i])
      BY <1>1, <3>1 DEF OrphanInv
    <3> QED BY <3>1, <3>2, Zenon
  <2> QED BY <2>1, <2>2, <2>3
<1>7. Running("retry")' => Head(Top'.rows) \notin ToSet(orphans')
  <2>1. Top' = f
    BY <1>2, <1>5 DEF Top
  <2> QED BY <2>1 DEF Running
<1>8. ASSUME crashes = 0, NEW o \in ToSet(orphans'), Parent(o) \in Known
      PROVE  Crowded(Parent(o)) \/ WaitsIn(u, o)
  <2>1. Crowded(Parent(o)) \/ WaitsIn(s, o)
    BY <1>1, <1>8 DEF OrphanInv
  <2>2. SUFFICES ASSUME ~Crowded(Parent(o)) PROVE WaitsIn(u, o)
    OBVIOUS
  <2>3. WaitsIn(s, o)
    BY <2>1, <2>2
  <2>4. ComesTo(s[Len(s)], o) => ComesTo(f, o)
    BY <1>3, <1>8, <2>2, Zenon
  <2> QED BY <1>3, <1>4, <2>3, <2>4, StillWaits, Zenon
<1> QED BY <1>2, <1>6, <1>7, <1>8 DEF OrphanInv

\* A step before the call looks for orphans.
LEMMA OrphanEarlyStep ==
  ASSUME NetInv, OrphanInv, stack # << >>, Top.phase \notin {"orphans", "retry"},
         NEW f \in Frames, stack' = SetTop(f), f.phase \notin {"orphans", "retry"},
         f.block = Top.block, f.rows = Top.rows, f.queue = Top.queue,
         Known' = Known, UNCHANGED <<orphans, crashes>>
  PROVE  OrphanInv'
<1>1. Unique(orphans') /\ ToSet(orphans') \subseteq ToSet(orphans)
  BY DEF OrphanInv
<1>2. ListsOK(Top)
  <2>1. Len(stack) \in 1..Len(stack)
    BY TopFacts DEF NetInv
  <2> QED BY <2>1 DEF OrphanInv, Top
<1>3. ListsOK(f)
  BY <1>2 DEF ListsOK
<1>4. \A o : ComesTo(Top, o) => ComesTo(f, o)
  BY DEF ComesTo
<1> QED BY <1>1, <1>3, <1>4, OrphanTopStep

LEMMA OrphanAccept ==
  ASSUME NetInv, OrphanInv,
         Activate \/ KeepTip \/ MarkStatuses \/ (\E t \in Tx : Readmit(t)) \/ ReadmitDone
  PROVE  OrphanInv'
<1>1. CASE Activate
  <2>1. stack # << >> /\ Top.phase = "inserted"
    BY <1>1 DEF Activate, Running
  <2>2. PICK f : f = [Top EXCEPT !.phase = "swapped",
                                 !.readmit = mempool \cup Disconnected(Top.block),
                                 !.had = mempool \cup Confirmed]
    OBVIOUS
  <2>3. Top.block \in Node /\ Confirmed \in SUBSET Tx /\ mempool \in SUBSET Tx
    BY <2>1, TopFacts, TipFacts DEF NetInv, TypeOK, Node
  <2>4. Disconnected(Top.block) \in SUBSET Tx
    BY <2>3, DisconnectedFacts DEF NetInv
  <2>5. /\ f \in Frames /\ f.block = Top.block /\ f.phase = "swapped"
        /\ f.rows = Top.rows /\ f.queue = Top.queue
    BY <2>1, <2>2, <2>3, <2>4, TopFacts DEF NetInv, Frames, Phases
  <2>6. stack' = SetTop(f)
    BY <1>1, <2>2 DEF Activate
  <2>7. Known' = Known /\ UNCHANGED <<orphans, crashes>>
    BY <1>1 DEF Activate, Known
  <2> QED BY <2>1, <2>5, <2>6, <2>7, OrphanEarlyStep
<1>2. CASE KeepTip
  <2>1. stack # << >> /\ Top.phase = "inserted"
    BY <1>2 DEF KeepTip, Running
  <2>2. PICK f : f = [Top EXCEPT !.phase = "scan"]
    OBVIOUS
  <2>3. /\ f \in Frames /\ f.block = Top.block /\ f.phase = "scan"
        /\ f.rows = Top.rows /\ f.queue = Top.queue
    BY <2>1, <2>2, TopFacts DEF NetInv, Frames, Phases
  <2>4. stack' = SetTop(f) /\ Known' = Known /\ UNCHANGED <<orphans, crashes>>
    BY <1>2, <2>2 DEF KeepTip, Known
  <2> QED BY <2>1, <2>3, <2>4, OrphanEarlyStep
<1>3. CASE MarkStatuses
  <2>1. stack # << >> /\ Top.phase = "swapped"
    BY <1>3 DEF MarkStatuses, Running
  <2>2. PICK f : f = [Top EXCEPT !.phase = "readmit"]
    OBVIOUS
  <2>3. /\ f \in Frames /\ f.block = Top.block /\ f.phase = "readmit"
        /\ f.rows = Top.rows /\ f.queue = Top.queue
    BY <2>1, <2>2, TopFacts DEF NetInv, Frames, Phases
  <2>4. stack' = SetTop(f) /\ Known' = Known /\ UNCHANGED <<orphans, crashes>>
    BY <1>3, <2>2 DEF MarkStatuses, Known
  <2> QED BY <2>1, <2>3, <2>4, OrphanEarlyStep
<1>4. CASE \E t \in Tx : Readmit(t)
  <2>1. PICK t \in Tx : Readmit(t)
    BY <1>4
  <2>2. stack # << >> /\ Top.phase = "readmit"
    BY <2>1 DEF Readmit, Running
  <2>3. PICK f : f = [Top EXCEPT !.seen = @ \cup {t}]
    OBVIOUS
  <2>4. /\ f \in Frames /\ f.block = Top.block /\ f.phase = "readmit"
        /\ f.rows = Top.rows /\ f.queue = Top.queue
    BY <2>2, <2>3, TopFacts DEF NetInv, Frames, Phases
  <2>5. stack' = SetTop(f) /\ Known' = Known /\ UNCHANGED <<orphans, crashes>>
    BY <2>1, <2>3 DEF Readmit, Known
  <2> QED BY <2>2, <2>4, <2>5, OrphanEarlyStep
<1>5. CASE ReadmitDone
  <2>1. stack # << >> /\ Top.phase = "readmit"
    BY <1>5 DEF ReadmitDone, Running
  <2>2. PICK f : f = [Top EXCEPT !.phase = "scan"]
    OBVIOUS
  <2>3. /\ f \in Frames /\ f.block = Top.block /\ f.phase = "scan"
        /\ f.rows = Top.rows /\ f.queue = Top.queue
    BY <2>1, <2>2, TopFacts DEF NetInv, Frames, Phases
  <2>4. stack' = SetTop(f) /\ Known' = Known /\ UNCHANGED <<orphans, crashes>>
    BY <1>5, <2>2 DEF ReadmitDone, Known
  <2> QED BY <2>1, <2>3, <2>4, OrphanEarlyStep
<1> QED BY <1>1, <1>2, <1>3, <1>4, <1>5

\* The members of a queue are its head and those of its tail.
LEMMA HeadOrTail ==
  ASSUME NEW T, NEW s \in Seq(T), s # << >>, NEW q, q = Tail(s)
  PROVE  /\ q \in Seq(T) /\ Head(s) \in T
         /\ \A x : x \in ToSet(s) <=> x = Head(s) \/ x \in ToSet(q)
<1>1. /\ Len(s) \in Nat /\ Len(s) >= 1 /\ q \in Seq(T) /\ Len(q) = Len(s) - 1
      /\ \A i \in 1..Len(q) : q[i] = s[i + 1]
  OBVIOUS
<1>2. Head(s) = s[1] /\ 1 \in 1..Len(s) /\ s[1] \in T
  BY <1>1
<1>3. /\ \A i \in 1..Len(q) : i + 1 \in 1..Len(s)
      /\ \A i \in 1..Len(s) : i = 1 \/ (i - 1 \in 1..Len(q) /\ (i - 1) + 1 = i)
  BY <1>1
<1>4. DOMAIN s = 1..Len(s) /\ DOMAIN q = 1..Len(q)
  BY <1>1
<1>5. ASSUME NEW x, x \in ToSet(s) PROVE x = Head(s) \/ x \in ToSet(q)
  <2>1. PICK i \in 1..Len(s) : s[i] = x
    BY <1>4, <1>5 DEF ToSet
  <2>2. CASE i = 1
    BY <1>2, <2>1, <2>2
  <2>3. CASE i # 1
    <3>1. i - 1 \in 1..Len(q) /\ q[i - 1] = x
      BY <1>1, <1>3, <2>1, <2>3
    <3> QED BY <1>4, <3>1 DEF ToSet
  <2> QED BY <2>2, <2>3
<1>6. ASSUME NEW x, x = Head(s) \/ x \in ToSet(q) PROVE x \in ToSet(s)
  <2>1. CASE x = Head(s)
    BY <1>2, <1>4, <2>1 DEF ToSet
  <2>2. CASE x \in ToSet(q)
    <3>1. PICK i \in 1..Len(q) : q[i] = x
      BY <1>4, <2>2 DEF ToSet
    <3>2. i + 1 \in 1..Len(s) /\ s[i + 1] = x
      BY <1>1, <1>3, <3>1
    <3> QED BY <1>4, <3>2 DEF ToSet
  <2> QED BY <1>6, <2>1, <2>2
<1> QED BY <1>1, <1>2, <1>5, <1>6

\* The lists of the innermost call.
LEMMA TopLists ==
  ASSUME NetInv, OrphanInv, stack # << >> PROVE ListsOK(Top)
<1>1. Len(stack) \in 1..Len(stack)
  BY TopFacts DEF NetInv
<1> QED BY <1>1 DEF OrphanInv, Top

LEMMA OrphanScan == ASSUME NetInv, OrphanInv, ScanOrphans PROVE OrphanInv'
<1>1. stack # << >> /\ Top.phase = "scan"
  BY DEF ScanOrphans, Running
<1>2. PICK r : r = OrphansOf(Top.block)
  OBVIOUS
<1>3. PICK f : f = [Top EXCEPT !.phase = "orphans", !.rows = r]
  OBVIOUS
<1>4. orphans \in Seq(Block) /\ Unique(orphans)
  BY DEF NetInv, TypeOK, OrphanInv
<1>5. r \in Seq(Block)
  BY <1>2, <1>4, PoolFacts
<1>6. f \in Frames /\ f.phase = "orphans" /\ f.rows = r
  BY <1>1, <1>3, <1>5, TopFacts DEF NetInv, Frames, Phases
<1>7. stack' = SetTop(f) /\ Known' = Known /\ UNCHANGED <<orphans, crashes>>
  BY <1>2, <1>3 DEF ScanOrphans, Known
<1>8. Top.rows = << >> /\ Top.queue = << >>
  BY <1>1, TopLists DEF ListsOK
<1>9. ASSUME NEW o \in ToSet(orphans), ComesTo(Top, o)
      PROVE  Crowded(Parent(o)) \/ ComesTo(f, o)
  <2>1. ToSet(<< >>) = {}
    BY DEF ToSet
  <2>2. Top.block = Parent(o)
    BY <1>8, <1>9, <2>1 DEF ComesTo
  <2>3. SUFFICES ASSUME ~Crowded(Top.block) PROVE o \in ToSet(f.rows)
    BY <2>2 DEF ComesTo
  <2> QED BY <1>2, <1>4, <1>6, <2>2, <2>3, AllSelected
<1>10. Unique(orphans') /\ ToSet(orphans') \subseteq ToSet(orphans) /\ ListsOK(f)
  BY <1>4, <1>6, <1>7 DEF ListsOK
<1> QED BY <1>1, <1>6, <1>7, <1>9, <1>10, OrphanTopStep

LEMMA OrphanNextInQueue == ASSUME NetInv, OrphanInv, NextInQueue PROVE OrphanInv'
<1>1. stack # << >> /\ Top.phase = "orphans" /\ Top.rows = << >> /\ Top.queue # << >>
  BY DEF NextInQueue, Running
<1>2. PICK r : r = OrphansOf(Head(Top.queue))
  OBVIOUS
<1>3. PICK q : q = Tail(Top.queue)
  OBVIOUS
<1>4. PICK f : f = [Top EXCEPT !.rows = r, !.queue = q]
  OBVIOUS
<1>5. orphans \in Seq(Block) /\ Unique(orphans)
  BY DEF NetInv, TypeOK, OrphanInv
<1>6. r \in Seq(Block)
  BY <1>2, <1>5, PoolFacts
<1>7. Top.queue \in Seq(Block) /\ q \in Seq(Block)
  BY <1>1, <1>3, TopFacts DEF NetInv
<1>8. f \in Frames /\ f.phase = "orphans" /\ f.rows = r /\ f.queue = q /\ f.block = Top.block
  BY <1>1, <1>4, <1>6, <1>7, TopFacts DEF NetInv, Frames, Phases
<1>9. stack' = SetTop(f) /\ Known' = Known /\ UNCHANGED <<orphans, crashes>>
  BY <1>2, <1>3, <1>4 DEF NextInQueue, Known
<1>10. ASSUME NEW o \in ToSet(orphans), ComesTo(Top, o)
       PROVE  Crowded(Parent(o)) \/ ComesTo(f, o)
  <2>1. ToSet(<< >>) = {}
    BY DEF ToSet
  <2>2. Parent(o) \in ToSet(Top.queue)
    BY <1>1, <1>10, <2>1 DEF ComesTo
  <2>3. Parent(o) = Head(Top.queue) \/ Parent(o) \in ToSet(q)
    BY <1>1, <1>3, <1>7, <2>2, HeadOrTail, Zenon
  <2>4. CASE Parent(o) = Head(Top.queue)
    <3>1. SUFFICES ASSUME ~Crowded(Parent(o)) PROVE o \in ToSet(f.rows)
      BY DEF ComesTo
    <3> QED BY <1>2, <1>5, <1>8, <2>4, <3>1, AllSelected
  <2>5. CASE Parent(o) \in ToSet(q)
    BY <1>8, <2>5 DEF ComesTo
  <2> QED BY <2>3, <2>4, <2>5
<1>11. Unique(orphans') /\ ToSet(orphans') \subseteq ToSet(orphans) /\ ListsOK(f)
  BY <1>5, <1>8, <1>9 DEF ListsOK
<1> QED BY <1>1, <1>8, <1>9, <1>10, <1>11, OrphanTopStep

LEMMA OrphanDelete == ASSUME NetInv, OrphanInv, DeleteOrphan PROVE OrphanInv'
<1>1. stack # << >> /\ Top.phase = "orphans" /\ Top.rows # << >>
  BY DEF DeleteOrphan, Running
<1>2. PICK f : f = [Top EXCEPT !.phase = "retry"]
  OBVIOUS
<1>3. /\ f \in Frames /\ f.block = Top.block /\ f.phase = "retry" /\ f.rows = Top.rows
      /\ f.queue = Top.queue
  BY <1>1, <1>2, TopFacts DEF NetInv, Frames, Phases
<1>4. orphans \in Seq(Block) /\ Unique(orphans)
  BY DEF NetInv, TypeOK, OrphanInv
<1>5. stack' = SetTop(f) /\ Known' = Known /\ crashes' = crashes
  BY <1>2 DEF DeleteOrphan, Known
<1>6. /\ Unique(orphans') /\ ToSet(orphans') \subseteq ToSet(orphans)
      /\ Head(f.rows) \notin ToSet(orphans')
  <2>1. orphans' = Rows(orphans, ToSet(orphans) \ {Head(Top.rows)})
    BY DEF DeleteOrphan, Without
  <2> QED BY <1>3, <1>4, <2>1, RowsFacts
<1>7. \A o : ComesTo(Top, o) => ComesTo(f, o)
  BY <1>1, <1>3 DEF ComesTo
<1>8. ListsOK(f)
  BY <1>3 DEF ListsOK
<1> QED BY <1>1, <1>3, <1>5, <1>6, <1>7, <1>8, OrphanTopStep

\* The innermost call has nothing left to do, so that it comes to no orphan.
LEMMA OrphanReturn == ASSUME NetInv, OrphanInv, Return PROVE OrphanInv'
<1>1. /\ stack # << >> /\ Top.phase = "orphans" /\ Top.rows = << >> /\ Top.queue = << >>
      /\ stack' = SubSeq(stack, 1, Len(stack) - 1)
      /\ UNCHANGED <<graph, orphans, crashes>>
  BY DEF Return, Running
<1>2. PICK s : s = stack
  OBVIOUS
<1>3. PICK u : u = stack'
  OBVIOUS
<1>4. s \in Seq(Frames) /\ Len(s) \in Nat /\ Len(s) >= 1 /\ s[Len(s)] = Top
  BY <1>1, <1>2, TopFacts DEF NetInv, Top
<1>5. u = SubSeq(s, 1, Len(s) - 1)
  BY <1>1, <1>2, <1>3
<1>6. /\ u \in Seq(Frames) /\ Len(u) = Len(s) - 1
      /\ \A i \in 1..Len(u) : u[i] = s[i] /\ i \in 1..Len(s)
  BY ONLY <1>4, <1>5, WithoutLast, ZenonT(60)
<1>7. \A i \in 1..Len(u) : ListsOK(u[i])
  <2>1. \A i \in 1..Len(s) : ListsOK(s[i])
    BY <1>2 DEF OrphanInv
  <2> QED BY <1>6, <2>1, Zenon
<1>8. ASSUME u # << >> PROVE Top'.phase = "orphans"
  <2>1. Len(u) \in 1..Len(u) /\ Len(u) \in 1..(Len(s) - 1)
    BY <1>4, <1>6, <1>8
  <2>2. s[Len(u)].phase = "orphans"
    BY <1>2, <2>1 DEF NetInv, Nested
  <2>3. Top' = u[Len(u)]
    BY <1>3 DEF Top
  <2> QED BY <1>6, <2>1, <2>2, <2>3
<1>9. ~Running("retry")'
  BY <1>3, <1>8 DEF Running
<1>10. ASSUME NEW o, WaitsIn(s, o) PROVE WaitsIn(u, o)
  <2>1. PICK i \in 1..Len(s) : ComesTo(s[i], o)
    BY <1>10 DEF WaitsIn
  <2>2. ToSet(<< >>) = {}
    BY DEF ToSet
  <2>3. ~ComesTo(Top, o)
    BY <1>1, <2>2 DEF ComesTo
  <2>4. i # Len(s)
    BY <1>4, <2>1, <2>3, Zenon
  <2>5. i \in 1..Len(u)
    BY <1>4, <1>6, <2>4
  <2> QED BY <1>6, <2>1, <2>5, Zenon DEF WaitsIn
<1>11. Known' = Known
  BY <1>1 DEF Known
<1>12. crashes' = 0 =>
         \A o \in ToSet(orphans') : Parent(o) \in Known' => Crowded(Parent(o)) \/ WaitsIn(u, o)
  <2>1. crashes = 0 =>
         \A o \in ToSet(orphans) : Parent(o) \in Known => Crowded(Parent(o)) \/ WaitsIn(s, o)
    BY <1>2 DEF OrphanInv
  <2> QED BY <1>1, <1>10, <1>11, <2>1
<1>13. Unique(orphans')
  BY <1>1 DEF OrphanInv
<1> QED BY <1>3, <1>7, <1>9, <1>12, <1>13 DEF OrphanInv

\* The members of a longer sequence.
LEMMA AppendMembers ==
  ASSUME NEW s \in Seq(Block), NEW x \in Block, NEW u, u = Append(s, x)
  PROVE  u \in Seq(Block) /\ ToSet(u) = ToSet(s) \cup {x}
<1>1. /\ u \in Seq(Block) /\ Len(s) \in Nat /\ Len(u) = Len(s) + 1 /\ u[Len(s) + 1] = x
      /\ \A i \in 1..Len(s) : u[i] = s[i]
  OBVIOUS
<1>2. DOMAIN s = 1..Len(s) /\ DOMAIN u = 1..Len(u)
  BY <1>1
<1>3. /\ \A i \in 1..Len(s) : i \in 1..Len(u)
      /\ \A i \in 1..Len(u) : i \in 1..Len(s) \/ i = Len(s) + 1
      /\ Len(s) + 1 \in 1..Len(u)
  BY <1>1
<1> QED BY <1>1, <1>2, <1>3 DEF ToSet

\* A call that starts leaves the other calls where they are.
LEMMA WaitsBelow ==
  ASSUME NEW s \in Seq(Frames), NEW g \in Frames, NEW o, NEW u, u = Append(s, g)
  PROVE  /\ WaitsIn(s, o) => WaitsIn(u, o)
         /\ ComesTo(g, o) => WaitsIn(u, o)
         /\ u \in Seq(Frames) /\ u # << >> /\ u[Len(u)] = g
         /\ (\A i \in 1..Len(s) : ListsOK(s[i])) /\ ListsOK(g) => \A i \in 1..Len(u) : ListsOK(u[i])
<1>1. /\ u \in Seq(Frames) /\ Len(s) \in Nat /\ Len(u) = Len(s) + 1 /\ u[Len(s) + 1] = g
      /\ u # << >> /\ \A i \in 1..Len(s) : u[i] = s[i]
  OBVIOUS
<1>2. /\ \A i \in 1..Len(s) : i \in 1..Len(u)
      /\ \A i \in 1..Len(u) : i \in 1..Len(s) \/ i = Len(u)
      /\ Len(u) \in 1..Len(u) /\ u[Len(u)] = g
  BY <1>1
<1>3. WaitsIn(s, o) => WaitsIn(u, o)
  BY <1>1, <1>2, Zenon DEF WaitsIn
<1>4. ComesTo(g, o) => WaitsIn(u, o)
  BY <1>2, Zenon DEF WaitsIn
<1>5. ASSUME \A i \in 1..Len(s) : ListsOK(s[i]), ListsOK(g), NEW i \in 1..Len(u)
      PROVE  ListsOK(u[i])
  <2>1. CASE i \in 1..Len(s)
    BY <1>1, <1>5, <2>1, Zenon
  <2>2. CASE i = Len(u)
    BY <1>2, <1>5, <2>2, Zenon
  <2> QED BY <1>2, <2>1, <2>2
<1> QED BY <1>1, <1>2, <1>3, <1>4, <1>5

\* What the new call and the one that waits for it have to show.
LEMMA OrphanInsert ==
  ASSUME NEW b \in Block, Insert(b), UNCHANGED crashes,
         NEW s \in Seq(Frames), stack' = Append(s, Frame(b)),
         \A i \in 1..Len(s) : ListsOK(s[i]),
         Unique(orphans'),
         crashes = 0 =>
           \A o \in ToSet(orphans') : Parent(o) \in Known => Crowded(Parent(o)) \/ WaitsIn(s, o)
  PROVE  OrphanInv'
<1>1. PICK g : g = Frame(b)
  OBVIOUS
<1>2. PICK u : u = stack'
  OBVIOUS
<1>3. g \in Frames /\ g.block = b /\ g.phase = "inserted" /\ g.rows = << >> /\ g.queue = << >>
  BY <1>1, FrameFacts
<1>4. u = Append(s, g)
  BY <1>1, <1>2
<1>5. ListsOK(g)
  BY <1>3 DEF ListsOK
<1>6. /\ \A o : WaitsIn(s, o) => WaitsIn(u, o)
      /\ \A o : ComesTo(g, o) => WaitsIn(u, o)
      /\ u \in Seq(Frames) /\ u # << >> /\ u[Len(u)] = g
      /\ \A i \in 1..Len(u) : ListsOK(u[i])
  BY <1>3, <1>4, <1>5, WaitsBelow
<1>7. Known' = Known \cup {b}
  BY DEF Insert, Known
<1>8. ~Running("retry")'
  BY <1>2, <1>3, <1>6 DEF Running, Top
<1>9. ASSUME crashes = 0, NEW o \in ToSet(orphans'), Parent(o) \in Known'
      PROVE  Crowded(Parent(o)) \/ WaitsIn(u, o)
  <2>1. CASE Parent(o) = b
    <3>1. ComesTo(g, o)
      BY <1>3, <2>1 DEF ComesTo
    <3> QED BY <1>6, <3>1
  <2>2. CASE Parent(o) \in Known
    BY <1>6, <1>9, <2>2
  <2> QED BY <1>7, <1>9, <2>1, <2>2
<1> QED BY <1>2, <1>6, <1>8, <1>9 DEF OrphanInv

LEMMA OrphanReceiveBlock ==
  ASSUME NetInv, OrphanInv, NEW b \in Block, ReceiveBlock(b) PROVE OrphanInv'
<1>1. /\ stack = << >> /\ Insert(b) /\ crashes' = crashes /\ stack' = <<Frame(b)>>
      /\ orphans' = Rows(orphans, ToSet(orphans) \ {b})
  BY DEF ReceiveBlock, Without
<1>2. PICK s : s = << >>
  OBVIOUS
<1>3. s \in Seq(Frames) /\ (\A i \in 1..Len(s) : FALSE) /\ stack' = Append(s, Frame(b))
  BY <1>1, <1>2
<1>4. Unique(orphans') /\ ToSet(orphans') \subseteq ToSet(orphans)
  BY <1>1, RowsFacts DEF NetInv, TypeOK, OrphanInv
<1>5. crashes = 0 =>
        \A o \in ToSet(orphans') : Parent(o) \in Known => Crowded(Parent(o)) \/ WaitsIn(s, o)
  BY <1>1, <1>2, <1>4 DEF OrphanInv
<1> QED BY <1>1, <1>3, <1>4, <1>5, OrphanInsert

LEMMA OrphanRetry == ASSUME NetInv, OrphanInv, RetryOrphan PROVE OrphanInv'
<1>1. /\ stack # << >> /\ Top.phase = "retry" /\ Top.rows # << >> /\ Running("retry")
      /\ UNCHANGED <<orphans, crashes>>
  BY DEF RetryOrphan, Running, NetInv, TopOK, FrameOK
<1>2. PICK b : b = Head(Top.rows)
  OBVIOUS
<1>3. PICK r : r = Tail(Top.rows)
  OBVIOUS
<1>4. /\ Top.rows \in Seq(Block) /\ Top.queue \in Seq(Block) /\ Top \in Frames
      /\ Top.block \in Known /\ stack \in Seq(Frames)
  BY <1>1, TopFacts DEF NetInv
<1>5. /\ r \in Seq(Block) /\ b \in Block
      /\ \A x : x \in ToSet(Top.rows) <=> x = b \/ x \in ToSet(r)
  BY <1>1, <1>2, <1>3, <1>4, HeadOrTail
<1>6. b \notin ToSet(orphans) /\ Unique(orphans)
  BY <1>1, <1>2 DEF OrphanInv
<1> DEFINE Moved(q) == [Top EXCEPT !.phase = "orphans", !.rows = Tail(@), !.queue = q]
           Longer(q) == q \in Seq(Block) /\ ToSet(Top.queue) \subseteq ToSet(q)
           Fits(f) == /\ f \in Frames /\ f.phase = "orphans" /\ ListsOK(f)
                      /\ \A o \in ToSet(orphans) : ComesTo(Top, o) => ComesTo(f, o)
<1>7. ASSUME NEW q, Longer(q), NEW f, f = Moved(q) PROVE Fits(f)
  <2>1. f \in Frames /\ f.phase = "orphans" /\ f.rows = r /\ f.queue = q
    BY <1>1, <1>3, <1>5, <1>7, TopFacts DEF NetInv, Frames, Phases
  <2>2. ASSUME NEW o \in ToSet(orphans), ComesTo(Top, o) PROVE ComesTo(f, o)
    <3>1. o # b
      BY <1>6
    <3>2. Parent(o) \in ToSet(Top.queue) \/ o \in ToSet(Top.rows)
      BY <1>1, <2>2 DEF ComesTo
    <3>3. Parent(o) \in ToSet(q) \/ o \in ToSet(r)
      BY <1>5, <1>7, <3>1, <3>2
    <3> QED BY <2>1, <3>3, Zenon DEF ComesTo
  <2>3. ListsOK(f)
    BY <2>1 DEF ListsOK
  <2> QED BY <2>1, <2>2, <2>3
<1>10. \A q : Longer(q) => Fits(Moved(q))
  <2> HIDE DEF Longer, Moved, Fits
  <2> QED BY <1>7
<1>8. CASE Accepts(b)
  <2>1. PICK q : q = Append(Top.queue, b)
    OBVIOUS
  <2>2. q \in Seq(Block) /\ ToSet(q) = ToSet(Top.queue) \cup {b}
    BY <1>4, <1>5, <2>1, AppendMembers, Zenon
  <2>3. PICK f : f = Moved(q)
    OBVIOUS
  <2>4. Longer(q)
    BY <2>2
  <2>5. Fits(f)
    <3> HIDE DEF Longer, Moved, Fits
    <3> QED BY <1>10, <2>3, <2>4
  <2>6. PICK s : s = SetTop(f)
    OBVIOUS
  <2>7. Insert(b) /\ stack' = Append(s, Frame(b))
    BY <1>2, <1>8, <2>1, <2>3, <2>6 DEF RetryOrphan
  <2>8. PICK t : t = stack
    OBVIOUS
  <2>9. t \in Seq(Frames) /\ t # << >> /\ t[Len(t)] = Top /\ s = [t EXCEPT ![Len(t)] = f]
    BY <1>1, <1>4, <2>6, <2>8 DEF Top, SetTop
  <2>10. /\ s \in Seq(Frames) /\ Len(s) = Len(t) /\ s[Len(s)] = f
         /\ \A i \in 1..(Len(t) - 1) : s[i] = t[i]
    BY <2>5, <2>9, SetTopFacts
  <2>11. ASSUME NEW i \in 1..Len(s) PROVE ListsOK(s[i])
    <3>1. CASE i = Len(s)
      BY <2>5, <2>10, <3>1, Zenon
    <3>2. CASE i # Len(s)
      <4>1. i \in 1..(Len(t) - 1) /\ i \in 1..Len(t)
        <5>1. Len(t) \in Nat
          BY ONLY <2>9
        <5>2. Len(s) = Len(t)
          BY ONLY <2>10
        <5> QED BY ONLY <3>2, <5>1, <5>2, i \in 1..Len(s)
      <4>2. ListsOK(t[i])
        BY <2>8, <4>1 DEF OrphanInv
      <4> QED BY <2>10, <4>1, <4>2, Zenon
    <3> QED BY <3>1, <3>2
  <2>12. ASSUME NEW o \in ToSet(orphans), WaitsIn(t, o) PROVE WaitsIn(s, o)
    <3>1. ComesTo(t[Len(t)], o) => ComesTo(f, o)
      BY <2>5, <2>9, Zenon
    <3> QED BY <2>5, <2>9, <2>12, <3>1, StillWaits, Zenon
  <2>13. crashes = 0 =>
           \A o \in ToSet(orphans) : Parent(o) \in Known => Crowded(Parent(o)) \/ WaitsIn(s, o)
    BY <2>8, <2>12 DEF OrphanInv
  <2> QED BY <1>1, <1>5, <1>6, <2>7, <2>10, <2>11, <2>13, OrphanInsert
<1>9. CASE ~Accepts(b)
  <2>1. PICK q : q = IF b \in Known THEN Append(Top.queue, b) ELSE Top.queue
    OBVIOUS
  <2>2. q \in Seq(Block) /\ ToSet(Top.queue) \subseteq ToSet(q)
    <3>1. PICK a : a = Append(Top.queue, b)
      OBVIOUS
    <3>2. a \in Seq(Block) /\ ToSet(Top.queue) \subseteq ToSet(a)
      <4>1. a \in Seq(Block) /\ ToSet(a) = ToSet(Top.queue) \cup {b}
        BY <1>4, <1>5, <3>1, AppendMembers, Zenon
      <4> QED BY <4>1
    <3> QED BY <1>4, <2>1, <3>1, <3>2
  <2>3. PICK f : f = Moved(q)
    OBVIOUS
  <2>4. Fits(f)
    <3>1. Longer(q)
      BY <2>2
    <3> HIDE DEF Longer, Moved, Fits
    <3> QED BY <1>10, <2>3, <3>1
  <2>5. stack' = SetTop(f) /\ Known' = Known
    BY <1>2, <1>9, <2>1, <2>3 DEF RetryOrphan, Known
  <2>6. Unique(orphans') /\ ToSet(orphans') \subseteq ToSet(orphans)
    BY <1>1, <1>6
  <2>7. \A o \in ToSet(orphans') : ComesTo(Top, o) => Crowded(Parent(o)) \/ ComesTo(f, o)
    BY <1>1, <2>4
  <2> QED BY <1>1, <2>4, <2>5, <2>6, <2>7, OrphanTopStep
<1> QED BY <1>8, <1>9

\* The pool takes a block that is not in it, and drops the oldest when it is full.
LEMMA OrphanReceiveOrphan ==
  ASSUME NetInv, OrphanInv, NEW b \in Block, ReceiveOrphan(b) PROVE OrphanInv'
<1>1. /\ stack = << >> /\ stack' = << >> /\ b \notin Known /\ Parent(b) \notin Known
      /\ b \notin ToSet(orphans) /\ UNCHANGED <<graph, crashes>>
  BY DEF ReceiveOrphan
<1>2. orphans \in Seq(Block) /\ Unique(orphans)
  BY DEF NetInv, TypeOK, OrphanInv
<1>3. PICK all : all = Append(orphans, b)
  OBVIOUS
<1>4. PICK rest : rest = Tail(all)
  OBVIOUS
<1>5. orphans' = IF Len(all) > MaxOrphans THEN rest ELSE all
  BY <1>3, <1>4 DEF ReceiveOrphan
<1>6. /\ all \in Seq(Block) /\ Len(orphans) \in Nat /\ Len(all) = Len(orphans) + 1
      /\ all # << >> /\ all[Len(orphans) + 1] = b /\ \A i \in 1..Len(orphans) : all[i] = orphans[i]
  BY <1>2, <1>3
<1>7. ToSet(all) = ToSet(orphans) \cup {b}
  BY <1>2, <1>3, b \in Block, AppendMembers, Zenon
<1>8. Unique(all)
  <2>1. SUFFICES ASSUME NEW i \in 1..Len(all), NEW j \in 1..Len(all), all[i] = all[j]
                 PROVE  i = j
    BY DEF Unique
  <2>2. \A k \in 1..Len(all) : k \in 1..Len(orphans) \/ k = Len(orphans) + 1
    BY <1>6
  <2>3. \A k \in 1..Len(orphans) : orphans[k] # b
    BY <1>1, <1>2 DEF ToSet
  <2>4. CASE i \in 1..Len(orphans) /\ j \in 1..Len(orphans)
    BY <1>2, <1>6, <2>1, <2>4 DEF Unique
  <2>5. CASE i = Len(orphans) + 1 /\ j \in 1..Len(orphans)
    BY <1>6, <2>1, <2>3, <2>5
  <2>6. CASE j = Len(orphans) + 1 /\ i \in 1..Len(orphans)
    BY <1>6, <2>1, <2>3, <2>6
  <2> QED BY <2>2, <2>4, <2>5, <2>6
<1>9. Unique(rest) /\ ToSet(rest) \subseteq ToSet(all)
  <2>1. ToSet(rest) \subseteq ToSet(all)
    BY <1>4, <1>6, HeadOrTail
  <2>2. Len(rest) = Len(all) - 1 /\ \A i \in 1..Len(rest) : rest[i] = all[i + 1]
    BY <1>4, <1>6
  <2>3. \A i \in 1..Len(rest) : i + 1 \in 1..Len(all)
    BY <1>6, <2>2
  <2>4. ASSUME NEW i \in 1..Len(rest), NEW j \in 1..Len(rest), rest[i] = rest[j]
        PROVE  i = j
    <3>1. all[i + 1] = all[j + 1] /\ i + 1 \in 1..Len(all) /\ j + 1 \in 1..Len(all)
      BY <2>2, <2>3, <2>4
    <3>2. i + 1 = j + 1
      BY <1>8, <3>1 DEF Unique
    <3> QED BY <3>2
  <2> QED BY <2>1, <2>4 DEF Unique
<1>10. Unique(orphans') /\ ToSet(orphans') \subseteq ToSet(orphans) \cup {b}
  BY <1>5, <1>7, <1>8, <1>9
<1>11. Known' = Known
  BY <1>1 DEF Known
<1>12. ASSUME crashes = 0, NEW o \in ToSet(orphans'), Parent(o) \in Known
       PROVE  Crowded(Parent(o)) \/ WaitsIn(stack', o)
  <2>1. o \in ToSet(orphans)
    BY <1>1, <1>10, <1>12
  <2>2. Crowded(Parent(o)) \/ WaitsIn(stack, o)
    BY <1>12, <2>1 DEF OrphanInv
  <2> QED BY <1>1, <2>2
<1>13. ~Running("retry")' /\ \A i \in 1..Len(stack') : FALSE
  BY <1>1 DEF Running
<1> QED BY <1>1, <1>10, <1>11, <1>12, <1>13 DEF OrphanInv

LEMMA OrphanInit == Init => OrphanInv
<1> SUFFICES ASSUME Init PROVE OrphanInv
  OBVIOUS
<1>1. orphans = << >> /\ stack = << >>
  BY DEF Init
<1>2. ToSet(<< >>) = {}
  BY DEF ToSet
<1>3. \A i \in 1..Len(<< >>) : FALSE
  OBVIOUS
<1> QED BY <1>1, <1>2, <1>3 DEF OrphanInv, Unique, Running

LEMMA OrphanNext == NetInv /\ OrphanInv /\ [Next]_vars => OrphanInv'
<1> SUFFICES ASSUME NetInv, OrphanInv, [Next]_vars PROVE OrphanInv'
  OBVIOUS
<1>1. ASSUME UNCHANGED <<graph, orphans, stack, crashes>> PROVE OrphanInv'
  <2>1. Known' = Known /\ Top' = Top
    BY <1>1 DEF Known, Top
  <2> QED BY <1>1, <2>1 DEF OrphanInv, Running
<1>2. CASE \E t \in Tx : SubmitTransaction(t)
  BY <1>1, <1>2 DEF SubmitTransaction
<1>3. CASE AcceptBlock
  BY <1>3, OrphanReceiveBlock, OrphanReceiveOrphan, OrphanAccept DEF AcceptBlock
<1>4. CASE ProcessOrphans
  BY <1>4, OrphanScan, OrphanDelete, OrphanRetry, OrphanNextInQueue, OrphanReturn
     DEF ProcessOrphans
<1>5. CASE Tick
  BY <1>1, <1>5 DEF Tick
<1>6. CASE Crash
  <2>1. stack' = << >> /\ orphans' = orphans /\ crashes' = crashes + 1 /\ crashes \in Nat
    BY <1>6 DEF Crash, NetInv, TypeOK
  <2>2. crashes' # 0 /\ ~Running("retry")' /\ \A i \in 1..Len(stack') : FALSE
    BY <2>1 DEF Running
  <2> QED BY <2>1, <2>2 DEF OrphanInv
<1>7. CASE UNCHANGED vars
  BY <1>1, <1>7 DEF vars
<1> QED BY <1>2, <1>3, <1>4, <1>5, <1>6, <1>7 DEF Next

LEMMA OrphanInvariant == Spec => []OrphanInv
BY InvariantHolds, OrphanInit, OrphanNext, PTL DEF Spec

\* As long as no handler died, an orphan waits for a parent that is known only
\* behind more siblings than a query returns.
THEOREM OrphansResolved == Spec => []OrphanWaitsOnlyBehindBatch
<1>1. NetInv /\ OrphanInv => OrphanWaitsOnlyBehindBatch
  <2>1. SUFFICES ASSUME NetInv, OrphanInv, stack = << >>, crashes = 0,
                        NEW i \in 1..Len(orphans), Parent(orphans[i]) \in Known
                 PROVE  Crowded(Parent(orphans[i]))
    BY DEF OrphanWaitsOnlyBehindBatch, Crowded
  <2>2. orphans[i] \in ToSet(orphans)
    BY <2>1 DEF ToSet, NetInv, TypeOK
  <2>3. ~WaitsIn(stack, orphans[i])
    BY <2>1 DEF WaitsIn
  <2> QED BY <2>1, <2>2, <2>3 DEF OrphanInv
<1> QED BY <1>1, InvariantHolds, OrphanInvariant, PTL
=============================================================================

------------------------------ MODULE PowP2PSync ------------------------------
(***************************************************************************)
(* Block synchronization between the nodes of pow_network_v32.py:          *)
(* PowP2PNode, each on a PowNetworkChain of its own.  A session is a TCP   *)
(* connection, so its messages arrive in order, or not at all once it is   *)
(* closed; the maintenance task dials the known endpoints and asks every   *)
(* peer for headers every ten seconds.                                     *)
(*                                                                         *)
(* The chain behind a node is what PowNetwork describes, seen from         *)
(* outside: the known blocks, the orphans, the best tip.  accept_block is  *)
(* one step here.  All blocks are valid, but a node's clock may be behind, *)
(* and then it refuses a block as too far in the future.                   *)
(*                                                                         *)
(* The handshake, ping/pong, peer discovery and transaction gossip are     *)
(* left out: a session is up on both sides or not at all.                  *)
(***************************************************************************)
EXTENDS Integers, SequencesExt

CONSTANTS
  Peer,          \* nodes
  Dials,         \* <<n, p>>: n knows the endpoint of p
  PowBlock,      \* blocks that may be mined, without the genesis
  Genesis,
  ParentOf,      \* PowBlock -> its parent
  WorkOf,        \* PowBlock -> its own work
  MinerOf,       \* PowBlock -> the node that its miner works for
  Late,          \* Peer -> blocks too far in the future for its clock at first
  HeaderLimit,   \* limit of getheaders, 200 in the code
  FetchLimit,    \* blocks requested for one message, 32 in the code
  DenseLocator,  \* entries of a locator before its steps double, 10 in the code
  RateLimit,     \* MAX_MESSAGES_PER_SECOND, 50 in the code
  MaxDrops       \* bound of the model: number of network failures

Node == PowBlock \cup {Genesis}

ASSUME SyncAssumption ==
  /\ Genesis \notin PowBlock
  /\ Dials \subseteq Peer \X Peer /\ \A p \in Peer : <<p, p>> \notin Dials
  /\ ParentOf \in [PowBlock -> Node]
  /\ IsFiniteSet(PowBlock)
  /\ \A S \in (SUBSET PowBlock) \ {{}} : \E b \in S : ParentOf[b] \notin S
  /\ WorkOf \in [PowBlock -> Nat \ {0}]
  /\ MinerOf \in [PowBlock -> Peer]
  /\ Late \in [Peer -> SUBSET PowBlock]
  /\ HeaderLimit \in Nat \ {0} /\ FetchLimit \in Nat \ {0} /\ DenseLocator \in Nat \ {0}
  /\ RateLimit \in Nat /\ MaxDrops \in Nat

\* A peer reads getheaders, headers and one batch of requests, and its limit
\* still has room for an answer (50 >= 32 + 3).  With less room a session could
\* be closed before it has carried a single block, for ever.
ASSUME RateAssumption == RateLimit >= FetchLimit + 3

VARIABLES
  known,     \* node -> block_graph table
  orphans,   \* node -> orphan_blocks table
  best,      \* node -> canonical tip
  late,      \* node -> blocks that its clock still refuses
  linked,    \* <<n, p>>: n has a session with p; symmetric
  chan,      \* <<n, p>> -> messages from n that p has not read
  recent,    \* <<n, p>> -> messages n has read from p within the last second
  drops      \* number of network failures so far

syncVars == <<known, orphans, best, late, linked, chan, recent, drops>>

Pairs == { l \in Peer \X Peer : l[1] # l[2] }
Others(n) == { q \in Peer : <<n, q>> \in linked }

-----------------------------------------------------------------------------
(* The chain of a node.                                                    *)

Path[b \in Node] == IF b = Genesis THEN {Genesis} ELSE {b} \cup Path[ParentOf[b]]
Work[b \in Node] == IF b = Genesis THEN 0 ELSE WorkOf[b] + Work[ParentOf[b]]
HeightOf(b) == Cardinality(Path[b]) - 1

Chain(n) == Path[best[n]]

\* block_locator: single steps from the tip at first, then doubling ones, and the
\* genesis.  `offset` is the distance of an entry from the tip.  (The 32 entries
\* allowed reach further back than any height modelled.)
Locator(tip) ==
  LET top == HeightOf(tip)
      step[k \in 0..top] == IF k < DenseLocator THEN 1 ELSE 2 * step[k - 1]
      offset[k \in 0..top + 1] == IF k = 0 THEN 0 ELSE offset[k - 1] + step[k - 1]
  IN  {Genesis} \cup { b \in Path[tip] : \E k \in 0..top : HeightOf(b) = top - offset[k] }

\* headers_after: the canonical blocks above the first entry of the locator that
\* is canonical here, from the lowest on.
BlockAt(tip, h) == CHOOSE b \in Path[tip] : HeightOf(b) = h

HeadersAfter(tip, locator) ==
  LET common == Max({ HeightOf(b) : b \in locator \cap Path[tip] })
      last   == Min({ HeightOf(tip), common + HeaderLimit })
  IN  [i \in 1..(last - common) |-> BlockAt(tip, common + i)]

\* accept_block(b) adds the block and the orphans that it connects (all of them: the
\* batch of 64 is part of PowNetwork).  An orphan that the clock refuses is dropped.
Connected(n, b) ==
  { x \in orphans[n] \cup {b} :
      b \in Path[x] /\ Path[x] \ Path[b] \subseteq orphans[n] \ late[n] }

\* (Mutant: a block that does not win is not stored.)
AcceptHeavier(n, b) ==
  LET new == IF Work[b] > Work[best[n]] THEN {b} ELSE {} IN
  /\ known' = [known EXCEPT ![n] = @ \cup new]
  /\ orphans' = [orphans EXCEPT ![n] = @ \ {b}]
  /\ best' = [best EXCEPT ![n] = IF new = {b} THEN b ELSE @]

\* (Mutant: the orphans that wait for the block are left where they are.)
AcceptAlone(n, b) ==
  /\ known' = [known EXCEPT ![n] = @ \cup {b}]
  /\ orphans' = [orphans EXCEPT ![n] = @ \ {b}]
  /\ best' = [best EXCEPT ![n] = IF Work[b] > Work[best[n]] THEN b ELSE @]

Accept(n, b) ==
  LET new == Connected(n, b) IN
  /\ known' = [known EXCEPT ![n] = @ \cup new]
  /\ orphans' = [orphans EXCEPT ![n] = { o \in @ \ new : ParentOf[o] \notin new }]
  /\ \E x \in new \cup {best[n]} :
       /\ \A y \in new \cup {best[n]} : Work[y] <= Work[x]
       /\ Work[best[n]] = Work[x] => x = best[n]
       /\ best' = [best EXCEPT ![n] = x]

-----------------------------------------------------------------------------
(* Messages.                                                               *)

GetHeaders(n) == [type |-> "getheaders", locator |-> Locator(best[n])]
Headers(s)    == [type |-> "headers", blocks |-> s]
GetBlock(b)   == [type |-> "getblock", block |-> b]
BlockMsg(b)   == [type |-> "block", block |-> b]
Inv(b)        == [type |-> "inv", block |-> b]

\* The handler of n for a message m from p has read it, sends `reply` to p and
\* `news` to the other sessions.
Handled(n, p, reply, news) ==
  /\ chan' = [l \in Pairs |->
       CASE l = <<p, n>> -> Tail(chan[l])
         [] l = <<n, p>> -> chan[l] \o reply
         [] l[1] = n /\ l[2] \in Others(n) \ {p} -> chan[l] \o news
         [] OTHER -> chan[l]]
  /\ recent' = [recent EXCEPT ![<<n, p>>] = @ + 1]
  /\ UNCHANGED <<late, linked, drops>>

\* A session ends on both sides and what is on its way is lost; messages that the
\* other side reads before it notices are read before this step.
Closed(n, p) ==
  /\ linked' = linked \ {<<n, p>>, <<p, n>>}
  /\ chan' = [chan EXCEPT ![<<n, p>>] = << >>, ![<<p, n>>] = << >>]
  /\ recent' = [recent EXCEPT ![<<n, p>>] = 0, ![<<p, n>>] = 0]
  /\ UNCHANGED late

\* note_message lets n handle the next message from p, of the given type.
Reads(n, p, type) ==
  /\ chan[<<p, n>>] # << >>
  /\ Head(chan[<<p, n>>]).type = type
  /\ recent[<<n, p>>] < RateLimit

Incoming(n, p) == Head(chan[<<p, n>>])

\* One message too many within a second: the session is closed.
ExceedRate(n, p) ==
  /\ chan[<<p, n>>] # << >>
  /\ recent[<<n, p>>] = RateLimit
  /\ Closed(n, p)
  /\ UNCHANGED <<known, orphans, best, drops>>

HandleGetHeaders(n, p) ==
  /\ Reads(n, p, "getheaders")
  /\ Handled(n, p, <<Headers(HeadersAfter(best[n], Incoming(n, p).locator))>>, << >>)
  /\ UNCHANGED <<known, orphans, best>>

\* has_block; the first FetchLimit unknown blocks are requested.
Unknown(table, s) ==
  LET found[i \in 0..Len(s)] ==
        IF i = 0 THEN << >>
        ELSE IF s[i] \in table THEN found[i - 1] ELSE Append(found[i - 1], s[i])
  IN  found[Len(s)]

Wanted(table, s) ==
  LET unknown == Unknown(table, s)
  IN  SubSeq(unknown, 1, Min({FetchLimit, Len(unknown)}))

HandleHeaders(n, p) ==
  /\ Reads(n, p, "headers")
  /\ LET wanted == Wanted(known[n], Incoming(n, p).blocks)
     IN  Handled(n, p, [i \in 1..Len(wanted) |-> GetBlock(wanted[i])], << >>)
  /\ UNCHANGED <<known, orphans, best>>

HandleGetBlock(n, p) ==
  /\ Reads(n, p, "getblock")
  /\ LET b == Incoming(n, p).block IN
     Handled(n, p, IF b \in known[n] THEN <<BlockMsg(b)>> ELSE << >>, << >>)
  /\ UNCHANGED <<known, orphans, best>>

\* A new block is accepted: the other peers hear of it, and this one is asked for
\* more.
HandleNewBlock(n, p) ==
  /\ Reads(n, p, "block")
  /\ LET b == Incoming(n, p).block IN
     /\ b \notin known[n] \cup late[n]
     /\ ParentOf[b] \in known[n]
     /\ Accept(n, b)
     /\ Handled(n, p, <<[type |-> "getheaders", locator |-> Locator(best'[n])]>>, <<Inv(b)>>)

\* A known block changes nothing, an orphan is stored; nobody is told.
HandleOldBlock(n, p) ==
  /\ Reads(n, p, "block")
  /\ LET b == Incoming(n, p).block IN
     /\ b \in known[n] \/ ParentOf[b] \notin known[n]
     /\ orphans' = [orphans EXCEPT ![n] = IF b \in known[n] THEN @ ELSE @ \cup {b}]
  /\ Handled(n, p, << >>, << >>)
  /\ UNCHANGED <<known, best>>

\* A block that the clock refuses: the exception closes the session.
RefuseBlock(n, p) ==
  /\ Reads(n, p, "block")
  /\ LET b == Incoming(n, p).block IN
     b \in late[n] \ known[n] /\ ParentOf[b] \in known[n]
  /\ Closed(n, p)
  /\ UNCHANGED <<known, orphans, best, drops>>

HandleInv(n, p) ==
  /\ Reads(n, p, "inv")
  /\ LET b == Incoming(n, p).block IN
     Handled(n, p, IF b \in known[n] THEN << >> ELSE <<GetBlock(b)>>, << >>)
  /\ UNCHANGED <<known, orphans, best>>

-----------------------------------------------------------------------------
(* _maintenance.                                                           *)

\* _connect and the handshake: both sides ask for headers at once.
\* (Mutant: an endpoint that has failed is not dialled again.)
ConnectOnce(n, p) ==
  /\ <<n, p>> \in Dials
  /\ <<n, p>> \notin linked
  /\ drops = 0
  /\ linked' = linked \cup {<<n, p>>, <<p, n>>}
  /\ chan' = [chan EXCEPT ![<<n, p>>] = <<GetHeaders(n)>>, ![<<p, n>>] = <<GetHeaders(p)>>]
  /\ UNCHANGED <<known, orphans, best, late, recent, drops>>

Connect(n, p) ==
  /\ <<n, p>> \in Dials
  /\ <<n, p>> \notin linked
  /\ linked' = linked \cup {<<n, p>>, <<p, n>>}
  /\ chan' = [chan EXCEPT ![<<n, p>>] = <<GetHeaders(n)>>, ![<<p, n>>] = <<GetHeaders(p)>>]
  /\ UNCHANGED <<known, orphans, best, late, recent, drops>>

\* The periodic getheaders.  Ten seconds are longer than what is on its way in the
\* session needs.
Poll(n, p) ==
  /\ <<n, p>> \in linked
  /\ chan[<<n, p>>] = << >> /\ chan[<<p, n>>] = << >>
  /\ chan' = [chan EXCEPT ![<<n, p>>] = <<GetHeaders(n)>>]
  /\ UNCHANGED <<known, orphans, best, late, linked, recent, drops>>

-----------------------------------------------------------------------------
(* The environment.                                                        *)

\* A miner of n extends the tip of n and submits the block by RPC; the node
\* announces it.
MineBlock(n) ==
  \E b \in PowBlock \ known[n] :
    /\ MinerOf[b] = n
    /\ ParentOf[b] = best[n]
    /\ b \notin late[n]
    /\ Accept(n, b)
    /\ chan' = [l \in Pairs |-> IF l[1] = n /\ l[2] \in Others(n)
                                THEN Append(chan[l], Inv(b)) ELSE chan[l]]
    /\ UNCHANGED <<late, linked, recent, drops>>

\* A second passes without a message.  (The window slides; here it empties at once.)
Second ==
  /\ \E l \in Pairs : recent[l] > 0
  /\ recent' = [l \in Pairs |-> 0]
  /\ UNCHANGED <<known, orphans, best, late, linked, chan, drops>>

\* The clock of n catches up.
ClockAdvances(n) ==
  /\ late[n] # {}
  /\ late' = [late EXCEPT ![n] = {}]
  /\ UNCHANGED <<known, orphans, best, linked, chan, recent, drops>>

\* The network closes a connection.
Drop(n, p) ==
  /\ drops < MaxDrops
  /\ <<n, p>> \in linked
  /\ drops' = drops + 1
  /\ Closed(n, p)
  /\ UNCHANGED <<known, orphans, best>>

-----------------------------------------------------------------------------
SyncInit ==
  /\ known = [n \in Peer |-> {Genesis}]
  /\ orphans = [n \in Peer |-> {}]
  /\ best = [n \in Peer |-> Genesis]
  /\ late = Late
  /\ linked = {}
  /\ chan = [l \in Pairs |-> << >>]
  /\ recent = [l \in Pairs |-> 0]
  /\ drops = 0

PeerLoop(n, p) ==
  \/ ExceedRate(n, p)
  \/ HandleGetHeaders(n, p) \/ HandleHeaders(n, p)
  \/ HandleGetBlock(n, p)
  \/ HandleNewBlock(n, p) \/ HandleOldBlock(n, p) \/ RefuseBlock(n, p)
  \/ HandleInv(n, p)

Maintenance(n, p) == Connect(n, p) \/ Poll(n, p)

SyncNext ==
  \/ \E n, p \in Peer : n # p /\ (PeerLoop(n, p) \/ Maintenance(n, p) \/ Drop(n, p))
  \/ \E n \in Peer : MineBlock(n) \/ ClockAdvances(n)
  \/ Second

\* The event loop serves every session and the maintenance task, and time passes.
\* Nobody has to mine, and the network need not fail.  For one pair a message to
\* read and work for the maintenance task exclude each other, so that fairness to
\* their disjunction is fairness to both; so it is for the clocks, which advance
\* once each.
Fairness ==
  /\ \A l \in Pairs : WF_syncVars(PeerLoop(l[1], l[2]) \/ Maintenance(l[1], l[2]))
  /\ WF_syncVars(\E n \in Peer : ClockAdvances(n))

SyncSpec == SyncInit /\ [][SyncNext]_syncVars /\ Fairness

-----------------------------------------------------------------------------
(* Properties.                                                             *)

\* The tables and the streams hold values of their kind; what a node knows is
\* closed under parents and contains its tip, and a closed session carries nothing.
SyncMessage ==
  [type : {"getheaders"}, locator : SUBSET Node] \cup
  [type : {"headers"}, blocks : Seq(Node)] \cup
  [type : {"getblock", "block", "inv"}, block : Node]

SyncTypeOK ==
  /\ known \in [Peer -> SUBSET Node] /\ best \in [Peer -> Node]
  /\ orphans \in [Peer -> SUBSET PowBlock] /\ late \in [Peer -> SUBSET PowBlock]
  /\ \A n \in Peer : /\ best[n] \in known[n] /\ Chain(n) \subseteq known[n]
                     /\ orphans[n] \cap known[n] = {}
  /\ linked \subseteq Pairs /\ \A l \in linked : <<l[2], l[1]>> \in linked
  /\ chan \in [Pairs -> Seq(SyncMessage)] /\ recent \in [Pairs -> 0..RateLimit]
  /\ \A l \in Pairs \ linked : chan[l] = << >>
  /\ drops \in 0..MaxDrops

\* Peers agree on the work of their tips ...
Agree(n, p) == Work[best[n]] = Work[best[p]]

\* ... or the lighter one cannot learn of the heavier branch: the headers that the
\* other side sends for its locator are of blocks it knows already, on a branch
\* that does not yet outweigh its own.
TooDeep(n, p) ==
  /\ Work[best[n]] < Work[best[p]]
  /\ ToSet(HeadersAfter(best[p], Locator(best[n]))) \subseteq known[n]

\* The tip is the heaviest block known, whatever order blocks and orphans came in.
HeaviestKnown == \A n \in Peer : \A b \in known[n] : Work[b] <= Work[best[n]]

\* An orphan waits only as long as its parent is missing.
OrphansWait == \A n \in Peer : \A o \in orphans[n] : ParentOf[o] \notin known[n]

\* What is announced, listed or sent is known to its sender, and a block that is
\* asked for is known to the peer that is asked: no request is in vain.
Answerable(tables, l, m) ==
  CASE m.type = "getheaders" -> Genesis \in m.locator /\ m.locator \subseteq tables[l[1]]
    [] m.type = "headers" -> ToSet(m.blocks) \subseteq tables[l[1]]
    [] m.type = "getblock" -> m.block \in tables[l[2]]
    [] OTHER -> m.block \in tables[l[1]]

RequestsServed == \A l \in Pairs : \A i \in 1..Len(chan[l]) : Answerable(known, l, chan[l][i])

\* The exception that Converges makes is only for deep forks: the heavier branch is
\* longer, from any block that the lighter node names, than a batch of headers.
OnlyDeepForksDivide ==
  \A n, p \in Peer : TooDeep(n, p) =>
    \A c \in Locator(best[n]) \cap Chain(p) : HeightOf(best[p]) > HeightOf(c) + HeaderLimit

\* Blocks that reach a node in any order, from any of its peers and its own miner,
\* leave it with the heaviest chain of what it knows, and with every request it made
\* one that will be answered.
SyncIsSound == HeaviestKnown /\ OrphansWait /\ RequestsServed /\ OnlyDeepForksDivide

\* Whatever was mined on either side, and whichever sessions were closed, by the
\* network, by the rate limit or by a refused block: the nodes end up with tips of
\* equal work, unless their branches are deeper than a locator and one batch of
\* headers can bridge.
Converges ==
  <>[](\A n, p \in Peer : Agree(n, p) \/ TooDeep(n, p) \/ TooDeep(p, n))

\* No block is requested again and again: in the end only headers are exchanged.
EventuallyQuiet ==
  <>[](\A l \in Pairs : \A i \in 1..Len(chan[l]) :
          chan[l][i].type \in {"getheaders", "headers"})

=============================================================================

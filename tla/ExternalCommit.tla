--------------------------- MODULE ExternalCommit ---------------------------
(***************************************************************************)
(* The application behind an external consensus engine: the execution      *)
(* store of external_commit_v21.py on every node, the governance of the    *)
(* validator set it executes, its state-sync snapshots, and the CometBFT   *)
(* engine that drives it through the bridge of cometbft-app/main.go.       *)
(*                                                                         *)
(* The engine is external code: it is modelled from the calls the bridge   *)
(* receives.  It decides one sequence of blocks, calls FinalizeBlock and   *)
(* Commit for each, persists the response between the two, and after a     *)
(* crash compares its height with the application's.                       *)
(*                                                                         *)
(* The service runs requests in a thread pool: a request whose caller gave *)
(* up (30 s in the bridge) or died still executes, at any later time.      *)
(* stage_finalize and commit_pending each run under a lock and in one      *)
(* SQLite transaction, so each is one step.                                *)
(*                                                                         *)
(* A block stands for its hash, a state for its hash; an application hash  *)
(* is the tuple of what it hashes.  The tables transactions and            *)
(* validator_governance_history only repeat what `commits` holds and       *)
(* nothing reads them.                                                     *)
(***************************************************************************)
EXTENDS ValidatorGovernance

CONSTANTS
  Node,
  Fresh,         \* nodes that start with state sync instead of genesis
  Exporter,      \* nodes that are asked to export a snapshot
  KeyOf,         \* Node -> its validator key
  Elsewhere,     \* keys of validators whose nodes are not modelled
  Address,
  FeeRecipient,  \* deterministic_fee_recipient
  Transfer,      \* signed transfers that clients may submit
  Ask,           \* changes of the validator set that operators may ask for
  EmitHeight,    \* heights they may ask for
  GenesisState,
  FinalizeLimit, \* transactions that the finalize endpoint takes
  Chunk,         \* indexes of the chunks of a snapshot
  MaxHeight,     \* bound of the model: blocks decided
  MaxBlock,      \* bound of the model: transactions in a block
  ExportHeight,  \* bound of the model: heights where an export may begin
  MaxExports,    \* bound of the model: exports of a snapshot
  MaxCrashes     \* bound of the model: crashes

AppState ==
  [balance : [Address -> Nat], nonce : [Address -> Nat],
   active : ValidatorSet, change : {NoChange} \cup
     [type : {"validator_governance"}, emit : Nat, source : ValidatorSet,
      updates : Seq(Update), target : ValidatorSet, approvals : SUBSET Key]]

ASSUME ExternalAssumption ==
  /\ Fresh \subseteq Node /\ Exporter \subseteq Node
  /\ KeyOf \in [Node -> Key] /\ Elsewhere \subseteq Key
  /\ FeeRecipient \in Address
  /\ Transfer \subseteq [type : {"transfer"}, from : Address, to : Address,
                         amount : Nat \ {0}, fee : Nat, nonce : Nat]
  /\ Ask \subseteq [kind : Kind, old : Key, new : Key, power : Nat \ {0}]
  /\ EmitHeight \subseteq Nat /\ ExportHeight \subseteq Nat
  /\ GenesisState \in AppState /\ GenesisState.change = NoChange
  /\ GenesisState.active \in [Key -> {0, 1}] /\ Members(GenesisState.active) # {}
  /\ Chunk # {}
  /\ {FinalizeLimit, MaxHeight, MaxBlock, MaxExports, MaxCrashes} \subseteq Nat

VARIABLES
  decided,    \* blocks decided by the engines' consensus
  results,    \* ghost: result of every decided block, genesis first
  valset,     \* ghost: valset[h] are the validators of block h
  db,         \* Node -> the tables of its chain.sqlite3
  engine,     \* Node -> the state of its CometBFT
  late,       \* Node -> requests that outlived their caller
  export,     \* Node -> fields read so far by export_external_snapshot_v21
  snapshots,  \* snapshots that peers advertise
  session,    \* Node -> state-sync/incoming/session.json
  crashes,    \* number of crashes so far
  exports,    \* number of exports so far
  overtaken   \* history: nodes where a late commit or a crash of a restore
              \* moved the application past its engine

vars == <<decided, results, valset, db, engine, late, export,
          snapshots, session, crashes, exports, overtaken>>

None == [none |-> TRUE]
AppHash(height, block, st) == <<height, block, st>>
GenesisBlock == <<>>     \* last_hash of a new database
Extend(f, k, v) == [x \in DOMAIN f \cup {k} |-> IF x = k THEN v ELSE f[x]]

-----------------------------------------------------------------------------
(* Execution of a block.                                                   *)

Transfers(block) == SelectSeq(block, LAMBDA tx : tx.type = "transfer")
Governance(block) == {tx \in Range(block) : tx.type = "validator_governance"}

\* The endpoint's limit, which no proposal respects, and _split_transactions.
WellFormed(block) ==
  /\ Len(block) <= FinalizeLimit
  /\ IsInjective(block) /\ Cardinality(Governance(block)) <= 1

Payable(st, tx) ==
  /\ tx.from # tx.to
  /\ tx.nonce = st.nonce[tx.from] + 1
  /\ st.balance[tx.from] >= tx.amount + tx.fee

Credit(balance, a, n) == [balance EXCEPT ![a] = @ + n]

Pay(st, tx) ==
  [st EXCEPT !.balance = Credit(Credit([@ EXCEPT ![tx.from] = @ - tx.amount - tx.fee],
                                       tx.to, tx.amount), FeeRecipient, tx.fee),
             !.nonce[tx.from] = @ + 1]

\* _simulate: every transfer on the state its predecessors leave.
Paid(st, txs) == FoldLeft(Pay, st, txs)

AllPayable(st, txs) ==
  \A i \in DOMAIN txs : Payable(Paid(st, SubSeq(txs, 1, i - 1)), txs[i])

Gov(st) == [active |-> st.active, change |-> st.change]

Execute(height, st, block) ==
  LET txs == Transfers(block)
      envs == Governance(block)
  IN  IF /\ WellFormed(block)
         /\ AllPayable(st, txs)
         /\ GovernanceAccepts(Gov(st), height, envs)
        THEN LET paid == Paid(st, txs)
                 gov == SimulateHeight(Gov(st), height, envs)
             IN  [ok |-> TRUE,
                  st |-> [balance |-> paid.balance, nonce |-> paid.nonce,
                          active |-> gov.active, change |-> gov.change],
                  updates |-> Emitted(envs)]
        ELSE [ok |-> FALSE, st |-> st, updates |-> <<>>]

\* check_transaction: one transaction alone, on the committed state; the set
\* that a due change is about to activate is not used here.
CheckTx(d, tx) ==
  CASE tx.type = "transfer" -> Payable(d.st, tx)
    [] OTHER -> VerifyEnvelope(tx, d.st.active, d.height + 1) /\ d.st.change = NoChange

-----------------------------------------------------------------------------
(* stage_finalize and commit_pending on the tables d.                      *)

LastBlock(d) ==
  IF d.height \in DOMAIN d.commits THEN d.commits[d.height].block ELSE d.baseBlock

CommittedHash(d) == AppHash(d.height, LastBlock(d), d.st)

\* A height already committed: the recorded answer.
Replayed(d, h, block) ==
  /\ h <= d.height
  /\ h \in DOMAIN d.commits
  /\ d.commits[h].block = block

\* Mutant: a staged height is refused when it is asked for again.
StageableOnce(d, h, block) ==
  /\ h = d.height + 1
  /\ Execute(h, d.st, block).ok
  /\ d.pending = None

\* A height already staged, or to be staged now.
Stageable(d, h, block) ==
  /\ h = d.height + 1
  /\ Execute(h, d.st, block).ok
  /\ d.pending # None => d.pending.block = block

Finalizes(d, h, block) == Replayed(d, h, block) \/ Stageable(d, h, block)

\* Mutant: a repeated answer forgets the validator updates.
NoEmission(d, h) == <<>>

Emission(d, h) == IF h \in DOMAIN d.emissions THEN d.emissions[h] ELSE <<>>

FinalizeReply(d, h, block) ==
  IF h <= d.height
    THEN [hash |-> d.commits[h].hash, updates |-> Emission(d, h)]
    ELSE LET next == Execute(h, d.st, block)
         IN  [hash |-> IF d.pending # None THEN d.pending.hash
                                           ELSE AppHash(h, block, next.st),
              updates |-> next.updates]

\* Mutant: the block is applied when it is finalized, not when it is committed.
StageApplies(d, h, block) ==
  IF h <= d.height
    THEN d
    ELSE LET next == Execute(h, d.st, block)
         IN  [d EXCEPT !.height = h, !.st = next.st,
                !.commits = Extend(@, h, [block |-> block, hash |-> AppHash(h, block, next.st)]),
                !.emissions = IF next.updates = <<>> THEN @ ELSE Extend(@, h, next.updates)]

StageFinalize(d, h, block) ==
  IF h <= d.height \/ d.pending # None
    THEN d
    ELSE [d EXCEPT !.pending =
           [height |-> h, block |-> block, previous |-> CommittedHash(d),
            hash |-> AppHash(h, block, Execute(h, d.st, block).st)]]

\* Without a pending finalize commit_pending succeeds and does nothing.
Commits(d) ==
  d.pending # None =>
    LET p == d.pending
        next == Execute(p.height, d.st, p.block)
    IN  /\ p.height = d.height + 1
        /\ p.previous = CommittedHash(d)
        /\ next.ok
        /\ p.hash = AppHash(p.height, p.block, next.st)

\* Mutant: the transfers are applied, the change of validators is not.
CommitTransfersOnly(d) ==
  IF d.pending = None
    THEN d
    ELSE LET p == d.pending
             next == Execute(p.height, d.st, p.block)
         IN  [d EXCEPT !.height = p.height,
                       !.st = [next.st EXCEPT !.change = d.st.change],
                       !.commits = Extend(@, p.height, [block |-> p.block, hash |-> p.hash]),
                       !.emissions = IF next.updates = <<>> THEN @
                                     ELSE Extend(@, p.height, next.updates),
                       !.pending = None]

CommitPending(d) ==
  IF d.pending = None
    THEN d
    ELSE LET p == d.pending
             next == Execute(p.height, d.st, p.block)
         IN  [d EXCEPT !.height = p.height,
                       !.st = next.st,
                       !.commits = Extend(@, p.height, [block |-> p.block, hash |-> p.hash]),
                       !.emissions = IF next.updates = <<>> THEN @
                                     ELSE Extend(@, p.height, next.updates),
                       !.pending = None]

-----------------------------------------------------------------------------
(* The engine.  phase: "down"; "sync" while it looks for a snapshot and    *)
(* "restore" while it fetches one; "idle" in consensus or waiting for      *)
(* FinalizeBlock; "save" when it holds the answer in memory only; "commit" *)
(* while it waits for Commit; "advance" when Commit has answered and its   *)
(* own state is to be saved.                                               *)

\* CometBFT refuses two updates of one key and the removal of a stranger.
Applicable(vals, updates) ==
  /\ IsInjective([i \in DOMAIN updates |-> updates[i].key])
  /\ \A i \in DOMAIN updates : updates[i].power = 0 => vals[updates[i].key] > 0

Applied(vals, updates) ==
  FoldLeft(LAMBDA v, u : [v EXCEPT ![u.key] = u.power], vals, updates)

\* The sets of the next two blocks, moved on by one block.
Advanced(e) ==
  [e EXCEPT !.height = @ + 1, !.current = e.following,
            !.following = Applied(e.following, e.saved.updates),
            !.saved = None, !.phase = "idle"]

NewDb == [height |-> 0, st |-> GenesisState, commits |-> <<>>, emissions |-> <<>>,
          pending |-> None, base |-> 0, baseBlock |-> GenesisBlock]

NewEngine(phase) ==
  [height |-> 0, current |-> GenesisState.active, following |-> GenesisState.active,
   saved |-> None, reply |-> None, phase |-> phase]

Init ==
  /\ decided = <<>>
  /\ results = << [ok |-> TRUE, st |-> GenesisState, updates |-> <<>>] >>
  /\ valset = << GenesisState.active, GenesisState.active >>
  /\ db = [n \in Node |-> NewDb]
  /\ engine = [n \in Node |-> NewEngine(IF n \in Fresh THEN "sync" ELSE "idle")]
  /\ late = [n \in Node |-> {}]
  /\ export = [n \in Node |-> <<>>]
  /\ snapshots = {}
  /\ session = [n \in Node |-> None]
  /\ crashes = 0 /\ exports = 0
  /\ overtaken = {}

Height == Len(decided)
Ready(n) == engine[n].phase = "idle" /\ engine[n].height = Height

consensus == <<decided, results, valset>>
statesync == <<export, snapshots, session, exports>>

(***************************************************************************)
(* The governance requests that operators may have built and signed by now *)
(* (build_governance_request, sign_governance_request): files that outlive *)
(* the state they were made on.  A request is built on the tables of a     *)
(* node at height h, where no change waits, for a later height, and the    *)
(* members of the set it changes sign it, each in any order or not at all. *)
(***************************************************************************)
Requests ==
  UNION {LET st == results[h + 1].st
             ups == BuildUpdates(c)
         IN  IF /\ st.change = NoChange
                /\ ApplyUpdates(st.active, ups) # Invalid
               THEN {Envelope(emit, st.active, ups, signers) :
                       emit \in {e \in EmitHeight : e > h},
                       signers \in SUBSET Members(st.active)}
               ELSE {}
         : h \in 0..Height, c \in Ask}

\* PrepareProposal and ProcessProposal pass each transaction of the mempool or
\* of the block through CheckTx, on the state after the last block.  A mempool
\* holds a transaction once.
Accepted(n) == {tx \in Transfer \cup Requests : CheckTx(db[n], tx)}

Proposals(n) ==
  LET mempool == Accepted(n)
  IN  {b \in UNION {[1..k -> mempool] : k \in 0..MaxBlock} : IsInjective(b)}

\* Nodes that are not modelled find what the proposer's node found.
Voters(block) ==
  {KeyOf[n] : n \in {m \in Node : Ready(m) /\ \A tx \in Range(block) : CheckTx(db[m], tx)}}
    \cup Elsewhere

Decide(proposer, block) ==
  /\ Quorum(engine[proposer].current, Voters(block))
  /\ decided' = Append(decided, block)
  /\ LET result == Execute(Height + 1, results[Height + 1].st, block)
         last == valset[Height + 2]
     IN  /\ results' = Append(results, result)
         /\ valset' = Append(valset, Applied(last, result.updates))
  /\ UNCHANGED <<db, engine, late, statesync, crashes, overtaken>>

\* An engine calls FinalizeBlock as soon as the next block is decided.
Finalizing(n) == engine[n].phase = "idle" /\ engine[n].height < Height

\* An error of FinalizeBlock or of Commit stops the engine.
ServeFinalize(n) ==
  LET h == engine[n].height + 1
  IN  /\ Finalizing(n)
      /\ IF Finalizes(db[n], h, decided[h])
           THEN /\ db' = [db EXCEPT ![n] = StageFinalize(@, h, decided[h])]
                /\ engine' = [engine EXCEPT ![n].phase = "save",
                                ![n].reply = FinalizeReply(db[n], h, decided[h])]
           ELSE /\ engine' = [engine EXCEPT ![n].phase = "down"]
                /\ UNCHANGED db
      /\ UNCHANGED <<consensus, late, statesync, crashes, overtaken>>

\* The response is persisted before its validator updates are examined.
SaveReply(n) ==
  /\ engine[n].phase = "save"
  /\ engine' = [engine EXCEPT ![n].saved = engine[n].reply, ![n].reply = None,
                  ![n].phase = IF Applicable(engine[n].following, engine[n].reply.updates)
                                 THEN "commit" ELSE "down"]
  /\ UNCHANGED <<consensus, db, late, statesync, crashes, overtaken>>

ServeCommit(n) ==
  /\ engine[n].phase = "commit"
  /\ IF Commits(db[n])
       THEN /\ db' = [db EXCEPT ![n] = CommitPending(@)]
            /\ engine' = [engine EXCEPT ![n].phase = "advance"]
       ELSE /\ engine' = [engine EXCEPT ![n].phase = "down"]
            /\ UNCHANGED db
  /\ UNCHANGED <<consensus, late, statesync, crashes, overtaken>>

SaveState(n) ==
  /\ engine[n].phase = "advance"
  /\ engine' = [engine EXCEPT ![n] = Advanced(engine[n])]
  /\ UNCHANGED <<consensus, db, late, statesync, crashes, overtaken>>

-----------------------------------------------------------------------------
(* Crashes, late requests and the handshake of a restart.                  *)

\* The request that a node's engine is waiting for.
Waiting(n) ==
  IF Finalizing(n) THEN {[call |-> "finalize", height |-> engine[n].height + 1]}
  ELSE IF engine[n].phase = "commit" THEN {[call |-> "commit", height |-> 0]}
  ELSE {}

\* The engine or its bridge stops; with `served` the service survives and
\* still executes the request that was waiting.  Otherwise it stops as well.
\* An export is a process of its own.  session.json stays, but only an engine
\* that has offered anew reads it.
Crash(n, served) ==
  /\ crashes < MaxCrashes
  /\ engine[n].phase \notin {"down", "sync"}
  /\ served => Waiting(n) # {}
  /\ crashes' = crashes + 1
  /\ engine' = [engine EXCEPT ![n].phase = "down", ![n].reply = None]
  /\ late' = [late EXCEPT ![n] = IF served THEN @ \cup Waiting(n) ELSE {}]
  /\ overtaken' = IF engine[n].phase = "restore" /\ db[n].height > 0
                    THEN overtaken \cup {n} ELSE overtaken
  /\ session' = [session EXCEPT ![n] = None]
  /\ UNCHANGED <<consensus, db, export, snapshots, exports>>

ServeLate(n, r) ==
  /\ r \in late[n]
  /\ late' = [late EXCEPT ![n] = @ \ {r}]
  /\ IF r.call = "finalize"
       THEN /\ db' = [db EXCEPT ![n] =
                        IF Finalizes(@, r.height, decided[r.height])
                          THEN StageFinalize(@, r.height, decided[r.height]) ELSE @]
            /\ UNCHANGED overtaken
       ELSE /\ db' = [db EXCEPT ![n] = IF Commits(@) THEN CommitPending(@) ELSE @]
            /\ overtaken' = IF Commits(db[n]) /\ db[n].pending # None
                              THEN overtaken \cup {n} ELSE overtaken
  /\ UNCHANGED <<consensus, engine, statesync, crashes>>

\* Info reports the application's height.  One ahead is repaired from the
\* saved response; a node that has executed nothing goes through state sync
\* again if it was started with it.
Resumable(n) ==
  \/ n \in Fresh /\ engine[n].height = 0
  \/ db[n].height = engine[n].height
  \/ db[n].height = engine[n].height + 1 /\ engine[n].saved # None

Restart(n) ==
  /\ engine[n].phase = "down"
  /\ Resumable(n)
  /\ engine' = [engine EXCEPT ![n] =
       IF n \in Fresh /\ @.height = 0 THEN [@ EXCEPT !.phase = "sync"]
       ELSE IF db[n].height = @.height THEN [@ EXCEPT !.phase = "idle", !.saved = None]
       ELSE Advanced(@)]
  /\ UNCHANGED <<consensus, db, late, statesync, crashes, overtaken>>

-----------------------------------------------------------------------------
(* State sync.                                                             *)

(***************************************************************************)
(* export_external_snapshot_v21 reads the tables with statements of their  *)
(* own, each of which sees the last commit: first for status(), then the   *)
(* rows, then height and last_hash for the hash and again for the body.    *)
(* The body is kept if the two hashes agree and the body has that hash.    *)
(***************************************************************************)
Field == << "accounts", "validators", "head",
            "accounts", "validators", "head", "head" >>

ReadField(d, f) ==
  CASE f = "accounts" -> [balance |-> d.st.balance, nonce |-> d.st.nonce]
    [] f = "validators" -> Gov(d.st)
    [] f = "head" -> [height |-> d.height, block |-> LastBlock(d)]

ExportRead(n) ==
  LET i == Len(export[n]) + 1
  IN  /\ i \in DOMAIN Field
      /\ n \in Exporter
      /\ i = 1 => /\ db[n].pending = None
                  /\ db[n].height \in ExportHeight /\ exports < MaxExports
      /\ exports' = IF i = 1 THEN exports + 1 ELSE exports
      /\ export' = [export EXCEPT ![n] = Append(@, ReadField(db[n], Field[i]))]
      /\ UNCHANGED <<consensus, db, engine, late, snapshots, session,
                     crashes, overtaken>>

Body(r) ==
  [height |-> r[7].height, block |-> r[7].block,
   st |-> [balance |-> r[4].balance, nonce |-> r[4].nonce,
           active |-> r[5].active, change |-> r[5].change]]

Exportable(r) ==
  /\ SubSeq(r, 1, 3) = SubSeq(r, 4, 6)
  /\ r[7] = r[6]
  /\ r[7].height > 0

\* materialize_latest
Publish(n) ==
  /\ Len(export[n]) = Len(Field)
  /\ export' = [export EXCEPT ![n] = <<>>]
  /\ snapshots' = IF Exportable(export[n]) THEN snapshots \cup {Body(export[n])}
                                           ELSE snapshots
  /\ UNCHANGED <<consensus, db, engine, late, session, crashes, exports,
                 overtaken>>

\* The light client trusts the hash of height h once block h + 2 exists.
Trusted(h) == AppHash(h, decided[h], results[h + 1].st)
Trustable(h) == h > 0 /\ h + 2 <= Height

Pristine(d) == d = NewDb

\* offer_snapshot: metadata that claims the trusted hash starts a session.
\* What the chunks of peer contain is only seen when all are there.
Offer(n, h, content) ==
  /\ engine[n].phase = "sync"
  /\ Trustable(h)
  /\ Pristine(db[n])
  /\ session' = [session EXCEPT ![n] =
                   [height |-> h, trusted |-> Trusted(h), content |-> content,
                    received |-> {}]]
  /\ engine' = [engine EXCEPT ![n].phase = "restore"]
  /\ UNCHANGED <<consensus, db, late, export, snapshots, crashes, exports,
                 overtaken>>

OfferPublished(n, s) == s \in snapshots /\ Offer(n, s.height, s)

\* A peer whose metadata claims height h over the contents of an older one.
OfferForged(n, h) ==
  Offer(n, h, [height |-> h, block |-> decided[h], st |-> results[h].st])

\* Mutant: the contents are taken for what the metadata says they are.
AuthenticHeight(s) == s.content.height = s.height

Authentic(s) ==
  /\ s.content.height = s.height
  /\ AppHash(s.content.height, s.content.block, s.content.st) = s.trusted

Imported(c) ==
  [NewDb EXCEPT !.height = c.height, !.st = c.st, !.base = c.height,
                !.baseBlock = c.block]

\* apply_chunk, for a chunk that has the announced hash: another is asked
\* for again and changes nothing.  The last one imports the snapshot; if it
\* is refused the engine looks for another, whose offer begins a new session.
ApplyChunk(n, c) ==
  LET s == session[n]
      received == s.received \cup {c}
      accepted == Authentic(s) /\ Pristine(db[n])
  IN  /\ engine[n].phase = "restore"
      /\ s # None
      /\ c \in Chunk \ s.received
      /\ session' = [session EXCEPT ![n] = IF received = Chunk /\ ~accepted THEN None
                                            ELSE [@ EXCEPT !.received = received]]
      /\ db' = [db EXCEPT ![n] = IF received = Chunk /\ accepted
                                   THEN Imported(s.content) ELSE @]
      /\ engine' = [engine EXCEPT ![n].phase = IF received = Chunk /\ ~accepted
                                                 THEN "sync" ELSE @]
      /\ UNCHANGED <<consensus, late, export, snapshots, crashes,
                     exports, overtaken>>

\* The session ends; the engine compares Info with what it trusts and starts
\* from the state of the light client.
FinishRestore(n) ==
  LET s == session[n]
  IN  /\ engine[n].phase = "restore"
      /\ s # None
      /\ s.received = Chunk
      /\ db[n].height = s.height /\ CommittedHash(db[n]) = s.trusted
      /\ session' = [session EXCEPT ![n] = None]
      /\ engine' = [engine EXCEPT ![n].height = s.height, ![n].phase = "idle",
                      ![n].current = valset[s.height + 1],
                      ![n].following = valset[s.height + 2]]
      /\ UNCHANGED <<consensus, db, late, export, snapshots, crashes,
                     exports, overtaken>>

-----------------------------------------------------------------------------
Engine(n) ==
  \/ ServeFinalize(n) \/ SaveReply(n) \/ ServeCommit(n)
  \/ SaveState(n) \/ Restart(n)

StateSync(n) ==
  \/ ExportRead(n) \/ Publish(n) \/ FinishRestore(n)
  \/ \E s \in snapshots : OfferPublished(n, s)
  \/ \E h \in 1..(Height - 2) : OfferForged(n, h)
  \/ \E c \in Chunk : ApplyChunk(n, c)

Next ==
  \/ \E n \in Node :
       \/ /\ Ready(n) /\ Height < MaxHeight
          /\ \E block \in Proposals(n) : Decide(n, block)
       \/ Engine(n) \/ StateSync(n)
       \/ \E served \in BOOLEAN : Crash(n, served)
       \/ \E r \in late[n] : ServeLate(n, r)

\* A node's engine and service run; nothing is assumed of clients, operators,
\* the network or the decisions of consensus.
Fairness == \A n \in Node : WF_vars(Engine(n))

Spec == Init /\ [][Next]_vars /\ Fairness

-----------------------------------------------------------------------------
(* Properties.                                                             *)

\* The tables and the engine have the shapes the code gives them: a node's
\* commit rows are exactly the heights above its snapshot base.
TypeOK ==
  /\ Len(results) = Height + 1 /\ Len(valset) = Height + 2
  /\ \A v \in Range(valset) : v \in ValidatorSet
  /\ \A n \in Node :
       /\ db[n].st.balance \in [Address -> Nat] /\ db[n].st.nonce \in [Address -> Nat]
       /\ db[n].st.active \in ValidatorSet
       /\ DOMAIN db[n].commits = (db[n].base + 1)..db[n].height
       /\ DOMAIN db[n].emissions \subseteq DOMAIN db[n].commits
       /\ db[n].pending # None => db[n].pending.height = db[n].height + 1
       /\ engine[n].phase \in {"down", "sync", "restore", "idle", "save",
                               "commit", "advance"}
       /\ engine[n].height \in 0..Height
       /\ engine[n].current \in ValidatorSet /\ engine[n].following \in ValidatorSet
       /\ Len(export[n]) <= Len(Field)
       /\ session[n] # None => session[n].received \subseteq Chunk
  /\ crashes \in 0..MaxCrashes
  /\ overtaken \subseteq Node

\* Every node that has executed a height holds the one result of the decided
\* blocks up to it, whatever crashed, was repeated or came late.
ReplicasAgree ==
  \A n \in Node : LET h == db[n].height
                  IN  /\ h <= Height /\ results[h + 1].ok
                      /\ db[n].st = results[h + 1].st

\* FinalizeBlock gives one answer for a height, application hash and validator
\* updates, on every path: first execution, repetition while staged,
\* repetition after the commit, and on a node restored from a snapshot.
Answer(h) == [hash |-> Trusted(h), updates |-> results[h + 1].updates]

RepliesAgree ==
  \A n \in Node :
    /\ \A reply \in {engine[n].reply, engine[n].saved} \ {None} :
         reply = Answer(engine[n].height + 1)
    /\ \A h \in 1..Height :
         Finalizes(db[n], h, decided[h]) => FinalizeReply(db[n], h, decided[h]) = Answer(h)

\* The set that consensus uses for the next two blocks is the one the
\* application holds active for them.
EngineFollowsGovernance ==
  \A n \in Node :
    LET e == engine[n]
        gov == Gov(db[n].st)
    IN  e.height = db[n].height =>
          /\ e.current = Activated(gov, e.height + 1).active
          /\ e.following = IF gov.change = NoChange THEN gov.active
                                                   ELSE gov.change.target

\* A change of the validator set is approved by more than two thirds of the
\* validators that consensus uses for the block that carries it.
QuorumBehindEveryChange ==
  \A n \in Node :
    LET c == db[n].st.change
    IN  c # NoChange => /\ c.source = valset[c.emit]
                        /\ c.approvals \subseteq Members(valset[c.emit])
                        /\ Quorum(valset[c.emit], c.approvals)

\* Application and consensus use one set at every height, and those who were in
\* it agreed to the next.
SetChangesAgreed == EngineFollowsGovernance /\ QuorumBehindEveryChange

\* After any crash the engine finds the application where the handshake can
\* repair it, unless a late commit or the crash of a restore moved it on.
HandshakeSucceeds ==
  \A n \in Node \ overtaken : engine[n].phase = "down" => Resumable(n)

\* A decided block halts the chain if the application refuses it or the
\* engine refuses its validator updates.
Halts(h) ==
  \/ ~results[h + 1].ok
  \/ ~Applicable(valset[h + 1], results[h + 1].updates)

\* docs/EXECUTION_PROTOCOL_V1.md, line 90: a proposal is executed as a batch
\* before it is voted for, so what is decided can be executed.
DecidedBlocksExecute == \A h \in 1..Height : ~Halts(h)

\* A running node reaches the last decided block again and again, whatever
\* crashed before, unless that block cannot be executed.
CatchesUp ==
  \A n \in Node :
    []<>(\/ engine[n].height = Height
         \/ engine[n].phase \in {"sync", "restore"} \/ n \in overtaken
         \/ Halts(engine[n].height + 1))

\* The nodes implement AtomicLedger: staging, the answers of the engine and
\* every repetition are invisible, a commit is one step.
Ledger == INSTANCE AtomicLedger WITH
  Replica <- Node,
  results <- [i \in DOMAIN results |-> [ok |-> results[i].ok, st |-> results[i].st]],
  replica <- [n \in Node |-> [height |-> db[n].height, st |-> db[n].st]]

ImplementsAtomicLedger == Ledger!Spec
=============================================================================

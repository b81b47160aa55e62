# TLA+ verification of the CrakbitAI blockchain

`blockchain/crakbit_chain` is a Python blockchain in three generations that all
live in the tree. The current line (v0.31 to v0.37) is a proof-of-work UTXO
chain with a peer-to-peer node and a mining pool. The line before it (up to
v0.30) is a validator network: first a BFT node of its own, then an application
behind CometBFT, with services around it. Beside both stand the tools of the
launch campaigns: dozens of commands that write, check and sign evidence files.
This directory holds TLA+ models of the parts in which interleavings, crashes,
lost messages or the order of commands decide whether the result is right, the
TLC runs that check them, and TLAPS proofs about them.

`PROJECT.json` lists, for machines, what this file says in words: components,
runs, mutants, the source lines behind every definition, hazards, findings and
theorems.

## The system

Paths are relative to `blockchain/crakbit_chain/` unless they start with `/`
(then relative to `blockchain/`).

| component | source | state it keeps | status |
|---|---|---|---|
| UTXO chain | `pow_v31.py`, `pow_node_v31.py` | `blocks`, `transactions`, `utxos`, `mempool` | partly: headers and the wallet helper abstracted |
| block graph, fork choice | `pow_network_v32.py` (`PowNetworkChain`) | `block_graph`, `orphan_blocks`, the tables above | partly: targets abstracted |
| P2P synchronization | `pow_network_v32.py` (`PowP2PNode`) | sessions, endpoints, streams | partly: handshake, discovery, transaction gossip left out |
| difficulty, time | `pow_v31.py`, `pow_network_v32.py` | target, timestamps | not modelled |
| mining pool | `pow_pool_v31.py`, `pow_pool_v33.py` | `jobs`, `shares`, `rounds`, `balances`, `share_submissions_v33` | partly: difficulty and sockets abstracted |
| pool payouts | `pool_payout_v34.py` | `payout_plans_v34`, `balances` | modelled |
| undo journal, incremental reorganization | `pow_ops_v34.py`, `pow_reorg_v36.py` | journal rows | partly: peer book and statistics left out |
| miners | `mining_v33.py`, `xmrig_v33.py`, ... | the job they hold | not modelled (a job of PowChain, PowPool) |
| BFT node | `node.py`, `storage.py` | votes, locks, round, blocks | partly: transactions abstracted, secure variants left out |
| CometBFT application | `/cometbft-app/main.go` | none of its own | modelled |
| external commit and execution services | `external_commit_v21.py`, `execution_service_v21.py` | staged and committed ledger | partly: v1 to v3 of the protocol not apart |
| validator governance | `validator_governance_v21.py` | proposals, pending and active set | partly: lifecycle records left out |
| state sync, snapshots | `comet_state_sync*.py`, `external_state_sync*.py` | directories, session, chunk files | partly: signed snapshots and backups left out |
| faucet, rewards, gateway | `pow_mining.py`, `faucet_service.py`, `public_gateway.py` | challenges, distributions | partly: rate limits and queries left out |
| explorer index | `explorer_index.py` | index database | partly: queries left out |
| schema migrations | `schema_migrations_v20.py`, `_v21.py` | a database file | partly: field validation abstracted |
| evidence, gates, campaigns | v0.24 to v0.30, v0.34 to v0.37 | JSON files | partly: measured values are outcomes |
| command line | `cli*.py` | none | partly: the evidence commands are actions |
| web UI, token scanner, scripts, deployment | | | not modelled |

How they interact. The node's endpoints and the P2P handlers call the chain.
Miners and the pool call the node over HTTP: a template, then a submission. The
pool credits miners in its own database; the payout commands, separate
processes, read that database and the node's and hand an operator a transaction
to submit. In the older line validators ask each other for votes over HTTP, or
CometBFT calls the application through a Go bridge that forwards each ABCI call
to a Python service. Reward services and the gateway post transactions to a
validator. The evidence commands share nothing but files. Between two
components there is no common memory: they meet in SQLite commits, HTTP
requests, TCP messages and files, and these are the steps of the models.

What is hard, and what must hold:

* *Parallel endpoints on one database.* Plain-function endpoints run on the
  server's thread pool. Only the final transaction of a request is atomic; what
  the request read before may be stale. The ledger must still spend each output
  once, respect maturity and conserve coins; a validator must sign once.
* *Several commits per operation.* A block is stored, then activated, then its
  statuses and the mempool follow; finalize and commit are two calls; a
  migration is a sequence of commits. The process may die between any two.
* *Calls that outlive their caller.* The bridge gives up after 30 seconds and
  the service goes on, so a request may execute after its repetition.
* *Arrival order.* Blocks before parents, branches that overtake each other,
  votes for rounds that are over.
* *Retries and lost answers.* Pool to node, service to validator, miner to pool.
* *Two databases, no common transaction.* Payouts compare balances with node
  state read at other moments; an export reads tables one statement at a time.
* *Files as state.* Numbered samples, hash-chained logs, directories renamed
  into place, dozens of artifacts that name each other by hash.
* *Numeric edges.* Maturity, halving, rounding of rewards, confirmation depth,
  two thirds of a power, the height at which a change takes effect.

The hazards in `PROJECT.json` give the line where each bites and the property
that would catch it.

## Modules

Every component module declares its constants with the assumptions it needs,
its variables, one action per handler or step, and its properties at the end.
Operators marked "(Mutant: ...)" are the plausible bugs that `PROJECT.json`
substitutes to show that a property can fail.

### PowTransactions

The UTXO rules shared by the chain modules: outpoints, fees, `ValidTx`
(`validate_transaction`), `Connects` (the loop of
`_validate_block_transactions`), `Applied` (the effect of a block on `utxos`),
the subsidy. A transaction is a model value with a set of inputs `TxIn[t]` and
a sequence of amounts `TxOut[t]`; a coinbase is the triple of height, miner and
value, since its txid hashes exactly these. Signatures, addresses and sizes
are checks on the transaction alone, so `Tx` contains only transactions that
pass them. Sums and loops over a block are recursive functions and folds.
`Spelling[t][op]` is how a transaction writes the txid of an input: 0 for lower
case, other numbers for other mixtures of cases. It matters because the code
lowers it in some places (`pow_v31.py:505`, `:686`) and compares it as written in
others (`:478`, `:614`, `:789`): `Plain(t)` are the inputs in lower case,
`Written(t)` the inputs as written.

### PowChain

`PowChain` behind the v0.31 endpoints. A client's request and a miner's
template and submission have a program counter that moves from one SELECT to
the next.

| code | model |
|---|---|
| `submit_transaction`: SELECTs, `validate_transaction`, INSERT | `CheckTx`, `ValidateTx`, `InsertTx` |
| `get_block_template`: tip, rows, one validation per row, result | `TemplateTip`, `TemplateRows`, `TemplateCheck`, `TemplateDone` |
| `submit_block`: header checks, validation, BEGIN IMMEDIATE ... COMMIT or rollback | `CheckBlock`, `ValidateBlock`, `CommitBlock`, `RollbackBlock` |
| a block assembled by other software | `ForeignBlock` |

A block extends the tip or is refused, so the tip is its height. Foreign blocks
include chained spends, in-block double spends, a repeated transaction, a child
before its parent, an oversized list, and coinbases one unit off. Admission
validates and inserts in two steps (`pow_v31.py:544`), so two parallel requests
can put two spends of one output in the mempool; the ledger is sound in spite
of it, because templates and blocks are checked again. A spend that is not in
lower case needs no race for that. The mempool does not take it for a conflict,
nor does the template's `seen`, so a template may hold two spends of one output
in two spellings, and the node refuses the block mined on it while the tip has
not moved. `CurrentWorkCommits` excepts such templates (`SpelledApart`) and
nothing else. After the next block such a spend is deleted as stale, whether its
output is spent or not (`StillThere`), because it is looked up as written.

### PowNetwork, HeaviestChain

`PowNetworkChain`. Handlers run on one event loop and `accept_block` awaits
nothing, so handlers do not interleave; but each commit is a step, the locals
of the running calls are a stack (`accept_block` calls `_process_orphans`,
which calls `accept_block`), and `Crash` drops the stack between any two
commits and performs `_bootstrap_graph`. The set of blocks that exist is a
constant, so the canonical tables are a function of the tip (`Replay[tip]`) and
need no variables. History variables: `stranded` (blocks whose handler died
before their work was compared: `pow_network_v32.py:342`; a heavier branch
stays inactive until a descendant arrives), `unmarked` (a handler died between
the swap and the statuses).

Since a spend in upper case conflicts with none, `MempoolMinable` (a part of
`TablesFollowTip`) says that pending transactions are valid each for itself, and
spend one output only where one of them does not name it in lower case; a mempool
in lower case can be mined as a whole. `ReadmitsExactlyTheValid` makes the same
exception (`Displaces`): readmission goes by time of arrival, which is a wall
clock, and two such transactions may keep each other out when they come in the
other order.

`HeaviestChain` is the abstract specification: take notice of one valid block
at a time; the tip is the first noticed block of greatest work. `PowNetwork`
implements it with `noticed` mapped to the known blocks whose work has been
compared with the tip's.

### PowP2PSync

`PowP2PNode`, each on a chain that is what PowNetwork describes seen from
outside (known blocks, orphans, best tip; `accept_block` is one step). Every
case of `_handle_message` that concerns blocks is an action of the pair
(reader, sender); `chan` is the TCP stream of a session, in order; `_connect`
with the handshake, and the periodic getheaders of `_maintenance`, are
`Connect` and `Poll`. Locators and batches of headers are computed as in
`block_locator` and `headers_after`. A session ends on both sides with what is
on its way: by the network (`Drop`), by `note_message` (`ExceedRate`) or by the
exception of a block too far in the future (`RefuseBlock`); an orphan that is
too early when its parent arrives is lost, as in `_process_orphans`.

`Converges` says that nodes end up with tips of equal work, or are separated by
a fork that one locator and one batch of headers cannot bridge (`TooDeep`). The
exception is real: if the first 200 headers above the fork are all known
already and do not outweigh the receiver's chain, the receiver asks again with
a locator of its own chain and gets the same headers.

`SyncIsSound` is what must hold on the way: the tip is the heaviest known block
whatever order blocks and orphans came in, an orphan waits only while its parent is
missing, whatever is listed, announced or asked for is known to the peer that has
to send it, and `TooDeep` is met only by a branch longer than a batch above every
block that the lighter node names, so that the exception of `Converges` cannot hide
a shallow fork.

### PowPool

`HardenedCrakbitPool` (v0.33) with the v0.31 ledger. The pool serves one request
at a time (`call` holds its locals). The node it calls moves independently; a
post to it may be lost, or accepted with the answer lost, or refused. The four
commits of a submission (reservation, share, credit, refreshed job) are steps
and `Crash` comes between any two. `cut` records the submissions that an error
or a crash ended.

### PoolPayout

The payout commands of v0.34. Each operator runs one command at a time; every
SELECT is a step; the INSERT of a plan, the UPDATE of `mark_submitted` and the
debiting transaction are one step each, as in the code. The pool credits, the
operator submits plans' transactions, the node confirms them and reorganizes
its last block at any moment. History variables: `overlapped` (two commands ran
at the same time), `torn` (a reorganization came between the two reads of the
node in `reconcile_payout_plan`). Three things go wrong outside of what the
properties claim: two overlapping builds reserve one claim twice
(`pool_payout_v34.py:86`), two overlapping reconciliations of one plan debit it
twice if the balances allow it (`:248`, the state is read before the
transaction and not again inside), and height and tip are two reads (`:270`).
`PaidOnceAlone` and `FinalizedIsConfirmedUntorn` except these three; what they
show is that nothing else does.

### UndoJournal

`UndoJournalV34` and the rehearsal of `pow_reorg_v36.py`: commands of several
operators that build, verify and rehearse, read by read, while the node
connects blocks and moves from branch to branch. A branch is a sequence of
blocks; its UTXO table is `Ledger[branch]`. History in the commands says whether
a reorganization came between two reads (a torn row, a moved rehearsal).

The rehearsal copies the database with the journal in it (`CopyDatabase`), builds
all rows anew and verifies every row there is (`PrepareJournal`), and only then
disconnects blocks with them. Its verification may refuse although the chain
stands still: rows above the tip stay behind when a heavier branch is shorter
(`peak` remembers the greatest height), and a creator is looked up as the input
is written, so no row can be built for a block with an input in upper case
(`Journaled`). `RehearsalPasses` says that these are the only reasons and that
whatever gets past the verification passes.

### BftNode

`node.py` on the tables of `storage.py`: `db` is what a database keeps, `mem`
what only the process knows. A validator's loop synchronizes, builds or resends
its proposal, collects prevotes and precommits, finalizes, broadcasts, and
changes the view; each request to a peer is in `asked`, is served at any later
moment, and may time out on the caller's side. A crash loses `mem` (pending
block, certificates) and keeps `db`. `Threaded` says for which validators and
phases the plain-function vote handler interleaves with itself and with the
finalization (`ServeThread` splits checks and records); the run `bft_node` has
one such validator, `bft_threads` two. View timers are not modelled: an
impatient validator's timer may elapse at any time. Every validator is honest.

### ExternalCommit, ValidatorGovernance, AtomicLedger

The execution store of v0.21 on every node with its governance and state sync,
and the engine that drives it, seen from the calls the bridge receives.
Decisions of consensus are one sequence `decided`; `results` and `valset` are
what executing it gives. The engine of a node finalizes, saves the answer,
commits, saves its state; a crash may come anywhere, with the request served or
not; a request whose caller gave up waits in `late`. The handshake after a crash
is `Restart`. `ValidatorGovernance` has the rules of a change of the validator
set (emission at h, active from h + 2, more than two thirds of the power).
`overtaken` records nodes whose application a late commit or the crash of a
restore moved past the engine. A fresh node joins by state sync; peers also
offer forged snapshots.

`AtomicLedger` is the abstract specification: one sequence of results, replicas
that move on by one whole block or jump from genesis to a snapshot, and that
never show anything between. `ExternalCommit` implements it with the committed
height and state of each node as its replica.

### RewardServices

The mining reward service, the faucet and the research-mode gateway in front of
one validator with its mempool. A request is a coroutine that awaits an account
and a broadcast; a broadcast may be lost, answered late, or accepted with its
answer lost. `submit_transaction` of the validator validates before it takes
the lock (`CheckTransaction`, `InsertTransaction`); the endpoint then awaits its
peers before it answers (`AnswerTransaction`). A restart in between loses the
answer of a transaction that other validators have and will put in a block
(`Restart`, `Finalize`). What the model shows besides its properties:
overlapping requests miss each other's cooldown and read one nonce; a crash of
the service leaves a challenge `submitting` for ever; a lost answer, by the
client's timeout or the validator's restart, reopens a challenge that was paid
and leaves a faucet payment without a record, so that the next request is paid
at once; two claims with the same sender, recipient and nonce are one
transaction. `CooldownBetweenRecords` therefore speaks of recorded payments of
which the later check saw the earlier, and `PaymentsAccounted` excepts what was
`forgotten`.

### Evidence and the gates

`Evidence` has files, versions and typing slips. `ReviewGates` (v0.24 to v0.26),
`LaunchGates` (v0.27, v0.28), `RealExecution` (v0.29, v0.30) and `PowGates`
(v0.34 to v0.37) give, for every build function, the manifests it may return:
what it compares, what it copies, when it raises. `LaunchCampaign` lets people
run the commands, fill files again and mistype `MaxSlips` times, and states that
what comes out is about one candidate and has enough different people behind
it. What a gate does not compare is as faithful as what it does: a readiness of
v0.24 names no commit, the findings register's commit is not compared, the
upgrade rehearsal's plan is not compared with the identity's, the genesis of
v0.29 artifacts is compared among themselves and not with the candidate's
everywhere, the hash of the v0.30 drill is typed, the activation's genesis is
compared with nothing, minimums of the benchmark and testnet gates are typed.
Two more weaken what a gate is taken to say. The soak of v0.29 asks for a ratio of
passed samples (`SoakRatio`; 99 in 100 in the code), so a sample whose hosts ran
different commits, or were too few, may be part of the evidence that the real gate
and the freeze rest on: `LaunchIsOneCandidate` leaves out what is behind such a
sample (`FailedSample`), and `QuorumsAreDistinct` asks for holders behind passed
samples only. The rehearsal gate of v0.28 takes its minimum numbers of edges and of
sign-off keys as typed, without a floor (`strict`, `paired`): behind a freeze made
with a lower one, one key may have signed for every scope. Such a gate spends a
slip.
The properties claim exactly what the comparisons made carry. A campaign is
checked in parts: each starts in an empty directory or with the files that
earlier parts left, of which only readiness, plan, identity, report and the
observations of live hosts matter later (`StartsAssumption`, `Earlier`); what is
behind these is checked in the part that makes them. One of the six starts has a
host observed while it ran another commit, which is what a failed sample needs.

### MonitorLoop, CampaignLog

The monitor of a launch (`scripts/run_v30_monitor.py`) with the samples and
checkpoints of `operations_v30.py`, and the hash-chained log of
`pow_campaign_v36.py` with its collector: processes that are killed, restarted,
started twice, on a clock that may be set back. `drifted` and `disturbed` record
what takes the guarantee away: after a failed probe (which writes no sample but
uses a number up) and a restart, a sample that a checkpoint chains can be
overwritten; two overlapping appends, a torn line or a clock set back break the
log for ever.

### SnapshotExport, SnapshotRestore

The two sides of state sync. Export: ten reads of the committed tables while
blocks commit, the comparison of the two passes, the directory written under a
temporary name and renamed, several calls at a time, kills. Restore: offers,
chunks, the session file, one file per chunk, import and receipt, with calls
that overlap and kills between any two writes. `list_snapshots` finds the
temporary directories too, and two overlapping calls for one height can publish
a directory with a manifest and no chunks that no later call replaces; a kill
between the two writes of an offer loses chunk files that the session counts.
The properties are stated for the rest. `overlapped` and `abandoned` name the
snapshots that two calls wrote at one time or a kill left under its temporary
name: `ListedIsServed` is about all others, also about those that are exported
after a kill or during an overlap for another height. `cut` is set by a kill or an
overlap of the restoring calls and reset when a call alone opens the next session:
from then on the chunks that the session counts are on disk again.

### ExplorerIndex, SchemaMigration

The sync of the explorer index with a source that commits meanwhile or is
replaced by one of an older or newer base; and the migrations to schema 21,
statement by statement, with kills and reruns over what they left.

### MC modules

Each `MC*` module gives the constants of one run. `MCEvidence` composes the
seven programs that share nothing (campaign, monitor, log, export, restore,
index, migration): one of them runs in each behaviour, so its states are the
sum and not the product of theirs.

### Proof modules

`PowTransactions_proofs`, `PowChain_proofs`, `PowNetwork_proofs`,
`Pool_proofs` (payouts and mining), `Replication_proofs` (the BFT node and the
synchronization of blocks), `ExternalCommit_proofs`,
`Operations_proofs` (undo journal, campaign log, monitor, snapshots, explorer
index, migration, services that pay) and the library module `FoldInduction`;
see Proofs. The proofs about the campaign are the second half of
`PowChain_proofs`, only because the prover is slow on one long module.

## Runs

| run | question | bounds | result |
|---|---|---|---|
| `pow_chain` | Is the ledger sound under every interleaving of two submitters and two miners? | 4 transactions (three rivals, one of them in upper case, one child), 3 heights, maturity 2, halving every 2, 3 transactions per block | holds |
| `pow_network` | Does the node follow the heaviest chain, keep statuses and mempool right, connect its orphans? Does it implement `HeaviestChain`? | 8 blocks on 4 branches, one invalid, one too early; 4 transactions, one in upper case; 3 orphans, batch of 2, 1 crash | holds |
| `pow_p2p_sync` | Is each of two nodes that mined apart on the heaviest chain it knows, is every request served, do they end up with equal work, and stop asking? | 4 blocks on 2 branches, the heavier one longer than one batch; 2 headers, 1 request, 4 messages a second, 1 lost connection, one clock behind | holds |
| `pow_pool` | Are rewards credited exactly, once, and only for accepted blocks? | 2 miners, 3 nonces, 3 submissions, 2 attempts, 2 tips, window 2, 1 tick | holds |
| `pool_payout` | Are claims planned and debited once, only after confirmation? | 2 operators, 2 miners, 2 credits, 2 plans, 3 heights, 2 confirmations | holds |
| `undo_journal` | Do journal rows undo their blocks, does verify find those that do not, does the rehearsal pass? | 2 operators, 3 commands, 2 branches, a reorganization to a shorter one, an input in upper case, 2 blocks disconnected | holds |
| `bft_node` | Can two blocks be finalized at one height, or a validator sign two? | 4 validators, 1 height, 2 rounds, both proposers crash once, one hasty, one with interleaving handlers | holds |
| `bft_threads` | The same with two validators whose handlers interleave | 4 validators, 2 rounds, no crash | violated (finding 2) |
| `external_commit` | Do the nodes hold one ledger and one validator set, and get up after a crash? Do they implement `AtomicLedger`? | a validator and a joining node, 4 keys, 3 heights, 2 transactions a block, 1 export, 1 crash | holds |
| `external_proposal` | Can every decided block be executed? | the same without crash | violated (finding 1) |
| `reward_services` | Do the tables account for every payment, do claims settle, is a sender unblocked? | 2 addresses, 2 requests (both may run at a time), 2 challenges, 3 payments, 1 fault | holds |
| `evidence_and_sync` | Seven questions: is what is decided and published one candidate; do chained samples stay; does the log verify; is what is served committed; is what is restored trusted; does the index skip nothing; is what is migrated whole? | two typing slips (one of them spent before the long parts), 1 failed sample of 2 admitted, 3 hosts and approvers; 2 processes of each kind, 2 heights, 2 pieces, 2 disruptions, 3 migration runs | holds |

Why the bounds are enough. The chain instance reaches a spent, matured coinbase,
a halving, chained and rival spends in and across blocks, stale templates, and
stale validated blocks; two clients and two miners are what a pairwise race
needs, and every check in the code compares a request with at most one other
write. In the network instance branches of equal and of greater work, an
overtaking of two reorganizations, a fork below the tip, an orphan chain, an
invalid child of a valid block, a full orphan pool and a full batch all occur.
In the synchronization instance a branch is adopted and left again, the fork
spans more than one batch of headers, blocks arrive as orphans, a block is
refused and taken later, and sessions are closed in all three ways. It scales
the constants of the code down (`HeaderLimit` 200, `FetchLimit` 32,
`DenseLocator` 10, `RateLimit` 50); as there, a batch lists more headers than are
fetched from it, and locators have gaps. In the pool instance
the rounding leaves a rest, the window is smaller than the number of shares, a
job is refreshed under the same id, and retries are exhausted. In the payout
instance two plans select the same coin, a plan is capped, and change is spent.
The BFT instance has what a fork would need: two rounds with different
proposers, both of which crash and build again, a lock of the first round, and
prevotes of both. One height is enough because a validator refuses everything
for another height; a second one only appears in the proof, where all heights
are. In the external instance a change of the set is emitted, activated and
used, two rival transfers are decided, the joining node restores, and the crash
may hit any of finalize, save, commit, advance, export or restore. The two
services compete for one nonce and one cooldown, and each thing that goes wrong
there takes one lost answer, crash or restart. Each of the seven programs of
`evidence_and_sync` has two of each process, which is what its races need, and
one disruption more than it needs to go wrong. Where that was cheap, larger
instances were run by hand (a monitor with three ticks and three numbers, the
long parts of the campaign with two slips, the reward services with two faults):
they hold too.

`Max...` constants are bounds of the models only: they stop new work and change
nothing else. `CHECK_DEADLOCK FALSE` is set because the models stop when these
bounds are reached.

Symmetry: clients of `pow_chain` and operators of `pool_payout` and
`undo_journal` are interchangeable and appear in no ordered constant.

Fairness. Most specifications assume none: their properties are safety
properties. Three have liveness properties.
`PowP2PSync` assumes weak fairness of what the code schedules for ever: for each
pair of nodes the session's loop and the maintenance task (tasks of one event
loop that never block it; the task sleeps ten seconds and starts again), and of
a slow clock catching up. Mining, the passing of a second and lost connections
need not happen. Per pair, a message to read and work for the maintenance task
exclude each other in the model, so one fairness condition for both is no
stronger than one for each. `RateAssumption` (`RateLimit >= FetchLimit + 3`; 50
and 32 in the code) is needed: with less room a session can be closed by its
own answers before it has carried a block, and again after each reconnection.
`ExternalCommit` assumes that the engine of a node and its service go on and
that a crashed node is started again (`Engine`), and nothing of clients, of the
network or of consensus; `CatchesUp` excludes nodes in state sync, those moved
past their engine, and a block that nobody can execute.
`RewardServices` assumes that the event loops serve every request and that the
validator's turn to propose comes again and again. That a request ends is
justified by the HTTP timeouts; nothing ever reopens a challenge after a crash,
which is why `ClaimsSettle` excepts one.

## Findings

1. `/cometbft-app/main.go:263` (run `external_proposal`). Proposals are checked
   one transaction at a time, on the state after the last block. Two transfers
   with one nonce, or more transactions than the finalize endpoint takes, pass
   PrepareProposal and ProcessProposal, and the decided block is refused by every
   node: the chain halts. `docs/EXECUTION_PROTOCOL_V1.md:90` says that a proposal
   is previewed as a batch.
2. `node.py:341` (run `bft_threads`). The checks and the records of a vote are
   apart, without a lock, on a thread pool, and finalization prunes locks in
   between. Two validators of four whose handlers interleave in this way complete
   a second quorum. `AgreementHolds` proves the exact bound: fewer than a third.

Other facts that the models show and that their properties except by name are
listed with their modules above.

## Proofs

TLAPS proves, for every value of the constants that satisfies the named
assumptions, the theorems below. The assumptions are types and ranges of the
constants (TLC evaluates all of them on the instances); the ones that say more
are named where they are used.

* `PowChain_proofs`: `TypeCorrect`, `LedgerSound`, `CoinbaseMatures`,
  `ValidatedBlocksCommit`, `SupplyExact`, that is `Spec => []P` for
  `TypeOK`, `UtxoMatchesTransactions`, `MaturityRespected`, `CurrentWorkCommits`
  and `SupplyIsSubsidies`. None of them is inductive: a commit relies on what an
  earlier step of the same request has checked. `IInv` has three parts.
  `TypeOK`. `LedgerInv`: the UTXO table agrees with the confirmed transactions,
  these respected maturity, and each of their inputs is an output of a confirmed
  transaction or a coinbase no higher than the tip (without this last part a
  confirmed transaction might become valid a second time). `JobInv`: what each
  request has established so far still holds *if the tip has not moved*: between
  two commits the UTXO table is constant, so a check done under the same tip as
  the commit is as good as one done inside the transaction. The lemmas of
  `PowTransactions_proofs` carry the block-level facts: what `Connects` implies
  for a prefix of a block, that appending a selectable transaction keeps it, and
  what `Applied` removes and adds. `SupplyExact` adds to `IInv` that the UTXO table
  is finite and worth the subsidies so far: `ConnectedSum` says that a block whose
  transactions connect changes the worth of the table by minus its fees, and the
  coinbase adds the fees and one subsidy.
* `PowNetwork_proofs`: `TablesFit` (`TablesFollowTip`), `ReadmitsValid`
  (`ReadmitsExactlyTheValid`), `OrphansResolved` (`OrphanWaitsOnlyBehindBatch`) and
  `ForkChoiceImplemented`, the refinement of `HeaviestChain`, for any tree of
  blocks, any transactions, reorganizations of any depth, calls nested to any
  depth and any number of crashes. The recursive functions `Path` and `Replay`
  are shown to exist from the one assumption that the model makes about blocks:
  a block contains the hash of its parent, so that the parents are well-founded
  (`NetworkAssumption`; it also says that finitely many blocks exist, for the number
  of children of a parent to mean something). Along a branch, `ReplaySound` gives
  every ledger that replays the soundness that `PowChain_proofs` maintains step by
  step: both use `BlockKeepsLedger`. `NetInv` says what the innermost call has
  established in its phase. In the middle of a reorganization its list spends
  different outputs but where two spellings of one are pending (pending transactions
  spend the table, confirmed ones what is not in it), so that resubmitting one
  fails because of another only if it is displaced by a spelling of the same, and
  the mempool is what of the list it has come to and fits the new branch. A call that
  waits for a nested one has only its lists left. `OrphanInv` follows an orphan
  whose parent is known to the call that will come to it: the one that has still
  to look for its block's orphans, has the parent in its queue, or the orphan in
  its rows. TLC checked both on `pow_network` before they were proved.
* `Pool_proofs`, the payouts: `DepthRespected` (`FinalizedIsConfirmedUntorn`), for
  `Confirmations > 1`; with one confirmation a plan may be finalized in the last
  block, which a reorganization then replaces. What a running
  `reconcile_payout_plan` has read must still be true when it debits: the height
  it holds is the height on the chain, and a plan about to be debited lies
  strictly below the tip. A reorganization of one block cannot touch what lies
  below the tip. The statement is conditional on `~torn`. `TypeCorrect` (`TypeOK`:
  among other things no balance falls below zero) and `PaidOnce` (`PaidOnceAlone`)
  rest on a second invariant, `PaidInv`, which TLC checked first. It has the types
  of tables, plans and frames; that the coins a plan has selected cover what it
  pays; and for commands that run alone, what their reads are worth: claims still
  fit the balances less the other plans' reservations, and a plan about to be
  debited is not finalized yet. The sums are those of `FoldInduction`.
* `Pool_proofs`, the mining pool: `RewardsDistributed` (`BalancesAreRewards`),
  `CountedOnce` (`SubmissionCountsOnce`), `AcceptedAreCredited` (`CreditedExactly`),
  `ReservedHaveShares` (`ReservedAreCounted`) and `PoolTypeCorrect`. `MiningInv`,
  checked by TLC on `pow_pool` first, says of the running submission that its key
  is reserved, not counted before its share is added, and that no accepted block
  but its own has that key: two templates may share a job_id, and it is the
  reservation that keeps their blocks apart. The division of a reward is
  `CreditFacts`: the counts of the addresses add up to at most the window, hence
  the rounded portions to at most the reward, and the rest that the last address
  gets is not negative.
* `Operations_proofs`, the undo journal: `UndoInvertsConnect` (deleting what a block created and
  restoring what a right row names gives back the table before it, chained
  spends included), `RowsRestore`, `VerifySound`, `RehearsalPassed`. The
  invariant says of each running command what its reads so far are worth: as
  long as no reorganization came between them, they are of one chain; that no row
  of the journal, copied or not, is above the greatest height the chain has had
  (`peak`); and that after its verification a copy's rows are those built anew.
* `Replication_proofs`, the BFT node: `TypeCorrect`, `AgreementHolds`, `VotesOnce`,
  `ProposalsCertified`. `IInv` is `Types`, `Locking` (every precommit in the
  database has its lock, and a lock that was pruned belongs to a finalized
  height), `Asking` (a request on its way says what its sender's database says)
  and `Changing` (certificates consist of view changes that were made). Agreement
  needs the hypothesis that fewer than a third of the validators vote with
  handlers that interleave (`FewThreads`), and the intersection of quorums, proved
  from the library's facts on cardinalities; `bft_threads` shows that the bound
  cannot be dropped.
* `Replication_proofs`, the synchronization of blocks: `SyncSound` (`SyncIsSound`),
  `SyncTypesHold` (`SyncTypeOK`) and `TipsOnlyGrow` (no step loses a known block, a
  tip is left only for a heavier one), for any tree of blocks, any number of nodes,
  sessions and lost connections, any limits and any clocks that lag. The model
  assumes of blocks what PowNetwork does: a block contains the hash of its parent,
  so that there is no endless descent (`SyncAssumption`); `MinedInduction` and
  `MinedRecursion` turn that into induction over blocks and the existence of `Path`
  and `Work`. `SyncInv` has two parts. `TablesInv`: what a node knows holds the
  parents of its blocks, its tip is the heaviest of them, orphans are unknown and
  their parents too; `AcceptKeeps` is the one hard case, where the orphans that a
  block connects must form unbroken branches above it. `StreamsInv`: each message on
  its way is served by what sender and receiver know *now*; it is kept because
  tables only grow (`CarriesOn`), because a closed session carries nothing, and
  because a locator names blocks of its sender's chain (`LocatorFacts`) and the
  headers sent for it are blocks of the answering node's chain (`HeadersFacts`).
  The same lemma shows that a batch that reaches the tip lists it or finds it in
  the locator, which gives the part about deep forks. TLC checked `SyncIsSound` and
  `SyncTypeOK` on the instance before they were proved.
* `ExternalCommit_proofs`: `IInvariant`, `ReplicasAgreeAlways`,
  `RepliesAgreeAlways`, `SetChangesAgreedAlways`, `HandshakeSucceedsAlways`, and
  `LedgerImplemented`, the refinement of `AtomicLedger`. `IInv` explains every
  table, engine, session and late request by the one sequence of decided blocks:
  `Chain` (results are the replay of the blocks, sets the replay of the updates),
  `Governed` (each pending change is for the set of its height), `Functions`,
  `Exporting` (fields read so far are of committed states), and for each node
  `Tables`, `Driven`, `Starting`, `InStep` (engine and application are at most
  one block apart, with the answer saved), `Trusting` and `Requested`.
* `FoldInduction`: induction over the natural numbers, stated for a set because
  the library's theorem for an operator cannot be instantiated here, and derived
  from the well-foundedness of the naturals (`WFMin`); with it `Folding`: the
  community modules' fold over an interval obeys its step equation at every
  length. The replay of decided blocks in `ExternalCommit_proofs` is such a fold.
  `TotalTake`: the community modules' sum over a finite set, a fold that takes
  arbitrary elements, is the value of any one element plus the sum of the rest;
  from it the sum of a union, of a set without a part, of equal summands and of
  pointwise sums.
* `PowChain_proofs`, second half, the campaign: `CampaignRestsOnOneCandidate`
  (`OneCandidateThroughout`) and `CampaignGatesAreBacked` (`GatesAreBacked`), for
  any number of people, files, versions and slips, any thresholds and any start
  allowed by `StartsAssumption`. Files are never changed, so `CampaignInv` is a
  statement about each file and those it names, `Fitting`: it names existing files
  of the kinds its command reads and has the fields of its kind (`WellNamed`); if
  its gate passed, they name its commit and identity and passed themselves
  (`Agreeing`, but for the samples of a soak); the quorums and retests that it asks
  for exist (`Backed`, with `Soaked` for the ratio of a soak); and, for
  proof of work, what the command compares is equal (`Compared`). Each build
  function of the four gate modules has a lemma that what it returns fits, and
  `AddedInv` says that one more file leaves the others fitting. The properties
  speak of everything *behind* an artifact, a recursion over names:
  `BehindClosed` is the induction over it (what holds of a file and is passed on to
  those it names holds of all behind it), and for each property there is a set
  closed in this way (`OneWith`, `SignOffsBehind`, `RegistersBehind`,
  `BehindBundle`).
* `Operations_proofs`, the rest: one theorem for each other program of
  `evidence_and_sync`. `LogSound`: without a disturbance one writer at a time has read the
  log, which did not change since. `MonitorSound`: without a failed probe one
  loop runs, its number is the length of the chain, and each chained sample is
  in its file. `ExportSound`: each of the ten reads is of some committed state
  between the heights read before and after it, so equal passes at one height
  are that state; and for each name that no two calls held at one time, a
  manifest outside the temporary names has all its chunks. `RestoreSound`:
  whatever a session or a handler holds passed the comparison with the trusted
  hash, and since the session was opened by a call alone with nothing cut, counted
  chunks are on disk. `IndexSound`: rows held by a sync are the ones the
  index lacks, under the lock. `MigrationSound`: what each phase of a run may
  assume of the output. These invariants were checked by TLC on the instance
  before they were proved.
* `Operations_proofs`, the services that pay: `RewardsOnRecord`
  (`RewardsAccounted`). `ServiceInv` follows every transaction from the broadcast
  to the row: what was accepted for a claim is in a table, held by the request that
  will write it, or its answer got lost; a request that waits has its broadcast, and
  a broadcast that nobody waits for belongs to a lost answer; only the request that
  reserved a challenge has it. As long as no client timed out and the validator was
  not restarted, a challenge is open again only if nothing was paid and nothing is
  on its way for it, which is why a crash of the service (it leaves the challenge
  reserved) does not pay twice; a restart of the validator between the insert and
  the answer may, and is excepted as the timeout is. A cooldown
  check is worth what it has seen: the rows it read lie a cooldown back, and the
  clock is not set back.

Proved rather than run: `TypeOK` of PowChain, of PoolPayout and of BftNode,
`PoolTypeOK` of PowPool, `SyncTypeOK` of PowP2PSync.

Model-checked only:

* Liveness (`Converges`, `EventuallyQuiet`, `CatchesUp`, `ClaimsSettle`,
  `SenderUnblocked`): out of the prover's reach.
* That the campaign model's parts, one after the other, make a whole campaign: the
  files a part starts with are a constant, so what one part proves about a report
  and what the next assumes of it are joined by reading, not by a theorem.

Every safety property of every run is thus a theorem.

## Abstractions

* Headers are valid in PowChain; PowNetwork keeps timestamps (a block too far in
  the future is refused and may be accepted later) and work, not targets.
* Hash functions are injective: a block is its hash, a txid its transaction, a
  state its application hash, a file its slot and version.
* Signatures cannot be forged and every party signs what it made.
* A SQLite transaction is atomic and durable; a failed one leaves no trace. A
  rename and the write of one file are atomic where the code writes a temporary
  file first, and are not where it does not.
* Equal fees are ordered by arrival in the code, arbitrarily in the model.
* Of the letters of a txid only the case is kept, as a number for each mixture of
  cases (`Spelling`).
* Readmission goes through its list in order in the code, in any order in the
  model; `ReadmitsExactlyTheValid` therefore covers any order.
* Reorganizations seen by the payouts are one block deep, the depth a
  configuration of two confirmations is meant to absorb.
* In PowP2PSync a session is up on both sides or not at all, streams are unbounded,
  the one-second window empties at once, miners extend the current tip, a poll
  finds nothing on its way in its session (ten seconds are longer than an
  exchange), and nodes do not crash (PowNetwork has the crashes, and the batch of 64
  orphans that one block connects; here a block connects all). A locator has no
  largest length: with doubling steps its 32 entries span millions of blocks.
* `_process_orphans` has no recursion limit in the model (see the hazards).
* In BftNode `accept_block` with its pruning of votes and locks is one step, as
  are the tables it writes; a timer may elapse at any time.
* In ExternalCommit `stage_finalize` and `commit_pending` are one step each: each
  runs under the store's lock and in one SQLite transaction.
* In the gates a measured value is an outcome (passed or not), a duration a
  number of days, an operator, host and key one name where the code binds them.

## Plan

Done: PowTransactions, PowChain, PowNetwork, PowP2PSync, PowPool, PoolPayout,
UndoJournal, BftNode, ExternalCommit with ValidatorGovernance and state sync,
RewardServices, the gates and campaigns, MonitorLoop, CampaignLog,
SnapshotExport, SnapshotRestore, ExplorerIndex, SchemaMigration; proofs of the
modules named above.

Next:

1. Difficulty and timestamps as functions against a reference; the handshake
   and bounded streams of the P2P node.

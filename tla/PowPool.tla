-------------------------------- MODULE PowPool --------------------------------
(***************************************************************************)
(* The mining pool: HardenedCrakbitPool of pow_pool_v33.py on the ledger   *)
(* and the job handling of pow_pool_v31.py.                                *)
(*                                                                         *)
(* One process serves all miners and a request runs to completion, so      *)
(* requests do not interleave with each other.  They do interleave with    *)
(* the node, which they call over HTTP with retries, and the process may   *)
(* stop between two commits of its ledger: `call` holds the locals of the  *)
(* mining.submit that is running.                                          *)
(*                                                                         *)
(* A header is found by searching nonces of a template; `nonce` stands for *)
(* the pair of the session's extra nonce and the nonce.  Variable          *)
(* difficulty and the age limit of a job only decide which submissions are *)
(* refused and are left out: any miner may or may not have a share.        *)
(***************************************************************************)
EXTENDS Integers, SequencesExt

CONSTANTS
  Worker,            \* miners connected to the pool
  PayoutOf,          \* Worker -> the address it is paid on
  AddressOrder,      \* the payout addresses, sorted
  NoncesOf,          \* Worker -> its nonces that meet the share target
  BlockNonce,        \* those that meet the network target as well
  Reward,            \* coinbase_value of the node's templates
  Window,            \* pplns_window_shares
  Attempts,          \* attempts of _node_post, 3 in the code
  MaxBest,           \* bound of the model: canonical tips of the node
  MaxClock,          \* bound of the model: last reading of the clock
  MaxShares          \* bound of the model: number of submissions

Address == ToSet(AddressOrder)
Nonce   == UNION { NoncesOf[w] : w \in Worker }

ASSUME PoolAssumption ==
  /\ AddressOrder \in Seq(Address)
  /\ PayoutOf \in [Worker -> Address]
  /\ BlockNonce \subseteq Nonce
  /\ Reward \subseteq Nat
  /\ Window \in Nat \ {0} /\ Attempts \in Nat \ {0}
  /\ MaxBest \in Nat /\ MaxClock \in Nat

VARIABLES
  version,    \* node: the release it runs, "v0.31" or "v0.32"
  best,       \* node: number of its canonical tip, new at every change
  accepted,   \* node: blocks of the pool that it has accepted
  clock,      \* now_seconds()
  job,        \* jobs table: template of the active job, at most one
  work,       \* miner -> the template it was given, at most one
  reserved,   \* share_submissions_v33 table: <<job_id, nonce>>
  shares,     \* shares table: [payout, key]
  balances,   \* balances table: address -> pending_amount
  rounds,     \* rounds table: blocks that have been credited
  call,       \* the running mining.submit
  cut,        \* history: keys of submissions ended by a crash or by the failure
              \* of every attempt
  refused     \* history: keys of submissions whose block the node refused

poolVars == <<version, best, accepted, clock, job, work, reserved, shares, balances,
              rounds, call, cut, refused>>

Template == [parent : 0..MaxBest, reward : Reward, time : 0..MaxClock]

\* job_id hashes height, parent, Merkle root (hence the reward) and targets, but
\* not the timestamp.
JobId(template) == <<template.parent, template.reward>>
Key(c) == <<JobId(c.template), c.nonce>>

NoCall == [pc |-> "idle"]

\* A block is the template with the nonce that solves it.
Block(c) == [template |-> c.template, nonce |-> c.nonce]
BlockKey(b) == <<JobId(b.template), b.nonce>>

-----------------------------------------------------------------------------
PoolInit ==
  /\ version \in {"v0.31", "v0.32"}
  /\ best = 0
  /\ accepted = {}
  /\ clock = 0
  /\ job = {}
  /\ work = [w \in Worker |-> {}]
  /\ reserved = {}
  /\ shares = << >>
  /\ balances = [a \in Address |-> 0]
  /\ rounds = {}
  /\ call = NoCall
  /\ cut = {}
  /\ refused = {}

-----------------------------------------------------------------------------
(* mining.get_job: worker_job and refresh_job.                             *)

\* The node's answer to getblocktemplate.
NodeTemplate(t) == t.parent = best /\ t.time = clock

\* The cached job is recent enough.
CachedJob(w) ==
  /\ call = NoCall
  /\ job # {}
  /\ work' = [work EXCEPT ![w] = job]
  /\ UNCHANGED <<best, accepted, clock, job, reserved, shares, balances, rounds, call, cut>>

\* put_job: the new template becomes the active job, also if it has the job_id
\* of the one it replaces.
RefreshedJob(w) ==
  /\ call = NoCall
  /\ \E t \in Template :
       /\ NodeTemplate(t)
       /\ job' = {t}
       /\ work' = [work EXCEPT ![w] = {t}]
  /\ UNCHANGED <<best, accepted, clock, reserved, shares, balances, rounds, call, cut>>

-----------------------------------------------------------------------------
(* mining.submit.                                                          *)

\* The submission names the active job, and the header that the pool rebuilds
\* from the active template is the one the miner hashed.
OnActiveJob(t) == \E a \in job : JobId(a) = JobId(t) /\ a.time = t.time

\* (Mutant: reserve_share does not look for the key.)
SubmitAgain(w, n) ==
  /\ call = NoCall
  /\ Len(shares) < MaxShares
  /\ \E t \in work[w] :
       /\ OnActiveJob(t)
       /\ reserved' = reserved \cup {<<JobId(t), n>>}
       /\ call' = [pc |-> IF n \in BlockNonce THEN "post" ELSE "add",
                   worker |-> w, template |-> t, nonce |-> n, attempt |-> 1]
  /\ UNCHANGED <<best, accepted, clock, job, work, shares, balances, rounds, cut>>

\* reserve_share commits the key of the submission, or refuses a replay.
Submit(w, n) ==
  /\ call = NoCall
  /\ Len(shares) < MaxShares
  /\ \E t \in work[w] :
       /\ OnActiveJob(t)
       /\ <<JobId(t), n>> \notin reserved
       /\ reserved' = reserved \cup {<<JobId(t), n>>}
       /\ call' = [pc |-> IF n \in BlockNonce THEN "post" ELSE "add",
                   worker |-> w, template |-> t, nonce |-> n, attempt |-> 1]
  /\ UNCHANGED <<best, accepted, clock, job, work, shares, balances, rounds, cut>>

\* The node accepts the block: a v0.32 node any valid one, side branches and
\* known ones included, a v0.31 node only a child of its tip.
\* (Mutant: a v0.32 node that refuses known blocks.)
NodeAcceptsNew(b) == b \notin accepted /\ (version = "v0.32" \/ b.template.parent = best)

NodeAccepts(b) == version = "v0.32" \/ (b \notin accepted /\ b.template.parent = best)

NodeTakes(b) ==
  /\ accepted' = accepted \cup {b}
  /\ best' = IF b \notin accepted /\ b.template.parent = best THEN best + 1 ELSE best

\* The request raises: the submission stays reserved and is not counted.
Raise ==
  /\ call' = NoCall
  /\ cut' = cut \cup {Key(call)}

\* A transport error or a status of 500 and above: another attempt, if any.
Retry ==
  IF call.attempt < Attempts THEN call' = [call EXCEPT !.attempt = @ + 1] /\ UNCHANGED cut
                             ELSE Raise

\* POST submitblock: the node accepts the block and the pool hears of it.
PostAccepted ==
  /\ call.pc = "post"
  /\ best < MaxBest
  /\ NodeAccepts(Block(call))
  /\ NodeTakes(Block(call))
  /\ call' = [call EXCEPT !.pc = "add"]
  /\ UNCHANGED <<clock, job, work, reserved, shares, balances, rounds, cut>>

\* The node refuses the block with a status of 400: the request raises at once.
PostRefused ==
  /\ call.pc = "post"
  /\ ~NodeAccepts(Block(call))
  /\ call' = NoCall
  /\ refused' = refused \cup {Key(call)}
  /\ UNCHANGED <<best, accepted, clock, job, work, reserved, shares, balances, rounds, cut>>

\* The node accepts the block and its answer is lost.
PostAnswerLost ==
  /\ call.pc = "post"
  /\ best < MaxBest
  /\ NodeAccepts(Block(call))
  /\ NodeTakes(Block(call))
  /\ Retry
  /\ UNCHANGED <<clock, job, work, reserved, shares, balances, rounds>>

\* The request does not reach the node, or the node fails without a trace.
PostLost ==
  /\ call.pc = "post"
  /\ Retry
  /\ UNCHANGED <<best, accepted, clock, job, work, reserved, shares, balances, rounds>>

\* add_share, and record_worker_share.
\* (Mutant: the table is pruned to the window.)
AddSharePruned ==
  /\ call.pc = "add"
  /\ LET all == Append(shares, [payout |-> PayoutOf[call.worker], key |-> Key(call)])
     IN  shares' = SubSeq(all, Max({1, Len(all) - Window + 1}), Len(all))
  /\ call' = IF call.nonce \in BlockNonce THEN [call EXCEPT !.pc = "credit"] ELSE NoCall
  /\ UNCHANGED <<best, accepted, clock, job, work, reserved, balances, rounds, cut>>

AddShare ==
  /\ call.pc = "add"
  /\ shares' = Append(shares, [payout |-> PayoutOf[call.worker], key |-> Key(call)])
  /\ call' = IF call.nonce \in BlockNonce THEN [call EXCEPT !.pc = "credit"] ELSE NoCall
  /\ UNCHANGED <<best, accepted, clock, job, work, reserved, balances, rounds, cut>>

\* credit_pplns: the reward is divided in proportion to the last Window shares,
\* rounded down, and the last address in order gets what is left.
WindowShares == SubSeq(shares, Max({1, Len(shares) - Window + 1}), Len(shares))

CountOf(a, rows) == Cardinality({ i \in 1..Len(rows) : rows[i].payout = a })

\* (Mutant: nobody gets the rest.)
Portions(reward, rows) == [a \in Address |-> (reward * CountOf(a, rows)) \div Len(rows)]

Credits(reward, rows) ==
  LET paid    == { i \in 1..Len(AddressOrder) : CountOf(AddressOrder[i], rows) > 0 }
      last    == AddressOrder[Max(paid)]
      others  == { AddressOrder[i] : i \in paid } \ {last}
      portion == Portions(reward, rows)
  IN  [portion EXCEPT ![last] = reward - MapThenSumSet(LAMBDA o : portion[o], others)]

CreditPPLNS ==
  /\ call.pc = "credit"
  /\ IF Block(call) \in rounds THEN UNCHANGED <<balances, rounds>>
     ELSE LET credits == Credits(call.template.reward, WindowShares) IN
          /\ balances' = [a \in Address |-> balances[a] + credits[a]]
          /\ rounds' = rounds \cup {Block(call)}
  /\ call' = [call EXCEPT !.pc = "refresh"]
  /\ UNCHANGED <<best, accepted, clock, job, work, reserved, shares, cut>>

\* refresh_job(force=True), which may fail.
RefreshAfterBlock ==
  /\ call.pc = "refresh"
  /\ \/ \E t \in Template : NodeTemplate(t) /\ job' = {t}
     \/ UNCHANGED job
  /\ call' = NoCall
  /\ UNCHANGED <<best, accepted, clock, work, reserved, shares, balances, rounds, cut>>

-----------------------------------------------------------------------------
(* The environment.                                                        *)

\* The node's best chain changes without the pool: a block of somebody else or
\* a reorganization.
NodeMoves ==
  /\ best < MaxBest
  /\ best' = best + 1
  /\ UNCHANGED <<accepted, clock, job, work, reserved, shares, balances, rounds, call, cut>>

Tick ==
  /\ clock < MaxClock
  /\ clock' = clock + 1
  /\ UNCHANGED <<best, accepted, job, work, reserved, shares, balances, rounds, call, cut>>

\* The pool stops in the middle of a request and starts again.  The miners
\* connect again, with new extra nonces, and ask for a job.
Crash ==
  /\ call # NoCall
  /\ call' = NoCall
  /\ cut' = IF call.pc = "refresh" THEN cut ELSE cut \cup {Key(call)}
  /\ work' = [w \in Worker |-> {}]
  /\ UNCHANGED <<best, accepted, clock, job, reserved, shares, balances, rounds>>

GetJob(w) == CachedJob(w) \/ RefreshedJob(w)

FinishSubmit ==
  \/ PostAccepted \/ PostAnswerLost \/ PostLost
  \/ AddShare \/ CreditPPLNS \/ RefreshAfterBlock

\* The node keeps its release.
PoolNext ==
  /\ \/ PostRefused
     \/ /\ \/ \E w \in Worker : GetJob(w) \/ \E n \in NoncesOf[w] : Submit(w, n)
           \/ FinishSubmit
           \/ NodeMoves \/ Tick \/ Crash
        /\ UNCHANGED refused
  /\ UNCHANGED version

PoolSpec == PoolInit /\ [][PoolNext]_poolVars

-----------------------------------------------------------------------------
(* Properties.                                                             *)

Blocks == [template : Template, nonce : BlockNonce]
Keys == { <<JobId(t), n>> : t \in Template, n \in Nonce }
Calls == {NoCall} \cup
         [pc : {"post", "add", "credit", "refresh"}, worker : Worker,
          template : Template, nonce : Nonce, attempt : 1..Attempts]

\* The tables hold values of their kind; no balance is negative.
PoolTypeOK ==
  /\ version \in {"v0.31", "v0.32"}
  /\ best \in 0..MaxBest /\ clock \in 0..MaxClock
  /\ accepted \subseteq Blocks /\ rounds \subseteq Blocks
  /\ job \subseteq Template
  /\ work \in [Worker -> SUBSET Template]
  /\ reserved \subseteq Keys /\ cut \subseteq Keys /\ refused \subseteq Keys
  /\ shares \in Seq([payout : Address, key : Keys])
  /\ balances \in [Address -> Nat]
  /\ call \in Calls

\* What miners are owed is exactly what the credited blocks earned: no rounding
\* of the division creates or loses an atomic unit, and a crash between any two
\* commits neither credits a block in part nor twice.
BalancesAreRewards ==
  MapThenSumSet(LAMBDA a : balances[a], Address)
    = MapThenSumSet(LAMBDA b : b.template.reward, rounds)

\* V0.33.md: "a (job_id, extra_nonce, nonce) submission can only be credited
\* once", across replays, other miners' sessions, crashes and refreshed jobs.
SubmissionCountsOnce ==
  \A i, j \in 1..Len(shares) : shares[i].key = shares[j].key => i = j

\* Miners are credited for exactly the blocks of the pool that the node has
\* accepted, although answers get lost and requests are repeated: never for
\* another block, and between two requests for every one, unless the pool
\* crashed or no attempt got an answer.  A v0.31 node adds an exception: it
\* refuses the retry of a block that it has accepted.
CreditedExactly ==
  /\ rounds \subseteq accepted
  /\ call = NoCall =>
    \A b \in accepted :
      \/ b \in rounds
      \/ BlockKey(b) \in cut
      \/ version = "v0.31" /\ BlockKey(b) \in refused

\* Between two requests a reserved submission has been counted as a share, so that
\* the refusal of its replay takes nothing from the miner, unless the request
\* that reserved it ended in an error or a crash.
ReservedAreCounted ==
  call = NoCall =>
    \A k \in reserved : k \in cut \cup refused \/ \E i \in 1..Len(shares) : shares[i].key = k
=============================================================================

--------------------------- MODULE RewardServices ---------------------------
(***************************************************************************)
(* The services that pay test units (pow_mining.py, faucet_service.py)     *)
(* through the public gateway in research mode, and the mempool of the     *)
(* validator behind it (node.py).                                          *)
(*                                                                         *)
(* A request is a coroutine that awaits an account and a broadcast; its    *)
(* database statements run between the awaits.  A service pays with one    *)
(* key, one nonce after another.  A transaction has neither a timestamp    *)
(* nor a claim in it: sender, recipient and nonce tell its txid.           *)
(***************************************************************************)
EXTENDS Integers, Sequences, FiniteSets, SequencesExt

CONSTANTS
  Recipient,        \* recipients
  Handler,          \* requests that run at a time
  NoOne,            \* a caller that has given up
  Funds,            \* payments that each of the two keys can make
  Ttl,              \* challenge_ttl_seconds
  Cooldown,         \* address_cooldown_seconds, of both services
  Day, DailyLimit,  \* max_rewards_per_address_per_day
  MaxNow,           \* bounds of the model: clock, challenges, requests, and
  MaxChallenges,    \* lost answers, crashes of a service and restarts of the
  MaxRequests,      \* validator together
  MaxFailures

ASSUME ServiceAssumption ==
  /\ NoOne \notin Handler
  /\ Cooldown \in Nat /\ MaxChallenges \in Nat

VARIABLES
  now,            \* the clock of the services
  challenges,     \* mining_challenges, in the order of creation
  distributions,  \* faucet_distributions
  handler,        \* Handler -> the request it serves
  nonce,          \* key -> its nonce in the accounts table
  mempool,        \* pending transactions of the validator
  posts,          \* broadcasts on their way to or inside the validator
  paid,           \* history: claim -> transactions accepted for it
  forgotten,      \* history: claim -> transactions whose answer got lost
  requests,       \* number of requests so far
  failures        \* faults so far

store == <<challenges, distributions>>
node == <<nonce, mempool>>
history == <<paid, forgotten>>
bounds == <<requests, failures>>
serviceVars == <<now, store, handler, node, posts, history, bounds>>

Key == {"mining", "faucet"}
Claim == {<<"mining", c>> : c \in 1..MaxChallenges} \cup {<<"faucet", a>> : a \in Recipient}

KeyOf(claim) == claim[1]

\* What the validator ever took into its mempool, and gossiped.
AcceptedTxs == UNION { paid[claim] : claim \in Claim }

Failure(kind) ==
  /\ Len(failures) < MaxFailures
  /\ failures' = Append(failures, kind)
  /\ UNCHANGED requests

-----------------------------------------------------------------------------
(* The clock and the challenges.                                           *)

Tick == now < MaxNow /\ now' = now + 1 /\ UNCHANGED <<store, handler, node, posts, history, bounds>>

\* What issue_challenge counts.
Claimed(a) ==
  { c \in DOMAIN challenges : challenges[c].address = a /\ challenges[c].status = "submitted" }

\* issue_challenge.  (It returns an open challenge that has not expired.)
IssueChallenge(a) ==
  /\ Len(challenges) < MaxChallenges
  /\ \A c \in Claimed(a) : now - challenges[c].claimed >= Cooldown
  /\ Cardinality({ c \in Claimed(a) : challenges[c].claimed >= now - Day }) < DailyLimit
  /\ \A c \in DOMAIN challenges :
       challenges[c].address = a /\ challenges[c].status = "open"
         => challenges[c].created + Ttl <= now
  /\ challenges' = Append(challenges,
       [address |-> a, status |-> "open", created |-> now, claimed |-> -1,
        tx |-> << >>,
        seen |-> { c \in DOMAIN challenges : challenges[c].status = "submitted" }])
  /\ UNCHANGED <<now, distributions, handler, node, posts, history, bounds>>

-----------------------------------------------------------------------------
(* Requests.                                                               *)

NoRequest == [pc |-> "idle"]

\* Coroutines are alike: a new request is served by the first free one.
Free(h) == handler[h] = NoRequest /\ h = CHOOSE g \in Handler : handler[g] = NoRequest

Request(h, claim, to, seen) ==
  /\ Free(h) /\ requests < MaxRequests
  /\ handler' = [handler EXCEPT ![h] =
       [pc |-> "account", claim |-> claim, to |-> to, tx |-> << >>, seen |-> seen]]
  /\ requests' = requests + 1 /\ UNCHANGED failures

\* submit: reserve_solution, in one transaction.  (An expired challenge raises,
\* which also rolls the update to `expired' back.)
ReserveSolution(h, c) ==
  /\ challenges[c].status = "open" /\ challenges[c].created + Ttl >= now
  /\ challenges' = [challenges EXCEPT ![c].status = "submitting", ![c].claimed = now]
  /\ Request(h, <<"mining", c>>, challenges[c].address, {})
  /\ UNCHANGED <<now, distributions, node, posts, history>>

\* request_funds up to its first await: cooldown_remaining reads the latest
\* distribution.
RequestFunds(h, a) ==
  /\ \A i \in DOMAIN distributions :
       distributions[i].address = a => now - distributions[i].at >= Cooldown
  /\ Request(h, <<"faucet", a>>, a, DOMAIN distributions)
  /\ UNCHANGED <<now, store, node, posts, history>>

\* release_solution: nothing but the status tells that it was tried.
\* (Mutant: it stays reserved.)
ReleasedNot(c) == challenges
Released(c) == [challenges EXCEPT ![c].status = "open", ![c].claimed = -1]

\* mark_submitted.
\* (Mutant: without the txid that was accepted.)
SubmittedBlank(c, tx) == [challenges EXCEPT ![c].status = "submitted"]
Submitted(c, tx) == [challenges EXCEPT ![c].status = "submitted", ![c].tx = tx]

\* The account is read at the validator; the transaction is built from it and
\* broadcast.
ReadAccount(h) ==
  LET f == handler[h]
      key == KeyOf(f.claim)
      tx == [from |-> key, to |-> f.to, nonce |-> nonce[key] + 1]
  IN
  /\ f.pc = "account"
  /\ IF nonce[key] < Funds
     THEN /\ handler' = [handler EXCEPT ![h].pc = "wait", ![h].tx = tx]
          /\ posts' = posts \cup {[tx |-> tx, claim |-> f.claim, by |-> h, at |-> "sent"]}
     ELSE /\ handler' = [handler EXCEPT ![h].pc = "refused"]
          /\ UNCHANGED posts
  /\ UNCHANGED <<now, store, node, history, bounds>>

\* The answer is there.
Answered(h) ==
  LET f == handler[h] IN
  /\ f.pc = "accepted"
  /\ IF KeyOf(f.claim) = "mining"
     THEN challenges' = Submitted(f.claim[2], f.tx) /\ UNCHANGED distributions
     ELSE /\ distributions' = Append(distributions, [address |-> f.to, at |-> now, tx |-> f.tx, seen |-> f.seen])
          /\ UNCHANGED challenges
  /\ handler' = [handler EXCEPT ![h] = NoRequest]
  /\ UNCHANGED <<now, node, posts, history, bounds>>

\* An exception: mining releases the challenge, the faucet does nothing.
Release(claim) ==
  IF KeyOf(claim) = "mining" THEN challenges' = Released(claim[2])
                             ELSE UNCHANGED challenges

Refused(h) ==
  /\ handler[h].pc = "refused"
  /\ Release(handler[h].claim)
  /\ handler' = [handler EXCEPT ![h] = NoRequest]
  /\ UNCHANGED <<now, distributions, node, posts, history, bounds>>

\* What the validator still does for callers that are gone.
Abandoned(gone) ==
  { IF p.by \in gone THEN [p EXCEPT !.by = NoOne] ELSE p : p \in posts }

\* Their transactions may have been accepted.
Forgot(gone) ==
  [claim \in Claim |-> forgotten[claim] \cup
     { handler[h].tx : h \in { g \in gone : handler[g].pc \in {"wait", "accepted"}
                                              /\ handler[g].claim = claim } }]

\* The client times out, or cannot read the answer.
Timeout(h) ==
  /\ handler[h].pc \in {"account", "wait", "accepted"}
  /\ Release(handler[h].claim)
  /\ handler' = [handler EXCEPT ![h] = NoRequest]
  /\ posts' = Abandoned({h})
  /\ forgotten' = Forgot({h})
  /\ Failure("timeout")
  /\ UNCHANGED <<now, distributions, node, paid>>

\* A service stops and starts: its tables stay as they are.
Crash(key) ==
  LET gone == { h \in Handler : handler[h] # NoRequest /\ KeyOf(handler[h].claim) = key } IN
  /\ gone # {}
  /\ handler' = [h \in Handler |-> IF h \in gone THEN NoRequest ELSE handler[h]]
  /\ posts' = Abandoned(gone)
  /\ forgotten' = Forgot(gone)
  /\ Failure("crash")
  /\ UNCHANGED <<now, store, node, paid>>

-----------------------------------------------------------------------------
(* The validator.                                                          *)

\* validate_transaction against the accounts table.
Valid(tx) == tx.nonce = nonce[tx.from] + 1 /\ nonce[tx.from] < Funds

Answer(p, pc) ==
  handler' = IF p.by = NoOne THEN handler ELSE [handler EXCEPT ![p.by].pc = pc]

\* The endpoint and proposing run on the event loop, which the endpoint leaves
\* when it awaits its peers; blocks of other validators run on a thread of their
\* own.
LoopFree == \A p \in posts : p.at # "checked"

Moved(p, at) == (posts \ {p}) \cup {[p EXCEPT !.at = at]}

\* submit_transaction validates before it takes the lock.
CheckTransaction(p) ==
  /\ p.at = "sent" /\ LoopFree
  /\ IF Valid(p.tx) THEN posts' = Moved(p, "checked") /\ UNCHANGED handler
                    ELSE posts' = posts \ {p} /\ Answer(p, "refused")
  /\ UNCHANGED <<now, store, node, history, bounds>>

\* Under the lock: one pending transaction per sender.
InsertTransaction(p) ==
  /\ p.at = "checked"
  /\ IF \E tx \in mempool : tx.from = p.tx.from
     THEN posts' = posts \ {p} /\ Answer(p, "refused") /\ UNCHANGED <<mempool, paid>>
     ELSE /\ posts' = Moved(p, "gossip")
          /\ mempool' = mempool \cup {p.tx}
          /\ paid' = [paid EXCEPT ![p.claim] = @ \cup {p.tx}]
          /\ UNCHANGED handler
  /\ UNCHANGED <<now, store, nonce, forgotten, bounds>>

\* The answer follows when every peer was sent the transaction.
AnswerTransaction(p) ==
  /\ p.at = "gossip"
  /\ posts' = posts \ {p} /\ Answer(p, "accepted")
  /\ UNCHANGED <<now, store, node, history, bounds>>

\* _select_transactions.
\* (Mutant: what is not valid any more stays.)
SelectedAll == mempool
Selected == { tx \in mempool : Valid(tx) }

SelectTransactions ==
  /\ LoopFree
  /\ mempool' = Selected /\ mempool' # mempool
  /\ UNCHANGED <<now, store, handler, nonce, posts, history, bounds>>

\* A block is finalized: accept_block applies it and takes its transactions
\* out of the mempool.  Another validator may have proposed it, from what was
\* gossiped to it.
Finalize(block) ==
  /\ block # {} /\ \A tx \in block : Valid(tx)
  /\ \A s, t \in block : s.from = t.from => s = t
  /\ nonce' = [key \in Key |-> nonce[key] + Cardinality({ tx \in block : tx.from = key })]
  /\ mempool' = mempool \ block
  /\ UNCHANGED <<now, store, handler, posts, history, bounds>>

\* A proposal of this validator.
OwnBlock == Finalize(Selected)

\* The mempool is in memory only, and so are the requests inside: the callers
\* get an error, also those whose transaction is on its way to other validators.
Restart ==
  /\ mempool' = {} /\ posts' = {}
  /\ handler' = [h \in Handler |-> IF handler[h].pc = "wait" THEN [handler[h] EXCEPT !.pc = "refused"]
                                   ELSE handler[h]]
  /\ forgotten' = Forgot({ h \in Handler : \E p \in posts : p.by = h /\ p.at = "gossip" })
  /\ Failure("restart")
  /\ UNCHANGED <<now, store, nonce, paid>>

-----------------------------------------------------------------------------
ServiceInit ==
  /\ now = 0 /\ challenges = << >> /\ distributions = << >>
  /\ handler = [h \in Handler |-> NoRequest]
  /\ nonce = [key \in Key |-> 0] /\ mempool = {} /\ posts = {}
  /\ paid = [claim \in Claim |-> {}] /\ forgotten = [claim \in Claim |-> {}]
  /\ requests = 0 /\ failures = << >>

Proceed(h) == ReadAccount(h) \/ Answered(h) \/ Refused(h)
Process(p) == CheckTransaction(p) \/ InsertTransaction(p) \/ AnswerTransaction(p)

ServiceNext ==
  \/ Tick
  \/ \E a \in Recipient : IssueChallenge(a)
  \/ \E h \in Handler :
       \/ \E c \in DOMAIN challenges : ReserveSolution(h, c)
       \/ \E a \in Recipient : RequestFunds(h, a)
       \/ Proceed(h) \/ Timeout(h)
  \/ \E key \in Key : Crash(key)
  \/ \E p \in posts : Process(p)
  \/ SelectTransactions
  \/ \E block \in SUBSET AcceptedTxs : Finalize(block)
  \/ Restart

\* The event loops serve every request, and the validator's turn to propose
\* comes again and again.
Fairness ==
  /\ WF_serviceVars(\E h \in Handler : Proceed(h))
  /\ WF_serviceVars(\E p \in posts : Process(p))
  /\ WF_serviceVars(SelectTransactions) /\ WF_serviceVars(OwnBlock)

ServiceSpec == ServiceInit /\ [][ServiceNext]_serviceVars /\ Fairness

-----------------------------------------------------------------------------
(* Properties.                                                             *)

Recorded(claim) ==
  IF KeyOf(claim) = "mining"
  THEN { challenges[c].tx : c \in { d \in DOMAIN challenges : d = claim[2] /\ challenges[d].status = "submitted" } }
  ELSE { distributions[i].tx : i \in { j \in DOMAIN distributions : distributions[j].address = claim[2] } }

\* Accepted, and the service is still to be told or to write it down.
Unrecorded(claim) ==
  { handler[h].tx : h \in { g \in Handler : handler[g].pc = "accepted" /\ handler[g].claim = claim } }
    \cup { p.tx : p \in { q \in posts : q.at = "gossip" /\ q.claim = claim } }

\* The tables name what was accepted for a claim and nothing else, except for
\* requests that are not over and answers that got lost.  A challenge is paid
\* twice only when mining released it after a lost answer, by a timeout or by a
\* restart of the validator between the insert and the answer: no crash of the
\* service does it.
PaymentsAccounted ==
  \A claim \in Claim :
    /\ Recorded(claim) \cup Unrecorded(claim) \subseteq paid[claim]
    /\ paid[claim] \subseteq Recorded(claim) \cup Unrecorded(claim) \cup forgotten[claim]
    /\ KeyOf(claim) = "mining" /\ Cardinality(paid[claim]) > 1
         => Range(failures) \cap {"timeout", "restart"} # {}

\* Two payments on record to an address within one cooldown, also over a restart
\* of the service, come from checks of the cooldown that did not see each other.
\* (A payment whose answer got lost is on no record, and holds nothing back.)
CooldownBetweenRecords ==
  /\ \A c, d \in DOMAIN challenges :
       (/\ challenges[c].status = "submitted" /\ challenges[d].status = "submitted"
        /\ challenges[c].address = challenges[d].address /\ c \in challenges[d].seen)
         => challenges[d].claimed - challenges[c].claimed >= Cooldown
  /\ \A i, j \in DOMAIN distributions :
       (/\ distributions[i].address = distributions[j].address
        /\ i \in distributions[j].seen)
         => distributions[j].at - distributions[i].at >= Cooldown

\* The tables against what the validator accepted, and against each other.
RewardsAccounted == PaymentsAccounted /\ CooldownBetweenRecords

Submitting(c) == c \in DOMAIN challenges /\ challenges[c].status = "submitting"

\* A reserved challenge becomes submitted or open again, unless the service
\* crashes: it has no way back then.
ClaimsSettle ==
  \A c \in 1..MaxChallenges :
    Submitting(c) ~> (~Submitting(c) \/ "crash" \in Range(failures))

\* A pending transaction does not block its sender for good, also one that
\* entered the mempool when its nonce was used already.
SenderUnblocked == \A key \in Key : []<>(\A tx \in mempool : tx.from # key)
=============================================================================

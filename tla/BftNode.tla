------------------------------- MODULE BftNode -------------------------------
(***************************************************************************)
(* The validators of the BFT devnet: node.py on the tables of storage.py.  *)
(* Each runs a loop (synchronize, propose, change the view) that awaits    *)
(* the answers of its peers, and serves their requests meanwhile.          *)
(*                                                                         *)
(* What a database keeps is `db`, what only the process knows is `mem`.    *)
(* `asked` holds the requests on their way; a client gives up after 3      *)
(* seconds, its request may still be served.  A request never served is    *)
(* one the network lost.                                                   *)
(*                                                                         *)
(* Every validator is honest, so signatures and certificates are what      *)
(* their makers wrote: a block carries the certificates that its proposer  *)
(* needed to send it.  A block stands for its hash, which covers height,   *)
(* round, parent and the time it was built; `id` is that of a build.       *)
(* Transactions and balances are left out (ExternalCommit has their        *)
(* rules), as are the tables nothing reads back (consensus_events,         *)
(* local_view_changes, local_votes), and the locks that view changes name, *)
(* which nobody looks at.                                                  *)
(***************************************************************************)
EXTENDS Integers, Sequences, FiniteSets

CONSTANTS
  N,          \* number of validators
  Hasty,      \* validators whose calls may time out
  Threaded,   \* votes of validators whose handlers interleave (see ServeThread)
  Mortal,     \* validators that may crash
  Returns,    \* BOOLEAN: a crashed validator is started again
  Impatient,  \* validators whose view timer elapses, at any time
  Collectors, \* bound of the model: validators that start a view change
  MaxHeight,  \* bound of the model: heights
  MaxRound,   \* bound of the model: rounds of a height
  MaxCrashes  \* bound of the model: crashes

\* The validators in the order of the genesis file.
Validator == 1 .. N

ASSUME BftAssumption ==
  /\ N \in Nat \ {0}
  /\ Hasty \subseteq Validator /\ Threaded \subseteq Validator \X {"prevote", "precommit"}
  /\ Returns \in BOOLEAN
  /\ Mortal \subseteq Validator
  /\ Impatient \subseteq Validator /\ Collectors \subseteq Impatient
  /\ MaxHeight \in Nat /\ MaxRound \in Nat /\ MaxCrashes \in Nat

Block == [height : Nat \ {0}, round : Nat, parent : Nat, id : Nat \ {0}]
NoBlock == [height |-> 0, round |-> 0, parent |-> 0, id |-> 0]

NoTarget == [height |-> 0, round |-> 0]

Phase == {"prevote", "precommit"}

Quorum(S) == Cardinality(S) >= (2 * N) \div 3 + 1

Proposer(height, round) == ((height - 1 + round) % N) + 1

VARIABLES
  db,       \* validator -> [chain, round, votes, locks, seen, evidence]
  mem,      \* validator -> the state of its process
  asked,    \* requests and posted blocks on their way
  built,    \* blocks ever built and signed
  signed,   \* votes and view changes ever signed
  crashes   \* validator -> number of its crashes

vars == <<db, mem, asked, built, signed, crashes>>

----------------------------------------------------------------------------
(* Storage. *)

Height(s) == Len(s.chain)
LastHash(s) == IF s.chain = <<>> THEN 0 ELSE s.chain[Len(s.chain)].id

\* validate_block_proposal: what depends on the node that validates.
Fits(s, b) == b.height = Height(s) + 1 /\ b.parent = LastHash(s)

\* Mutant: the lock of an earlier round is forgotten.
UnlockedByRound(s, b) ==
  \A l \in s.locks : l.height = b.height /\ l.round = b.round => l = b

Unlocked(s, b) == \A l \in s.locks : l.height = b.height => l = b

Unvoted(s, b, phase) ==
  \A v \in s.votes : v.phase = phase /\ v.block.height = b.height
                       /\ v.block.round = b.round => v.block = b

Conflicting(s, b) ==
  \E c \in s.seen : c.height = b.height /\ c.round = b.round /\ c # b

Above(S, height) == {b \in S : b.height > height}

\* apply_block and prune_consensus_state; the next height is in round zero.
Accepted(s, b) ==
  [chain |-> Append(s.chain, b), round |-> 0,
   votes |-> {v \in s.votes : v.block.height > b.height},
   locks |-> Above(s.locks, b.height), seen |-> Above(s.seen, b.height),
   evidence |-> s.evidence]

----------------------------------------------------------------------------
(* The handlers of votes.  _prepare_vote_round takes a block of the        *)
(* current round or of the next, in which case the round is adopted, also  *)
(* when the vote itself is refused afterwards.                             *)

Timely(s, b) == Fits(s, b) /\ b.round \in {s.round, s.round + 1}

Prepared(s, b) ==
  [s EXCEPT !.round = b.round,
            !.seen = IF Conflicting(s, b) THEN @ ELSE @ \cup {b},
            !.evidence = IF Conflicting(s, b)
                           THEN @ \cup {Proposer(b.height, b.round)} ELSE @]

\* Mutant: only the lock is looked up before a vote.
VotableUnlocked(s, b, phase) == Unlocked(s, b)

Votable(s, b, phase) ==
  ~Conflicting(s, b) /\ Unlocked(s, b) /\ Unvoted(s, b, phase)

Signs(s, b, phase) == Timely(s, b) /\ Votable(s, b, phase)

\* record_phase_vote and set_consensus_lock, each a transaction that checks
\* its own table again.
Records(s, b, phase) ==
  Unvoted(s, b, phase) /\ (phase = "precommit" => Unlocked(s, b))

Recorded(s, b, phase) ==
  IF ~Unvoted(s, b, phase) THEN s
  ELSE [s EXCEPT !.votes = @ \cup {[phase |-> phase, block |-> b]},
                 !.locks = IF phase = "precommit" /\ Unlocked(s, b)
                             THEN @ \cup {b} ELSE @]

AfterVote(s, b, phase) ==
  IF Signs(s, b, phase) THEN Recorded(Prepared(s, b), b, phase)
  ELSE IF Timely(s, b) THEN Prepared(s, b)
  ELSE s

\* set_round on the process: its callers have stored the certificate of the
\* round before; the pending block is dropped.
Entered(m, height, round) ==
  [m EXCEPT !.certs = @ \cup {[height |-> height, round |-> round]},
            !.pending = NoBlock]

AfterPrepare(m, s, b) ==
  IF Timely(s, b) /\ b.round > s.round THEN Entered(m, b.height, b.round) ELSE m

\* accept_block on the process: _sync_round_height included.
Finalized(m, b) ==
  [m EXCEPT !.certs = {c \in @ : c.height > b.height},
            !.pending = NoBlock]

Vote(n, b, phase) == [kind |-> phase, voter |-> n, block |-> b]
Change(n, height, round) ==
  [kind |-> "change", voter |-> n, height |-> height, round |-> round]

SignedBy(n, b, phase) ==
  IF Signs(db[n], b, phase) THEN {Vote(n, b, phase)} ELSE {}

Changers(height, round) == {n \in Validator : Change(n, height, round) \in signed}

----------------------------------------------------------------------------
Fresh ==
  [at |-> "idle", got |-> {}, cand |-> NoBlock, proven |-> FALSE,
   target |-> NoTarget, pending |-> NoBlock, certs |-> {},
   threads |-> {}]

Down == [Fresh EXCEPT !.at = "down"]

Init ==
  /\ db = [n \in Validator |->
       [chain |-> <<>>, round |-> 0, votes |-> {}, locks |-> {}, seen |-> {},
        evidence |-> {}]]
  /\ mem = [n \in Validator |-> Fresh]
  /\ asked = {} /\ built = {} /\ signed = {}
  /\ crashes = [n \in Validator |-> 0]

Up(n) == mem[n].at # "down"

\* A gather ends when every peer has answered, refused or timed out.
Answered(n, Willing) ==
  n \in Hasty \/ \A p \in Willing \ mem[n].got : ~Up(p)

----------------------------------------------------------------------------
(* The loop: sync_once.  It asks the peers in the order of the genesis     *)
(* file and returns after the first that answers and is not ahead.         *)

Reached(n, p) ==
  /\ p # n /\ Up(p)
  /\ n \in Hasty \/ \A q \in 1 .. p - 1 : q = n \/ ~Up(q)

Offers(n, p) ==
  /\ Reached(n, p) /\ Height(db[p]) > Height(db[n])
  /\ Fits(db[n], db[p].chain[Height(db[n]) + 1])

SyncBlock(n, p) ==
  /\ mem[n].at = "idle" /\ Offers(n, p)
  /\ LET b == db[p].chain[Height(db[n]) + 1] IN
       /\ db' = [db EXCEPT ![n] = Accepted(@, b)]
       /\ mem' = [mem EXCEPT ![n] = Finalized(@, b)]
  /\ UNCHANGED <<asked, built, signed, crashes>>

Synced(n) ==
  mem[n].at = "idle" /\ (n \in Hasty \/ ~\E p \in Validator : Offers(n, p))

----------------------------------------------------------------------------
(* The loop: propose.  An exception anywhere ends the pass, the view       *)
(* change at its end included.                                             *)

MyTurn(n) == Proposer(Height(db[n]) + 1, db[n].round) = n

Kept(n) ==
  LET p == mem[n].pending
  IN  p.height = Height(db[n]) + 1 /\ p.round = db[n].round

Buildable(n) ==
  db[n].round > 0 =>
    [height |-> Height(db[n]) + 1, round |-> db[n].round] \in mem[n].certs

Build(n) ==
  [height |-> Height(db[n]) + 1, round |-> db[n].round,
   parent |-> LastHash(db[n]), id |-> Cardinality(built) + 1]

\* The end of a gather; what was collected stays with the pending block only.
Ended(m, at) ==
  [m EXCEPT !.at = at, !.got = {}, !.cand = NoBlock, !.target = NoTarget,
            !.proven = @ /\ m.pending = m.cand]

\* Sign b oneself and ask the peers to; give up the pass if that is refused.
Gather(n, m, b, phase) ==
  /\ db' = [db EXCEPT ![n] = AfterVote(@, b, phase)]
  /\ signed' = signed \cup SignedBy(n, b, phase)
  /\ LET own == [AfterPrepare(m, db[n], b) EXCEPT
                   !.cand = b, !.proven = phase = "precommit"]
     IN  IF Signs(db[n], b, phase)
           THEN /\ mem' = [mem EXCEPT ![n] = [own EXCEPT !.at = phase, !.got = {n}]]
                /\ asked' = asked \cup {[kind |-> phase, block |-> b]}
           ELSE /\ mem' = [mem EXCEPT ![n] = Ended(own, "idle")]
                /\ asked' = asked
  /\ UNCHANGED crashes

Goes(n, at) ==
  /\ mem' = [mem EXCEPT ![n] = Ended(@, at)]
  /\ UNCHANGED <<db, asked, built, signed, crashes>>

Proposing(n) == Synced(n) /\ MyTurn(n) /\ Height(db[n]) < MaxHeight

BuildBlock(n) ==
  /\ Proposing(n) /\ ~Kept(n) /\ Buildable(n)
  /\ built' = built \cup {Build(n)}
  /\ Gather(n, [mem[n] EXCEPT !.pending = Build(n)], Build(n), "prevote")

\* The certificates collected so far stay with the pending block.
ProposeAgain(n) ==
  /\ Proposing(n) /\ Kept(n)
  /\ Gather(n, mem[n], mem[n].pending,
            IF mem[n].proven THEN "precommit" ELSE "prevote")
  /\ UNCHANGED built

VotesIn(n) ==
  Answered(n, {p \in Validator : Signs(db[p], mem[n].cand, mem[n].at)})

EndPrevotes(n) ==
  /\ mem[n].at = "prevote" /\ VotesIn(n)
  /\ IF Quorum(mem[n].got)
       THEN Gather(n, mem[n], mem[n].cand, "precommit") /\ UNCHANGED built
       ELSE Goes(n, "view")

EndPrecommits(n) ==
  /\ mem[n].at = "precommit" /\ VotesIn(n)
  /\ LET b == mem[n].cand IN
       IF ~Quorum(mem[n].got) THEN Goes(n, "view")
       ELSE IF ~Fits(db[n], b) THEN Goes(n, "idle")
       ELSE /\ db' = [db EXCEPT ![n] = Accepted(@, b)]
            /\ mem' = [mem EXCEPT ![n] =
                         [Finalized(@, b) EXCEPT !.at = "broadcast", !.got = {}]]
            /\ UNCHANGED <<asked, built, signed, crashes>>

Broadcast(n) ==
  /\ mem[n].at = "broadcast"
  /\ asked' = asked \cup {[kind |-> "block", block |-> mem[n].cand]}
  /\ mem' = [mem EXCEPT ![n] = Ended(@, "view")]
  /\ UNCHANGED <<db, built, signed, crashes>>

----------------------------------------------------------------------------
(* The loop: the view change.  Only the node that collects the certificate *)
(* moves on; set_round is applied to whatever height the node has reached  *)
(* by then.                                                                *)

Target(n) == [height |-> Height(db[n]) + 1, round |-> db[n].round + 1]

MayChange(n) ==
  n \in Collectors /\ Height(db[n]) < MaxHeight /\ db[n].round < MaxRound

Wait(n) == mem[n].at = "view" /\ Goes(n, "idle")

AtView(n) == mem[n].at = "view" \/ (Synced(n) /\ ~MyTurn(n))

StartChange(n) ==
  /\ AtView(n) /\ MayChange(n)
  /\ signed' = signed \cup {Change(n, Target(n).height, Target(n).round)}
  /\ mem' = [mem EXCEPT ![n].at = "change", ![n].target = Target(n), ![n].got = {n}]
  /\ UNCHANGED <<db, asked, built, crashes>>

\* sign_view_change
Changes(n, t) ==
  /\ t.height = Height(db[n]) + 1 /\ t.round = db[n].round + 1
  /\ n \in Impatient

\* set_round on the database and on the process
SetRound(s, t) == IF t.round > s.round THEN [s EXCEPT !.round = t.round] ELSE s

AfterChange(m, s, t) ==
  IF t.round > s.round THEN Entered(m, t.height, t.round)
  ELSE [m EXCEPT !.certs = @ \cup {t}]

\* Mutant: the certificate is not counted.
EndChangeUncounted(n) ==
  /\ mem[n].at = "change"
  /\ db' = [db EXCEPT ![n] = SetRound(@, mem[n].target)]
  /\ mem' = [mem EXCEPT ![n] =
               Ended(AfterChange(@, db[n], mem[n].target), "idle")]
  /\ UNCHANGED <<asked, built, signed, crashes>>

EndChange(n) ==
  /\ mem[n].at = "change" /\ Answered(n, {p \in Validator : Changes(p, mem[n].target)})
  /\ IF Quorum(mem[n].got)
       THEN /\ db' = [db EXCEPT ![n] = SetRound(@, mem[n].target)]
            /\ mem' = [mem EXCEPT ![n] =
                         Ended(AfterChange(@, db[n], mem[n].target), "idle")]
            /\ UNCHANGED <<asked, built, signed, crashes>>
       ELSE Goes(n, "idle")

----------------------------------------------------------------------------
(* The endpoints. *)

Serves(n, kind, b) ==
  /\ Up(n) /\ n # Proposer(b.height, b.round)
  /\ [kind |-> kind, block |-> b] \in asked

\* The answer of n reaches the proposer of b if it still waits for it.
Answer(m, n, b, phase) ==
  LET p == Proposer(b.height, b.round)
  IN  IF m[p].at = phase /\ m[p].cand = b
        THEN [m EXCEPT ![p].got = @ \cup {n}] ELSE m

ServeVote(n, phase, b) ==
  /\ Serves(n, phase, b) /\ Timely(db[n], b)
  /\ db' = [db EXCEPT ![n] = AfterVote(@, b, phase)]
  /\ signed' = signed \cup SignedBy(n, b, phase)
  /\ LET m == [mem EXCEPT ![n] = AfterPrepare(@, db[n], b)]
     IN  mem' = IF Signs(db[n], b, phase) THEN Answer(m, n, b, phase) ELSE m
  /\ UNCHANGED <<asked, built, crashes>>

\* The endpoints are plain functions: the server runs them in threads, and
\* _sign_phase_vote holds no lock.  Other requests, and the loop, come between
\* its checks and the transactions that record the vote.
ServeThread(n, phase, b) ==
  /\ <<n, phase>> \in Threaded /\ Serves(n, phase, b) /\ Signs(db[n], b, phase)
  /\ db' = [db EXCEPT ![n] = Prepared(@, b)]
  /\ mem' = [mem EXCEPT ![n] =
       [AfterPrepare(mem[n], db[n], b) EXCEPT
          !.threads = @ \cup {[phase |-> phase, block |-> b]}]]
  /\ UNCHANGED <<asked, built, signed, crashes>>

EndThread(n, t) ==
  /\ t \in mem[n].threads
  /\ db' = [db EXCEPT ![n] = Recorded(@, t.block, t.phase)]
  /\ LET m == [mem EXCEPT ![n].threads = @ \ {t}]
         ok == Records(db[n], t.block, t.phase)
     IN  /\ mem' = IF ok THEN Answer(m, n, t.block, t.phase) ELSE m
         /\ signed' = IF ok THEN signed \cup {Vote(n, t.block, t.phase)} ELSE signed
  /\ UNCHANGED <<asked, built, crashes>>

ServeChange(n, p) ==
  /\ mem[p].at = "change" /\ n \notin mem[p].got
  /\ Up(n) /\ Changes(n, mem[p].target)
  /\ signed' = signed \cup {Change(n, mem[p].target.height, mem[p].target.round)}
  /\ mem' = [mem EXCEPT ![p].got = @ \cup {n}]
  /\ UNCHANGED <<db, asked, built, crashes>>

ReceiveBlock(n, b) ==
  /\ Serves(n, "block", b) /\ Fits(db[n], b)
  /\ db' = [db EXCEPT ![n] = Accepted(@, b)]
  /\ mem' = [mem EXCEPT ![n] = Finalized(@, b)]
  /\ UNCHANGED <<asked, built, signed, crashes>>

----------------------------------------------------------------------------
Crash(n) ==
  /\ n \in Mortal /\ Up(n) /\ crashes[n] < MaxCrashes
  /\ mem' = [mem EXCEPT ![n] = Down]
  /\ crashes' = [crashes EXCEPT ![n] = @ + 1]
  /\ UNCHANGED <<db, asked, built, signed>>

Restart(n) ==
  /\ Returns /\ ~Up(n)
  /\ mem' = [mem EXCEPT ![n] = Fresh]
  /\ UNCHANGED <<db, asked, built, signed, crashes>>

Loop(n) ==
  \/ \E p \in Validator : SyncBlock(n, p)
  \/ BuildBlock(n) \/ ProposeAgain(n)
  \/ EndPrevotes(n) \/ EndPrecommits(n) \/ Broadcast(n)
  \/ Wait(n) \/ StartChange(n) \/ EndChange(n)

Serve(n) ==
  \/ \E b \in built : ReceiveBlock(n, b) \/ \E phase \in Phase :
       ServeVote(n, phase, b) \/ ServeThread(n, phase, b)
  \/ \E t \in mem[n].threads : EndThread(n, t)
  \/ \E p \in Validator : ServeChange(n, p)

Next ==
  \E n \in Validator : Loop(n) \/ Serve(n) \/ Crash(n) \/ Restart(n)

Spec == Init /\ [][Next]_vars

----------------------------------------------------------------------------
(* Properties. *)

\* The shapes of the tables and of the process; at most one lock for a height.
TypeOK ==
  /\ built \subseteq Block
  /\ asked \subseteq [kind : Phase \cup {"block"}, block : built]
  /\ crashes \in [Validator -> Nat]
  /\ \A n \in Validator :
       /\ db[n].round \in Nat
       /\ \A h \in DOMAIN db[n].chain : db[n].chain[h] \in built
       /\ db[n].votes \subseteq [phase : Phase, block : built]
       /\ db[n].locks \cup db[n].seen \subseteq built
       /\ \A l, k \in db[n].locks : l.height = k.height => l = k
       /\ db[n].evidence \subseteq Validator
       /\ mem[n].at \in {"idle", "view", "change", "broadcast", "down"} \cup Phase
       /\ {mem[n].cand, mem[n].pending} \subseteq built \cup {NoBlock}

\* No two validators finalize different blocks at one height, whatever rounds,
\* crashes, repeated proposals and late requests came before.
Agreement ==
  \A n, m \in Validator : \A h \in 1 .. Height(db[n]) :
    h <= Height(db[m]) => db[n].chain[h] = db[m].chain[h]

\* Nobody signs two blocks in one phase of one round, not after a restart
\* that forgot the pending block either.
NoDoubleVote ==
  \A v, w \in {s \in signed : s.kind \in Phase} :
    v.kind = w.kind /\ v.voter = w.voter /\ v.block.height = w.block.height
      /\ v.block.round = w.block.round => v.block = w.block

\* A block of a later round was built on view changes of a quorum.
ProposalsAreCertified ==
  \A b \in built : b.round > 0 => Quorum(Changers(b.height, b.round))

=============================================================================

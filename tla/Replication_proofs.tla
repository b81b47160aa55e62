-------------------------- MODULE Replication_proofs --------------------------
(***************************************************************************)
(* Proofs about the nodes of the two networks.                             *)
(*                                                                         *)
(* BftNode, for any number of validators, rounds and crashes.  First what  *)
(* each operator does to a database and to a process, and that every step  *)
(* keeps the types.  Then the steps are grouped by their effect (Acts),    *)
(* and what a step may do to databases, signatures, requests and processes *)
(* is stated once (DbMoves, VotesSigned, VotesAsked, Processes).  The      *)
(* three invariants, Locking, Asking and Changing, rest on these.          *)
(*                                                                         *)
(* PowP2PSync, for any tree of blocks and any number of nodes and          *)
(* sessions.  First what paths, locators and batches of headers are;       *)
(* then TablesInv, of what the nodes hold, and StreamsInv, of what is on   *)
(* its way, and for each handler that it keeps both.                       *)
(***************************************************************************)
EXTENDS BftNode, PowP2PSync, FiniteSetTheorems, TLAPS

Database(B) ==
  [chain : Seq(B), round : Nat, votes : SUBSET [phase : Phase, block : B],
   locks : SUBSET B, seen : SUBSET B, evidence : SUBSET Validator]

Slot == [height : Nat, round : Nat]

At == {"idle", "view", "change", "broadcast", "down"} \cup Phase

Process(B) ==
  [at : At, got : SUBSET Validator, cand : B \cup {NoBlock}, proven : BOOLEAN,
   target : Slot, pending : B \cup {NoBlock}, certs : SUBSET Slot,
   threads : SUBSET [phase : Phase, block : B]]

Message(B) == [kind : Phase \cup {"block"}, block : B]

Signature(B) ==
  [kind : Phase, voter : Validator, block : B]
    \cup [kind : {"change"}, voter : Validator, height : Nat, round : Nat]

Types ==
  /\ built \subseteq Block /\ IsFiniteSet(built)
  /\ db \in [Validator -> Database(built)]
  /\ mem \in [Validator -> Process(built)]
  /\ asked \subseteq Message(built)
  /\ signed \subseteq Signature(built)
  /\ crashes \in [Validator -> Nat]
  /\ \A n \in Validator : mem[n].at \in Phase \cup {"broadcast"} => mem[n].cand \in built

-----------------------------------------------------------------------------
(* The operators on one database. *)

LEMMA AcceptedIs ==
  ASSUME NEW B, B \subseteq Block, NEW s \in Database(B), NEW b \in B
  PROVE  /\ Accepted(s, b) \in Database(B)
         /\ Accepted(s, b).chain = Append(s.chain, b)
         /\ Accepted(s, b).round = 0
         /\ Accepted(s, b).votes = {v \in s.votes : v.block.height > b.height}
         /\ Accepted(s, b).locks = Above(s.locks, b.height)
         /\ Accepted(s, b).seen = Above(s.seen, b.height)
         /\ Accepted(s, b).evidence = s.evidence
<1>1. /\ {v \in s.votes : v.block.height > b.height} \subseteq [phase : Phase, block : B]
      /\ Above(s.locks, b.height) \subseteq B /\ Above(s.seen, b.height) \subseteq B
  BY DEF Database, Above
<1>2. Append(s.chain, b) \in Seq(B)
  BY DEF Database
<1> QED BY <1>1, <1>2 DEF Accepted, Database

LEMMA PreparedIs ==
  ASSUME NEW B, B \subseteq Block, NEW s \in Database(B), NEW b \in B,
         Proposer(b.height, b.round) \in Validator
  PROVE  /\ Prepared(s, b) \in Database(B)
         /\ Prepared(s, b).chain = s.chain
         /\ Prepared(s, b).round = b.round
         /\ Prepared(s, b).votes = s.votes
         /\ Prepared(s, b).locks = s.locks
         /\ Prepared(s, b).seen = IF Conflicting(s, b) THEN s.seen ELSE s.seen \cup {b}
         /\ Prepared(s, b).evidence =
              IF Conflicting(s, b)
                THEN s.evidence \cup {Proposer(b.height, b.round)} ELSE s.evidence
<1> DEFINE S == IF Conflicting(s, b) THEN s.seen ELSE s.seen \cup {b}
           E == IF Conflicting(s, b)
                  THEN s.evidence \cup {Proposer(b.height, b.round)} ELSE s.evidence
<1>1. S \subseteq B /\ E \subseteq Validator /\ b.round \in Nat
  BY DEF Database, Block
<1>2. Prepared(s, b) = [s EXCEPT !.round = b.round, !.seen = S, !.evidence = E]
  BY DEF Prepared
<1> HIDE DEF S, E
<1>3. /\ Prepared(s, b) \in Database(B)
      /\ Prepared(s, b).chain = s.chain
      /\ Prepared(s, b).round = b.round
      /\ Prepared(s, b).votes = s.votes
      /\ Prepared(s, b).locks = s.locks
      /\ Prepared(s, b).seen = S
      /\ Prepared(s, b).evidence = E
  BY <1>1, <1>2 DEF Database
<1> QED BY <1>3 DEF S, E

LEMMA ProposerIsValidator ==
  ASSUME NEW h \in Nat \ {0}, NEW r \in Nat
  PROVE  Proposer(h, r) \in Validator
<1>1. N \in Nat /\ N > 0
  BY BftAssumption
<1>2. (h - 1 + r) % N \in 0 .. N - 1
  BY <1>1
<1> QED BY <1>1, <1>2 DEF Proposer, Validator

LEMMA RecordedIs ==
  ASSUME NEW B, NEW s \in Database(B), NEW b \in B, NEW phase \in Phase
  PROVE  /\ Recorded(s, b, phase) \in Database(B)
         /\ Recorded(s, b, phase).chain = s.chain
         /\ Recorded(s, b, phase).round = s.round
         /\ Recorded(s, b, phase).votes =
              IF Unvoted(s, b, phase)
                THEN s.votes \cup {[phase |-> phase, block |-> b]} ELSE s.votes
         /\ Recorded(s, b, phase).locks =
              IF Unvoted(s, b, phase) /\ phase = "precommit" /\ Unlocked(s, b)
                THEN s.locks \cup {b} ELSE s.locks
         /\ Recorded(s, b, phase).seen = s.seen
         /\ Recorded(s, b, phase).evidence = s.evidence
<1>1. CASE ~Unvoted(s, b, phase)
  BY <1>1 DEF Recorded
<1>2. CASE Unvoted(s, b, phase)
  <2> DEFINE V == s.votes \cup {[phase |-> phase, block |-> b]}
             L == IF phase = "precommit" /\ Unlocked(s, b) THEN s.locks \cup {b} ELSE s.locks
  <2>1. V \subseteq [phase : Phase, block : B] /\ L \subseteq B
    BY DEF Database
  <2>2. Recorded(s, b, phase) = [s EXCEPT !.votes = V, !.locks = L]
    BY <1>2 DEF Recorded
  <2> HIDE DEF V, L
  <2>3. /\ Recorded(s, b, phase) \in Database(B)
        /\ Recorded(s, b, phase).chain = s.chain
        /\ Recorded(s, b, phase).round = s.round
        /\ Recorded(s, b, phase).votes = V
        /\ Recorded(s, b, phase).locks = L
        /\ Recorded(s, b, phase).seen = s.seen
        /\ Recorded(s, b, phase).evidence = s.evidence
    BY <2>1, <2>2 DEF Database
  <2> QED BY <1>2, <2>3 DEF V, L
<1> QED BY <1>1, <1>2

LEMMA SetRoundIs ==
  ASSUME NEW B, NEW s \in Database(B), NEW t \in Slot
  PROVE  /\ SetRound(s, t) \in Database(B)
         /\ SetRound(s, t).chain = s.chain
         /\ SetRound(s, t).round = IF t.round > s.round THEN t.round ELSE s.round
         /\ SetRound(s, t).votes = s.votes
         /\ SetRound(s, t).locks = s.locks
         /\ SetRound(s, t).seen = s.seen
         /\ SetRound(s, t).evidence = s.evidence
BY DEF SetRound, Database, Slot

\* A database gains a block, or it keeps its chain and loses nothing.
Extends(s, t) ==
  /\ t.chain = s.chain /\ t.round >= s.round
  /\ s.votes \subseteq t.votes /\ s.locks \subseteq t.locks
  /\ s.seen \subseteq t.seen /\ s.evidence \subseteq t.evidence

LEMMA AfterVoteIs ==
  ASSUME NEW B, B \subseteq Block, NEW s \in Database(B), NEW b \in B, NEW phase \in Phase
  PROVE  /\ AfterVote(s, b, phase) \in Database(B)
         /\ Extends(s, AfterVote(s, b, phase))
         /\ AfterVote(s, b, phase).round \in {s.round, b.round}
         /\ Timely(s, b) => AfterVote(s, b, phase).round = b.round
         /\ AfterVote(s, b, phase).votes =
              IF Signs(s, b, phase)
                THEN s.votes \cup {[phase |-> phase, block |-> b]} ELSE s.votes
         /\ AfterVote(s, b, phase).locks =
              IF Signs(s, b, phase) /\ phase = "precommit" THEN s.locks \cup {b} ELSE s.locks
         /\ AfterVote(s, b, phase).seen =
              IF Timely(s, b) /\ ~Conflicting(s, b) THEN s.seen \cup {b} ELSE s.seen
         /\ AfterVote(s, b, phase).evidence =
              IF Timely(s, b) /\ Conflicting(s, b)
                THEN s.evidence \cup {Proposer(b.height, b.round)} ELSE s.evidence
<1>1. b.height \in Nat \ {0} /\ b.round \in Nat
  BY DEF Block
<1>2. Proposer(b.height, b.round) \in Validator
  BY <1>1, ProposerIsValidator
<1> DEFINE p == Prepared(s, b)
<1>3. /\ p \in Database(B)
      /\ p.chain = s.chain /\ p.round = b.round
      /\ p.votes = s.votes /\ p.locks = s.locks
      /\ p.seen = IF Conflicting(s, b) THEN s.seen ELSE s.seen \cup {b}
      /\ p.evidence = IF Conflicting(s, b)
                        THEN s.evidence \cup {Proposer(b.height, b.round)} ELSE s.evidence
  BY <1>2, PreparedIs
<1>4. s.round \in Nat
  BY DEF Database
<1>5. CASE Signs(s, b, phase)
  <2>1. Timely(s, b) /\ ~Conflicting(s, b) /\ Unlocked(s, b) /\ Unvoted(s, b, phase)
    BY <1>5 DEF Signs, Votable
  <2>2. Unlocked(p, b) /\ Unvoted(p, b, phase)
    BY <1>3, <2>1 DEF Unlocked, Unvoted
  <2>3. AfterVote(s, b, phase) = Recorded(p, b, phase)
    BY <1>5 DEF AfterVote
  <2> HIDE DEF p
  <2>4. /\ Recorded(p, b, phase) \in Database(B)
        /\ Recorded(p, b, phase).chain = p.chain
        /\ Recorded(p, b, phase).round = p.round
        /\ Recorded(p, b, phase).votes = p.votes \cup {[phase |-> phase, block |-> b]}
        /\ Recorded(p, b, phase).locks =
             IF phase = "precommit" THEN p.locks \cup {b} ELSE p.locks
        /\ Recorded(p, b, phase).seen = p.seen
        /\ Recorded(p, b, phase).evidence = p.evidence
    BY <1>3, <2>2, RecordedIs
  <2>5. b.round >= s.round
    BY <1>1, <1>4, <2>1 DEF Timely
  <2> QED BY <1>3, <1>5, <2>1, <2>3, <2>4, <2>5 DEF Extends
<1>6. CASE ~Signs(s, b, phase) /\ Timely(s, b)
  <2>1. AfterVote(s, b, phase) = p
    BY <1>6 DEF AfterVote
  <2>2. b.round >= s.round
    BY <1>1, <1>4, <1>6 DEF Timely
  <2> QED BY <1>3, <1>6, <2>1, <2>2 DEF Extends
<1>7. CASE ~Timely(s, b)
  <2>1. ~Signs(s, b, phase) /\ AfterVote(s, b, phase) = s
    BY <1>7 DEF AfterVote, Signs
  <2> QED BY <1>4, <1>7, <2>1 DEF Extends
<1> QED BY <1>5, <1>6, <1>7

LEMMA PreparedExtends ==
  ASSUME NEW B, B \subseteq Block, NEW s \in Database(B), NEW b \in B, Timely(s, b)
  PROVE  Extends(s, Prepared(s, b)) /\ Prepared(s, b).locks = s.locks
<1>1. b.round \in Nat /\ s.round \in Nat /\ b.round >= s.round
  BY DEF Block, Database, Timely
<1>2. Proposer(b.height, b.round) \in Validator
  BY ProposerIsValidator DEF Block
<1> DEFINE p == Prepared(s, b)
<1>3. /\ p.chain = s.chain /\ p.round = b.round /\ p.votes = s.votes /\ p.locks = s.locks
      /\ p.seen = IF Conflicting(s, b) THEN s.seen ELSE s.seen \cup {b}
      /\ p.evidence = IF Conflicting(s, b)
                        THEN s.evidence \cup {Proposer(b.height, b.round)} ELSE s.evidence
  BY <1>2, PreparedIs
<1> HIDE DEF p
<1>4. Extends(s, p) /\ p.locks = s.locks
  BY <1>1, <1>3 DEF Extends
<1> QED BY <1>4 DEF p

LEMMA RecordedExtends ==
  ASSUME NEW B, NEW s \in Database(B), NEW b \in B, NEW phase \in Phase
  PROVE  /\ Extends(s, Recorded(s, b, phase))
         /\ \/ Recorded(s, b, phase).locks = s.locks
            \/ Unlocked(s, b) /\ Recorded(s, b, phase).locks = s.locks \cup {b}
<1> DEFINE p == Recorded(s, b, phase)
<1>1. /\ p \in Database(B)
      /\ p.chain = s.chain
      /\ p.round = s.round
      /\ p.votes = IF Unvoted(s, b, phase)
                     THEN s.votes \cup {[phase |-> phase, block |-> b]} ELSE s.votes
      /\ p.locks = IF Unvoted(s, b, phase) /\ phase = "precommit" /\ Unlocked(s, b)
                     THEN s.locks \cup {b} ELSE s.locks
      /\ p.seen = s.seen
      /\ p.evidence = s.evidence
  BY RecordedIs, Zenon
<1>2. s.round \in Nat
  BY DEF Database
<1> HIDE DEF p
<1>3. /\ Extends(s, p)
      /\ p.locks = s.locks \/ (Unlocked(s, b) /\ p.locks = s.locks \cup {b})
  BY <1>1, <1>2 DEF Extends
<1> QED BY <1>3 DEF p

LEMMA AfterVoteLocks ==
  ASSUME NEW B, B \subseteq Block, NEW s \in Database(B), NEW b \in B, NEW phase \in Phase
  PROVE  \/ AfterVote(s, b, phase).locks = s.locks
         \/ Unlocked(s, b) /\ AfterVote(s, b, phase).locks = s.locks \cup {b}
<1>1. CASE ~Timely(s, b)
  BY <1>1 DEF AfterVote, Signs
<1>2. CASE Timely(s, b)
  <2> DEFINE p == Prepared(s, b)
             r == Recorded(p, b, phase)
  <2>1. p \in Database(B)
    <3>1. Proposer(b.height, b.round) \in Validator
      BY ProposerIsValidator DEF Block
    <3> QED BY <3>1, PreparedIs
  <2>2. p.locks = s.locks
    BY <1>2, PreparedExtends
  <2>3. AfterVote(s, b, phase) = p \/ AfterVote(s, b, phase) = r
    BY <1>2 DEF AfterVote
  <2> HIDE DEF p
  <2>4. r.locks = p.locks \/ (Unlocked(p, b) /\ r.locks = p.locks \cup {b})
    BY <2>1, RecordedExtends
  <2>5. Unlocked(p, b) = Unlocked(s, b)
    BY <2>2 DEF Unlocked
  <2> HIDE DEF r
  <2> QED BY <2>2, <2>3, <2>4, <2>5
<1> QED BY <1>1, <1>2

LEMMA SetRoundExtends ==
  ASSUME NEW B, NEW s \in Database(B), NEW t \in Slot
  PROVE  Extends(s, SetRound(s, t)) /\ SetRound(s, t).locks = s.locks
<1>1. s.round \in Nat /\ t.round \in Nat
  BY DEF Database, Slot
<1> DEFINE p == SetRound(s, t)
<1>2. /\ p.chain = s.chain /\ p.round = IF t.round > s.round THEN t.round ELSE s.round
      /\ p.votes = s.votes /\ p.locks = s.locks /\ p.seen = s.seen /\ p.evidence = s.evidence
  BY SetRoundIs
<1> HIDE DEF p
<1>3. Extends(s, p) /\ p.locks = s.locks
  BY <1>1, <1>2 DEF Extends
<1> QED BY <1>3 DEF p

(* The operators on one process. *)

LEMMA EndedIs ==
  ASSUME NEW B, NEW m \in Process(B), NEW at \in At
  PROVE  /\ Ended(m, at) \in Process(B)
         /\ Ended(m, at).at = at
         /\ Ended(m, at).got = {}
         /\ Ended(m, at).pending = m.pending
         /\ Ended(m, at).certs = m.certs
         /\ Ended(m, at).threads = m.threads
<1> DEFINE P == m.proven /\ m.pending = m.cand
<1>1. P \in BOOLEAN
  BY DEF Process
<1>2. NoTarget \in Slot
  BY DEF NoTarget, Slot
<1>3. Ended(m, at) = [m EXCEPT !.at = at, !.got = {}, !.cand = NoBlock,
                               !.target = NoTarget, !.proven = P]
  BY DEF Ended, Process
<1> HIDE DEF P
<1> QED BY <1>1, <1>2, <1>3 DEF Process

LEMMA EnteredIs ==
  ASSUME NEW B, NEW m \in Process(B), NEW h \in Nat, NEW r \in Nat
  PROVE  /\ Entered(m, h, r) \in Process(B)
         /\ Entered(m, h, r).at = m.at
         /\ Entered(m, h, r).got = m.got
         /\ Entered(m, h, r).cand = m.cand
         /\ Entered(m, h, r).target = m.target
         /\ Entered(m, h, r).pending = NoBlock
         /\ Entered(m, h, r).certs = m.certs \cup {[height |-> h, round |-> r]}
         /\ Entered(m, h, r).threads = m.threads
<1> DEFINE C == m.certs \cup {[height |-> h, round |-> r]}
<1>1. C \subseteq Slot
  BY DEF Process, Slot
<1>2. Entered(m, h, r) = [m EXCEPT !.certs = C, !.pending = NoBlock]
  BY DEF Entered
<1> HIDE DEF C
<1>3. /\ Entered(m, h, r) \in Process(B)
      /\ Entered(m, h, r).at = m.at
      /\ Entered(m, h, r).got = m.got
      /\ Entered(m, h, r).cand = m.cand
      /\ Entered(m, h, r).target = m.target
      /\ Entered(m, h, r).pending = NoBlock
      /\ Entered(m, h, r).certs = C
      /\ Entered(m, h, r).threads = m.threads
  BY <1>1, <1>2 DEF Process
<1> QED BY <1>3 DEF C

LEMMA FinalizedIs ==
  ASSUME NEW B, NEW m \in Process(B), NEW b \in Block
  PROVE  /\ Finalized(m, b) \in Process(B)
         /\ Finalized(m, b).at = m.at
         /\ Finalized(m, b).got = m.got
         /\ Finalized(m, b).cand = m.cand
         /\ Finalized(m, b).target = m.target
         /\ Finalized(m, b).pending = NoBlock
         /\ Finalized(m, b).certs \subseteq m.certs
         /\ Finalized(m, b).threads = m.threads
<1> DEFINE C == {c \in m.certs : c.height > b.height}
<1>1. C \subseteq Slot /\ C \subseteq m.certs
  BY DEF Process
<1>2. Finalized(m, b) = [m EXCEPT !.certs = C, !.pending = NoBlock]
  BY DEF Finalized
<1> HIDE DEF C
<1> QED BY <1>1, <1>2 DEF Process

LEMMA AfterPrepareIs ==
  ASSUME NEW B, B \subseteq Block, NEW m \in Process(B), NEW s \in Database(B), NEW b \in B
  PROVE  /\ AfterPrepare(m, s, b) \in Process(B)
         /\ AfterPrepare(m, s, b).at = m.at
         /\ AfterPrepare(m, s, b).got = m.got
         /\ AfterPrepare(m, s, b).cand = m.cand
         /\ AfterPrepare(m, s, b).target = m.target
         /\ AfterPrepare(m, s, b).threads = m.threads
         /\ AfterPrepare(m, s, b).pending =
              IF Timely(s, b) /\ b.round > s.round THEN NoBlock ELSE m.pending
         /\ AfterPrepare(m, s, b).certs =
              IF Timely(s, b) /\ b.round > s.round
                THEN m.certs \cup {[height |-> b.height, round |-> b.round]} ELSE m.certs
<1>1. b.height \in Nat /\ b.round \in Nat
  BY DEF Block
<1>2. CASE Timely(s, b) /\ b.round > s.round
  <2>1. AfterPrepare(m, s, b) = Entered(m, b.height, b.round)
    BY <1>2 DEF AfterPrepare
  <2> QED BY <1>1, <1>2, <2>1, EnteredIs
<1>3. CASE ~(Timely(s, b) /\ b.round > s.round)
  BY <1>3 DEF AfterPrepare
<1> QED BY <1>2, <1>3

LEMMA AfterChangeIs ==
  ASSUME NEW B, NEW m \in Process(B), NEW s \in Database(B), NEW t \in Slot
  PROVE  /\ AfterChange(m, s, t) \in Process(B)
         /\ AfterChange(m, s, t).certs = m.certs \cup {t}
         /\ AfterChange(m, s, t).pending = IF t.round > s.round THEN NoBlock ELSE m.pending
         /\ AfterChange(m, s, t).threads = m.threads
<1>1. CASE t.round > s.round
  <2>1. AfterChange(m, s, t) = Entered(m, t.height, t.round)
    BY <1>1 DEF AfterChange
  <2>2. t.height \in Nat /\ t.round \in Nat /\ t = [height |-> t.height, round |-> t.round]
    BY DEF Slot
  <2> QED BY <1>1, <2>1, <2>2, EnteredIs
<1>2. CASE ~(t.round > s.round)
  <2> DEFINE C == m.certs \cup {t}
  <2>1. C \subseteq Slot
    BY DEF Process
  <2>2. AfterChange(m, s, t) = [m EXCEPT !.certs = C]
    BY <1>2 DEF AfterChange
  <2> HIDE DEF C
  <2>3. /\ AfterChange(m, s, t) \in Process(B)
        /\ AfterChange(m, s, t).certs = C
        /\ AfterChange(m, s, t).pending = m.pending
        /\ AfterChange(m, s, t).threads = m.threads
    BY <2>1, <2>2 DEF Process
  <2> QED BY <1>2, <2>3 DEF C
<1> QED BY <1>1, <1>2

LEMMA PreparesIs ==
  ASSUME Types, NEW n \in Validator, NEW b \in built
  PROVE  /\ AfterPrepare(mem[n], db[n], b) \in Process(built)
         /\ AfterPrepare(mem[n], db[n], b).at = mem[n].at
         /\ AfterPrepare(mem[n], db[n], b).got = mem[n].got
         /\ AfterPrepare(mem[n], db[n], b).cand = mem[n].cand
         /\ AfterPrepare(mem[n], db[n], b).target = mem[n].target
         /\ AfterPrepare(mem[n], db[n], b).threads = mem[n].threads
         /\ AfterPrepare(mem[n], db[n], b).pending =
              IF Timely(db[n], b) /\ b.round > db[n].round THEN NoBlock ELSE mem[n].pending
         /\ AfterPrepare(mem[n], db[n], b).certs =
              IF Timely(db[n], b) /\ b.round > db[n].round
                THEN mem[n].certs \cup {[height |-> b.height, round |-> b.round]}
                ELSE mem[n].certs
<1> DEFINE s == db[n]
           m == mem[n]
<1>1. s \in Database(built) /\ m \in Process(built) /\ built \subseteq Block
  BY DEF Types
<1> HIDE DEF s, m
<1>2. /\ AfterPrepare(m, s, b) \in Process(built)
      /\ AfterPrepare(m, s, b).at = m.at
      /\ AfterPrepare(m, s, b).got = m.got
      /\ AfterPrepare(m, s, b).cand = m.cand
      /\ AfterPrepare(m, s, b).target = m.target
      /\ AfterPrepare(m, s, b).threads = m.threads
      /\ AfterPrepare(m, s, b).pending =
           IF Timely(s, b) /\ b.round > s.round THEN NoBlock ELSE m.pending
      /\ AfterPrepare(m, s, b).certs =
           IF Timely(s, b) /\ b.round > s.round
             THEN m.certs \cup {[height |-> b.height, round |-> b.round]} ELSE m.certs
  BY ONLY <1>1, b \in built, AfterPrepareIs
<1> QED BY <1>2 DEF s, m

-----------------------------------------------------------------------------
(* Types. *)

LEMMA MoreBlocks ==
  ASSUME NEW B, NEW C, B \subseteq C
  PROVE  /\ Database(B) \subseteq Database(C)
         /\ Process(B) \subseteq Process(C)
         /\ Message(B) \subseteq Message(C)
         /\ Signature(B) \subseteq Signature(C)
<1>1. Seq(B) \subseteq Seq(C)
  OBVIOUS
<1>2. [phase : Phase, block : B] \subseteq [phase : Phase, block : C]
  OBVIOUS
<1>3. Database(B) \subseteq Database(C)
  BY <1>1, <1>2 DEF Database
<1>4. Process(B) \subseteq Process(C)
  BY <1>2 DEF Process
<1>5. Message(B) \subseteq Message(C) /\ Signature(B) \subseteq Signature(C)
  BY DEF Message, Signature
<1> QED BY <1>3, <1>4, <1>5

LEMMA SignedByIs ==
  ASSUME NEW n \in Validator, NEW B, NEW b \in B, NEW phase \in Phase
  PROVE  /\ Vote(n, b, phase) \in Signature(B)
         /\ SignedBy(n, b, phase) \subseteq {Vote(n, b, phase)}
         /\ SignedBy(n, b, phase) \subseteq Signature(B)
         /\ Signs(db[n], b, phase) => SignedBy(n, b, phase) = {Vote(n, b, phase)}
         /\ ~Signs(db[n], b, phase) => SignedBy(n, b, phase) = {}
BY DEF Vote, Signature, SignedBy

\* A step of one validator that builds nothing.
LEMMA OneMoves ==
  ASSUME Types, NEW n \in Validator,
         NEW d \in Database(built), db' = [db EXCEPT ![n] = d],
         NEW m \in Process(built), mem' = [mem EXCEPT ![n] = m],
         m.at \in Phase \cup {"broadcast"} => m.cand \in built,
         asked' \subseteq asked \cup Message(built),
         signed' \subseteq signed \cup Signature(built),
         UNCHANGED <<built, crashes>>
  PROVE  Types'
BY DEF Types

LEMMA AnswerIs ==
  ASSUME NEW B, B \subseteq Block, NEW m \in [Validator -> Process(B)], NEW n \in Validator,
         NEW b \in B, NEW phase \in Phase, NEW v \in Validator
  PROVE  /\ Answer(m, n, b, phase) \in [Validator -> Process(B)]
         /\ Answer(m, n, b, phase)[v].at = m[v].at
         /\ Answer(m, n, b, phase)[v].cand = m[v].cand
         /\ Answer(m, n, b, phase)[v].target = m[v].target
         /\ Answer(m, n, b, phase)[v].pending = m[v].pending
         /\ Answer(m, n, b, phase)[v].certs = m[v].certs
         /\ Answer(m, n, b, phase)[v].threads = m[v].threads
         /\ \/ Answer(m, n, b, phase)[v].got = m[v].got
            \/ /\ m[v].at = phase /\ m[v].cand = b
               /\ Answer(m, n, b, phase)[v].got = m[v].got \cup {n}
<1>1. Proposer(b.height, b.round) \in Validator
  BY ProposerIsValidator DEF Block
<1> DEFINE p == Proposer(b.height, b.round)
<1> HIDE DEF p
<1>2. CASE m[p].at = phase /\ m[p].cand = b
  <2>1. Answer(m, n, b, phase) = [m EXCEPT ![p] = [m[p] EXCEPT !.got = @ \cup {n}]]
    BY <1>2 DEF Answer, p
  <2>2. p \in Validator
    BY <1>1 DEF p
  <2> DEFINE q == [m[p] EXCEPT !.got = @ \cup {n}]
  <2>3. /\ q \in Process(B) /\ q.at = m[p].at /\ q.cand = m[p].cand /\ q.target = m[p].target
        /\ q.pending = m[p].pending /\ q.certs = m[p].certs /\ q.threads = m[p].threads
        /\ q.got = m[p].got \cup {n}
    BY <2>2 DEF Process
  <2> HIDE DEF q
  <2>4. Answer(m, n, b, phase) = [m EXCEPT ![p] = q]
    BY <2>1 DEF q
  <2> QED BY <1>2, <2>2, <2>3, <2>4
<1>3. CASE ~(m[p].at = phase /\ m[p].cand = b)
  BY <1>3 DEF Answer, p
<1> QED BY <1>2, <1>3

LEMMA GatherIs ==
  ASSUME NEW B, B \subseteq Block, db \in [Validator -> Database(B)],
         mem \in [Validator -> Process(B)], NEW n \in Validator, NEW m \in Process(B),
         NEW b \in B, NEW phase \in Phase, Gather(n, m, b, phase)
  PROVE  \E q \in Process(B) :
           /\ mem' = [mem EXCEPT ![n] = q]
           /\ db' = [db EXCEPT ![n] = AfterVote(@, b, phase)]
           /\ Signs(db[n], b, phase) =>
                /\ q.at = phase /\ q.got = {n} /\ q.cand = b
                /\ signed' = signed \cup {Vote(n, b, phase)}
                /\ asked' = asked \cup {[kind |-> phase, block |-> b]}
           /\ ~Signs(db[n], b, phase) =>
                q.at = "idle" /\ q.got = {} /\ signed' = signed /\ asked' = asked
           /\ q.threads = m.threads
           /\ q.pending = IF Timely(db[n], b) /\ b.round > db[n].round
                            THEN NoBlock ELSE m.pending
           /\ q.certs = IF Timely(db[n], b) /\ b.round > db[n].round
                          THEN m.certs \cup {[height |-> b.height, round |-> b.round]}
                          ELSE m.certs
           /\ crashes' = crashes
<1> DEFINE a == AfterPrepare(m, db[n], b)
           P == phase = "precommit"
           own == [a EXCEPT !.cand = b, !.proven = P]
<1>1. db[n] \in Database(B)
  OBVIOUS
<1>2. /\ a \in Process(B) /\ a.threads = m.threads
      /\ a.pending = IF Timely(db[n], b) /\ b.round > db[n].round THEN NoBlock ELSE m.pending
      /\ a.certs = IF Timely(db[n], b) /\ b.round > db[n].round
                     THEN m.certs \cup {[height |-> b.height, round |-> b.round]}
                     ELSE m.certs
  <2> DEFINE s == db[n]
  <2>1. s \in Database(B)
    BY <1>1
  <2> HIDE DEF s
  <2>2. /\ AfterPrepare(m, s, b) \in Process(B)
        /\ AfterPrepare(m, s, b).threads = m.threads
        /\ AfterPrepare(m, s, b).pending =
              IF Timely(s, b) /\ b.round > s.round THEN NoBlock ELSE m.pending
        /\ AfterPrepare(m, s, b).certs =
              IF Timely(s, b) /\ b.round > s.round
                THEN m.certs \cup {[height |-> b.height, round |-> b.round]} ELSE m.certs
    BY ONLY <2>1, B \subseteq Block, m \in Process(B), b \in B, AfterPrepareIs
  <2> QED BY <2>2 DEF s
<1>3. P \in BOOLEAN
  OBVIOUS
<1> HIDE DEF a, P
<1>4. /\ own \in Process(B) /\ own.threads = a.threads /\ own.pending = a.pending
      /\ own.certs = a.certs /\ own.cand = b
  BY <1>2, <1>3 DEF Process
<1>5. /\ db' = [db EXCEPT ![n] = AfterVote(@, b, phase)]
      /\ signed' = signed \cup SignedBy(n, b, phase)
      /\ crashes' = crashes
  BY DEF Gather
<1>6. CASE Signs(db[n], b, phase)
  <2>1. /\ mem' = [mem EXCEPT ![n] = [own EXCEPT !.at = phase, !.got = {n}]]
        /\ asked' = asked \cup {[kind |-> phase, block |-> b]}
    BY <1>6 DEF Gather, a, P
  <2> HIDE DEF own
  <2> DEFINE q == [own EXCEPT !.at = phase, !.got = {n}]
  <2>2. /\ q \in Process(B) /\ q.at = phase /\ q.got = {n} /\ q.cand = b
        /\ q.threads = a.threads /\ q.pending = a.pending /\ q.certs = a.certs
    BY <1>4 DEF Process, At
  <2>3. SignedBy(n, b, phase) = {Vote(n, b, phase)}
    BY <1>6, SignedByIs
  <2> HIDE DEF q
  <2>4. mem' = [mem EXCEPT ![n] = q]
    BY <2>1 DEF q
  <2> QED BY <1>2, <1>5, <1>6, <2>1, <2>2, <2>3, <2>4
<1>7. CASE ~Signs(db[n], b, phase)
  <2>1. mem' = [mem EXCEPT ![n] = Ended(own, "idle")] /\ asked' = asked
    BY <1>7 DEF Gather, a, P
  <2> HIDE DEF own
  <2> DEFINE q == Ended(own, "idle")
  <2>2. "idle" \in At
    BY DEF At
  <2>3. /\ q \in Process(B) /\ q.at = "idle" /\ q.got = {}
        /\ q.threads = a.threads /\ q.pending = a.pending /\ q.certs = a.certs
    BY <1>4, <2>2, EndedIs
  <2>4. SignedBy(n, b, phase) = {}
    BY <1>7, SignedByIs
  <2> HIDE DEF q
  <2>5. mem' = [mem EXCEPT ![n] = q]
    BY <2>1 DEF q
  <2> QED BY <1>2, <1>5, <1>7, <2>1, <2>3, <2>4, <2>5
<1> QED BY <1>6, <1>7

\* A block that a validator finalizes, from a peer or from a request.
LEMMA OneAccepts ==
  ASSUME Types, NEW n \in Validator, NEW b \in built,
         db' = [db EXCEPT ![n] = Accepted(@, b)],
         NEW m \in Process(built), mem' = [mem EXCEPT ![n] = m],
         m.at \in Phase \cup {"broadcast"} => m.cand \in built,
         UNCHANGED <<asked, built, signed, crashes>>
  PROVE  Types'
<1>1. db[n] \in Database(built) /\ built \subseteq Block
  BY DEF Types
<1> DEFINE d == Accepted(db[n], b)
<1>2. d \in Database(built)
  BY ONLY <1>1, b \in built, AcceptedIs
<1>3. db' = [db EXCEPT ![n] = d]
  BY DEF Types
<1> HIDE DEF d
<1> QED BY <1>2, <1>3, OneMoves

LEMMA OneGoes ==
  ASSUME Types, NEW n \in Validator, NEW at \in {"idle", "view"}, Goes(n, at)
  PROVE  Types'
<1>1. mem[n] \in Process(built) /\ db[n] \in Database(built) /\ db = [db EXCEPT ![n] = db[n]]
  BY DEF Types
<1> DEFINE m == Ended(mem[n], at)
<1>2. at \in At
  BY DEF At
<1>3. m \in Process(built) /\ m.at = at
  BY ONLY <1>1, <1>2, EndedIs
<1>4. mem' = [mem EXCEPT ![n] = m] /\ UNCHANGED <<db, asked, built, signed, crashes>>
  BY DEF Goes, Types
<1>5. at \notin Phase \cup {"broadcast"}
  BY DEF Phase
<1> HIDE DEF m
<1>6. /\ db' = [db EXCEPT ![n] = db[n]]
      /\ asked' \subseteq asked \cup Message(built) /\ signed' \subseteq signed \cup Signature(built)
  BY <1>1, <1>4
<1> QED BY ONLY Types, n \in Validator, <1>1, <1>3, <1>4, <1>5, <1>6, OneMoves

LEMMA OneGathers ==
  ASSUME Types, NEW n \in Validator, NEW m \in Process(built'), NEW b \in built',
         NEW phase \in Phase, Gather(n, m, b, phase),
         built \subseteq built', built' \subseteq Block, IsFiniteSet(built')
  PROVE  Types'
<1> DEFINE B == built'
<1>1. db \in [Validator -> Database(B)] /\ mem \in [Validator -> Process(B)]
  BY MoreBlocks DEF Types
<1>2. B \subseteq Block /\ m \in Process(B) /\ b \in B
  OBVIOUS
<1>3. asked \subseteq Message(B) /\ signed \subseteq Signature(B)
  BY MoreBlocks DEF Types
<1>4. \A v \in Validator : mem[v].at \in Phase \cup {"broadcast"} => mem[v].cand \in B
  BY DEF Types
<1>5. crashes \in [Validator -> Nat] /\ IsFiniteSet(B)
  BY DEF Types
<1> HIDE DEF B
<1>6. PICK q \in Process(B) :
        /\ mem' = [mem EXCEPT ![n] = q]
        /\ db' = [db EXCEPT ![n] = AfterVote(@, b, phase)]
        /\ Signs(db[n], b, phase) =>
             /\ q.at = phase /\ q.got = {n} /\ q.cand = b
             /\ signed' = signed \cup {Vote(n, b, phase)}
             /\ asked' = asked \cup {[kind |-> phase, block |-> b]}
        /\ ~Signs(db[n], b, phase) =>
             q.at = "idle" /\ q.got = {} /\ signed' = signed /\ asked' = asked
        /\ crashes' = crashes
  BY ONLY <1>1, <1>2, n \in Validator, phase \in Phase, Gather(n, m, b, phase), GatherIs,
          SMTT(30), ZenonT(60)
<1>7. AfterVote(db[n], b, phase) \in Database(B)
  <2>1. db[n] \in Database(B)
    BY <1>1
  <2> QED BY ONLY <2>1, <1>2, phase \in Phase, AfterVoteIs
<1>8. db' \in [Validator -> Database(B)]
  BY <1>1, <1>6, <1>7
<1>9. mem' \in [Validator -> Process(B)]
  BY <1>1, <1>6
<1>10. asked' \subseteq Message(B) /\ signed' \subseteq Signature(B)
  <2>1. Vote(n, b, phase) \in Signature(B)
    BY <1>2, SignedByIs
  <2>2. [kind |-> phase, block |-> b] \in Message(B)
    BY <1>2 DEF Message
  <2> QED BY <1>3, <1>6, <2>1, <2>2
<1>11. \A v \in Validator : mem'[v].at \in Phase \cup {"broadcast"} => mem'[v].cand \in B
  <2>1. "idle" \notin Phase \cup {"broadcast"}
    BY DEF Phase
  <2> QED BY <1>1, <1>2, <1>4, <1>6, <2>1
<1> QED BY <1>2, <1>5, <1>6, <1>8, <1>9, <1>10, <1>11 DEF Types, B

LEMMA BuildIs ==
  ASSUME Types, NEW n \in Validator
  PROVE  /\ Build(n) \in Block
         /\ Build(n).height = Height(db[n]) + 1
         /\ Build(n).round = db[n].round
         /\ IsFiniteSet(built \cup {Build(n)})
         /\ Build(n) # NoBlock
<1>1. Cardinality(built) \in Nat /\ IsFiniteSet(built \cup {Build(n)})
  BY FS_CardinalityType, FS_AddElement DEF Types
<1>2. db[n].chain \in Seq(built) /\ db[n].round \in Nat /\ built \subseteq Block
  BY DEF Types, Database
<1>3. Height(db[n]) \in Nat
  BY <1>2 DEF Height
<1>4. LastHash(db[n]) \in Nat
  <2>1. CASE db[n].chain = <<>>
    BY <2>1 DEF LastHash
  <2>2. CASE db[n].chain # <<>>
    <3>1. Len(db[n].chain) \in 1 .. Len(db[n].chain)
      BY <1>2, <2>2
    <3>2. db[n].chain[Len(db[n].chain)] \in Block
      BY <1>2, <3>1
    <3> QED BY <2>2, <3>2 DEF LastHash, Height, Block
  <2> QED BY <2>1, <2>2
<1> QED BY <1>1, <1>2, <1>3, <1>4 DEF Build, Block, NoBlock

\* What a vote or a record of a vote of n leaves of the other processes.
LEMMA OneServes ==
  ASSUME Types, NEW n \in Validator, NEW d \in Database(built), db' = [db EXCEPT ![n] = d],
         NEW q \in Process(built), q.at = mem[n].at, q.cand = mem[n].cand,
         NEW b \in built, NEW phase \in Phase,
         \/ mem' = [mem EXCEPT ![n] = q]
         \/ mem' = Answer([mem EXCEPT ![n] = q], n, b, phase),
         signed' \subseteq signed \cup Signature(built), UNCHANGED <<asked, built, crashes>>
  PROVE  Types'
<1> DEFINE m == [mem EXCEPT ![n] = q]
<1>1. m \in [Validator -> Process(built)] /\ built \subseteq Block
  BY DEF Types
<1>2. \A v \in Validator : m[v].at = mem[v].at /\ m[v].cand = mem[v].cand
  BY DEF Types
<1>3. mem' = m \/ mem' = Answer(m, n, b, phase)
  OBVIOUS
<1> HIDE DEF m
<1>4. mem' \in [Validator -> Process(built)]
      /\ \A v \in Validator : mem'[v].at = mem[v].at /\ mem'[v].cand = mem[v].cand
  <2>1. /\ Answer(m, n, b, phase) \in [Validator -> Process(built)]
        /\ \A v \in Validator : Answer(m, n, b, phase)[v].at = m[v].at
                                /\ Answer(m, n, b, phase)[v].cand = m[v].cand
    BY ONLY <1>1, n \in Validator, b \in built, phase \in Phase, AnswerIs
  <2> QED BY <1>1, <1>2, <1>3, <2>1
<1>5. db' \in [Validator -> Database(built)]
  BY DEF Types
<1> QED BY <1>4, <1>5 DEF Types

LEMMA AcceptTypes ==
  ASSUME Types, NEW n \in Validator, NEW b \in built,
         db' = [db EXCEPT ![n] = Accepted(@, b)],
         mem' = [mem EXCEPT ![n] = Finalized(@, b)],
         UNCHANGED <<asked, built, signed, crashes>>
  PROVE  Types'
<1>1. mem[n] \in Process(built) /\ b \in Block
  BY DEF Types
<1>2. (mem[n].at \in Phase \cup {"broadcast"} => mem[n].cand \in built)
  BY DEF Types
<1> DEFINE m == Finalized(mem[n], b)
<1>3. m \in Process(built) /\ m.at = mem[n].at /\ m.cand = mem[n].cand
  BY ONLY <1>1, FinalizedIs
<1>4. mem' = [mem EXCEPT ![n] = m]
  BY DEF Types
<1> HIDE DEF m
<1>5. m.at \in Phase \cup {"broadcast"} => m.cand \in built
  BY <1>2, <1>3
<1> QED BY <1>3, <1>4, <1>5, OneAccepts

\* A block of another validator's chain.
LEMMA OfferedIsBuilt ==
  ASSUME Types, NEW n \in Validator, NEW p \in Validator, Offers(n, p)
  PROVE  /\ Height(db[n]) + 1 \in 1 .. Height(db[p])
         /\ db[p].chain[Height(db[n]) + 1] \in built
<1>1. db[n].chain \in Seq(built) /\ db[p].chain \in Seq(built)
  BY DEF Types, Database
<1>2. Height(db[n]) \in Nat /\ Height(db[p]) \in Nat /\ Height(db[p]) > Height(db[n])
  BY <1>1 DEF Offers, Height
<1>3. /\ Height(db[n]) + 1 \in 1 .. Height(db[p]) /\ Height(db[p]) = Len(db[p].chain)
  <2>1. \A i, j \in Nat : j > i => i + 1 \in 1 .. j
    BY ONLY TRUE
  <2> QED BY ONLY <1>2, <2>1 DEF Height
<1>4. \A s \in Seq(built) : \A i \in 1 .. Len(s) : s[i] \in built
  OBVIOUS
<1> QED BY ONLY <1>1, <1>3, <1>4

LEMMA VoteTypes ==
  ASSUME Types, NEW n \in Validator, NEW b \in built, NEW phase \in Phase,
         ServeVote(n, phase, b)
  PROVE  Types'
<1>1. db[n] \in Database(built) /\ mem[n] \in Process(built) /\ built \subseteq Block
  BY DEF Types
<1> DEFINE d == AfterVote(db[n], b, phase)
           q == AfterPrepare(mem[n], db[n], b)
<1>2. d \in Database(built)
  BY ONLY <1>1, b \in built, phase \in Phase, AfterVoteIs
<1>3. q \in Process(built) /\ q.at = mem[n].at /\ q.cand = mem[n].cand
  BY ONLY Types, n \in Validator, b \in built, PreparesIs
<1>4. /\ db' = [db EXCEPT ![n] = d]
      /\ signed' = signed \cup SignedBy(n, b, phase)
      /\ \/ mem' = [mem EXCEPT ![n] = q]
         \/ mem' = Answer([mem EXCEPT ![n] = q], n, b, phase)
      /\ UNCHANGED <<asked, built, crashes>>
  BY DEF ServeVote, Types
<1>5. signed' \subseteq signed \cup Signature(built)
  BY <1>4, SignedByIs
<1> HIDE DEF d, q
<1> QED BY ONLY Types, n \in Validator, b \in built, phase \in Phase,
               <1>2, <1>3, <1>4, <1>5, OneServes

LEMMA ThreadTypes ==
  ASSUME Types, NEW n \in Validator, NEW b \in built, NEW phase \in Phase,
         ServeThread(n, phase, b)
  PROVE  Types'
<1>1. db[n] \in Database(built) /\ mem[n] \in Process(built) /\ built \subseteq Block
  BY DEF Types
<1> DEFINE d == Prepared(db[n], b)
           a == AfterPrepare(mem[n], db[n], b)
           q == [a EXCEPT !.threads = @ \cup {[phase |-> phase, block |-> b]}]
<1>2. Proposer(b.height, b.round) \in Validator
  BY <1>1, ProposerIsValidator DEF Block
<1>3. d \in Database(built)
  BY ONLY <1>1, <1>2, b \in built, PreparedIs
<1>4. a \in Process(built) /\ a.at = mem[n].at /\ a.cand = mem[n].cand
  BY ONLY Types, n \in Validator, b \in built, PreparesIs
<1>5. /\ db' = [db EXCEPT ![n] = d]
      /\ mem' = [mem EXCEPT ![n] = q]
      /\ UNCHANGED <<asked, built, signed, crashes>>
  BY DEF ServeThread
<1> HIDE DEF d, a
<1>6. q \in Process(built) /\ q.at = a.at /\ q.cand = a.cand
  BY <1>4 DEF Process
<1> HIDE DEF q
<1>7. signed' \subseteq signed \cup Signature(built)
  BY <1>5
<1> QED BY ONLY Types, n \in Validator, b \in built, phase \in Phase,
               <1>3, <1>4, <1>5, <1>6, <1>7, OneServes

LEMMA EndThreadTypes ==
  ASSUME Types, NEW n \in Validator, NEW t \in mem[n].threads, EndThread(n, t)
  PROVE  Types'
<1>1. db[n] \in Database(built) /\ mem[n] \in Process(built)
  BY DEF Types
<1>2. t.phase \in Phase /\ t.block \in built
  BY <1>1 DEF Process
<1> DEFINE d == Recorded(db[n], t.block, t.phase)
           q == [mem[n] EXCEPT !.threads = @ \ {t}]
<1>3. d \in Database(built)
  BY ONLY <1>1, <1>2, RecordedIs
<1>4. q \in Process(built) /\ q.at = mem[n].at /\ q.cand = mem[n].cand
  BY <1>1 DEF Process
<1>5. /\ db' = [db EXCEPT ![n] = d]
      /\ signed' \in {signed, signed \cup {Vote(n, t.block, t.phase)}}
      /\ \/ mem' = [mem EXCEPT ![n] = q]
         \/ mem' = Answer([mem EXCEPT ![n] = q], n, t.block, t.phase)
      /\ UNCHANGED <<asked, built, crashes>>
  BY DEF EndThread, Types
<1>6. signed' \subseteq signed \cup Signature(built)
  BY <1>2, <1>5, SignedByIs
<1> HIDE DEF d, q
<1> QED BY ONLY Types, n \in Validator, <1>2, <1>3, <1>4, <1>5, <1>6, OneServes

LEMMA TypesStep ==
  ASSUME Types, [Next]_vars
  PROVE  Types'
<1>0. CASE UNCHANGED vars
  BY <1>0 DEF vars, Types
<1> SUFFICES ASSUME NEW n \in Validator, Loop(n) \/ Serve(n) \/ Crash(n) \/ Restart(n)
             PROVE  Types'
  BY <1>0 DEF Next
<1>1. ASSUME NEW p \in Validator, SyncBlock(n, p) PROVE Types'
  <2>1. db[p].chain[Height(db[n]) + 1] \in built
    BY <1>1, OfferedIsBuilt DEF SyncBlock
  <2> QED BY <1>1, <2>1, AcceptTypes DEF SyncBlock
<1>2. CASE BuildBlock(n)
  <2>1. built' = built \cup {Build(n)}
    BY <1>2 DEF BuildBlock
  <2>2. built' \subseteq Block /\ IsFiniteSet(built') /\ Build(n) \in built' /\ built \subseteq built'
    BY <2>1, BuildIs DEF Types
  <2> DEFINE m == [mem[n] EXCEPT !.pending = Build(n)]
  <2>3. mem[n] \in Process(built')
    BY <2>2, MoreBlocks DEF Types
  <2>4. m \in Process(built')
    BY <2>2, <2>3 DEF Process
  <2>5. Gather(n, m, Build(n), "prevote") /\ "prevote" \in Phase
    BY <1>2 DEF BuildBlock, Phase
  <2> HIDE DEF m
  <2> QED BY ONLY Types, n \in Validator, <2>2, <2>4, <2>5, OneGathers
<1>3. CASE ProposeAgain(n)
  <2> DEFINE phase == IF mem[n].proven THEN "precommit" ELSE "prevote"
  <2>1. Gather(n, mem[n], mem[n].pending, phase) /\ built' = built /\ Kept(n)
    BY <1>3 DEF ProposeAgain
  <2>2. mem[n] \in Process(built') /\ phase \in Phase
    BY <2>1 DEF Types, Phase
  <2>3. mem[n].pending \in built'
    <3>1. db[n].chain \in Seq(built)
      BY DEF Types, Database
    <3>2. mem[n].pending.height # 0
      BY <2>1, <3>1 DEF Kept, Height
    <3> QED BY <2>1, <2>2, <3>2 DEF Process, NoBlock
  <2>4. built \subseteq built' /\ built' \subseteq Block /\ IsFiniteSet(built')
    BY <2>1 DEF Types
  <2> HIDE DEF phase
  <2> QED BY ONLY Types, n \in Validator, <2>1, <2>2, <2>3, <2>4, OneGathers
<1>4. CASE EndPrevotes(n)
  <2>1. CASE Goes(n, "view")
    BY <2>1, OneGoes
  <2>2. CASE Gather(n, mem[n], mem[n].cand, "precommit") /\ built' = built
    <3>1. "precommit" \in Phase /\ mem[n] \in Process(built')
      BY <2>2 DEF Types, Phase
    <3>2. mem[n].cand \in built'
      BY <1>4, <2>2 DEF Types, EndPrevotes, Phase
    <3>3. built \subseteq built' /\ built' \subseteq Block /\ IsFiniteSet(built')
      BY <2>2 DEF Types
    <3> QED BY ONLY Types, n \in Validator, <2>2, <3>1, <3>2, <3>3, OneGathers
  <2> QED BY <1>4, <2>1, <2>2 DEF EndPrevotes
<1>5. CASE EndPrecommits(n)
  <2>1. CASE Goes(n, "view") \/ Goes(n, "idle")
    BY <2>1, OneGoes
  <2>2. CASE ~(Goes(n, "view") \/ Goes(n, "idle"))
    <3> DEFINE b == mem[n].cand
    <3>1. b \in built /\ mem[n] \in Process(built) /\ b \in Block
      BY <1>5 DEF EndPrecommits, Types, Phase
    <3> DEFINE f == Finalized(mem[n], b)
               m == [f EXCEPT !.at = "broadcast", !.got = {}]
    <3>2. /\ db' = [db EXCEPT ![n] = Accepted(@, b)]
          /\ mem' = [mem EXCEPT ![n] = m]
          /\ UNCHANGED <<asked, built, signed, crashes>>
      BY <1>5, <2>2 DEF EndPrecommits, Types
    <3>3. f \in Process(built) /\ f.cand = b
      BY ONLY <3>1, FinalizedIs
    <3> HIDE DEF f
    <3>4. m \in Process(built) /\ m.cand = b
      BY <3>3 DEF Process, At
    <3> HIDE DEF m, b
    <3> QED BY ONLY Types, n \in Validator, <3>1, <3>2, <3>4, OneAccepts
  <2> QED BY <2>1, <2>2
<1>6. CASE Broadcast(n)
  <2> DEFINE m == Ended(mem[n], "view")
  <2>1. /\ mem[n] \in Process(built) /\ mem[n].cand \in built /\ db[n] \in Database(built)
        /\ db' = [db EXCEPT ![n] = db[n]]
        /\ mem' = [mem EXCEPT ![n] = m] /\ UNCHANGED <<built, crashes>>
        /\ signed' \subseteq signed \cup Signature(built)
        /\ asked' = asked \cup {[kind |-> "block", block |-> mem[n].cand]}
    BY <1>6 DEF Broadcast, Types
  <2>2. asked' \subseteq asked \cup Message(built)
    BY <2>1 DEF Message
  <2>3. "view" \in At /\ "view" \notin Phase \cup {"broadcast"}
    BY DEF At, Phase
  <2>4. m \in Process(built) /\ m.at = "view"
    BY ONLY <2>1, <2>3, EndedIs
  <2> HIDE DEF m
  <2> QED BY ONLY Types, n \in Validator, <2>1, <2>2, <2>3, <2>4, OneMoves
<1>7. CASE Wait(n)
  BY <1>7, OneGoes DEF Wait
<1>8. CASE StartChange(n)
  <2> DEFINE t == Target(n)
             m == [mem[n] EXCEPT !.at = "change", !.target = t, !.got = {n}]
  <2>1. mem[n] \in Process(built) /\ db[n] \in Database(built)
    BY DEF Types
  <2>2. t \in Slot /\ t.height \in Nat /\ t.round \in Nat
    BY <2>1 DEF Target, Slot, Database, Height
  <2>3. mem' = [mem EXCEPT ![n] = m]
    BY <1>8, <2>1 DEF StartChange, Types
  <2>4. /\ db' = [db EXCEPT ![n] = db[n]] /\ asked' \subseteq asked \cup Message(built)
        /\ UNCHANGED <<built, crashes>>
        /\ signed' = signed \cup {Change(n, t.height, t.round)}
    BY <1>8 DEF StartChange, Types
  <2> HIDE DEF t
  <2>5. m \in Process(built) /\ m.at = "change"
    BY <2>1, <2>2 DEF Process, At
  <2>6. signed' \subseteq signed \cup Signature(built)
    BY <2>2, <2>4 DEF Change, Signature
  <2>7. "change" \notin Phase \cup {"broadcast"}
    BY DEF Phase
  <2> HIDE DEF m
  <2> QED BY ONLY Types, n \in Validator, <2>1, <2>3, <2>4, <2>5, <2>6, <2>7, OneMoves
<1>9. CASE EndChange(n)
  <2>1. CASE Goes(n, "idle")
    BY <2>1, OneGoes
  <2>2. CASE ~Goes(n, "idle")
    <3> DEFINE t == mem[n].target
               a == AfterChange(mem[n], db[n], t)
               m == Ended(a, "idle")
               d == SetRound(db[n], t)
    <3>1. mem[n] \in Process(built) /\ db[n] \in Database(built) /\ t \in Slot
      BY DEF Types, Process
    <3>2. db' = [db EXCEPT ![n] = d] /\ mem' = [mem EXCEPT ![n] = m]
          /\ asked' \subseteq asked \cup Message(built)
          /\ signed' \subseteq signed \cup Signature(built) /\ UNCHANGED <<built, crashes>>
      BY <1>9, <2>2 DEF EndChange, Types
    <3>3. d \in Database(built) /\ a \in Process(built)
      BY ONLY <3>1, SetRoundIs, AfterChangeIs
    <3>4. "idle" \in At /\ "idle" \notin Phase \cup {"broadcast"}
      BY DEF At, Phase
    <3> HIDE DEF a, d
    <3>5. m \in Process(built) /\ m.at = "idle"
      BY ONLY <3>3, <3>4, EndedIs
    <3> HIDE DEF m
    <3> QED BY ONLY Types, n \in Validator, <3>2, <3>3, <3>4, <3>5, OneMoves
  <2> QED BY <2>1, <2>2
<1>10. ASSUME NEW b \in built, ReceiveBlock(n, b) PROVE Types'
  BY <1>10, AcceptTypes DEF ReceiveBlock
<1>11. ASSUME NEW b \in built, NEW phase \in Phase, ServeVote(n, phase, b) PROVE Types'
  BY <1>11, VoteTypes
<1>12. ASSUME NEW b \in built, NEW phase \in Phase, ServeThread(n, phase, b) PROVE Types'
  BY <1>12, ThreadTypes
<1>13. ASSUME NEW t \in mem[n].threads, EndThread(n, t) PROVE Types'
  BY <1>13, EndThreadTypes
<1>14. ASSUME NEW p \in Validator, ServeChange(n, p) PROVE Types'
  <2> DEFINE t == mem[p].target
             m == [mem[p] EXCEPT !.got = @ \cup {n}]
  <2>1. mem[p] \in Process(built) /\ t \in Slot /\ db[p] \in Database(built)
    BY DEF Types, Process
  <2>2. /\ mem' = [mem EXCEPT ![p] = m] /\ db' = [db EXCEPT ![p] = db[p]]
        /\ asked' \subseteq asked \cup Message(built)
        /\ UNCHANGED <<built, crashes>> /\ mem[p].at = "change"
        /\ signed' = signed \cup {Change(n, t.height, t.round)}
    BY <1>14 DEF ServeChange, Types
  <2>3. m \in Process(built) /\ m.at = mem[p].at
    BY <2>1 DEF Process
  <2>4. signed' \subseteq signed \cup Signature(built)
    BY <2>1, <2>2 DEF Change, Signature, Slot
  <2>5. "change" \notin Phase \cup {"broadcast"}
    BY DEF Phase
  <2> HIDE DEF m, t
  <2> QED BY ONLY Types, p \in Validator, <2>1, <2>2, <2>3, <2>4, <2>5, OneMoves
<1>15. CASE Crash(n)
  <2>1. Down \in Process(built) /\ Down.at = "down"
    BY DEF Down, Fresh, Process, At, NoTarget, Slot
  <2>2. "down" \notin Phase \cup {"broadcast"}
    BY DEF Phase
  <2> QED BY <1>15, <2>1, <2>2 DEF Crash, Types
<1>16. CASE Restart(n)
  <2>1. Fresh \in Process(built) /\ Fresh.at = "idle"
    BY DEF Fresh, Process, At, NoTarget, Slot
  <2>2. "idle" \notin Phase \cup {"broadcast"}
    BY DEF Phase
  <2> QED BY <1>16, <2>1, <2>2 DEF Restart, Types
<1> QED BY <1>1, <1>2, <1>3, <1>4, <1>5, <1>6, <1>7, <1>8, <1>9, <1>10, <1>11, <1>12,
          <1>13, <1>14, <1>15, <1>16 DEF Loop, Serve

-----------------------------------------------------------------------------
(* The steps, grouped by what they do. *)

\* n signs a block of its own and asks for votes: one it builds, its pending
\* block, or the block whose prevotes it has gathered.
Gathers(n) ==
  \E b \in built', phase \in Phase, m \in Process(built') :
    /\ Gather(n, m, b, phase)
    /\ m.threads = mem[n].threads /\ m.certs = mem[n].certs
    /\ \/ /\ b = Build(n) /\ built' = built \cup {b} /\ m.pending = b
          /\ ~Kept(n) /\ MyTurn(n) /\ Buildable(n)
       \/ /\ built' = built /\ m.pending = mem[n].pending
          /\ b = mem[n].pending \/ (b = mem[n].cand /\ mem[n].at = "prevote")

\* n finalizes a block: one that a peer has, one that was sent to it, or the
\* block whose precommits it has gathered.
Accepts(n) ==
  \E b \in built, q \in Process(built) :
    /\ Fits(db[n], b)
    /\ db' = [db EXCEPT ![n] = Accepted(@, b)]
    /\ mem' = [mem EXCEPT ![n] = q]
    /\ q.pending = NoBlock /\ q.certs \subseteq mem[n].certs /\ q.threads = mem[n].threads
    /\ \/ /\ q.at = mem[n].at /\ q.got = mem[n].got
          /\ q.cand = mem[n].cand /\ q.target = mem[n].target
          /\ \/ \E p \in Validator : \E h \in 1 .. Height(db[p]) : db[p].chain[h] = b
             \/ [kind |-> "block", block |-> b] \in asked
       \/ /\ q.at = "broadcast" /\ q.got = {} /\ q.cand = b
          /\ mem[n].cand = b /\ mem[n].at = "precommit" /\ Quorum(mem[n].got)
    /\ UNCHANGED <<asked, built, signed, crashes>>

\* n moves on to the round of its certificate.
Changed(n) ==
  LET t == mem[n].target IN
    /\ mem[n].at = "change" /\ Quorum(mem[n].got)
    /\ db' = [db EXCEPT ![n] = SetRound(@, t)]
    /\ mem' = [mem EXCEPT ![n] = Ended(AfterChange(@, db[n], t), "idle")]
    /\ UNCHANGED <<asked, built, signed, crashes>>

Acts(n) ==
  \/ Gathers(n) \/ Accepts(n) \/ Changed(n)
  \/ Goes(n, "idle") \/ Goes(n, "view")
  \/ Broadcast(n) \/ StartChange(n) \/ Crash(n) \/ Restart(n)
  \/ \E b \in built, phase \in Phase : ServeVote(n, phase, b) \/ ServeThread(n, phase, b)
  \/ \E t \in mem[n].threads : EndThread(n, t)
  \/ \E p \in Validator : ServeChange(n, p)

LEMMA FinalizeActs ==
  ASSUME Types, NEW n \in Validator, NEW b \in built, Fits(db[n], b),
         db' = [db EXCEPT ![n] = Accepted(@, b)],
         mem' = [mem EXCEPT ![n] = Finalized(@, b)],
         UNCHANGED <<asked, built, signed, crashes>>,
         \/ \E p \in Validator : \E h \in 1 .. Height(db[p]) : db[p].chain[h] = b
         \/ [kind |-> "block", block |-> b] \in asked
  PROVE  Accepts(n)
<1>1. mem[n] \in Process(built) /\ b \in Block
  BY DEF Types
<1> DEFINE q == Finalized(mem[n], b)
<1>2. /\ q \in Process(built) /\ q.at = mem[n].at /\ q.got = mem[n].got
      /\ q.cand = mem[n].cand /\ q.target = mem[n].target
      /\ q.pending = NoBlock /\ q.certs \subseteq mem[n].certs /\ q.threads = mem[n].threads
  BY ONLY <1>1, FinalizedIs
<1>3. mem' = [mem EXCEPT ![n] = q]
  OBVIOUS
<1> HIDE DEF q
<1> QED BY <1>2, <1>3 DEF Accepts

LEMMA StepActs ==
  ASSUME Types, Next
  PROVE  \E n \in Validator : Acts(n)
<1> SUFFICES ASSUME NEW n \in Validator, Loop(n) \/ Serve(n) \/ Crash(n) \/ Restart(n)
             PROVE  Acts(n)
  BY DEF Next
<1>0. mem[n] \in Process(built) /\ db[n] \in Database(built)
  BY DEF Types
<1>1. ASSUME NEW p \in Validator, SyncBlock(n, p) PROVE Acts(n)
  <2> DEFINE h == Height(db[n]) + 1
             b == db[p].chain[h]
  <2>1. h \in 1 .. Height(db[p]) /\ b \in built
    BY <1>1, OfferedIsBuilt DEF SyncBlock
  <2>2. /\ Fits(db[n], b) /\ db' = [db EXCEPT ![n] = Accepted(@, b)]
        /\ mem' = [mem EXCEPT ![n] = Finalized(@, b)]
        /\ UNCHANGED <<asked, built, signed, crashes>>
    BY <1>1 DEF SyncBlock, Offers
  <2>3. \E v \in Validator : \E k \in 1 .. Height(db[v]) : db[v].chain[k] = b
    BY <2>1
  <2> HIDE DEF b
  <2>4. Accepts(n)
    BY ONLY Types, n \in Validator, <2>1, <2>2, <2>3, FinalizeActs
  <2> QED BY <2>4 DEF Acts
<1>2. CASE BuildBlock(n)
  <2> DEFINE m == [mem[n] EXCEPT !.pending = Build(n)]
  <2>1. /\ built' = built \cup {Build(n)} /\ Gather(n, m, Build(n), "prevote")
        /\ ~Kept(n) /\ MyTurn(n) /\ Buildable(n)
    BY <1>2 DEF BuildBlock, Proposing
  <2>2. mem[n] \in Process(built')
    BY <1>0, <2>1, MoreBlocks
  <2>3. /\ m \in Process(built') /\ m.pending = Build(n)
        /\ m.threads = mem[n].threads /\ m.certs = mem[n].certs
    BY <2>1, <2>2 DEF Process
  <2>4. "prevote" \in Phase /\ Build(n) \in built'
    BY <2>1 DEF Phase
  <2> HIDE DEF m
  <2>5. Gathers(n)
    BY <2>1, <2>3, <2>4 DEF Gathers
  <2> QED BY <2>5 DEF Acts
<1>3. CASE ProposeAgain(n)
  <2> DEFINE phase == IF mem[n].proven THEN "precommit" ELSE "prevote"
  <2>1. Gather(n, mem[n], mem[n].pending, phase) /\ built' = built /\ Kept(n)
    BY <1>3 DEF ProposeAgain
  <2>2. mem[n] \in Process(built') /\ phase \in Phase
    BY <1>0, <2>1 DEF Phase
  <2>3. mem[n].pending \in built'
    <3>1. mem[n].pending.height # 0
      BY <1>0, <2>1 DEF Kept, Height, Database
    <3> QED BY <2>1, <2>2, <3>1 DEF Process, NoBlock
  <2> HIDE DEF phase
  <2>4. Gathers(n)
    BY <2>1, <2>2, <2>3 DEF Gathers
  <2> QED BY <2>4 DEF Acts
<1>4. CASE EndPrevotes(n)
  <2>1. CASE Goes(n, "view")
    BY <2>1 DEF Acts
  <2>2. CASE Gather(n, mem[n], mem[n].cand, "precommit") /\ built' = built
    <3>1. "precommit" \in Phase /\ mem[n] \in Process(built')
      BY <1>0, <2>2 DEF Phase
    <3>2. mem[n].cand \in built' /\ mem[n].at = "prevote"
      BY <1>4, <2>2 DEF Types, EndPrevotes, Phase
    <3>3. Gathers(n)
      BY <2>2, <3>1, <3>2 DEF Gathers
    <3> QED BY <3>3 DEF Acts
  <2> QED BY <1>4, <2>1, <2>2 DEF EndPrevotes
<1>5. CASE EndPrecommits(n)
  <2>1. CASE Goes(n, "view") \/ Goes(n, "idle")
    BY <2>1 DEF Acts
  <2>2. CASE ~(Goes(n, "view") \/ Goes(n, "idle"))
    <3> DEFINE b == mem[n].cand
    <3>1. b \in built /\ b \in Block
      BY <1>5 DEF EndPrecommits, Types, Phase
    <3> DEFINE f == Finalized(mem[n], b)
               m == [f EXCEPT !.at = "broadcast", !.got = {}]
    <3>2. /\ db' = [db EXCEPT ![n] = Accepted(@, b)]
          /\ mem' = [mem EXCEPT ![n] = m]
          /\ Fits(db[n], b) /\ mem[n].at = "precommit" /\ Quorum(mem[n].got)
          /\ UNCHANGED <<asked, built, signed, crashes>>
      BY <1>5, <2>2 DEF EndPrecommits
    <3>3. /\ f \in Process(built) /\ f.cand = b /\ f.pending = NoBlock
          /\ f.certs \subseteq mem[n].certs /\ f.threads = mem[n].threads
      BY ONLY <1>0, <3>1, FinalizedIs
    <3> HIDE DEF f
    <3>4. /\ m \in Process(built) /\ m.at = "broadcast" /\ m.got = {} /\ m.cand = b
          /\ m.pending = NoBlock /\ m.certs \subseteq mem[n].certs
          /\ m.threads = mem[n].threads
      BY <3>3 DEF Process, At
    <3> HIDE DEF m
    <3>5. Accepts(n)
      BY <3>1, <3>2, <3>4 DEF Accepts
    <3> QED BY <3>5 DEF Acts
  <2> QED BY <2>1, <2>2
<1>6. CASE EndChange(n)
  <2>1. Goes(n, "idle") \/ Changed(n)
    BY <1>6 DEF EndChange, Changed
  <2> QED BY <2>1 DEF Acts
<1>7. ASSUME NEW b \in built, ReceiveBlock(n, b) PROVE Acts(n)
  <2>1. /\ Fits(db[n], b) /\ db' = [db EXCEPT ![n] = Accepted(@, b)]
        /\ mem' = [mem EXCEPT ![n] = Finalized(@, b)]
        /\ UNCHANGED <<asked, built, signed, crashes>>
        /\ [kind |-> "block", block |-> b] \in asked
    BY <1>7 DEF ReceiveBlock, Serves
  <2>2. Accepts(n)
    BY <2>1, FinalizeActs
  <2> QED BY <2>2 DEF Acts
<1>8. CASE Wait(n) \/ Broadcast(n) \/ StartChange(n) \/ Crash(n) \/ Restart(n)
  BY <1>8 DEF Acts, Wait
<1> QED BY <1>1, <1>2, <1>3, <1>4, <1>5, <1>6, <1>7, <1>8 DEF Loop, Serve, Acts

-----------------------------------------------------------------------------
(* What a step does to the databases. *)

\* Somebody has finalized b, or is about to.
Final(b) ==
  \/ \E p \in Validator : \E h \in 1 .. Height(db[p]) : db[p].chain[h] = b
  \/ [kind |-> "block", block |-> b] \in asked
  \/ \E p \in Validator :
       mem[p].cand = b /\ mem[p].at = "precommit" /\ Quorum(mem[p].got)

DbMove(s, t) ==
  \/ t = s
  \/ \E b \in built : Fits(s, b) /\ Final(b) /\ t = Accepted(s, b)
  \/ \E b \in built', phase \in Phase : t = AfterVote(s, b, phase)
  \/ \E b \in built : Timely(s, b) /\ t = Prepared(s, b)
  \/ \E b \in built, phase \in Phase : t = Recorded(s, b, phase)
  \/ \E r \in Slot : t = SetRound(s, r)

LEMMA DbMoves ==
  ASSUME Types, NEW n \in Validator, Acts(n), NEW v \in Validator
  PROVE  DbMove(db[v], db'[v])
<1>0. db \in [Validator -> Database(built)] /\ mem[n] \in Process(built)
  BY DEF Types
<1> SUFFICES ASSUME v = n PROVE DbMove(db[n], db'[n]) \/ UNCHANGED db
  <2>1. v # n => db'[v] = db[v]
    BY <1>0 DEF Acts, Gathers, Gather, Accepts, Changed, Goes, Broadcast, StartChange, Crash,
         Restart, ServeVote, ServeThread, EndThread, ServeChange
  <2> QED BY <2>1 DEF DbMove
<1>1. CASE Gathers(n)
  BY <1>0, <1>1 DEF Gathers, Gather, DbMove
<1>2. CASE Accepts(n)
  <2>1. \E b \in built : Fits(db[n], b) /\ Final(b) /\ db' = [db EXCEPT ![n] = Accepted(@, b)]
    BY <1>2 DEF Accepts, Final
  <2> QED BY <1>0, <2>1 DEF DbMove
<1>3. CASE Changed(n)
  <2>1. mem[n].target \in Slot
    BY <1>0 DEF Process
  <2> QED BY <1>0, <1>3, <2>1 DEF Changed, DbMove
<1>4. ASSUME NEW b \in built, NEW phase \in Phase, ServeVote(n, phase, b)
      PROVE  DbMove(db[n], db'[n])
  <2>1. db'[n] = AfterVote(db[n], b, phase) /\ built' = built
    BY <1>0, <1>4 DEF ServeVote
  <2> QED BY <2>1 DEF DbMove
<1>5. ASSUME NEW b \in built, NEW phase \in Phase, ServeThread(n, phase, b)
      PROVE  DbMove(db[n], db'[n])
  BY <1>0, <1>5 DEF ServeThread, Signs, DbMove
<1>6. ASSUME NEW t \in mem[n].threads, EndThread(n, t)
      PROVE  DbMove(db[n], db'[n])
  <2>1. t.block \in built /\ t.phase \in Phase
    BY <1>0 DEF Process
  <2> QED BY <1>0, <1>6, <2>1 DEF EndThread, DbMove
<1>7. CASE \/ Goes(n, "idle") \/ Goes(n, "view") \/ Broadcast(n) \/ StartChange(n)
           \/ Crash(n) \/ Restart(n) \/ \E p \in Validator : ServeChange(n, p)
  BY <1>7 DEF Goes, Broadcast, StartChange, Crash, Restart, ServeChange
<1> QED BY <1>1, <1>2, <1>3, <1>4, <1>5, <1>6, <1>7 DEF Acts

LEMMA NothingForgotten ==
  ASSUME NEW n, Acts(n)
  PROVE  /\ signed \subseteq signed' /\ asked \subseteq asked' /\ built \subseteq built'
<1>1. ASSUME NEW b, NEW m, NEW phase, Gather(n, m, b, phase)
      PROVE  signed \subseteq signed' /\ asked \subseteq asked'
  BY <1>1 DEF Gather
<1>2. CASE Gathers(n)
  BY <1>1, <1>2 DEF Gathers
<1>3. CASE ~Gathers(n)
  BY <1>3 DEF Acts, Accepts, Changed, Goes, Broadcast, StartChange, Crash,
       Restart, ServeVote, ServeThread, EndThread, ServeChange
<1> QED BY <1>2, <1>3

\* The chain grows by one block or nothing is lost.
LEMMA DbGrows ==
  ASSUME NEW B, B \subseteq Block, built \subseteq B, built' \subseteq B,
         NEW s \in Database(B), NEW t, DbMove(s, t)
  PROVE  \/ Extends(s, t)
         \/ \E b \in built : Fits(s, b) /\ Final(b) /\ t = Accepted(s, b)
<1>0. s.round \in Nat
  BY DEF Database
<1>1. CASE t = s
  BY <1>0, <1>1 DEF Extends
<1>2. ASSUME NEW b \in B, NEW phase \in Phase PROVE Extends(s, AfterVote(s, b, phase))
  BY AfterVoteIs
<1>3. ASSUME NEW b \in B, Timely(s, b) PROVE Extends(s, Prepared(s, b))
  BY <1>3, PreparedExtends
<1>4. ASSUME NEW b \in B, NEW phase \in Phase PROVE Extends(s, Recorded(s, b, phase))
  BY RecordedExtends
<1>5. ASSUME NEW r \in Slot PROVE Extends(s, SetRound(s, r))
  BY SetRoundExtends
<1> QED BY <1>1, <1>2, <1>3, <1>4, <1>5 DEF DbMove

\* A validator locks one block of a height.
LEMMA LocksMove ==
  ASSUME NEW B, B \subseteq Block, built \subseteq B, built' \subseteq B,
         NEW s \in Database(B), NEW t, DbMove(s, t),
         \A l, k \in s.locks : l.height = k.height => l = k
  PROVE  \A l, k \in t.locks : l.height = k.height => l = k
<1>1. CASE t.locks \subseteq s.locks
  BY <1>1
<1>2. CASE \E b \in B : Unlocked(s, b) /\ t.locks = s.locks \cup {b}
  BY <1>2 DEF Unlocked
<1>3. ASSUME NEW b \in B PROVE Accepted(s, b).locks \subseteq s.locks
  BY DEF Accepted, Above
<1>4. ASSUME NEW b \in B, NEW phase \in Phase
      PROVE  \/ AfterVote(s, b, phase).locks = s.locks
             \/ Unlocked(s, b) /\ AfterVote(s, b, phase).locks = s.locks \cup {b}
  BY AfterVoteLocks
<1>5. ASSUME NEW b \in B, Timely(s, b) PROVE Prepared(s, b).locks = s.locks
  BY <1>5, PreparedExtends
<1>6. ASSUME NEW b \in B, NEW phase \in Phase
      PROVE  \/ Recorded(s, b, phase).locks = s.locks
             \/ Unlocked(s, b) /\ Recorded(s, b, phase).locks = s.locks \cup {b}
  BY RecordedExtends
<1>7. ASSUME NEW r \in Slot PROVE SetRound(s, r).locks = s.locks
  BY SetRoundExtends
<1>8. \/ t.locks \subseteq s.locks
      \/ \E b \in B : Unlocked(s, b) /\ t.locks = s.locks \cup {b}
  BY <1>3, <1>4, <1>5, <1>6, <1>7 DEF DbMove
<1> QED BY <1>1, <1>2, <1>8

-----------------------------------------------------------------------------
(* What a step does to signatures and requests. *)

Votes(S) == {x \in S : x.kind \in Phase}

\* n signs a vote: it checks and records it in one step, or ends a thread.
NewVote(n, b, phase) ==
  /\ signed' = signed \cup {Vote(n, b, phase)}
  /\ \/ /\ Signs(db[n], b, phase) /\ db'[n] = AfterVote(db[n], b, phase)
        /\ [kind |-> phase, block |-> b] \in asked'
     \/ [phase |-> phase, block |-> b] \in mem[n].threads

\* n asks for votes on a block of its own.
NewRequest(n, b, phase) ==
  /\ asked' = asked \cup {[kind |-> phase, block |-> b]}
  /\ Signs(db[n], b, phase) /\ db'[n] = AfterVote(db[n], b, phase)
  /\ \/ b = Build(n) /\ MyTurn(n)
     \/ b = mem[n].pending
     \/ b = mem[n].cand /\ mem[n].at = "prevote"

LEMMA GatherEffect ==
  ASSUME Types, NEW n \in Validator, Gathers(n), built \subseteq built', built' \subseteq Block
  PROVE  \/ Votes(signed') = Votes(signed) /\ asked' = asked
         \/ \E b \in built', phase \in Phase : NewVote(n, b, phase) /\ NewRequest(n, b, phase)
<1>1. PICK b \in built', phase \in Phase, m \in Process(built') :
        /\ Gather(n, m, b, phase)
        /\ \/ b = Build(n) /\ MyTurn(n)
           \/ b = mem[n].pending
           \/ b = mem[n].cand /\ mem[n].at = "prevote"
  BY DEF Gathers
<1>2. db \in [Validator -> Database(built)]
  BY DEF Types
<1>3. CASE Signs(db[n], b, phase)
  <2>1. /\ db'[n] = AfterVote(db[n], b, phase)
        /\ signed' = signed \cup {Vote(n, b, phase)}
        /\ asked' = asked \cup {[kind |-> phase, block |-> b]}
    BY <1>1, <1>2, <1>3 DEF Gather, SignedBy
  <2>2. [kind |-> phase, block |-> b] \in asked'
    BY <2>1
  <2>3. NewVote(n, b, phase) /\ NewRequest(n, b, phase)
    BY <1>1, <1>3, <2>1, <2>2 DEF NewVote, NewRequest
  <2> QED BY <2>3
<1>4. CASE ~Signs(db[n], b, phase)
  <2>1. signed' = signed /\ asked' = asked
    BY <1>1, <1>4 DEF Gather, SignedBy
  <2> QED BY <2>1
<1> QED BY <1>3, <1>4

LEMMA BuiltGrows ==
  ASSUME Types, Types', NEW n \in Validator, Acts(n)
  PROVE  built \subseteq built' /\ built' \subseteq Block
BY NothingForgotten DEF Types

LEMMA VotesSigned ==
  ASSUME Types, Types', NEW n \in Validator, Acts(n)
  PROVE  \/ Votes(signed') = Votes(signed)
         \/ \E b \in built', phase \in Phase : NewVote(n, b, phase)
<1>0. built \subseteq built' /\ built' \subseteq Block
  BY BuiltGrows
<1>1. CASE Gathers(n)
  BY <1>0, <1>1, GatherEffect
<1>2. ASSUME NEW b \in built, NEW phase \in Phase, ServeVote(n, phase, b)
      PROVE  Votes(signed') = Votes(signed) \/ NewVote(n, b, phase)
  <2>1. db'[n] = AfterVote(db[n], b, phase) /\ asked' = asked
        /\ [kind |-> phase, block |-> b] \in asked
    BY <1>2 DEF ServeVote, Serves, Types
  <2>2. signed' = signed \cup SignedBy(n, b, phase)
    BY <1>2 DEF ServeVote
  <2> QED BY <2>1, <2>2 DEF SignedBy, NewVote
<1>3. ASSUME NEW b \in built, NEW phase \in Phase, ServeThread(n, phase, b)
      PROVE  signed' = signed
  BY <1>3 DEF ServeThread
<1>4. ASSUME NEW t \in mem[n].threads, EndThread(n, t)
      PROVE  \/ signed' = signed
             \/ t.block \in built /\ t.phase \in Phase /\ NewVote(n, t.block, t.phase)
  <2>1. /\ t.phase \in Phase /\ t.block \in built
        /\ t = [phase |-> t.phase, block |-> t.block]
    BY DEF Types, Process
  <2>2. signed' = signed \/ signed' = signed \cup {Vote(n, t.block, t.phase)}
    BY <1>4 DEF EndThread
  <2> QED BY <2>1, <2>2 DEF NewVote
<1>5. CASE StartChange(n) \/ \E p \in Validator : ServeChange(n, p)
  <2>1. \A p, h, r : Change(p, h, r).kind \notin Phase
    BY DEF Change, Phase
  <2>2. \E p, h, r : signed' = signed \cup {Change(p, h, r)}
    BY <1>5 DEF StartChange, ServeChange
  <2> QED BY <2>1, <2>2 DEF Votes
<1>6. CASE \/ Accepts(n) \/ Changed(n) \/ Goes(n, "idle") \/ Goes(n, "view")
           \/ Broadcast(n) \/ Crash(n) \/ Restart(n)
  BY <1>6 DEF Accepts, Changed, Goes, Broadcast, Crash, Restart
<1> QED BY <1>0, <1>1, <1>2, <1>3, <1>4, <1>5, <1>6 DEF Acts

LEMMA VotesAsked ==
  ASSUME Types, Types', NEW n \in Validator, Acts(n)
  PROVE  /\ \/ Votes(asked') = Votes(asked)
            \/ \E b \in built', phase \in Phase : NewRequest(n, b, phase)
         /\ \A b : [kind |-> "block", block |-> b] \in asked' =>
              \/ [kind |-> "block", block |-> b] \in asked
              \/ mem[n].at = "broadcast" /\ mem[n].cand = b
<1>0. built \subseteq built' /\ built' \subseteq Block
  BY BuiltGrows
<1>1. CASE Gathers(n)
  <2>1. asked' = asked \/ \E b \in built', phase \in Phase : NewRequest(n, b, phase)
    BY <1>0, <1>1, GatherEffect
  <2>2. ASSUME NEW b, NEW phase \in Phase, NewRequest(n, b, phase), NEW c,
               [kind |-> "block", block |-> c] \in asked'
        PROVE  [kind |-> "block", block |-> c] \in asked
    BY <2>2 DEF NewRequest, Phase
  <2> QED BY <2>1, <2>2
<1>2. CASE Broadcast(n)
  <2>1. asked' = asked \cup {[kind |-> "block", block |-> mem[n].cand]}
        /\ mem[n].at = "broadcast"
    BY <1>2 DEF Broadcast
  <2>2. "block" \notin Phase
    BY DEF Phase
  <2> QED BY <2>1, <2>2 DEF Votes
<1>3. CASE ~Gathers(n) /\ ~Broadcast(n)
  <2>1. asked' = asked
    BY <1>3 DEF Acts, Accepts, Changed, Goes, StartChange, Crash, Restart,
         ServeVote, ServeThread, EndThread, ServeChange
  <2> QED BY <2>1
<1> QED BY <1>1, <1>2, <1>3

-----------------------------------------------------------------------------
(* What a step does to the processes. *)

\* What v has gathered it had before, or was signed.
Gathered(v) ==
  /\ mem'[v].at \in Phase =>
       \A u \in mem'[v].got :
         \/ mem[v].at = mem'[v].at /\ mem[v].cand = mem'[v].cand /\ u \in mem[v].got
         \/ Vote(u, mem'[v].cand, mem'[v].at) \in signed'
  /\ mem'[v].at = "change" =>
       \A u \in mem'[v].got :
         \/ mem[v].at = "change" /\ mem[v].target = mem'[v].target /\ u \in mem[v].got
         \/ Change(u, mem'[v].target.height, mem'[v].target.round) \in signed'
  /\ mem'[v].at = "broadcast" =>
       \/ mem[v].at = "broadcast" /\ mem[v].cand = mem'[v].cand
       \/ /\ mem[v].at = "precommit" /\ mem[v].cand = mem'[v].cand
          /\ Quorum(mem[v].got)

\* Its threads and certificates it had before, or was entitled to.
Entitled(v) ==
  /\ \A t \in mem'[v].threads :
       \/ t \in mem[v].threads
       \/ <<v, t.phase>> \in Threaded /\ [kind |-> t.phase, block |-> t.block] \in asked
  /\ \A c \in mem'[v].certs :
       \/ c \in mem[v].certs
       \/ \E b \in built' : b.round > 0 /\ c = [height |-> b.height, round |-> b.round]
       \/ mem[v].at = "change" /\ c = mem[v].target /\ Quorum(mem[v].got)

\* Its pending block, and the one it gathers votes for, it had before, or builds.
Owned(v) ==
  /\ \/ mem'[v].pending \in {mem[v].pending, NoBlock}
     \/ mem'[v].pending = Build(v) /\ MyTurn(v)
  /\ mem'[v].at \in Phase =>
       \/ mem[v].at \in Phase /\ mem'[v].cand = mem[v].cand
       \/ mem'[v].cand = Build(v) /\ MyTurn(v)
       \/ mem'[v].cand = mem[v].pending

LEMMA SameProcess ==
  ASSUME NEW v, mem'[v] = mem[v]
  PROVE  Gathered(v) /\ Entitled(v) /\ Owned(v)
<1>1. Gathered(v)
  <2>1. "change" \notin Phase /\ "broadcast" \notin Phase
    BY DEF Phase
  <2> QED BY <2>1 DEF Gathered
<1>2. Entitled(v) /\ Owned(v)
  BY DEF Entitled, Owned
<1> QED BY <1>1, <1>2

\* A vote or a record of a vote of n.
LEMMA Served ==
  ASSUME Types, NEW n \in Validator, NEW v \in Validator, NEW q \in Process(built),
         q.at = mem[n].at, q.cand = mem[n].cand, q.target = mem[n].target, q.got = mem[n].got,
         NEW b \in built, NEW phase \in Phase,
         \/ mem' = [mem EXCEPT ![n] = q]
         \/ /\ mem' = Answer([mem EXCEPT ![n] = q], n, b, phase)
            /\ Vote(n, b, phase) \in signed'
  PROVE  /\ Gathered(v)
         /\ mem'[v].at = mem[v].at /\ mem'[v].cand = mem[v].cand
         /\ v # n => /\ mem'[v].pending = mem[v].pending /\ mem'[v].certs = mem[v].certs
                     /\ mem'[v].threads = mem[v].threads
         /\ mem'[n].pending = q.pending /\ mem'[n].certs = q.certs
         /\ mem'[n].threads = q.threads
<1> DEFINE m == [mem EXCEPT ![n] = q]
<1>1. m \in [Validator -> Process(built)] /\ built \subseteq Block
  BY DEF Types
<1>2. \A u \in Validator :
        /\ m[u].at = mem[u].at /\ m[u].cand = mem[u].cand /\ m[u].target = mem[u].target
        /\ m[u].got = mem[u].got
  BY DEF Types
<1>3. m[n] = q /\ (v # n => m[v] = mem[v])
  BY DEF Types
<1>4. mem' = m \/ (mem' = Answer(m, n, b, phase) /\ Vote(n, b, phase) \in signed')
  OBVIOUS
<1> HIDE DEF m
<1>5. ASSUME NEW u \in Validator
      PROVE  /\ Answer(m, n, b, phase)[u].at = m[u].at
             /\ Answer(m, n, b, phase)[u].cand = m[u].cand
             /\ Answer(m, n, b, phase)[u].target = m[u].target
             /\ Answer(m, n, b, phase)[u].pending = m[u].pending
             /\ Answer(m, n, b, phase)[u].certs = m[u].certs
             /\ Answer(m, n, b, phase)[u].threads = m[u].threads
             /\ \/ Answer(m, n, b, phase)[u].got = m[u].got
                \/ /\ m[u].at = phase /\ m[u].cand = b
                   /\ Answer(m, n, b, phase)[u].got = m[u].got \cup {n}
  BY ONLY <1>1, n \in Validator, b \in built, phase \in Phase, u \in Validator, AnswerIs
<1>6. ASSUME NEW u \in Validator
      PROVE  /\ mem'[u].at = m[u].at /\ mem'[u].cand = m[u].cand
             /\ mem'[u].target = m[u].target /\ mem'[u].pending = m[u].pending
             /\ mem'[u].certs = m[u].certs /\ mem'[u].threads = m[u].threads
             /\ \/ mem'[u].got = m[u].got
                \/ /\ m[u].at = phase /\ m[u].cand = b
                   /\ mem'[u].got = m[u].got \cup {n} /\ Vote(n, b, phase) \in signed'
  BY <1>4, <1>5
<1>7. Gathered(v)
  <2>1. "change" \notin Phase /\ "broadcast" \notin Phase
    BY DEF Phase
  <2> QED BY <1>2, <1>6, <2>1 DEF Gathered
<1> QED BY <1>2, <1>3, <1>6, <1>7

LEMMA VoteEffect ==
  ASSUME Types, NEW n \in Validator, NEW b \in built, NEW phase \in Phase,
         ServeVote(n, phase, b), NEW v \in Validator
  PROVE  /\ Gathered(v) /\ Entitled(v)
         /\ mem'[v].at = mem[v].at /\ mem'[v].cand = mem[v].cand
         /\ mem'[v].pending = IF v = n /\ b.round > db[n].round THEN NoBlock ELSE mem[v].pending
<1>1. db[n] \in Database(built) /\ built \subseteq Block
  BY DEF Types
<1> DEFINE q == AfterPrepare(mem[n], db[n], b)
<1>2. /\ q \in Process(built) /\ q.at = mem[n].at /\ q.got = mem[n].got
      /\ q.cand = mem[n].cand /\ q.target = mem[n].target /\ q.threads = mem[n].threads
      /\ q.pending = IF Timely(db[n], b) /\ b.round > db[n].round THEN NoBlock ELSE mem[n].pending
      /\ q.certs = IF Timely(db[n], b) /\ b.round > db[n].round
                     THEN mem[n].certs \cup {[height |-> b.height, round |-> b.round]}
                     ELSE mem[n].certs
  BY ONLY Types, n \in Validator, b \in built, PreparesIs
<1>3. /\ \/ mem' = [mem EXCEPT ![n] = q]
         \/ /\ mem' = Answer([mem EXCEPT ![n] = q], n, b, phase)
            /\ Vote(n, b, phase) \in signed'
      /\ Timely(db[n], b) /\ built' = built
  BY DEF ServeVote, SignedBy
<1> HIDE DEF q
<1>4. /\ Gathered(v)
      /\ mem'[v].at = mem[v].at /\ mem'[v].cand = mem[v].cand
      /\ v # n => /\ mem'[v].pending = mem[v].pending /\ mem'[v].certs = mem[v].certs
                  /\ mem'[v].threads = mem[v].threads
      /\ mem'[n].pending = q.pending /\ mem'[n].certs = q.certs
      /\ mem'[n].threads = q.threads
  BY ONLY Types, n \in Validator, v \in Validator, b \in built, phase \in Phase, <1>2, <1>3, Served
<1>5. b.round \in Nat /\ db[n].round \in Nat
  BY <1>1 DEF Block, Database
<1>6. Entitled(v)
  BY <1>2, <1>3, <1>4, <1>5 DEF Entitled
<1> QED BY <1>2, <1>3, <1>4, <1>6

LEMMA ThreadEffect ==
  ASSUME Types, NEW n \in Validator, NEW b \in built, NEW phase \in Phase,
         ServeThread(n, phase, b), NEW v \in Validator
  PROVE  /\ Gathered(v) /\ Entitled(v)
         /\ mem'[v].at = mem[v].at /\ mem'[v].cand = mem[v].cand
         /\ mem'[v].pending = IF v = n /\ b.round > db[n].round THEN NoBlock ELSE mem[v].pending
<1>1. db[n] \in Database(built) /\ built \subseteq Block
  BY DEF Types
<1> DEFINE a == AfterPrepare(mem[n], db[n], b)
           q == [a EXCEPT !.threads = @ \cup {[phase |-> phase, block |-> b]}]
<1>2. /\ a \in Process(built) /\ a.at = mem[n].at /\ a.got = mem[n].got
      /\ a.cand = mem[n].cand /\ a.target = mem[n].target /\ a.threads = mem[n].threads
      /\ a.pending = IF Timely(db[n], b) /\ b.round > db[n].round THEN NoBlock ELSE mem[n].pending
      /\ a.certs = IF Timely(db[n], b) /\ b.round > db[n].round
                     THEN mem[n].certs \cup {[height |-> b.height, round |-> b.round]}
                     ELSE mem[n].certs
  BY ONLY Types, n \in Validator, b \in built, PreparesIs
<1>3. /\ mem' = [mem EXCEPT ![n] = q] /\ Timely(db[n], b) /\ built' = built
      /\ <<n, phase>> \in Threaded /\ [kind |-> phase, block |-> b] \in asked
  BY DEF ServeThread, Serves, Signs
<1> HIDE DEF a
<1>4. /\ q \in Process(built) /\ q.at = a.at /\ q.got = a.got /\ q.cand = a.cand
      /\ q.target = a.target /\ q.pending = a.pending /\ q.certs = a.certs
      /\ q.threads = a.threads \cup {[phase |-> phase, block |-> b]}
  BY <1>2 DEF Process
<1> HIDE DEF q
<1>5. /\ q.at = mem[n].at /\ q.cand = mem[n].cand /\ q.target = mem[n].target
      /\ q.got = mem[n].got
  BY <1>2, <1>4
<1>6. /\ Gathered(v)
      /\ mem'[v].at = mem[v].at /\ mem'[v].cand = mem[v].cand
      /\ v # n => /\ mem'[v].pending = mem[v].pending /\ mem'[v].certs = mem[v].certs
                  /\ mem'[v].threads = mem[v].threads
      /\ mem'[n].pending = q.pending /\ mem'[n].certs = q.certs
      /\ mem'[n].threads = q.threads
  BY ONLY Types, n \in Validator, v \in Validator, b \in built, phase \in Phase,
          <1>3, <1>4, <1>5, Served
<1>7. b.round \in Nat /\ db[n].round \in Nat
  BY <1>1 DEF Block, Database
<1>8. Entitled(v)
  BY <1>2, <1>3, <1>4, <1>6, <1>7 DEF Entitled
<1> QED BY <1>2, <1>3, <1>4, <1>6, <1>8

LEMMA EndThreadEffect ==
  ASSUME Types, NEW n \in Validator, NEW t \in mem[n].threads, EndThread(n, t),
         NEW v \in Validator
  PROVE  /\ Gathered(v) /\ Entitled(v)
         /\ mem'[v].at = mem[v].at /\ mem'[v].cand = mem[v].cand
         /\ mem'[v].pending = mem[v].pending
<1>1. mem[n] \in Process(built)
  BY DEF Types
<1>2. t.phase \in Phase /\ t.block \in built
  BY <1>1 DEF Process
<1> DEFINE q == [mem[n] EXCEPT !.threads = @ \ {t}]
<1>3. /\ q \in Process(built) /\ q.at = mem[n].at /\ q.cand = mem[n].cand
      /\ q.target = mem[n].target /\ q.got = mem[n].got /\ q.pending = mem[n].pending
      /\ q.certs = mem[n].certs /\ q.threads = mem[n].threads \ {t}
  BY <1>1 DEF Process
<1>4. \/ mem' = [mem EXCEPT ![n] = q]
      \/ /\ mem' = Answer([mem EXCEPT ![n] = q], n, t.block, t.phase)
         /\ Vote(n, t.block, t.phase) \in signed'
  BY DEF EndThread
<1> HIDE DEF q
<1>5. /\ Gathered(v)
      /\ mem'[v].at = mem[v].at /\ mem'[v].cand = mem[v].cand
      /\ v # n => /\ mem'[v].pending = mem[v].pending /\ mem'[v].certs = mem[v].certs
                  /\ mem'[v].threads = mem[v].threads
      /\ mem'[n].pending = q.pending /\ mem'[n].certs = q.certs
      /\ mem'[n].threads = q.threads
  BY ONLY Types, n \in Validator, v \in Validator, <1>2, <1>3, <1>4, Served
<1>6. Entitled(v)
  BY <1>3, <1>5 DEF Entitled
<1> QED BY <1>3, <1>5, <1>6

LEMMA GatherMoves ==
  ASSUME Types, Types', NEW n \in Validator, Acts(n), Gathers(n), NEW v \in Validator
  PROVE  Gathered(v) /\ Entitled(v) /\ Owned(v)
<1>0. built \subseteq built' /\ built' \subseteq Block
  BY BuiltGrows
<1>1. PICK b \in built', phase \in Phase, m \in Process(built') :
        /\ Gather(n, m, b, phase)
        /\ m.certs = mem[n].certs /\ m.threads = mem[n].threads
        /\ \/ b = Build(n) /\ MyTurn(n) /\ m.pending = b
           \/ /\ m.pending = mem[n].pending
              /\ b = mem[n].pending \/ (b = mem[n].cand /\ mem[n].at = "prevote")
  BY DEF Gathers
<1>2. /\ db \in [Validator -> Database(built')]
      /\ mem \in [Validator -> Process(built')]
  BY <1>0, MoreBlocks DEF Types
<1>3. PICK q \in Process(built') :
        /\ mem' = [mem EXCEPT ![n] = q]
        /\ db' = [db EXCEPT ![n] = AfterVote(@, b, phase)]
        /\ Signs(db[n], b, phase) =>
             /\ q.at = phase /\ q.got = {n} /\ q.cand = b
             /\ signed' = signed \cup {Vote(n, b, phase)}
             /\ asked' = asked \cup {[kind |-> phase, block |-> b]}
        /\ ~Signs(db[n], b, phase) =>
             q.at = "idle" /\ q.got = {} /\ signed' = signed /\ asked' = asked
        /\ q.threads = m.threads
        /\ q.pending = IF Timely(db[n], b) /\ b.round > db[n].round
                         THEN NoBlock ELSE m.pending
        /\ q.certs = IF Timely(db[n], b) /\ b.round > db[n].round
                       THEN m.certs \cup {[height |-> b.height, round |-> b.round]}
                       ELSE m.certs
        /\ crashes' = crashes
  BY ONLY <1>0, <1>1, <1>2, n \in Validator, b \in built', phase \in Phase,
          m \in Process(built'), GatherIs
<1>4. CASE v # n
  <2>1. mem'[v] = mem[v]
    BY <1>3, <1>4 DEF Types
  <2> QED BY <2>1, SameProcess
<1>5. CASE v = n
  <2>1. mem'[v] = q
    BY <1>3, <1>5 DEF Types
  <2>2. "idle" \notin Phase /\ "change" \notin Phase /\ "broadcast" \notin Phase
        /\ "prevote" \in Phase
    BY DEF Phase
  <2>3. Gathered(v)
    BY <1>3, <1>5, <2>1, <2>2 DEF Gathered
  <2>4. b.round \in Nat /\ db[n].round \in Nat
    BY <1>0, <1>2 DEF Block, Database
  <2>5. Entitled(v)
    BY <1>1, <1>3, <1>5, <2>1, <2>4 DEF Entitled
  <2>6. Owned(v)
    BY <1>1, <1>3, <1>5, <2>1, <2>2 DEF Owned
  <2> QED BY <2>3, <2>5, <2>6
<1> QED BY <1>4, <1>5

LEMMA AcceptMoves ==
  ASSUME Types, NEW n \in Validator, Accepts(n), NEW v \in Validator
  PROVE  Gathered(v) /\ Entitled(v) /\ Owned(v)
<1>1. PICK b \in built, q \in Process(built) :
        /\ mem' = [mem EXCEPT ![n] = q]
        /\ q.pending = NoBlock /\ q.certs \subseteq mem[n].certs /\ q.threads = mem[n].threads
        /\ \/ /\ q.at = mem[n].at /\ q.got = mem[n].got
              /\ q.cand = mem[n].cand /\ q.target = mem[n].target
           \/ /\ q.at = "broadcast" /\ q.cand = b
              /\ mem[n].cand = b /\ mem[n].at = "precommit" /\ Quorum(mem[n].got)
  BY DEF Accepts
<1>2. CASE v # n
  <2>1. mem'[v] = mem[v]
    BY <1>1, <1>2 DEF Types
  <2> QED BY <2>1, SameProcess
<1>3. CASE v = n
  <2>1. mem'[v] = q
    BY <1>1, <1>3 DEF Types
  <2>2. "change" \notin Phase /\ "broadcast" \notin Phase
    BY DEF Phase
  <2>3. Gathered(v)
    BY <1>1, <1>3, <2>1, <2>2 DEF Gathered
  <2>4. Entitled(v) /\ Owned(v)
    BY <1>1, <1>3, <2>1, <2>2 DEF Entitled, Owned
  <2> QED BY <2>3, <2>4
<1> QED BY <1>2, <1>3

LEMMA ChangedMoves ==
  ASSUME Types, NEW n \in Validator, Changed(n), NEW v \in Validator
  PROVE  Gathered(v) /\ Entitled(v) /\ Owned(v)
<1>1. mem[n] \in Process(built) /\ db[n] \in Database(built)
  BY DEF Types
<1> DEFINE t == mem[n].target
           a == AfterChange(mem[n], db[n], t)
           q == Ended(a, "idle")
<1>2. t \in Slot /\ "idle" \in At
  BY <1>1 DEF Process, At
<1>3. /\ a \in Process(built) /\ a.threads = mem[n].threads
      /\ a.pending = IF t.round > db[n].round THEN NoBlock ELSE mem[n].pending
      /\ a.certs = mem[n].certs \cup {t}
  BY ONLY <1>1, <1>2, AfterChangeIs
<1>4. mem' = [mem EXCEPT ![n] = q] /\ mem[n].at = "change" /\ Quorum(mem[n].got)
  BY DEF Changed
<1> HIDE DEF a
<1>5. /\ q \in Process(built) /\ q.at = "idle"
      /\ q.pending = a.pending /\ q.certs = a.certs /\ q.threads = a.threads
  BY ONLY <1>2, <1>3, EndedIs
<1> HIDE DEF q, t
<1>6. CASE v # n
  <2>1. mem'[v] = mem[v]
    BY <1>4, <1>6 DEF Types
  <2> QED BY <2>1, SameProcess
<1>7. CASE v = n
  <2>1. mem'[v] = q
    BY <1>4, <1>7 DEF Types
  <2>2. "idle" \notin Phase
    BY DEF Phase
  <2>3. Gathered(v) /\ Owned(v)
    BY <1>3, <1>5, <1>7, <2>1, <2>2 DEF Gathered, Owned
  <2>4. Entitled(v)
    BY <1>3, <1>4, <1>5, <1>7, <2>1 DEF Entitled, t
  <2> QED BY <2>3, <2>4
<1> QED BY <1>6, <1>7

\* A process that keeps what it has, and gathers nothing but view changes.
LEMMA QuietMoves ==
  ASSUME Types, NEW p \in Validator, NEW q, mem' = [mem EXCEPT ![p] = q],
         q.certs \subseteq mem[p].certs, q.threads \subseteq mem[p].threads,
         q.pending \in {mem[p].pending, NoBlock},
         \/ q.at \in {"idle", "view", "down"}
         \/ /\ q.at = "change"
            /\ \A u \in q.got :
                 \/ mem[p].at = "change" /\ mem[p].target = q.target /\ u \in mem[p].got
                 \/ Change(u, q.target.height, q.target.round) \in signed',
         NEW v \in Validator
  PROVE  Gathered(v) /\ Entitled(v) /\ Owned(v)
<1>1. CASE v # p
  <2>1. mem'[v] = mem[v]
    BY <1>1 DEF Types
  <2> QED BY <2>1, SameProcess
<1>2. CASE v = p
  <2>1. mem'[v] = q
    BY <1>2 DEF Types
  <2>2. q.at \notin Phase /\ q.at # "broadcast"
    BY DEF Phase
  <2>3. Gathered(v)
    BY <1>2, <2>1, <2>2 DEF Gathered
  <2>4. Entitled(v) /\ Owned(v)
    BY <1>2, <2>1, <2>2 DEF Entitled, Owned
  <2> QED BY <2>3, <2>4
<1> QED BY <1>1, <1>2

LEMMA Processes ==
  ASSUME Types, Types', NEW n \in Validator, Acts(n), NEW v \in Validator
  PROVE  Gathered(v) /\ Entitled(v) /\ Owned(v)
<1>0. mem \in [Validator -> Process(built)]
  BY DEF Types
<1>1. CASE Gathers(n)
  BY <1>1, GatherMoves
<1>2. CASE Accepts(n)
  BY <1>2, AcceptMoves
<1>3. CASE Changed(n)
  BY <1>3, ChangedMoves
<1>4. ASSUME NEW at \in {"idle", "view"}, mem' = [mem EXCEPT ![n] = Ended(@, at)]
      PROVE  Gathered(v) /\ Entitled(v) /\ Owned(v)
  <2> DEFINE q == Ended(mem[n], at)
  <2>1. mem[n] \in Process(built) /\ at \in At
    BY <1>0 DEF At
  <2>2. /\ q.at = at /\ q.pending = mem[n].pending /\ q.certs = mem[n].certs
        /\ q.threads = mem[n].threads
    BY ONLY <2>1, EndedIs
  <2>3. mem' = [mem EXCEPT ![n] = q]
    BY <1>4
  <2> HIDE DEF q
  <2> QED BY <2>2, <2>3, QuietMoves
<1>5. CASE Goes(n, "idle") \/ Goes(n, "view") \/ Broadcast(n)
  BY <1>4, <1>5 DEF Goes, Broadcast
<1>6. CASE StartChange(n)
  <2> DEFINE t == Target(n)
             q == [mem[n] EXCEPT !.at = "change", !.target = t, !.got = {n}]
  <2>1. mem' = [mem EXCEPT ![n] = q] /\ Change(n, t.height, t.round) \in signed'
    BY <1>6 DEF StartChange
  <2> HIDE DEF t
  <2>2. /\ q.at = "change" /\ q.target = t /\ q.got = {n} /\ q.certs = mem[n].certs
        /\ q.threads = mem[n].threads /\ q.pending = mem[n].pending
    BY <1>0 DEF Process
  <2> HIDE DEF q
  <2> QED BY <2>1, <2>2, QuietMoves
<1>7. ASSUME NEW p \in Validator, ServeChange(n, p)
      PROVE  Gathered(v) /\ Entitled(v) /\ Owned(v)
  <2> DEFINE q == [mem[p] EXCEPT !.got = @ \cup {n}]
  <2>1. /\ mem' = [mem EXCEPT ![p] = q] /\ mem[p].at = "change"
        /\ Change(n, mem[p].target.height, mem[p].target.round) \in signed'
    BY <1>0, <1>7 DEF ServeChange
  <2>2. /\ q.at = mem[p].at /\ q.target = mem[p].target /\ q.got = mem[p].got \cup {n}
        /\ q.certs = mem[p].certs /\ q.threads = mem[p].threads
        /\ q.pending = mem[p].pending
    BY <1>0 DEF Process
  <2> HIDE DEF q
  <2> QED BY <2>1, <2>2, QuietMoves
<1>8. CASE Crash(n) \/ Restart(n)
  <2>1. PICK q \in {Down, Fresh} : mem' = [mem EXCEPT ![n] = q]
    BY <1>8 DEF Crash, Restart
  <2>2. q.at \in {"idle", "down"} /\ q.certs = {} /\ q.threads = {} /\ q.pending = NoBlock
    BY DEF Down, Fresh
  <2> QED BY <2>1, <2>2, QuietMoves
<1>9. ASSUME NEW b \in built, NEW phase \in Phase, ServeVote(n, phase, b)
      PROVE  Gathered(v) /\ Entitled(v) /\ Owned(v)
  <2>1. /\ Gathered(v) /\ Entitled(v)
        /\ mem'[v].at = mem[v].at /\ mem'[v].cand = mem[v].cand
        /\ mem'[v].pending = IF v = n /\ b.round > db[n].round THEN NoBlock ELSE mem[v].pending
    BY <1>9, VoteEffect
  <2> QED BY <2>1 DEF Owned
<1>10. ASSUME NEW b \in built, NEW phase \in Phase, ServeThread(n, phase, b)
      PROVE  Gathered(v) /\ Entitled(v) /\ Owned(v)
  <2>1. /\ Gathered(v) /\ Entitled(v)
        /\ mem'[v].at = mem[v].at /\ mem'[v].cand = mem[v].cand
        /\ mem'[v].pending = IF v = n /\ b.round > db[n].round THEN NoBlock ELSE mem[v].pending
    BY <1>10, ThreadEffect
  <2> QED BY <2>1 DEF Owned
<1>11. ASSUME NEW t \in mem[n].threads, EndThread(n, t)
      PROVE  Gathered(v) /\ Entitled(v) /\ Owned(v)
  <2>1. /\ Gathered(v) /\ Entitled(v)
        /\ mem'[v].at = mem[v].at /\ mem'[v].cand = mem[v].cand
        /\ mem'[v].pending = mem[v].pending
    BY <1>11, EndThreadEffect
  <2> QED BY <2>1 DEF Owned
<1> QED BY <1>1, <1>2, <1>3, <1>5, <1>6, <1>7, <1>8, <1>9, <1>10, <1>11 DEF Acts

-----------------------------------------------------------------------------
(* Agreement.  A block is final on the precommits of a quorum.  Whoever     *)
(* precommits locks the block, and its lock lives as long as the height     *)
(* does, so it never precommits another block of that height, unless its    *)
(* handlers interleave.  Two quorums share a validator whose handlers do    *)
(* not.                                                                     *)

Certified(b) ==
  \E Q \in SUBSET Validator : Quorum(Q) /\ \A v \in Q : Vote(v, b, "precommit") \in signed

LocksAgree ==
  \A n \in Validator : \A l, k \in db[n].locks : l.height = k.height => l = k

ChainsCertified ==
  \A n \in Validator : \A h \in 1 .. Height(db[n]) :
    db[n].chain[h].height = h /\ Certified(db[n].chain[h])

BlocksCertified ==
  /\ \A b : [kind |-> "block", block |-> b] \in asked => Certified(b)
  /\ \A n \in Validator : mem[n].at = "broadcast" => Certified(mem[n].cand)

GotSigned ==
  \A n \in Validator : mem[n].at \in Phase =>
    \A u \in mem[n].got : Vote(u, mem[n].cand, mem[n].at) \in signed

Sole(v) == <<v, "precommit">> \notin Threaded

Precommits == {s \in Votes(signed) : s.kind = "precommit" /\ Sole(s.voter)}

\* Whoever precommits a block holds its lock until the height is final.
LockedOnce ==
  \A s \in Precommits :
    Height(db[s.voter]) >= s.block.height \/ s.block \in db[s.voter].locks

PrecommitsAgree ==
  \A s, w \in Precommits :
    s.voter = w.voter /\ s.block.height = w.block.height => s.block = w.block

ThreadsOnly ==
  \A n \in Validator : \A t \in mem[n].threads : <<n, t.phase>> \in Threaded

Locking ==
  /\ LocksAgree /\ ChainsCertified /\ BlocksCertified /\ GotSigned
  /\ LockedOnce /\ PrecommitsAgree /\ ThreadsOnly

LEMMA CertifiedStays ==
  ASSUME signed \subseteq signed', NEW b, Certified(b)
  PROVE  Certified(b)'
BY DEF Certified

LEMMA GotStep ==
  ASSUME Types, Types', NEW n \in Validator, Acts(n), GotSigned, BlocksCertified
  PROVE  GotSigned' /\ BlocksCertified'
<1>1. signed \subseteq signed'
  BY NothingForgotten
<1>2. \A v \in Validator : Gathered(v)
  BY Processes
<1>3. GotSigned'
  BY <1>1, <1>2 DEF GotSigned, Gathered
<1>4. ASSUME NEW v \in Validator, Quorum(mem[v].got), mem[v].at = "precommit"
      PROVE  Certified(mem[v].cand)
  <2>1. mem[v].got \in SUBSET Validator
    BY DEF Types, Process
  <2>2. \A u \in mem[v].got : Vote(u, mem[v].cand, "precommit") \in signed
    BY <1>4 DEF GotSigned, Phase
  <2> QED BY <1>4, <2>1, <2>2 DEF Certified
<1>5. ASSUME NEW v \in Validator, mem'[v].at = "broadcast"
      PROVE  Certified(mem[v].cand)'
  <2>1. Certified(mem[v].cand) /\ mem[v].cand = mem'[v].cand
    BY <1>2, <1>4, <1>5 DEF Gathered, BlocksCertified
  <2> QED BY <1>1, <2>1 DEF Certified
<1>6. ASSUME NEW b, [kind |-> "block", block |-> b] \in asked'
      PROVE  Certified(b)'
  <2>1. \/ [kind |-> "block", block |-> b] \in asked
        \/ mem[n].at = "broadcast" /\ mem[n].cand = b
    BY <1>6, VotesAsked
  <2>2. Certified(b)
    BY <2>1 DEF BlocksCertified
  <2> QED BY <1>1, <2>2, CertifiedStays
<1> QED BY <1>3, <1>5, <1>6 DEF BlocksCertified

LEMMA ChainStep ==
  ASSUME Types, Types', NEW n \in Validator, Acts(n), Locking
  PROVE  ChainsCertified'
<1>1. signed \subseteq signed' /\ built \subseteq built' /\ built' \subseteq Block
  BY NothingForgotten, BuiltGrows
<1>2. ASSUME NEW b, Final(b) PROVE Certified(b)
  <2>1. CASE \E p \in Validator : \E h \in 1 .. Height(db[p]) : db[p].chain[h] = b
    BY <2>1 DEF Locking, ChainsCertified
  <2>2. CASE [kind |-> "block", block |-> b] \in asked
    BY <2>2 DEF Locking, BlocksCertified
  <2>3. ASSUME NEW p \in Validator, mem[p].cand = b, mem[p].at = "precommit",
               Quorum(mem[p].got)
        PROVE  Certified(b)
    <3>1. mem[p].got \in SUBSET Validator
      BY DEF Types, Process
    <3>2. \A u \in mem[p].got : Vote(u, b, "precommit") \in signed
      BY <2>3 DEF Locking, GotSigned, Phase
    <3> QED BY <2>3, <3>1, <3>2 DEF Certified
  <2> QED BY <1>2, <2>1, <2>2, <2>3 DEF Final
<1>3. SUFFICES ASSUME NEW v \in Validator, NEW h \in 1 .. Height(db'[v])
               PROVE  db'[v].chain[h].height = h /\ Certified(db[v].chain[h])'
  BY DEF ChainsCertified
<1>4. db[v] \in Database(built') /\ db[v].chain \in Seq(built)
  BY <1>1, MoreBlocks DEF Types, Database
<1>5. DbMove(db[v], db'[v])
  BY DbMoves
<1>6. CASE Extends(db[v], db'[v])
  <2>1. db'[v].chain = db[v].chain
    BY <1>6 DEF Extends
  <2>2. h \in 1 .. Height(db[v])
    BY <2>1 DEF Height
  <2>3. db[v].chain[h].height = h /\ Certified(db[v].chain[h])
    BY <2>2 DEF Locking, ChainsCertified
  <2> QED BY <1>1, <2>1, <2>3 DEF Certified
<1>7. ASSUME NEW b \in built, Fits(db[v], b), Final(b), db'[v] = Accepted(db[v], b)
      PROVE  db'[v].chain[h].height = h /\ Certified(db[v].chain[h])'
  <2>1. db'[v].chain = Append(db[v].chain, b)
    BY <1>7 DEF Accepted
  <2>2. CASE h \in 1 .. Height(db[v])
    <3>1. db'[v].chain[h] = db[v].chain[h]
      BY <1>4, <2>1, <2>2 DEF Height
    <3>2. db[v].chain[h].height = h /\ Certified(db[v].chain[h])
      BY <2>2 DEF Locking, ChainsCertified
    <3> QED BY <1>1, <3>1, <3>2 DEF Certified
  <2>3. CASE h \notin 1 .. Height(db[v])
    <3>1. h = Height(db[v]) + 1 /\ db'[v].chain[h] = b
      BY <1>4, <2>1, <2>3 DEF Height
    <3>2. b.height = h /\ Certified(b)
      BY <1>2, <1>7, <3>1 DEF Fits
    <3> QED BY <1>1, <3>1, <3>2 DEF Certified
  <2> QED BY <2>2, <2>3
<1> QED BY <1>1, <1>4, <1>5, <1>6, <1>7, DbGrows

\* A new precommit of a validator whose handlers do not interleave is signed
\* in the step that checks and locks.
LEMMA NewPrecommit ==
  ASSUME Types, Types', NEW n \in Validator, Acts(n), ThreadsOnly, NEW s \in Precommits'
  PROVE  \/ s \in Precommits
         \/ \E b \in built' :
              /\ s = Vote(n, b, "precommit") /\ Signs(db[n], b, "precommit")
              /\ db'[n] = AfterVote(db[n], b, "precommit")
<1>1. s \in signed' /\ s.kind = "precommit" /\ s.kind \in Phase /\ Sole(s.voter)
  BY DEF Precommits, Votes, Phase
<1>2. CASE s \in signed
  BY <1>1, <1>2 DEF Precommits, Votes
<1>3. CASE s \notin signed
  <2>1. s \in Votes(signed') /\ s \notin Votes(signed)
    BY <1>1, <1>3 DEF Votes
  <2>2. PICK b \in built', phase \in Phase : NewVote(n, b, phase)
    BY <2>1, VotesSigned
  <2>3. s = Vote(n, b, phase)
    BY <1>1, <1>3, <2>2 DEF NewVote
  <2>4. phase = "precommit" /\ Sole(n)
    BY <1>1, <2>3 DEF Vote
  <2>5. [phase |-> phase, block |-> b] \notin mem[n].threads
    <3> DEFINE t == [phase |-> phase, block |-> b]
    <3>1. t.phase = "precommit"
      BY <2>4
    <3> QED BY <2>4, <3>1 DEF ThreadsOnly, Sole
  <2> QED BY <2>2, <2>3, <2>4, <2>5 DEF NewVote
<1> QED BY <1>2, <1>3

LEMMA SignsIs ==
  ASSUME NEW B, B \subseteq Block, NEW s \in Database(B), NEW b \in B, NEW phase \in Phase,
         Signs(s, b, phase)
  PROVE  /\ b.height = Height(s) + 1 /\ b.round \in {s.round, s.round + 1}
         /\ ~Conflicting(s, b) /\ Unlocked(s, b)
         /\ b \in AfterVote(s, b, phase).seen
         /\ phase = "precommit" => b \in AfterVote(s, b, phase).locks
<1>1. Timely(s, b) /\ ~Conflicting(s, b) /\ Unlocked(s, b)
  BY DEF Signs, Votable
<1>2. /\ AfterVote(s, b, phase).seen = s.seen \cup {b}
      /\ phase = "precommit" => AfterVote(s, b, phase).locks = s.locks \cup {b}
  BY <1>1, AfterVoteIs
<1> QED BY <1>1, <1>2 DEF Timely, Fits

LEMMA PrecommitStep ==
  ASSUME Types, Types', NEW n \in Validator, Acts(n), Locking
  PROVE  LockedOnce' /\ PrecommitsAgree'
<1>1. built \subseteq built' /\ built' \subseteq Block
  BY BuiltGrows
<1>2. \A v \in Validator : db[v] \in Database(built')
  BY <1>1, MoreBlocks DEF Types
<1>3. ASSUME NEW s \in Precommits
      PROVE  s.voter \in Validator /\ s.block \in built'
  BY <1>1 DEF Precommits, Votes, Types, Signature, Phase
<1>4. ASSUME NEW b \in built', Signs(db[n], b, "precommit")
      PROVE  /\ b.height = Height(db[n]) + 1 /\ Unlocked(db[n], b)
             /\ b \in AfterVote(db[n], b, "precommit").locks
  <2>1. db[n] \in Database(built') /\ "precommit" \in Phase
    BY <1>2 DEF Phase
  <2> QED BY <1>1, <1>4, <2>1, SignsIs
<1>5. ASSUME NEW s \in Precommits
      PROVE  Height(db'[s.voter]) >= s.block.height \/ s.block \in db'[s.voter].locks
  <2> DEFINE v == s.voter
  <2>1. v \in Validator /\ s.block \in Block
    BY <1>1, <1>3
  <2>2. Height(db[v]) >= s.block.height \/ s.block \in db[v].locks
    BY DEF Locking, LockedOnce
  <2>3. DbMove(db[v], db'[v]) /\ db[v] \in Database(built')
    BY <1>2, <2>1, DbMoves
  <2>4. Height(db[v]) \in Nat /\ s.block.height \in Nat
    BY <1>2, <2>1 DEF Height, Database, Block
  <2> HIDE DEF v
  <2>5. CASE Extends(db[v], db'[v])
    BY <2>2, <2>5 DEF Extends, Height, v
  <2>6. ASSUME NEW b \in built, Fits(db[v], b), db'[v] = Accepted(db[v], b)
        PROVE  Height(db'[v]) >= s.block.height \/ s.block \in db'[v].locks
    <3>1. Height(db'[v]) = Height(db[v]) + 1 /\ db'[v].locks = Above(db[v].locks, b.height)
      BY <2>3, <2>6 DEF Accepted, Height, Database
    <3>2. b.height = Height(db[v]) + 1
      BY <2>6 DEF Fits
    <3> QED BY <2>2, <2>4, <3>1, <3>2 DEF Above
  <2>7. \/ Extends(db[v], db'[v])
        \/ \E b \in built : Fits(db[v], b) /\ Final(b) /\ db'[v] = Accepted(db[v], b)
    BY ONLY <1>1, <2>3, DbGrows
  <2> QED BY <2>5, <2>6, <2>7 DEF v
<1>6. LockedOnce'
  <2>1. ASSUME NEW s \in Precommits', s \notin Precommits
        PROVE  s.block \in db'[s.voter].locks
    <3>1. PICK b \in built' :
            /\ s = Vote(n, b, "precommit") /\ Signs(db[n], b, "precommit")
            /\ db'[n] = AfterVote(db[n], b, "precommit")
      BY <2>1, NewPrecommit DEF Locking
    <3> QED BY <1>4, <3>1 DEF Vote
  <2> QED BY <1>5, <2>1 DEF LockedOnce
<1>7. PrecommitsAgree'
  <2>1. ASSUME NEW s \in Precommits, NEW b \in built', Signs(db[n], b, "precommit"),
               s.voter = n, s.block.height = b.height
        PROVE  s.block = b
    <3>1. Height(db[n]) >= s.block.height \/ s.block \in db[n].locks
      BY <2>1 DEF Locking, LockedOnce
    <3>2. b.height = Height(db[n]) + 1 /\ Unlocked(db[n], b)
      BY <1>4, <2>1
    <3>3. Height(db[n]) \in Nat
      BY <1>2 DEF Height, Database
    <3> QED BY <2>1, <3>1, <3>2, <3>3 DEF Unlocked
  <2>2. SUFFICES ASSUME NEW s \in Precommits', NEW w \in Precommits',
                        s.voter = w.voter, s.block.height = w.block.height
                 PROVE  s.block = w.block
    BY DEF PrecommitsAgree
  <2>3. CASE s \in Precommits /\ w \in Precommits
    BY <2>2, <2>3 DEF Locking, PrecommitsAgree
  <2>4. ASSUME NEW x \in Precommits', x \notin Precommits
        PROVE  \E b \in built' : x = Vote(n, b, "precommit") /\ Signs(db[n], b, "precommit")
    BY <2>4, NewPrecommit DEF Locking
  <2>5. CASE s \in Precommits /\ w \notin Precommits
    <3>1. PICK b \in built' : w = Vote(n, b, "precommit") /\ Signs(db[n], b, "precommit")
      BY <2>4, <2>5
    <3> QED BY <2>1, <2>2, <2>5, <3>1 DEF Vote
  <2>6. CASE s \notin Precommits /\ w \in Precommits
    <3>1. PICK b \in built' : s = Vote(n, b, "precommit") /\ Signs(db[n], b, "precommit")
      BY <2>4, <2>6
    <3> QED BY <2>1, <2>2, <2>6, <3>1 DEF Vote
  <2>7. CASE s \notin Precommits /\ w \notin Precommits
    <3>1. s \in signed' \ signed /\ w \in signed' \ signed
          /\ s \in Votes(signed') \ Votes(signed)
      BY <2>7 DEF Precommits, Votes
    <3>2. PICK b \in built', phase \in Phase : NewVote(n, b, phase)
      BY <3>1, VotesSigned
    <3> QED BY <3>1, <3>2 DEF NewVote
  <2> QED BY <2>3, <2>5, <2>6, <2>7
<1> QED BY <1>6, <1>7

LEMMA LockingStep ==
  ASSUME Types, Types', NEW n \in Validator, Acts(n), Locking
  PROVE  Locking'
<1>1. built \subseteq built' /\ built' \subseteq Block
  BY BuiltGrows
<1>2. LocksAgree'
  <2>1. ASSUME NEW v \in Validator
        PROVE  \A l, k \in db'[v].locks : l.height = k.height => l = k
    <3>1. db[v] \in Database(built') /\ DbMove(db[v], db'[v])
      BY <1>1, MoreBlocks, DbMoves DEF Types
    <3>2. \A l, k \in db[v].locks : l.height = k.height => l = k
      BY DEF Locking, LocksAgree
    <3> QED BY ONLY <1>1, <3>1, <3>2, LocksMove
  <2> QED BY <2>1 DEF LocksAgree
<1>3. GotSigned' /\ BlocksCertified'
  BY GotStep DEF Locking
<1>4. ChainsCertified' /\ LockedOnce' /\ PrecommitsAgree'
  BY ChainStep, PrecommitStep
<1>5. ThreadsOnly'
  BY Processes DEF Locking, ThreadsOnly, Entitled
<1> QED BY <1>2, <1>3, <1>4, <1>5 DEF Locking

\* Fewer than a third of the validators vote with handlers that interleave.
FewThreads == 3 * Cardinality({v \in Validator : ~Sole(v)}) < N

LEMMA QuorumsMeet ==
  ASSUME FewThreads, NEW Q \in SUBSET Validator, NEW R \in SUBSET Validator,
         Quorum(Q), Quorum(R)
  PROVE  \E v \in Q \cap R : Sole(v)
<1> DEFINE T == {v \in Validator : ~Sole(v)}
<1>1. N \in Nat /\ N > 0
  BY BftAssumption
<1>2. IsFiniteSet(Validator) /\ Cardinality(Validator) = N
  <2>1. /\ IsFiniteSet(1 .. N)
        /\ Cardinality(1 .. N) = IF 1 > N THEN 0 ELSE N - 1 + 1
    BY <1>1, FS_Interval
  <2> QED BY <1>1, <2>1 DEF Validator
<1>3. /\ IsFiniteSet(Q) /\ IsFiniteSet(R) /\ IsFiniteSet(T)
      /\ Cardinality(Q \cup R) <= N
  <2>1. Q \cup R \in SUBSET Validator /\ T \in SUBSET Validator
    OBVIOUS
  <2> QED BY <1>2, <2>1, FS_Subset
<1>4. Cardinality(Q \cup R) = Cardinality(Q) + Cardinality(R) - Cardinality(Q \cap R)
  BY <1>3, FS_Union
<1>5. CASE Q \cap R \subseteq T
  <2>1. Cardinality(Q \cap R) <= Cardinality(T) /\ IsFiniteSet(Q \cap R)
    BY <1>3, <1>5, FS_Subset
  <2>2. /\ Cardinality(Q) \in Nat /\ Cardinality(R) \in Nat /\ Cardinality(T) \in Nat
        /\ Cardinality(Q \cap R) \in Nat
    BY <1>3, <2>1, FS_CardinalityType
  <2>3. 3 * Cardinality(T) < N
    BY DEF FewThreads
  <2>4. /\ Cardinality(Q) >= (2 * N) \div 3 + 1 /\ Cardinality(R) >= (2 * N) \div 3 + 1
    BY DEF Quorum
  <2> DEFINE q == Cardinality(Q)
             r == Cardinality(R)
             t == Cardinality(T)
             i == Cardinality(Q \cap R)
             d == (2 * N) \div 3
  <2>5. d \in Nat /\ 3 * d + 3 > 2 * N
    BY <1>1
  <2>6. q + r - i <= N /\ i <= t
    BY <1>3, <1>4, <2>1
  <2> HIDE DEF q, r, t, i, d, T
  <2>7. q \in Nat /\ r \in Nat /\ t \in Nat /\ i \in Nat /\ 3 * t < N /\ q >= d + 1 /\ r >= d + 1
    BY <2>2, <2>3, <2>4 DEF q, r, t, i, d
  <2>8. FALSE
    BY <1>1, <2>5, <2>6, <2>7
  <2> QED BY <2>8
<1>6. CASE ~(Q \cap R \subseteq T)
  BY <1>6
<1> QED BY <1>5, <1>6

LEMMA CertifiedAgree ==
  ASSUME FewThreads, PrecommitsAgree, NEW b, NEW c, Certified(b), Certified(c),
         b.height = c.height
  PROVE  b = c
<1>1. PICK Q \in SUBSET Validator :
        Quorum(Q) /\ \A v \in Q : Vote(v, b, "precommit") \in signed
  BY DEF Certified
<1>2. PICK R \in SUBSET Validator :
        Quorum(R) /\ \A v \in R : Vote(v, c, "precommit") \in signed
  BY DEF Certified
<1>3. PICK v \in Q \cap R : Sole(v)
  BY <1>1, <1>2, QuorumsMeet
<1> DEFINE s == Vote(v, b, "precommit")
           w == Vote(v, c, "precommit")
<1>4. /\ s \in signed /\ s.kind = "precommit" /\ s.voter = v /\ s.block = b
      /\ w \in signed /\ w.kind = "precommit" /\ w.voter = v /\ w.block = c
  BY <1>1, <1>2, <1>3 DEF Vote
<1> HIDE DEF s, w
<1>5. s \in Precommits /\ w \in Precommits
  BY <1>3, <1>4 DEF Precommits, Votes, Phase
<1> QED BY <1>4, <1>5 DEF PrecommitsAgree

LEMMA LockingAgrees ==
  ASSUME FewThreads, Types, Locking
  PROVE  Agreement
<1> SUFFICES ASSUME NEW n \in Validator, NEW m \in Validator, NEW h \in 1 .. Height(db[n]),
                    h <= Height(db[m])
             PROVE  db[n].chain[h] = db[m].chain[h]
  BY DEF Agreement
<1>1. Height(db[m]) \in Nat /\ h \in 1 .. Height(db[m])
  BY DEF Types, Database, Height
<1> QED BY <1>1, CertifiedAgree DEF Locking, ChainsCertified

LEMMA InitTypes == Init => Types /\ Locking
<1> SUFFICES ASSUME Init PROVE Types /\ Locking
  OBVIOUS
<1> DEFINE d == [chain |-> <<>>, round |-> 0, votes |-> {}, locks |-> {}, seen |-> {},
                 evidence |-> {}]
<1>1. /\ \A n \in Validator : db[n] = d /\ mem[n] = Fresh
      /\ asked = {} /\ built = {} /\ signed = {}
  BY DEF Init
<1>2. d \in Database(built) /\ Fresh \in Process(built)
  BY DEF Database, Fresh, Process, At, NoTarget, Slot
<1>3. Fresh.at = "idle" /\ Fresh.threads = {} /\ "idle" \notin Phase \cup {"broadcast"}
  BY DEF Fresh, Phase
<1>4. d.chain = <<>> /\ d.locks = {}
  OBVIOUS
<1> HIDE DEF d
<1>5. Types
  BY <1>1, <1>2, <1>3, FS_EmptySet DEF Init, Types, d
<1>6. Locking
  BY <1>1, <1>3, <1>4 DEF Locking, LocksAgree, ChainsCertified, BlocksCertified, GotSigned,
     LockedOnce, PrecommitsAgree, Precommits, Votes, ThreadsOnly, Height
<1> QED BY <1>5, <1>6

-----------------------------------------------------------------------------
(* No double votes.  A proposer asks only for its own blocks, records each  *)
(* in `seen` before it asks, and seen outlives crashes.                     *)

Mine ==
  \A n \in Validator :
    /\ mem[n].pending # NoBlock => Proposer(mem[n].pending.height, mem[n].pending.round) = n
    /\ mem[n].at \in Phase => Proposer(mem[n].cand.height, mem[n].cand.round) = n

AskedSeen ==
  \A q \in Votes(asked) :
    LET b == q.block
        p == Proposer(b.height, b.round)
    IN  Height(db[p]) >= b.height \/ b \in db[p].seen

AskedOnce ==
  \A q, r \in Votes(asked) :
    q.kind = r.kind /\ q.block.height = r.block.height /\ q.block.round = r.block.round
      => q.block = r.block

SignedAsked ==
  \A s \in Votes(signed) : [kind |-> s.kind, block |-> s.block] \in asked

ThreadsAsked ==
  \A n \in Validator : \A t \in mem[n].threads :
    [kind |-> t.phase, block |-> t.block] \in asked

Asking == Mine /\ AskedSeen /\ AskedOnce /\ SignedAsked /\ ThreadsAsked

LEMMA BuildIsMine ==
  ASSUME Types, NEW n \in Validator, MyTurn(n)
  PROVE  Proposer(Build(n).height, Build(n).round) = n
BY BuildIs DEF MyTurn

LEMMA MineStep ==
  ASSUME Types, Types', NEW n \in Validator, Acts(n), Mine
  PROVE  Mine'
<1> SUFFICES ASSUME NEW v \in Validator
             PROVE  /\ mem'[v].pending # NoBlock =>
                         Proposer(mem'[v].pending.height, mem'[v].pending.round) = v
                    /\ mem'[v].at \in Phase =>
                         Proposer(mem'[v].cand.height, mem'[v].cand.round) = v
  BY DEF Mine
<1>1. Owned(v) /\ (mem'[v].at \in Phase => mem'[v].cand # NoBlock)
  <2>1. NoBlock \notin Block
    BY DEF NoBlock, Block
  <2> QED BY <2>1, Processes DEF Types
<1>2. MyTurn(v) => Proposer(Build(v).height, Build(v).round) = v
  BY BuildIsMine
<1> QED BY <1>1, <1>2 DEF Owned, Mine

LEMMA AskedStep ==
  ASSUME Types, Types', NEW n \in Validator, Acts(n), Mine, AskedSeen, AskedOnce
  PROVE  AskedSeen' /\ AskedOnce'
<1>1. built \subseteq built' /\ built' \subseteq Block /\ asked \subseteq asked'
  BY BuiltGrows, NothingForgotten
<1>2. \A v \in Validator : db[v] \in Database(built') /\ DbMove(db[v], db'[v])
  BY <1>1, MoreBlocks, DbMoves DEF Types
<1>3. ASSUME NEW q \in Votes(asked)
      PROVE  q.block \in built /\ Proposer(q.block.height, q.block.round) \in Validator
  <2>1. q.block \in built
    BY DEF Votes, Types, Message
  <2> QED BY <1>1, <2>1, ProposerIsValidator DEF Block
<1>4. ASSUME NEW q \in Votes(asked), NEW v \in Validator,
             v = Proposer(q.block.height, q.block.round)
      PROVE  Height(db'[v]) >= q.block.height \/ q.block \in db'[v].seen
  <2>1. Height(db[v]) >= q.block.height \/ q.block \in db[v].seen
    BY <1>4 DEF AskedSeen
  <2>2. Height(db[v]) \in Nat /\ q.block.height \in Nat
    BY <1>1, <1>2, <1>3 DEF Height, Database, Block
  <2>3. CASE Extends(db[v], db'[v])
    BY <2>1, <2>3 DEF Extends, Height
  <2>4. ASSUME NEW b \in built, Fits(db[v], b), db'[v] = Accepted(db[v], b)
        PROVE  Height(db'[v]) >= q.block.height \/ q.block \in db'[v].seen
    <3>1. Height(db'[v]) = Height(db[v]) + 1 /\ db'[v].seen = Above(db[v].seen, b.height)
      BY <1>2, <2>4 DEF Accepted, Height, Database
    <3>2. b.height = Height(db[v]) + 1
      BY <2>4 DEF Fits
    <3> QED BY <2>1, <2>2, <3>1, <3>2 DEF Above
  <2>5. \/ Extends(db[v], db'[v])
        \/ \E b \in built : Fits(db[v], b) /\ Final(b) /\ db'[v] = Accepted(db[v], b)
    <3>1. db[v] \in Database(built') /\ DbMove(db[v], db'[v])
      BY <1>2
    <3> QED BY ONLY <1>1, <3>1, DbGrows
  <2> QED BY <2>3, <2>4, <2>5
<1>5. CASE Votes(asked') = Votes(asked)
  <2>1. AskedSeen'
    BY <1>3, <1>4, <1>5 DEF AskedSeen, Votes
  <2>2. AskedOnce'
    BY <1>5 DEF AskedOnce, Votes
  <2> QED BY <2>1, <2>2
<1>6. ASSUME NEW b \in built', NEW phase \in Phase, NewRequest(n, b, phase)
      PROVE  AskedSeen' /\ AskedOnce'
  <2> DEFINE r == [kind |-> phase, block |-> b]
  <2>1. asked' = asked \cup {r} /\ r.kind = phase /\ r.block = b
    BY <1>6 DEF NewRequest
  <2>2. Votes(asked') = Votes(asked) \cup {r}
    BY <2>1 DEF Votes
  <2>3. Proposer(b.height, b.round) = n
    <3>1. b # NoBlock
      BY <1>1 DEF NoBlock, Block
    <3> QED BY <1>6, <3>1, BuildIsMine DEF NewRequest, Mine, Phase
  <2>4. /\ b.height = Height(db[n]) + 1 /\ ~Conflicting(db[n], b)
        /\ b \in db'[n].seen
    BY <1>1, <1>2, <1>6, SignsIs DEF NewRequest
  <2> HIDE DEF r
  <2>5. AskedSeen'
    <3>1. ASSUME NEW q \in Votes(asked')
          PROVE  \/ Height(db'[Proposer(q.block.height, q.block.round)]) >= q.block.height
                 \/ q.block \in db'[Proposer(q.block.height, q.block.round)].seen
      BY <1>3, <1>4, <2>1, <2>2, <2>3, <2>4
    <3> QED BY <3>1 DEF AskedSeen, Votes
  <2>6. ASSUME NEW q \in Votes(asked), q.block.height = b.height, q.block.round = b.round
        PROVE  q.block = b
    <3>1. Height(db[n]) >= b.height \/ q.block \in db[n].seen
      BY <2>3, <2>6 DEF AskedSeen
    <3>2. Height(db[n]) \in Nat
      BY <1>2 DEF Height, Database
    <3> QED BY <2>4, <2>6, <3>1, <3>2 DEF Conflicting
  <2>7. AskedOnce'
    BY <2>1, <2>2, <2>6 DEF AskedOnce, Votes
  <2> QED BY <2>5, <2>7
<1> QED BY <1>5, <1>6, VotesAsked

LEMMA AskingStep ==
  ASSUME Types, Types', NEW n \in Validator, Acts(n), Asking
  PROVE  Asking'
<1>1. asked \subseteq asked'
  BY NothingForgotten
<1>2. Mine' /\ AskedSeen' /\ AskedOnce'
  BY MineStep, AskedStep DEF Asking
<1>3. ThreadsAsked'
  BY <1>1, Processes DEF Asking, ThreadsAsked, Entitled
<1>4. SignedAsked'
  <2>1. CASE Votes(signed') = Votes(signed)
    BY <1>1, <2>1 DEF Asking, SignedAsked, Votes
  <2>2. ASSUME NEW b \in built', NEW phase \in Phase, NewVote(n, b, phase)
        PROVE  SignedAsked'
    <3>1. [kind |-> phase, block |-> b] \in asked'
      <4>1. CASE [kind |-> phase, block |-> b] \in asked'
        BY <4>1
      <4>2. CASE [phase |-> phase, block |-> b] \in mem[n].threads
        <5> DEFINE t == [phase |-> phase, block |-> b]
        <5>1. t.phase = phase /\ t.block = b
          OBVIOUS
        <5> HIDE DEF t
        <5>2. t \in mem[n].threads
          BY <4>2 DEF t
        <5>3. [kind |-> t.phase, block |-> t.block] \in asked
          BY <5>2 DEF Asking, ThreadsAsked
        <5> QED BY <1>1, <5>1, <5>3
      <4> QED BY <2>2, <4>1, <4>2 DEF NewVote
    <3>2. signed' = signed \cup {Vote(n, b, phase)}
      BY <2>2 DEF NewVote
    <3>3. ASSUME NEW s \in Votes(signed')
          PROVE  [kind |-> s.kind, block |-> s.block] \in asked'
      <4>1. CASE s \in Votes(signed)
        BY <1>1, <4>1 DEF Asking, SignedAsked
      <4>2. CASE s \notin Votes(signed)
        <5>1. s = Vote(n, b, phase)
          BY <3>2, <4>2 DEF Votes
        <5>2. s.kind = phase /\ s.block = b
          BY <5>1 DEF Vote
        <5> QED BY <3>1, <5>2
      <4> QED BY <4>1, <4>2
    <3> QED BY <3>3 DEF SignedAsked, Votes
  <2> QED BY <2>1, <2>2, VotesSigned
<1> QED BY <1>2, <1>3, <1>4 DEF Asking

LEMMA AskingVotesOnce ==
  ASSUME Types, Asking
  PROVE  NoDoubleVote
<1> SUFFICES ASSUME NEW v \in Votes(signed), NEW w \in Votes(signed),
                    v.kind = w.kind, v.block.height = w.block.height,
                    v.block.round = w.block.round
             PROVE  v.block = w.block
  BY DEF NoDoubleVote, Votes
<1> DEFINE q == [kind |-> v.kind, block |-> v.block]
           r == [kind |-> w.kind, block |-> w.block]
<1>1. q \in asked /\ r \in asked
  BY DEF Asking, SignedAsked
<1>2. q.kind = v.kind /\ q.block = v.block /\ r.kind = w.kind /\ r.block = w.block
  OBVIOUS
<1> HIDE DEF q, r
<1>3. q \in Votes(asked) /\ r \in Votes(asked)
  BY <1>1, <1>2 DEF Votes
<1> QED BY <1>2, <1>3 DEF Asking, AskedOnce

-----------------------------------------------------------------------------
(* Certified proposals.  A node holds the certificate of a round because it *)
(* gathered it or was sent a block of the round, which carries it.          *)

Agreed(height, round) ==
  \E Q \in SUBSET Validator : Quorum(Q) /\ \A v \in Q : Change(v, height, round) \in signed

GotChanges ==
  \A n \in Validator : mem[n].at = "change" =>
    \A u \in mem[n].got : Change(u, mem[n].target.height, mem[n].target.round) \in signed

CertsAgreed ==
  \A n \in Validator : \A c \in mem[n].certs : Agreed(c.height, c.round)

BuiltAgreed ==
  \A b \in built : b.round > 0 => Agreed(b.height, b.round)

Changing == GotChanges /\ CertsAgreed /\ BuiltAgreed

LEMMA NewBuilt ==
  ASSUME Types, NEW n \in Validator, Acts(n)
  PROVE  built' = built \/ (built' = built \cup {Build(n)} /\ Buildable(n))
<1>1. CASE Gathers(n)
  BY <1>1 DEF Gathers
<1>2. CASE ~Gathers(n)
  BY <1>2 DEF Acts, Accepts, Changed, Goes, Broadcast, StartChange, Crash,
       Restart, ServeVote, ServeThread, EndThread, ServeChange
<1> QED BY <1>1, <1>2

LEMMA ChangingStep ==
  ASSUME Types, Types', NEW n \in Validator, Acts(n), Changing
  PROVE  Changing'
<1>1. signed \subseteq signed'
  BY NothingForgotten
<1>2. \A v \in Validator : Gathered(v) /\ Entitled(v)
  BY Processes
<1>3. ASSUME NEW h, NEW r, Agreed(h, r) PROVE Agreed(h, r)'
  BY <1>1, <1>3 DEF Agreed
<1>4. GotChanges'
  BY <1>1, <1>2 DEF Changing, GotChanges, Gathered
<1>5. ASSUME NEW b \in built', b.round > 0 PROVE Agreed(b.height, b.round)
  <2>1. CASE b \in built
    BY <1>5, <2>1 DEF Changing, BuiltAgreed
  <2>2. CASE b = Build(n) /\ Buildable(n)
    <3> DEFINE c == [height |-> Height(db[n]) + 1, round |-> db[n].round]
    <3>1. b.height = c.height /\ b.round = c.round /\ c.round = db[n].round
      BY <2>2, BuildIs
    <3>2. c \in mem[n].certs
      BY <1>5, <2>2, <3>1 DEF Buildable
    <3> HIDE DEF c
    <3> QED BY <3>1, <3>2 DEF Changing, CertsAgreed
  <2> QED BY <2>1, <2>2, NewBuilt
<1>6. ASSUME NEW v \in Validator, NEW c \in mem'[v].certs PROVE Agreed(c.height, c.round)
  <2>1. CASE c \in mem[v].certs
    BY <2>1 DEF Changing, CertsAgreed
  <2>2. ASSUME NEW b \in built', b.round > 0, c = [height |-> b.height, round |-> b.round]
        PROVE  Agreed(c.height, c.round)
    BY <1>5, <2>2
  <2>3. CASE mem[v].at = "change" /\ c = mem[v].target /\ Quorum(mem[v].got)
    <3>1. mem[v].got \in SUBSET Validator
      BY DEF Types, Process
    <3>2. \A u \in mem[v].got : Change(u, c.height, c.round) \in signed
      BY <2>3 DEF Changing, GotChanges
    <3> QED BY <2>3, <3>1, <3>2 DEF Agreed
  <2> QED BY <1>2, <2>1, <2>2, <2>3 DEF Entitled
<1>7. CertsAgreed' /\ BuiltAgreed'
  BY <1>3, <1>5, <1>6 DEF CertsAgreed, BuiltAgreed
<1> QED BY <1>4, <1>7 DEF Changing

LEMMA ChangingCertifies ==
  ASSUME Types, Changing
  PROVE  ProposalsAreCertified
<1> SUFFICES ASSUME NEW b \in built, b.round > 0
             PROVE  Quorum(Changers(b.height, b.round))
  BY DEF ProposalsAreCertified
<1>1. PICK Q \in SUBSET Validator :
        Quorum(Q) /\ \A v \in Q : Change(v, b.height, b.round) \in signed
  BY DEF Changing, BuiltAgreed, Agreed
<1> DEFINE C == Changers(b.height, b.round)
<1>2. Q \subseteq C /\ C \subseteq Validator
  BY <1>1 DEF Changers
<1>3. N \in Nat /\ IsFiniteSet(Validator)
  <2>1. N \in Nat
    BY BftAssumption
  <2> QED BY <2>1, FS_Interval DEF Validator
<1> HIDE DEF C
<1>4. IsFiniteSet(C)
  BY <1>2, <1>3, FS_Subset
<1>5. Cardinality(Q) <= Cardinality(C) /\ IsFiniteSet(Q)
  BY <1>2, <1>4, FS_Subset
<1>6. Cardinality(Q) \in Nat /\ Cardinality(C) \in Nat /\ (2 * N) \div 3 \in Nat
  BY <1>3, <1>4, <1>5, FS_CardinalityType
<1>7. Quorum(C)
  BY <1>1, <1>5, <1>6 DEF Quorum
<1> QED BY <1>7 DEF C

-----------------------------------------------------------------------------
(* The theorems. *)

IInv == Types /\ Locking /\ Asking /\ Changing

LEMMA InitInv == Init => IInv
<1> SUFFICES ASSUME Init PROVE IInv
  OBVIOUS
<1>1. /\ \A n \in Validator : mem[n] = Fresh
      /\ asked = {} /\ built = {} /\ signed = {}
  BY DEF Init
<1>2. /\ Fresh.at = "idle" /\ Fresh.threads = {} /\ Fresh.certs = {} /\ Fresh.pending = NoBlock
      /\ "idle" \notin Phase /\ "idle" # "change"
  BY DEF Fresh, Phase
<1>3. Asking
  BY <1>1, <1>2 DEF Asking, Mine, AskedSeen, AskedOnce, SignedAsked, ThreadsAsked, Votes
<1>4. Changing
  BY <1>1, <1>2 DEF Changing, GotChanges, CertsAgreed, BuiltAgreed
<1> QED BY <1>3, <1>4, InitTypes DEF IInv

LEMMA InvStep == IInv /\ [Next]_vars => IInv'
<1> SUFFICES ASSUME IInv, [Next]_vars PROVE IInv'
  OBVIOUS
<1>1. Types /\ Types'
  BY TypesStep DEF IInv
<1>2. CASE UNCHANGED vars
  <2>1. Locking'
    BY <1>2 DEF vars, IInv, Locking, LocksAgree, ChainsCertified, Certified, BlocksCertified,
       GotSigned, LockedOnce, PrecommitsAgree, Precommits, Votes, ThreadsOnly
  <2>2. Asking'
    BY <1>2 DEF vars, IInv, Asking, Mine, AskedSeen, AskedOnce, SignedAsked, ThreadsAsked, Votes
  <2>3. Changing'
    BY <1>2 DEF vars, IInv, Changing, GotChanges, CertsAgreed, BuiltAgreed, Agreed
  <2> QED BY <1>1, <2>1, <2>2, <2>3 DEF IInv
<1>3. ASSUME NEW n \in Validator, Acts(n) PROVE IInv'
  BY <1>1, <1>3, LockingStep, AskingStep, ChangingStep DEF IInv
<1> QED BY <1>1, <1>2, <1>3, StepActs

THEOREM Invariance == Spec => []IInv
BY InitInv, InvStep, PTL DEF Spec

\* Every reachable state of databases, processes, requests and signatures has
\* its type.
THEOREM TypeCorrect == Spec => []TypeOK
<1>1. IInv => TypeOK
  <2> SUFFICES ASSUME IInv PROVE TypeOK
    OBVIOUS
  <2>1. Types /\ LocksAgree
    BY DEF IInv, Locking
  <2>2. built \subseteq Block /\ asked \subseteq [kind : Phase \cup {"block"}, block : built]
        /\ crashes \in [Validator -> Nat]
    BY <2>1 DEF Types, Message
  <2>3. ASSUME NEW n \in Validator
        PROVE  /\ db[n].round \in Nat
               /\ \A h \in DOMAIN db[n].chain : db[n].chain[h] \in built
               /\ db[n].votes \subseteq [phase : Phase, block : built]
               /\ db[n].locks \cup db[n].seen \subseteq built
               /\ \A l, k \in db[n].locks : l.height = k.height => l = k
               /\ db[n].evidence \subseteq Validator
    BY <2>1 DEF Types, Database, LocksAgree
  <2>4. ASSUME NEW n \in Validator
        PROVE  /\ mem[n].at \in {"idle", "view", "change", "broadcast", "down"} \cup Phase
               /\ {mem[n].cand, mem[n].pending} \subseteq built \cup {NoBlock}
    BY <2>1 DEF Types, Process, At
  <2> QED BY <2>2, <2>3, <2>4 DEF TypeOK
<1> QED BY <1>1, Invariance, PTL

\* However many validators there are, no two finalize different blocks at one
\* height, provided that those whose handlers interleave are few.
THEOREM AgreementHolds == ASSUME FewThreads PROVE Spec => []Agreement
<1>1. IInv => Agreement
  BY LockingAgrees DEF IInv
<1> QED BY <1>1, Invariance, PTL

\* No validator signs two blocks in one phase of one round, whether its
\* handlers interleave or not.
THEOREM VotesOnce == Spec => []NoDoubleVote
<1>1. IInv => NoDoubleVote
  BY AskingVotesOnce DEF IInv
<1> QED BY <1>1, Invariance, PTL

\* A proposal of a later round has a quorum of view changes behind it.
THEOREM ProposalsCertified == Spec => []ProposalsAreCertified
<1>1. IInv => ProposalsAreCertified
  BY ChangingCertifies DEF IInv
<1> QED BY <1>1, Invariance, PTL

-----------------------------------------------------------------------------
(* PowP2PSync.  The tree of blocks: a parent is older than its child.      *)

LEMMA MinedFacts ==
  ASSUME NEW b \in PowBlock
  PROVE  /\ b # Genesis /\ b \in Node /\ ParentOf[b] \in Node
         /\ WorkOf[b] \in Nat \ {0}
BY SyncAssumption DEF Node

\* What holds of the genesis, and of a block whenever it holds of its parent,
\* holds of every node.
LEMMA MinedInduction ==
  ASSUME NEW P, Genesis \in P, \A b \in PowBlock : ParentOf[b] \in P => b \in P
  PROVE  Node \subseteq P
<1> DEFINE S == PowBlock \ P
<1>1. SUFFICES ASSUME S # {} PROVE FALSE
  BY DEF Node
<1>2. PICK b \in S : ParentOf[b] \notin S
  <2>1. S \in (SUBSET PowBlock) \ {{}}
    BY <1>1
  <2> HIDE DEF S
  <2> QED BY <2>1, SyncAssumption
<1>3. ParentOf[b] \in Node
  BY MinedFacts
<1> QED BY <1>2, <1>3 DEF Node

\* f starts with g at the genesis and applies Step[b] at each block b.
Obeys(f, g, Step) ==
  /\ f[Genesis] = g
  /\ \A b \in DOMAIN f \ {Genesis} :
       ParentOf[b] \in DOMAIN f /\ f[b] = Step[b][f[ParentOf[b]]]

\* Recursion over parents defines a function.
LEMMA MinedRecursion ==
  ASSUME NEW S, NEW g \in S, NEW Step \in [PowBlock -> [S -> S]]
  PROVE  \E f \in [Node -> S] : Obeys(f, g, Step)
<1> DEFINE Part(f) == /\ DOMAIN f \subseteq Node /\ Genesis \in DOMAIN f
                      /\ \A b \in DOMAIN f : f[b] \in S
                      /\ Obeys(f, g, Step)
\* Two functions that obey the equations on parts of the tree agree.
<1>1. ASSUME NEW f, NEW h, Part(f), Part(h)
      PROVE  \A b \in DOMAIN f \cap DOMAIN h : f[b] = h[b]
  <2> DEFINE P == { b \in Node : b \in DOMAIN f \cap DOMAIN h => f[b] = h[b] }
  <2>1. Genesis \in P
    BY <1>1 DEF Obeys, Node
  <2>2. ASSUME NEW b \in PowBlock, ParentOf[b] \in P PROVE b \in P
    <3>1. SUFFICES ASSUME b \in DOMAIN f, b \in DOMAIN h PROVE f[b] = h[b]
      BY MinedFacts
    <3>2. b # Genesis
      BY MinedFacts
    <3>3. ParentOf[b] \in DOMAIN f /\ ParentOf[b] \in DOMAIN h
      BY <1>1, <3>1, <3>2 DEF Obeys
    <3>4. f[ParentOf[b]] = h[ParentOf[b]]
      BY <2>2, <3>3
    <3>5. f[b] = Step[b][f[ParentOf[b]]] /\ h[b] = Step[b][h[ParentOf[b]]]
      BY <1>1, <3>1, <3>2 DEF Obeys
    <3> QED BY <3>4, <3>5
  <2>3. Node \subseteq P
    <3> HIDE DEF P
    <3> QED BY <2>1, <2>2, MinedInduction
  <2> QED BY <1>1, <2>3
\* Every node lies in such a part.
<1>2. \A b \in Node : \E f : Part(f) /\ b \in DOMAIN f
  <2> DEFINE P == { b \in Node : \E f : Part(f) /\ b \in DOMAIN f }
  <2>1. Genesis \in P
    <3> DEFINE f == [x \in {Genesis} |-> g]
    <3>1. Part(f) /\ Genesis \in DOMAIN f
      BY DEF Obeys, Node
    <3> HIDE DEF f
    <3> QED BY <3>1 DEF Node
  <2>2. ASSUME NEW b \in PowBlock, ParentOf[b] \in P PROVE b \in P
    <3>1. PICK f : Part(f) /\ ParentOf[b] \in DOMAIN f
      BY <2>2
    <3>2. b # Genesis /\ b \in Node
      BY MinedFacts
    <3>3. CASE b \in DOMAIN f
      BY <3>1, <3>2, <3>3
    <3>4. CASE b \notin DOMAIN f
      <4> DEFINE h == [x \in DOMAIN f \cup {b} |->
                         IF x = b THEN Step[b][f[ParentOf[b]]] ELSE f[x]]
      <4>1. DOMAIN h = DOMAIN f \cup {b} /\ h[b] = Step[b][f[ParentOf[b]]]
        OBVIOUS
      <4>2. \A x \in DOMAIN f : h[x] = f[x]
        BY <3>4
      <4>3. f[ParentOf[b]] \in S
        BY <3>1
      <4>4. Step[b][f[ParentOf[b]]] \in S
        BY <4>3
      <4> HIDE DEF h
      <4>5. \A x \in DOMAIN h : h[x] \in S
        BY <3>1, <4>1, <4>2, <4>4
      <4>6. Obeys(h, g, Step)
        BY <3>1, <3>2, <4>1, <4>2 DEF Obeys
      <4>7. Part(h) /\ b \in DOMAIN h
        BY <3>1, <3>2, <4>1, <4>5, <4>6
      <4> HIDE DEF Part
      <4> QED BY <3>2, <4>7
    <3> QED BY <3>3, <3>4
  <2>3. Node \subseteq P
    <3> HIDE DEF P
    <3> QED BY <2>1, <2>2, MinedInduction
  <2> HIDE DEF Part
  <2> QED BY <2>3
<1> DEFINE PartAt(b) == CHOOSE f : Part(f) /\ b \in DOMAIN f
           F == [b \in Node |-> PartAt(b)[b]]
<1> HIDE DEF Part
<1>3. \A b \in Node : Part(PartAt(b)) /\ b \in DOMAIN PartAt(b)
  BY <1>2
<1> HIDE DEF PartAt
<1>4. F \in [Node -> S]
  BY <1>3 DEF Part
<1>5. F[Genesis] = g
  <2>1. Genesis \in Node
    BY DEF Node
  <2> QED BY <1>3, <2>1 DEF Part, Obeys
<1>6. ASSUME NEW b \in Node, b # Genesis
      PROVE  ParentOf[b] \in Node /\ F[b] = Step[b][F[ParentOf[b]]]
  <2>1. ParentOf[b] \in DOMAIN PartAt(b) /\ PartAt(b)[b] = Step[b][PartAt(b)[ParentOf[b]]]
    BY <1>3, <1>6 DEF Part, Obeys
  <2>2. ParentOf[b] \in Node
    BY <1>3, <2>1 DEF Part
  <2>3. PartAt(b)[ParentOf[b]] = PartAt(ParentOf[b])[ParentOf[b]]
    BY <1>1, <1>3, <2>1, <2>2
  <2> QED BY <2>1, <2>2, <2>3
<1>7. Obeys(F, g, Step)
  <2>1. DOMAIN F = Node
    OBVIOUS
  <2> HIDE DEF F
  <2> QED BY <1>5, <1>6, <2>1 DEF Obeys
<1> QED BY <1>4, <1>7

\* _path_hashes walks from a block to the genesis.
LEMMA SyncPathUnfold ==
  /\ Path \in [Node -> SUBSET Node]
  /\ Path[Genesis] = {Genesis}
  /\ \A b \in PowBlock : Path[b] = {b} \cup Path[ParentOf[b]]
<1> DEFINE Rec(f) ==
             f = [b \in Node |-> IF b = Genesis THEN {Genesis} ELSE {b} \cup f[ParentOf[b]]]
           Step == [b \in PowBlock |-> [v \in SUBSET Node |-> {b} \cup v]]
<1>1. PICK f \in [Node -> SUBSET Node] : Obeys(f, {Genesis}, Step)
  <2>1. {Genesis} \in SUBSET Node
    BY DEF Node
  <2>2. Step \in [PowBlock -> [SUBSET Node -> SUBSET Node]]
    BY DEF Node
  <2> HIDE DEF Step
  <2> QED BY <2>1, <2>2, MinedRecursion
<1>2. Rec(f)
  <2>1. ASSUME NEW b \in Node, b # Genesis PROVE f[b] = {b} \cup f[ParentOf[b]]
    <3>1. b \in PowBlock /\ ParentOf[b] \in Node
      BY <2>1, MinedFacts DEF Node
    <3>2. f[b] = Step[b][f[ParentOf[b]]]
      BY <1>1, <2>1 DEF Obeys
    <3>3. f[ParentOf[b]] \in SUBSET Node
      BY <3>1
    <3> QED BY <3>1, <3>2, <3>3
  <2>2. f[Genesis] = {Genesis}
    BY <1>1 DEF Obeys
  <2>3. DOMAIN f = Node
    OBVIOUS
  <2> QED BY <2>1, <2>2, <2>3
<1>3. Rec(Path)
  <2>1. Path = CHOOSE h : Rec(h)
    BY DEF Path
  <2> HIDE DEF Rec
  <2> QED BY <1>2, <2>1
<1> DEFINE P == { b \in Node : Path[b] \in SUBSET Node }
<1>4. \A b \in Node : Path[b] = IF b = Genesis THEN {Genesis} ELSE {b} \cup Path[ParentOf[b]]
  BY <1>3
<1>5. Genesis \in P
  BY <1>4 DEF Node
<1>6. ASSUME NEW b \in PowBlock, ParentOf[b] \in P PROVE b \in P
  BY <1>4, <1>6, MinedFacts
<1>7. Node \subseteq P
  <2> HIDE DEF P
  <2> QED BY <1>5, <1>6, MinedInduction
<1>8. Path \in [Node -> SUBSET Node]
  <2>1. Path = [b \in Node |-> Path[b]]
    BY <1>3
  <2> QED BY <1>7, <2>1
<1>9. Genesis \in Node
  BY DEF Node
<1> QED BY <1>4, <1>8, <1>9, MinedFacts

\* The work of a branch is what its blocks add up to.
LEMMA SyncWorkUnfold ==
  /\ Work \in [Node -> Nat]
  /\ Work[Genesis] = 0
  /\ \A b \in PowBlock : Work[b] = WorkOf[b] + Work[ParentOf[b]]
<1> DEFINE Rec(f) == f = [b \in Node |-> IF b = Genesis THEN 0 ELSE WorkOf[b] + f[ParentOf[b]]]
           Step == [b \in PowBlock |-> [v \in Nat |-> WorkOf[b] + v]]
<1>1. PICK f \in [Node -> Nat] : Obeys(f, 0, Step)
  <2>1. ASSUME NEW b \in PowBlock, NEW v \in Nat PROVE WorkOf[b] + v \in Nat
    BY MinedFacts
  <2>2. Step \in [PowBlock -> [Nat -> Nat]]
    BY <2>1
  <2> HIDE DEF Step
  <2> QED BY <2>2, MinedRecursion
<1>2. Rec(f)
  <2>1. ASSUME NEW b \in Node, b # Genesis PROVE f[b] = WorkOf[b] + f[ParentOf[b]]
    <3>1. b \in PowBlock /\ ParentOf[b] \in Node
      BY <2>1, MinedFacts DEF Node
    <3>2. f[b] = Step[b][f[ParentOf[b]]]
      BY <1>1, <2>1 DEF Obeys
    <3>3. f[ParentOf[b]] \in Nat
      BY <3>1
    <3> QED BY <3>1, <3>2, <3>3
  <2>2. f[Genesis] = 0
    BY <1>1 DEF Obeys
  <2>3. DOMAIN f = Node
    OBVIOUS
  <2> QED BY <2>1, <2>2, <2>3
<1>3. Rec(Work)
  <2>1. Work = CHOOSE h : Rec(h)
    BY DEF Work
  <2> HIDE DEF Rec
  <2> QED BY <1>2, <2>1
<1> DEFINE P == { b \in Node : Work[b] \in Nat }
<1>4. \A b \in Node : Work[b] = IF b = Genesis THEN 0 ELSE WorkOf[b] + Work[ParentOf[b]]
  BY <1>3
<1>5. Genesis \in P
  BY <1>4 DEF Node
<1>6. ASSUME NEW b \in PowBlock, ParentOf[b] \in P PROVE b \in P
  <2>1. Work[b] = WorkOf[b] + Work[ParentOf[b]]
    BY <1>4, MinedFacts
  <2>2. Work[ParentOf[b]] \in Nat /\ WorkOf[b] \in Nat /\ b \in Node
    BY <1>6, MinedFacts
  <2> QED BY <2>1, <2>2
<1>7. Node \subseteq P
  <2> HIDE DEF P
  <2> QED BY <1>5, <1>6, MinedInduction
<1>8. Work \in [Node -> Nat]
  <2>1. Work = [b \in Node |-> Work[b]]
    BY <1>3
  <2> QED BY <1>7, <2>1
<1>9. Genesis \in Node
  BY DEF Node
<1> QED BY <1>4, <1>8, <1>9, MinedFacts

\* A path is finite, leads through the paths of its blocks, and is heavier and
\* longer than any of them.
OnPath(b) ==
  /\ b \in Path[b] /\ Genesis \in Path[b]
  /\ IsFiniteSet(Path[b]) /\ HeightOf(b) \in Nat /\ Work[b] \in Nat
  /\ \A c \in Path[b] : /\ Path[c] \subseteq Path[b]
                        /\ HeightOf(c) \in Nat /\ Work[c] \in Nat
                        /\ c # b => Work[c] < Work[b] /\ HeightOf(c) < HeightOf(b)

LEMMA GenesisOnPath == OnPath(Genesis) /\ HeightOf(Genesis) = 0
<1>1. Path[Genesis] = {Genesis} /\ Work[Genesis] = 0
  BY SyncPathUnfold, SyncWorkUnfold
<1>2. IsFiniteSet({Genesis}) /\ Cardinality({Genesis}) = 1
  BY FS_Singleton
<1>3. HeightOf(Genesis) = 0
  BY ONLY <1>1, <1>2 DEF HeightOf
<1> QED BY ONLY <1>1, <1>2, <1>3 DEF OnPath

LEMMA NextOnPath ==
  ASSUME NEW b \in PowBlock, OnPath(ParentOf[b])
  PROVE  OnPath(b) /\ b \notin Path[ParentOf[b]] /\ HeightOf(b) = HeightOf(ParentOf[b]) + 1
<1>1. PICK a, p, w, o : a = ParentOf[b] /\ p = Path[a] /\ w = Work[a] /\ o = WorkOf[b]
  OBVIOUS
<1>2. OnPath(a) /\ o \in Nat \ {0}
  BY <1>1, MinedFacts
<1>3. Path[b] = {b} \cup p /\ Work[b] = o + w
  BY <1>1, SyncPathUnfold, SyncWorkUnfold
<1>4. /\ a \in p /\ Genesis \in p /\ IsFiniteSet(p) /\ w \in Nat /\ HeightOf(a) \in Nat
      /\ \A c \in p : /\ Path[c] \subseteq p /\ HeightOf(c) \in Nat /\ Work[c] \in Nat
                      /\ c # a => Work[c] < w /\ HeightOf(c) < HeightOf(a)
  BY ONLY <1>1, <1>2 DEF OnPath
<1>5. ASSUME NEW c \in p PROVE Work[c] \in Nat /\ Work[c] <= w /\ HeightOf(c) <= HeightOf(a)
  BY ONLY <1>1, <1>4
<1>6. Work[b] \in Nat /\ Work[b] > w
  BY ONLY <1>2, <1>3, <1>4
<1>7. \A c \in p : Work[c] < Work[b]
  BY ONLY <1>4, <1>5, <1>6
<1>8. b \notin p
  BY ONLY <1>6, <1>7
<1>9. Cardinality(p) \in Nat /\ IsFiniteSet({b} \cup p) /\ Cardinality({b} \cup p) = Cardinality(p) + 1
  <2>1. IsFiniteSet(p \cup {b}) /\ Cardinality(p \cup {b}) = Cardinality(p) + 1
    BY ONLY <1>4, <1>8, FS_AddElement
  <2>2. p \cup {b} = {b} \cup p
    OBVIOUS
  <2>3. Cardinality(p) \in Nat
    BY ONLY <1>4, FS_CardinalityType
  <2> QED BY ONLY <2>1, <2>2, <2>3
<1>10. HeightOf(b) = HeightOf(a) + 1
  <2>1. HeightOf(b) = Cardinality({b} \cup p) - 1 /\ HeightOf(a) = Cardinality(p) - 1
    BY ONLY <1>1, <1>3 DEF HeightOf
  <2> QED BY ONLY <1>9, <2>1
<1>11. \A c \in p : HeightOf(c) < HeightOf(b)
  BY ONLY <1>4, <1>5, <1>10
<1>12. HeightOf(b) \in Nat
  BY ONLY <1>4, <1>10
<1>13. \A c \in Path[b] : /\ Path[c] \subseteq Path[b]
                           /\ HeightOf(c) \in Nat /\ Work[c] \in Nat
                           /\ c # b => Work[c] < Work[b] /\ HeightOf(c) < HeightOf(b)
  <2>1. ASSUME NEW c \in Path[b] PROVE c = b \/ c \in p
    BY ONLY <1>3, <2>1
  <2> QED BY ONLY <1>3, <1>4, <1>6, <1>7, <1>11, <1>12, <2>1
<1>14. OnPath(b)
  BY ONLY <1>3, <1>4, <1>6, <1>9, <1>12, <1>13 DEF OnPath
<1> QED BY ONLY <1>1, <1>8, <1>10, <1>14

LEMMA PathFacts == \A b \in Node : OnPath(b)
<1> DEFINE P == { b \in Node : OnPath(b) }
<1>1. Genesis \in P
  BY GenesisOnPath DEF Node
<1>2. ASSUME NEW b \in PowBlock, ParentOf[b] \in P PROVE b \in P
  BY <1>2, MinedFacts, NextOnPath
<1>3. Node \subseteq P
  <2> HIDE DEF P
  <2> QED BY <1>1, <1>2, MinedInduction
<1> QED BY <1>3

\* A block and its parent.
LEMMA PathNext ==
  ASSUME NEW b \in PowBlock
  PROVE  /\ Path[b] = {b} \cup Path[ParentOf[b]] /\ b \notin Path[ParentOf[b]]
         /\ HeightOf(b) = HeightOf(ParentOf[b]) + 1
  BY MinedFacts, PathFacts, NextOnPath, SyncPathUnfold

\* Two nodes on each other's paths are the same.
LEMMA PathOnce ==
  ASSUME NEW b \in Node, NEW c \in Path[b], b \in Path[c]
  PROVE  b = c
<1>1. OnPath(b) /\ Path[b] \subseteq Node
  BY PathFacts, SyncPathUnfold
<1>2. OnPath(c)
  BY <1>1, PathFacts
<1>3. b # c => Work[c] < Work[b] /\ Work[b] < Work[c] /\ Work[b] \in Nat /\ Work[c] \in Nat
  BY ONLY <1>1, <1>2, c \in Path[b], b \in Path[c] DEF OnPath
<1> QED BY ONLY <1>3

\* A path holds a block of every height up to its own, and only one of them.
LEMMA HeightsOnPath ==
  ASSUME NEW b \in Node
  PROVE  \A h \in 0..HeightOf(b) : \E c \in Path[b] : HeightOf(c) = h
<1> DEFINE P == { d \in Node : \A h \in 0..HeightOf(d) : \E c \in Path[d] : HeightOf(c) = h }
<1>1. Genesis \in P
  <2>1. Genesis \in Path[Genesis] /\ HeightOf(Genesis) = 0 /\ Genesis \in Node
    BY GenesisOnPath DEF OnPath, Node
  <2>2. \A h \in 0..0 : h = 0
    OBVIOUS
  <2> QED BY <2>1, <2>2
<1>2. ASSUME NEW d \in PowBlock, ParentOf[d] \in P PROVE d \in P
  <2>1. PICK a : a = ParentOf[d]
    OBVIOUS
  <2>2. /\ Path[d] = {d} \cup Path[a] /\ HeightOf(d) = HeightOf(a) + 1
        /\ HeightOf(a) \in Nat /\ d \in Node
    BY <2>1, PathNext, PathFacts, MinedFacts DEF OnPath
  <2>3. ASSUME NEW h \in 0..HeightOf(d) PROVE \E c \in Path[d] : HeightOf(c) = h
    <3>1. h = HeightOf(d) \/ h \in 0..HeightOf(a)
      BY ONLY <2>2, h \in 0..HeightOf(d)
    <3>2. CASE h = HeightOf(d)
      BY <2>2, <3>2
    <3>3. CASE h \in 0..HeightOf(a)
      <4>1. PICK c \in Path[a] : HeightOf(c) = h
        BY <1>2, <2>1, <3>3
      <4> QED BY <2>2, <4>1
    <3> QED BY <3>1, <3>2, <3>3
  <2> QED BY <2>2, <2>3
<1>3. Node \subseteq P
  <2> HIDE DEF P
  <2> QED BY <1>1, <1>2, MinedInduction
<1> QED BY <1>3

\* Of the nodes of a set that lie on a path, one is the highest.
LEMMA HighestOnPath ==
  ASSUME NEW L, Genesis \in L, NEW b \in Node
  PROVE  \E c \in L \cap Path[b] : \A d \in L \cap Path[b] : HeightOf(d) <= HeightOf(c)
<1> DEFINE P == { x \in Node : \E c \in L \cap Path[x] :
                                  \A d \in L \cap Path[x] : HeightOf(d) <= HeightOf(c) }
<1>1. Genesis \in P
  <2>1. Path[Genesis] = {Genesis} /\ HeightOf(Genesis) = 0 /\ Genesis \in Node
    BY GenesisOnPath, SyncPathUnfold DEF Node
  <2>2. 0 <= 0
    OBVIOUS
  <2> QED BY <2>1, <2>2
<1>2. ASSUME NEW x \in PowBlock, ParentOf[x] \in P PROVE x \in P
  <2>1. Path[x] = {x} \cup Path[ParentOf[x]] /\ x \in Node
    BY PathNext, MinedFacts
  <2>2. CASE x \in L
    <3>1. OnPath(x)
      BY <2>1, PathFacts
    <3>2. x \in Path[x] /\ \A d \in Path[x] : HeightOf(d) <= HeightOf(x)
      <4>1. ASSUME NEW d \in Path[x] PROVE HeightOf(d) <= HeightOf(x)
        BY ONLY <3>1, <4>1 DEF OnPath
      <4> QED BY ONLY <3>1, <4>1 DEF OnPath
    <3> QED BY <2>1, <2>2, <3>2
  <2>3. CASE x \notin L
    <3>1. L \cap Path[x] = L \cap Path[ParentOf[x]]
      BY <2>1, <2>3
    <3> QED BY <1>2, <2>1, <3>1
  <2> QED BY <2>2, <2>3
<1>3. Node \subseteq P
  <2> HIDE DEF P
  <2> QED BY <1>1, <1>2, MinedInduction
<1> QED BY <1>3

\* A locator names nodes of its chain and the genesis.
LEMMA LocatorFacts ==
  ASSUME NEW tip \in Node
  PROVE  /\ Genesis \in Locator(tip) /\ Locator(tip) \subseteq Path[tip]
         /\ Locator(tip) \subseteq Node
<1>1. Genesis \in Path[tip] /\ Path[tip] \subseteq Node
  BY PathFacts, SyncPathUnfold DEF OnPath
<1> DEFINE R(b) == LET top == HeightOf(tip)
                       step[k \in 0..top] == IF k < DenseLocator THEN 1 ELSE 2 * step[k - 1]
                       offset[k \in 0..top + 1] == IF k = 0 THEN 0 ELSE offset[k - 1] + step[k - 1]
                   IN  \E k \in 0..top : HeightOf(b) = top - offset[k]
<1>2. Locator(tip) = {Genesis} \cup { b \in Path[tip] : R(b) }
  BY DEF Locator
<1> HIDE DEF R
<1> QED BY ONLY <1>1, <1>2

\* Where a locator meets a chain, and what headers_after returns from there on.
LEMMA HeadersFacts ==
  ASSUME NEW tip \in Node, NEW locator \in SUBSET Node, Genesis \in locator
  PROVE  /\ HeadersAfter(tip, locator) \in Seq(Path[tip])
         /\ ToSet(HeadersAfter(tip, locator)) \subseteq Path[tip]
         /\ \A c \in locator \cap Path[tip] :
              HeightOf(tip) <= HeightOf(c) + HeaderLimit
                => tip \in locator \/ tip \in ToSet(HeadersAfter(tip, locator))
<1> DEFINE S == { HeightOf(b) : b \in locator \cap Path[tip] }
           common == Max(S)
           H == HeightOf(tip)
           last == Min({ H, common + HeaderLimit })
           s == HeadersAfter(tip, locator)
<1>1. H \in Nat /\ OnPath(tip) /\ HeaderLimit \in Nat
  BY PathFacts, SyncAssumption DEF OnPath
<1>2. \A c \in Path[tip] : HeightOf(c) \in 0..H /\ (HeightOf(c) >= H => c = tip)
  <2>1. ASSUME NEW c \in Path[tip] PROVE HeightOf(c) \in Nat /\ (c # tip => HeightOf(c) < H)
    BY ONLY <1>1, <2>1 DEF OnPath
  <2> QED BY ONLY <1>1, <2>1
<1>3. PICK c0 \in locator \cap Path[tip] :
        \A d \in locator \cap Path[tip] : HeightOf(d) <= HeightOf(c0)
  BY HighestOnPath
<1>4. common \in S /\ \A x \in S : common >= x
  <2>1. HeightOf(c0) \in S /\ \A y \in S : HeightOf(c0) >= y
    BY <1>1, <1>2, <1>3
  <2> HIDE DEF S
  <2> QED BY ONLY <2>1 DEF Max
<1>5. PICK c1 \in locator \cap Path[tip] : HeightOf(c1) = common
  BY ONLY <1>4
<1>6. common \in 0..H
  BY ONLY <1>2, <1>5
<1>7. \A x \in locator \cap Path[tip] : HeightOf(x) <= common
  <2> TAKE x \in locator \cap Path[tip]
  <2>1. HeightOf(x) \in S /\ HeightOf(x) \in Nat
    BY <1>1, <1>2
  <2> HIDE DEF common, S
  <2> QED BY ONLY <2>1, <1>4, <1>6, <1>1
<1> HIDE DEF common, S
<1>8. /\ last \in Nat /\ last <= H /\ last - common <= HeaderLimit
      /\ common + HeaderLimit >= H => last = H
  <2>1. PICK j : j = common + HeaderLimit
    OBVIOUS
  <2>2. j \in Nat
    BY ONLY <1>1, <1>6, <2>1
  <2>3. (H <= j => last = H) /\ (~(H <= j) => last = j)
    <3>1. last = CHOOSE x \in {H, j} : \A y \in {H, j} : x <= y
      BY <2>1 DEF Min
    <3>2. ASSUME NEW x \in {H, j}, \A y \in {H, j} : x <= y
          PROVE  (H <= j => x = H) /\ (~(H <= j) => x = j)
      BY ONLY <3>2, <1>1, <2>2
    <3>3. \E x \in {H, j} : \A y \in {H, j} : x <= y
      BY ONLY <1>1, <2>2
    <3> HIDE DEF last
    <3> QED BY ONLY <3>1, <3>2, <3>3
  <2> HIDE DEF last
  <2> QED BY ONLY <1>1, <1>6, <2>1, <2>2, <2>3
<1>9. s = [i \in 1..(last - common) |-> BlockAt(tip, common + i)]
  BY DEF HeadersAfter, common, S
<1>10. \A h \in 0..H : BlockAt(tip, h) \in Path[tip] /\ HeightOf(BlockAt(tip, h)) = h
  BY HeightsOnPath DEF BlockAt
<1> HIDE DEF last
<1>11. \A i \in 1..(last - common) : common + i \in 0..H
  BY ONLY <1>1, <1>6, <1>8
<1>12. \A i \in 1..(last - common) : s[i] \in Path[tip]
  BY <1>9, <1>10, <1>11
<1>13. s \in Seq(Path[tip]) /\ DOMAIN s = 1..(last - common)
  <2>1. PICK k : k = IF last - common > 0 THEN last - common ELSE 0
    OBVIOUS
  <2>2. k \in Nat /\ 1..(last - common) = 1..k
    BY ONLY <1>6, <1>8, <2>1
  <2>3. s = [i \in 1..k |-> s[i]] /\ \A i \in 1..k : s[i] \in Path[tip]
    BY <1>9, <1>12, <2>2
  <2> HIDE DEF s
  <2>4. s \in [1..k -> Path[tip]]
    BY ONLY <2>3
  <2>5. s \in Seq(Path[tip])
    BY ONLY <2>2, <2>4
  <2> QED BY ONLY <2>2, <2>3, <2>5
<1>14. \A i \in 1..(last - common) : s[i] \in ToSet(s)
  BY <1>13 DEF ToSet
<1>15. ToSet(s) \subseteq Path[tip]
  BY <1>12, <1>13 DEF ToSet
<1>16. ASSUME NEW c \in locator \cap Path[tip], H <= HeightOf(c) + HeaderLimit
       PROVE  tip \in locator \/ tip \in ToSet(s)
  <2>1. last = H
    <3>1. HeightOf(c) <= common /\ HeightOf(c) \in Nat
      BY ONLY <1>1, <1>2, <1>7, c \in locator \cap Path[tip]
    <3> QED BY ONLY <1>1, <1>6, <1>8, <1>16, <3>1
  <2>2. CASE common = H
    BY <1>1, <1>2, <1>5, <2>2
  <2>3. CASE common # H
    <3>1. H - common \in 1..(last - common) /\ common + (H - common) = H /\ H \in 0..H
      BY ONLY <1>1, <1>6, <2>1, <2>3
    <3>2. s[H - common] = BlockAt(tip, H)
      BY <1>9, <3>1
    <3>3. BlockAt(tip, H) = tip
      <4>1. BlockAt(tip, H) \in Path[tip] /\ HeightOf(BlockAt(tip, H)) = H
        BY <1>10, <3>1
      <4> QED BY ONLY <1>1, <1>2, <4>1
    <3> QED BY <1>14, <3>1, <3>2, <3>3
  <2> QED BY <2>2, <2>3
<1> QED BY <1>13, <1>15, <1>16

-----------------------------------------------------------------------------
(* What the nodes hold.                                                    *)

TablesInv ==
  /\ known \in [Peer -> SUBSET Node] /\ best \in [Peer -> Node]
  /\ orphans \in [Peer -> SUBSET PowBlock] /\ late \in [Peer -> SUBSET PowBlock]
  /\ \A n \in Peer :
       /\ Genesis \in known[n] /\ best[n] \in known[n]
       /\ orphans[n] \cap known[n] = {}
       /\ \A b \in known[n] \ {Genesis} : ParentOf[b] \in known[n]
       /\ \A b \in known[n] : Work[b] <= Work[best[n]]
       /\ \A o \in orphans[n] : ParentOf[o] \notin known[n]

\* A set that holds the parents of its blocks holds their paths.
LEMMA ClosedPaths ==
  ASSUME NEW K \in SUBSET Node, \A b \in K \ {Genesis} : ParentOf[b] \in K
  PROVE  \A b \in K : Path[b] \subseteq K
<1> DEFINE P == { b \in Node : b \in K => Path[b] \subseteq K }
<1>1. Genesis \in P
  BY SyncPathUnfold DEF Node
<1>2. ASSUME NEW b \in PowBlock, ParentOf[b] \in P PROVE b \in P
  BY <1>2, MinedFacts, SyncPathUnfold
<1>3. Node \subseteq P
  <2> HIDE DEF P
  <2> QED BY <1>1, <1>2, MinedInduction
<1> QED BY <1>3

\* Blocks that a node knows stay known.
KnownGrows == \A n \in Peer : known[n] \subseteq known'[n]

\* accept_block and the orphans that it connects: what is known stays closed, the
\* tip is the heaviest again, and no orphan is left whose parent arrived.
LEMMA AcceptKeeps ==
  ASSUME TablesInv, NEW n \in Peer, NEW b \in PowBlock, b \notin known[n],
         ParentOf[b] \in known[n], Accept(n, b), late' = late
  PROVE  TablesInv' /\ KnownGrows /\ b \in known'[n] /\ best'[n] \in known'[n]
         /\ (best'[n] = best[n] \/ Work[best'[n]] > Work[best[n]])
         /\ \A m \in Peer \ {n} : best'[m] = best[m]
<1> DEFINE new == Connected(n, b)
<1>1. /\ known \in [Peer -> SUBSET Node] /\ best \in [Peer -> Node]
      /\ orphans \in [Peer -> SUBSET PowBlock] /\ late \in [Peer -> SUBSET PowBlock]
  BY DEF TablesInv
<1>2. /\ Genesis \in known[n] /\ best[n] \in known[n]
      /\ orphans[n] \cap known[n] = {}
      /\ \A c \in known[n] \ {Genesis} : ParentOf[c] \in known[n]
      /\ \A c \in known[n] : Work[c] <= Work[best[n]]
      /\ \A o \in orphans[n] : ParentOf[o] \notin known[n]
  BY DEF TablesInv
<1>3. PICK x \in new \cup {best[n]} :
        /\ \A y \in new \cup {best[n]} : Work[y] <= Work[x]
        /\ Work[best[n]] = Work[x] => x = best[n]
        /\ best' = [best EXCEPT ![n] = x]
  BY DEF Accept
<1>4. /\ known' = [known EXCEPT ![n] = @ \cup new]
      /\ orphans' = [orphans EXCEPT ![n] = { o \in @ \ new : ParentOf[o] \notin new }]
  BY DEF Accept
<1>5. new \subseteq PowBlock /\ new \subseteq orphans[n] \cup {b} /\ new \subseteq Node
  BY <1>1, MinedFacts DEF Connected
<1>6. b \in new
  <2>1. b \in Path[b]
    BY PathFacts, MinedFacts DEF OnPath
  <2> QED BY <2>1 DEF Connected
<1>7. ASSUME NEW c \in new PROVE ParentOf[c] \in new \cup known[n]
  <2>1. c = b \/ (c \in orphans[n] /\ c # b)
    BY <1>5
  <2>2. CASE c # b
    <3>1. PICK a : a = ParentOf[c]
      OBVIOUS
    <3>2. /\ b \in Path[c] /\ Path[c] \ Path[b] \subseteq orphans[n] \ late[n]
          /\ c \in PowBlock
      BY <1>5 DEF Connected
    <3>3. Path[c] = {c} \cup Path[a] /\ a \in Node /\ a \in Path[a]
      BY <3>1, <3>2, PathNext, MinedFacts, PathFacts DEF OnPath
    <3>4. b \in Path[a] /\ Path[a] \subseteq Path[c]
      BY <2>2, <3>2, <3>3
    <3>5. CASE a \in Path[b]
      <4>1. a = b
        BY <3>3, <3>4, <3>5, PathOnce
      <4> QED BY <1>6, <3>1, <4>1
    <3>6. CASE a \notin Path[b]
      <4>1. a \in orphans[n]
        BY <3>2, <3>3, <3>4, <3>6
      <4>2. Path[a] \ Path[b] \subseteq orphans[n] \ late[n]
        BY <3>2, <3>4
      <4> QED BY <3>1, <3>4, <4>1, <4>2 DEF Connected
    <3> QED BY <3>5, <3>6
  <2> QED BY <2>1, <2>2
<1> HIDE DEF new
<1>8. /\ known'[n] = known[n] \cup new /\ \A m \in Peer \ {n} : known'[m] = known[m]
      /\ known' \in [Peer -> SUBSET Node]
  BY <1>1, <1>4, <1>5
<1>9. /\ orphans'[n] = { o \in orphans[n] \ new : ParentOf[o] \notin new }
      /\ \A m \in Peer \ {n} : orphans'[m] = orphans[m]
      /\ orphans' \in [Peer -> SUBSET PowBlock]
  BY <1>1, <1>4
<1>10. /\ best'[n] = x /\ \A m \in Peer \ {n} : best'[m] = best[m]
       /\ best' \in [Peer -> Node] /\ x \in known'[n]
  BY <1>1, <1>2, <1>3, <1>5, <1>8
<1>11. \A c \in Node : Work[c] \in Nat
  BY SyncWorkUnfold
<1>12. Work[best[n]] <= Work[x] /\ (x = best[n] \/ Work[x] > Work[best[n]])
  <2>1. Work[best[n]] <= Work[x] /\ Work[x] \in Nat /\ Work[best[n]] \in Nat
    BY <1>1, <1>3, <1>5, <1>11
  <2> QED BY ONLY <1>3, <2>1
<1>13. \A c \in known'[n] : Work[c] <= Work[x]
  <2> TAKE c \in known'[n]
  <2>1. CASE c \in new
    BY <1>3, <2>1
  <2>2. CASE c \in known[n]
    <3>1. Work[c] \in Nat /\ Work[x] \in Nat /\ Work[best[n]] \in Nat
      BY <1>1, <1>5, <1>11, <2>2
    <3>2. Work[c] <= Work[best[n]]
      BY <1>2, <2>2
    <3> QED BY ONLY <1>12, <3>1, <3>2
  <2> QED BY <1>8, <2>1, <2>2
<1>14. \A c \in known'[n] \ {Genesis} : ParentOf[c] \in known'[n]
  BY <1>2, <1>7, <1>8
<1>15. /\ orphans'[n] \cap known'[n] = {}
       /\ \A o \in orphans'[n] : ParentOf[o] \notin known'[n]
  BY <1>2, <1>8, <1>9
<1>16. ASSUME NEW m \in Peer
       PROVE  /\ Genesis \in known'[m] /\ best'[m] \in known'[m]
              /\ orphans'[m] \cap known'[m] = {}
              /\ \A c \in known'[m] \ {Genesis} : ParentOf[c] \in known'[m]
              /\ \A c \in known'[m] : Work[c] <= Work[best'[m]]
              /\ \A o \in orphans'[m] : ParentOf[o] \notin known'[m]
  <2>1. CASE m = n
    BY ONLY <1>2, <1>8, <1>10, <1>13, <1>14, <1>15, <2>1
  <2>2. CASE m # n
    <3>1. known'[m] = known[m] /\ orphans'[m] = orphans[m] /\ best'[m] = best[m]
      BY <1>8, <1>9, <1>10, <2>2
    <3> QED BY <3>1 DEF TablesInv
  <2> QED BY <2>1, <2>2
<1>17. late' \in [Peer -> SUBSET PowBlock]
  BY <1>1
<1>18. TablesInv'
  BY ONLY <1>8, <1>9, <1>10, <1>16, <1>17 DEF TablesInv
<1>19. KnownGrows /\ b \in known'[n]
  BY <1>6, <1>8 DEF KnownGrows
<1> QED BY <1>10, <1>12, <1>18, <1>19

\* A block whose parent is missing waits; one that is known changes nothing.
LEMMA OrphanKeeps ==
  ASSUME TablesInv, NEW n \in Peer, NEW b \in Node, b \in known[n] \/ ParentOf[b] \notin known[n],
         orphans' = [orphans EXCEPT ![n] = IF b \in known[n] THEN @ ELSE @ \cup {b}],
         UNCHANGED <<known, best, late>>
  PROVE  TablesInv'
<1>1. orphans \in [Peer -> SUBSET PowBlock] /\ Genesis \in known[n]
  BY DEF TablesInv
<1>2. b \notin known[n] => b \in PowBlock
  BY <1>1 DEF Node
<1>3. /\ orphans' \in [Peer -> SUBSET PowBlock]
      /\ orphans'[n] = IF b \in known[n] THEN orphans[n] ELSE orphans[n] \cup {b}
      /\ \A m \in Peer \ {n} : orphans'[m] = orphans[m]
  BY <1>1, <1>2
<1>4. ASSUME NEW m \in Peer
      PROVE  /\ orphans'[m] \cap known[m] = {}
             /\ \A o \in orphans'[m] : ParentOf[o] \notin known[m]
  <2>1. /\ orphans[m] \cap known[m] = {}
        /\ \A o \in orphans[m] : ParentOf[o] \notin known[m]
    BY DEF TablesInv
  <2> QED BY <1>3, <2>1
<1> QED BY <1>3, <1>4 DEF TablesInv

LEMMA TablesStutter ==
  ASSUME TablesInv, UNCHANGED <<known, best, orphans>>, late' \in [Peer -> SUBSET PowBlock]
  PROVE  TablesInv'
BY DEF TablesInv

-----------------------------------------------------------------------------
(* What is on its way.                                                     *)

\* A stream whose messages are all served by what the nodes know.
Carries(K, l, s) == s \in Seq(SyncMessage) /\ \A i \in 1..Len(s) : Answerable(K, l, s[i])

LEMMA CarriesNothing == ASSUME NEW K, NEW l PROVE Carries(K, l, << >>)
BY DEF Carries

LEMMA CarriesOne ==
  ASSUME NEW K, NEW l, NEW m \in SyncMessage, Answerable(K, l, m)
  PROVE  Carries(K, l, <<m>>)
<1>1. <<m>> \in Seq(SyncMessage) /\ Len(<<m>>) = 1 /\ <<m>>[1] = m
  OBVIOUS
<1> QED BY ONLY <1>1, Answerable(K, l, m) DEF Carries

LEMMA CarriesTail ==
  ASSUME NEW K, NEW l, NEW s, Carries(K, l, s), s # << >>
  PROVE  Carries(K, l, Tail(s)) /\ Head(s) \in SyncMessage /\ Answerable(K, l, Head(s))
<1>1. s \in Seq(SyncMessage) /\ Len(s) \in Nat /\ Len(s) >= 1
  BY DEF Carries
<1>2. PICK u : u = Tail(s)
  OBVIOUS
<1>3. u \in Seq(SyncMessage) /\ Len(u) = Len(s) - 1 /\ Head(s) = s[1] /\ s[1] \in SyncMessage
  BY ONLY <1>1, <1>2, s # << >>
<1>4. \A i \in 1..Len(u) : u[i] = s[i + 1] /\ i + 1 \in 1..Len(s)
  BY ONLY <1>1, <1>2, <1>3, s # << >>
<1>5. \A i \in 1..Len(s) : Answerable(K, l, s[i])
  BY DEF Carries
<1>6. 1 \in 1..Len(s)
  BY ONLY <1>1
<1>7. Carries(K, l, u)
  BY ONLY <1>3, <1>4, <1>5 DEF Carries
<1> QED BY ONLY <1>2, <1>3, <1>5, <1>6, <1>7

LEMMA CarriesBoth ==
  ASSUME NEW K, NEW l, NEW s, NEW u, Carries(K, l, s), Carries(K, l, u)
  PROVE  Carries(K, l, s \o u)
<1>1. /\ s \in Seq(SyncMessage) /\ u \in Seq(SyncMessage)
      /\ \A i \in 1..Len(s) : Answerable(K, l, s[i])
      /\ \A i \in 1..Len(u) : Answerable(K, l, u[i])
  BY DEF Carries
<1>2. PICK w, j, k : w = s \o u /\ j = Len(s) /\ k = Len(u)
  OBVIOUS
<1>3. j \in Nat /\ k \in Nat /\ w \in Seq(SyncMessage) /\ Len(w) = j + k
  BY ONLY <1>1, <1>2
<1>4. \A i \in 1..(j + k) : w[i] = IF i <= j THEN s[i] ELSE u[i - j]
  BY ONLY <1>1, <1>2
<1>5. ASSUME NEW i \in 1..Len(w) PROVE Answerable(K, l, w[i])
  <2>1. CASE i <= j
    <3>1. i \in 1..j /\ w[i] = s[i]
      BY ONLY <1>3, <1>4, <2>1, i \in 1..Len(w)
    <3> QED BY ONLY <1>1, <1>2, <3>1
  <2>2. CASE ~(i <= j)
    <3>1. i - j \in 1..k /\ w[i] = u[i - j]
      BY ONLY <1>3, <1>4, <2>2, i \in 1..Len(w)
    <3> QED BY ONLY <1>1, <1>2, <3>1
  <2> QED BY ONLY <2>1, <2>2
<1> QED BY ONLY <1>2, <1>3, <1>5 DEF Carries

\* What was served stays so while the nodes learn.
LEMMA CarriesOn ==
  ASSUME NEW K, NEW W, \A n \in Peer : K[n] \subseteq W[n],
         NEW l \in Pairs, NEW s, Carries(K, l, s)
  PROVE  Carries(W, l, s)
<1>1. l[1] \in Peer /\ l[2] \in Peer
  BY DEF Pairs
<1>2. K[l[1]] \subseteq W[l[1]] /\ K[l[2]] \subseteq W[l[2]]
  BY ONLY <1>1, \A n \in Peer : K[n] \subseteq W[n]
<1>3. ASSUME NEW m, Answerable(K, l, m) PROVE Answerable(W, l, m)
  BY ONLY <1>2, <1>3 DEF Answerable
<1> QED BY ONLY <1>3, Carries(K, l, s) DEF Carries

StreamsInv ==
  /\ linked \subseteq Pairs /\ \A l \in linked : <<l[2], l[1]>> \in linked
  /\ DOMAIN chan = Pairs /\ chan = [l \in Pairs |-> chan[l]]
  /\ \A l \in Pairs : Carries(known, l, chan[l])
  /\ \A l \in Pairs \ linked : chan[l] = << >>
  /\ recent \in [Pairs -> 0..RateLimit]
  /\ drops \in 0..MaxDrops

\* Both directions of a session.
LEMMA PairFacts ==
  ASSUME NEW n \in Peer, NEW p \in Peer, n # p
  PROVE  <<n, p>> \in Pairs /\ <<p, n>> \in Pairs /\ <<n, p>> # <<p, n>>
BY DEF Pairs

\* A handler has read a message and written its answer and its news.
LEMMA HandledKeeps ==
  ASSUME StreamsInv, KnownGrows, NEW n \in Peer, NEW p \in Peer, n # p,
         chan[<<p, n>>] # << >>, recent[<<n, p>>] < RateLimit,
         NEW reply, NEW news, Handled(n, p, reply, news),
         Carries(known', <<n, p>>, reply),
         \A q \in Peer \ {n} : Carries(known', <<n, q>>, news)
  PROVE  StreamsInv'
<1>1. <<n, p>> \in Pairs /\ <<p, n>> \in Pairs /\ <<n, p>> # <<p, n>>
  BY PairFacts
<1>2. /\ linked \subseteq Pairs /\ \A l \in linked : <<l[2], l[1]>> \in linked
      /\ \A l \in Pairs : Carries(known, l, chan[l])
      /\ \A l \in Pairs \ linked : chan[l] = << >>
      /\ recent \in [Pairs -> 0..RateLimit] /\ drops \in 0..MaxDrops
  BY DEF StreamsInv
<1>3. <<p, n>> \in linked /\ <<n, p>> \in linked
  BY <1>1, <1>2
<1>4. /\ chan' = [l \in Pairs |->
                  CASE l = <<p, n>> -> Tail(chan[l])
                    [] l = <<n, p>> -> chan[l] \o reply
                    [] l[1] = n /\ l[2] \in Others(n) \ {p} -> chan[l] \o news
                    [] OTHER -> chan[l]]
      /\ recent' = [recent EXCEPT ![<<n, p>>] = @ + 1]
      /\ UNCHANGED <<late, linked, drops>>
  BY DEF Handled
<1>5. PICK K, W : K = known /\ W = known'
  OBVIOUS
<1>6. \A m \in Peer : K[m] \subseteq W[m]
  BY <1>5 DEF KnownGrows
<1>7. \A l \in Pairs : Carries(W, l, chan[l])
  <2>1. ASSUME NEW l \in Pairs, NEW s, s = chan[l] PROVE Carries(W, l, s)
    BY <1>2, <1>5, <1>6, <2>1, CarriesOn
  <2> QED BY <2>1
<1>8. ASSUME NEW l \in Pairs
      PROVE  Carries(W, l, chan'[l]) /\ (l \notin linked => chan'[l] = << >>)
  <2>1. PICK s : s = chan[l]
    OBVIOUS
  <2>2. Carries(W, l, s)
    BY <1>7, <2>1
  <2>3. CASE l = <<p, n>>
    <3>1. chan'[l] = Tail(s) /\ s # << >>
      BY <1>4, <2>1, <2>3
    <3>2. Carries(W, l, Tail(s))
      BY <2>2, <3>1, CarriesTail
    <3> QED BY <1>3, <2>3, <3>1, <3>2
  <2>4. CASE l = <<n, p>>
    <3>1. chan'[l] = s \o reply
      BY <1>1, <1>4, <2>1, <2>4
    <3>2. Carries(W, l, reply)
      BY <1>5, <2>4
    <3>3. Carries(W, l, s \o reply)
      BY <2>2, <3>2, CarriesBoth
    <3> QED BY <1>3, <2>4, <3>1, <3>3
  <2>5. CASE l # <<p, n>> /\ l # <<n, p>> /\ l[1] = n /\ l[2] \in Others(n) \ {p}
    <3>1. chan'[l] = s \o news
      BY <1>4, <2>1, <2>5
    <3>2. l = <<n, l[2]>> /\ l[2] \in Peer \ {n} /\ <<n, l[2]>> \in linked
      BY <2>5 DEF Pairs, Others
    <3>3. Carries(W, l, news)
      BY <1>5, <3>2
    <3>4. Carries(W, l, s \o news)
      BY <2>2, <3>3, CarriesBoth
    <3> QED BY <3>1, <3>2, <3>4
  <2>6. CASE /\ l # <<p, n>> /\ l # <<n, p>>
             /\ ~(l[1] = n /\ l[2] \in Others(n) \ {p})
    <3>1. chan'[l] = s
      BY <1>4, <2>1, <2>6
    <3> QED BY <1>2, <2>1, <2>2, <3>1
  <2> QED BY <2>3, <2>4, <2>5, <2>6
<1>9. DOMAIN chan' = Pairs /\ chan' = [l \in Pairs |-> chan'[l]]
  BY <1>4
<1>10. recent' \in [Pairs -> 0..RateLimit]
  <2>1. recent[<<n, p>>] + 1 \in 0..RateLimit
    <3>1. recent[<<n, p>>] \in 0..RateLimit /\ RateLimit \in Nat
      BY <1>1, <1>2, SyncAssumption
    <3> QED BY ONLY <3>1, recent[<<n, p>>] < RateLimit
  <2> QED BY <1>2, <1>4, <2>1
<1>11. linked' = linked /\ drops' = drops
  BY <1>4
<1>12. \A l \in Pairs : Carries(known', l, chan'[l])
  BY <1>5, <1>8
<1>13. \A l \in Pairs \ linked' : chan'[l] = << >>
  BY <1>8, <1>11
<1> QED BY <1>2, <1>9, <1>10, <1>11, <1>12, <1>13 DEF StreamsInv

\* A closed session carries nothing.
LEMMA ClosedKeeps ==
  ASSUME StreamsInv, NEW n \in Peer, NEW p \in Peer, n # p, Closed(n, p),
         known' = known, drops' \in 0..MaxDrops
  PROVE  StreamsInv'
<1>1. <<n, p>> \in Pairs /\ <<p, n>> \in Pairs /\ <<n, p>> # <<p, n>>
  BY PairFacts
<1>2. /\ linked \subseteq Pairs /\ \A l \in linked : <<l[2], l[1]>> \in linked
      /\ DOMAIN chan = Pairs /\ chan = [l \in Pairs |-> chan[l]]
      /\ \A l \in Pairs : Carries(known, l, chan[l])
      /\ \A l \in Pairs \ linked : chan[l] = << >>
      /\ recent \in [Pairs -> 0..RateLimit]
  BY DEF StreamsInv
<1>3. /\ linked' = linked \ {<<n, p>>, <<p, n>>}
      /\ chan' = [chan EXCEPT ![<<n, p>>] = << >>, ![<<p, n>>] = << >>]
      /\ recent' = [recent EXCEPT ![<<n, p>>] = 0, ![<<p, n>>] = 0]
  BY DEF Closed
<1>4. linked' \subseteq Pairs /\ \A l \in linked' : <<l[2], l[1]>> \in linked'
  <2>1. ASSUME NEW l \in linked' PROVE <<l[2], l[1]>> \in linked'
    <3>1. l \in linked /\ l # <<n, p>> /\ l # <<p, n>> /\ l \in Pairs
      BY <1>2, <1>3
    <3>2. l = <<l[1], l[2]>>
      BY <3>1 DEF Pairs
    <3> QED BY <1>2, <1>3, <3>1, <3>2
  <2> QED BY <1>2, <1>3, <2>1
<1>5. /\ DOMAIN chan' = Pairs /\ chan' = [l \in Pairs |-> chan'[l]]
      /\ chan'[<<n, p>>] = << >> /\ chan'[<<p, n>>] = << >>
      /\ \A l \in Pairs \ {<<n, p>>, <<p, n>>} : chan'[l] = chan[l]
  BY <1>1, <1>2, <1>3
<1>6. \A l \in Pairs : Carries(known', l, chan'[l])
  <2> SUFFICES ASSUME NEW l \in Pairs PROVE Carries(known', l, chan'[l])
    OBVIOUS
  <2>1. CASE l \in {<<n, p>>, <<p, n>>}
    <3>1. chan'[l] = << >>
      BY <1>5, <2>1
    <3>2. Carries(known', l, << >>)
      BY CarriesNothing
    <3> QED BY <3>1, <3>2
  <2>2. CASE l \notin {<<n, p>>, <<p, n>>}
    <3>1. chan'[l] = chan[l] /\ known' = known
      BY <1>5, <2>2
    <3>2. Carries(known, l, chan[l])
      BY <1>2
    <3> QED BY <3>1, <3>2
  <2> QED BY <2>1, <2>2
<1>7. \A l \in Pairs \ linked' : chan'[l] = << >>
  BY <1>2, <1>3, <1>5
<1>8. recent' \in [Pairs -> 0..RateLimit]
  <2>1. 0 \in 0..RateLimit
    BY SyncAssumption
  <2> QED BY <1>2, <1>3, <2>1
<1> QED BY <1>4, <1>5, <1>6, <1>7, <1>8 DEF StreamsInv

\* Messages are written to sessions that are open after the step.
LEMMA WrittenKeeps ==
  ASSUME StreamsInv, KnownGrows, UNCHANGED <<recent, drops>>,
         linked' \subseteq Pairs, \A l \in linked' : <<l[2], l[1]>> \in linked',
         linked \subseteq linked',
         DOMAIN chan' = Pairs, chan' = [l \in Pairs |-> chan'[l]],
         \A l \in Pairs : chan'[l] = chan[l] \/ (l \in linked' /\ Carries(known', l, chan'[l]))
  PROVE  StreamsInv'
<1>1. PICK K, W : K = known /\ W = known'
  OBVIOUS
<1>2. \A m \in Peer : K[m] \subseteq W[m]
  BY <1>1 DEF KnownGrows
<1>3. ASSUME NEW l \in Pairs
      PROVE  Carries(known', l, chan'[l]) /\ (l \notin linked' => chan'[l] = << >>)
  <2>1. PICK s : s = chan[l]
    OBVIOUS
  <2>2. Carries(K, l, s)
    BY <1>1, <2>1 DEF StreamsInv
  <2>3. Carries(W, l, s)
    BY <1>2, <2>2, CarriesOn
  <2>4. l \notin linked => s = << >>
    BY <2>1 DEF StreamsInv
  <2> QED BY <1>1, <2>1, <2>3, <2>4
<1>4. /\ DOMAIN chan' = Pairs /\ chan' = [l \in Pairs |-> chan'[l]]
      /\ linked' \subseteq Pairs /\ \A l \in linked' : <<l[2], l[1]>> \in linked'
  OBVIOUS
<1>5. recent' \in [Pairs -> 0..RateLimit] /\ drops' \in 0..MaxDrops
  BY DEF StreamsInv
<1> QED BY ONLY <1>3, <1>4, <1>5 DEF StreamsInv

-----------------------------------------------------------------------------
(* The request for unknown blocks.                                         *)

Kind(m, n) == m.block
Loops == INSTANCE FoldInduction WITH Op <- Kind

\* The loop over the headers collects headers of the message.
LEMMA UnknownFacts ==
  ASSUME NEW K, NEW A, NEW s \in Seq(A)
  PROVE  Unknown(K, s) \in Seq(ToSet(s))
<1> DEFINE W == Len(s)
           S == Seq(ToSet(s))
           Body(f) == [i \in 0..W |->
                         IF i = 0 THEN << >>
                         ELSE IF s[i] \in K THEN f[i - 1] ELSE Append(f[i - 1], s[i])]
           Rec(f) == f = Body(f)
           Step == [i \in 1..W |-> [u \in S |-> IF s[i] \in K THEN u ELSE Append(u, s[i])]]
<1>1. W \in Nat /\ \A i \in 1..W : s[i] \in ToSet(s)
  BY DEF ToSet
<1>2. Step \in [1..W -> [S -> S]] /\ << >> \in S
  <2>1. ASSUME NEW i \in 1..W, NEW u \in S PROVE Append(u, s[i]) \in S
    BY <1>1
  <2>2. << >> \in S
    OBVIOUS
  <2> HIDE DEF S, W
  <2> QED BY <2>1, <2>2
<1>3. PICK f \in [0..W -> S] : f[0] = << >> /\ \A i \in 1..W : f[i] = Step[i][f[i - 1]]
  <2> HIDE DEF S, W, Step
  <2>1. Loops!HasRecurrence(W, S, << >>, Step)
    BY <1>1, <1>2, Loops!IntervalRecursion
  <2> QED BY <2>1 DEF Loops!HasRecurrence
<1>4. Rec(f)
  <2>1. ASSUME NEW i \in 0..W PROVE f[i] = Body(f)[i]
    <3>1. CASE i = 0
      BY <1>3, <3>1
    <3>2. CASE i # 0
      <4>1. i \in 1..W /\ i - 1 \in 0..W
        BY <1>1, <3>2
      <4>2. f[i - 1] \in S /\ f[i] = Step[i][f[i - 1]]
        BY <1>3, <4>1
      <4> HIDE DEF S, W
      <4> QED BY <3>2, <4>1, <4>2
    <3> QED BY <3>1, <3>2
  <2>2. DOMAIN f = 0..W /\ f = [i \in 0..W |-> f[i]]
    OBVIOUS
  <2> HIDE DEF W, S
  <2> QED BY <2>1, <2>2
<1> DEFINE found == CHOOSE f1 : Rec(f1)
<1>5. Rec(found)
  <2> HIDE DEF Rec
  <2> QED BY <1>4
<1>6. Unknown(K, s) = found[W]
  BY DEF Unknown
<1> HIDE DEF found
<1>7. \A i \in 0..W : found[i] = IF i = 0 THEN << >>
                                ELSE IF s[i] \in K THEN found[i - 1]
                                     ELSE Append(found[i - 1], s[i])
  <2> HIDE DEF W
  <2> QED BY <1>5
<1> HIDE DEF Rec, Body, Step
<1> DEFINE Q == { i \in Nat : i \in 0..W => found[i] \in S }
<1>8. 0 \in Q
  BY <1>1, <1>2, <1>7
<1>9. ASSUME NEW i \in Q PROVE i + 1 \in Q
  <2>1. SUFFICES ASSUME i + 1 \in 0..W PROVE found[i + 1] \in S
    OBVIOUS
  <2>2. i \in 0..W /\ i + 1 \in 1..W /\ i + 1 # 0 /\ (i + 1) - 1 = i
    BY <1>1, <2>1
  <2>3. found[i] \in S /\ s[i + 1] \in ToSet(s)
    BY <1>1, <2>2
  <2>4. Append(found[i], s[i + 1]) \in S
    BY <2>3
  <2>5. found[i + 1] = IF s[i + 1] \in K THEN found[i] ELSE Append(found[i], s[i + 1])
    BY <1>7, <2>1, <2>2
  <2> QED BY <2>3, <2>4, <2>5
<1>10. Q = Nat
  <2>1. Q \subseteq Nat
    OBVIOUS
  <2> HIDE DEF Q
  <2> QED BY <1>8, <1>9, <2>1, Loops!Induction
<1> QED BY <1>1, <1>6, <1>10

\* What is requested was listed.
LEMMA WantedFacts ==
  ASSUME NEW K, NEW A, NEW s \in Seq(A)
  PROVE  /\ Len(Wanted(K, s)) \in Nat
         /\ \A i \in 1..Len(Wanted(K, s)) : Wanted(K, s)[i] \in ToSet(s)
<1>1. PICK u : u = Unknown(K, s)
  OBVIOUS
<1>2. u \in Seq(ToSet(s)) /\ Len(u) \in Nat /\ FetchLimit \in Nat
  BY <1>1, UnknownFacts, SyncAssumption
<1>3. PICK k, c : k = Min({FetchLimit, c}) /\ c = Len(u)
  OBVIOUS
<1>4. k \in 0..Len(u)
  <2>1. k = CHOOSE x \in {FetchLimit, c} : \A y \in {FetchLimit, c} : x <= y
    BY <1>3 DEF Min
  <2>2. \E x \in {FetchLimit, c} : \A y \in {FetchLimit, c} : x <= y
    BY ONLY <1>2, <1>3
  <2>3. k \in {FetchLimit, c} /\ \A y \in {FetchLimit, c} : k <= y
    BY ONLY <2>1, <2>2
  <2> QED BY ONLY <1>2, <1>3, <2>3
<1>5. Wanted(K, s) = SubSeq(u, 1, k)
  BY <1>1, <1>3 DEF Wanted
<1>6. /\ SubSeq(u, 1, k) \in Seq(ToSet(s)) /\ Len(SubSeq(u, 1, k)) = k
      /\ \A i \in 1..k : SubSeq(u, 1, k)[i] = u[i] /\ u[i] \in ToSet(s)
  BY ONLY <1>2, <1>4
<1>7. k \in Nat
  BY ONLY <1>2, <1>4
<1> QED BY ONLY <1>5, <1>6, <1>7

-----------------------------------------------------------------------------
(* The handlers.                                                           *)

SyncInv == TablesInv /\ StreamsInv

\* What a handler has read.
LEMMA ReadFacts ==
  ASSUME StreamsInv, NEW n \in Peer, NEW p \in Peer, n # p, NEW type, Reads(n, p, type)
  PROVE  /\ chan[<<p, n>>] # << >> /\ recent[<<n, p>>] < RateLimit
         /\ Incoming(n, p) \in SyncMessage /\ Incoming(n, p).type = type
         /\ Answerable(known, <<p, n>>, Incoming(n, p))
<1>1. /\ chan[<<p, n>>] # << >> /\ recent[<<n, p>>] < RateLimit
      /\ Incoming(n, p).type = type /\ Incoming(n, p) = Head(chan[<<p, n>>])
  BY DEF Reads, Incoming
<1>2. <<p, n>> \in Pairs
  BY PairFacts
<1>3. PICK K, l, s : K = known /\ l = <<p, n>> /\ s = chan[<<p, n>>]
  OBVIOUS
<1>4. Carries(K, l, s)
  BY <1>2, <1>3 DEF StreamsInv
<1>5. s # << >>
  BY <1>1, <1>3
<1>6. Head(s) \in SyncMessage /\ Answerable(K, l, Head(s))
  BY ONLY <1>4, <1>5, CarriesTail
<1> QED BY <1>1, <1>3, <1>6

LEMMA ListFacts ==
  ASSUME NEW m \in SyncMessage, NEW K, NEW p, NEW n, Answerable(K, <<p, n>>, m)
  PROVE  /\ m.type = "getheaders" => /\ m.locator \in SUBSET Node
                                     /\ Genesis \in m.locator /\ m.locator \subseteq K[p]
         /\ m.type = "headers" => m.blocks \in Seq(Node) /\ ToSet(m.blocks) \subseteq K[p]
         /\ m.type \in {"block", "inv"} => m.block \in Node /\ m.block \in K[p]
         /\ m.type = "getblock" => m.block \in Node /\ m.block \in K[n]
<1>1. /\ m.type = "getheaders" => m.locator \in SUBSET Node
      /\ m.type = "headers" => m.blocks \in Seq(Node)
      /\ m.type \in {"getblock", "block", "inv"} => m.block \in Node
  BY DEF SyncMessage
<1>2. <<p, n>>[1] = p /\ <<p, n>>[2] = n
  OBVIOUS
<1>3. CASE m.type = "getheaders"
  BY <1>1, <1>2, <1>3 DEF Answerable
<1>4. CASE m.type = "headers"
  BY <1>1, <1>2, <1>4 DEF Answerable
<1>5. CASE m.type = "getblock"
  BY <1>1, <1>2, <1>5 DEF Answerable
<1>6. CASE m.type \notin {"getheaders", "headers", "getblock"}
  BY <1>1, <1>2, <1>6 DEF Answerable
<1> QED BY <1>3, <1>4, <1>5, <1>6

\* Messages that a node may write.
LEMMA WriteFacts ==
  ASSUME NEW K, NEW n, NEW q
  PROVE  /\ \A b \in Node :
              /\ b \in K[q] => /\ GetBlock(b) \in SyncMessage
                               /\ Answerable(K, <<n, q>>, GetBlock(b))
              /\ b \in K[n] => /\ BlockMsg(b) \in SyncMessage /\ Inv(b) \in SyncMessage
                               /\ Answerable(K, <<n, q>>, BlockMsg(b))
                               /\ Answerable(K, <<n, q>>, Inv(b))
         /\ \A s \in Seq(Node) : ToSet(s) \subseteq K[n] =>
              Headers(s) \in SyncMessage /\ Answerable(K, <<n, q>>, Headers(s))
         /\ \A S \in SUBSET Node : Genesis \in S /\ S \subseteq K[n] =>
              LET m == [type |-> "getheaders", locator |-> S]
              IN  m \in SyncMessage /\ Answerable(K, <<n, q>>, m)
<1>1. <<n, q>>[1] = n /\ <<n, q>>[2] = q
  OBVIOUS
<1>2. ASSUME NEW b \in Node, b \in K[q]
      PROVE  GetBlock(b) \in SyncMessage /\ Answerable(K, <<n, q>>, GetBlock(b))
  <2>1. GetBlock(b).type = "getblock" /\ GetBlock(b).block = b /\ GetBlock(b) \in SyncMessage
    BY DEF GetBlock, SyncMessage
  <2> HIDE DEF GetBlock
  <2> QED BY <1>1, <1>2, <2>1 DEF Answerable
<1>3. ASSUME NEW b \in Node, b \in K[n]
      PROVE  BlockMsg(b) \in SyncMessage /\ Answerable(K, <<n, q>>, BlockMsg(b))
  <2>1. BlockMsg(b).type = "block" /\ BlockMsg(b).block = b /\ BlockMsg(b) \in SyncMessage
    BY DEF BlockMsg, SyncMessage
  <2> HIDE DEF BlockMsg
  <2> QED BY <1>1, <1>3, <2>1 DEF Answerable
<1>4. ASSUME NEW b \in Node, b \in K[n]
      PROVE  Inv(b) \in SyncMessage /\ Answerable(K, <<n, q>>, Inv(b))
  <2>1. Inv(b).type = "inv" /\ Inv(b).block = b /\ Inv(b) \in SyncMessage
    BY DEF Inv, SyncMessage
  <2> HIDE DEF Inv
  <2> QED BY <1>1, <1>4, <2>1 DEF Answerable
<1>5. ASSUME NEW s \in Seq(Node), ToSet(s) \subseteq K[n]
      PROVE  Headers(s) \in SyncMessage /\ Answerable(K, <<n, q>>, Headers(s))
  <2>1. Headers(s).type = "headers" /\ Headers(s).blocks = s /\ Headers(s) \in SyncMessage
    BY DEF Headers, SyncMessage
  <2> HIDE DEF Headers
  <2> QED BY <1>1, <1>5, <2>1 DEF Answerable
<1>6. ASSUME NEW S \in SUBSET Node, Genesis \in S, S \subseteq K[n],
             NEW m, m = [type |-> "getheaders", locator |-> S]
      PROVE  m \in SyncMessage /\ Answerable(K, <<n, q>>, m)
  <2>1. m.type = "getheaders" /\ m.locator = S /\ m \in SyncMessage
    BY <1>6 DEF SyncMessage
  <2> QED BY <1>1, <1>6, <2>1 DEF Answerable
<1> QED BY <1>2, <1>3, <1>4, <1>5, <1>6

\* A node knows its chain, and its locator can be written to anyone.
LEMMA ChainKnown ==
  ASSUME NEW K \in [Peer -> SUBSET Node], NEW n \in Peer, NEW tip \in K[n],
         \A b \in K[n] \ {Genesis} : ParentOf[b] \in K[n]
  PROVE  /\ tip \in Node /\ Path[tip] \subseteq K[n]
         /\ \A q : Carries(K, <<n, q>>, <<[type |-> "getheaders", locator |-> Locator(tip)]>>)
<1>1. K[n] \in SUBSET Node /\ tip \in Node
  OBVIOUS
<1>2. Path[tip] \subseteq K[n]
  BY <1>1, ClosedPaths
<1>3. PICK S : S = Locator(tip)
  OBVIOUS
<1>4. S \in SUBSET Node /\ Genesis \in S /\ S \subseteq K[n]
  BY <1>1, <1>2, <1>3, LocatorFacts
<1>5. ASSUME NEW q, NEW m, m = [type |-> "getheaders", locator |-> S]
      PROVE  Carries(K, <<n, q>>, <<m>>)
  <2>1. m \in SyncMessage /\ Answerable(K, <<n, q>>, m)
    BY <1>4, <1>5, WriteFacts
  <2> QED BY <2>1, CarriesOne
<1> QED BY <1>1, <1>2, <1>3, <1>5

LEMMA GetHeadersKeeps ==
  ASSUME SyncInv, NEW n \in Peer, NEW p \in Peer, n # p, HandleGetHeaders(n, p)
  PROVE  SyncInv'
<1>1. TablesInv /\ StreamsInv
  BY DEF SyncInv
<1>2. PICK m, K, tip : m = Incoming(n, p) /\ K = known /\ tip = best[n]
  OBVIOUS
<1>3. /\ chan[<<p, n>>] # << >> /\ recent[<<n, p>>] < RateLimit
      /\ m.locator \in SUBSET Node /\ Genesis \in m.locator
  <2>1. Reads(n, p, "getheaders")
    BY DEF HandleGetHeaders
  <2>2. /\ chan[<<p, n>>] # << >> /\ recent[<<n, p>>] < RateLimit
        /\ m \in SyncMessage /\ m.type = "getheaders" /\ Answerable(K, <<p, n>>, m)
    BY <1>1, <1>2, <2>1, ReadFacts
  <2> QED BY <2>2, ListFacts
<1>4. /\ K \in [Peer -> SUBSET Node] /\ tip \in K[n]
      /\ \A b \in K[n] \ {Genesis} : ParentOf[b] \in K[n]
  BY <1>1, <1>2 DEF TablesInv
<1>5. PICK s : s = HeadersAfter(tip, m.locator)
  OBVIOUS
<1>6. s \in Seq(Node) /\ ToSet(s) \subseteq K[n]
  <2>1. tip \in Node /\ Path[tip] \subseteq K[n]
    BY ONLY <1>4, ChainKnown
  <2>2. s \in Seq(Path[tip]) /\ ToSet(s) \subseteq Path[tip]
    BY <1>3, <1>5, <2>1, HeadersFacts
  <2>3. s \in Seq(Node)
    <3>1. Path[tip] \subseteq Node
      BY <2>1, SyncPathUnfold
    <3> QED BY ONLY <2>2, <3>1
  <2> QED BY ONLY <2>1, <2>2, <2>3
<1>7. /\ Handled(n, p, <<Headers(s)>>, << >>)
      /\ known' = known /\ orphans' = orphans /\ best' = best /\ late' = late
  BY <1>2, <1>5 DEF HandleGetHeaders, Handled
<1>8. Carries(K, <<n, p>>, <<Headers(s)>>)
  BY <1>6, WriteFacts, CarriesOne
<1>9. KnownGrows /\ K = known'
  BY <1>2, <1>7 DEF KnownGrows
<1>10. StreamsInv'
  <2>1. \A q \in Peer \ {n} : Carries(K, <<n, q>>, << >>)
    BY CarriesNothing
  <2>2. PICK reply : reply = <<Headers(s)>>
    OBVIOUS
  <2> QED BY <1>1, <1>3, <1>7, <1>8, <1>9, <2>1, <2>2, HandledKeeps
<1>11. TablesInv'
  BY <1>1, <1>7, TablesStutter DEF TablesInv
<1> QED BY <1>10, <1>11 DEF SyncInv

LEMMA HeadersKeep ==
  ASSUME SyncInv, NEW n \in Peer, NEW p \in Peer, n # p, HandleHeaders(n, p)
  PROVE  SyncInv'
<1>1. TablesInv /\ StreamsInv
  BY DEF SyncInv
<1>2. PICK m, K : m = Incoming(n, p) /\ K = known
  OBVIOUS
<1>3. /\ chan[<<p, n>>] # << >> /\ recent[<<n, p>>] < RateLimit
      /\ m.blocks \in Seq(Node) /\ ToSet(m.blocks) \subseteq K[p]
  <2>1. Reads(n, p, "headers")
    BY DEF HandleHeaders
  <2>2. /\ chan[<<p, n>>] # << >> /\ recent[<<n, p>>] < RateLimit
        /\ m \in SyncMessage /\ m.type = "headers" /\ Answerable(K, <<p, n>>, m)
    BY <1>1, <1>2, <2>1, ReadFacts
  <2> QED BY <2>2, ListFacts
<1>4. PICK w, r : w = Wanted(K[n], m.blocks) /\ r = [i \in 1..Len(w) |-> GetBlock(w[i])]
  OBVIOUS
<1>5. Len(w) \in Nat /\ \A i \in 1..Len(w) : w[i] \in ToSet(m.blocks)
  BY <1>3, <1>4, WantedFacts
<1>6. ASSUME NEW i \in 1..Len(w)
      PROVE  r[i] \in SyncMessage /\ Answerable(K, <<n, p>>, r[i])
  <2>1. w[i] \in Node /\ w[i] \in K[p]
    BY <1>3, <1>5 DEF ToSet
  <2>2. r[i] = GetBlock(w[i])
    BY <1>4
  <2> QED BY <2>1, <2>2, WriteFacts
<1>7. r \in Seq(SyncMessage) /\ Len(r) = Len(w)
  <2>1. r \in [1..Len(w) -> SyncMessage] /\ DOMAIN r = 1..Len(w)
    BY <1>4, <1>6
  <2> QED BY ONLY <1>5, <2>1
<1>8. Carries(K, <<n, p>>, r)
  BY ONLY <1>6, <1>7 DEF Carries
<1>9. /\ Handled(n, p, r, << >>)
      /\ known' = known /\ orphans' = orphans /\ best' = best /\ late' = late
  BY <1>2, <1>4 DEF HandleHeaders, Handled
<1>10. KnownGrows /\ K = known'
  BY <1>2, <1>9 DEF KnownGrows
<1>11. StreamsInv'
  <2>1. \A q \in Peer \ {n} : Carries(K, <<n, q>>, << >>)
    BY CarriesNothing
  <2> QED BY <1>1, <1>3, <1>8, <1>9, <1>10, <2>1, HandledKeeps
<1>12. TablesInv'
  BY <1>1, <1>9, TablesStutter DEF TablesInv
<1> QED BY <1>11, <1>12 DEF SyncInv

LEMMA GetBlockKeeps ==
  ASSUME SyncInv, NEW n \in Peer, NEW p \in Peer, n # p, HandleGetBlock(n, p)
  PROVE  SyncInv'
<1>1. TablesInv /\ StreamsInv
  BY DEF SyncInv
<1>2. PICK m, K : m = Incoming(n, p) /\ K = known
  OBVIOUS
<1>3. chan[<<p, n>>] # << >> /\ recent[<<n, p>>] < RateLimit /\ m.block \in Node
  <2>1. Reads(n, p, "getblock")
    BY DEF HandleGetBlock
  <2>2. /\ chan[<<p, n>>] # << >> /\ recent[<<n, p>>] < RateLimit
        /\ m \in SyncMessage /\ m.type = "getblock" /\ Answerable(K, <<p, n>>, m)
    BY <1>1, <1>2, <2>1, ReadFacts
  <2> QED BY <2>2, ListFacts
<1>4. PICK r : r = IF m.block \in K[n] THEN <<BlockMsg(m.block)>> ELSE << >>
  OBVIOUS
<1>5. Carries(K, <<n, p>>, r)
  <2>1. CASE m.block \in K[n]
    <3>1. Carries(K, <<n, p>>, <<BlockMsg(m.block)>>)
      BY <1>3, <2>1, WriteFacts, CarriesOne
    <3> QED BY <1>4, <2>1, <3>1
  <2>2. CASE m.block \notin K[n]
    BY <1>4, <2>2, CarriesNothing
  <2> QED BY <2>1, <2>2
<1>6. /\ Handled(n, p, r, << >>)
      /\ known' = known /\ orphans' = orphans /\ best' = best /\ late' = late
  BY <1>2, <1>4 DEF HandleGetBlock, Handled
<1>7. KnownGrows /\ K = known'
  BY <1>2, <1>6 DEF KnownGrows
<1>8. StreamsInv'
  <2>1. \A q \in Peer \ {n} : Carries(K, <<n, q>>, << >>)
    BY CarriesNothing
  <2> QED BY <1>1, <1>3, <1>5, <1>6, <1>7, <2>1, HandledKeeps
<1>9. TablesInv'
  BY <1>1, <1>6, TablesStutter DEF TablesInv
<1> QED BY <1>8, <1>9 DEF SyncInv

LEMMA InvKeeps ==
  ASSUME SyncInv, NEW n \in Peer, NEW p \in Peer, n # p, HandleInv(n, p)
  PROVE  SyncInv'
<1>1. TablesInv /\ StreamsInv
  BY DEF SyncInv
<1>2. PICK m, K : m = Incoming(n, p) /\ K = known
  OBVIOUS
<1>3. /\ chan[<<p, n>>] # << >> /\ recent[<<n, p>>] < RateLimit
      /\ m.block \in Node /\ m.block \in K[p]
  <2>1. Reads(n, p, "inv")
    BY DEF HandleInv
  <2>2. /\ chan[<<p, n>>] # << >> /\ recent[<<n, p>>] < RateLimit
        /\ m \in SyncMessage /\ m.type = "inv" /\ Answerable(K, <<p, n>>, m)
    BY <1>1, <1>2, <2>1, ReadFacts
  <2> QED BY <2>2, ListFacts
<1>4. PICK r : r = IF m.block \in K[n] THEN << >> ELSE <<GetBlock(m.block)>>
  OBVIOUS
<1>5. Carries(K, <<n, p>>, r)
  <2>1. Carries(K, <<n, p>>, <<GetBlock(m.block)>>)
    BY <1>3, WriteFacts, CarriesOne
  <2> QED BY <1>4, <2>1, CarriesNothing
<1>6. /\ Handled(n, p, r, << >>)
      /\ known' = known /\ orphans' = orphans /\ best' = best /\ late' = late
  BY <1>2, <1>4 DEF HandleInv, Handled
<1>7. KnownGrows /\ K = known'
  BY <1>2, <1>6 DEF KnownGrows
<1>8. StreamsInv'
  <2>1. \A q \in Peer \ {n} : Carries(K, <<n, q>>, << >>)
    BY CarriesNothing
  <2> QED BY <1>1, <1>3, <1>5, <1>6, <1>7, <2>1, HandledKeeps
<1>9. TablesInv'
  BY <1>1, <1>6, TablesStutter DEF TablesInv
<1> QED BY <1>8, <1>9 DEF SyncInv

\* A tip moves only to a heavier block, and what is known stays known.
TipsGrow ==
  \A n \in Peer : best'[n] = best[n] \/ Work[best'[n]] > Work[best[n]]

LEMMA NewBlockKeeps ==
  ASSUME SyncInv, NEW n \in Peer, NEW p \in Peer, n # p, HandleNewBlock(n, p)
  PROVE  SyncInv' /\ KnownGrows /\ TipsGrow
<1>1. TablesInv /\ StreamsInv
  BY DEF SyncInv
<1>2. PICK m, b : m = Incoming(n, p) /\ b = m.block
  OBVIOUS
<1>3. PICK r : r = <<[type |-> "getheaders", locator |-> Locator(best'[n])]>>
  OBVIOUS
<1>4. /\ Reads(n, p, "block") /\ b \notin known[n] /\ ParentOf[b] \in known[n]
      /\ Accept(n, b) /\ Handled(n, p, r, <<Inv(b)>>)
  BY <1>2, <1>3 DEF HandleNewBlock
<1>5. /\ chan[<<p, n>>] # << >> /\ recent[<<n, p>>] < RateLimit /\ b \in Node
  <2>1. PICK K : K = known
    OBVIOUS
  <2>2. /\ chan[<<p, n>>] # << >> /\ recent[<<n, p>>] < RateLimit
        /\ m \in SyncMessage /\ m.type = "block" /\ Answerable(K, <<p, n>>, m)
    BY <1>1, <1>2, <1>4, <2>1, ReadFacts
  <2>3. m.block \in Node
    BY <2>2, ListFacts
  <2> QED BY <1>2, <2>2, <2>3
<1>6. b \in PowBlock
  <2>1. Genesis \in known[n]
    BY <1>1 DEF TablesInv
  <2> QED BY <1>4, <1>5, <2>1 DEF Node
<1>7. late' = late
  BY <1>4 DEF Handled
<1>8. /\ TablesInv' /\ KnownGrows /\ b \in known'[n] /\ best'[n] \in known'[n]
      /\ (best'[n] = best[n] \/ Work[best'[n]] > Work[best[n]])
      /\ \A o \in Peer \ {n} : best'[o] = best[o]
  BY <1>1, <1>4, <1>6, <1>7, AcceptKeeps
<1>9. PICK K, tip : K = known' /\ tip = best'[n]
  OBVIOUS
<1>10. /\ K \in [Peer -> SUBSET Node] /\ tip \in K[n] /\ b \in K[n]
       /\ \A c \in K[n] \ {Genesis} : ParentOf[c] \in K[n]
  BY <1>8, <1>9 DEF TablesInv
<1>11. Carries(K, <<n, p>>, r)
  BY <1>3, <1>9, <1>10, ChainKnown
<1>12. \A q \in Peer \ {n} : Carries(K, <<n, q>>, <<Inv(b)>>)
  BY <1>5, <1>10, WriteFacts, CarriesOne
<1>13. PICK news : news = <<Inv(b)>>
  OBVIOUS
<1>14. StreamsInv'
  BY <1>1, <1>4, <1>5, <1>8, <1>9, <1>11, <1>12, <1>13, HandledKeeps
<1>15. TipsGrow
  BY <1>8 DEF TipsGrow
<1> QED BY <1>8, <1>14, <1>15 DEF SyncInv

LEMMA OldBlockKeeps ==
  ASSUME SyncInv, NEW n \in Peer, NEW p \in Peer, n # p, HandleOldBlock(n, p)
  PROVE  SyncInv'
<1>1. TablesInv /\ StreamsInv
  BY DEF SyncInv
<1>2. PICK m, b, K : m = Incoming(n, p) /\ b = m.block /\ K = known
  OBVIOUS
<1>3. /\ Reads(n, p, "block") /\ (b \in known[n] \/ ParentOf[b] \notin known[n])
      /\ orphans' = [orphans EXCEPT ![n] = IF b \in known[n] THEN @ ELSE @ \cup {b}]
      /\ Handled(n, p, << >>, << >>) /\ known' = known /\ best' = best /\ late' = late
  BY <1>2 DEF HandleOldBlock, Handled
<1>4. /\ chan[<<p, n>>] # << >> /\ recent[<<n, p>>] < RateLimit /\ b \in Node
  <2>1. /\ chan[<<p, n>>] # << >> /\ recent[<<n, p>>] < RateLimit
        /\ m \in SyncMessage /\ m.type = "block" /\ Answerable(K, <<p, n>>, m)
    BY <1>1, <1>2, <1>3, ReadFacts
  <2>2. m.block \in Node
    BY <2>1, ListFacts
  <2> QED BY <1>2, <2>1, <2>2
<1>5. TablesInv'
  BY <1>1, <1>3, <1>4, OrphanKeeps
<1>6. KnownGrows /\ K = known'
  BY <1>2, <1>3 DEF KnownGrows
<1>7. StreamsInv'
  <2>1. Carries(K, <<n, p>>, << >>) /\ \A q \in Peer \ {n} : Carries(K, <<n, q>>, << >>)
    BY CarriesNothing
  <2>2. PICK none : none = << >>
    OBVIOUS
  <2> QED BY <1>1, <1>3, <1>4, <1>6, <2>1, <2>2, HandledKeeps
<1> QED BY <1>5, <1>7 DEF SyncInv

\* A session is closed by the rate limit, by a refused block or by the network.
LEMMA ClosingKeeps ==
  ASSUME SyncInv, NEW n \in Peer, NEW p \in Peer, n # p,
         ExceedRate(n, p) \/ RefuseBlock(n, p) \/ Drop(n, p)
  PROVE  SyncInv' /\ known' = known /\ best' = best
<1>1. TablesInv /\ StreamsInv
  BY DEF SyncInv
<1>2. /\ Closed(n, p) /\ late' = late
      /\ known' = known /\ best' = best /\ orphans' = orphans
  BY DEF ExceedRate, RefuseBlock, Drop, Closed
<1>3. drops' \in 0..MaxDrops
  <2>1. drops' = drops \/ (drops < MaxDrops /\ drops' = drops + 1)
    BY DEF ExceedRate, RefuseBlock, Drop
  <2>2. drops \in 0..MaxDrops /\ MaxDrops \in Nat
    BY <1>1, SyncAssumption DEF StreamsInv
  <2> QED BY ONLY <2>1, <2>2
<1>4. StreamsInv'
  BY <1>1, <1>2, <1>3, ClosedKeeps
<1>5. TablesInv'
  BY <1>1, <1>2, TablesStutter DEF TablesInv
<1> QED BY <1>2, <1>4, <1>5 DEF SyncInv

\* Both sides of a new session ask for headers.
LEMMA ConnectKeeps ==
  ASSUME SyncInv, NEW n \in Peer, NEW p \in Peer, n # p, Connect(n, p)
  PROVE  SyncInv' /\ known' = known /\ best' = best
<1>1. TablesInv /\ StreamsInv
  BY DEF SyncInv
<1>2. <<n, p>> \in Pairs /\ <<p, n>> \in Pairs /\ <<n, p>> # <<p, n>>
  BY PairFacts
<1>3. /\ linked' = linked \cup {<<n, p>>, <<p, n>>}
      /\ chan' = [chan EXCEPT ![<<n, p>>] = <<GetHeaders(n)>>, ![<<p, n>>] = <<GetHeaders(p)>>]
      /\ known' = known /\ orphans' = orphans /\ best' = best /\ late' = late
      /\ recent' = recent /\ drops' = drops
  BY DEF Connect
<1>4. PICK K, s, u : K = known /\ s = <<GetHeaders(n)>> /\ u = <<GetHeaders(p)>>
  OBVIOUS
<1>5. ASSUME NEW x \in Peer, NEW q PROVE Carries(K, <<x, q>>, <<GetHeaders(x)>>)
  <2>1. PICK tip : tip = best[x]
    OBVIOUS
  <2>2. /\ K \in [Peer -> SUBSET Node] /\ tip \in K[x]
        /\ \A b \in K[x] \ {Genesis} : ParentOf[b] \in K[x]
    BY <1>1, <1>4, <2>1 DEF TablesInv
  <2>3. Carries(K, <<x, q>>, <<[type |-> "getheaders", locator |-> Locator(tip)]>>)
    BY ONLY <2>2, x \in Peer, ChainKnown
  <2>4. GetHeaders(x) = [type |-> "getheaders", locator |-> Locator(tip)]
    BY <2>1 DEF GetHeaders
  <2> QED BY ONLY <2>3, <2>4
<1>6. Carries(K, <<n, p>>, s) /\ Carries(K, <<p, n>>, u)
  BY <1>4, <1>5
<1>7. /\ DOMAIN chan = Pairs /\ chan = [l \in Pairs |-> chan[l]]
      /\ linked \subseteq Pairs /\ \A l \in linked : <<l[2], l[1]>> \in linked
  BY <1>1 DEF StreamsInv
<1>8. /\ DOMAIN chan' = Pairs /\ chan' = [l \in Pairs |-> chan'[l]]
      /\ chan'[<<n, p>>] = s /\ chan'[<<p, n>>] = u
      /\ \A l \in Pairs \ {<<n, p>>, <<p, n>>} : chan'[l] = chan[l]
  BY <1>2, <1>3, <1>4, <1>7
<1>9. /\ linked' \subseteq Pairs /\ \A l \in linked' : <<l[2], l[1]>> \in linked'
      /\ linked \subseteq linked' /\ <<n, p>> \in linked' /\ <<p, n>> \in linked'
  BY <1>2, <1>3, <1>7
<1>10. KnownGrows /\ K = known'
  BY <1>3, <1>4 DEF KnownGrows
<1>11. \A l \in Pairs : chan'[l] = chan[l] \/ (l \in linked' /\ Carries(known', l, chan'[l]))
  BY <1>6, <1>8, <1>9, <1>10
<1>12. StreamsInv'
  BY <1>1, <1>3, <1>8, <1>9, <1>10, <1>11, WrittenKeeps
<1>13. TablesInv'
  BY <1>1, <1>3, TablesStutter DEF TablesInv
<1> QED BY <1>3, <1>12, <1>13 DEF SyncInv

LEMMA PollKeeps ==
  ASSUME SyncInv, NEW n \in Peer, NEW p \in Peer, n # p, Poll(n, p)
  PROVE  SyncInv' /\ known' = known /\ best' = best
<1>1. TablesInv /\ StreamsInv
  BY DEF SyncInv
<1>2. <<n, p>> \in Pairs
  BY PairFacts
<1>3. /\ <<n, p>> \in linked
      /\ chan' = [chan EXCEPT ![<<n, p>>] = <<GetHeaders(n)>>]
      /\ known' = known /\ orphans' = orphans /\ best' = best /\ late' = late
      /\ linked' = linked /\ recent' = recent /\ drops' = drops
  BY DEF Poll
<1>4. PICK K, tip : K = known /\ tip = best[n]
  OBVIOUS
<1>5. Carries(K, <<n, p>>, <<GetHeaders(n)>>)
  <2>1. /\ K \in [Peer -> SUBSET Node] /\ tip \in K[n]
        /\ \A b \in K[n] \ {Genesis} : ParentOf[b] \in K[n]
    BY <1>1, <1>4 DEF TablesInv
  <2>2. Carries(K, <<n, p>>, <<[type |-> "getheaders", locator |-> Locator(tip)]>>)
    BY ONLY <2>1, n \in Peer, ChainKnown
  <2>3. GetHeaders(n) = [type |-> "getheaders", locator |-> Locator(tip)]
    BY <1>4 DEF GetHeaders
  <2> QED BY ONLY <2>2, <2>3
<1>6. /\ DOMAIN chan = Pairs /\ chan = [l \in Pairs |-> chan[l]]
      /\ linked \subseteq Pairs /\ \A l \in linked : <<l[2], l[1]>> \in linked
  BY <1>1 DEF StreamsInv
<1>7. /\ DOMAIN chan' = Pairs /\ chan' = [l \in Pairs |-> chan'[l]]
      /\ chan'[<<n, p>>] = <<GetHeaders(n)>>
      /\ \A l \in Pairs \ {<<n, p>>} : chan'[l] = chan[l]
  BY <1>2, <1>3, <1>6
<1>8. KnownGrows /\ K = known'
  BY <1>3, <1>4 DEF KnownGrows
<1>9. \A l \in Pairs : chan'[l] = chan[l] \/ (l \in linked' /\ Carries(known', l, chan'[l]))
  BY <1>3, <1>5, <1>7, <1>8
<1>10. StreamsInv'
  BY <1>1, <1>3, <1>6, <1>7, <1>8, <1>9, WrittenKeeps
<1>11. TablesInv'
  BY <1>1, <1>3, TablesStutter DEF TablesInv
<1> QED BY <1>3, <1>10, <1>11 DEF SyncInv

\* A miner's block is announced to everyone.
LEMMA MineKeeps ==
  ASSUME SyncInv, NEW n \in Peer, MineBlock(n)
  PROVE  SyncInv' /\ KnownGrows /\ TipsGrow
<1>1. TablesInv /\ StreamsInv
  BY DEF SyncInv
<1>2. PICK b \in PowBlock \ known[n] :
        /\ ParentOf[b] = best[n] /\ Accept(n, b)
        /\ chan' = [l \in Pairs |-> IF l[1] = n /\ l[2] \in Others(n)
                                    THEN Append(chan[l], Inv(b)) ELSE chan[l]]
        /\ late' = late /\ linked' = linked /\ recent' = recent /\ drops' = drops
  BY DEF MineBlock
<1>3. /\ TablesInv' /\ KnownGrows /\ b \in known'[n]
      /\ (best'[n] = best[n] \/ Work[best'[n]] > Work[best[n]])
      /\ \A o \in Peer \ {n} : best'[o] = best[o]
  <2>1. ParentOf[b] \in known[n]
    BY <1>1, <1>2 DEF TablesInv
  <2> QED BY <1>1, <1>2, <2>1, AcceptKeeps
<1>4. PICK K, W, i : K = known /\ W = known' /\ i = Inv(b)
  OBVIOUS
<1>5. \A x \in Peer : K[x] \subseteq W[x]
  BY <1>3, <1>4 DEF KnownGrows
<1>6. ASSUME NEW l \in Pairs
      PROVE  chan'[l] = chan[l] \/ (l \in linked' /\ Carries(known', l, chan'[l]))
  <2>1. PICK s : s = chan[l]
    OBVIOUS
  <2>2. CASE l[1] = n /\ l[2] \in Others(n)
    <3>1. chan'[l] = Append(s, i) /\ l = <<n, l[2]>> /\ l \in linked'
      BY <1>2, <1>4, <2>1, <2>2 DEF Pairs, Others
    <3>2. Carries(K, l, s)
      BY <1>1, <1>4, <2>1 DEF StreamsInv
    <3>3. Carries(W, l, s)
      BY ONLY <1>5, <3>2, l \in Pairs, CarriesOn
    <3>4. i \in SyncMessage /\ Answerable(W, l, i)
      <4>1. b \in Node /\ b \in W[n]
        BY <1>3, <1>4, MinedFacts
      <4>2. i \in SyncMessage /\ Answerable(W, <<n, l[2]>>, i)
        BY <1>4, <4>1, WriteFacts
      <4> QED BY ONLY <3>1, <4>2
    <3>5. Carries(W, l, s \o <<i>>)
      BY ONLY <3>3, <3>4, CarriesOne, CarriesBoth
    <3>6. Append(s, i) = s \o <<i>>
      <4>1. s \in Seq(SyncMessage)
        BY ONLY <3>3 DEF Carries
      <4> QED BY ONLY <3>4, <4>1
    <3> QED BY <1>4, <3>1, <3>5, <3>6
  <2>3. CASE ~(l[1] = n /\ l[2] \in Others(n))
    BY <1>2, <2>3
  <2> QED BY <2>2, <2>3
<1>7. /\ linked' \subseteq Pairs /\ \A l \in linked' : <<l[2], l[1]>> \in linked'
      /\ linked \subseteq linked' /\ DOMAIN chan' = Pairs /\ chan' = [l \in Pairs |-> chan'[l]]
  BY <1>1, <1>2 DEF StreamsInv
<1>8. StreamsInv'
  BY <1>1, <1>2, <1>3, <1>6, <1>7, WrittenKeeps
<1>9. TipsGrow
  BY <1>3 DEF TipsGrow
<1> QED BY <1>3, <1>8, <1>9 DEF SyncInv

\* Time passes.
LEMMA SecondKeeps ==
  ASSUME SyncInv, Second PROVE SyncInv' /\ known' = known /\ best' = best
<1>1. TablesInv /\ StreamsInv
  BY DEF SyncInv
<1>2. /\ recent' = [l \in Pairs |-> 0]
      /\ known' = known /\ orphans' = orphans /\ best' = best /\ late' = late
      /\ linked' = linked /\ chan' = chan /\ drops' = drops
  BY DEF Second
<1>3. recent' \in [Pairs -> 0..RateLimit]
  <2>1. 0 \in 0..RateLimit
    BY SyncAssumption
  <2> QED BY <1>2, <2>1
<1>4. StreamsInv'
  BY <1>1, <1>2, <1>3 DEF StreamsInv
<1>5. TablesInv'
  BY <1>1, <1>2, TablesStutter DEF TablesInv
<1> QED BY <1>2, <1>4, <1>5 DEF SyncInv

LEMMA ClockKeeps ==
  ASSUME SyncInv, NEW n \in Peer, ClockAdvances(n) PROVE SyncInv' /\ known' = known /\ best' = best
<1>1. TablesInv /\ StreamsInv
  BY DEF SyncInv
<1>2. /\ late' = [late EXCEPT ![n] = {}]
      /\ known' = known /\ orphans' = orphans /\ best' = best
      /\ linked' = linked /\ chan' = chan /\ recent' = recent /\ drops' = drops
  BY DEF ClockAdvances
<1>3. late' \in [Peer -> SUBSET PowBlock]
  BY <1>1, <1>2 DEF TablesInv
<1>4. StreamsInv'
  BY <1>1, <1>2 DEF StreamsInv
<1>5. TablesInv'
  BY <1>1, <1>2, <1>3, TablesStutter
<1> QED BY <1>2, <1>4, <1>5 DEF SyncInv

LEMMA SyncInvHolds == SyncInit => SyncInv
<1> SUFFICES ASSUME SyncInit PROVE SyncInv
  OBVIOUS
<1>1. /\ known = [n \in Peer |-> {Genesis}] /\ orphans = [n \in Peer |-> {}]
      /\ best = [n \in Peer |-> Genesis] /\ late = Late
      /\ linked = {} /\ chan = [l \in Pairs |-> << >>] /\ recent = [l \in Pairs |-> 0]
      /\ drops = 0
  BY DEF SyncInit
<1>2. Late \in [Peer -> SUBSET PowBlock] /\ RateLimit \in Nat /\ MaxDrops \in Nat
  BY SyncAssumption
<1>3. Genesis \in Node /\ Work[Genesis] = 0
  BY SyncWorkUnfold DEF Node
<1>4. TablesInv
  BY <1>1, <1>2, <1>3 DEF TablesInv
<1>5. StreamsInv
  <2>1. \A l \in Pairs : chan[l] = << >> /\ Carries(known, l, chan[l])
    BY <1>1, CarriesNothing
  <2>2. recent \in [Pairs -> 0..RateLimit] /\ drops \in 0..MaxDrops
    BY <1>1, <1>2
  <2>3. DOMAIN chan = Pairs /\ chan = [l \in Pairs |-> chan[l]]
    BY <1>1
  <2> QED BY <1>1, <2>1, <2>2, <2>3 DEF StreamsInv
<1> QED BY <1>4, <1>5 DEF SyncInv

LEMMA SyncStep == SyncInv /\ [SyncNext]_syncVars => SyncInv' /\ KnownGrows /\ TipsGrow
<1> SUFFICES ASSUME SyncInv, [SyncNext]_syncVars PROVE SyncInv' /\ KnownGrows /\ TipsGrow
  OBVIOUS
<1>1. known' = known /\ best' = best => KnownGrows /\ TipsGrow
  BY DEF KnownGrows, TipsGrow
<1>2. ASSUME NEW n \in Peer, NEW p \in Peer, n # p, PeerLoop(n, p) \/ Maintenance(n, p) \/ Drop(n, p)
      PROVE  SyncInv' /\ KnownGrows /\ TipsGrow
  <2>1. CASE ExceedRate(n, p) \/ RefuseBlock(n, p) \/ Drop(n, p)
    BY <1>1, <1>2, <2>1, ClosingKeeps
  <2>2. CASE HandleGetHeaders(n, p)
    <3>1. known' = known /\ best' = best
      BY <2>2 DEF HandleGetHeaders
    <3> QED BY <1>1, <1>2, <2>2, <3>1, GetHeadersKeeps
  <2>3. CASE HandleHeaders(n, p)
    <3>1. known' = known /\ best' = best
      BY <2>3 DEF HandleHeaders
    <3> QED BY <1>1, <1>2, <2>3, <3>1, HeadersKeep
  <2>4. CASE HandleGetBlock(n, p)
    <3>1. known' = known /\ best' = best
      BY <2>4 DEF HandleGetBlock
    <3> QED BY <1>1, <1>2, <2>4, <3>1, GetBlockKeeps
  <2>5. CASE HandleNewBlock(n, p)
    BY <1>2, <2>5, NewBlockKeeps
  <2>6. CASE HandleOldBlock(n, p)
    <3>1. known' = known /\ best' = best
      BY <2>6 DEF HandleOldBlock
    <3> QED BY <1>1, <1>2, <2>6, <3>1, OldBlockKeeps
  <2>7. CASE HandleInv(n, p)
    <3>1. known' = known /\ best' = best
      BY <2>7 DEF HandleInv
    <3> QED BY <1>1, <1>2, <2>7, <3>1, InvKeeps
  <2>8. CASE Connect(n, p)
    BY <1>1, <1>2, <2>8, ConnectKeeps
  <2>9. CASE Poll(n, p)
    BY <1>1, <1>2, <2>9, PollKeeps
  <2> QED BY <1>2, <2>1, <2>2, <2>3, <2>4, <2>5, <2>6, <2>7, <2>8, <2>9
          DEF PeerLoop, Maintenance
<1>3. ASSUME NEW n \in Peer, MineBlock(n) PROVE SyncInv' /\ KnownGrows /\ TipsGrow
  BY <1>3, MineKeeps
<1>4. ASSUME NEW n \in Peer, ClockAdvances(n) PROVE SyncInv' /\ KnownGrows /\ TipsGrow
  BY <1>1, <1>4, ClockKeeps
<1>5. CASE Second
  BY <1>1, <1>5, SecondKeeps
<1>6. CASE UNCHANGED syncVars
  <2>1. UNCHANGED <<known, orphans, best, late, linked, chan, recent, drops>>
    BY <1>6 DEF syncVars
  <2>2. TablesInv' /\ StreamsInv'
    BY <2>1 DEF SyncInv, TablesInv, StreamsInv
  <2> QED BY <1>1, <2>1, <2>2 DEF SyncInv
<1> QED BY <1>2, <1>3, <1>4, <1>5, <1>6 DEF SyncNext

LEMMA SyncInvTypes == SyncInv => SyncTypeOK
<1> SUFFICES ASSUME SyncInv PROVE SyncTypeOK
  OBVIOUS
<1>1. TablesInv /\ StreamsInv
  BY DEF SyncInv
<1>2. ASSUME NEW n \in Peer PROVE best[n] \in known[n] /\ Chain(n) \subseteq known[n]
  <2>1. PICK K, tip : K = known /\ tip = best[n]
    OBVIOUS
  <2>2. /\ K \in [Peer -> SUBSET Node] /\ tip \in K[n]
        /\ \A b \in K[n] \ {Genesis} : ParentOf[b] \in K[n]
    BY <1>1, <2>1 DEF TablesInv
  <2>3. Path[tip] \subseteq K[n]
    BY ONLY <2>2, n \in Peer, ChainKnown
  <2> QED BY <2>1, <2>2, <2>3 DEF Chain
<1>3. chan \in [Pairs -> Seq(SyncMessage)]
  <2>1. \A l \in Pairs : chan[l] \in Seq(SyncMessage)
    BY <1>1 DEF StreamsInv, Carries
  <2>2. chan = [l \in Pairs |-> chan[l]]
    BY <1>1 DEF StreamsInv
  <2> QED BY <2>1, <2>2
<1> QED BY <1>1, <1>2, <1>3 DEF SyncTypeOK, TablesInv, StreamsInv

LEMMA SyncInvSound == SyncInv => SyncIsSound
<1> SUFFICES ASSUME SyncInv PROVE SyncIsSound
  OBVIOUS
<1>1. TablesInv /\ StreamsInv
  BY DEF SyncInv
<1>2. HeaviestKnown /\ OrphansWait
  BY <1>1 DEF TablesInv, HeaviestKnown, OrphansWait
<1>3. RequestsServed
  BY <1>1 DEF StreamsInv, Carries, RequestsServed
<1>4. OnlyDeepForksDivide
  <2>1. SUFFICES ASSUME NEW n \in Peer, NEW p \in Peer, TooDeep(n, p),
                        NEW c \in Locator(best[n]) \cap Chain(p)
                 PROVE  HeightOf(best[p]) > HeightOf(c) + HeaderLimit
    BY DEF OnlyDeepForksDivide
  <2>2. PICK K, tip, top, L :
          K = known /\ tip = best[n] /\ top = best[p] /\ L = Locator(tip)
    OBVIOUS
  <2>3. /\ K \in [Peer -> SUBSET Node] /\ tip \in K[n] /\ top \in K[p]
        /\ \A b \in K[n] \ {Genesis} : ParentOf[b] \in K[n]
        /\ \A b \in K[n] : Work[b] <= Work[tip]
    BY <1>1, <2>2 DEF TablesInv
  <2>4. tip \in Node /\ Path[tip] \subseteq K[n] /\ top \in Node
    <3>1. K[p] \in SUBSET Node
      BY <2>3
    <3> QED BY ONLY <2>3, <3>1, n \in Peer, ChainKnown
  <2>5. L \in SUBSET Node /\ Genesis \in L /\ L \subseteq K[n]
    BY <2>2, <2>4, LocatorFacts
  <2>6. /\ Work[tip] < Work[top] /\ ToSet(HeadersAfter(top, L)) \subseteq K[n]
        /\ c \in L \cap Path[top]
    BY <2>1, <2>2 DEF TooDeep, Chain
  <2>7. top \notin K[n]
    <3>1. Work[tip] \in Nat /\ Work[top] \in Nat
      BY <2>4, SyncWorkUnfold
    <3> QED BY ONLY <2>3, <2>6, <3>1
  <2>8. ~ (HeightOf(top) <= HeightOf(c) + HeaderLimit)
    <3>1. HeightOf(top) <= HeightOf(c) + HeaderLimit
            => top \in L \/ top \in ToSet(HeadersAfter(top, L))
      BY ONLY <2>4, <2>5, <2>6, HeadersFacts
    <3> QED BY ONLY <2>5, <2>6, <2>7, <3>1
  <2>9. HeightOf(top) \in Nat /\ HeightOf(c) \in Nat /\ HeaderLimit \in Nat
    <3>1. OnPath(top)
      BY <2>4, PathFacts
    <3> QED BY <2>6, <3>1, SyncAssumption DEF OnPath
  <2>10. HeightOf(top) > HeightOf(c) + HeaderLimit
    BY ONLY <2>8, <2>9
  <2> QED BY <2>2, <2>10
<1> QED BY <1>2, <1>3, <1>4 DEF SyncIsSound

\* The tables and the streams hold values of their kind, what a node knows is closed
\* under parents, and a closed session carries nothing (PowGraph and PowP2PNode).
THEOREM SyncTypesHold == SyncSpec => []SyncTypeOK
<1>1. SyncInv /\ [SyncNext]_syncVars => SyncInv'
  BY SyncStep
<1> QED BY SyncInvHolds, <1>1, SyncInvTypes, PTL DEF SyncSpec

\* Whatever order messages, orphans, mined blocks, closed sessions and clocks come in:
\* every node is on the heaviest chain it knows, no orphan waits for a known parent, no
\* request is in vain, and only a fork deeper than a batch of headers can keep a
\* lighter node from learning of the heavier branch (accept_block and _handle_message).
THEOREM SyncSound == SyncSpec => []SyncIsSound
<1>1. SyncInv /\ [SyncNext]_syncVars => SyncInv'
  BY SyncStep
<1> QED BY SyncInvHolds, <1>1, SyncInvSound, PTL DEF SyncSpec

\* Accepting a block moves a tip to a heavier one or leaves it, and no table of blocks
\* ever loses one (reorganization in accept_block, for all nodes together).
THEOREM TipsOnlyGrow == SyncSpec => [][KnownGrows /\ TipsGrow]_syncVars
<1>1. SyncInv /\ [SyncNext]_syncVars => SyncInv' /\ KnownGrows /\ TipsGrow
  BY SyncStep
<1> QED BY SyncInvHolds, <1>1, PTL DEF SyncSpec
=============================================================================

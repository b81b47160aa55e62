------------------------ MODULE ExternalCommit_proofs ------------------------
(***************************************************************************)
(* Proofs about ExternalCommit for every set of nodes and of validators,   *)
(* every genesis, and any number of blocks, crashes and repeated or late   *)
(* requests.  Replicas agree because executing a block is a function and   *)
(* the staged request names the decided block: what execution computes is  *)
(* never unfolded, except where the change of the validator set matters.   *)
(***************************************************************************)
EXTENDS ExternalCommit, TLAPS

-----------------------------------------------------------------------------
(* The inductive invariant.  Its parts about one node take the node's      *)
(* tables and engine, and the chain, as parameters.                        *)

IsSeq(s) == s \in Seq(Range(s))

\* Each result follows from the one before, and only the last may be a refusal.
Chain ==
  /\ IsSeq(decided) /\ IsSeq(results) /\ IsSeq(valset)
  /\ Len(results) = Len(decided) + 1
  /\ Len(valset) = Len(decided) + 2
  /\ results[1] = [ok |-> TRUE, st |-> GenesisState, updates |-> <<>>]
  /\ \A h \in 1..Len(decided) :
       /\ results[h].ok
       /\ results[h + 1] = Execute(h, results[h].st, decided[h])
       /\ valset[h + 2] = Applied(valset[h + 1], results[h + 1].updates)

\* The set of the block after next.
Following(gov) == IF gov.change = NoChange THEN gov.active ELSE gov.change.target

\* The sets of the engines are those that the executed governance gives, and a
\* change that waits was approved by the set of the block that carried it.
GovernedAt(h, gov, vals) ==
  /\ vals[h + 1] = Activated(gov, h + 1).active
  /\ vals[h + 2] = Following(gov)
  /\ gov.change # NoChange =>
       /\ gov.change.emit \in 1..h
       /\ Effective(gov.change.emit) > h
       /\ gov.change.source = vals[gov.change.emit]
       /\ gov.change.approvals \subseteq Members(vals[gov.change.emit])
       /\ Quorum(vals[gov.change.emit], gov.change.approvals)

Governed ==
  \A h \in 0..Len(decided) :
    results[h + 1].ok => GovernedAt(h, Gov(results[h + 1].st), valset)

DbFields == {"height", "st", "commits", "emissions", "pending", "base", "baseBlock"}

\* The tables hold the result of the blocks up to their height.
Tables(d, blocks, res) ==
  LET trusted(h) == AppHash(h, blocks[h], res[h + 1].st)
  IN  /\ DOMAIN d = DbFields /\ d = [x \in DbFields |-> d[x]]
      /\ d.height \in 0..Len(blocks) /\ d.base \in 0..d.height
      /\ res[d.height + 1].ok
      /\ d.st = res[d.height + 1].st
      /\ DOMAIN d.commits = (d.base + 1)..d.height
      /\ \A k \in DOMAIN d.commits :
           /\ d.commits[k] = [block |-> blocks[k], hash |-> trusted(k)]
           /\ Emission(d, k) = res[k + 1].updates
      /\ DOMAIN d.emissions \subseteq DOMAIN d.commits
      /\ d.pending # None =>
           /\ d.height < Len(blocks)
           /\ d.pending.height = d.height + 1
           /\ d.pending.block = blocks[d.height + 1]
           /\ d.pending.hash = trusted(d.height + 1)

EngineFields == {"height", "current", "following", "saved", "reply", "phase"}

\* The engine is never ahead of the tables, holds the sets of its next two
\* blocks, and what it was told is the answer for its next height.
Driven(e, d, blocks, res, vals) ==
  /\ DOMAIN e = EngineFields /\ e = [x \in EngineFields |-> e[x]]
  /\ e.phase \in {"down", "sync", "restore", "idle", "save", "commit", "advance"}
  /\ e.height \in 0..d.height
  /\ e.current = vals[e.height + 1] /\ e.following = vals[e.height + 2]
  /\ \A a \in {e.reply, e.saved} \ {None} :
       /\ e.height < Len(blocks)
       /\ a.hash = AppHash(e.height + 1, blocks[e.height + 1], res[e.height + 2].st)
       /\ a.updates = res[e.height + 2].updates
       /\ a = [hash |-> a.hash, updates |-> a.updates]
  /\ e.reply # None <=> e.phase = "save"
  /\ e.phase \in {"commit", "advance"} => e.saved # None
  /\ e.phase \in {"save", "commit"} => e.height < d.height \/ d.pending # None
  /\ e.phase = "advance" => e.height < d.height
  /\ e.phase \in {"sync", "restore"} => e.saved = None

\* A node that starts with state sync does so until it has a snapshot.
Starting(n, e) ==
  /\ e.phase \in {"sync", "restore"} => n \in Fresh /\ e.height = 0
  /\ n \in Fresh /\ e.height = 0 =>
       e.phase \in {"sync", "restore", "down"} /\ e.saved = None

\* Unless it was overtaken, the application is ahead of its engine only while
\* the engine holds the answer.
InStep(n, e, d) ==
  /\ e.phase \in {"idle", "save", "commit"} => d.height = e.height
  /\ e.phase = "advance" => d.height = e.height + 1
  /\ e.phase = "down" =>
       \/ n \in Fresh /\ e.height = 0
       \/ d.height = e.height
       \/ d.height = e.height + 1 /\ e.saved # None

\* What a session trusts is the hash of a block that could be executed.
Trusting(s, blocks, res) ==
  s # None =>
    /\ DOMAIN s = {"height", "trusted", "content", "received"}
    /\ s.height \in 1..(Len(blocks) - 1)
    /\ s.trusted = AppHash(s.height, blocks[s.height], res[s.height + 1].st)

Requested(rs, blocks) == \A r \in rs : r.call = "finalize" => r.height \in 1..Len(blocks)

\* The heights that exports have read are heights.
Exporting ==
  /\ \A n \in Node : /\ IsSeq(export[n])
                     /\ \A i \in DOMAIN export[n] \cap {3, 6, 7} : export[n][i].height \in Nat
  /\ \A s \in snapshots : s.height \in Nat

Functions ==
  /\ DOMAIN db = Node /\ DOMAIN engine = Node /\ DOMAIN late = Node
  /\ DOMAIN session = Node /\ DOMAIN export = Node

IInv ==
  /\ Chain /\ Governed /\ Functions /\ Exporting
  /\ \A n \in Node : /\ Tables(db[n], decided, results)
                     /\ Driven(engine[n], db[n], decided, results, valset)
                     /\ Starting(n, engine[n])
                     /\ n \notin overtaken => InStep(n, engine[n], db[n])
                     /\ Trusting(session[n], decided, results)
                     /\ Requested(late[n], decided)

-----------------------------------------------------------------------------
(* Sequences.                                                              *)

\* Appending keeps a sequence and its elements.
LEMMA AppendFacts ==
  ASSUME NEW s, IsSeq(s), NEW x
  PROVE  /\ IsSeq(Append(s, x))
         /\ Len(s) \in Nat
         /\ Len(Append(s, x)) = Len(s) + 1
         /\ \A i \in 1..Len(s) : Append(s, x)[i] = s[i]
         /\ Append(s, x)[Len(s) + 1] = x
<1> DEFINE S == Range(s) \cup {x}
<1>1. s \in Seq(S) /\ x \in S
  BY DEF IsSeq
<1>2. /\ Len(s) \in Nat
      /\ Len(Append(s, x)) = Len(s) + 1
      /\ \A i \in 1..Len(s) : Append(s, x)[i] = s[i]
      /\ Append(s, x)[Len(s) + 1] = x
      /\ Append(s, x) \in Seq(S)
  <2> HIDE DEF S
  <2> QED BY <1>1
<1>3. Append(s, x) \in Seq(Range(Append(s, x)))
  <2> DEFINE t == Append(s, x)
  <2>1. t \in Seq(S)
    BY <1>2
  <2> HIDE DEF t, S
  <2>2. /\ Len(t) \in Nat /\ DOMAIN t = 1..Len(t)
        /\ t = [i \in 1..Len(t) |-> t[i]]
    BY <2>1
  <2>3. \A i \in 1..Len(t) : t[i] \in Range(t)
    BY <2>2 DEF Range
  <2>4. t \in [1..Len(t) -> Range(t)]
    BY <2>2, <2>3
  <2>5. t \in Seq(Range(t))
    BY ONLY <2>2, <2>4
  <2> QED BY <2>5 DEF t
<1> QED BY <1>2, <1>3 DEF IsSeq

\* A record of a staged request is not the empty column.
LEMMA PendingIsSome ==
  ASSUME NEW h, NEW b, NEW p, NEW x
  PROVE  [height |-> h, block |-> b, previous |-> p, hash |-> x] # None
<1> DEFINE r == [height |-> h, block |-> b, previous |-> p, hash |-> x]
<1>1. "height" \in DOMAIN r /\ "height" \notin DOMAIN None
  BY DEF None
<1> QED BY <1>1

LEMMA ReplyIsSome ==
  ASSUME NEW h, NEW u
  PROVE  [hash |-> h, updates |-> u] # None
<1> DEFINE r == [hash |-> h, updates |-> u]
<1>1. "hash" \in DOMAIN r /\ "hash" \notin DOMAIN None
  BY DEF None
<1> QED BY <1>1

-----------------------------------------------------------------------------
(* The tables of one node.  Blocks and res stand for decided and results.  *)

Executes(blocks, res) ==
  \A h \in 1..Len(blocks) : /\ res[h].ok
                            /\ res[h + 1] = Execute(h, res[h].st, blocks[h])

\* A new database holds the result of no block.
LEMMA NewTables ==
  ASSUME NEW blocks, Len(blocks) \in Nat, NEW res,
         res[1] = [ok |-> TRUE, st |-> GenesisState, updates |-> <<>>]
  PROVE  Tables(NewDb, blocks, res) /\ NewDb.height = 0 /\ NewDb.pending = None
<1>1. /\ DOMAIN NewDb = DbFields /\ NewDb = [x \in DbFields |-> NewDb[x]]
      /\ NewDb.height = 0 /\ NewDb.base = 0 /\ NewDb.st = GenesisState
      /\ NewDb.commits = <<>> /\ NewDb.emissions = <<>> /\ NewDb.pending = None
  BY DEF NewDb, DbFields
<1>2. DOMAIN NewDb.commits = {} /\ DOMAIN NewDb.emissions = {}
  BY <1>1
<1>3. 1..0 = {}
  OBVIOUS
<1> QED BY <1>1, <1>2, <1>3 DEF Tables

\* The first block after the tables' height, if it is decided and can be
\* executed, gives the next result.
LEMMA NextResult ==
  ASSUME NEW d, NEW blocks, NEW res, Len(blocks) \in Nat,
         Tables(d, blocks, res), Executes(blocks, res),
         d.height + 1 \in 1..Len(blocks)
  PROVE  Execute(d.height + 1, d.st, blocks[d.height + 1]) = res[d.height + 2]
BY DEF Tables, Executes

\* Staging a decided block leaves what is committed and stages that block.
LEMMA StageKeeps ==
  ASSUME NEW d, NEW blocks, NEW res, Len(blocks) \in Nat,
         Tables(d, blocks, res), Executes(blocks, res),
         NEW h \in 1..Len(blocks), Finalizes(d, h, blocks[h])
  PROVE  LET e == StageFinalize(d, h, blocks[h])
         IN  /\ Tables(e, blocks, res)
             /\ e.height = d.height /\ e.st = d.st
             /\ h <= e.height \/ e.pending # None
             /\ d.pending # None => e.pending # None
<1> DEFINE e == StageFinalize(d, h, blocks[h])
           p == [height |-> h, block |-> blocks[h], previous |-> CommittedHash(d),
                 hash |-> AppHash(h, blocks[h], Execute(h, d.st, blocks[h]).st)]
<1>0. d.height \in Nat
  BY DEF Tables
<1>1. CASE h <= d.height \/ d.pending # None
  BY <1>1, <1>0 DEF StageFinalize
<1>2. CASE ~ (h <= d.height \/ d.pending # None)
  <2>1. h = d.height + 1
    BY <1>2, <1>0 DEF Finalizes, Replayed, Stageable
  <2>2. e = [d EXCEPT !.pending = p]
    BY <1>2 DEF StageFinalize
  <2>3. DOMAIN d = DbFields /\ d = [x \in DbFields |-> d[x]]
    BY DEF Tables
  <2> HIDE DEF p
  <2>4. /\ DOMAIN e = DbFields /\ e = [x \in DbFields |-> e[x]]
        /\ e.height = d.height /\ e.base = d.base /\ e.st = d.st
        /\ e.commits = d.commits /\ e.emissions = d.emissions /\ e.pending = p
    BY <2>2, <2>3 DEF DbFields
  <2>5. /\ p # None /\ p.height = d.height + 1 /\ p.block = blocks[d.height + 1]
        /\ p.hash = AppHash(d.height + 1, blocks[d.height + 1], res[d.height + 2].st)
    <3>1. Execute(h, d.st, blocks[h]) = res[d.height + 2]
      BY <2>1, NextResult
    <3>2. p # None
      BY PendingIsSome DEF p
    <3>3. p.height = h /\ p.block = blocks[h]
          /\ p.hash = AppHash(h, blocks[h], Execute(h, d.st, blocks[h]).st)
      BY DEF p
    <3> QED BY <3>1, <3>2, <3>3, <2>1
  <2> HIDE DEF e
  <2>6. \A k : Emission(e, k) = Emission(d, k)
    BY <2>4 DEF Emission
  <2>7. d.height < Len(blocks)
    BY <2>1, <1>0
  <2>8. d.height + 1 + 1 = d.height + 2
    BY <1>0
  <2>9. Tables(e, blocks, res)
    <3>1. /\ DOMAIN d.commits = (d.base + 1)..d.height /\ d.base \in 0..d.height
          /\ d.height \in 0..Len(blocks)
          /\ res[d.height + 1].ok /\ d.st = res[d.height + 1].st
          /\ \A k \in DOMAIN d.commits :
               /\ d.commits[k] = [block |-> blocks[k], hash |-> AppHash(k, blocks[k], res[k + 1].st)]
               /\ Emission(d, k) = res[k + 1].updates
          /\ DOMAIN d.emissions \subseteq DOMAIN d.commits
      BY DEF Tables
    <3>2. /\ e.height \in 0..Len(blocks) /\ e.base \in 0..e.height
          /\ res[e.height + 1].ok /\ e.st = res[e.height + 1].st
          /\ DOMAIN e.commits = (e.base + 1)..e.height
          /\ \A k \in DOMAIN e.commits :
               /\ e.commits[k] = [block |-> blocks[k], hash |-> AppHash(k, blocks[k], res[k + 1].st)]
               /\ Emission(e, k) = res[k + 1].updates
          /\ DOMAIN e.emissions \subseteq DOMAIN e.commits
      BY ONLY <2>4, <2>6, <3>1, Zenon
    <3>3. /\ e.height < Len(blocks)
          /\ e.pending.height = e.height + 1
          /\ e.pending.block = blocks[e.height + 1]
          /\ e.pending.hash = AppHash(e.height + 1, blocks[e.height + 1], res[e.height + 1 + 1].st)
      BY ONLY <2>4, <2>5, <2>7, <2>8, Zenon
    <3> QED BY ONLY <2>4, <3>2, <3>3, Zenon DEF Tables
  <2> QED BY <2>9, <2>4, <2>5 DEF e
<1> QED BY <1>1, <1>2

\* Committing moves the tables on by the next decided block, once.
LEMMA CommitKeeps ==
  ASSUME NEW d, NEW blocks, NEW res, Len(blocks) \in Nat,
         Tables(d, blocks, res), Executes(blocks, res),
         Commits(d), d.pending # None
  PROVE  LET e == CommitPending(d)
         IN  /\ Tables(e, blocks, res)
             /\ e.height = d.height + 1
             /\ d.height + 1 \in 1..Len(blocks)
             /\ res[d.height + 2].ok /\ e.st = res[d.height + 2].st
<1> DEFINE h == d.height + 1
           p == d.pending
           next == Execute(p.height, d.st, p.block)
           e == CommitPending(d)
<1>0. /\ d.height \in Nat /\ p.height = h /\ p.block = blocks[h] /\ h \in 1..Len(blocks)
      /\ p.hash = AppHash(h, blocks[h], res[h + 1].st) /\ h + 1 = d.height + 2
  <2>1. d.height \in Nat /\ p.height = h /\ p.block = blocks[h] /\ d.height < Len(blocks)
        /\ p.hash = AppHash(h, blocks[h], res[h + 1].st)
    BY DEF Tables
  <2> QED BY <2>1
<1>1. next = res[h + 1] /\ next.ok
  <2>1. next = res[h + 1]
    BY <1>0, NextResult
  <2>2. next.ok
    BY DEF Commits
  <2> QED BY <2>1, <2>2
<1> DEFINE commits == Extend(d.commits, h, [block |-> blocks[h], hash |-> p.hash])
           emissions == IF next.updates = <<>> THEN d.emissions
                                               ELSE Extend(d.emissions, h, next.updates)
<1>2. e = [d EXCEPT !.height = h, !.st = next.st, !.commits = commits,
                    !.emissions = emissions, !.pending = None]
  BY <1>0 DEF CommitPending
<1>3. DOMAIN d = DbFields /\ d = [x \in DbFields |-> d[x]]
  BY DEF Tables
<1>4. /\ d.base \in 0..d.height
      /\ DOMAIN d.commits = (d.base + 1)..d.height
      /\ \A k \in DOMAIN d.commits :
           /\ d.commits[k] = [block |-> blocks[k], hash |-> AppHash(k, blocks[k], res[k + 1].st)]
           /\ Emission(d, k) = res[k + 1].updates
      /\ DOMAIN d.emissions \subseteq DOMAIN d.commits
  BY DEF Tables
<1>5. /\ DOMAIN commits = (d.base + 1)..h
      /\ \A k \in DOMAIN commits :
           commits[k] = [block |-> blocks[k], hash |-> AppHash(k, blocks[k], res[k + 1].st)]
  <2>1. DOMAIN commits = DOMAIN d.commits \cup {h}
    BY DEF Extend
  <2>2. (d.base + 1)..d.height \cup {h} = (d.base + 1)..h
    BY <1>0, <1>4
  <2>3. commits[h] = [block |-> blocks[h], hash |-> p.hash]
    BY DEF Extend
  <2>4. h \notin DOMAIN d.commits
    BY <1>0, <1>4
  <2>5. \A k \in DOMAIN d.commits : commits[k] = d.commits[k]
    BY <2>4 DEF Extend
  <2> QED BY ONLY <2>1, <2>2, <2>3, <2>5, <1>0, <1>4
<1>6. /\ DOMAIN emissions \subseteq (d.base + 1)..h
      /\ \A k \in (d.base + 1)..h :
           (IF k \in DOMAIN emissions THEN emissions[k] ELSE <<>>) = res[k + 1].updates
  <2>1. h \notin DOMAIN d.emissions
    BY <1>0, <1>4
  <2>2. h \in (d.base + 1)..h /\ \A k \in (d.base + 1)..h : k # h => k \in DOMAIN d.commits
    BY <1>0, <1>4
  <2>3. \A k \in DOMAIN d.commits :
          (IF k \in DOMAIN d.emissions THEN d.emissions[k] ELSE <<>>) = res[k + 1].updates
    BY <1>4 DEF Emission
  <2>4. DOMAIN d.emissions \subseteq (d.base + 1)..h
    BY <1>0, <1>4
  <2>5. CASE next.updates = <<>>
    <3>1. emissions = d.emissions
      BY <2>5
    <3> HIDE DEF emissions
    <3> QED BY <3>1, <2>1, <2>2, <2>3, <2>4, <2>5, <1>1
  <2>6. CASE next.updates # <<>>
    <3>1. /\ DOMAIN emissions = DOMAIN d.emissions \cup {h}
          /\ emissions[h] = next.updates
          /\ \A k \in DOMAIN d.emissions : emissions[k] = d.emissions[k]
      BY <2>6, <2>1 DEF Extend
    <3> HIDE DEF emissions
    <3> QED BY <3>1, <2>1, <2>2, <2>3, <2>4, <1>1
  <2> QED BY <2>5, <2>6
<1> HIDE DEF commits, emissions, next
<1>7. /\ DOMAIN e = DbFields /\ e = [x \in DbFields |-> e[x]]
      /\ e.height = h /\ e.base = d.base /\ e.st = next.st
      /\ e.commits = commits /\ e.emissions = emissions /\ e.pending = None
  BY <1>2, <1>3 DEF DbFields
<1> HIDE DEF e, h, p
<1>8. \A k \in (d.base + 1)..h : Emission(e, k) = res[k + 1].updates
  BY <1>6, <1>7 DEF Emission
<1>9. h \in 0..Len(blocks) /\ d.base \in 0..h
  BY <1>0, <1>4 DEF h
<1>10. Tables(e, blocks, res)
  BY <1>1, <1>5, <1>6, <1>7, <1>8, <1>9 DEF Tables
<1> QED BY <1>10, <1>7, <1>1, <1>0 DEF e, h

\* Every path gives the one answer for a decided block.
LEMMA ReplyIsAnswer ==
  ASSUME NEW d, NEW blocks, NEW res, Len(blocks) \in Nat,
         Tables(d, blocks, res), Executes(blocks, res),
         NEW h \in 1..Len(blocks), Finalizes(d, h, blocks[h])
  PROVE  FinalizeReply(d, h, blocks[h])
           = [hash |-> AppHash(h, blocks[h], res[h + 1].st), updates |-> res[h + 1].updates]
<1>0. d.height \in Nat
  BY DEF Tables
<1>1. CASE h <= d.height
  <2>1. h \in DOMAIN d.commits
    BY <1>1, <1>0 DEF Finalizes, Replayed, Stageable
  <2>2. \A k \in DOMAIN d.commits :
          /\ d.commits[k] = [block |-> blocks[k], hash |-> AppHash(k, blocks[k], res[k + 1].st)]
          /\ Emission(d, k) = res[k + 1].updates
    BY DEF Tables
  <2>3. /\ d.commits[h] = [block |-> blocks[h], hash |-> AppHash(h, blocks[h], res[h + 1].st)]
        /\ Emission(d, h) = res[h + 1].updates
    BY ONLY <2>1, <2>2
  <2>4. d.commits[h].hash = AppHash(h, blocks[h], res[h + 1].st)
    BY ONLY <2>3
  <2> QED BY <1>1, <2>3, <2>4 DEF FinalizeReply
<1>2. CASE ~ (h <= d.height)
  <2>1. h = d.height + 1 /\ h + 1 = d.height + 2
    BY <1>2, <1>0 DEF Finalizes, Replayed, Stageable
  <2>2. Execute(h, d.st, blocks[h]) = res[h + 1]
    BY <2>1, NextResult
  <2>3. d.pending # None => d.pending.hash = AppHash(h, blocks[h], res[h + 1].st)
    BY <2>1 DEF Tables
  <2> QED BY <1>2, <2>2, <2>3 DEF FinalizeReply
<1> QED BY <1>1, <1>2

\* The contents of an authentic snapshot are the trusted block's state.
LEMMA ImportKeeps ==
  ASSUME NEW s, NEW blocks, NEW res, Len(blocks) \in Nat,
         Executes(blocks, res), s # None, Trusting(s, blocks, res), Authentic(s)
  PROVE  LET e == Imported(s.content)
         IN  /\ Tables(e, blocks, res)
             /\ e.height = s.height /\ e.st = res[s.height + 1].st
             /\ e.pending = None
<1> DEFINE h == s.height
           c == s.content
           e == Imported(c)
<1>1. /\ h \in 1..(Len(blocks) - 1)
      /\ s.trusted = AppHash(h, blocks[h], res[h + 1].st)
      /\ c.height = h /\ AppHash(c.height, c.block, c.st) = s.trusted
  BY DEF Trusting, Authentic
<1>2. c.st = res[h + 1].st
  BY <1>1 DEF AppHash
<1>3. /\ DOMAIN e = DbFields /\ e = [x \in DbFields |-> e[x]]
      /\ e.height = h /\ e.base = h /\ e.st = c.st
      /\ e.commits = <<>> /\ e.emissions = <<>> /\ e.pending = None
  BY <1>1 DEF Imported, NewDb, DbFields
<1>4. DOMAIN e.commits = {} /\ DOMAIN e.emissions = {} /\ (h + 1)..h = {}
  BY <1>1, <1>3
<1>5. res[h + 1].ok
  BY <1>1 DEF Executes
<1>6. h \in 0..Len(blocks) /\ h \in 0..h
  BY <1>1
<1> HIDE DEF e, c
<1>7. Tables(e, blocks, res)
  BY <1>2, <1>3, <1>4, <1>5, <1>6 DEF Tables
<1> QED BY <1>7, <1>3, <1>2 DEF e, c

-----------------------------------------------------------------------------
(* A new block leaves what is known of the earlier ones.                   *)

Grows(blocks, res, vals, blocksNew, resNew, valsNew) ==
  /\ Len(blocks) \in Nat /\ Len(blocksNew) = Len(blocks) + 1
  /\ \A h \in 1..Len(blocks) : blocksNew[h] = blocks[h]
  /\ \A h \in 1..(Len(blocks) + 1) : resNew[h] = res[h]
  /\ \A h \in 1..(Len(blocks) + 2) : valsNew[h] = vals[h]

\* What a log that grew holds where it was.
LEMMA GrownAt ==
  ASSUME NEW blocks, NEW res, NEW vals, NEW blocksNew, NEW resNew, NEW valsNew,
         Grows(blocks, res, vals, blocksNew, resNew, valsNew),
         NEW k \in Nat, k <= Len(blocks)
  PROVE  /\ k \in 0..Len(blocksNew)
         /\ resNew[k + 1] = res[k + 1]
         /\ valsNew[k + 1] = vals[k + 1] /\ valsNew[k + 2] = vals[k + 2]
         /\ 1 <= k => blocksNew[k] = blocks[k]
         /\ k < Len(blocks) => /\ k < Len(blocksNew)
                               /\ blocksNew[k + 1] = blocks[k + 1]
                               /\ resNew[k + 2] = res[k + 2]
<1>1. /\ Len(blocks) \in Nat /\ Len(blocksNew) = Len(blocks) + 1
      /\ \A h \in 1..Len(blocks) : blocksNew[h] = blocks[h]
      /\ \A h \in 1..(Len(blocks) + 1) : resNew[h] = res[h]
      /\ \A h \in 1..(Len(blocks) + 2) : valsNew[h] = vals[h]
  BY DEF Grows
<1>2. /\ k \in 0..(Len(blocks) + 1) /\ k + 1 \in 1..(Len(blocks) + 1)
      /\ k + 1 \in 1..(Len(blocks) + 2) /\ k + 2 \in 1..(Len(blocks) + 2)
      /\ 1 <= k => k \in 1..Len(blocks)
      /\ k < Len(blocks) => /\ k < Len(blocks) + 1
                            /\ k + 1 \in 1..Len(blocks) /\ k + 2 \in 1..(Len(blocks) + 1)
  BY ONLY <1>1, k \in Nat, k <= Len(blocks)
<1> QED BY ONLY <1>1, <1>2, ZenonT(60)

LEMMA TablesGrow ==
  ASSUME NEW blocks, NEW res, NEW vals, NEW blocksNew, NEW resNew, NEW valsNew,
         Grows(blocks, res, vals, blocksNew, resNew, valsNew),
         NEW d, Tables(d, blocks, res)
  PROVE  Tables(d, blocksNew, resNew)
<1>1. /\ d.height \in Nat /\ d.height <= Len(blocks) /\ d.base \in 0..d.height
      /\ DOMAIN d.commits = (d.base + 1)..d.height
  <2>1. d.height \in 0..Len(blocks) /\ Len(blocks) \in Nat
    BY DEF Tables, Grows
  <2>2. d.base \in 0..d.height /\ DOMAIN d.commits = (d.base + 1)..d.height
    BY DEF Tables
  <2> QED BY ONLY <2>1, <2>2
<1>2. /\ d.height \in 0..Len(blocksNew) /\ resNew[d.height + 1] = res[d.height + 1]
      /\ d.height < Len(blocks) => /\ d.height < Len(blocksNew)
                                   /\ blocksNew[d.height + 1] = blocks[d.height + 1]
                                   /\ resNew[d.height + 2] = res[d.height + 2]
  BY <1>1, GrownAt
<1>3. \A k \in DOMAIN d.commits : blocksNew[k] = blocks[k] /\ resNew[k + 1] = res[k + 1]
  <2> TAKE k \in DOMAIN d.commits
  <2>1. k \in Nat /\ 1 <= k /\ k <= Len(blocks)
    <3>1. Len(blocks) \in Nat /\ k \in (d.base + 1)..d.height
      BY <1>1 DEF Grows
    <3> QED BY ONLY <3>1, <1>1
  <2> QED BY <2>1, GrownAt
<1>4. d.height + 1 + 1 = d.height + 2
  BY ONLY <1>1
<1>5. d.pending # None =>
        /\ d.height < Len(blocksNew) /\ blocksNew[d.height + 1] = blocks[d.height + 1]
        /\ resNew[d.height + 1 + 1] = res[d.height + 1 + 1]
  <2>1. d.pending # None => d.height < Len(blocks)
    BY DEF Tables
  <2> QED BY ONLY <2>1, <1>2, <1>4
<1>6. \A k \in DOMAIN d.commits :
        /\ d.commits[k] = [block |-> blocksNew[k], hash |-> AppHash(k, blocksNew[k], resNew[k + 1].st)]
        /\ Emission(d, k) = resNew[k + 1].updates
  <2>1. \A k \in DOMAIN d.commits :
          /\ d.commits[k] = [block |-> blocks[k], hash |-> AppHash(k, blocks[k], res[k + 1].st)]
          /\ Emission(d, k) = res[k + 1].updates
    BY DEF Tables
  <2> QED BY ONLY <1>3, <2>1, Zenon
<1>7. d.pending # None =>
        /\ d.height < Len(blocksNew)
        /\ d.pending.height = d.height + 1
        /\ d.pending.block = blocksNew[d.height + 1]
        /\ d.pending.hash = AppHash(d.height + 1, blocksNew[d.height + 1],
                                    resNew[d.height + 1 + 1].st)
  BY <1>5 DEF Tables
<1>8. resNew[d.height + 1].ok /\ d.st = resNew[d.height + 1].st
  BY <1>2 DEF Tables
<1>9. /\ DOMAIN d = DbFields /\ d = [x \in DbFields |-> d[x]]
      /\ DOMAIN d.emissions \subseteq DOMAIN d.commits
  BY DEF Tables
<1> QED BY ONLY <1>1, <1>2, <1>6, <1>7, <1>8, <1>9, ZenonT(60) DEF Tables

LEMMA DrivenGrow ==
  ASSUME NEW blocks, NEW res, NEW vals, NEW blocksNew, NEW resNew, NEW valsNew,
         Grows(blocks, res, vals, blocksNew, resNew, valsNew),
         NEW d, Tables(d, blocks, res),
         NEW e, Driven(e, d, blocks, res, vals)
  PROVE  Driven(e, d, blocksNew, resNew, valsNew)
<1>1. e.height \in Nat /\ e.height <= Len(blocks)
  <2>1. d.height \in 0..Len(blocks) /\ e.height \in 0..d.height /\ Len(blocks) \in Nat
    BY DEF Tables, Driven, Grows
  <2> QED BY ONLY <2>1
<1>2. /\ valsNew[e.height + 1] = vals[e.height + 1]
      /\ valsNew[e.height + 2] = vals[e.height + 2]
      /\ e.height < Len(blocks) =>
           /\ e.height < Len(blocksNew) /\ blocksNew[e.height + 1] = blocks[e.height + 1]
           /\ resNew[e.height + 2] = res[e.height + 2]
  BY <1>1, GrownAt
<1> QED BY <1>2 DEF Driven

\* What the proofs below need of the heights and the phase.
LEMMA TablesHeight ==
  ASSUME NEW d, NEW blocks, NEW res, Len(blocks) \in Nat, Tables(d, blocks, res)
  PROVE  /\ d.height \in Nat /\ d.height \in 0..Len(blocks)
         /\ (d.height + 1) + 1 = d.height + 2
         /\ res[d.height + 1].ok /\ d.st = res[d.height + 1].st
<1>1. d.height \in 0..Len(blocks) /\ res[d.height + 1].ok /\ d.st = res[d.height + 1].st
  BY Zenon DEF Tables
<1>2. d.height \in Nat /\ (d.height + 1) + 1 = d.height + 2
  BY ONLY <1>1, Len(blocks) \in Nat
<1> QED BY ONLY <1>1, <1>2

LEMMA DrivenHeight ==
  ASSUME NEW d, NEW e, NEW blocks, NEW res, NEW vals, Len(blocks) \in Nat,
         Tables(d, blocks, res), Driven(e, d, blocks, res, vals)
  PROVE  /\ d.height \in Nat /\ e.height \in Nat /\ e.height \in 0..d.height
         /\ (e.height + 1) + 1 = e.height + 2
         /\ DOMAIN e = EngineFields
         /\ e.phase \in {"down", "sync", "restore", "idle", "save", "commit", "advance"}
         /\ e.reply # None <=> e.phase = "save"
         /\ e.phase \in {"commit", "advance"} => e.saved # None
         /\ e.phase \in {"save", "commit"} => e.height < d.height \/ d.pending # None
<1>1. d.height \in Nat
  BY TablesHeight
<1>2. /\ e.height \in 0..d.height /\ DOMAIN e = EngineFields
      /\ e.phase \in {"down", "sync", "restore", "idle", "save", "commit", "advance"}
      /\ e.reply # None <=> e.phase = "save"
      /\ e.phase \in {"commit", "advance"} => e.saved # None
      /\ e.phase \in {"save", "commit"} => e.height < d.height \/ d.pending # None
  BY DEF Driven
<1>3. e.height \in Nat /\ (e.height + 1) + 1 = e.height + 2
  BY ONLY <1>1, <1>2
<1> QED BY ONLY <1>1, <1>2, <1>3

LEMMA TrustingGrow ==
  ASSUME NEW blocks, NEW res, NEW vals, NEW blocksNew, NEW resNew, NEW valsNew,
         Grows(blocks, res, vals, blocksNew, resNew, valsNew),
         NEW s, Trusting(s, blocks, res)
  PROVE  Trusting(s, blocksNew, resNew)
<1>1. /\ Len(blocks) \in Nat /\ Len(blocksNew) = Len(blocks) + 1
      /\ \A h \in 1..Len(blocks) : blocksNew[h] = blocks[h]
      /\ \A h \in 1..(Len(blocks) + 1) : resNew[h] = res[h]
  BY DEF Grows
<1>2. s # None => s.height \in 1..(Len(blocks) - 1)
  BY DEF Trusting
<1>3. s # None => /\ s.height \in 1..(Len(blocksNew) - 1)
                  /\ blocksNew[s.height] = blocks[s.height]
                  /\ resNew[s.height + 1] = res[s.height + 1]
  BY <1>1, <1>2
<1> QED BY <1>3 DEF Trusting

LEMMA RequestedGrow ==
  ASSUME NEW blocks, NEW res, NEW vals, NEW blocksNew, NEW resNew, NEW valsNew,
         Grows(blocks, res, vals, blocksNew, resNew, valsNew),
         NEW rs, Requested(rs, blocks)
  PROVE  Requested(rs, blocksNew)
BY DEF Grows, Requested

-----------------------------------------------------------------------------
(* The change of the validator set.                                        *)

\* What the engine does with one update.
SetPower(vals, u) == [vals EXCEPT ![u.key] = u.power]

Checked == INSTANCE FoldInduction WITH Op <- ApplyUpdate
Unchecked == INSTANCE FoldInduction WITH Op <- SetPower

\* Updates that the application accepts give the same set in the engine.
LEMMA AppliedAsChecked ==
  ASSUME NEW vals, NEW updates, NEW n \in Nat, DOMAIN updates = 1..n,
         ApplyUpdates(vals, updates) # Invalid
  PROVE  Applied(vals, updates) = ApplyUpdates(vals, updates)
<1>1. /\ FoldLeft(ApplyUpdate, vals, updates) = Checked!Folded(vals, updates)
      /\ Applied(vals, updates) = Unchecked!Folded(vals, updates)
  BY DEF Applied, SetPower, FoldLeft, MapThenFoldSet, Max,
         Checked!Folded, Checked!FoldLeft, Checked!MapThenFoldSet, Checked!Max,
         Unchecked!Folded, Unchecked!FoldLeft, Unchecked!MapThenFoldSet, Unchecked!Max
<1>2. Checked!Folded(vals, updates) # Invalid
      /\ ApplyUpdates(vals, updates) = Checked!Folded(vals, updates)
  BY <1>1 DEF ApplyUpdates
<1>3. PICK v : /\ v = [k \in 0..n |-> v[k]]
               /\ v[0] = vals
               /\ \A k \in 1..n : v[k] = ApplyUpdate(v[k - 1], updates[k])
               /\ Checked!Folded(vals, updates) = v[n]
  <2>1. Checked!Steps(vals, updates, n)
    BY Checked!Folding
  <2> QED BY <2>1 DEF Checked!Steps
<1>4. PICK w : /\ w = [k \in 0..n |-> w[k]]
               /\ w[0] = vals
               /\ \A k \in 1..n : w[k] = SetPower(w[k - 1], updates[k])
               /\ Unchecked!Folded(vals, updates) = w[n]
  <2>1. Unchecked!Steps(vals, updates, n)
    BY Unchecked!Folding
  <2> QED BY <2>1 DEF Unchecked!Steps
<1> DEFINE P == {k \in Nat : k <= n => v[k] = Invalid \/ v[k] = w[k]}
<1>5. 0 \in P
  BY <1>3, <1>4
<1>6. ASSUME NEW k \in P PROVE k + 1 \in P
  <2> SUFFICES ASSUME k + 1 <= n PROVE v[k + 1] = Invalid \/ v[k + 1] = w[k + 1]
    OBVIOUS
  <2>1. k + 1 \in 1..n /\ (k + 1) - 1 = k /\ (v[k] = Invalid \/ v[k] = w[k])
    OBVIOUS
  <2>2. v[k + 1] = ApplyUpdate(v[k], updates[k + 1])
        /\ w[k + 1] = SetPower(w[k], updates[k + 1])
    BY <2>1, <1>3, <1>4
  <2> QED BY <2>1, <2>2 DEF ApplyUpdate, SetPower
<1> HIDE DEF P
<1>7. n \in P
  <2>1. P = Nat
    BY <1>5, <1>6, Checked!Induction, P \subseteq Nat DEF P
  <2> QED BY <2>1
<1>8. v[n] = w[n]
  BY <1>7, <1>2, <1>3 DEF P
<1> QED BY <1>1, <1>2, <1>3, <1>4, <1>8

\* No update changes nothing.
LEMMA NothingApplied ==
  ASSUME NEW vals
  PROVE  Applied(vals, <<>>) = vals
<1>1. Applied(vals, <<>>) = Unchecked!Folded(vals, <<>>)
  BY DEF Applied, SetPower, FoldLeft, MapThenFoldSet, Max,
         Unchecked!Folded, Unchecked!FoldLeft, Unchecked!MapThenFoldSet, Unchecked!Max
<1>2. Unchecked!Steps(vals, <<>>, 0)
  <2>1. DOMAIN <<>> = 1..0 /\ 0 \in Nat
    OBVIOUS
  <2> QED BY <2>1, Unchecked!Folding
<1> QED BY <1>1, <1>2 DEF Unchecked!Steps

\* A block carries the changes of its governance requests, which are sequences
\* of updates.
Signed(block) ==
  \A e \in Governance(block) :
    e # NoChange /\ \E n \in Nat : DOMAIN e.updates = 1..n

\* Execution keeps the engine's sets those of the application.
LEMMA GovernedStep ==
  ASSUME NEW h \in Nat, NEW st, NEW block, Signed(block), NEW vals, NEW valsNew,
         GovernedAt(h, Gov(st), vals),
         Execute(h + 1, st, block).ok,
         \A i \in 1..(h + 2) : valsNew[i] = vals[i],
         valsNew[h + 3] = Applied(vals[h + 2], Execute(h + 1, st, block).updates)
  PROVE  GovernedAt(h + 1, Gov(Execute(h + 1, st, block).st), valsNew)
<1> DEFINE gov == Gov(st)
           envs == Governance(block)
           now == Activated(gov, h + 1)
           res == Execute(h + 1, st, block)
           new == Gov(res.st)
<1>1. /\ GovernanceAccepts(gov, h + 1, envs)
      /\ new = [active |-> SimulateHeight(gov, h + 1, envs).active,
                change |-> SimulateHeight(gov, h + 1, envs).change]
      /\ res.updates = Emitted(envs)
  BY DEF Execute, Gov
<1>2. gov = [active |-> gov.active, change |-> gov.change]
  BY DEF Gov
<1> HIDE DEF gov, res, new, envs
<1>3. /\ vals[h + 1] = now.active
      /\ vals[h + 2] = Following(gov)
      /\ gov.change # NoChange =>
           /\ gov.change.emit \in 1..h
           /\ Effective(gov.change.emit) > h
           /\ gov.change.source = vals[gov.change.emit]
           /\ gov.change.approvals \subseteq Members(vals[gov.change.emit])
           /\ Quorum(vals[gov.change.emit], gov.change.approvals)
  BY DEF GovernedAt, gov
<1>4. ~ Stale(gov, h + 1)
  BY <1>1 DEF GovernanceAccepts
<1>5. now = [active |-> now.active, change |-> now.change]
  BY <1>2 DEF Activated
<1>6. now.change # NoChange => now = gov /\ gov.change.emit = h
  <2>1. now.change # NoChange => now = gov /\ Effective(gov.change.emit) # h + 1
    BY DEF Activated
  <2>2. now.change # NoChange => Effective(gov.change.emit) >= h + 1
    BY <2>1, <1>4, <1>3 DEF Stale, Effective
  <2> QED BY <2>1, <2>2, <1>3 DEF Effective
<1>7. vals[h + 2] = Following(now)
  BY <1>3 DEF Activated, Following
<1>8. h + 1 \in 1..(h + 2) /\ h + 2 \in 1..(h + 2) /\ h + 1 + 1 = h + 2 /\ h + 1 + 2 = h + 3
  OBVIOUS
<1>9. CASE envs = {}
  <2>1. new = now
    BY <1>1, <1>5, <1>9 DEF SimulateHeight
  <2>2. valsNew[h + 3] = vals[h + 2]
    BY <1>1, <1>9, NothingApplied DEF Emitted, res
  <2>3. Activated(new, h + 2).active = Following(now)
    <3>1. CASE now.change = NoChange
      BY <2>1, <3>1 DEF Activated, Following
    <3>2. CASE now.change # NoChange
      <4>1. now.change.emit = h
        BY <1>6, <3>2
      <4>2. Effective(now.change.emit) = h + 2
        BY <4>1 DEF Effective
      <4> QED BY <2>1, <3>2, <4>2 DEF Activated, Following
    <3> QED BY <3>1, <3>2
  <2>4. new.change # NoChange =>
          /\ new.change.emit \in 1..(h + 1)
          /\ Effective(new.change.emit) > h + 1
          /\ valsNew[new.change.emit] = vals[new.change.emit]
          /\ new.change = gov.change /\ gov.change # NoChange
    BY <2>1, <1>6, <1>3 DEF Effective
  <2> QED BY <2>1, <2>2, <2>3, <2>4, <1>3, <1>7, <1>8 DEF GovernedAt, new, res
<1>10. CASE envs # {}
  <2> DEFINE e == CHOOSE e \in envs : TRUE
  <2>1. e \in envs
    BY <1>10
  <2>2. /\ now.change = NoChange
        /\ VerifyEnvelope(e, now.active, h + 1)
    BY <2>1, <1>1 DEF GovernanceAccepts
  <2>3. new = [active |-> now.active, change |-> e] /\ res.updates = e.updates
    <3>1. SimulateHeight(gov, h + 1, envs) = [now EXCEPT !.change = e]
      BY <1>10 DEF SimulateHeight
    <3>2. [now EXCEPT !.change = e] = [active |-> now.active, change |-> e]
      <4> HIDE DEF now
      <4>1. \A z : [now EXCEPT !.change = z] = [active |-> now.active, change |-> z]
        BY ONLY <1>5
      <4> HIDE DEF e
      <4> QED BY ONLY <4>1
    <3> QED BY <3>1, <3>2, <1>1, <1>10 DEF Emitted
  <2>4. PICK n \in Nat : DOMAIN e.updates = 1..n /\ e # NoChange
    BY <2>1 DEF Signed, envs
  <2> HIDE DEF e
  <2>5. vals[h + 1] = now.active /\ vals[h + 2] = now.active
    BY <1>3, <1>7, <2>2 DEF Following
  <2>6. /\ e.emit = h + 1 /\ e.source = now.active /\ e.target # Invalid
        /\ e.target = ApplyUpdates(now.active, e.updates)
        /\ e.approvals \subseteq Members(now.active)
        /\ Quorum(now.active, e.approvals)
    BY <2>2 DEF VerifyEnvelope, WellFounded
  <2>7. valsNew[h + 3] = e.target
    <3>1. Applied(now.active, e.updates) = e.target
      BY <2>4, <2>6, AppliedAsChecked
    <3> QED BY <3>1, <2>3, <2>5 DEF res
  <2>8. e # NoChange
    BY <2>4
  <2>9. /\ new.active = now.active /\ new.change = e
    BY <2>3
  <2>10. Effective(e.emit) = h + 3
    BY <2>6 DEF Effective
  <2>11. Activated(new, h + 2).active = now.active
    BY <2>9, <2>10 DEF Activated
  <2>12. Following(new) = e.target
    BY <2>8, <2>9 DEF Following
  <2> QED BY <2>5, <2>6, <2>7, <2>9, <2>10, <2>11, <2>12, <1>8 DEF GovernedAt, new, res
<1> QED BY <1>9, <1>10

\* What operators sign and nodes accept are sequences of updates.
LEMMA ProposalsAreSigned ==
  ASSUME ExternalAssumption, NEW n \in Node, NEW block \in Proposals(n)
  PROVE  Signed(block)
<1> SUFFICES ASSUME NEW e \in Governance(block)
             PROVE  e # NoChange /\ \E k \in Nat : DOMAIN e.updates = 1..k
  BY DEF Signed
<1>1. e \in Transfer \cup Requests /\ e.type = "validator_governance"
  <2>1. e \in Range(block) /\ e.type = "validator_governance"
    BY DEF Governance
  <2>2. PICK k \in 0..MaxBlock : block \in [1..k -> Accepted(n)]
    BY DEF Proposals
  <2>3. e \in Accepted(n)
    BY <2>1, <2>2 DEF Range
  <2> QED BY <2>1, <2>3 DEF Accepted
<1>2. e \notin Transfer
  <2>1. \A t \in Transfer : t.type = "transfer"
    BY DEF ExternalAssumption
  <2> QED BY <1>1, <2>1
<1>3. PICK c \in Ask, h \in 0..Height :
        \E emit, source, signers : e = Envelope(emit, source, BuildUpdates(c), signers)
  BY <1>1, <1>2 DEF Requests
<1>4. PICK emit, source, signers : e = Envelope(emit, source, BuildUpdates(c), signers)
  BY <1>3
<1>5. e.updates = BuildUpdates(c) /\ "emit" \in DOMAIN e
  BY <1>4 DEF Envelope
<1>6. e # NoChange
  BY <1>5 DEF NoChange
<1>7. \A x, y : /\ DOMAIN (<<x>> \o <<y>>) = 1..2 /\ DOMAIN (<<>> \o <<y>>) = 1..1
                /\ DOMAIN (<<x>> \o <<>>) = 1..1 /\ DOMAIN (<<>> \o <<>>) = 1..0
  <2> TAKE x, y
  <2> DEFINE S == {x, y}
  <2>1. <<x>> \in Seq(S) /\ <<y>> \in Seq(S) /\ <<>> \in Seq(S)
    OBVIOUS
  <2>2. Len(<<x>>) = 1 /\ Len(<<y>>) = 1 /\ Len(<<>>) = 0
    OBVIOUS
  <2> HIDE DEF S
  <2> QED BY <2>1, <2>2
<1>8. \E k \in Nat : DOMAIN BuildUpdates(c) = 1..k
  BY <1>7 DEF BuildUpdates
<1> QED BY <1>5, <1>6, <1>8

-----------------------------------------------------------------------------
(* The invariant holds at the start and every step keeps it.               *)

LEMMA ChainExecutes ==
  ASSUME Chain
  PROVE  Executes(decided, results) /\ Len(decided) \in Nat
<1>1. IsSeq(decided)
  BY DEF Chain
<1>2. Len(decided) \in Nat
  BY <1>1 DEF IsSeq
<1> QED BY <1>2 DEF Chain, Executes

LEMMA InitChain ==
  ASSUME Init
  PROVE  Chain /\ Governed /\ Height = 0
<1>1. /\ decided = <<>> /\ Len(decided) = 0
      /\ results = << [ok |-> TRUE, st |-> GenesisState, updates |-> <<>>] >>
      /\ valset = << GenesisState.active, GenesisState.active >>
  BY DEF Init
<1>2. /\ IsSeq(decided) /\ IsSeq(results) /\ IsSeq(valset)
      /\ Len(results) = 1 /\ Len(valset) = 2
      /\ results[1] = [ok |-> TRUE, st |-> GenesisState, updates |-> <<>>]
      /\ valset[1] = GenesisState.active /\ valset[2] = GenesisState.active
  <2>1. IsSeq(<<>>)
    BY DEF IsSeq
  <2>2. \A x : IsSeq(<<x>>)
    <3> TAKE x
    <3>1. x \in Range(<<x>>)
      BY DEF Range
    <3> QED BY <3>1 DEF IsSeq
  <2>3. \A x, y : IsSeq(<<x, y>>)
    <3> TAKE x, y
    <3>1. x \in Range(<<x, y>>) /\ y \in Range(<<x, y>>)
      BY DEF Range
    <3> QED BY <3>1 DEF IsSeq
  <2> QED BY <1>1, <2>1, <2>2, <2>3
<1>3. Chain
  BY <1>1, <1>2 DEF Chain
<1>4. Governed
  <2> SUFFICES ASSUME NEW h \in 0..Len(decided)
               PROVE  GovernedAt(h, Gov(results[h + 1].st), valset)
    BY DEF Governed
  <2>1. h = 0 /\ results[h + 1].st = GenesisState
    BY <1>1, <1>2
  <2>2. Gov(GenesisState).change = NoChange /\ Gov(GenesisState).active = GenesisState.active
    BY ExternalAssumption DEF Gov
  <2> QED BY <2>1, <2>2, <1>2 DEF GovernedAt, Activated, Following
<1> QED BY <1>1, <1>3, <1>4 DEF Height

LEMMA InitIInv ==
  ASSUME Init
  PROVE  IInv
<1>1. Chain /\ Governed /\ Height = 0
  BY InitChain
<1>2. /\ Len(decided) = 0 /\ Len(decided) \in Nat
      /\ results[1] = [ok |-> TRUE, st |-> GenesisState, updates |-> <<>>]
      /\ valset[1] = GenesisState.active /\ valset[2] = GenesisState.active
  BY <1>1 DEF Init, Height
<1>3. Functions
  BY DEF Init, Functions
<1>4. Exporting
  <2>1. \A n \in Node : export[n] = <<>>
    BY DEF Init
  <2>2. IsSeq(<<>>) /\ DOMAIN <<>> = {}
    BY DEF IsSeq
  <2> QED BY <2>1, <2>2 DEF Exporting, Init
<1>5. ASSUME NEW n \in Node
      PROVE  /\ Tables(db[n], decided, results)
             /\ Driven(engine[n], db[n], decided, results, valset)
             /\ Starting(n, engine[n])
             /\ InStep(n, engine[n], db[n])
             /\ Trusting(session[n], decided, results)
             /\ Requested(late[n], decided)
  <2>1. /\ db[n] = NewDb /\ session[n] = None /\ late[n] = {}
        /\ engine[n] = NewEngine(IF n \in Fresh THEN "sync" ELSE "idle")
    BY DEF Init
  <2>2. Tables(db[n], decided, results) /\ db[n].height = 0
    BY <1>2, <2>1, NewTables
  <2>3. /\ DOMAIN engine[n] = EngineFields
        /\ engine[n] = [x \in EngineFields |-> engine[n][x]]
        /\ engine[n].height = 0 /\ engine[n].saved = None /\ engine[n].reply = None
        /\ engine[n].current = GenesisState.active /\ engine[n].following = GenesisState.active
        /\ engine[n].phase = IF n \in Fresh THEN "sync" ELSE "idle"
    BY <2>1 DEF NewEngine, EngineFields
  <2>4. Driven(engine[n], db[n], decided, results, valset)
    <3>1. /\ engine[n].phase \in {"sync", "idle"} /\ 0 \in 0..0 /\ 0 + 1 = 1 /\ 0 + 2 = 2
          /\ {engine[n].reply, engine[n].saved} \ {None} = {}
      BY ONLY <2>3
    <3> QED BY ONLY <1>2, <2>2, <2>3, <3>1 DEF Driven
  <2>5. Starting(n, engine[n]) /\ InStep(n, engine[n], db[n])
    BY <2>2, <2>3 DEF Starting, InStep
  <2> QED BY <2>1, <2>2, <2>4, <2>5 DEF Trusting, Requested
<1> QED BY <1>1, <1>3, <1>4, <1>5 DEF IInv

\* What a decided block adds to the chain.
LEMMA DecideChain ==
  ASSUME IInv, NEW n \in Node, Ready(n), NEW block \in Proposals(n), Decide(n, block)
  PROVE  /\ Chain' /\ Governed'
         /\ Grows(decided, results, valset, decided', results', valset')
<1> DEFINE N == Len(decided)
           result == Execute(N + 1, results[N + 1].st, block)
<1>1. /\ IsSeq(decided) /\ IsSeq(results) /\ IsSeq(valset)
      /\ Len(results) = N + 1 /\ Len(valset) = N + 2 /\ N \in Nat
      /\ results[1] = [ok |-> TRUE, st |-> GenesisState, updates |-> <<>>]
      /\ \A h \in 1..N : /\ results[h].ok
                         /\ results[h + 1] = Execute(h, results[h].st, decided[h])
                         /\ valset[h + 2] = Applied(valset[h + 1], results[h + 1].updates)
  BY ChainExecutes DEF IInv, Chain
<1>2. /\ decided' = Append(decided, block)
      /\ results' = Append(results, result)
      /\ valset' = Append(valset, Applied(valset[N + 2], result.updates))
  BY DEF Decide, Height
<1> HIDE DEF result
<1>3. /\ IsSeq(decided') /\ IsSeq(results') /\ IsSeq(valset')
      /\ Len(decided') = N + 1 /\ Len(results') = N + 2 /\ Len(valset') = N + 3
      /\ \A h \in 1..N : decided'[h] = decided[h]
      /\ \A h \in 1..(N + 1) : results'[h] = results[h]
      /\ \A h \in 1..(N + 2) : valset'[h] = valset[h]
      /\ decided'[N + 1] = block /\ results'[N + 2] = result
      /\ valset'[N + 3] = Applied(valset[N + 2], result.updates)
  <2>1. N + 1 + 1 = N + 2 /\ N + 2 + 1 = N + 3
    BY <1>1
  <2> QED BY <1>1, <1>2, <2>1, AppendFacts
<1>4. results[N + 1].ok
  <2>1. engine[n].height = N
    BY DEF Ready, Height
  <2>2. db[n].height \in 0..N /\ engine[n].height \in 0..db[n].height
        /\ results[db[n].height + 1].ok
    BY DEF IInv, Tables, Driven
  <2>3. db[n].height = N
    BY <2>1, <2>2, <1>1
  <2> QED BY <2>2, <2>3
<1>5. Grows(decided, results, valset, decided', results', valset')
  BY <1>1, <1>3 DEF Grows
<1>6. Chain'
  <2>1. ASSUME NEW h \in 1..Len(decided')
        PROVE  /\ results'[h].ok
               /\ results'[h + 1] = Execute(h, results'[h].st, decided'[h])
               /\ valset'[h + 2] = Applied(valset'[h + 1], results'[h + 1].updates)
    <3>1. CASE h \in 1..N
      <4>1. /\ results'[h] = results[h] /\ results'[h + 1] = results[h + 1]
            /\ decided'[h] = decided[h]
            /\ valset'[h + 1] = valset[h + 1] /\ valset'[h + 2] = valset[h + 2]
        <5>1. h \in 1..(N + 1) /\ h + 1 \in 1..(N + 1) /\ h + 1 \in 1..(N + 2)
              /\ h + 2 \in 1..(N + 2)
          BY <1>1, <3>1
        <5> QED BY <5>1, <3>1, <1>3
      <4> QED BY <4>1, <3>1, <1>1
    <3>2. CASE h = N + 1
      <4>1. results'[h] = results[N + 1] /\ valset'[h + 1] = valset[N + 2]
        <5>1. N + 1 \in 1..(N + 1) /\ h + 1 = N + 2 /\ N + 2 \in 1..(N + 2)
          BY <1>1, <3>2
        <5> QED BY <5>1, <3>2, <1>3
      <4>2. h + 1 = N + 2 /\ h + 2 = N + 3
        BY <1>1, <3>2
      <4> QED BY <4>1, <4>2, <3>2, <1>3, <1>4 DEF result
    <3>3. h \in 1..N \/ h = N + 1
      BY <1>1, <1>3
    <3> QED BY <3>1, <3>2, <3>3
  <2>2. 1 \in 1..(N + 1) /\ N + 2 = N + 1 + 1 /\ N + 3 = N + 1 + 2
    BY <1>1
  <2>3. results'[1] = results[1]
    BY <2>2, <1>3
  <2> QED BY <2>1, <2>2, <2>3, <1>1, <1>3 DEF Chain
<1>7. Governed'
  <2> SUFFICES ASSUME NEW h \in 0..Len(decided'), results'[h + 1].ok
               PROVE  GovernedAt(h, Gov(results'[h + 1].st), valset')
    BY DEF Governed, Gov
  <2>1. CASE h \in 0..N
    <3>1. h + 1 \in 1..(N + 1) /\ h + 1 \in 1..(N + 2) /\ h + 2 \in 1..(N + 2)
      BY <2>1, <1>1
    <3>2. results'[h + 1] = results[h + 1]
      BY <3>1, <1>3
    <3>3. GovernedAt(h, Gov(results[h + 1].st), valset)
      BY <2>1, <3>2 DEF IInv, Governed
    <3>4. \A i \in 1..h : valset'[i] = valset[i]
      <4> TAKE i \in 1..h
      <4>1. i \in 1..(N + 2)
        BY <2>1, <1>1
      <4> QED BY <4>1, <1>3
    <3>5. valset'[h + 1] = valset[h + 1] /\ valset'[h + 2] = valset[h + 2]
      BY <3>1, <1>3
    <3> QED BY <3>2, <3>3, <3>4, <3>5 DEF GovernedAt
  <2>2. CASE h = N + 1
    <3>1. results'[h + 1] = result
      <4>1. h + 1 = N + 2
        BY <2>2, <1>1
      <4> QED BY <4>1, <1>3
    <3>2. GovernedAt(N, Gov(results[N + 1].st), valset)
      BY <1>1, <1>4 DEF IInv, Governed
    <3>3. Signed(block)
      BY ProposalsAreSigned, ExternalAssumption
    <3>4. GovernedAt(N + 1, Gov(result.st), valset')
      <4>1. /\ N \in Nat
            /\ Execute(N + 1, results[N + 1].st, block).ok
            /\ \A i \in 1..(N + 2) : valset'[i] = valset[i]
            /\ valset'[N + 3]
                 = Applied(valset[N + 2], Execute(N + 1, results[N + 1].st, block).updates)
        BY <1>1, <1>3, <3>1 DEF result
      <4>2. GovernedAt(N + 1, Gov(Execute(N + 1, results[N + 1].st, block).st), valset')
        <5> HIDE DEF N
        <5> QED BY ONLY <4>1, <3>2, <3>3, GovernedStep
      <4> QED BY <4>2 DEF result
    <3> QED BY <3>1, <3>4, <2>2
  <2>3. h \in 0..N \/ h = N + 1
    BY <1>1, <1>3
  <2> QED BY <2>1, <2>2, <2>3
<1> QED BY <1>5, <1>6, <1>7

LEMMA DecideKeeps ==
  ASSUME IInv, NEW n \in Node, Ready(n), NEW block \in Proposals(n), Decide(n, block)
  PROVE  IInv'
<1>1. /\ Chain' /\ Governed'
      /\ Grows(decided, results, valset, decided', results', valset')
  BY DecideChain
<1>2. UNCHANGED <<db, engine, late, export, snapshots, session, exports, crashes, overtaken>>
  BY DEF Decide, statesync
<1>3. Functions' /\ Exporting'
  BY <1>2 DEF IInv, Functions, Exporting
<1>4. ASSUME NEW m \in Node
      PROVE  /\ Tables(db'[m], decided', results')
             /\ Driven(engine'[m], db'[m], decided', results', valset')
             /\ Starting(m, engine'[m])
             /\ m \notin overtaken' => InStep(m, engine'[m], db'[m])
             /\ Trusting(session'[m], decided', results')
             /\ Requested(late'[m], decided')
  <2>1. /\ Tables(db[m], decided, results)
        /\ Driven(engine[m], db[m], decided, results, valset)
        /\ Starting(m, engine[m])
        /\ m \notin overtaken => InStep(m, engine[m], db[m])
        /\ Trusting(session[m], decided, results)
        /\ Requested(late[m], decided)
    BY DEF IInv
  <2>2. /\ Tables(db[m], decided', results')
        /\ Driven(engine[m], db[m], decided', results', valset')
        /\ Trusting(session[m], decided', results')
        /\ Requested(late[m], decided')
    BY <2>1, <1>1, TablesGrow, DrivenGrow, TrustingGrow, RequestedGrow
  <2> QED BY <2>1, <2>2, <1>2
<1> QED BY <1>1, <1>3, <1>4 DEF IInv

\* A step of one node that adds no block keeps the invariant if it keeps the
\* node's part of it.
LEMMA NodeStep ==
  ASSUME IInv, UNCHANGED consensus, NEW n \in Node, Functions', Exporting',
         \A m \in Node \ {n} :
           /\ db'[m] = db[m] /\ engine'[m] = engine[m] /\ late'[m] = late[m]
           /\ session'[m] = session[m] /\ (m \in overtaken' <=> m \in overtaken),
         Tables(db'[n], decided, results),
         Driven(engine'[n], db'[n], decided, results, valset),
         Starting(n, engine'[n]),
         n \notin overtaken' => InStep(n, engine'[n], db'[n]),
         Trusting(session'[n], decided, results),
         Requested(late'[n], decided)
  PROVE  IInv'
<1>1. decided' = decided /\ results' = results /\ valset' = valset
  BY DEF consensus
<1>2. Chain' /\ Governed'
  BY <1>1 DEF IInv, Chain, Governed, IsSeq
<1>3. ASSUME NEW m \in Node
      PROVE  /\ Tables(db'[m], decided', results')
             /\ Driven(engine'[m], db'[m], decided', results', valset')
             /\ Starting(m, engine'[m])
             /\ m \notin overtaken' => InStep(m, engine'[m], db'[m])
             /\ Trusting(session'[m], decided', results')
             /\ Requested(late'[m], decided')
  <2>1. CASE m = n
    BY <2>1, <1>1
  <2>2. CASE m # n
    <3>1. /\ Tables(db[m], decided, results)
          /\ Driven(engine[m], db[m], decided, results, valset)
          /\ Starting(m, engine[m])
          /\ m \notin overtaken => InStep(m, engine[m], db[m])
          /\ Trusting(session[m], decided, results)
          /\ Requested(late[m], decided)
      BY DEF IInv
    <3>2. /\ db'[m] = db[m] /\ engine'[m] = engine[m] /\ late'[m] = late[m]
          /\ session'[m] = session[m] /\ (m \in overtaken' <=> m \in overtaken)
      BY <2>2
    <3> QED BY <3>1, <3>2, <1>1
  <2> QED BY <2>1, <2>2
<1> QED BY <1>2, <1>3 DEF IInv

\* What the invariant says of one node.
LEMMA NodeFacts ==
  ASSUME IInv, NEW n \in Node
  PROVE  /\ Executes(decided, results) /\ Len(decided) \in Nat
         /\ Tables(db[n], decided, results)
         /\ Driven(engine[n], db[n], decided, results, valset)
         /\ Starting(n, engine[n])
         /\ n \notin overtaken => InStep(n, engine[n], db[n])
         /\ Trusting(session[n], decided, results)
         /\ Requested(late[n], decided)
         /\ Functions /\ Exporting
BY ChainExecutes DEF IInv

LEMMA ServeFinalizeKeeps ==
  ASSUME IInv, NEW n \in Node, ServeFinalize(n)
  PROVE  IInv'
<1> DEFINE e == engine[n]
           d == db[n]
           h == e.height + 1
<1>1. /\ Executes(decided, results) /\ Len(decided) \in Nat
      /\ Tables(d, decided, results)
      /\ Driven(e, d, decided, results, valset)
      /\ Starting(n, e)
      /\ n \notin overtaken => InStep(n, e, d)
      /\ Trusting(session[n], decided, results)
      /\ Requested(late[n], decided)
      /\ Functions /\ Exporting
  BY NodeFacts
<1>2. /\ UNCHANGED consensus
      /\ UNCHANGED <<late, export, snapshots, session, exports, crashes, overtaken>>
  BY DEF ServeFinalize, statesync
<1>3. DOMAIN db = Node /\ DOMAIN engine = Node
  BY <1>1 DEF Functions
<1>4. /\ e.phase = "idle" /\ e.height < Len(decided) /\ e.height \in Nat
      /\ h \in 1..Len(decided) /\ d.height \in Nat
      /\ DOMAIN e = EngineFields /\ e.reply = None
  <2>1. e.phase = "idle" /\ e.height < Len(decided)
    BY DEF ServeFinalize, Finalizing, Height
  <2>2. e.height \in 0..d.height /\ d.height \in 0..Len(decided)
        /\ DOMAIN e = EngineFields /\ (e.reply # None => e.phase = "save")
    BY <1>1 DEF Driven, Tables
  <2> QED BY <2>1, <2>2, <1>1
<1>5. Exporting'
  BY <1>1, <1>2 DEF Exporting
<1>6. CASE Finalizes(d, h, decided[h])
  <2> DEFINE dd == StageFinalize(d, h, decided[h])
             reply == FinalizeReply(d, h, decided[h])
  <2>1. /\ db' = [db EXCEPT ![n] = dd]
        /\ engine' = [engine EXCEPT ![n] = [e EXCEPT !.phase = "save", !.reply = reply]]
    BY <1>6 DEF ServeFinalize
  <2>2. /\ Tables(dd, decided, results)
        /\ dd.height = d.height
        /\ h <= dd.height \/ dd.pending # None
    BY <1>1, <1>4, <1>6, StageKeeps
  <2>3. /\ reply = [hash |-> AppHash(h, decided[h], results[h + 1].st),
                    updates |-> results[h + 1].updates]
        /\ reply # None
    <3>1. reply = [hash |-> AppHash(h, decided[h], results[h + 1].st),
                   updates |-> results[h + 1].updates]
      <4> HIDE DEF h
      <4> QED BY <1>1, <1>4, <1>6, ReplyIsAnswer
    <3> HIDE DEF reply
    <3> QED BY <3>1, ReplyIsSome
  <2> DEFINE ee == [e EXCEPT !.phase = "save", !.reply = reply]
  <2> HIDE DEF dd, reply
  <2>4. /\ DOMAIN ee = EngineFields /\ ee = [x \in EngineFields |-> ee[x]]
        /\ ee.phase = "save" /\ ee.reply = reply /\ ee.height = e.height
        /\ ee.current = e.current /\ ee.following = e.following /\ ee.saved = e.saved
    BY <1>4 DEF EngineFields
  <2> HIDE DEF ee
  <2>5. h + 1 = e.height + 2 /\ (h <= dd.height => e.height < dd.height)
    BY <1>4, <2>2
  <2>6. Driven(ee, dd, decided, results, valset)
    <3>1. /\ reply.hash = AppHash(e.height + 1, decided[e.height + 1], results[e.height + 2].st)
          /\ reply.updates = results[e.height + 2].updates
          /\ reply = [hash |-> reply.hash, updates |-> reply.updates]
      BY <2>3, <2>5
    <3>2. \A a \in {reply, e.saved} \ {None} :
            /\ e.height < Len(decided)
            /\ a.hash = AppHash(e.height + 1, decided[e.height + 1], results[e.height + 2].st)
            /\ a.updates = results[e.height + 2].updates
            /\ a = [hash |-> a.hash, updates |-> a.updates]
      BY <3>1, <1>1, <1>4 DEF Driven
    <3>3. /\ e.height \in 0..dd.height
          /\ e.current = valset[e.height + 1] /\ e.following = valset[e.height + 2]
      BY <1>1, <2>2 DEF Driven
    <3> QED BY <1>4, <2>2, <2>3, <2>4, <2>5, <3>2, <3>3 DEF Driven
  <2>7. Starting(n, ee) /\ (n \notin overtaken => InStep(n, ee, dd))
    BY <1>1, <1>4, <2>2, <2>4 DEF Starting, InStep
  <2>8. /\ db'[n] = dd /\ engine'[n] = ee
        /\ \A m \in Node \ {n} : db'[m] = db[m] /\ engine'[m] = engine[m]
        /\ DOMAIN db' = Node /\ DOMAIN engine' = Node
    BY <2>1, <1>3 DEF ee
  <2>9. Functions'
    BY <2>8, <1>1, <1>2 DEF Functions
  <2> QED BY <1>1, <1>2, <1>5, <2>2, <2>6, <2>7, <2>8, <2>9, NodeStep
<1>7. CASE ~ Finalizes(d, h, decided[h])
  <2>1. db' = db /\ engine' = [engine EXCEPT ![n] = [e EXCEPT !.phase = "down"]]
    BY <1>7 DEF ServeFinalize
  <2> DEFINE ee == [e EXCEPT !.phase = "down"]
  <2>4. /\ DOMAIN ee = EngineFields /\ ee = [x \in EngineFields |-> ee[x]]
        /\ ee.phase = "down" /\ ee.reply = None /\ ee.height = e.height
        /\ ee.current = e.current /\ ee.following = e.following /\ ee.saved = e.saved
    BY <1>4 DEF EngineFields
  <2> HIDE DEF ee
  <2>6. Driven(ee, d, decided, results, valset)
    BY <1>1, <1>4, <2>4 DEF Driven
  <2>7. Starting(n, ee) /\ (n \notin overtaken => InStep(n, ee, d))
    BY <1>1, <1>4, <2>4 DEF Starting, InStep
  <2>8. /\ engine'[n] = ee /\ \A m \in Node \ {n} : engine'[m] = engine[m]
        /\ DOMAIN engine' = Node
    BY <2>1, <1>3 DEF ee
  <2>9. Functions'
    BY <2>1, <2>8, <1>1, <1>2 DEF Functions
  <2> QED BY <1>1, <1>2, <1>5, <2>1, <2>6, <2>7, <2>8, <2>9, NodeStep
<1> QED BY <1>6, <1>7

LEMMA SaveReplyKeeps ==
  ASSUME IInv, NEW n \in Node, SaveReply(n)
  PROVE  IInv'
<1> DEFINE e == engine[n]
           d == db[n]
           phase == IF Applicable(e.following, e.reply.updates) THEN "commit" ELSE "down"
           ee == [e EXCEPT !.saved = e.reply, !.reply = None, !.phase = phase]
<1>1. /\ Tables(d, decided, results)
      /\ Driven(e, d, decided, results, valset)
      /\ Starting(n, e)
      /\ n \notin overtaken => InStep(n, e, d)
      /\ Trusting(session[n], decided, results)
      /\ Requested(late[n], decided)
      /\ Functions /\ Exporting
  BY NodeFacts
<1>2. /\ UNCHANGED consensus
      /\ UNCHANGED <<db, late, export, snapshots, session, exports, crashes, overtaken>>
      /\ e.phase = "save"
      /\ engine' = [engine EXCEPT ![n] = ee]
  BY DEF SaveReply, statesync
<1>3. DOMAIN engine = Node
  BY <1>1 DEF Functions
<1>4. DOMAIN e = EngineFields /\ e.reply # None
  BY <1>1, <1>2 DEF Driven
<1>5. phase \in {"commit", "down"}
  OBVIOUS
<1> HIDE DEF phase
<1>6. /\ DOMAIN ee = EngineFields /\ ee = [x \in EngineFields |-> ee[x]]
      /\ ee.phase = phase /\ ee.reply = None /\ ee.height = e.height
      /\ ee.current = e.current /\ ee.following = e.following /\ ee.saved = e.reply
  BY <1>4 DEF EngineFields
<1>7. /\ engine'[n] = ee /\ \A m \in Node \ {n} : engine'[m] = engine[m]
      /\ DOMAIN engine' = Node
  BY <1>2, <1>3
<1> HIDE DEF ee
<1>8. Driven(ee, d, decided, results, valset)
  <2>1. /\ e.height \in 0..d.height
        /\ e.current = valset[e.height + 1] /\ e.following = valset[e.height + 2]
        /\ e.height < d.height \/ d.pending # None
    <3>1. /\ Driven(e, d, decided, results, valset) /\ e.phase \in {"save", "commit"}
      BY ONLY <1>1, <1>2
    <3> QED BY ONLY <3>1, Zenon DEF Driven
  <2>2. /\ e.height < Len(decided)
        /\ e.reply.hash = AppHash(e.height + 1, decided[e.height + 1], results[e.height + 2].st)
        /\ e.reply.updates = results[e.height + 2].updates
        /\ e.reply = [hash |-> e.reply.hash, updates |-> e.reply.updates]
    <3>1. Driven(e, d, decided, results, valset) /\ e.reply \in {e.reply, e.saved} \ {None}
      BY ONLY <1>1, <1>4
    <3> QED BY ONLY <3>1, Zenon DEF Driven
  <2>3. \A a \in {ee.reply, ee.saved} \ {None} : a = e.reply
    BY ONLY <1>6
  <2>4. \A a \in {ee.reply, ee.saved} \ {None} :
          /\ ee.height < Len(decided)
          /\ a.hash = AppHash(ee.height + 1, decided[ee.height + 1], results[ee.height + 2].st)
          /\ a.updates = results[ee.height + 2].updates
          /\ a = [hash |-> a.hash, updates |-> a.updates]
    BY ONLY <1>6, <2>2, <2>3, Zenon
  <2>5. /\ ee.height \in 0..d.height
        /\ ee.current = valset[ee.height + 1] /\ ee.following = valset[ee.height + 2]
        /\ ee.height < d.height \/ d.pending # None
    BY ONLY <1>6, <2>1, Zenon
  <2>6. /\ ee.phase \in {"down", "sync", "restore", "idle", "save", "commit", "advance"}
        /\ ee.phase # "save" /\ ee.phase # "advance" /\ ee.phase \notin {"sync", "restore"}
        /\ ee.reply = None /\ ee.saved # None
    BY ONLY <1>4, <1>5, <1>6
  <2> QED BY ONLY <1>6, <2>4, <2>5, <2>6, ZenonT(60) DEF Driven
<1>9. Starting(n, ee) /\ (n \notin overtaken => InStep(n, ee, d))
  BY <1>1, <1>2, <1>5, <1>6 DEF Starting, InStep
<1>10. Functions' /\ Exporting'
  BY <1>1, <1>2, <1>7 DEF Functions, Exporting
<1> QED BY <1>1, <1>2, <1>7, <1>8, <1>9, <1>10, NodeStep

LEMMA ServeCommitKeeps ==
  ASSUME IInv, NEW n \in Node, ServeCommit(n)
  PROVE  IInv'
<1> DEFINE e == engine[n]
           d == db[n]
           dd == CommitPending(d)
           advance == [e EXCEPT !.phase = "advance"]
           down == [e EXCEPT !.phase = "down"]
<1>1. /\ Executes(decided, results) /\ Len(decided) \in Nat
      /\ Tables(d, decided, results)
      /\ Driven(e, d, decided, results, valset)
      /\ Starting(n, e)
      /\ n \notin overtaken => InStep(n, e, d)
      /\ Trusting(session[n], decided, results)
      /\ Requested(late[n], decided)
      /\ Functions /\ Exporting
  BY NodeFacts
<1>2. /\ UNCHANGED consensus
      /\ UNCHANGED <<late, export, snapshots, session, exports, crashes, overtaken>>
      /\ e.phase = "commit"
      /\ \/ Commits(d) /\ db' = [db EXCEPT ![n] = dd]
            /\ engine' = [engine EXCEPT ![n] = advance]
         \/ db' = db /\ engine' = [engine EXCEPT ![n] = down]
  BY DEF ServeCommit, statesync
<1>3. DOMAIN engine = Node /\ DOMAIN db = Node
  BY <1>1 DEF Functions
<1>4. /\ DOMAIN e = EngineFields /\ e.saved # None /\ e.reply = None
      /\ e.height \in 0..d.height /\ d.height \in Nat
      /\ e.height < d.height \/ d.pending # None
  <2>1. e.phase # "save" /\ e.phase \in {"save", "commit"} /\ e.phase \in {"commit", "advance"}
    BY ONLY <1>2
  <2> QED BY <1>1, <2>1, DrivenHeight
<1>5. /\ DOMAIN advance = EngineFields /\ advance = [x \in EngineFields |-> advance[x]]
      /\ advance.phase = "advance" /\ advance.reply = None /\ advance.height = e.height
      /\ advance.current = e.current /\ advance.following = e.following
      /\ advance.saved = e.saved
  BY <1>4 DEF EngineFields
<1>6. /\ DOMAIN down = EngineFields /\ down = [x \in EngineFields |-> down[x]]
      /\ down.phase = "down" /\ down.reply = None /\ down.height = e.height
      /\ down.current = e.current /\ down.following = e.following /\ down.saved = e.saved
  BY <1>4 DEF EngineFields
<1> HIDE DEF dd, advance, down
<1>7. Exporting'
  BY <1>1, <1>2 DEF Exporting
<1>8. CASE Commits(d) /\ db' = [db EXCEPT ![n] = dd] /\ engine' = [engine EXCEPT ![n] = advance]
  <2>1. /\ Tables(dd, decided, results) /\ dd.height \in Nat
        /\ e.height < dd.height
        /\ d.pending # None => dd.height = d.height + 1
    <3>1. CASE d.pending = None
      <4>1. dd = d
        BY <3>1 DEF dd, CommitPending
      <4> QED BY <4>1, <3>1, <1>1, <1>4
    <3>2. CASE d.pending # None
      <4>1. Tables(dd, decided, results) /\ dd.height = d.height + 1
        BY <3>2, <1>1, <1>8, CommitKeeps DEF dd
      <4> QED BY <4>1, <1>4
    <3> QED BY <3>1, <3>2
  <2>2. Driven(advance, dd, decided, results, valset)
    <3>1. e.height \in 0..dd.height
      BY <1>4, <2>1
    <3> QED BY <3>1, <2>1, <1>1, <1>4, <1>5 DEF Driven
  <2>3. Starting(n, advance) /\ (n \notin overtaken => InStep(n, advance, dd))
    <3>1. Starting(n, advance)
      BY <1>1, <1>2, <1>5 DEF Starting
    <3>2. ASSUME n \notin overtaken PROVE InStep(n, advance, dd)
      <4>1. d.height = e.height
        BY <3>2, <1>1, <1>2 DEF InStep
      <4>2. d.pending # None
        BY <4>1, <1>4
      <4> QED BY <4>1, <4>2, <2>1, <1>5 DEF InStep
    <3> QED BY <3>1, <3>2
  <2>4. /\ db'[n] = dd /\ engine'[n] = advance
        /\ \A m \in Node \ {n} : db'[m] = db[m] /\ engine'[m] = engine[m]
        /\ DOMAIN db' = Node /\ DOMAIN engine' = Node
    BY <1>8, <1>3
  <2>5. Functions'
    BY <2>4, <1>1, <1>2 DEF Functions
  <2> QED BY <1>1, <1>2, <1>7, <2>1, <2>2, <2>3, <2>4, <2>5, NodeStep
<1>9. CASE db' = db /\ engine' = [engine EXCEPT ![n] = down]
  <2>2. Driven(down, d, decided, results, valset)
    BY <1>1, <1>4, <1>6 DEF Driven
  <2>3. Starting(n, down) /\ (n \notin overtaken => InStep(n, down, d))
    BY <1>1, <1>2, <1>6 DEF Starting, InStep
  <2>4. /\ engine'[n] = down /\ \A m \in Node \ {n} : engine'[m] = engine[m]
        /\ DOMAIN engine' = Node
    BY <1>9, <1>3
  <2>5. Functions'
    BY <1>9, <2>4, <1>1, <1>2 DEF Functions
  <2> QED BY <1>1, <1>2, <1>7, <1>9, <2>2, <2>3, <2>4, <2>5, NodeStep
<1> QED BY <1>2, <1>8, <1>9

\* The engine moves on by the answer it has saved.
LEMMA AdvancedKeeps ==
  ASSUME IInv, NEW n \in Node, engine[n].saved # None, engine[n].reply = None,
         engine[n].height < db[n].height
  PROVE  LET e == engine[n]
             ee == Advanced(e)
         IN  /\ Driven(ee, db[n], decided, results, valset)
             /\ Starting(n, ee)
             /\ ee.height = e.height + 1 /\ ee.phase = "idle" /\ ee.saved = None
<1> DEFINE e == engine[n]
           d == db[n]
           ee == Advanced(e)
           next == Applied(e.following, e.saved.updates)
<1>1. /\ Executes(decided, results) /\ Len(decided) \in Nat
      /\ Tables(d, decided, results)
      /\ Driven(e, d, decided, results, valset)
  BY NodeFacts
<1>2. /\ DOMAIN e = EngineFields /\ e.following = valset[e.height + 2]
      /\ e.saved.updates = results[e.height + 2].updates
      /\ e.height \in Nat /\ d.height \in 0..Len(decided) /\ e.height \in 0..d.height
  <2>1. \A a \in {e.reply, e.saved} \ {None} : a.updates = results[e.height + 2].updates
    BY <1>1 DEF Driven
  <2>2. e.saved \in {e.reply, e.saved} \ {None}
    OBVIOUS
  <2>3. e.saved.updates = results[e.height + 2].updates
    BY <2>1, <2>2
  <2>4. d.height \in 0..Len(decided)
    BY <1>1 DEF Tables
  <2>5. /\ DOMAIN e = EngineFields /\ e.following = valset[e.height + 2]
        /\ e.height \in 0..d.height
    BY <1>1 DEF Driven
  <2> QED BY <2>3, <2>4, <2>5
<1>3. e.height + 1 \in 1..Len(decided) /\ e.height + 1 \in 0..d.height
  BY <1>1, <1>2
<1>4. next = valset[e.height + 3]
  <2>1. \A h \in 1..Len(decided) : valset[h + 2] = Applied(valset[h + 1], results[h + 1].updates)
    BY DEF IInv, Chain
  <2>2. valset[(e.height + 1) + 2]
          = Applied(valset[(e.height + 1) + 1], results[(e.height + 1) + 1].updates)
    BY ONLY <2>1, <1>3
  <2>3. (e.height + 1) + 2 = e.height + 3 /\ (e.height + 1) + 1 = e.height + 2
    BY <1>2
  <2> QED BY <2>2, <2>3, <1>2
<1> HIDE DEF next
<1>5. ee = [e EXCEPT !.height = e.height + 1, !.current = e.following, !.following = next,
                     !.saved = None, !.phase = "idle"]
  BY DEF Advanced, next
<1>6. /\ DOMAIN ee = EngineFields /\ ee = [x \in EngineFields |-> ee[x]]
      /\ ee.phase = "idle" /\ ee.reply = None /\ ee.height = e.height + 1
      /\ ee.current = e.following /\ ee.following = next /\ ee.saved = None
  BY <1>2, <1>5 DEF EngineFields
<1> HIDE DEF ee
<1>7. /\ (e.height + 1) + 2 = e.height + 3 /\ (e.height + 1) + 1 = e.height + 2
      /\ e.height + 1 # 0
  BY <1>2
<1>8. Driven(ee, d, decided, results, valset)
  BY <1>2, <1>3, <1>4, <1>6, <1>7 DEF Driven
<1>9. Starting(n, ee)
  BY <1>6, <1>7 DEF Starting
<1> QED BY <1>6, <1>8, <1>9 DEF ee

LEMMA SaveStateKeeps ==
  ASSUME IInv, NEW n \in Node, SaveState(n)
  PROVE  IInv'
<1> DEFINE e == engine[n]
           d == db[n]
           ee == Advanced(e)
<1>1. /\ Tables(d, decided, results)
      /\ Driven(e, d, decided, results, valset)
      /\ n \notin overtaken => InStep(n, e, d)
      /\ Trusting(session[n], decided, results)
      /\ Requested(late[n], decided)
      /\ Functions /\ Exporting
  BY NodeFacts
<1>2. /\ UNCHANGED consensus
      /\ UNCHANGED <<db, late, export, snapshots, session, exports, crashes, overtaken>>
      /\ e.phase = "advance"
      /\ engine' = [engine EXCEPT ![n] = ee]
  BY DEF SaveState, statesync
<1>3. e.saved # None /\ e.reply = None /\ e.height < d.height
  BY <1>1, <1>2 DEF Driven
<1>4. /\ Driven(ee, d, decided, results, valset) /\ Starting(n, ee)
      /\ ee.height = e.height + 1 /\ ee.phase = "idle"
  BY <1>3, AdvancedKeeps
<1> HIDE DEF ee
<1>5. n \notin overtaken => InStep(n, ee, d)
  BY <1>1, <1>2, <1>4 DEF InStep
<1>6. /\ engine'[n] = ee /\ \A m \in Node \ {n} : engine'[m] = engine[m]
      /\ DOMAIN engine' = Node
  BY <1>1, <1>2 DEF Functions
<1>7. Functions' /\ Exporting'
  BY <1>1, <1>2, <1>6 DEF Functions, Exporting
<1> QED BY <1>1, <1>2, <1>4, <1>5, <1>6, <1>7, NodeStep

LEMMA RestartKeeps ==
  ASSUME IInv, NEW n \in Node, Restart(n)
  PROVE  IInv'
<1> DEFINE e == engine[n]
           d == db[n]
           sync == [e EXCEPT !.phase = "sync"]
           idle == [e EXCEPT !.phase = "idle", !.saved = None]
           ee == IF n \in Fresh /\ e.height = 0 THEN sync
                 ELSE IF d.height = e.height THEN idle
                 ELSE Advanced(e)
<1>1. /\ Tables(d, decided, results)
      /\ Driven(e, d, decided, results, valset)
      /\ Starting(n, e)
      /\ n \notin overtaken => InStep(n, e, d)
      /\ Trusting(session[n], decided, results)
      /\ Requested(late[n], decided)
      /\ Functions /\ Exporting
  BY NodeFacts
<1>2. /\ UNCHANGED consensus
      /\ UNCHANGED <<db, late, export, snapshots, session, exports, crashes, overtaken>>
      /\ e.phase = "down" /\ Resumable(n)
      /\ engine' = [engine EXCEPT ![n] = ee]
  BY DEF Restart, statesync
<1>3. /\ DOMAIN e = EngineFields /\ e.reply = None
      /\ e.height \in Nat /\ d.height \in Nat
  <2>1. e.phase # "save"
    BY ONLY <1>2
  <2> QED BY <1>1, <2>1, DrivenHeight
<1>4. /\ Driven(ee, d, decided, results, valset)
      /\ Starting(n, ee)
      /\ InStep(n, ee, d)
  <2>1. CASE n \in Fresh /\ e.height = 0
    <3>1. /\ DOMAIN sync = EngineFields /\ sync = [x \in EngineFields |-> sync[x]]
          /\ sync.phase = "sync" /\ sync.reply = None /\ sync.height = e.height
          /\ sync.current = e.current /\ sync.following = e.following
          /\ sync.saved = e.saved
      BY <1>3 DEF EngineFields
    <3>2. e.saved = None
      BY <1>1, <2>1 DEF Starting
    <3> HIDE DEF sync
    <3>3. Driven(sync, d, decided, results, valset) /\ Starting(n, sync) /\ InStep(n, sync, d)
      BY <1>1, <1>3, <2>1, <3>1, <3>2 DEF Driven, Starting, InStep
    <3> QED BY <3>3, <2>1
  <2>2. CASE ~ (n \in Fresh /\ e.height = 0) /\ d.height = e.height
    <3>1. /\ DOMAIN idle = EngineFields /\ idle = [x \in EngineFields |-> idle[x]]
          /\ idle.phase = "idle" /\ idle.reply = None /\ idle.height = e.height
          /\ idle.current = e.current /\ idle.following = e.following
          /\ idle.saved = None
      BY <1>3 DEF EngineFields
    <3> HIDE DEF idle
    <3>2. Driven(idle, d, decided, results, valset) /\ Starting(n, idle) /\ InStep(n, idle, d)
      BY <1>1, <1>3, <2>2, <3>1 DEF Driven, Starting, InStep
    <3> QED BY <3>2, <2>2
  <2>3. CASE ~ (n \in Fresh /\ e.height = 0) /\ d.height # e.height
    <3>1. d.height = e.height + 1 /\ e.saved # None
      BY <1>2, <2>3 DEF Resumable
    <3>2. e.height < d.height
      BY <3>1, <1>3
    <3> DEFINE adv == Advanced(e)
    <3>3. /\ Driven(adv, d, decided, results, valset) /\ Starting(n, adv)
          /\ adv.height = e.height + 1 /\ adv.phase = "idle"
      BY <3>1, <3>2, <1>3, AdvancedKeeps
    <3> HIDE DEF adv
    <3>4. InStep(n, adv, d)
      BY <3>1, <3>3 DEF InStep
    <3> QED BY <3>3, <3>4, <2>3 DEF adv
  <2> QED BY <2>1, <2>2, <2>3
<1> HIDE DEF ee
<1>5. /\ engine'[n] = ee /\ \A m \in Node \ {n} : engine'[m] = engine[m]
      /\ DOMAIN engine' = Node
  BY <1>1, <1>2 DEF Functions
<1>6. Functions' /\ Exporting'
  BY <1>1, <1>2, <1>5 DEF Functions, Exporting
<1> QED BY <1>1, <1>2, <1>4, <1>5, <1>6, NodeStep

LEMMA CrashKeeps ==
  ASSUME IInv, NEW n \in Node, NEW served \in BOOLEAN, Crash(n, served)
  PROVE  IInv'
<1> DEFINE e == engine[n]
           d == db[n]
           ee == [e EXCEPT !.phase = "down", !.reply = None]
           rs == IF served THEN late[n] \cup Waiting(n) ELSE {}
<1>1. /\ Tables(d, decided, results) /\ Len(decided) \in Nat
      /\ Driven(e, d, decided, results, valset)
      /\ Starting(n, e)
      /\ n \notin overtaken => InStep(n, e, d)
      /\ Requested(late[n], decided)
      /\ Functions /\ Exporting
  BY NodeFacts
<1>2. /\ UNCHANGED consensus
      /\ UNCHANGED <<db, export, snapshots, exports>>
      /\ e.phase \notin {"down", "sync"}
      /\ engine' = [engine EXCEPT ![n] = ee]
      /\ late' = [late EXCEPT ![n] = rs]
      /\ overtaken' = IF e.phase = "restore" /\ d.height > 0
                        THEN overtaken \cup {n} ELSE overtaken
      /\ session' = [session EXCEPT ![n] = None]
  BY DEF Crash
<1>3. /\ DOMAIN e = EngineFields /\ e.height \in Nat /\ d.height \in Nat
      /\ e.phase \in {"restore", "idle", "save", "commit", "advance"}
  <2>1. /\ DOMAIN e = EngineFields /\ e.height \in Nat /\ d.height \in Nat
        /\ e.phase \in {"down", "sync", "restore", "idle", "save", "commit", "advance"}
    BY <1>1, DrivenHeight
  <2> QED BY ONLY <1>2, <2>1
<1>4. /\ DOMAIN ee = EngineFields /\ ee = [x \in EngineFields |-> ee[x]]
      /\ ee.phase = "down" /\ ee.reply = None /\ ee.height = e.height
      /\ ee.current = e.current /\ ee.following = e.following /\ ee.saved = e.saved
  BY <1>3 DEF EngineFields
<1>5. Requested(rs, decided)
  <2>1. \A r \in Waiting(n) : r.call = "finalize" => r.height \in 1..Len(decided)
    <3>1. Waiting(n) # {} => Finalizing(n) \/ e.phase = "commit"
      BY DEF Waiting
    <3>2. CASE Finalizing(n)
      <4>1. Waiting(n) = {[call |-> "finalize", height |-> e.height + 1]}
        BY <3>2 DEF Waiting
      <4>2. e.height + 1 \in 1..Len(decided)
        BY <3>2, <1>1, <1>3 DEF Finalizing, Height
      <4> QED BY <4>1, <4>2
    <3>3. CASE ~ Finalizing(n)
      <4>1. \A r \in Waiting(n) : r = [call |-> "commit", height |-> 0]
        BY <3>3 DEF Waiting
      <4> QED BY <4>1
    <3> QED BY <3>2, <3>3
  <2> QED BY <2>1, <1>1 DEF Requested
<1> HIDE DEF ee, rs
<1>6. Driven(ee, d, decided, results, valset)
  <2>1. PICK f, b, c, res, vals : f = e /\ b = d /\ c = decided /\ res = results /\ vals = valset
    OBVIOUS
  <2>2. Driven(f, b, c, res, vals)
    BY <1>1, <2>1
  <2>3. /\ DOMAIN ee = EngineFields /\ ee = [x \in EngineFields |-> ee[x]]
        /\ ee.phase = "down" /\ ee.reply = None /\ ee.height = f.height
        /\ ee.current = f.current /\ ee.following = f.following /\ ee.saved = f.saved
    BY <1>4, <2>1
  <2>4. /\ f.height \in 0..b.height
        /\ f.current = vals[f.height + 1] /\ f.following = vals[f.height + 2]
        /\ \A a \in {f.saved} \ {None} :
             /\ f.height < Len(c)
             /\ a.hash = AppHash(f.height + 1, c[f.height + 1], res[f.height + 2].st)
             /\ a.updates = res[f.height + 2].updates
             /\ a = [hash |-> a.hash, updates |-> a.updates]
    BY ONLY <2>2 DEF Driven
  <2>5. Driven(ee, b, c, res, vals)
    BY ONLY <2>3, <2>4 DEF Driven
  <2> QED BY <2>1, <2>5
<1>7. Starting(n, ee)
  BY <1>1, <1>3, <1>4 DEF Starting
<1>8. n \notin overtaken' => InStep(n, ee, d)
  <2> SUFFICES ASSUME n \notin overtaken' PROVE InStep(n, ee, d)
    OBVIOUS
  <2>1. InStep(n, e, d)
    BY <1>1, <1>2
  <2>2. CASE e.phase = "restore"
    BY <2>2, <1>1, <1>4 DEF Starting, InStep
  <2>3. CASE e.phase \in {"idle", "save", "commit"}
    BY <2>3, <2>1, <1>4 DEF InStep
  <2>4. CASE e.phase = "advance"
    BY <2>4, <2>1, <1>1, <1>4 DEF InStep, Driven
  <2> QED BY <2>2, <2>3, <2>4, <1>3
<1>9. /\ engine'[n] = ee /\ late'[n] = rs /\ session'[n] = None
      /\ \A m \in Node \ {n} : /\ engine'[m] = engine[m] /\ late'[m] = late[m]
                               /\ session'[m] = session[m]
                               /\ (m \in overtaken' <=> m \in overtaken)
      /\ DOMAIN engine' = Node /\ DOMAIN late' = Node /\ DOMAIN session' = Node
  BY <1>1, <1>2 DEF Functions
<1>10. Functions' /\ Exporting'
  BY <1>1, <1>2, <1>9 DEF Functions, Exporting
<1>11. Trusting(None, decided, results)
  BY DEF Trusting
<1> QED BY <1>1, <1>2, <1>5, <1>6, <1>7, <1>8, <1>9, <1>10, <1>11, NodeStep

\* Tables that move on under an engine that waits for nothing of them.
LEMMA DrivenByLate ==
  ASSUME NEW e, NEW d, NEW dd, NEW blocks, NEW res, NEW vals,
         Driven(e, d, blocks, res, vals),
         d.height \in Nat, dd.height \in Nat, d.height <= dd.height,
         d.pending # None => d.height < dd.height \/ dd.pending # None
  PROVE  Driven(e, dd, blocks, res, vals)
<1>1. e.height \in 0..dd.height
  BY DEF Driven
<1>2. e.phase \in {"save", "commit"} => e.height < dd.height \/ dd.pending # None
  BY DEF Driven
<1>3. e.phase = "advance" => e.height < dd.height
  BY DEF Driven
<1> QED BY <1>1, <1>2, <1>3 DEF Driven

LEMMA ServeLateKeeps ==
  ASSUME IInv, NEW n \in Node, NEW r \in late[n], ServeLate(n, r)
  PROVE  IInv'
<1> DEFINE e == engine[n]
           d == db[n]
           staged == StageFinalize(d, r.height, decided[r.height])
           committed == CommitPending(d)
           dd == IF r.call = "finalize"
                   THEN IF Finalizes(d, r.height, decided[r.height]) THEN staged ELSE d
                   ELSE IF Commits(d) THEN committed ELSE d
<1>1. /\ Executes(decided, results) /\ Len(decided) \in Nat
      /\ Tables(d, decided, results)
      /\ Driven(e, d, decided, results, valset)
      /\ Starting(n, e)
      /\ n \notin overtaken => InStep(n, e, d)
      /\ Trusting(session[n], decided, results)
      /\ Requested(late[n], decided)
      /\ Functions /\ Exporting
  BY NodeFacts
<1>2. /\ UNCHANGED consensus
      /\ UNCHANGED <<engine, export, snapshots, session, exports>>
      /\ late' = [late EXCEPT ![n] = late[n] \ {r}]
      /\ db' = [db EXCEPT ![n] = dd]
      /\ overtaken' = IF r.call # "finalize" /\ Commits(d) /\ d.pending # None
                        THEN overtaken \cup {n} ELSE overtaken
  BY DEF ServeLate, statesync
<1>3. d.height \in Nat
  BY <1>1 DEF Tables
<1>4. /\ Tables(dd, decided, results) /\ dd.height \in Nat /\ d.height <= dd.height
      /\ d.pending # None => d.height < dd.height \/ dd.pending # None
      /\ n \notin overtaken' => dd.height = d.height
  <2>1. CASE r.call = "finalize" /\ Finalizes(d, r.height, decided[r.height])
    <3>1. r.height \in 1..Len(decided)
      BY <1>1, <2>1 DEF Requested
    <3>2. /\ Tables(staged, decided, results) /\ staged.height = d.height
          /\ d.pending # None => staged.pending # None
      BY <1>1, <3>1, <2>1, StageKeeps
    <3>3. dd = staged
      BY <2>1
    <3> HIDE DEF dd, staged
    <3> QED BY <3>2, <3>3, <1>3
  <2>2. CASE r.call # "finalize" /\ Commits(d) /\ d.pending # None
    <3>1. Tables(committed, decided, results) /\ committed.height = d.height + 1
      BY <1>1, <2>2, CommitKeeps
    <3>2. dd = committed /\ n \in overtaken'
      BY <2>2, <1>2
    <3> HIDE DEF dd, committed
    <3> QED BY <3>1, <3>2, <1>3
  <2>3. CASE ~ (r.call = "finalize" /\ Finalizes(d, r.height, decided[r.height]))
             /\ ~ (r.call # "finalize" /\ Commits(d) /\ d.pending # None)
    <3>1. dd = d
      BY <2>3 DEF CommitPending
    <3> HIDE DEF dd
    <3> QED BY <3>1, <1>1, <1>3
  <2> QED BY <2>1, <2>2, <2>3
<1> HIDE DEF dd
<1>5. Driven(e, dd, decided, results, valset)
  BY <1>1, <1>3, <1>4, DrivenByLate
<1>6. n \notin overtaken' => InStep(n, e, dd)
  BY <1>1, <1>2, <1>4 DEF InStep
<1>7. Requested(late[n] \ {r}, decided)
  BY <1>1 DEF Requested
<1>8. /\ db'[n] = dd /\ late'[n] = late[n] \ {r}
      /\ \A m \in Node \ {n} : /\ db'[m] = db[m] /\ late'[m] = late[m]
                               /\ (m \in overtaken' <=> m \in overtaken)
      /\ DOMAIN db' = Node /\ DOMAIN late' = Node
  BY <1>1, <1>2 DEF Functions
<1>9. Functions' /\ Exporting'
  BY <1>1, <1>2, <1>8 DEF Functions, Exporting
<1> QED BY <1>1, <1>2, <1>4, <1>5, <1>6, <1>7, <1>8, <1>9, NodeStep

LEMMA ExportReadKeeps ==
  ASSUME IInv, NEW n \in Node, ExportRead(n)
  PROVE  IInv'
<1> DEFINE i == Len(export[n]) + 1
           x == ReadField(db[n], Field[i])
<1>1. /\ Len(decided) \in Nat /\ Tables(db[n], decided, results)
      /\ Driven(engine[n], db[n], decided, results, valset)
      /\ Starting(n, engine[n])
      /\ n \notin overtaken => InStep(n, engine[n], db[n])
      /\ Trusting(session[n], decided, results)
      /\ Requested(late[n], decided)
      /\ Functions /\ Exporting
  BY NodeFacts
<1>2. /\ UNCHANGED <<consensus, db, engine, late, snapshots, session, crashes, overtaken>>
      /\ i \in DOMAIN Field
      /\ export' = [export EXCEPT ![n] = Append(export[n], x)]
  BY DEF ExportRead
<1>3. i \in {3, 6, 7} => x.height \in Nat
  <2>1. Field[3] = "head" /\ Field[6] = "head" /\ Field[7] = "head"
    BY DEF Field
  <2>2. i \in {3, 6, 7} => x.height = db[n].height
    BY <2>1 DEF ReadField
  <2>3. db[n].height \in Nat
    BY <1>1, TablesHeight
  <2> QED BY ONLY <2>2, <2>3
<1> HIDE DEF x
<1>4. /\ IsSeq(export[n])
      /\ \A j \in DOMAIN export[n] \cap {3, 6, 7} : export[n][j].height \in Nat
  BY <1>1 DEF Exporting
<1>5. /\ IsSeq(Append(export[n], x))
      /\ \A j \in DOMAIN Append(export[n], x) \cap {3, 6, 7} :
           Append(export[n], x)[j].height \in Nat
  <2> DEFINE t == Append(export[n], x)
             s == export[n]
  <2>1. /\ IsSeq(t) /\ Len(s) \in Nat /\ Len(t) = Len(s) + 1
        /\ \A j \in 1..Len(s) : t[j] = s[j]
        /\ t[Len(s) + 1] = x
    BY <1>4, AppendFacts
  <2>2. DOMAIN t = 1..Len(t) /\ DOMAIN s = 1..Len(s)
    BY <2>1, <1>4 DEF IsSeq
  <2> HIDE DEF t
  <2>3. \A j \in DOMAIN t : j \in DOMAIN s \/ j = i
    BY <2>1, <2>2
  <2>4. t[i] = x /\ \A j \in DOMAIN s : t[j] = s[j]
    BY <2>1, <2>2
  <2>5. \A j \in DOMAIN t \cap {3, 6, 7} : t[j].height \in Nat
    <3> HIDE DEF i
    <3> QED BY <2>3, <2>4, <1>3, <1>4
  <2> QED BY <2>1, <2>5 DEF t
<1>6. /\ DOMAIN export' = Node /\ export'[n] = Append(export[n], x)
      /\ \A m \in Node \ {n} : export'[m] = export[m]
  BY <1>1, <1>2 DEF Functions
<1>7. Exporting'
  BY <1>1, <1>2, <1>5, <1>6 DEF Exporting
<1>8. Functions'
  BY <1>1, <1>2, <1>6 DEF Functions
<1> QED BY <1>1, <1>2, <1>7, <1>8, NodeStep

LEMMA PublishKeeps ==
  ASSUME IInv, NEW n \in Node, Publish(n)
  PROVE  IInv'
<1>1. /\ Tables(db[n], decided, results)
      /\ Driven(engine[n], db[n], decided, results, valset)
      /\ Starting(n, engine[n])
      /\ n \notin overtaken => InStep(n, engine[n], db[n])
      /\ Trusting(session[n], decided, results)
      /\ Requested(late[n], decided)
      /\ Functions /\ Exporting
  BY NodeFacts
<1>2. /\ UNCHANGED <<consensus, db, engine, late, session, crashes, overtaken>>
      /\ Len(export[n]) = Len(Field)
      /\ export' = [export EXCEPT ![n] = <<>>]
      /\ snapshots' \subseteq snapshots \cup {Body(export[n])}
  BY DEF Publish
<1>3. Body(export[n]).height \in Nat
  <2>1. Len(Field) = 7
    BY DEF Field
  <2>2. 7 \in DOMAIN export[n] \cap {3, 6, 7}
    BY <2>1, <1>1, <1>2 DEF Exporting, IsSeq
  <2>3. export[n][7].height \in Nat
    BY <2>2, <1>1 DEF Exporting
  <2> QED BY <2>3 DEF Body
<1>4. /\ DOMAIN export' = Node /\ export'[n] = <<>>
      /\ \A m \in Node \ {n} : export'[m] = export[m]
  BY <1>1, <1>2 DEF Functions
<1>5. IsSeq(<<>>) /\ DOMAIN <<>> = {}
  BY DEF IsSeq
<1>6. Exporting'
  BY <1>1, <1>2, <1>3, <1>4, <1>5 DEF Exporting
<1>7. Functions'
  BY <1>1, <1>2, <1>4 DEF Functions
<1> QED BY <1>1, <1>2, <1>6, <1>7, NodeStep

\* A session trusts the hash of a block that others have executed.
LEMMA OfferKeeps ==
  ASSUME IInv, NEW n \in Node, NEW h \in Nat, NEW content, Offer(n, h, content)
  PROVE  IInv'
<1> DEFINE e == engine[n]
           d == db[n]
           ee == [e EXCEPT !.phase = "restore"]
           s == [height |-> h, trusted |-> Trusted(h), content |-> content, received |-> {}]
<1>1. /\ Tables(d, decided, results) /\ Len(decided) \in Nat
      /\ Driven(e, d, decided, results, valset)
      /\ Starting(n, e)
      /\ Requested(late[n], decided)
      /\ Functions /\ Exporting
  BY NodeFacts
<1>2. /\ UNCHANGED consensus
      /\ UNCHANGED <<db, late, export, snapshots, crashes, exports, overtaken>>
      /\ e.phase = "sync" /\ Trustable(h)
      /\ engine' = [engine EXCEPT ![n] = ee]
      /\ session' = [session EXCEPT ![n] = s]
  BY DEF Offer
<1>3. DOMAIN e = EngineFields /\ e.reply = None /\ e.saved = None
  BY <1>1, <1>2 DEF Driven
<1>4. /\ DOMAIN ee = EngineFields /\ ee = [x \in EngineFields |-> ee[x]]
      /\ ee.phase = "restore" /\ ee.reply = None /\ ee.height = e.height
      /\ ee.current = e.current /\ ee.following = e.following /\ ee.saved = e.saved
  BY <1>3 DEF EngineFields
<1>5. Trusting(s, decided, results)
  <2>1. h \in 1..(Len(decided) - 1)
    BY <1>1, <1>2 DEF Trustable, Height
  <2>2. /\ DOMAIN s = {"height", "trusted", "content", "received"}
        /\ s.height = h /\ s.trusted = AppHash(h, decided[h], results[h + 1].st)
    BY DEF Trusted
  <2> HIDE DEF s
  <2> QED BY <2>1, <2>2 DEF Trusting
<1> HIDE DEF ee, s
<1>6. Driven(ee, d, decided, results, valset)
  BY <1>1, <1>3, <1>4 DEF Driven
<1>7. Starting(n, ee) /\ InStep(n, ee, d)
  BY <1>1, <1>2, <1>3, <1>4 DEF Starting, InStep
<1>8. /\ engine'[n] = ee /\ session'[n] = s
      /\ \A m \in Node \ {n} : engine'[m] = engine[m] /\ session'[m] = session[m]
      /\ DOMAIN engine' = Node /\ DOMAIN session' = Node
  BY <1>1, <1>2 DEF Functions
<1>9. Functions' /\ Exporting'
  BY <1>1, <1>2, <1>8 DEF Functions, Exporting
<1> QED BY <1>1, <1>2, <1>5, <1>6, <1>7, <1>8, <1>9, NodeStep

\* The last chunk imports a trusted state or nothing.
LEMMA ApplyChunkKeeps ==
  ASSUME IInv, NEW n \in Node, NEW c \in Chunk, ApplyChunk(n, c)
  PROVE  IInv'
<1> DEFINE e == engine[n]
           d == db[n]
           s == session[n]
           received == s.received \cup {c}
           accepted == Authentic(s) /\ Pristine(d)
           dd == IF received = Chunk /\ accepted THEN Imported(s.content) ELSE d
           ee == [e EXCEPT !.phase = IF received = Chunk /\ ~accepted THEN "sync" ELSE e.phase]
           ss == IF received = Chunk /\ ~accepted THEN None
                                                   ELSE [s EXCEPT !.received = received]
<1>1. /\ Executes(decided, results) /\ Len(decided) \in Nat
      /\ Tables(d, decided, results)
      /\ Driven(e, d, decided, results, valset)
      /\ Starting(n, e)
      /\ Trusting(s, decided, results)
      /\ Requested(late[n], decided)
      /\ Functions /\ Exporting
  BY NodeFacts
<1>2. /\ UNCHANGED consensus
      /\ UNCHANGED <<late, export, snapshots, crashes, exports, overtaken>>
      /\ e.phase = "restore" /\ s # None
      /\ engine' = [engine EXCEPT ![n] = ee]
      /\ session' = [session EXCEPT ![n] = ss]
      /\ db' = [db EXCEPT ![n] = dd]
  BY DEF ApplyChunk
<1>3. DOMAIN e = EngineFields /\ e.reply = None /\ e.saved = None /\ e.height = 0
  BY <1>1, <1>2 DEF Driven, Starting
<1>4. /\ DOMAIN ee = EngineFields /\ ee = [x \in EngineFields |-> ee[x]]
      /\ ee.phase \in {"restore", "sync"} /\ ee.reply = None /\ ee.height = e.height
      /\ ee.current = e.current /\ ee.following = e.following /\ ee.saved = e.saved
  BY <1>2, <1>3 DEF EngineFields
<1>5. Trusting(ss, decided, results)
  <2>1. CASE received = Chunk /\ ~accepted
    BY <2>1 DEF Trusting
  <2>2. CASE ~ (received = Chunk /\ ~accepted)
    <3>1. ss = [s EXCEPT !.received = received]
      BY <2>2
    <3>2. DOMAIN s = {"height", "trusted", "content", "received"}
      BY <1>1, <1>2 DEF Trusting
    <3> HIDE DEF ss, s
    <3>3. /\ DOMAIN ss = {"height", "trusted", "content", "received"}
          /\ ss.height = s.height /\ ss.trusted = s.trusted
      BY <3>1, <3>2
    <3> QED BY <3>3, <1>1, <1>2 DEF Trusting
  <2> QED BY <2>1, <2>2
<1>6. Tables(dd, decided, results)
  <2>1. CASE received = Chunk /\ accepted
    <3>1. Tables(Imported(s.content), decided, results)
      BY <1>1, <1>2, <2>1, ImportKeeps
    <3>2. dd = Imported(s.content)
      BY <2>1
    <3> QED BY <3>1, <3>2
  <2>2. CASE ~ (received = Chunk /\ accepted)
    <3>1. dd = d
      BY <2>2
    <3> QED BY <3>1, <1>1
  <2> QED BY <2>1, <2>2
<1> HIDE DEF ee, ss, dd
<1>7. Driven(ee, dd, decided, results, valset)
  <2>1. dd.height \in Nat
    BY <1>6 DEF Tables
  <2>2. ee.height \in 0..dd.height
    BY <1>3, <1>4, <2>1
  <2> QED BY <2>2, <1>1, <1>3, <1>4 DEF Driven
<1>8. Starting(n, ee) /\ InStep(n, ee, dd)
  BY <1>1, <1>2, <1>3, <1>4 DEF Starting, InStep
<1>9. /\ db'[n] = dd /\ engine'[n] = ee /\ session'[n] = ss
      /\ \A m \in Node \ {n} : /\ db'[m] = db[m] /\ engine'[m] = engine[m]
                               /\ session'[m] = session[m]
      /\ DOMAIN db' = Node /\ DOMAIN engine' = Node /\ DOMAIN session' = Node
  BY <1>1, <1>2 DEF Functions
<1>10. Functions' /\ Exporting'
  BY <1>1, <1>2, <1>9 DEF Functions, Exporting
<1> QED BY <1>1, <1>2, <1>5, <1>6, <1>7, <1>8, <1>9, <1>10, NodeStep

\* The engine starts with the sets of the height that was restored.
LEMMA FinishRestoreKeeps ==
  ASSUME IInv, NEW n \in Node, FinishRestore(n)
  PROVE  IInv'
<1> DEFINE e == engine[n]
           d == db[n]
           s == session[n]
           ee == [e EXCEPT !.height = s.height, !.phase = "idle",
                           !.current = valset[s.height + 1],
                           !.following = valset[s.height + 2]]
<1>1. /\ Tables(d, decided, results)
      /\ Driven(e, d, decided, results, valset)
      /\ Trusting(s, decided, results)
      /\ Requested(late[n], decided)
      /\ Functions /\ Exporting
  BY NodeFacts
<1>2. /\ UNCHANGED consensus
      /\ UNCHANGED <<db, late, export, snapshots, crashes, exports, overtaken>>
      /\ e.phase = "restore" /\ s # None /\ d.height = s.height
      /\ engine' = [engine EXCEPT ![n] = ee]
      /\ session' = [session EXCEPT ![n] = None]
  BY DEF FinishRestore
<1>3. DOMAIN e = EngineFields /\ e.reply = None /\ e.saved = None
  BY <1>1, <1>2 DEF Driven
<1>4. s.height \in Nat /\ s.height # 0
  BY <1>1, <1>2 DEF Trusting
<1>5. /\ DOMAIN ee = EngineFields /\ ee = [x \in EngineFields |-> ee[x]]
      /\ ee.phase = "idle" /\ ee.reply = None /\ ee.height = s.height
      /\ ee.current = valset[s.height + 1] /\ ee.following = valset[s.height + 2]
      /\ ee.saved = None
  BY <1>3 DEF EngineFields
<1> HIDE DEF ee
<1>6. Driven(ee, d, decided, results, valset)
  <2>1. ee.height \in 0..d.height
    BY <1>2, <1>4, <1>5
  <2> QED BY <2>1, <1>5 DEF Driven
<1>7. Starting(n, ee) /\ InStep(n, ee, d)
  BY <1>2, <1>4, <1>5 DEF Starting, InStep
<1>8. /\ engine'[n] = ee /\ session'[n] = None
      /\ \A m \in Node \ {n} : engine'[m] = engine[m] /\ session'[m] = session[m]
      /\ DOMAIN engine' = Node /\ DOMAIN session' = Node
  BY <1>1, <1>2 DEF Functions
<1>9. Functions' /\ Exporting' /\ Trusting(None, decided, results)
  BY <1>1, <1>2, <1>8 DEF Functions, Exporting, Trusting
<1> QED BY <1>1, <1>2, <1>6, <1>7, <1>8, <1>9, NodeStep

LEMMA NextKeeps ==
  ASSUME IInv, Next
  PROVE  IInv'
<1>1. PICK n \in Node :
        \/ Ready(n) /\ \E block \in Proposals(n) : Decide(n, block)
        \/ Engine(n) \/ StateSync(n)
        \/ \E served \in BOOLEAN : Crash(n, served)
        \/ \E r \in late[n] : ServeLate(n, r)
  BY DEF Next
<1>2. CASE Ready(n) /\ \E block \in Proposals(n) : Decide(n, block)
  BY <1>2, DecideKeeps
<1>3. CASE Engine(n)
  BY <1>3, ServeFinalizeKeeps, SaveReplyKeeps, ServeCommitKeeps, SaveStateKeeps,
     RestartKeeps DEF Engine
<1>4. CASE StateSync(n)
  <2>1. ASSUME NEW s \in snapshots, OfferPublished(n, s) PROVE IInv'
    <3> DEFINE h == s.height
    <3>1. h \in Nat
      BY DEF IInv, Exporting
    <3>2. Offer(n, h, s)
      BY <2>1 DEF OfferPublished
    <3> HIDE DEF h
    <3> QED BY <3>1, <3>2, OfferKeeps
  <2>2. ASSUME NEW h \in 1..(Height - 2), OfferForged(n, h) PROVE IInv'
    <3> DEFINE forged == [height |-> h, block |-> decided[h], st |-> results[h].st]
    <3>1. h \in Nat
      OBVIOUS
    <3>2. Offer(n, h, forged)
      BY <2>2 DEF OfferForged
    <3> HIDE DEF forged
    <3> QED BY <3>1, <3>2, OfferKeeps
  <2> QED BY <2>1, <2>2, <1>4, ExportReadKeeps, PublishKeeps, FinishRestoreKeeps,
             ApplyChunkKeeps DEF StateSync
<1>5. CASE \E served \in BOOLEAN : Crash(n, served)
  BY <1>5, CrashKeeps
<1>6. CASE \E r \in late[n] : ServeLate(n, r)
  BY <1>6, ServeLateKeeps
<1> QED BY <1>1, <1>2, <1>3, <1>4, <1>5, <1>6

LEMMA StepKeeps ==
  ASSUME IInv, [Next]_vars
  PROVE  IInv'
<1>1. CASE Next
  BY <1>1, NextKeeps
<1>2. CASE UNCHANGED vars
  BY <1>2 DEF vars, IInv, Chain, Governed, Functions, Exporting, IsSeq
<1> QED BY <1>1, <1>2

-----------------------------------------------------------------------------
(* The steps of the nodes are steps of AtomicLedger.                       *)

\* A step that moves no tables on is invisible.
LEMMA LedgerStutters ==
  ASSUME UNCHANGED consensus,
         \A m \in Node : db'[m].height = db[m].height /\ db'[m].st = db[m].st
  PROVE  [Ledger!Next]_(Ledger!vars)
<1>1. results' = results
  BY DEF consensus
<1>2. [n \in Node |-> [height |-> db'[n].height, st |-> db'[n].st]]
        = [n \in Node |-> [height |-> db[n].height, st |-> db[n].st]]
  OBVIOUS
<1> QED BY <1>1, <1>2 DEF Ledger!vars

\* A node's tables take the result of height h: the next one, or any from genesis.
LEMMA LedgerMoves ==
  ASSUME UNCHANGED consensus, NEW n \in Node, NEW h, h + 1 \in DOMAIN results,
         h = db[n].height + 1 \/ (db[n].height = 0 /\ h > 0 /\ h \in DOMAIN results),
         results[h + 1].ok, db'[n].height = h, db'[n].st = results[h + 1].st,
         \A m \in Node \ {n} : db'[m] = db[m]
  PROVE  [Ledger!Next]_(Ledger!vars)
<1> DEFINE at(d) == [height |-> d.height, st |-> d.st]
           mapped == [i \in DOMAIN results |-> [ok |-> results[i].ok, st |-> results[i].st]]
           replica == [m \in Node |-> at(db[m])]
<1>1. results' = results
  BY DEF consensus
<1>2. /\ h + 1 \in DOMAIN mapped
      /\ mapped[h + 1].ok /\ mapped[h + 1].st = results[h + 1].st
  OBVIOUS
<1>3. [m \in Node |-> at(db'[m])]
        = [replica EXCEPT ![n] = [height |-> h, st |-> mapped[h + 1].st]]
  BY <1>2
<1>4. replica[n].height = db[n].height /\ DOMAIN mapped = DOMAIN results
  OBVIOUS
<1>5. CASE h = db[n].height + 1
  <2>1. Ledger!Apply(n)
    BY <1>1, <1>2, <1>3, <1>4, <1>5 DEF Ledger!Apply, Ledger!Holds
  <2> QED BY <2>1 DEF Ledger!Next
<1>6. CASE db[n].height = 0 /\ h > 0 /\ h \in DOMAIN results
  <2>1. Ledger!Restore(n, h)
    BY <1>1, <1>2, <1>3, <1>4, <1>6 DEF Ledger!Restore, Ledger!Holds
  <2>2. \E k \in DOMAIN mapped : Ledger!Restore(n, k)
    BY <2>1, <1>4, <1>6
  <2> QED BY <2>2 DEF Ledger!Next
<1> QED BY <1>5, <1>6

\* A decision extends the results, the last of which could be executed.
LEMMA LedgerDecides ==
  ASSUME IInv, NEW n \in Node, Ready(n), NEW block \in Proposals(n), Decide(n, block)
  PROVE  Ledger!Decide
<1> DEFINE Mapped(res) == [i \in DOMAIN res |-> [ok |-> res[i].ok, st |-> res[i].st]]
           N == Len(decided)
<1>1. /\ Grows(decided, results, valset, decided', results', valset')
      /\ Chain /\ Chain'
  BY DecideChain DEF IInv
<1>2. /\ N \in Nat /\ Len(decided') = N + 1
      /\ IsSeq(results) /\ Len(results) = N + 1
      /\ IsSeq(results') /\ Len(results') = N + 2
      /\ \A i \in 1..(N + 1) : results'[i] = results[i]
  <2>1. N \in Nat /\ Len(decided') = N + 1
        /\ \A i \in 1..(N + 1) : results'[i] = results[i]
    BY <1>1 DEF Grows
  <2>2. Len(results') = Len(decided') + 1 /\ Len(results) = N + 1
        /\ IsSeq(results) /\ IsSeq(results')
    BY <1>1 DEF Chain
  <2> QED BY <2>1, <2>2
<1>3. DOMAIN results = 1..(N + 1) /\ DOMAIN results' = 1..(N + 2)
  BY <1>2 DEF IsSeq
<1>4. ASSUME NEW res, NEW k \in Nat, DOMAIN res = 1..k
      PROVE  Len(Mapped(res)) = k
  <2> DEFINE m == Mapped(res)
  <2>1. DOMAIN m = 1..k /\ m = [i \in 1..k |-> m[i]]
    BY <1>4
  <2> HIDE DEF m
  <2>2. \A i \in 1..k : m[i] \in Range(m)
    BY <2>1 DEF Range
  <2>3. m \in [1..k -> Range(m)]
    BY <2>1, <2>2
  <2>4. m \in Seq(Range(m))
    BY ONLY <2>3, k \in Nat
  <2>5. Len(m) = k
    BY ONLY <2>1, <2>4, k \in Nat
  <2> QED BY <2>5 DEF m
<1>5. Len(Mapped(results)) = N + 1 /\ Len(Mapped(results')) = N + 2
  BY <1>2, <1>3, <1>4
<1>6. N + 1 \in DOMAIN results /\ results[N + 1].ok
  <2>1. engine[n].height = N
    BY DEF Ready, Height
  <2>2. db[n].height \in 0..N /\ engine[n].height \in 0..db[n].height
        /\ results[db[n].height + 1].ok
    BY DEF IInv, Tables, Driven
  <2>3. db[n].height = N
    BY <2>1, <2>2, <1>2
  <2> QED BY <2>2, <2>3, <1>2, <1>3
<1>7. \A i \in DOMAIN results : Mapped(results')[i] = Mapped(results)[i]
  <2>1. \A i \in DOMAIN results : i \in DOMAIN results' /\ results'[i] = results[i]
    BY <1>2, <1>3
  <2> QED BY <2>1
<1>8. Mapped(results)[N + 1].ok /\ DOMAIN Mapped(results) = DOMAIN results
  BY <1>6
<1>9. UNCHANGED db
  BY DEF Decide
<1>10. (N + 1) + 1 = N + 2
  BY <1>2
<1> QED BY <1>5, <1>7, <1>8, <1>9, <1>10 DEF Ledger!Decide

\* What a commit or a late commit does to the tables.
LEMMA LedgerCommits ==
  ASSUME IInv, UNCHANGED consensus, NEW n \in Node, Commits(db[n]),
         db' = [db EXCEPT ![n] = CommitPending(db[n])]
  PROVE  [Ledger!Next]_(Ledger!vars)
<1> DEFINE d == db[n]
           dd == CommitPending(d)
<1>1. /\ Executes(decided, results) /\ Len(decided) \in Nat
      /\ Tables(d, decided, results) /\ DOMAIN db = Node
  BY NodeFacts DEF Functions
<1>2. db'[n] = dd /\ \A m \in Node \ {n} : db'[m] = db[m]
  BY <1>1
<1>3. CASE d.pending = None
  <2>1. dd = d
    BY <1>3 DEF CommitPending
  <2> HIDE DEF dd
  <2>2. \A m \in Node : db'[m] = db[m]
    BY <2>1, <1>2
  <2> QED BY <2>2, LedgerStutters
<1>4. CASE d.pending # None
  <2>1. /\ dd.height = d.height + 1 /\ d.height + 1 \in 1..Len(decided)
        /\ results[d.height + 2].ok /\ dd.st = results[d.height + 2].st
    <3>1. Tables(dd, decided, results) /\ dd.height = d.height + 1
      BY <1>1, <1>4, CommitKeeps
    <3> HIDE DEF dd
    <3>2. /\ dd.height \in 0..Len(decided) /\ d.height \in Nat
          /\ results[dd.height + 1].ok /\ dd.st = results[dd.height + 1].st
      BY <3>1, <1>1, TablesHeight
    <3>3. (d.height + 1) + 1 = d.height + 2
      BY ONLY <3>2
    <3> QED BY <3>1, <3>2, <3>3, <1>1
  <2> HIDE DEF dd
  <2>2. d.height \in Nat
    BY <1>1 DEF Tables
  <2>3. (d.height + 1) + 1 = d.height + 2 /\ (d.height + 1) + 1 \in DOMAIN results
    <3>1. IsSeq(results) /\ Len(results) = Len(decided) + 1
      BY DEF IInv, Chain
    <3>2. DOMAIN results = 1..(Len(decided) + 1)
      BY <3>1 DEF IsSeq
    <3> QED BY <3>2, <2>1, <2>2, <1>1
  <2> DEFINE h == d.height + 1
  <2>4. /\ h + 1 \in DOMAIN results /\ results[h + 1].ok
        /\ db'[n].height = h /\ db'[n].st = results[h + 1].st
    BY <2>1, <2>3, <1>2
  <2>5. h = db[n].height + 1
    OBVIOUS
  <2> HIDE DEF h
  <2> QED BY <2>4, <2>5, <1>2, LedgerMoves
<1> QED BY <1>3, <1>4

\* A snapshot is imported into tables that hold no block.
LEMMA LedgerImports ==
  ASSUME IInv, NEW n \in Node, NEW c \in Chunk, ApplyChunk(n, c)
  PROVE  [Ledger!Next]_(Ledger!vars)
<1> DEFINE d == db[n]
           s == session[n]
           accepted == s.received \cup {c} = Chunk /\ Authentic(s) /\ Pristine(d)
           dd == IF accepted THEN Imported(s.content) ELSE d
<1>1. /\ Executes(decided, results) /\ Len(decided) \in Nat
      /\ Trusting(s, decided, results) /\ DOMAIN db = Node
  BY NodeFacts DEF Functions
<1>2. UNCHANGED consensus /\ s # None /\ db' = [db EXCEPT ![n] = dd]
  BY DEF ApplyChunk
<1>3. db'[n] = dd /\ \A m \in Node \ {n} : db'[m] = db[m]
  BY <1>1, <1>2
<1>4. CASE ~ accepted
  <2>1. dd = d
    BY <1>4
  <2> HIDE DEF dd
  <2>2. \A m \in Node : db'[m] = db[m]
    BY <2>1, <1>3
  <2> QED BY <2>2, <1>2, LedgerStutters
<1>5. CASE accepted
  <2> DEFINE h == s.height
  <2>1. dd = Imported(s.content) /\ d.height = 0
    BY <1>5 DEF Pristine, NewDb
  <2>2. dd.height = h /\ dd.st = results[h + 1].st
    BY <2>1, <1>1, <1>2, <1>5, ImportKeeps
  <2> HIDE DEF dd
  <2>3. h \in 1..(Len(decided) - 1)
    BY <1>1, <1>2 DEF Trusting
  <2>4. h + 1 \in DOMAIN results /\ h \in DOMAIN results /\ results[h + 1].ok
    <3>1. IsSeq(results) /\ Len(results) = Len(decided) + 1
      BY DEF IInv, Chain
    <3>2. DOMAIN results = 1..(Len(decided) + 1)
      BY <3>1 DEF IsSeq
    <3>3. results[h + 1].ok
      BY <2>3, <1>1 DEF Executes
    <3> QED BY <3>2, <3>3, <2>3, <1>1
  <2>5. db'[n].height = h /\ db'[n].st = results[h + 1].st /\ h > 0
    BY <2>2, <2>3, <1>3
  <2> HIDE DEF h
  <2> QED BY <2>1, <2>4, <2>5, <1>2, <1>3, LedgerMoves
<1> QED BY <1>4, <1>5

\* Every step of the nodes is a step of the ledger or leaves it alone.
LEMMA LedgerStep ==
  ASSUME IInv, [Next]_vars
  PROVE  [Ledger!Next]_(Ledger!vars)
<1>1. CASE UNCHANGED vars
  <2>1. UNCHANGED consensus /\ UNCHANGED db
    BY <1>1 DEF vars, consensus
  <2> QED BY <2>1, LedgerStutters
<1>2. CASE Next
  <2>1. PICK n \in Node :
          \/ Ready(n) /\ \E block \in Proposals(n) : Decide(n, block)
          \/ Engine(n) \/ StateSync(n)
          \/ \E served \in BOOLEAN : Crash(n, served)
          \/ \E r \in late[n] : ServeLate(n, r)
    BY <1>2 DEF Next
  <2> DEFINE d == db[n]
  <2>2. /\ Executes(decided, results) /\ Len(decided) \in Nat
        /\ Tables(d, decided, results) /\ Requested(late[n], decided)
        /\ d.height \in Nat /\ DOMAIN db = Node /\ engine[n].height \in Nat
    <3>1. /\ Executes(decided, results) /\ Len(decided) \in Nat
          /\ Tables(d, decided, results) /\ Requested(late[n], decided)
          /\ DOMAIN db = Node /\ Driven(engine[n], d, decided, results, valset)
      BY NodeFacts DEF Functions
    <3>2. d.height \in Nat
      BY ONLY <3>1 DEF Tables
    <3>3. engine[n].height \in Nat
      BY ONLY <3>1 DEF Driven
    <3> QED BY ONLY <3>1, <3>2, <3>3
  <2>3. ASSUME UNCHANGED consensus, NEW h \in 1..Len(decided),
               Finalizes(d, h, decided[h]),
               db' = [db EXCEPT ![n] = StageFinalize(d, h, decided[h])]
        PROVE  [Ledger!Next]_(Ledger!vars)
    <3> DEFINE dd == StageFinalize(d, h, decided[h])
    <3>1. dd.height = d.height /\ dd.st = d.st
      BY <2>2, <2>3, StageKeeps
    <3>2. db'[n] = dd /\ \A m \in Node \ {n} : db'[m] = db[m]
      BY <2>2, <2>3
    <3> HIDE DEF dd
    <3>3. \A m \in Node : db'[m].height = db[m].height /\ db'[m].st = db[m].st
      BY <3>1, <3>2
    <3> QED BY <3>3, <2>3, LedgerStutters
  <2>4. CASE UNCHANGED consensus /\ UNCHANGED db
    BY <2>4, LedgerStutters
  <2>5. CASE Ready(n) /\ \E block \in Proposals(n) : Decide(n, block)
    BY <2>5, LedgerDecides DEF Ledger!Next
  <2>6. CASE Engine(n)
    <3>1. CASE ServeFinalize(n)
      <4> DEFINE h == engine[n].height + 1
      <4>1. h \in 1..Len(decided)
        BY <3>1, <2>2 DEF ServeFinalize, Finalizing, Height
      <4>2. CASE Finalizes(d, h, decided[h])
        <5>1. UNCHANGED consensus /\ db' = [db EXCEPT ![n] = StageFinalize(d, h, decided[h])]
          BY <3>1, <4>2 DEF ServeFinalize
        <5> HIDE DEF h
        <5> QED BY <5>1, <4>1, <4>2, <2>3
      <4>3. CASE ~ Finalizes(d, h, decided[h])
        BY <4>3, <3>1, <2>4 DEF ServeFinalize
      <4> QED BY <4>2, <4>3
    <3>2. CASE ServeCommit(n)
      <4>1. /\ UNCHANGED consensus
            /\ \/ Commits(d) /\ db' = [db EXCEPT ![n] = CommitPending(d)]
               \/ UNCHANGED db
        BY <3>2 DEF ServeCommit
      <4> QED BY <4>1, <2>4, LedgerCommits
    <3>3. CASE SaveReply(n) \/ SaveState(n) \/ Restart(n)
      BY <3>3, <2>4 DEF SaveReply, SaveState, Restart
    <3> QED BY <2>6, <3>1, <3>2, <3>3 DEF Engine
  <2>7. CASE StateSync(n)
    <3>1. CASE \E c \in Chunk : ApplyChunk(n, c)
      BY <3>1, LedgerImports
    <3>2. CASE ~ \E c \in Chunk : ApplyChunk(n, c)
      BY <3>2, <2>7, <2>4 DEF StateSync, ExportRead, Publish, FinishRestore,
         OfferPublished, OfferForged, Offer
    <3> QED BY <3>1, <3>2
  <2>8. CASE \E served \in BOOLEAN : Crash(n, served)
    BY <2>8, <2>4 DEF Crash
  <2>9. CASE \E r \in late[n] : ServeLate(n, r)
    <3>1. PICK r \in late[n] : ServeLate(n, r)
      BY <2>9
    <3> DEFINE h == r.height
    <3>2. UNCHANGED consensus
      BY <3>1 DEF ServeLate
    <3>3. CASE r.call = "finalize" /\ Finalizes(d, h, decided[h])
      <4>1. h \in 1..Len(decided)
        BY <3>1, <3>3, <2>2 DEF Requested
      <4>2. db' = [db EXCEPT ![n] = StageFinalize(d, h, decided[h])]
        BY <3>1, <3>3 DEF ServeLate
      <4>3. Finalizes(d, h, decided[h])
        BY <3>3
      <4> HIDE DEF h
      <4> QED BY <3>2, <4>1, <4>2, <4>3, <2>3
    <3>4. CASE r.call # "finalize" /\ Commits(d)
      <4>1. db' = [db EXCEPT ![n] = CommitPending(d)]
        BY <3>1, <3>4 DEF ServeLate
      <4> QED BY <3>2, <3>4, <4>1, LedgerCommits
    <3>5. CASE ~ (r.call = "finalize" /\ Finalizes(d, h, decided[h]))
               /\ ~ (r.call # "finalize" /\ Commits(d))
      <4>1. db' = [db EXCEPT ![n] = d]
        BY <3>1, <3>5 DEF ServeLate
      <4>2. \A m \in Node : db'[m] = db[m]
        BY <4>1, <2>2
      <4> QED BY <3>2, <4>2, LedgerStutters
    <3> QED BY <3>3, <3>4, <3>5
  <2> QED BY <2>1, <2>5, <2>6, <2>7, <2>8, <2>9
<1> QED BY <1>1, <1>2

LEMMA LedgerInit ==
  ASSUME Init
  PROVE  Ledger!Init
<1> DEFINE mapped == [i \in DOMAIN results |-> [ok |-> results[i].ok, st |-> results[i].st]]
           first == [ok |-> TRUE, st |-> GenesisState, updates |-> <<>>]
<1>1. results = << first >> /\ \A n \in Node : db[n] = NewDb
  BY DEF Init
<1>2. DOMAIN results = {1} /\ results[1].ok = TRUE /\ results[1].st = GenesisState
  BY <1>1
<1>3. mapped = << [ok |-> TRUE, st |-> GenesisState] >>
  <2> DEFINE x == [ok |-> TRUE, st |-> GenesisState]
  <2>1. mapped = [i \in {1} |-> x]
    BY <1>2
  <2> HIDE DEF x, mapped
  <2>2. << x >> \in Seq({x}) /\ Len(<< x >>) = 1 /\ << x >>[1] = x
    OBVIOUS
  <2>3. << x >> = [i \in 1..1 |-> << x >>[i]]
    BY <2>2
  <2>4. 1..1 = {1}
    OBVIOUS
  <2>5. mapped = << x >>
    BY <2>1, <2>2, <2>3, <2>4
  <2> QED BY <2>5 DEF x
<1>4. [n \in Node |-> [height |-> db[n].height, st |-> db[n].st]]
        = [r \in Node |-> [height |-> 0, st |-> GenesisState]]
  BY <1>1 DEF NewDb
<1> QED BY <1>3, <1>4 DEF Ledger!Init

-----------------------------------------------------------------------------
(* The theorems.                                                           *)

\* The inductive invariant holds in every reachable state.
THEOREM IInvariant == Spec => []IInv
BY InitIInv, StepKeeps, PTL DEF Spec

\* Nodes that executed a height hold the one result of the decided blocks.
THEOREM ReplicasAgreeAlways == Spec => []ReplicasAgree
<1>1. IInv => ReplicasAgree
  <2> SUFFICES ASSUME IInv, NEW n \in Node
               PROVE  /\ db[n].height <= Height /\ results[db[n].height + 1].ok
                      /\ db[n].st = results[db[n].height + 1].st
    BY DEF ReplicasAgree
  <2>1. PICK d, blocks, res : d = db[n] /\ blocks = decided /\ res = results
    OBVIOUS
  <2>2. Tables(d, blocks, res) /\ Len(blocks) \in Nat
    BY <2>1, NodeFacts
  <2>3. d.height \in 0..Len(blocks) /\ res[d.height + 1].ok /\ d.st = res[d.height + 1].st
    BY ONLY <2>2 DEF Tables
  <2>4. d.height <= Len(blocks)
    BY ONLY <2>2, <2>3
  <2> QED BY <2>1, <2>3, <2>4 DEF Height
<1> QED BY <1>1, IInvariant, PTL

\* Every repetition of FinalizeBlock, and what an engine saved, is one answer.
THEOREM RepliesAgreeAlways == Spec => []RepliesAgree
<1>1. IInv => RepliesAgree
  <2> SUFFICES ASSUME IInv, NEW n \in Node
               PROVE  /\ \A reply \in {engine[n].reply, engine[n].saved} \ {None} :
                           reply = Answer(engine[n].height + 1)
                      /\ \A h \in 1..Height :
                           Finalizes(db[n], h, decided[h]) =>
                             FinalizeReply(db[n], h, decided[h]) = Answer(h)
    BY DEF RepliesAgree
  <2> DEFINE e == engine[n]
  <2>1. /\ Executes(decided, results) /\ Len(decided) \in Nat
        /\ Tables(db[n], decided, results)
        /\ Driven(e, db[n], decided, results, valset)
    BY NodeFacts
  <2>2. ASSUME NEW a \in {e.reply, e.saved} \ {None} PROVE a = Answer(e.height + 1)
    <3>1. /\ a.hash = AppHash(e.height + 1, decided[e.height + 1], results[e.height + 2].st)
          /\ a.updates = results[e.height + 2].updates
          /\ a = [hash |-> a.hash, updates |-> a.updates]
          /\ e.height \in 0..db[n].height
      BY <2>1 DEF Driven
    <3>2. (e.height + 1) + 1 = e.height + 2
      BY <2>1, DrivenHeight
    <3> QED BY <3>1, <3>2 DEF Answer, Trusted
  <2>3. ASSUME NEW h \in 1..Height, Finalizes(db[n], h, decided[h])
        PROVE  FinalizeReply(db[n], h, decided[h]) = Answer(h)
    <3>1. h \in 1..Len(decided)
      BY DEF Height
    <3> QED BY <2>1, <2>3, <3>1, ReplyIsAnswer DEF Answer, Trusted
  <2> QED BY <2>2, <2>3
<1> QED BY <1>1, IInvariant, PTL

\* Engine and application use one set of validators at every height, and the
\* members of that set approved the next.
THEOREM SetChangesAgreedAlways == Spec => []SetChangesAgreed
<1>1. ASSUME IInv, NEW n \in Node
      PROVE  LET h == db[n].height
                 gov == Gov(db[n].st)
             IN  /\ GovernedAt(h, gov, valset)
                 /\ engine[n].height = h =>
                      engine[n].current = valset[h + 1] /\ engine[n].following = valset[h + 2]
  <2> DEFINE h == db[n].height
  <2>1. /\ Tables(db[n], decided, results)
        /\ Driven(engine[n], db[n], decided, results, valset)
    BY <1>1, NodeFacts
  <2>2. h \in 0..Len(decided) /\ results[h + 1].ok /\ db[n].st = results[h + 1].st
    BY <2>1 DEF Tables
  <2>3. GovernedAt(h, Gov(db[n].st), valset)
    BY <1>1, <2>2 DEF IInv, Governed
  <2>4. engine[n].height = h =>
          engine[n].current = valset[h + 1] /\ engine[n].following = valset[h + 2]
    BY <2>1 DEF Driven
  <2> QED BY <2>3, <2>4
<1>2. IInv => EngineFollowsGovernance
  BY <1>1 DEF EngineFollowsGovernance, GovernedAt, Following
<1>3. IInv => QuorumBehindEveryChange
  <2> SUFFICES ASSUME IInv, NEW n \in Node, db[n].st.change # NoChange
               PROVE  LET c == db[n].st.change
                      IN  /\ c.source = valset[c.emit]
                          /\ c.approvals \subseteq Members(valset[c.emit])
                          /\ Quorum(valset[c.emit], c.approvals)
    BY DEF QuorumBehindEveryChange
  <2>1. GovernedAt(db[n].height, Gov(db[n].st), valset)
    BY <1>1
  <2>2. Gov(db[n].st).change = db[n].st.change
    BY DEF Gov
  <2> QED BY <2>1, <2>2 DEF GovernedAt
<1>4. IInv => SetChangesAgreed
  BY <1>2, <1>3 DEF SetChangesAgreed
<1> QED BY <1>4, IInvariant, PTL

\* A restart finds the application where the handshake can repair it.
THEOREM HandshakeSucceedsAlways == Spec => []HandshakeSucceeds
<1>1. IInv => HandshakeSucceeds
  BY NodeFacts DEF HandshakeSucceeds, InStep, Resumable
<1> QED BY <1>1, IInvariant, PTL

\* Staging, answers and repetitions are invisible: the nodes apply whole blocks.
THEOREM LedgerImplemented == Spec => ImplementsAtomicLedger
BY LedgerInit, LedgerStep, IInvariant, PTL DEF Spec, ImplementsAtomicLedger, Ledger!Spec

=============================================================================

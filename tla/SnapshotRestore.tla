---------------------------- MODULE SnapshotRestore ----------------------------
(***************************************************************************)
(* The restoring side of state sync: comet_state_sync(_v21).py takes the   *)
(* offers and chunks CometBFT hands it, keeps them in session.json and one *)
(* file per chunk, and external_state_sync(_v21).py verifies and imports   *)
(* the whole.  Peers may send anything; only the application hash beside   *)
(* an offer was checked by the light client.  A call of the bridge that    *)
(* timed out goes on running beside the next one, and the process may be   *)
(* killed between any two writes.                                          *)
(*                                                                         *)
(* A hash is the value hashed.  A payload is a sequence of pieces          *)
(* [of |-> snapshot, part |-> i], and decodes when it is all of one        *)
(* snapshot; a snapshot [state, app] is the state it holds and the         *)
(* application hash it claims for it.                                      *)
(***************************************************************************)
EXTENDS Naturals, Sequences, FiniteSets

CONSTANTS Handlers,       \* calls that may run at the same time
          Genuine,        \* the state the chain has at each height
          Offers,         \* what peers may offer: [height, genesis, metadata]
          Snapshots,      \* what the chunks they send may be pieces of
          MaxDisruptions, \* bound: kills, calls overlapping
          Pristine,       \* the database of a node that has run nothing
          NoSession,      \* no session.json
          Truncated       \* a file a killed write left unreadable

\* A snapshot is of a node that has run something.
ASSUME RestoreAssumption == \A s \in Snapshots : s.state # Pristine

VARIABLES imported,       \* Pristine, or the state in the database
          session,        \* session.json
          chunks,         \* chunk-NNNNNN.bin, by index
          receipt,        \* last-completed.json: the state, or NoSession
          call,           \* handler -> how far its call is, and what it holds
          disruptions,    \* how many of the disruptions bounded above happened
          cut             \* history: the session was disturbed since it was opened

restoreVars == <<imported, session, chunks, receipt, call, disruptions, cut>>

Piece(snapshot, i) == [of |-> snapshot, part |-> i]
Payload(snapshot) == <<Piece(snapshot, 1), Piece(snapshot, 2)>>

Rest == [at |-> "off", held |-> NoSession, index |-> 0]

RestoreInit ==
  /\ imported = Pristine
  /\ session = NoSession
  /\ chunks = << >>
  /\ receipt = NoSession
  /\ call = [h \in Handlers |-> Rest]
  /\ disruptions = 0
  /\ cut = FALSE

\* A call comes alone, or while one that timed out still runs.
Comes(h) ==
  /\ call[h].at = "off"
  /\ \/ /\ \A g \in Handlers : call[g].at = "off"
        /\ UNCHANGED <<disruptions, cut>>
     \/ /\ \E g \in Handlers : call[g].at # "off"
        /\ disruptions < MaxDisruptions
        /\ disruptions' = disruptions + 1
        /\ cut' = TRUE

Goes(h, at, held) ==
  call' = [call EXCEPT ![h] = [at |-> at, held |-> held, index |-> 0]]

-----------------------------------------------------------------------------
\* Nothing was committed or staged, and accounts and validators are those of
\* the genesis file.
IsPristine == imported = Pristine

\* offer_snapshot, up to its first write.
Acceptable(offer) ==
  LET metadata == offer.metadata
  IN /\ offer.genesis
     /\ metadata.height = offer.height
     /\ metadata.app = Genuine[offer.height]
     /\ Len(metadata.hashes) > 0

Offer(h) ==
  /\ Comes(h)
  /\ IsPristine
  /\ \E offer \in Offers :
       /\ Acceptable(offer)
       /\ Goes(h, "forget",
               [height |-> offer.height, metadata |-> offer.metadata,
                trusted |-> Genuine[offer.height], received |-> {}])
  /\ UNCHANGED <<imported, session, chunks, receipt>>

\* The chunks of an earlier offer are removed before its session is replaced.
ForgetChunks(h) ==
  /\ call[h].at = "forget"
  /\ chunks' = << >>
  /\ Goes(h, "open", call[h].held)
  /\ UNCHANGED <<imported, session, receipt, disruptions, cut>>

\* Opened by a call that runs alone, a session owes nothing to what came before.
OpenSession(h) ==
  /\ call[h].at = "open"
  /\ session' = call[h].held
  /\ Goes(h, "off", NoSession)
  /\ cut' = (cut /\ \/ ~IsPristine
                    \/ \E g \in Handlers \ {h} : call[g].at # "off")
  /\ UNCHANGED <<imported, chunks, receipt, disruptions>>

-----------------------------------------------------------------------------
Readable == session \notin {NoSession, Truncated}

\* apply_chunk answers RETRY, and nothing changes, when the chunk is not the
\* one the metadata names.
Receive(h) ==
  /\ Comes(h)
  /\ Readable
  /\ \E i \in DOMAIN session.metadata.hashes, s \in Snapshots, part \in 1..2 :
       /\ Piece(s, part) = session.metadata.hashes[i]
       /\ call' = [call EXCEPT ![h] =
            [at |-> "chunk", held |-> [session EXCEPT !.received = @ \cup {i}],
             index |-> i]]
  /\ UNCHANGED <<imported, session, chunks, receipt>>

WriteChunkFile(h) ==
  LET i == call[h].index
  IN /\ call[h].at = "chunk"
     /\ chunks' = [n \in DOMAIN chunks \cup {i} |->
                     IF n = i THEN call[h].held.metadata.hashes[i] ELSE chunks[n]]
     /\ Goes(h, "count", call[h].held)
     /\ UNCHANGED <<imported, session, receipt, disruptions, cut>>

CountChunk(h) ==
  LET held == call[h].held
  IN /\ call[h].at = "count"
     /\ session' = held
     /\ IF held.received = DOMAIN held.metadata.hashes
          THEN Goes(h, "verify", held)
          ELSE Goes(h, "off", NoSession)
     /\ UNCHANGED <<imported, chunks, receipt, disruptions, cut>>

-----------------------------------------------------------------------------
\* What the files decode to: nothing unless they are all of one snapshot.
Decoded(files) == {s \in Snapshots : files = Payload(s)}

\* Mutant: a snapshot that is consistent in itself is good enough.
VerifiedAlone(snapshot, held) ==
  /\ snapshot.app = snapshot.state
  /\ snapshot.state.height = held.height

\* verify_external_snapshot: self-consistent, and the state that is trusted.
Verified(snapshot, held) ==
  /\ snapshot.app = snapshot.state
  /\ snapshot.state.height = held.height
  /\ snapshot.app = held.trusted

\* The checks that come before the import; any that fails leaves the session
\* and the chunks as they are, and CometBFT is told REJECT_SNAPSHOT.
VerifySession(h) ==
  LET held == call[h].held
      good == {s \in Decoded(chunks) :
                 /\ chunks = held.metadata.transport
                 /\ Verified(s, held)
                 /\ held.metadata.artifact = s
                 /\ imported = Pristine}
  IN /\ call[h].at = "verify"
     /\ IF good = {} THEN Goes(h, "off", NoSession)
                     ELSE \E s \in good : Goes(h, "import", s.state)
     /\ UNCHANGED <<imported, session, chunks, receipt, disruptions, cut>>

\* One transaction.
Import(h) ==
  /\ call[h].at = "import"
  /\ imported' = call[h].held
  /\ Goes(h, "receipt", call[h].held)
  /\ UNCHANGED <<session, chunks, receipt, disruptions, cut>>

WriteReceipt(h) ==
  /\ call[h].at = "receipt"
  /\ receipt' = call[h].held
  /\ Goes(h, "close", NoSession)
  /\ UNCHANGED <<imported, session, chunks, disruptions, cut>>

CloseSession(h) ==
  /\ call[h].at = "close"
  /\ session' = NoSession
  /\ Goes(h, "sweep", NoSession)
  /\ UNCHANGED <<imported, chunks, receipt, disruptions, cut>>

SweepChunks(h) ==
  /\ call[h].at = "sweep"
  /\ chunks' = << >>
  /\ Goes(h, "off", NoSession)
  /\ UNCHANGED <<imported, session, receipt, disruptions, cut>>

-----------------------------------------------------------------------------
\* A kill stops every call; a file being written may be left cut short.
Killed ==
  /\ \E h \in Handlers : call[h].at # "off"
  /\ disruptions < MaxDisruptions
  /\ disruptions' = disruptions + 1
  /\ call' = [h \in Handlers |-> Rest]
  /\ cut' = (cut \/ \E h \in Handlers : call[h].at = "open")
  /\ \/ UNCHANGED <<session, chunks>>
     \/ /\ \E h \in Handlers : call[h].at \in {"open", "count"}
        /\ session' = Truncated
        /\ UNCHANGED chunks
     \/ \E h \in Handlers :
          /\ call[h].at = "chunk"
          /\ chunks' = [n \in DOMAIN chunks \cup {call[h].index} |->
                          IF n = call[h].index THEN Truncated ELSE chunks[n]]
          /\ UNCHANGED session
  /\ UNCHANGED <<imported, receipt>>

RestoreNext ==
  \/ Killed
  \/ \E h \in Handlers :
       \/ Offer(h)
       \/ ForgetChunks(h)
       \/ OpenSession(h)
       \/ Receive(h)
       \/ WriteChunkFile(h)
       \/ CountChunk(h)
       \/ VerifySession(h)
       \/ Import(h)
       \/ WriteReceipt(h)
       \/ CloseSession(h)
       \/ SweepChunks(h)

RestoreSpec == RestoreInit /\ [][RestoreNext]_restoreVars

-----------------------------------------------------------------------------
(***************************************************************************)
(* Whatever peers offer and send, and wherever the process is killed, the  *)
(* database is that of a fresh node or the whole state the light client    *)
(* trusts at its height, and a receipt is one of a state that is there     *)
(* (of the very state, unless calls overlapped: they may restore two).     *)
(***************************************************************************)
RestoredIsTrusted ==
  /\ imported # Pristine => imported = Genuine[imported.height]
  /\ receipt # NoSession => imported # Pristine /\ (cut \/ receipt = imported)

(***************************************************************************)
(* What the session counts as received is on disk as it was named, so that *)
(* a node killed in the middle of a restore goes on with what it has.      *)
(* (A chunk sent a second time may have been cut short by a kill.)  A kill *)
(* between the two writes of an offer breaks this, and so does a call that *)
(* overlaps another and may write back a session that was replaced: the    *)
(* session counts chunks that are not there, until the next offer that is  *)
(* taken by a call alone opens a session for which it holds again.         *)
(***************************************************************************)
CountedChunksOnDisk ==
  \/ cut \/ ~Readable
  \/ \E h \in Handlers : call[h].at = "open"
  \/ \A i \in session.received :
       /\ i \in DOMAIN chunks
       /\ chunks[i] \in {session.metadata.hashes[i], Truncated}

(***************************************************************************)
(* A restore ends with the trusted state or nothing, and a session that    *)
(* nothing disturbed since it was opened can go on until then.             *)
(***************************************************************************)
RestoreIsSound == RestoredIsTrusted /\ CountedChunksOnDisk
================================================================================

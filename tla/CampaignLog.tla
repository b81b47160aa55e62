----------------------------- MODULE CampaignLog -----------------------------
(***************************************************************************)
(* The campaign log of pow_campaign_v36.py and its collector,              *)
(* run_pow_campaign_v36.py: an entry names the one before it by hash, and  *)
(* nobody appends to a log that does not verify.  Reading and appending    *)
(* are two steps without a lock; a kill may cut a line short.              *)
(***************************************************************************)
EXTENDS Naturals, SequencesExt

CONSTANTS Writers,        \* processes that append
          MaxTime,        \* bound: the clock
          MaxEntries,     \* bound: lines in the log
          MaxKills,       \* bound: kills, clock set back
          NoEntry         \* no previous entry

VARIABLES time,           \* what time.time() returns
          kills,          \* how many of the faults bounded above happened
          log,            \* the lines of the file
          writer,         \* process -> what it read of the log
          disturbed       \* history: torn write, overlap, or clock set back

logVars == <<time, kills, log, writer, disturbed>>

AtRest == [at |-> "idle", head |-> NoEntry]

LogInit ==
  /\ time = 0 /\ kills = 0
  /\ log = << >>
  /\ writer = [w \in Writers |-> AtRest]
  /\ disturbed = FALSE

\* A line is an entry or what a killed write left of one.
Torn == [id |-> 0, previous |-> NoEntry, time |-> 0]

\* verify_campaign_log; the hash an entry is known by is its number here.
Verifies(records) ==
  /\ \A i \in DOMAIN records : records[i] # Torn
  /\ \A i \in DOMAIN records \ {1} :
       /\ records[i].previous = records[i - 1].id
       /\ records[i].time >= records[i - 1].time

\* Mutant: the next entry names the first one.
ReadLogFirst(w) ==
  /\ writer[w].at = "idle"
  /\ Len(log) < MaxEntries
  /\ Verifies(log)
  /\ writer' = [writer EXCEPT ![w] =
       [at |-> "read", head |-> IF log = << >> THEN NoEntry ELSE Head(log).id]]
  /\ disturbed' = (disturbed \/ \E d \in Writers : writer[d].at = "read")
  /\ UNCHANGED <<time, kills, log>>

\* append_observations up to the write: the nodes were probed, the log is read
\* and verified.
ReadLog(w) ==
  /\ writer[w].at = "idle"
  /\ Len(log) < MaxEntries
  /\ Verifies(log)
  /\ writer' = [writer EXCEPT ![w] =
       [at |-> "read", head |-> IF log = << >> THEN NoEntry ELSE Last(log).id]]
  /\ disturbed' = (disturbed \/ \E d \in Writers : writer[d].at = "read")
  /\ UNCHANGED <<time, kills, log>>

WriteEntry(w) ==
  /\ writer[w].at = "read"
  /\ log' = Append(log, [id |-> Len(log) + 1, previous |-> writer[w].head,
                         time |-> time])
  /\ writer' = [writer EXCEPT ![w] = AtRest]
  /\ UNCHANGED <<time, kills, disturbed>>

\* Killed before the write, or in the middle of it.
WriterKilled(w) ==
  /\ writer[w].at = "read"
  /\ kills < MaxKills
  /\ kills' = kills + 1
  /\ writer' = [writer EXCEPT ![w] = AtRest]
  /\ \/ UNCHANGED <<log, disturbed>>
     \/ /\ log' = Append(log, Torn)
        /\ disturbed' = TRUE
  /\ UNCHANGED <<time>>

LogTicks ==
  /\ time < MaxTime
  /\ time' = time + 1
  /\ UNCHANGED <<kills, log, writer, disturbed>>

LogSetBack ==
  /\ time > 0 /\ kills < MaxKills
  /\ time' = time - 1
  /\ kills' = kills + 1
  /\ disturbed' = TRUE
  /\ UNCHANGED <<log, writer>>

LogNext ==
  \/ LogTicks
  \/ LogSetBack
  \/ \E w \in Writers :
       \/ ReadLog(w)
       \/ WriteEntry(w)
       \/ WriterKilled(w)

LogSpec == LogInit /\ [][LogNext]_logVars

-----------------------------------------------------------------------------
(***************************************************************************)
(* The campaign log stays one that verifies, through any number of starts  *)
(* and kills between two writes; only a write cut short, two appends that  *)
(* overlapped or a clock set back make it one that never verifies again.   *)
(***************************************************************************)
LogBrokenOnlyByDisturbance == disturbed \/ Verifies(log)
=============================================================================

----------------------------- MODULE MonitorLoop -----------------------------
(***************************************************************************)
(* run_v30_monitor.py with the samples and checkpoints of                  *)
(* operations_v30.py: a program that runs for days, may be killed and      *)
(* started again, may be started twice (nothing locks its files), and      *)
(* reads a clock that can be set back.                                     *)
(***************************************************************************)
EXTENDS Naturals, SequencesExt, FiniteSetsExt

CONSTANTS Monitors,       \* processes that may run the loop
          Target,         \* seconds to span; 86400 at least in the code
          MaxClock,       \* bound: the clock
          MaxNumber,      \* bound: number of a sample
          MaxFaults,      \* bound: kills, failed probes, clock set back
          None            \* no file

Sample == [time : Nat, ok : BOOLEAN]

ASSUME MonitorAssumption ==
  None \notin [chain : Seq(Sample), complete : BOOLEAN]

VARIABLES clock,          \* what time.time() returns
          faults,         \* how many of the faults bounded above happened
          samples,        \* sample-NNNNNNNN.json, by number
          checkpoint,     \* checkpoint.json
          monitor,        \* process -> the state of its main loop
          drifted         \* history: a probe failed, or two monitors overlapped

monitorVars == <<clock, faults, samples, checkpoint, monitor, drifted>>

Off == [at |-> "off", sequence |-> 0, previous |-> None, sample |-> None]

MonitorInit ==
  /\ clock = 0 /\ faults = 0
  /\ samples = << >>
  /\ checkpoint = None
  /\ monitor = [m \in Monitors |-> Off]
  /\ drifted = FALSE

Fault == faults < MaxFaults /\ faults' = faults + 1

Count(file) == IF file = None THEN 0 ELSE Len(file.chain)

\* The chain of hashes is the samples it was made of.
Chained(previous, sample) ==
  LET chain == Append(IF previous = None THEN << >> ELSE previous.chain, sample)
      good == Cardinality({i \in DOMAIN chain : chain[i].ok})
  IN [chain |-> chain,
      complete |-> /\ Last(chain).time - Head(chain).time >= Target
                   /\ 100 * good >= 99 * Len(chain)]

\* Mutant: a new process numbers its samples from the first again.
StartRenumbering(m) ==
  /\ monitor[m].at = "off"
  /\ checkpoint # None => ~checkpoint.complete
  /\ monitor' = [monitor EXCEPT ![m] =
       [Off EXCEPT !.at = "probe", !.previous = checkpoint]]
  /\ drifted' = (drifted \/ \E d \in Monitors : monitor[d].at # "off")
  /\ UNCHANGED <<clock, faults, samples, checkpoint>>

\* A new process resumes from the file, if there is one.
StartMonitor(m) ==
  /\ monitor[m].at = "off"
  /\ checkpoint # None => ~checkpoint.complete
  /\ monitor' = [monitor EXCEPT ![m] =
       [Off EXCEPT !.at = "probe", !.sequence = Count(checkpoint),
                   !.previous = checkpoint]]
  /\ drifted' = (drifted \/ \E d \in Monitors : monitor[d].at # "off")
  /\ UNCHANGED <<clock, faults, samples, checkpoint>>

\* All hosts answered; the gate of the sample may or may not be satisfied.
Probe(m) ==
  /\ monitor[m].at = "probe"
  /\ monitor[m].sequence < MaxNumber
  /\ \E ok \in BOOLEAN :
       monitor' = [monitor EXCEPT ![m].at = "sampled", ![m].sequence = @ + 1,
                                  ![m].sample = [time |-> clock, ok |-> ok]]
  /\ UNCHANGED <<clock, faults, samples, checkpoint, drifted>>

\* One host did not: the number is used up, and nothing is written.
ProbeFails(m) ==
  /\ monitor[m].at = "probe"
  /\ monitor[m].sequence < MaxNumber
  /\ Fault
  /\ monitor' = [monitor EXCEPT ![m].sequence = @ + 1]
  /\ drifted' = TRUE
  /\ UNCHANGED <<clock, samples, checkpoint>>

SaveSample(m) ==
  /\ monitor[m].at = "sampled"
  /\ samples' = [n \in DOMAIN samples \cup {monitor[m].sequence} |->
                   IF n = monitor[m].sequence THEN monitor[m].sample ELSE samples[n]]
  /\ monitor' = [monitor EXCEPT ![m].at = "saved"]
  /\ UNCHANGED <<clock, faults, checkpoint, drifted>>

\* build_monitor_checkpoint raises, and the process ends, when the sample is
\* not newer than the checkpoint the process remembers.
SaveCheckpoint(m) ==
  LET next == Chained(monitor[m].previous, monitor[m].sample)
      newer == monitor[m].previous # None
                 => monitor[m].sample.time > Last(monitor[m].previous.chain).time
  IN /\ monitor[m].at = "saved"
     /\ IF newer
          THEN /\ checkpoint' = next
               /\ monitor' = [monitor EXCEPT ![m].previous = next, ![m].sample = None,
                                             ![m].at = IF next.complete THEN "off"
                                                                        ELSE "probe"]
          ELSE /\ monitor' = [monitor EXCEPT ![m] = Off]
               /\ UNCHANGED checkpoint
     /\ UNCHANGED <<clock, faults, samples, drifted>>

MonitorKilled(m) ==
  /\ monitor[m].at # "off"
  /\ Fault
  /\ monitor' = [monitor EXCEPT ![m] = Off]
  /\ UNCHANGED <<clock, samples, checkpoint, drifted>>

ClockTicks ==
  /\ clock < MaxClock
  /\ clock' = clock + 1
  /\ UNCHANGED <<faults, samples, checkpoint, monitor, drifted>>

ClockSetBack ==
  /\ clock > 0
  /\ Fault
  /\ clock' = clock - 1
  /\ UNCHANGED <<samples, checkpoint, monitor, drifted>>

MonitorNext ==
  \/ ClockTicks
  \/ ClockSetBack
  \/ \E m \in Monitors :
       \/ StartMonitor(m)
       \/ Probe(m)
       \/ ProbeFails(m)
       \/ SaveSample(m)
       \/ SaveCheckpoint(m)
       \/ MonitorKilled(m)

MonitorSpec == MonitorInit /\ [][MonitorNext]_monitorVars

-----------------------------------------------------------------------------
(***************************************************************************)
(* A checkpoint counts samples of strictly increasing times, whoever wrote *)
(* it and after whatever restarts and clock changes; and as long as no     *)
(* probe failed and monitors did not overlap, every sample in its chain of *)
(* hashes is still in the file of its number.  (A failed probe uses up a   *)
(* number that a restart hands out again, so that a sample already chained *)
(* can be overwritten.)                                                    *)
(***************************************************************************)
ChainedSamplesKept ==
  checkpoint # None =>
    /\ \A i \in DOMAIN checkpoint.chain \ {1} :
         checkpoint.chain[i - 1].time < checkpoint.chain[i].time
    /\ ~drifted => \A i \in DOMAIN checkpoint.chain :
         i \in DOMAIN samples /\ samples[i] = checkpoint.chain[i]
=============================================================================

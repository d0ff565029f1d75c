---------------------------- MODULE RunnerSummary ----------------------------
(* write_runner_summary: what the pod reports of a run of the playbooks,    *)
(* from the artifacts ansible-runner left.  A file of job_events is         *)
(* unreadable or has an event; the files come in the order the directory    *)
(* lists them, which is not the order of the events.                        *)
EXTENDS Integers, SequencesExt, FiniteSets

CONSTANTS
  Absent,      \* a file that cannot be read, or that is not there
  Bad          \* a counter that is not a number

\* The directory with the youngest modification time of those in artifacts.
LatestRunDir(dirs) == IF dirs = {} THEN Absent
                      ELSE CHOOSE d \in dirs : \A e \in dirs : e.mtime <= d.mtime

\* The places in the listing at which an event can be read.
Readable(events) == {i \in 1..Len(events) : events[i] # Absent}

NoStats == [processed |-> {}, failures |-> {}, dark |-> {}]

\* The first statistics the listing comes to; a run cut off has none.
LatestStatsEvent(events) ==
  LET stats == {i \in Readable(events) : events[i].event = "playbook_on_stats"}
  IN IF stats = {} THEN NoStats ELSE events[Min(stats)].hosts

\* Mutant: the event listed last.
LastEvent_Listed(events) ==
  IF Readable(events) = {} THEN Absent ELSE events[Max(Readable(events))]

\* An event with a later counter, or an equal one, replaces the one seen.
Replaces(e, last) ==
  e.counter # Bad /\ e.counter >= (IF last = Absent THEN 0 ELSE last.counter)
LastEvent(events) ==
  LET last[i \in 0..Len(events)] ==
        IF i = 0 THEN Absent
        ELSE IF i \in Readable(events) /\ Replaces(events[i], last[i - 1])
        THEN events[i] ELSE last[i - 1]
  IN last[Len(events)]

\* Rounded to the nearest.
FailurePercent(impacted, total) ==
  IF total = 0 THEN 0 ELSE (impacted * 100 + total \div 2) \div total

BuildSummary(events) ==
  LET hosts == LatestStatsEvent(events)
  IN [failed |-> hosts.failures, unreachable |-> hosts.dark,
      totalHosts |-> Cardinality(hosts.processed),
      failurePercent |-> FailurePercent(Cardinality(hosts.failures \cup hosts.dark),
                                        Cardinality(hosts.processed))]

\* What goes to the termination log, and the task and host the output names
\* when the run did not succeed.  The script itself always succeeds.
Report(dirs) ==
  LET dir == LatestRunDir(dirs)
  IN IF dir = Absent THEN [summary |-> Absent, named |-> Absent]
     ELSE [summary |-> BuildSummary(dir.events),
           named |-> IF dir.status = "successful" THEN Absent ELSE LastEvent(dir.events)]

=============================================================================

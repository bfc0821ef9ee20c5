------------------------------ MODULE SoakRun ------------------------------
(***************************************************************************)
(* The soak harness: scripts/run_map_soak.py.                              *)
(*                                                                         *)
(* It repeats map runs until a fixed duration is over or something goes    *)
(* wrong, samples disk space and output size while a run is going on, and  *)
(* after every sample and every run replaces soak_report.json, whose last  *)
(* version is the evidence.  The clock may advance between any two steps.  *)
(***************************************************************************)
EXTENDS Naturals, FiniteSets

CONSTANTS
    Target,         \* PROFILE_DURATIONS
    MaxIteration,   \* --max-iteration-secs
    Interval,       \* --telemetry-interval-secs
    Faults          \* what may go wrong around the runs

ASSUME SoakAssumption ==
    /\ Target \in Nat \ {0} /\ MaxIteration \in Nat \ {0} /\ Interval \in Nat \ {0}
    /\ Faults \subseteq {"disk", "signal"}

VARIABLES
    clock,      \* time since the start
    pc,         \* where the harness is
    began,      \* when the current iteration was spawned
    base,       \* the time the report had reached by then
    sampled,    \* its age at the last sample
    report,     \* the report in memory
    file,       \* soak_report.json
    group,      \* GNU time and the CLI, in the process group of the iteration
    work,       \* the map runner, which the CLI keeps in a session of its own
    happened    \* history: the bad things that really happened

vars == <<clock, pc, began, base, sampled, report, file, group, work, happened>>

\* The steps of the harness may take it past the target by MaxIteration (a
\* bound of the model), and an iteration that began then has its own time.
Slow == Target + MaxIteration
MaxClock == Slow + MaxIteration
Age == clock - began

Budgets == {"rss", "size", "drops", "free", "duration"}
Terminal == {"passed", "failed", "interrupted"}

\* Mutation: the failed iterations are not asked for.
FailedChecksOfBudgets(r) ==
    r.over \cup (IF r.wall < Target THEN {"target"} ELSE {})
           \cup (IF r.completed THEN {} ELSE {"iterations"})
           \cup (IF r.sampled THEN {} ELSE {"free"})
           \cup (IF r.provenance THEN {} ELSE {"provenance"})

\* evaluate_report: the checks that fail.
FailedChecks(r) ==
    r.over \cup (IF r.wall < Target THEN {"target"} ELSE {})
           \cup (IF r.completed /\ ~r.failed THEN {} ELSE {"iterations"})
           \cup (IF r.sampled THEN {} ELSE {"free"})
           \cup (IF r.provenance THEN {} ELSE {"provenance"})

Init ==
    /\ clock = 0
    /\ pc = "looping"
    /\ began = 0
    /\ base = 0
    /\ sampled = 0
    /\ report = [status |-> "running", error |-> "none", active |-> FALSE, wall |-> 0,
                 completed |-> FALSE, failed |-> FALSE, sampled |-> FALSE,
                 provenance |-> FALSE, over |-> {}]
    /\ file = report
    /\ group = "none"
    /\ work = "none"
    /\ happened = {}

Tick ==
    /\ clock < Slow \/ (pc = "waiting" /\ Age < MaxIteration)
    /\ pc \notin {"ended", "dead"}
    /\ clock' = clock + 1
    /\ UNCHANGED <<pc, began, base, sampled, report, file, group, work, happened>>

Goto(label) == pc' = label
Still == UNCHANGED <<clock, began, base, sampled, group, work>>

\* _write_report_atomic: a failure raises OSError where it is called.
Checkpoint(r, label, raised) ==
    /\ report' = r
    /\ \/ file' = r /\ Goto(label)
       \/ "disk" \in Faults /\ UNCHANGED file /\ Goto(raised)

-----------------------------------------------------------------------------
(***************************************************************************)
(* One iteration (run_soak, _run_iteration).                               *)
(***************************************************************************)
BeginIteration ==
    /\ pc = "looping"
    /\ clock < Target
    /\ Checkpoint([report EXCEPT !.active = TRUE], "spawning", "dead")
    /\ Still
    /\ UNCHANGED happened

\* Mutation: the time reached so far is forgotten.
SpawnFromZero ==
    /\ pc = "spawning"
    /\ group' = "alive"
    /\ work' = "alive"
    /\ began' = clock
    /\ base' = 0
    /\ sampled' = 0
    /\ Goto("first")
    /\ UNCHANGED <<clock, report, file, happened>>

Spawn ==
    /\ pc = "spawning"
    /\ group' = "alive"
    /\ work' = "alive"
    /\ began' = clock
    /\ base' = report.wall
    /\ sampled' = 0
    /\ Goto("first")
    /\ UNCHANGED <<clock, report, file, happened>>

\* record_sample: the sample is written before its budgets are judged.
Sample(age, label) ==
    \E over \in SUBSET {"size", "free"}, late \in {IF age > MaxIteration THEN {"duration"} ELSE {}} :
        /\ happened' = happened \cup over \cup late
        /\ Checkpoint(
             [report EXCEPT
                !.wall = base + age,
                !.sampled = TRUE,
                !.over = (@ \ {"size"}) \cup over \cup late],
             IF over # {} THEN "raising" ELSE label, "raising")
        /\ sampled' = age
        /\ UNCHANGED <<clock, began, base, group, work>>

FirstSample == pc = "first" /\ Sample(0, "waiting")

\* Mutation: an iteration has no deadline.
SampleForEver ==
    /\ pc = "waiting"
    /\ group = "alive"
    /\ Age >= sampled + Interval
    /\ Sample(Age, "waiting")

SampleWhileRunning ==
    /\ pc = "waiting"
    /\ group = "alive"
    /\ Age >= sampled + Interval \/ Age >= MaxIteration
    /\ Sample(Age, IF Age >= MaxIteration THEN "raising" ELSE "waiting")

ChildEnded ==
    /\ pc = "waiting"
    /\ group \in {"succeeded", "failed"}
    /\ IF Age > sampled THEN Sample(Age, "reading")
       ELSE Goto("reading") /\ Still /\ UNCHANGED <<report, file, happened>>

\* The map run ends by itself, and the CLI and GNU time with it.
MapRunEnds ==
    /\ work = "alive"
    /\ work' = "gone"
    /\ IF group = "alive"
       THEN \E result \in {"succeeded", "failed"} :
               /\ group' = result
               /\ happened' = IF result = "failed" THEN happened \cup {"failed"} ELSE happened
       ELSE UNCHANGED <<group, happened>>
    /\ UNCHANGED <<clock, pc, began, base, sampled, report, file>>

\* SIGTERM has a handler only while an iteration is waited for; SIGINT is
\* caught in all of the iteration.  Elsewhere a signal is fatal.
Signal ==
    /\ "signal" \in Faults
    /\ pc \notin {"ended", "dead"}
    /\ \/ pc \in {"first", "waiting"} /\ Goto("interrupting")
       \/ pc \in {"spawning", "reading"} /\ Goto("interrupted")
       \/ pc \notin {"first", "waiting"} /\ Goto("dead")
    /\ Still
    /\ UNCHANGED <<report, file, happened>>

\* _terminate_process_group: GNU time dies of SIGTERM at once, so SIGKILL
\* follows at once.  Whether the CLI had handed the SIGTERM down by then is a
\* race; the runner that got it stops in its own time.
TerminateGroup ==
    /\ pc \in {"raising", "interrupting"}
    /\ group' = "killed"
    /\ work' \in (IF work = "alive" /\ group = "alive" THEN {"alive", "stopping"} ELSE {work})
    /\ Goto(IF pc = "raising" THEN "failing" ELSE "interrupted")
    /\ UNCHANGED <<clock, began, base, sampled, report, file, happened>>

MapRunStops ==
    /\ work = "stopping"
    /\ work' = "gone"
    /\ UNCHANGED <<clock, pc, began, base, sampled, report, file, group, happened>>

\* The time report or the manifest may be unreadable, and the identities of
\* the run others than those of the first one.
ReadResult ==
    /\ pc = "reading"
    /\ \/ Goto("recording") /\ UNCHANGED happened
       \/ Goto("failing") /\ happened' = happened \cup {"evidence"}
    /\ report' = [report EXCEPT !.provenance = @ \/ (pc' = "recording" /\ group = "succeeded")]
    /\ Still
    /\ UNCHANGED file

Record ==
    /\ pc = "recording"
    /\ \E over \in SUBSET {"rss", "size", "drops", "free"} :
          LET r == [report EXCEPT
                      !.active = FALSE,
                      !.wall = clock,
                      !.completed = @ \/ group = "succeeded",
                      !.failed = @ \/ group = "failed",
                      !.over = (@ \ {"size"}) \cup over]
          IN  /\ happened' = happened \cup over
              /\ Checkpoint(r, IF group = "failed" \/ FailedChecks(r) \cap Budgets # {}
                               THEN "stopping" ELSE "looping", "dead")
    /\ Still

\* last_error names the failed run or the first failed budget.
StopEarly ==
    /\ pc = "stopping"
    /\ report' = [report EXCEPT !.error = "named"]
    /\ Goto("closing")
    /\ Still
    /\ UNCHANGED <<file, happened>>

DurationReached ==
    /\ pc = "looping"
    /\ clock >= Target
    /\ Goto("closing")
    /\ Still
    /\ UNCHANGED <<report, file, happened>>

\* The verdict is drawn from the metrics of the last iteration.
Close ==
    /\ pc = "closing"
    /\ Checkpoint([report EXCEPT !.status = IF FailedChecks(report) = {} THEN "passed" ELSE "failed"],
                  "ended", "dead")
    /\ Still
    /\ UNCHANGED happened

\* The handlers of run_soak.
Abort(here, status) ==
    /\ pc = here
    /\ Checkpoint([report EXCEPT !.status = status, !.error = "named", !.active = FALSE,
                                 !.failed = TRUE, !.wall = clock], "ended", "dead")
    /\ Still
    /\ UNCHANGED happened

Fail == Abort("failing", "failed")
Interrupted == Abort("interrupted", "interrupted")

Harness ==
    \/ BeginIteration \/ Spawn \/ FirstSample \/ SampleWhileRunning \/ ChildEnded
    \/ TerminateGroup \/ ReadResult \/ Record \/ StopEarly \/ DurationReached
    \/ Close \/ Fail \/ Interrupted

Next == Harness \/ Tick \/ MapRunEnds \/ MapRunStops \/ Signal

\* The harness runs and time passes; a map run may stall for ever.
Spec == Init /\ [][Next]_vars
FairSpec == Spec /\ WF_vars(Harness) /\ WF_vars(Tick)

-----------------------------------------------------------------------------
(***************************************************************************)
(* Properties.                                                             *)
(***************************************************************************)
Reports == [status : {"running"} \cup Terminal, error : {"none", "named"}, active : BOOLEAN,
            wall : 0..MaxClock, completed : BOOLEAN, failed : BOOLEAN, sampled : BOOLEAN,
            provenance : BOOLEAN, over : SUBSET Budgets]
Labels == {"looping", "spawning", "first", "waiting", "raising", "interrupting", "failing",
           "interrupted", "reading", "recording", "stopping", "closing", "ended", "dead"}

TypeOK ==
    /\ clock \in 0..MaxClock
    /\ pc \in Labels
    /\ began \in 0..MaxClock
    /\ base \in 0..MaxClock
    /\ sampled \in 0..MaxClock
    /\ report \in Reports
    /\ file \in Reports
    /\ group \in {"none", "alive", "succeeded", "failed", "killed"}
    /\ work \in {"none", "alive", "stopping", "gone"}
    /\ happened \subseteq Budgets \cup {"failed", "evidence"}

\* A report that says "passed" was earned: the whole duration is over, a map
\* was made, and nothing bad happened in any iteration, the forgotten ones of
\* hours ago included.
PassedIsEarned ==
    file.status = "passed" => clock >= Target /\ happened = {} /\ file.completed

\* The evidence only grows: each version on disk covers at least the time of
\* the one before, keeps its failures, and the last word is never replaced.
EvidenceOnlyGrows ==
    [][/\ file'.wall >= file.wall
       /\ file.failed => file'.failed
       /\ file.over \ {"size"} \subseteq file'.over
       /\ file.status \in Terminal => file' = file]_vars

\* A stalled map run cannot keep the soak from ending.
SoakEnds == <>(pc \in {"ended", "dead"})

\* docs/operational-reliability.md: "the harness stops the entire timed
\* process group with `SIGTERM` and a bounded `SIGKILL` fallback, then attempts
\* to finalize a failed report": the map run is over when that is written.
StoppedRunIsOver ==
    file.status = "failed" => work # "alive"
=============================================================================

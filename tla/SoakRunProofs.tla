---------------------------- MODULE SoakRunProofs ----------------------------
(***************************************************************************)
(* The evidence of a soak, for any duration, limits and faults: what the   *)
(* report on disk covers only grows, and "passed" was earned.              *)
(***************************************************************************)
EXTENDS SoakRun, TLAPS

(* The clock, what the report has reached of it, and the bound of the      *)
(* model: an iteration begins before Slow and samples from there.          *)
TimeInv ==
  /\ base <= began /\ began <= clock /\ began <= Slow
  /\ report.wall <= clock
  /\ pc = "spawning" => clock <= Slow
  /\ pc = "first" => report.wall <= base
  /\ pc = "waiting" => report.wall <= base + Age

(* The file is an earlier version of the report, and the last one when it  *)
(* has a verdict.                                                          *)
FileInv ==
  /\ file.wall <= report.wall
  /\ file.failed => report.failed
  /\ file.over \ {"size"} \subseteq report.over
  /\ file.status \in Terminal => pc = "ended"
  /\ pc \notin {"ended", "dead"} => report.status = "running"

(* What happened is either in the report or on its way to a failed one.    *)
Failing == {"raising", "failing", "ended", "dead"}

HappenedInv ==
  /\ group = "alive" => pc \in {"first", "waiting", "raising", "interrupting", "dead"}
  /\ happened \cap {"rss", "drops", "free", "duration"} \subseteq report.over
  /\ "size" \in happened =>
       pc \in Failing \/ (pc \in {"stopping", "closing"} /\ "size" \in report.over)
  /\ "failed" \in happened =>
       \/ report.failed
       \/ pc \in Failing \cup {"interrupting", "interrupted"}
       \/ group = "failed" /\ pc \in {"first", "waiting", "reading", "recording"}
  /\ "evidence" \in happened => pc \in Failing

(* A passed report is final: no process of its runs is left to fail.       *)
PassedInv ==
  file.status = "passed" =>
    /\ pc = "ended" /\ group # "alive"
    /\ clock >= Target /\ happened = {} /\ file.completed

IInv == TypeOK /\ TimeInv /\ FileInv /\ HappenedInv /\ PassedInv

Grows ==
  /\ file'.wall >= file.wall
  /\ file.failed => file'.failed
  /\ file.over \ {"size"} \subseteq file'.over
  /\ file.status \in Terminal => file' = file

-----------------------------------------------------------------------------
LEMMA InvariantInit == Init => IInv
<1> SUFFICES ASSUME Init PROVE IInv
  OBVIOUS
<1>1. TypeOK
  BY SoakAssumption DEF Init, TypeOK, Reports, Labels, MaxClock, Slow
<1>2. TimeInv
  BY SoakAssumption DEF Init, TimeInv, Slow
<1>3. FileInv /\ HappenedInv /\ PassedInv
  BY DEF Init, FileInv, HappenedInv, PassedInv, Terminal
<1>4. QED BY <1>1, <1>2, <1>3 DEF IInv

(* A version of the report that covers the one before it may be put down   *)
(* where the harness has no verdict yet.                                   *)
Covers(r) ==
  /\ r \in Reports
  /\ report.wall <= r.wall
  /\ report.failed => r.failed
  /\ report.over \ {"size"} \subseteq r.over

LEMMA CheckpointGrows ==
  ASSUME IInv, NEW r, NEW label, NEW raised,
         Covers(r), Checkpoint(r, label, raised),
         pc \notin {"ended", "dead"},
         r.status = "running" \/ (label = "ended" /\ raised = "dead")
  PROVE  /\ report' = r /\ file' \in Reports /\ pc' \in {label, raised}
         /\ FileInv'
         /\ Grows
<1>1. report' = r /\ file' \in {file, r} /\ pc' \in {label, raised}
  BY DEF Checkpoint, Goto
<1>2. file \in Reports /\ r \in Reports /\ report \in Reports
  BY DEF IInv, TypeOK, Covers
<1>3. \A q \in Reports : q.wall \in Nat
  BY SoakAssumption DEF Reports, MaxClock, Slow
<1>4. file.status \notin Terminal
  BY DEF IInv, FileInv
<1>5. file' = r => pc' = label \/ r = file
  BY DEF Checkpoint, Goto
<1>6. file'.status \in Terminal => pc' = "ended"
  BY <1>1, <1>4, <1>5 DEF Terminal
<1>7. pc' \notin {"ended", "dead"} => report'.status = "running"
  BY <1>1
<1>8. /\ file'.wall <= report'.wall
      /\ file'.failed => report'.failed
      /\ file'.over \ {"size"} \subseteq report'.over
  BY <1>1, <1>2, <1>3 DEF IInv, FileInv, Covers
<1>9. Grows
  BY <1>1, <1>2, <1>3, <1>4 DEF IInv, FileInv, Covers, Grows
<1>10. QED BY <1>1, <1>2, <1>6, <1>7, <1>8, <1>9 DEF FileInv

-----------------------------------------------------------------------------

(* Steps that leave the report and the file alone.                         *)
LEMMA QuietSteps ==
  ASSUME IInv,
         Tick \/ Spawn \/ MapRunEnds \/ MapRunStops \/ Signal \/ TerminateGroup \/ DurationReached
  PROVE  IInv' /\ Grows
<1> USE SoakAssumption DEF MaxClock, Slow, Age, Labels, Budgets
<1> DEFINE Verdictless ==
      /\ pc' \in Labels /\ UNCHANGED <<report, file>>
      /\ file.status \in Terminal => pc' = "ended"
      /\ pc' \notin {"ended", "dead"} => pc \notin {"ended", "dead"}
<1>1. Verdictless => FileInv' /\ Grows
  <2>1. file.wall \in Nat
    BY DEF IInv, TypeOK, Reports
  <2>2. QED BY <2>1 DEF IInv, FileInv, Grows
<1> HIDE DEF Verdictless
<1>2. CASE Tick
  <2>1. TypeOK' /\ TimeInv'
    BY <1>2 DEF Tick, IInv, TypeOK, TimeInv, Reports
  <2>2. Verdictless
    BY <1>2 DEF Tick, IInv, TypeOK, FileInv, Verdictless
  <2>3. HappenedInv' /\ PassedInv'
    BY <1>2 DEF Tick, IInv, HappenedInv, PassedInv, TypeOK, Failing
  <2>4. QED BY <1>1, <2>1, <2>2, <2>3 DEF IInv
<1>3. CASE Spawn
  <2>1. TypeOK' /\ TimeInv'
    BY <1>3 DEF Spawn, Goto, IInv, TypeOK, TimeInv, Reports
  <2>2. Verdictless
    BY <1>3 DEF Spawn, Goto, IInv, TypeOK, FileInv, Verdictless
  <2>3. HappenedInv'
    BY <1>3 DEF Spawn, Goto, IInv, HappenedInv, Failing
  <2>4. PassedInv'
    BY <1>3 DEF Spawn, Goto, IInv, PassedInv
  <2>5. QED BY <1>1, <2>1, <2>2, <2>3, <2>4 DEF IInv
<1>4. CASE MapRunEnds
  <2>1. TypeOK' /\ TimeInv'
    BY <1>4 DEF MapRunEnds, IInv, TypeOK, TimeInv
  <2>2. Verdictless
    BY <1>4 DEF MapRunEnds, IInv, TypeOK, FileInv, Verdictless
  <2>3. HappenedInv'
    BY <1>4 DEF MapRunEnds, IInv, HappenedInv, Failing
  <2>4. PassedInv'
    BY <1>4 DEF MapRunEnds, IInv, PassedInv
  <2>5. QED BY <1>1, <2>1, <2>2, <2>3, <2>4 DEF IInv
<1>5. CASE MapRunStops
  <2>1. TypeOK' /\ TimeInv'
    BY <1>5 DEF MapRunStops, IInv, TypeOK, TimeInv
  <2>2. Verdictless
    BY <1>5 DEF MapRunStops, IInv, TypeOK, FileInv, Verdictless
  <2>3. HappenedInv' /\ PassedInv'
    BY <1>5 DEF MapRunStops, IInv, HappenedInv, PassedInv, Failing
  <2>4. QED BY <1>1, <2>1, <2>2, <2>3 DEF IInv
<1>6. CASE Signal
  <2>1. TypeOK' /\ TimeInv'
    BY <1>6 DEF Signal, Goto, Still, IInv, TypeOK, TimeInv
  <2>2. Verdictless
    BY <1>6 DEF Signal, Goto, Still, IInv, TypeOK, FileInv, Verdictless
  <2>3. HappenedInv'
    BY <1>6 DEF Signal, Goto, Still, IInv, HappenedInv, Failing
  <2>4. PassedInv'
    BY <1>6 DEF Signal, Goto, Still, IInv, PassedInv
  <2>5. QED BY <1>1, <2>1, <2>2, <2>3, <2>4 DEF IInv
<1>7. CASE TerminateGroup
  <2>1. TypeOK' /\ TimeInv'
    BY <1>7 DEF TerminateGroup, Goto, IInv, TypeOK, TimeInv
  <2>2. Verdictless
    BY <1>7 DEF TerminateGroup, Goto, IInv, TypeOK, FileInv, Verdictless
  <2>3. HappenedInv'
    BY <1>7 DEF TerminateGroup, Goto, IInv, HappenedInv, Failing
  <2>4. PassedInv'
    BY <1>7 DEF TerminateGroup, Goto, IInv, PassedInv
  <2>5. QED BY <1>1, <2>1, <2>2, <2>3, <2>4 DEF IInv
<1>8. CASE DurationReached
  <2>1. TypeOK' /\ TimeInv'
    BY <1>8 DEF DurationReached, Goto, Still, IInv, TypeOK, TimeInv
  <2>2. Verdictless
    BY <1>8 DEF DurationReached, Goto, Still, IInv, TypeOK, FileInv, Verdictless
  <2>3. HappenedInv' /\ PassedInv'
    BY <1>8 DEF DurationReached, Goto, Still, IInv, HappenedInv, PassedInv, Failing
  <2>4. QED BY <1>1, <2>1, <2>2, <2>3 DEF IInv
<1>9. QED BY <1>2, <1>3, <1>4, <1>5, <1>6, <1>7, <1>8

(* Steps that change the report in memory only.                            *)
LEMMA MemorySteps ==
  ASSUME IInv, ReadResult \/ StopEarly
  PROVE  IInv' /\ Grows
<1> USE SoakAssumption DEF MaxClock, Slow, Age, Labels, Budgets, Goto, Still
<1>1. CASE ReadResult
  <2>1. PICK b \in BOOLEAN : report' = [report EXCEPT !.provenance = b]
    BY <1>1 DEF ReadResult, IInv, TypeOK, Reports
  <2>2. report' \in Reports /\ report'.wall = report.wall /\ report'.over = report.over
        /\ report'.failed = report.failed /\ report'.status = report.status
    BY <2>1 DEF IInv, TypeOK, Reports
  <2>3. /\ pc = "reading" /\ pc' \in {"recording", "failing"}
        /\ UNCHANGED <<clock, began, base, sampled, group, work, file>>
        /\ happened' \in {happened, happened \cup {"evidence"}}
        /\ "evidence" \in happened' \ happened => pc' = "failing"
    BY <1>1 DEF ReadResult
  <2>4. TypeOK' /\ TimeInv'
    BY <2>2, <2>3 DEF IInv, TypeOK, TimeInv
  <2>5. FileInv' /\ Grows
    BY <2>2, <2>3 DEF IInv, TypeOK, FileInv, Grows, Terminal, Reports
  <2>6. HappenedInv' /\ PassedInv'
    BY <2>2, <2>3 DEF IInv, HappenedInv, PassedInv, Failing
  <2>7. QED BY <2>4, <2>5, <2>6 DEF IInv
<1>2. CASE StopEarly
  <2>1. report' \in Reports /\ report'.wall = report.wall /\ report'.over = report.over
        /\ report'.failed = report.failed /\ report'.status = report.status
    BY <1>2 DEF StopEarly, IInv, TypeOK, Reports
  <2>2. /\ pc = "stopping" /\ pc' = "closing"
        /\ UNCHANGED <<clock, began, base, sampled, group, work, file, happened>>
    BY <1>2 DEF StopEarly
  <2>3. TypeOK' /\ TimeInv'
    BY <2>1, <2>2 DEF IInv, TypeOK, TimeInv
  <2>4. FileInv' /\ Grows
    BY <2>1, <2>2 DEF IInv, TypeOK, FileInv, Grows, Terminal, Reports
  <2>5. HappenedInv' /\ PassedInv'
    BY <2>1, <2>2 DEF IInv, HappenedInv, PassedInv, Failing
  <2>6. QED BY <2>3, <2>4, <2>5 DEF IInv
<1>3. QED BY <1>1, <1>2

(* The samples: what is over its budget is in the report before anybody    *)
(* judges it.                                                              *)
LEMMA SampleSteps ==
  ASSUME IInv, FirstSample \/ SampleWhileRunning \/ ChildEnded
  PROVE  IInv' /\ Grows
<1> USE SoakAssumption DEF MaxClock, Slow, Age, Labels, Budgets, Goto, Still
<1>1. ASSUME NEW age \in Nat, NEW label \in {"waiting", "reading", "raising"},
             Sample(age, label),
             pc \in {"first", "waiting"}, age <= Age, report.wall <= base + age,
             group = "alive" => label # "reading"
      PROVE  IInv' /\ Grows
  <2>1. PICK over \in SUBSET {"size", "free"},
             late \in {IF age > MaxIteration THEN {"duration"} ELSE {}} :
          /\ happened' = happened \cup over \cup late
          /\ Checkpoint(
               [report EXCEPT
                  !.wall = base + age,
                  !.sampled = TRUE,
                  !.over = (@ \ {"size"}) \cup over \cup late],
               IF over # {} THEN "raising" ELSE label, "raising")
          /\ sampled' = age
          /\ UNCHANGED <<clock, began, base, group, work>>
    BY <1>1 DEF Sample
  <2> DEFINE r == [report EXCEPT
                     !.wall = base + age,
                     !.sampled = TRUE,
                     !.over = (@ \ {"size"}) \cup over \cup late]
  <2>2. late \subseteq {"duration"}
    OBVIOUS
  <2>3. base + age \in Nat /\ base + age <= clock
    BY <1>1 DEF IInv, TypeOK, TimeInv
  <2>4. /\ r \in Reports /\ r.wall = base + age /\ r.failed = report.failed
        /\ r.over = (report.over \ {"size"}) \cup over \cup late
        /\ r.status = report.status
    <3>1. base + age \in 0..MaxClock
      BY <2>3 DEF IInv, TypeOK
    <3>2. (report.over \ {"size"}) \cup over \cup late \in SUBSET Budgets
      BY <2>2 DEF IInv, TypeOK, Reports
    <3>3. report \in Reports
      BY DEF IInv, TypeOK
    <3> HIDE DEF MaxClock, Budgets
    <3>4. QED BY <3>1, <3>2, <3>3 DEF Reports
  <2>5. Covers(r) /\ r.status = "running"
    BY <1>1, <2>4 DEF IInv, FileInv, Covers
  <2> HIDE DEF r
  <2>6. /\ report' = r /\ file' \in Reports
        /\ pc' \in {IF over # {} THEN "raising" ELSE label, "raising"}
        /\ FileInv' /\ Grows
    <3>1. Checkpoint(r, IF over # {} THEN "raising" ELSE label, "raising")
      BY <2>1 DEF r
    <3>2. pc \notin {"ended", "dead"}
      BY <1>1
    <3>3. QED BY <2>5, <3>1, <3>2, CheckpointGrows
  <2>7. TypeOK'
    BY <1>1, <2>1, <2>2, <2>4, <2>6 DEF IInv, TypeOK, TimeInv
  <2>8. TimeInv'
    BY <1>1, <2>1, <2>3, <2>4, <2>6 DEF IInv, TypeOK, TimeInv
  <2>9. HappenedInv'
    <3>1. report'.over = (report.over \ {"size"}) \cup over \cup late /\ report'.failed = report.failed
      BY <2>4, <2>6
    <3>2. pc' \in {"waiting", "reading", "raising"} /\ (over # {} => pc' = "raising")
      BY <1>1, <2>6
    <3>3. group' = group /\ happened' = happened \cup over \cup late
          /\ (group = "alive" => pc' # "reading")
      BY <1>1, <2>1, <2>6
    <3>4. happened' \cap {"rss", "drops", "free", "duration"} \subseteq report'.over
      BY <2>2, <3>1, <3>3 DEF IInv, HappenedInv
    <3>5. "size" \in happened' => pc' \in Failing
      BY <1>1, <2>2, <3>2, <3>3 DEF IInv, HappenedInv, Failing
    <3>6. "failed" \in happened' => "failed" \in happened
      BY <2>2, <3>3
    <3>7. "evidence" \in happened' => FALSE
      BY <1>1, <2>2, <3>3 DEF IInv, HappenedInv, Failing
    <3>8. QED BY <1>1, <3>1, <3>2, <3>3, <3>4, <3>5, <3>6, <3>7
              DEF IInv, HappenedInv, Failing
  <2>10. PassedInv'
    BY <1>1, <2>4, <2>5, <2>6 DEF FileInv, IInv, PassedInv, Terminal
  <2>11. QED BY <2>6, <2>7, <2>8, <2>9, <2>10 DEF IInv
<1>2. Age \in Nat
  BY DEF IInv, TypeOK, TimeInv
<1>3. CASE FirstSample
  <2>1. pc = "first" /\ Sample(0, "waiting")
    BY <1>3 DEF FirstSample
  <2>2. report.wall <= base + 0
    BY <2>1 DEF IInv, TypeOK, TimeInv
  <2>3. 0 <= Age
    BY <1>2
  <2> HIDE DEF Age
  <2>4. QED BY <1>1, <2>1, <2>2, <2>3
<1>4. CASE SampleWhileRunning
  <2>1. PICK label \in {"waiting", "reading", "raising"} : label # "reading" /\ Sample(Age, label)
    BY <1>4 DEF SampleWhileRunning
  <2>2. pc = "waiting" /\ report.wall <= base + Age
    BY <1>4 DEF SampleWhileRunning, IInv, TimeInv
  <2> HIDE DEF Age
  <2>3. Age <= Age
    BY <1>2
  <2>4. QED BY <1>1, <1>2, <2>1, <2>2, <2>3
<1>5. CASE ChildEnded
  <2>1. pc = "waiting" /\ group # "alive" /\ report.wall <= base + Age
    BY <1>5 DEF ChildEnded, IInv, TimeInv
  <2>2. CASE Sample(Age, "reading")
    <3> HIDE DEF Age
    <3>1. Age <= Age
      BY <1>2
    <3>2. QED BY <1>1, <1>2, <2>1, <2>2, <3>1
  <2>3. CASE /\ pc' = "reading"
             /\ UNCHANGED <<clock, began, base, sampled, group, work, report, file, happened>>
    <3>1. TypeOK' /\ TimeInv'
      BY <2>1, <2>3 DEF IInv, TypeOK, TimeInv
    <3>2. FileInv' /\ Grows
      BY <2>1, <2>3 DEF IInv, TypeOK, FileInv, Grows, Terminal, Reports
    <3>3. HappenedInv' /\ PassedInv'
      BY <2>1, <2>3 DEF IInv, HappenedInv, PassedInv, Failing
    <3>4. QED BY <3>1, <3>2, <3>3 DEF IInv
  <2>4. QED BY <1>5, <2>2, <2>3 DEF ChildEnded
<1>6. QED BY <1>3, <1>4, <1>5

(* The other versions: before an iteration, after one, and the last one.   *)
LEMMA BookingSteps ==
  ASSUME IInv, BeginIteration \/ Record
  PROVE  IInv' /\ Grows
<1> USE SoakAssumption DEF MaxClock, Slow, Age, Labels, Still
<1>1. CASE BeginIteration
  <2> DEFINE r == [report EXCEPT !.active = TRUE]
  <2>1. /\ pc = "looping" /\ clock < Target
        /\ Checkpoint(r, "spawning", "dead")
        /\ UNCHANGED <<clock, began, base, sampled, group, work, happened>>
    BY <1>1 DEF BeginIteration
  <2>2. /\ r \in Reports /\ r.wall = report.wall /\ r.over = report.over
        /\ r.failed = report.failed /\ r.status = "running"
    BY <2>1 DEF IInv, TypeOK, FileInv, Reports
  <2>3. Covers(r)
    BY <2>2 DEF IInv, TypeOK, Covers, Reports
  <2> HIDE DEF r
  <2>4. report' = r /\ file' \in Reports /\ pc' \in {"spawning", "dead"} /\ FileInv' /\ Grows
    BY <2>1, <2>2, <2>3, CheckpointGrows
  <2>5. TypeOK' /\ TimeInv'
    BY <2>1, <2>2, <2>4 DEF IInv, TypeOK, TimeInv
  <2>6. HappenedInv'
    BY <2>1, <2>2, <2>4 DEF IInv, HappenedInv, Failing
  <2>7. PassedInv'
    BY <2>2, <2>4 DEF FileInv, PassedInv, Terminal
  <2>8. QED BY <2>4, <2>5, <2>6, <2>7 DEF IInv
<1>2. CASE Record
  <2>1. PICK over \in SUBSET {"rss", "size", "drops", "free"} :
          LET r == [report EXCEPT
                      !.active = FALSE,
                      !.wall = clock,
                      !.completed = @ \/ group = "succeeded",
                      !.failed = @ \/ group = "failed",
                      !.over = (@ \ {"size"}) \cup over]
          IN  /\ happened' = happened \cup over
              /\ Checkpoint(r, IF group = "failed" \/ FailedChecks(r) \cap Budgets # {}
                               THEN "stopping" ELSE "looping", "dead")
    BY <1>2 DEF Record
  <2> DEFINE r == [report EXCEPT
                     !.active = FALSE,
                     !.wall = clock,
                     !.completed = @ \/ group = "succeeded",
                     !.failed = @ \/ group = "failed",
                     !.over = (@ \ {"size"}) \cup over]
             label == IF group = "failed" \/ FailedChecks(r) \cap Budgets # {}
                      THEN "stopping" ELSE "looping"
  <2>2. pc = "recording" /\ UNCHANGED <<clock, began, base, sampled, group, work>>
    BY <1>2 DEF Record
  <2>3. /\ r \in Reports /\ r.wall = clock /\ r.failed = (report.failed \/ group = "failed")
        /\ r.over = (report.over \ {"size"}) \cup over /\ r.status = "running"
    <3>1. (report.over \ {"size"}) \cup over \in SUBSET Budgets
      BY DEF IInv, TypeOK, Reports, Budgets
    <3>2. report \in Reports /\ report.status = "running" /\ clock \in 0..MaxClock
      BY <2>2 DEF IInv, TypeOK, FileInv
    <3> HIDE DEF MaxClock
    <3>3. QED BY <3>1, <3>2 DEF Reports
  <2>4. "size" \in over => label = "stopping"
    BY <2>3 DEF FailedChecks, Budgets
  <2>5. /\ happened' = happened \cup over /\ Checkpoint(r, label, "dead")
        /\ label \in {"stopping", "looping"}
    BY <2>1
  <2> HIDE DEF r, label
  <2>6. Covers(r)
    BY <2>3 DEF IInv, TimeInv, Covers
  <2>7. report' = r /\ file' \in Reports /\ pc' \in {label, "dead"} /\ FileInv' /\ Grows
    BY <2>2, <2>3, <2>5, <2>6, CheckpointGrows
  <2>8. TypeOK'
    BY <2>2, <2>3, <2>5, <2>7 DEF IInv, TypeOK, Budgets
  <2>9. TimeInv'
    BY <2>2, <2>3, <2>5, <2>7 DEF IInv, TypeOK, TimeInv
  <2>10. HappenedInv'
    <3>1. pc' \in {"stopping", "looping", "dead"} /\ group' = group /\ group # "alive"
      BY <2>2, <2>5, <2>7 DEF IInv, HappenedInv
    <3>2. happened' \cap {"rss", "drops", "free", "duration"} \subseteq report'.over
      BY <2>3, <2>5, <2>7 DEF IInv, HappenedInv
    <3>3. "size" \in happened' => "size" \in over
      BY <2>2, <2>5 DEF IInv, HappenedInv, Failing
    <3>4. "size" \in happened' =>
            pc' \in Failing \/ (pc' \in {"stopping", "closing"} /\ "size" \in report'.over)
      BY <2>3, <2>4, <2>7, <3>3 DEF Failing
    <3>5. "failed" \in happened' => report'.failed
      BY <2>2, <2>3, <2>5, <2>7 DEF IInv, HappenedInv, Failing
    <3>6. "evidence" \in happened' => FALSE
      BY <2>2, <2>5 DEF IInv, HappenedInv, Failing
    <3>7. QED BY <3>1, <3>2, <3>4, <3>5, <3>6 DEF HappenedInv
  <2>11. PassedInv'
    BY <2>3, <2>5, <2>7 DEF FileInv, PassedInv, Terminal
  <2>12. QED BY <2>7, <2>8, <2>9, <2>10, <2>11 DEF IInv
<1>3. QED BY <1>1, <1>2

LEMMA LastWords ==
  ASSUME IInv, Close \/ Fail \/ Interrupted
  PROVE  IInv' /\ Grows
<1> USE SoakAssumption DEF MaxClock, Slow, Age, Labels, Still
<1>1. CASE Close
  <2> DEFINE verdict == IF FailedChecks(report) = {} THEN "passed" ELSE "failed"
             r == [report EXCEPT !.status = verdict]
  <2>1. /\ pc = "closing"
        /\ Checkpoint(r, "ended", "dead")
        /\ UNCHANGED <<clock, began, base, sampled, group, work, happened>>
    BY <1>1 DEF Close
  <2>2. /\ r \in Reports /\ r.wall = report.wall /\ r.over = report.over
        /\ r.failed = report.failed /\ r.completed = report.completed
        /\ r.status = verdict /\ verdict \in Terminal
    BY <2>1 DEF IInv, TypeOK, Reports, Terminal
  <2>3. Covers(r)
    BY <2>2 DEF IInv, TypeOK, Covers, Reports
  <2>4. verdict = "passed" => clock >= Target /\ happened = {} /\ report.completed
    <3>1. SUFFICES ASSUME FailedChecks(report) = {}
                   PROVE  clock >= Target /\ happened = {} /\ report.completed
      OBVIOUS
    <3>2. report.over = {} /\ report.completed /\ ~report.failed /\ ~(report.wall < Target)
      BY <3>1 DEF FailedChecks
    <3>3. report.wall \in Nat /\ clock \in Nat /\ report.wall <= clock
      BY DEF IInv, TypeOK, TimeInv, Reports
    <3>4. clock >= Target
      BY <3>2, <3>3
    <3>5. happened = {}
      BY <2>1, <3>2 DEF IInv, TypeOK, HappenedInv, Failing, Budgets
    <3>6. QED BY <3>2, <3>4, <3>5
  <2> HIDE DEF r, verdict
  <2>5. /\ report' = r /\ file' \in Reports /\ pc' \in {"ended", "dead"} /\ FileInv' /\ Grows
        /\ file' \in {file, r}
    BY <2>1, <2>3, CheckpointGrows DEF Checkpoint
  <2>6. TypeOK' /\ TimeInv'
    BY <2>1, <2>2, <2>5 DEF IInv, TypeOK, TimeInv
  <2>7. HappenedInv'
    BY <2>1, <2>2, <2>5 DEF IInv, HappenedInv, Failing
  <2>8. file.status # "passed" /\ group # "alive"
    BY <2>1 DEF IInv, FileInv, HappenedInv, Terminal
  <2>9. PassedInv'
    BY <2>1, <2>2, <2>4, <2>5, <2>8 DEF FileInv, PassedInv, Terminal
  <2>10. QED BY <2>5, <2>6, <2>7, <2>9 DEF IInv
<1>2. ASSUME NEW here \in {"failing", "interrupted"}, NEW status \in {"failed", "interrupted"},
             Abort(here, status)
      PROVE  IInv' /\ Grows
  <2> DEFINE r == [report EXCEPT !.status = status, !.error = "named", !.active = FALSE,
                                 !.failed = TRUE, !.wall = clock]
  <2>1. /\ pc = here
        /\ Checkpoint(r, "ended", "dead")
        /\ UNCHANGED <<clock, began, base, sampled, group, work, happened>>
    BY <1>2 DEF Abort
  <2>2. /\ r \in Reports /\ r.wall = clock /\ r.over = report.over
        /\ r.failed = TRUE /\ r.status = status
    BY <2>1 DEF IInv, TypeOK, Reports, Terminal
  <2>3. Covers(r)
    BY <2>2 DEF IInv, TimeInv, Covers
  <2> HIDE DEF r
  <2>4. /\ report' = r /\ file' \in Reports /\ pc' \in {"ended", "dead"} /\ FileInv' /\ Grows
        /\ file' \in {file, r}
    BY <2>1, <2>3, CheckpointGrows DEF Checkpoint
  <2>5. TypeOK' /\ TimeInv'
    BY <2>1, <2>2, <2>4 DEF IInv, TypeOK, TimeInv
  <2>6. HappenedInv'
    BY <2>1, <2>2, <2>4 DEF IInv, HappenedInv, Failing
  <2>7. PassedInv'
    BY <2>1, <2>2, <2>4 DEF IInv, FileInv, PassedInv, Terminal
  <2>8. QED BY <2>4, <2>5, <2>6, <2>7 DEF IInv
<1>3. QED BY <1>1, <1>2 DEF Fail, Interrupted

LEMMA InvariantStep == IInv /\ [Next]_vars => IInv' /\ [Grows]_vars
<1> SUFFICES ASSUME IInv, [Next]_vars
             PROVE  IInv' /\ [Grows]_vars
  OBVIOUS
<1>1. CASE Next
  BY <1>1, QuietSteps, MemorySteps, SampleSteps, BookingSteps, LastWords DEF Next, Harness
<1>2. CASE UNCHANGED vars
  BY <1>2 DEF vars, IInv, TypeOK, TimeInv, FileInv, HappenedInv, PassedInv, Age
<1>3. QED BY <1>1, <1>2

-----------------------------------------------------------------------------
(* Every variable of the harness, its report and its file keeps its type,  *)
(* and no iteration outlives the bound of the clock.                       *)
THEOREM SoakTypes == Spec => []TypeOK
<1>1. IInv => TypeOK
  BY DEF IInv
<1>2. QED BY InvariantInit, InvariantStep, <1>1, PTL DEF Spec

(* evaluate_report and its callers: whatever the duration, the limits and  *)
(* the faults, a report on disk that says "passed" covers the duration and *)
(* every bad thing that happened would have kept it from saying so.        *)
THEOREM PassedWasEarned == Spec => []PassedIsEarned
<1>1. IInv => PassedIsEarned
  BY DEF IInv, PassedInv, PassedIsEarned
<1>2. QED BY InvariantInit, InvariantStep, <1>1, PTL DEF Spec

(* _write_report_atomic and its callers: no version of the report takes    *)
(* back time, a failure or an exceeded budget of the version before it,    *)
(* and none replaces a verdict.                                            *)
THEOREM EvidenceGrows == Spec => EvidenceOnlyGrows
<1>1. [Grows]_vars =>
        [/\ file'.wall >= file.wall
         /\ file.failed => file'.failed
         /\ file.over \ {"size"} \subseteq file'.over
         /\ file.status \in Terminal => file' = file]_vars
  BY DEF Grows
<1>2. QED BY InvariantInit, InvariantStep, <1>1, PTL DEF Spec, EvidenceOnlyGrows
=============================================================================

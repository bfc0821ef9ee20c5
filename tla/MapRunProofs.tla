--------------------------- MODULE MapRunProofs ---------------------------
(***************************************************************************)
(* Theorems about MapRun, for any set of invocations, any of them fresh,   *)
(* and any set of faults.                                                  *)
(*                                                                         *)
(* IInv is about who may write where: the lock, the working directory a    *)
(* fresh run made, the workflow in it.  A second invariant, ResultInv with *)
(* EarnedInv, is about what is written: results that are recorded, and     *)
(* evidence that was earned.  The steps of the post-processing are treated *)
(* together, by the shape they share (PostShape), and so are all others    *)
(* (Unposted).                                                             *)
(***************************************************************************)
EXTENDS MapRun, TLAPS

\* The steps between making the working directory and taking the lock, and
\* those at which the process holds its manifest in memory.
Begun == {"made", "launch", "running", "ended"}
Holding == {"launch", "running", "ended"} \cup PostLabels

\* Until it has left, a process has the manifest it began with.
MemHeld == \A i \in Runs : pc[i] \in Holding => mem[i] \in Manifests
\* Whoever post-processes or resumes holds the lock.
LockHeld == \A i \in Runs : pc[i] \in PostLabels \cup {"resuming"} => lock = i
\* A process owns nothing before it made a directory.
NothingOwned ==
    \A i \in Runs : pc[i] \in {"idle", "validated"} =>
        partial.owner # i /\ final.owner # i /\ workflow[i] = "none"
\* From then on <output>.partial is its own, without a result.  This is what
\* keeps a resume away from a run that has not ended.
WorkingDirOwned ==
    \A i \in Runs : pc[i] \in Begun =>
        partial.owner = i /\ final.owner # i /\ ~Recorded("partial")
\* No workflow before the launch, none left when the run has ended.
WorkflowInStep ==
    \A i \in Runs :
        /\ pc[i] \in {"made", "launch"} => workflow[i] = "none"
        /\ pc[i] = "ended" => workflow[i] # "alive"
\* Only <output>.partial is renamed.
PublishesPartial == \A i \in Runs : pc[i] \in {"publishing", "renaming"} => cur[i] = "partial"
\* The directory that is post-processed is there and nobody else writes it.
PostsQuietDir ==
    \A i \in Runs : Posting(i) =>
        /\ Exists(cur[i])
        /\ pc[Dir(cur[i]).owner] \notin Begun
        /\ workflow[Dir(cur[i]).owner] # "alive"
\* A result is recorded only after its workflow was reaped.
RecordedIsQuiet == \A p \in Places : Recorded(p) => workflow[Dir(p).owner] # "alive"
FinalIsQuiet == Exists("final") => workflow[final.owner] # "alive"

\* The inductive invariant.
IInv ==
    /\ TypeOK /\ MemHeld /\ LockHeld /\ NothingOwned /\ WorkingDirOwned /\ WorkflowInStep
    /\ PublishesPartial /\ PostsQuietDir /\ RecordedIsQuiet /\ FinalIsQuiet

\* Setting one of the two directories keeps both typed.
LEMMA SetDirType ==
  ASSUME TypeOK, NEW place \in Places, NEW d \in Dirs \cup {NoDir}, SetDir(place, d)
  PROVE  partial' \in Dirs \cup {NoDir} /\ final' \in Dirs \cup {NoDir}
BY DEF TypeOK, SetDir, Places

\* An existing directory is a directory, its manifest a manifest.
LEMMA DirType ==
  ASSUME TypeOK, NEW place \in Places, Exists(place)
  PROVE  /\ Dir(place) \in Dirs
         /\ HasManifest(place) => Dir(place).man \in Manifests
BY DEF TypeOK, Dir, Exists, Places, HasManifest, Dirs

\* A process that leaves keeps its own variables typed.
LEMMA LeaveType ==
  ASSUME TypeOK, NEW i \in Runs, NEW l \in {"exited", "killed"}, Leave(i, l)
  PROVE  /\ pc' \in [Runs -> Labels] /\ mem' \in [Runs -> Manifests \cup {NoManifest}]
         /\ cur' \in [Runs -> Places] /\ lock' \in Runs \cup {NoRun}
         /\ workflow' = workflow
BY DEF TypeOK, Leave, Places, Labels

\* So does one that exits with a code.
LEMMA ExitType ==
  ASSUME TypeOK, NEW i \in Runs, NEW c \in Codes, Exit(i, c)
  PROVE  /\ pc' \in [Runs -> Labels] /\ mem' \in [Runs -> Manifests \cup {NoManifest}]
         /\ cur' \in [Runs -> Places] /\ lock' \in Runs \cup {NoRun}
         /\ workflow' = workflow /\ code' \in [Runs -> Codes]
BY LeaveType DEF Exit, TypeOK

\* A manifest write, done or failed, keeps every type.
LEMMA WriteType ==
  ASSUME TypeOK, NEW i \in Runs, NEW m \in Manifests, NEW l \in PostLabels, Write(i, m, l)
  PROVE  TypeOK' /\ mem'[i] \in Manifests
<1>1. /\ mem' \in [Runs -> Manifests \cup {NoManifest}] /\ mem'[i] \in Manifests
  BY DEF Write, TypeOK
<1>2. /\ lock' = lock /\ code' = code /\ workflow' = workflow /\ cur' = cur
      /\ pc' \in [Runs -> Labels]
  BY DEF Write, TypeOK, Goto, Labels, PostLabels
<1>3. cur[i] \in Places
  BY DEF TypeOK
<1>4. partial' \in Dirs \cup {NoDir} /\ final' \in Dirs \cup {NoDir}
  <2>1. CASE Dirless
    BY <2>1 DEF Dirless, TypeOK
  <2>2. CASE Exists(cur[i]) /\ SetDir(cur[i], [Dir(cur[i]) EXCEPT !.man = m])
    <3>1. [Dir(cur[i]) EXCEPT !.man = m] \in Dirs
      BY <2>2, <1>3, DirType DEF Dirs
    <3>2. QED BY <3>1, <2>2, <1>3, SetDirType
  <2>3. QED BY <2>1, <2>2 DEF Write
<1>5. QED BY <1>1, <1>2, <1>4 DEF TypeOK

-----------------------------------------------------------------------------
\* The parts of a manifest, and what may be exchanged in it.
LEMMA ManifestParts ==
  ASSUME NEW m \in Manifests
  PROVE  /\ m.exit \in Codes /\ m.run \in Runs /\ m.stage \in Stages /\ m.status \in Statuses
         /\ \A s \in Stages : [m EXCEPT !.stage = s] \in Manifests
         /\ \A t \in Statuses : [m EXCEPT !.status = t] \in Manifests
BY DEF Manifests

\* What is read from, or derived from, a directory is of its type.
LEMMA DirParts ==
  ASSUME NEW d \in Dirs
  PROVE  /\ SumsOf(d) \in Sums /\ d.owner \in Runs /\ d.map \in Maps /\ d.diag \in Diagnoses
         /\ d.log \in Logs
         /\ d.man # NoManifest => d.man \in Manifests /\ ReceiptOf(d) \in Receipts
         /\ Diagnosed(d) \in Diagnoses /\ Judged(d.map) \in Logs
BY DEF Dirs, SumsOf, Sums, ReceiptOf, Receipts, Diagnosed, Diagnoses, Judged, Logs

\* A directory with another manifest is a directory.
LEMMA PutManifest ==
  ASSUME NEW d \in Dirs, NEW m \in Manifests
  PROVE  [d EXCEPT !.man = m] \in Dirs
BY DEF Dirs

\* A directory with a workflow's outcome is a directory.
LEMMA PutOutcome ==
  ASSUME NEW d \in Dirs, NEW map \in Maps, NEW log \in Logs
  PROVE  Leaves(d, map, log) \in Dirs
BY DEF Dirs, Leaves

\* The result held in memory is a manifest.
LEMMA FinishedType ==
  ASSUME TypeOK, NEW i \in Runs, mem[i] \in Manifests, NEW exit \in Codes, NEW int \in BOOLEAN,
         Finished(i, exit, int)
  PROVE  /\ mem' \in [Runs -> Manifests \cup {NoManifest}] /\ mem'[i] \in Manifests
         /\ \A j \in Runs \ {i} : mem'[j] = mem[j]
<1>1. DEFINE m == [mem[i] EXCEPT !.exit = exit,
                       !.status = IF int THEN "interrupted" ELSE StatusOf(exit),
                       !.stage = "workflow_finished"]
<1>2. m \in Manifests
  BY DEF Manifests, StatusOf, Statuses, Stages, Resumable
<1>3. mem' = [mem EXCEPT ![i] = m]
  BY DEF Finished, TypeOK
<1>4. QED BY <1>2, <1>3 DEF TypeOK

\* The steps before the post-processing keep the types.
LEMMA FreshTypeStep ==
  ASSUME IInv, NEW i \in Runs, FreshStep(i)
  PROVE  TypeOK' /\ MemHeld'
<1> USE RunsAssumption DEF IInv
<1>1. CASE ValidateOutput(i)
  BY <1>1, ExitType DEF ValidateOutput, Exit, Leave, Dirless, Goto, TypeOK, MemHeld, Labels, FreshLabels, PostLabels, Holding, Unsafe, Codes
<1>2. CASE MakeWorkingDir(i)
  BY <1>2, ExitType DEF MakeWorkingDir, SetDir, Dirs, Maps, Logs, Diagnoses, Exit, Leave, Dirless, Goto, TypeOK, MemHeld, Labels, FreshLabels, PostLabels, Holding, Unsafe, Codes
<1>3. CASE WriteRunning(i)
  <2>1. CASE "manifest" \in Faults /\ SetDir("partial", NoDir) /\ Exit(i, Unsafe)
    BY <1>3, <2>1, ExitType DEF SetDir, Exit, Leave, TypeOK, MemHeld, Holding, PostLabels, Unsafe, Codes
  <2>2. ASSUME NEW v \in BOOLEAN,
               NEW m,
               m = [run |-> i, stage |-> "workflow_running", status |-> "running",
                    exit |-> NoCode, runner |-> NoCode, verification |-> v,
                    finalized |-> FALSE, sums |-> NoSums],
               mem' = [mem EXCEPT ![i] = m],
               SetDir("partial", [partial EXCEPT !.man = m]),
               Goto(i, "launch"),
               UNCHANGED <<cur, workflow>>
        PROVE  TypeOK' /\ MemHeld'
    <3>1. m \in Manifests
      BY <2>2 DEF Manifests, Stages, Statuses, Sums, NoSums, Logs, Diagnoses, Codes, NoCode
    <3>2. partial \in Dirs
      BY <1>3 DEF WriteRunning, Exists, Dir, TypeOK
    <3>3. partial' \in Dirs /\ final' = final
      BY <2>2, <3>1, <3>2, PutManifest DEF SetDir
    <3>4. QED BY <2>2, <3>1, <3>3 DEF Goto, TypeOK, MemHeld, Labels, FreshLabels, PostLabels, Holding
  <2>3. QED BY <1>3, <2>1, <2>2 DEF WriteRunning
<1>4. CASE LaunchWorkflow(i)
  BY <1>4 DEF LaunchWorkflow, Dirless, Goto, TypeOK, MemHeld, Labels, FreshLabels, PostLabels, Holding
<1>5. CASE LaunchFails(i)
  <2>1. mem[i] \in Manifests
    BY <1>5 DEF LaunchFails, MemHeld, Holding
  <2>2. mem' \in [Runs -> Manifests \cup {NoManifest}] /\ mem'[i] \in Manifests
        /\ \A j \in Runs \ {i} : mem'[j] = mem[j]
    BY <1>5, <2>1, FinishedType DEF LaunchFails, Broken, Codes
  <2>3. QED BY <1>5, <2>2 DEF LaunchFails, Dirless, Goto, TypeOK, MemHeld, Labels, FreshLabels, PostLabels, Holding
<1>6. CASE ReapWorkflow(i)
  <2>1. mem[i] \in Manifests
    BY <1>6 DEF ReapWorkflow, MemHeld, Holding
  <2>2. mem' \in [Runs -> Manifests \cup {NoManifest}] /\ mem'[i] \in Manifests
        /\ \A j \in Runs \ {i} : mem'[j] = mem[j]
    BY <1>6, <2>1, FinishedType DEF ReapWorkflow, Broken, Ok, Failed, Codes
  <2>3. QED BY <1>6, <2>2 DEF ReapWorkflow, Dirless, Goto, TypeOK, MemHeld, Labels, FreshLabels, PostLabels, Holding
<1>7. CASE InterruptWorkflow(i)
  <2>1. mem[i] \in Manifests
    BY <1>7 DEF InterruptWorkflow, MemHeld, Holding
  <2>2. mem' \in [Runs -> Manifests \cup {NoManifest}] /\ mem'[i] \in Manifests
        /\ \A j \in Runs \ {i} : mem'[j] = mem[j]
    BY <1>7, <2>1, FinishedType DEF InterruptWorkflow, Broken, Interrupted, Codes
  <2>3. partial \in Dirs
    BY <1>7 DEF InterruptWorkflow, WorkingDirOwned, Begun, NoDir, TypeOK
  <2>4. partial' \in Dirs /\ final' = final
    BY <1>7, <2>3, PutOutcome DEF InterruptWorkflow, SetDir
  <2>5. QED BY <1>7, <2>2, <2>4 DEF InterruptWorkflow, Goto, TypeOK, MemHeld, Labels, FreshLabels, PostLabels, Holding
<1>8. CASE LockFinishedRun(i)
  BY <1>8, ExitType DEF LockFinishedRun, Exit, Leave, Dirless, TypeOK, MemHeld, Labels, FreshLabels, PostLabels, Holding, Broken, Codes, Places
<1>9. QED BY <1>1, <1>2, <1>3, <1>4, <1>5, <1>6, <1>7, <1>8 DEF FreshStep

\* The steps of a resume keep the types.
LEMMA ResumeTypeStep ==
  ASSUME IInv, NEW i \in Runs, ResumeStep(i)
  PROVE  TypeOK' /\ MemHeld'
<1> USE RunsAssumption DEF IInv
<1>1. CASE LockResume(i)
  BY <1>1, ExitType DEF LockResume, Exit, Leave, Dirless, TypeOK, MemHeld, Labels, FreshLabels, PostLabels, Holding, Broken, Codes, Places
<1>2. CASE AcceptResume(i)
  <2>1. PICK place \in Places :
           /\ HasManifest(place)
           /\ mem' = [mem EXCEPT ![i] = [Dir(place).man EXCEPT
                        !.status = IF Dir(place).man.status = "interrupted" THEN "interrupted"
                                   ELSE StatusOf(Dir(place).man.exit)]]
           /\ cur' = [cur EXCEPT ![i] = place]
    BY <1>2 DEF AcceptResume, ResumeAccepted
  <2>2. Dir(place).man \in Manifests
    BY <2>1, DirType DEF HasManifest
  <2>3. mem'[i] \in Manifests
    <3>1. DEFINE t == IF Dir(place).man.status = "interrupted" THEN "interrupted"
                      ELSE StatusOf(Dir(place).man.exit)
    <3>2. t \in Statuses
      BY DEF StatusOf, Statuses
    <3>3. [Dir(place).man EXCEPT !.status = t] \in Manifests
      BY <2>2, <3>2, ManifestParts
    <3>4. QED BY <2>1, <3>3 DEF TypeOK
  <2>4. QED BY <1>2, <2>1, <2>3 DEF AcceptResume, Dirless, Goto, TypeOK, MemHeld, Labels, PostLabels, Holding
<1>3. CASE RefuseResume(i)
  BY <1>3, ExitType DEF RefuseResume, Exit, Leave, Dirless, TypeOK, MemHeld, Labels, FreshLabels, PostLabels, Holding, Unsafe, Codes
<1>4. QED BY <1>1, <1>2, <1>3 DEF ResumeStep

\* A workflow that ends and a killed process keep the types.
LEMMA OutsideTypeStep ==
  ASSUME IInv, NEW i \in Runs, WorkflowEnds(i) \/ Kill(i)
  PROVE  TypeOK' /\ MemHeld'
<1> USE RunsAssumption DEF IInv
<1>1. CASE WorkflowEnds(i)
  <2>1. PICK map \in Maps, log \in Logs :
           IF Exists("partial") /\ partial.owner = i
           THEN SetDir("partial", Leaves(partial, map, log)) ELSE Dirless
    BY <1>1 DEF WorkflowEnds
  <2>2. partial' \in Dirs \cup {NoDir} /\ final' = final
    BY <2>1, PutOutcome DEF Exists, Dir, SetDir, Dirless, TypeOK
  <2>3. QED BY <1>1, <2>2 DEF WorkflowEnds, TypeOK, MemHeld
<1>2. CASE Kill(i)
  BY <1>2, LeaveType DEF Kill, Leave, Dirless, TypeOK, MemHeld, Holding, PostLabels
<1>3. QED BY <1>1, <1>2

\* A directory with other evidence is a directory.
LEMMA PutEvidence ==
  ASSUME NEW d \in Dirs
  PROVE  /\ \A l \in Logs : [d EXCEPT !.log = l] \in Dirs
         /\ \A l \in Diagnoses : [d EXCEPT !.diag = l] \in Dirs
         /\ \A r \in Receipts : [d EXCEPT !.receipt = r] \in Dirs
BY DEF Dirs

\* A manifest write of a post-processing keeps the types.
LEMMA WriteTypeStep ==
  ASSUME TypeOK, MemHeld, NEW i \in Runs, NEW m \in Manifests, NEW l \in PostLabels, Write(i, m, l)
  PROVE  TypeOK' /\ MemHeld'
<1>1. TypeOK' /\ mem'[i] \in Manifests
  BY WriteType
<1>2. QED BY <1>1 DEF Write, Goto, MemHeld, TypeOK, Holding, PostLabels

\* So does marking a stage.
LEMMA MarkTypeStep ==
  ASSUME TypeOK, MemHeld, NEW i \in Runs, NEW at \in PostLabels, NEW s \in Stages,
         NEW l \in PostLabels, Mark(i, at, s, l)
  PROVE  TypeOK' /\ MemHeld'
<1>1. mem[i] \in Manifests
  BY DEF Mark, MemHeld, Holding
<1>2. QED BY <1>1, ManifestParts, WriteTypeStep DEF Mark

\* So does replacing a piece of evidence.
LEMMA EvidenceTypeStep ==
  ASSUME TypeOK, MemHeld, NEW i \in Runs, pc[i] \in PostLabels, NEW l \in PostLabels,
         \/ Dirless
         \/ \E d \in Dirs : SetDir(cur[i], d),
         Goto(i, l),
         UNCHANGED <<mem, cur, workflow>>
  PROVE  TypeOK' /\ MemHeld'
<1>1. partial' \in Dirs \cup {NoDir} /\ final' \in Dirs \cup {NoDir}
  BY DEF SetDir, Dirless, TypeOK, Places
<1>2. QED BY <1>1 DEF Goto, TypeOK, MemHeld, Holding, Labels

\* So does leaving.
LEMMA LeaveTypeStep ==
  ASSUME TypeOK, MemHeld, NEW i \in Runs, NEW c \in Codes, Exit(i, c),
         partial' \in Dirs \cup {NoDir}, final' \in Dirs \cup {NoDir}
  PROVE  TypeOK' /\ MemHeld'
BY ExitType DEF Exit, Leave, TypeOK, MemHeld, Holding, PostLabels

\* Every step of the post-processing keeps the types.
LEMMA PostTypeStep ==
  ASSUME IInv, NEW i \in Runs, PostStep(i)
  PROVE  TypeOK' /\ MemHeld'
<1> USE RunsAssumption DEF IInv
<1>a. \A p \in Places : Exists(p) => Dir(p) \in Dirs
  BY DirType
<1>b. cur[i] \in Places
  BY DEF TypeOK
<1>c. pc[i] \in PostLabels => mem[i] \in Manifests
  BY DEF MemHeld, Holding
<1>1. CASE RecordResult(i)
  BY <1>1, <1>c, WriteTypeStep DEF RecordResult, PostLabels
<1>2. CASE MarkVerifying(i)
  BY <1>2, MarkTypeStep DEF MarkVerifying, PostLabels, Stages, Resumable
<1>3. CASE OpenVerifyLog(i)
  <2>1. [Dir(cur[i]) EXCEPT !.log = "torn"] \in Dirs
    BY <1>3, <1>a, <1>b, PutEvidence DEF OpenVerifyLog, Logs
  <2>2. CASE mem[i].verification /\ Dir(cur[i]).map # "none"
    BY <1>3, <2>1, <2>2, EvidenceTypeStep DEF OpenVerifyLog, PostLabels
  <2>3. CASE ~(mem[i].verification /\ Dir(cur[i]).map # "none")
    BY <1>3, <2>3, EvidenceTypeStep DEF OpenVerifyLog, PostLabels
  <2>4. QED BY <2>2, <2>3
<1>4. CASE VerifyMap(i)
  <2>1. [Dir(cur[i]) EXCEPT !.log = Judged(Dir(cur[i]).map)] \in Dirs
    BY <1>4, <1>a, <1>b, PutEvidence, DirParts DEF VerifyMap
  <2>2. QED BY <1>4, <2>1, EvidenceTypeStep DEF VerifyMap, PostLabels
<1>5. CASE MarkVerified(i)
  BY <1>5, MarkTypeStep DEF MarkVerified, PostLabels, Stages, Resumable
<1>6. CASE MarkFinalizing(i)
  BY <1>6, MarkTypeStep DEF MarkFinalizing, PostLabels, Stages, Resumable
<1>7. CASE Publish(i)
  BY <1>7 DEF Publish, Goto, Dirless, TypeOK, MemHeld, Holding, PostLabels, Labels, Places
<1>8. CASE MarkFinalized(i)
  <2>1. [mem[i] EXCEPT !.stage = "finalized", !.finalized = TRUE] \in Manifests
    BY <1>8, <1>c DEF MarkFinalized, PostLabels, Manifests, Stages, Resumable
  <2>2. QED BY <1>8, <2>1, WriteTypeStep DEF MarkFinalized, PostLabels
<1>9. CASE MarkDiagnosing(i)
  BY <1>9, MarkTypeStep DEF MarkDiagnosing, PostLabels, Stages, Resumable
<1>10. CASE OpenDiagnosis(i)
  <2>1. Exists(cur[i]) => [Dir(cur[i]) EXCEPT !.diag = "torn"] \in Dirs
    BY <1>a, <1>b, PutEvidence DEF Diagnoses
  <2>2. QED BY <1>10, <2>1, EvidenceTypeStep DEF OpenDiagnosis, PostLabels
<1>11. CASE WriteDiagnosis(i)
  <2>1. Exists(cur[i]) => [Dir(cur[i]) EXCEPT !.diag = Diagnosed(Dir(cur[i]))] \in Dirs
    BY <1>a, <1>b, PutEvidence, DirParts
  <2>2. QED BY <1>11, <2>1, EvidenceTypeStep DEF WriteDiagnosis, PostLabels
<1>12. CASE MarkDiagnosed(i)
  BY <1>12, MarkTypeStep DEF MarkDiagnosed, PostLabels, Stages, Resumable
<1>13. CASE MarkChecksumming(i)
  <2>1. mem[i] \in Manifests
    BY <1>13, <1>c DEF MarkChecksumming, PostLabels
  <2>2. [mem[i] EXCEPT !.stage = "checksumming",
                       !.status = IF @ = "interrupted" THEN @ ELSE StatusOf(Verdict(i))] \in Manifests
    BY <2>1 DEF Manifests, Stages, Resumable, StatusOf, Statuses
  <2>3. QED BY <1>13, <2>2, WriteTypeStep DEF MarkChecksumming, PostLabels
<1>14. CASE Seal(i)
  <2>1. mem[i] \in Manifests
    BY <1>14, <1>c DEF Seal, PostLabels
  <2>2. Verdict(i) \in Codes
    BY <2>1, ManifestParts DEF Verdict, Codes, Failed, Ok
  <2>3. SumsOf(Dir(cur[i])) \in Sums
    BY <1>14, <1>a, <1>b, DirParts DEF Seal
  <2>4. [mem[i] EXCEPT !.stage = "complete", !.runner = Verdict(i),
                       !.sums = SumsOf(Dir(cur[i]))] \in Manifests
    BY <2>1, <2>2, <2>3 DEF Manifests, Stages
  <2>5. QED BY <1>14, <2>4, WriteTypeStep DEF Seal, PostLabels
<1>15. CASE WriteReceipt(i)
  <2>1. Exists(cur[i]) /\ Readable(Dir(cur[i]))
        => [Dir(cur[i]) EXCEPT !.receipt = ReceiptOf(Dir(cur[i]))] \in Dirs
    BY <1>a, <1>b, PutEvidence, DirParts DEF Readable
  <2>2. QED BY <1>15, <2>1, EvidenceTypeStep DEF WriteReceipt, PostLabels
<1>16. CASE Conclude(i)
  <2>1. mem[i].runner \in Codes
    BY <1>16, <1>c DEF Conclude, PostLabels, Manifests
  <2>2. CASE Exit(i, mem[i].runner)
    BY <1>16, <2>1, <2>2, LeaveTypeStep DEF Conclude, Dirless, TypeOK
  <2>3. CASE Goto(i, "failing") /\ UNCHANGED <<mem, cur, workflow>>
    BY <1>16, <2>3, EvidenceTypeStep DEF Conclude, PostLabels
  <2>4. QED BY <1>16, <2>2, <2>3 DEF Conclude
<1>17. CASE HandleFailure(i)
  <2>1. mem[i] \in Manifests
    BY <1>17, <1>c DEF HandleFailure, PostLabels
  <2>2. CASE Exit(i, Broken) /\ Dirless
    BY <2>2, LeaveTypeStep DEF Dirless, TypeOK, Broken, Codes
  <2> DEFINE place == HandlerPlace
             m == [mem[i] EXCEPT !.status = IF @ \in {"failed", "interrupted"} THEN @ ELSE "failed",
                               !.finalized = Exists("final"),
                               !.runner = Broken,
                               !.sums = SumsOf(Dir(place))]
  <2>3. CASE /\ Exists(place)
             /\ mem' = [mem EXCEPT ![i] = m]
             /\ SetDir(place, [Dir(place) EXCEPT !.man = m])
             /\ cur' = [cur EXCEPT ![i] = place]
             /\ Goto(i, "failed")
             /\ UNCHANGED workflow
    <3>1. place \in Places
      BY DEF HandlerPlace, Places
    <3>2. Dir(place) \in Dirs /\ SumsOf(Dir(place)) \in Sums
      BY <2>3, <3>1, <1>a, DirParts
    <3>3. m \in Manifests
      <4>1. /\ (IF mem[i].status \in {"failed", "interrupted"} THEN mem[i].status ELSE "failed")
               \in Statuses
            /\ Broken \in Codes /\ Exists("final") \in BOOLEAN
        BY DEF Statuses, Broken, Codes, Exists
      <4>2. QED BY <2>1, <3>2, <4>1 DEF Manifests
    <3>4. [Dir(place) EXCEPT !.man = m] \in Dirs
      BY <3>2, <3>3, PutManifest
    <3>5. partial' \in Dirs \cup {NoDir} /\ final' \in Dirs \cup {NoDir}
      BY <2>3, <3>1, <3>4, SetDirType
    <3> HIDE DEF place, m
    <3>6. QED BY <2>3, <3>1, <3>3, <3>5 DEF Goto, TypeOK, MemHeld, Holding, PostLabels, Labels
  <2>4. QED BY <1>17, <2>2, <2>3 DEF HandleFailure
<1>18. CASE HandlerReceipt(i)
  <2>1. Exists(cur[i]) /\ Readable(Dir(cur[i]))
        => [Dir(cur[i]) EXCEPT !.receipt = ReceiptOf(Dir(cur[i]))] \in Dirs
    BY <1>a, <1>b, PutEvidence, DirParts DEF Readable
  <2>2. partial' \in Dirs \cup {NoDir} /\ final' \in Dirs \cup {NoDir}
    BY <1>18, <1>b, <2>1, SetDirType DEF HandlerReceipt, Dirless, TypeOK
  <2>3. QED BY <1>18, <2>2, LeaveTypeStep DEF HandlerReceipt, Broken, Codes
<1>19. QED
  BY <1>1, <1>2, <1>3, <1>4, <1>5, <1>6, <1>7, <1>8, <1>9, <1>10, <1>11, <1>12,
     <1>13, <1>14, <1>15, <1>16, <1>17, <1>18 DEF PostStep
-----------------------------------------------------------------------------
\* IInv without the types.
Ownership ==
    /\ LockHeld /\ NothingOwned /\ WorkingDirOwned /\ WorkflowInStep
    /\ PublishesPartial /\ PostsQuietDir /\ RecordedIsQuiet /\ FinalIsQuiet

\* A directory with a recorded result; one that nobody's workflow writes into;
\* a manifest whose sealed success is the workflow's own.
Rec(d) == d # NoDir /\ d.man # NoManifest /\ d.man.exit # NoCode
Quiet(d) == d # NoDir /\ pc[d.owner] \notin Begun /\ workflow[d.owner] # "alive"
Earned(m) == m.stage = "complete" /\ m.runner = Ok /\ m.status = "succeeded" => m.exit = Ok
\* What post-processing may change in a manifest and in a directory.
Continues(m, n) ==
    /\ n.run = m.run /\ n.exit = m.exit /\ n.verification = m.verification
    /\ m.status = "interrupted" => n.status = "interrupted"
    /\ Earned(m) => Earned(n)
Reworks(d, e) ==
    /\ e # NoDir /\ e.owner = d.owner /\ e.map = d.map
    /\ e.log \in {d.log, "torn", Judged(d.map)}
Touches(d, e, new) == e = d \/ (Quiet(d) /\ Reworks(d, e) /\ e.man \in {d.man} \cup new)
NewManifests(i, l) == IF l = "exited" THEN {} ELSE {mem'[i]}

\* What every step of the post-processing has in common.
PostShape(i, l) ==
    /\ pc[i] \in PostLabels
    /\ pc' = [pc EXCEPT ![i] = l]
    /\ lock' = IF l = "exited" /\ lock = i THEN NoRun ELSE lock
    /\ workflow' = workflow
    /\ \A j \in Runs \ {i} : cur'[j] = cur[j]
    /\ l \in {"publishing", "renaming"} => cur'[i] = "partial"
    /\ \A j \in Runs \ {i} : mem'[j] = mem[j]
    /\ l # "exited" => Continues(mem[i], mem'[i])
    /\ Touches(partial, partial', NewManifests(i, l))
    /\ Touches(final, final', NewManifests(i, l))
    /\ l # "exited" => cur'[i] \in Places /\ Quiet(Dir(cur'[i]))

\* The directory that is post-processed has no workflow writing into it.
LEMMA PostedDirIsQuiet ==
  ASSUME IInv, NEW i \in Runs, pc[i] \in PostLabels
  PROVE  cur[i] \in Places /\ Quiet(Dir(cur[i]))
BY DEF IInv, PostsQuietDir, Quiet, Posting, TypeOK, Exists

\* Nor has the published one.
LEMMA FinalDirIsQuiet ==
  ASSUME IInv, Exists("final")
  PROVE  Quiet(final)
<1>1. final.owner \in Runs
  BY DEF IInv, TypeOK, Exists, Dir, Dirs
<1>2. QED BY <1>1 DEF IInv, WorkingDirOwned, FinalIsQuiet, Quiet, Exists, Dir

\* Replacing evidence or the manifest leaves the owner and the map alone.
LEMMA EvidenceKeepsTheOwner ==
  ASSUME NEW d \in Dirs
  PROVE  /\ \A x \in {d.log, "torn", Judged(d.map)} :
               Reworks(d, [d EXCEPT !.log = x]) /\ [d EXCEPT !.log = x].man = d.man
         /\ \A x : Reworks(d, [d EXCEPT !.diag = x]) /\ [d EXCEPT !.diag = x].man = d.man
         /\ \A x : Reworks(d, [d EXCEPT !.receipt = x]) /\ [d EXCEPT !.receipt = x].man = d.man
         /\ \A x : Reworks(d, [d EXCEPT !.man = x]) /\ [d EXCEPT !.man = x].man = x
BY RunsAssumption DEF Dirs, NoDir, Reworks

\* The handler's manifest in a quiet directory.
LEMMA HandlerTouches ==
  ASSUME NEW d \in Dirs, NEW m, Quiet(d)
  PROVE  Touches(d, [d EXCEPT !.man = m], {m})
BY EvidenceKeepsTheOwner DEF Touches

\* A manifest write has the shape of a post-processing step.
LEMMA WriteShape ==
  ASSUME IInv, NEW i \in Runs, pc[i] \in PostLabels, NEW m, NEW l \in PostLabels,
         l \in {"publishing", "renaming"} => cur[i] = "partial",
         Continues(mem[i], m),
         Write(i, m, l)
  PROVE  \E k \in PostLabels : PostShape(i, k)
<1>1. cur[i] \in Places /\ Quiet(Dir(cur[i]))
  BY PostedDirIsQuiet
<1>a. mem'[i] = m /\ \A j \in Runs \ {i} : mem'[j] = mem[j]
  BY DEF Write, IInv, TypeOK
<1>2. CASE SetDir(cur[i], [Dir(cur[i]) EXCEPT !.man = m]) /\ Goto(i, l)
  <2>1. Dir(cur[i]) \in Dirs
    BY <1>1, DirType DEF IInv, Quiet, Exists
  <2>2. /\ Reworks(Dir(cur[i]), [Dir(cur[i]) EXCEPT !.man = m])
        /\ [Dir(cur[i]) EXCEPT !.man = m].man = m
    BY <2>1, EvidenceKeepsTheOwner
  <2>3. l # "exited" /\ NewManifests(i, l) = {m}
    BY <1>a DEF PostLabels, NewManifests
  <2>4. Touches(partial, partial', {m}) /\ Touches(final, final', {m})
    BY <1>1, <1>2, <2>2 DEF SetDir, Touches, Dir, Places
  <2>5. QED BY <1>1, <1>2, <1>a, <2>3, <2>4 DEF PostShape, Write, Goto, PostLabels
<1>3. CASE Dirless /\ Goto(i, "failing")
  <2>1. /\ Touches(partial, partial', NewManifests(i, "failing"))
        /\ Touches(final, final', NewManifests(i, "failing"))
    BY <1>3 DEF Dirless, Touches
  <2>2. PostShape(i, "failing")
    BY <1>1, <1>3, <1>a, <2>1 DEF PostShape, Write, Goto
  <2>3. QED BY <2>2 DEF PostLabels
<1>4. QED BY <1>2, <1>3 DEF Write

\* So has the replacement of a piece of evidence.
LEMMA EvidenceShape ==
  ASSUME IInv, NEW i \in Runs, pc[i] \in PostLabels, NEW l \in PostLabels,
         l \notin {"publishing", "renaming"},
         \/ Dirless
         \/ \E d : SetDir(cur[i], d) /\ Reworks(Dir(cur[i]), d) /\ d.man = Dir(cur[i]).man,
         Goto(i, l),
         UNCHANGED <<mem, cur, workflow>>
  PROVE  PostShape(i, l)
<1>1. cur[i] \in Places /\ Quiet(Dir(cur[i]))
  BY PostedDirIsQuiet
<1>2. Touches(partial, partial', NewManifests(i, l)) /\ Touches(final, final', NewManifests(i, l))
  BY <1>1 DEF SetDir, Dirless, Touches, Dir, Places
<1>3. Continues(mem[i], mem'[i])
  BY DEF Continues
<1>4. QED BY <1>1, <1>2, <1>3 DEF PostShape, Goto, PostLabels

\* Recorded, for each of the two directories.
LEMMA RecordedDirs ==
  /\ Recorded("partial") <=> Rec(partial)
  /\ Recorded("final") <=> Rec(final)
  /\ Exists("partial") <=> partial # NoDir
  /\ Exists("final") <=> final # NoDir
  /\ Dir("partial") = partial
  /\ Dir("final") = final
BY DEF Recorded, HasManifest, Exists, Dir, Rec

\* A step of that shape keeps the ownership.
LEMMA ShapeKeepsOwnership ==
  ASSUME IInv, NEW i \in Runs, NEW l \in PostLabels \cup {"exited"}, PostShape(i, l)
  PROVE  Ownership'
<1> USE RunsAssumption DEF IInv
<1>1. \A d, e, new : Touches(d, e, new) => /\ e # NoDir <=> d # NoDir
                                           /\ e.owner = d.owner
                                           /\ Rec(e) => Rec(d) \/ Quiet(d)
  BY DEF Touches, Reworks, Rec, Quiet
<1>2. /\ partial' # NoDir <=> partial # NoDir
      /\ final' # NoDir <=> final # NoDir
      /\ partial'.owner = partial.owner
      /\ final'.owner = final.owner
      /\ Rec(partial') => Rec(partial) \/ Quiet(partial)
      /\ Rec(final') => Rec(final) \/ Quiet(final)
  BY <1>1 DEF PostShape
<1>3. /\ \A j \in Runs : pc'[j] \in Begun \cup {"idle", "validated", "resuming"} => pc'[j] = pc[j] /\ j # i
      /\ \A j \in Runs \ {i} : pc'[j] = pc[j]
      /\ pc'[i] = l
      /\ workflow' = workflow
  BY DEF PostShape, TypeOK, Begun, PostLabels
<1>4. \A d : Quiet(d) => pc'[d.owner] \notin Begun /\ workflow'[d.owner] # "alive"
  BY <1>3 DEF Quiet, PostShape, TypeOK, Begun, PostLabels
<1>5. (Recorded("partial") <=> Rec(partial))' /\ (Recorded("final") <=> Rec(final))'
  BY DEF Recorded, HasManifest, Exists, Dir, Rec
<1>6. LockHeld'
  BY <1>3 DEF LockHeld, PostShape, PostLabels
<1>7. NothingOwned'
  BY <1>2, <1>3 DEF NothingOwned
<1>8. WorkingDirOwned'
  BY <1>2, <1>3, <1>5, RecordedDirs DEF WorkingDirOwned, Quiet
<1>9. WorkflowInStep'
  BY <1>3 DEF WorkflowInStep, PostShape, PostLabels, Begun
<1>10. PublishesPartial'
  BY <1>3 DEF PublishesPartial, PostShape
<1>11. PostsQuietDir'
  <2> SUFFICES ASSUME NEW j \in Runs, pc'[j] \in PostLabels
               PROVE  LET d == IF cur'[j] = "partial" THEN partial' ELSE final'
                      IN  d # NoDir /\ pc'[d.owner] \notin Begun /\ workflow'[d.owner] # "alive"
    BY DEF PostsQuietDir, Posting, Exists, Dir
  <2>1. Quiet(Dir(cur'[j]))
    <3>1. CASE j = i
      BY <3>1, <1>3 DEF PostShape, PostLabels
    <3>2. CASE j # i
      BY <3>2, <1>3, PostedDirIsQuiet DEF PostShape
    <3>3. QED BY <3>1, <3>2
  <2>2. Dir(cur'[j]) = IF cur'[j] = "partial" THEN partial ELSE final
    BY DEF Dir
  <2>3. QED BY <2>1, <2>2, <1>2, <1>4 DEF Quiet
<1>12. RecordedIsQuiet'
  <2> SUFFICES /\ Rec(partial') => workflow'[partial'.owner] # "alive"
               /\ Rec(final') => workflow'[final'.owner] # "alive"
    BY DEF RecordedIsQuiet, Recorded, HasManifest, Exists, Dir, Rec, Places
  <2>1. /\ Rec(partial) => workflow[partial.owner] # "alive"
        /\ Rec(final) => workflow[final.owner] # "alive"
    BY RecordedDirs DEF RecordedIsQuiet, Places
  <2>2. QED BY <2>1, <1>2, <1>3 DEF Quiet
<1>13. FinalIsQuiet'
  BY <1>2, <1>3 DEF FinalIsQuiet, Exists, Dir
<1>14. QED BY <1>6, <1>7, <1>8, <1>9, <1>10, <1>11, <1>12, <1>13 DEF Ownership

\* An exit has the shape of a post-processing step.
LEMMA ExitShape ==
  ASSUME IInv, NEW i \in Runs, pc[i] \in PostLabels, NEW c, Exit(i, c),
         \/ Dirless
         \/ \E d : SetDir(cur[i], d) /\ Reworks(Dir(cur[i]), d) /\ d.man = Dir(cur[i]).man
  PROVE  PostShape(i, "exited")
<1>1. cur[i] \in Places /\ Quiet(Dir(cur[i]))
  BY PostedDirIsQuiet
<1>2. /\ Touches(partial, partial', NewManifests(i, "exited"))
      /\ Touches(final, final', NewManifests(i, "exited"))
  BY <1>1 DEF SetDir, Dirless, Touches, Dir, Places
<1>3. \A j \in Runs \ {i} : cur'[j] = cur[j] /\ mem'[j] = mem[j]
  BY DEF Exit, Leave, IInv, TypeOK
<1>4. QED BY <1>1, <1>2, <1>3 DEF PostShape, Exit, Leave, PostLabels

(* What every step of the post-processing but the rename has in common.    *)
LEMMA PostStepShape ==
  ASSUME IInv, NEW i \in Runs, PostStep(i), ~Publish(i)
  PROVE  \E l \in PostLabels \cup {"exited"} : PostShape(i, l)
<1>a. pc[i] \in PostLabels => cur[i] \in Places /\ Quiet(Dir(cur[i])) /\ Dir(cur[i]) \in Dirs
  BY PostedDirIsQuiet, DirType DEF IInv, Quiet, Exists
<1>b. pc[i] \in PostLabels => mem[i] \in Manifests
  BY DEF IInv, MemHeld, Holding
<1>c. pc[i] \in PostLabels => \A st \in Resumable : Continues(mem[i], [mem[i] EXCEPT !.stage = st])
  BY <1>b DEF Manifests, Continues, Earned, Resumable
<1>d. Continues(mem[i], mem[i])
  BY DEF Continues
<1>1. CASE RecordResult(i)
  BY <1>1, <1>d, WriteShape DEF RecordResult, PostLabels
<1>2. CASE MarkVerifying(i)
  BY <1>2, <1>c, WriteShape DEF MarkVerifying, Mark, PostLabels, Resumable
<1>3. CASE OpenVerifyLog(i)
  <2>1. pc[i] \in PostLabels
    BY <1>3 DEF OpenVerifyLog, PostLabels
  <2>2. CASE mem[i].verification /\ Dir(cur[i]).map # "none"
    BY <1>3, <1>a, <2>1, <2>2, EvidenceShape, EvidenceKeepsTheOwner DEF OpenVerifyLog, PostLabels
  <2>3. CASE ~(mem[i].verification /\ Dir(cur[i]).map # "none")
    BY <1>3, <2>1, <2>3, EvidenceShape DEF OpenVerifyLog, PostLabels
  <2>4. QED BY <2>2, <2>3
<1>4. CASE VerifyMap(i)
  BY <1>4, <1>a, EvidenceShape, EvidenceKeepsTheOwner DEF VerifyMap, PostLabels
<1>5. CASE MarkVerified(i)
  <2> DEFINE l == IF cur[i] = "partial" THEN "publishing" ELSE "published"
  <2>1. l \in PostLabels /\ (l \in {"publishing", "renaming"} => cur[i] = "partial")
    BY DEF PostLabels
  <2>2. pc[i] \in PostLabels /\ Write(i, [mem[i] EXCEPT !.stage = "verified"], l)
    BY <1>5 DEF MarkVerified, Mark, PostLabels
  <2>3. QED BY <2>1, <2>2, <1>c, WriteShape DEF Resumable
<1>6. CASE MarkFinalizing(i)
  <2>1. cur[i] = "partial"
    BY <1>6 DEF MarkFinalizing, Mark, IInv, PublishesPartial
  <2>2. QED BY <1>6, <2>1, <1>c, WriteShape DEF MarkFinalizing, Mark, PostLabels, Resumable
<1>8. CASE MarkFinalized(i)
  <2>1. pc[i] \in PostLabels
    BY <1>8 DEF MarkFinalized, PostLabels
  <2>2. Continues(mem[i], [mem[i] EXCEPT !.stage = "finalized", !.finalized = TRUE])
    BY <1>b, <2>1 DEF Manifests, Continues, Earned
  <2>3. QED BY <1>8, <2>1, <2>2, WriteShape DEF MarkFinalized, PostLabels
<1>9. CASE MarkDiagnosing(i)
  BY <1>9, <1>c, WriteShape DEF MarkDiagnosing, Mark, PostLabels, Resumable
<1>10. CASE OpenDiagnosis(i)
  <2>1. pc[i] \in PostLabels
    BY <1>10 DEF OpenDiagnosis, PostLabels
  <2>2. /\ Reworks(Dir(cur[i]), [Dir(cur[i]) EXCEPT !.diag = "torn"])
        /\ [Dir(cur[i]) EXCEPT !.diag = "torn"].man = Dir(cur[i]).man
    BY <1>a, <2>1, EvidenceKeepsTheOwner
  <2>3. QED BY <1>10, <2>1, <2>2, EvidenceShape DEF OpenDiagnosis, PostLabels
<1>11. CASE WriteDiagnosis(i)
  <2>1. pc[i] \in PostLabels
    BY <1>11 DEF WriteDiagnosis, PostLabels
  <2>2. /\ Reworks(Dir(cur[i]), [Dir(cur[i]) EXCEPT !.diag = Diagnosed(Dir(cur[i]))])
        /\ [Dir(cur[i]) EXCEPT !.diag = Diagnosed(Dir(cur[i]))].man = Dir(cur[i]).man
    BY <1>a, <2>1, EvidenceKeepsTheOwner
  <2>3. QED BY <1>11, <2>1, <2>2, EvidenceShape DEF WriteDiagnosis, PostLabels
<1>12. CASE MarkDiagnosed(i)
  BY <1>12, <1>c, WriteShape DEF MarkDiagnosed, Mark, PostLabels, Resumable
<1>13. CASE MarkChecksumming(i)
  <2>1. pc[i] \in PostLabels
    BY <1>13 DEF MarkChecksumming, PostLabels
  <2>2. Continues(mem[i], [mem[i] EXCEPT !.stage = "checksumming",
                               !.status = IF @ = "interrupted" THEN @
                                          ELSE StatusOf(Verdict(i))])
    BY <1>b, <2>1 DEF Manifests, Continues, Earned
  <2>3. QED BY <1>13, <2>1, <2>2, WriteShape DEF MarkChecksumming, PostLabels
<1>14. CASE Seal(i)
  <2>1. pc[i] \in PostLabels
    BY <1>14 DEF Seal, PostLabels
  <2>2. Verdict(i) = Ok => mem[i].exit = Ok
    BY DEF Verdict, Ok, Failed
  <2>3. Continues(mem[i], [mem[i] EXCEPT !.stage = "complete", !.runner = Verdict(i),
                               !.sums = SumsOf(Dir(cur[i]))])
    BY <1>b, <2>1, <2>2 DEF Manifests, Continues, Earned
  <2>4. QED BY <1>14, <2>1, <2>3, WriteShape DEF Seal, PostLabels
<1>15. CASE WriteReceipt(i)
  <2>1. pc[i] \in PostLabels
    BY <1>15 DEF WriteReceipt, PostLabels
  <2>2. /\ Reworks(Dir(cur[i]), [Dir(cur[i]) EXCEPT !.receipt = ReceiptOf(Dir(cur[i]))])
        /\ [Dir(cur[i]) EXCEPT !.receipt = ReceiptOf(Dir(cur[i]))].man = Dir(cur[i]).man
    BY <1>a, <2>1, EvidenceKeepsTheOwner
  <2>3. QED BY <1>15, <2>1, <2>2, EvidenceShape DEF WriteReceipt, PostLabels
<1>16. CASE Conclude(i)
  <2>1. pc[i] \in PostLabels
    BY <1>16 DEF Conclude, PostLabels
  <2>2. CASE Exit(i, mem[i].runner)
    BY <1>16, <2>1, <2>2, ExitShape DEF Conclude
  <2>3. CASE Goto(i, "failing") /\ UNCHANGED <<mem, cur, workflow>>
    BY <1>16, <2>1, <2>3, EvidenceShape DEF Conclude, PostLabels
  <2>4. QED BY <1>16, <2>2, <2>3 DEF Conclude
<1>17. CASE HandleFailure(i)
  <2>1. pc[i] \in PostLabels
    BY <1>17 DEF HandleFailure, PostLabels
  <2>2. CASE Exit(i, Broken) /\ Dirless
    BY <2>1, <2>2, ExitShape
  <2> DEFINE m == [mem[i] EXCEPT !.status = IF @ \in {"failed", "interrupted"} THEN @ ELSE "failed",
                               !.finalized = Exists("final"),
                               !.runner = Broken,
                               !.sums = SumsOf(Dir(HandlerPlace))]
  <2>3. Continues(mem[i], m)
    BY <1>b, <2>1 DEF Manifests, Continues, Earned, Broken, Ok
  <2>4. CASE /\ Exists(HandlerPlace)
             /\ mem' = [mem EXCEPT ![i] = m]
             /\ SetDir(HandlerPlace, [Dir(HandlerPlace) EXCEPT !.man = m])
             /\ cur' = [cur EXCEPT ![i] = HandlerPlace]
             /\ Goto(i, "failed")
             /\ UNCHANGED workflow
    <3> HIDE DEF m
    <3>1. HandlerPlace \in Places /\ Quiet(Dir(HandlerPlace))
      BY <1>a, <2>1, FinalDirIsQuiet DEF HandlerPlace, Places, Exists, Dir, Quiet
    <3>2. Dir(HandlerPlace) \in Dirs
      BY <2>4, <3>1, DirType DEF IInv
    <3>3. Touches(partial, partial', {m}) /\ Touches(final, final', {m})
      <4> DEFINE d == Dir(HandlerPlace)
                 e == [d EXCEPT !.man = m]
      <4>1. Touches(d, e, {m})
        BY <3>1, <3>2, HandlerTouches
      <4> HIDE DEF e
      <4>2. SetDir(HandlerPlace, e)
        BY <2>4 DEF e
      <4>3. QED BY <3>1, <4>1, <4>2 DEF SetDir, Dir, Places, Touches
    <3>4. /\ cur'[i] = HandlerPlace /\ \A j \in Runs \ {i} : cur'[j] = cur[j]
          /\ mem'[i] = m /\ \A j \in Runs \ {i} : mem'[j] = mem[j]
      BY <2>4 DEF IInv, TypeOK
    <3>5. NewManifests(i, "failed") = {m}
      BY <3>4 DEF NewManifests
    <3>6. PostShape(i, "failed")
      BY <2>1, <2>3, <2>4, <3>1, <3>3, <3>4, <3>5 DEF PostShape, Goto
    <3>7. QED BY <3>6 DEF PostLabels
  <2>5. QED BY <1>17, <2>2, <2>4 DEF HandleFailure
<1>18. CASE HandlerReceipt(i)
  <2>1. pc[i] \in PostLabels
    BY <1>18 DEF HandlerReceipt, PostLabels
  <2>2. Exists(cur[i]) /\ Readable(Dir(cur[i])) =>
          /\ Reworks(Dir(cur[i]), [Dir(cur[i]) EXCEPT !.receipt = ReceiptOf(Dir(cur[i]))])
          /\ [Dir(cur[i]) EXCEPT !.receipt = ReceiptOf(Dir(cur[i]))].man = Dir(cur[i]).man
    BY <1>a, <2>1, EvidenceKeepsTheOwner
  <2>3. QED BY <1>18, <2>1, <2>2, ExitShape DEF HandlerReceipt
<1>19. QED
  BY <1>1, <1>2, <1>3, <1>4, <1>5, <1>6, <1>8, <1>9, <1>10, <1>11, <1>12,
     <1>13, <1>14, <1>15, <1>16, <1>17, <1>18 DEF PostStep

(* The rename takes the directory along with its quiet owner.              *)
LEMMA PublishKeepsOwnership ==
  ASSUME IInv, NEW i \in Runs, Publish(i)
  PROVE  Ownership'
<1> USE RunsAssumption DEF IInv
<1>1. pc[i] \in PostLabels /\ cur[i] = "partial" /\ Quiet(partial)
  BY PostedDirIsQuiet DEF Publish, PostLabels, PublishesPartial, Dir
<1>2. CASE Dirless /\ UNCHANGED cur /\ Goto(i, "failing")
  <2>1. PostShape(i, "failing")
    BY <1>1, <1>2 DEF PostShape, Goto, Dirless, Touches, Continues, Publish, Places, Dir
  <2>2. QED BY <2>1, ShapeKeepsOwnership DEF PostLabels
<1>3. CASE /\ final = NoDir /\ final' = partial /\ partial' = NoDir
           /\ cur' = [cur EXCEPT ![i] = "final"] /\ Goto(i, "published")
  <2>1. /\ workflow' = workflow /\ lock' = lock
        /\ \A j \in Runs \ {i} : pc'[j] = pc[j] /\ cur'[j] = cur[j]
        /\ pc'[i] = "published" /\ cur'[i] = "final"
    BY <1>3 DEF Publish, Goto, TypeOK
  <2>2. \A j \in Runs \ {i} : pc[j] \notin PostLabels
    BY <1>1 DEF LockHeld
  <2>3. \A j \in Runs : pc[j] \notin Begun
    BY <1>1 DEF WorkingDirOwned, Quiet
  <2>4. partial.owner \in Runs
    BY <1>1 DEF Quiet, TypeOK, Dirs
  <2>5. pc'[partial.owner] \notin Begun /\ workflow'[partial.owner] # "alive"
    BY <1>1, <2>1, <2>4 DEF Quiet, Begun
  <2>6. LockHeld'
    BY <1>1, <2>1 DEF LockHeld
  <2>7. NothingOwned'
    BY <1>3, <2>1 DEF NothingOwned, NoDir
  <2>8. WorkingDirOwned'
    BY <2>1, <2>3 DEF WorkingDirOwned, Begun
  <2>9. WorkflowInStep'
    BY <2>1 DEF WorkflowInStep
  <2>10. PublishesPartial'
    BY <2>1 DEF PublishesPartial
  <2>11. PostsQuietDir'
    BY <1>1, <1>3, <2>1, <2>2, <2>5 DEF PostsQuietDir, Posting, Exists, Dir, Quiet
  <2>12. RecordedIsQuiet'
    BY <1>3, <2>5 DEF RecordedIsQuiet, Recorded, HasManifest, Exists, Dir, Places
  <2>13. FinalIsQuiet'
    BY <1>3, <2>5 DEF FinalIsQuiet, Exists, Dir
  <2>14. QED BY <2>6, <2>7, <2>8, <2>9, <2>10, <2>11, <2>12, <2>13 DEF Ownership
<1>4. QED BY <1>2, <1>3 DEF Publish, Exists, Dir

-----------------------------------------------------------------------------
(* The next ownership, in terms of the two directories.                    *)
LEMMA NextOwnership ==
  ASSUME LockHeld', NothingOwned', WorkflowInStep', PublishesPartial',
         \A j \in Runs : pc'[j] \in Begun =>
             partial'.owner = j /\ final'.owner # j /\ ~Rec(partial'),
         \A j \in Runs : pc'[j] \in PostLabels =>
             LET d == IF cur'[j] = "partial" THEN partial' ELSE final'
             IN  d # NoDir /\ pc'[d.owner] \notin Begun /\ workflow'[d.owner] # "alive",
         Rec(partial') => workflow'[partial'.owner] # "alive",
         final' # NoDir => workflow'[final'.owner] # "alive"
  PROVE  Ownership'
<1>1. WorkingDirOwned'
  BY DEF WorkingDirOwned, Recorded, HasManifest, Exists, Dir, Rec
<1>2. PostsQuietDir'
  BY DEF PostsQuietDir, Posting, Exists, Dir
<1>3. RecordedIsQuiet'
  BY DEF RecordedIsQuiet, Recorded, HasManifest, Exists, Dir, Rec, Places
<1>4. FinalIsQuiet'
  BY DEF FinalIsQuiet, Exists, Dir
<1>5. QED BY <1>1, <1>2, <1>3, <1>4 DEF Ownership

\* The ownership, in terms of the two directories.
LEMMA Ownerships ==
  ASSUME IInv
  PROVE  /\ \A j \in Runs : pc[j] \in Begun =>
               /\ partial.owner = j /\ final.owner # j /\ ~Rec(partial)
               /\ partial # NoDir
         /\ \A j \in Runs : pc[j] \in PostLabels =>
               LET d == IF cur[j] = "partial" THEN partial ELSE final
               IN  d # NoDir /\ pc[d.owner] \notin Begun /\ workflow[d.owner] # "alive"
         /\ Rec(partial) => workflow[partial.owner] # "alive"
         /\ final # NoDir => workflow[final.owner] # "alive"
         /\ partial # NoDir => partial.owner \in Runs /\ partial \in Dirs
         /\ final # NoDir => final.owner \in Runs
<1> USE RunsAssumption DEF IInv
<1>1. \A j \in Runs : pc[j] \in Begun => partial.owner = j /\ final.owner # j /\ ~Rec(partial)
  BY RecordedDirs DEF WorkingDirOwned
<1>2. \A j \in Runs : pc[j] \in Begun => partial # NoDir
  BY <1>1 DEF NoDir
<1>3. \A j \in Runs : pc[j] \in PostLabels =>
               LET d == IF cur[j] = "partial" THEN partial ELSE final
               IN  d # NoDir /\ pc[d.owner] \notin Begun /\ workflow[d.owner] # "alive"
  BY DEF PostsQuietDir, Posting, Exists, Dir
<1>4. Rec(partial) => workflow[partial.owner] # "alive"
  BY RecordedDirs DEF RecordedIsQuiet, Places
<1>5. final # NoDir => workflow[final.owner] # "alive"
  BY RecordedDirs DEF FinalIsQuiet
<1>6. /\ partial # NoDir => partial.owner \in Runs /\ partial \in Dirs
      /\ final # NoDir => final.owner \in Runs
  BY DEF TypeOK, Dirs
<1>7. QED BY <1>1, <1>2, <1>3, <1>4, <1>5, <1>6

\* A process that leaves frees the lock and nothing else.
LEMMA ExitKeepsOwnership ==
  ASSUME IInv, NEW i \in Runs, NEW l \in {"exited", "killed"}, Leave(i, l), Dirless
  PROVE  Ownership'
<1> USE DEF IInv
<1>1. /\ \A j \in Runs \ {i} : pc'[j] = pc[j] /\ cur'[j] = cur[j]
      /\ pc'[i] = l /\ pc'[i] \notin Begun \cup PostLabels \cup {"idle", "validated", "resuming"}
      /\ workflow' = workflow /\ partial' = partial /\ final' = final
      /\ lock' = IF lock = i THEN NoRun ELSE lock
  BY DEF Leave, Dirless, TypeOK, Begun, PostLabels
<1>2. LockHeld' /\ NothingOwned' /\ WorkflowInStep' /\ PublishesPartial'
  BY <1>1 DEF LockHeld, NothingOwned, WorkflowInStep, PublishesPartial, Begun, PostLabels
<1>3. QED BY <1>1, <1>2, Ownerships, NextOwnership

(* The steps before the post-processing.                                   *)
LEMMA FreshKeepsOwnership ==
  ASSUME IInv, NEW i \in Runs, FreshStep(i)
  PROVE  Ownership'
<1> USE RunsAssumption DEF IInv
<1>a. SUFFICES ASSUME ~\E c \in Codes : Exit(i, c) /\ Dirless
               PROVE  Ownership'
  BY ExitKeepsOwnership DEF Exit
<1>1. CASE ValidateOutput(i)
  <2>1. /\ pc[i] = "idle" /\ pc' = [pc EXCEPT ![i] = "validated"]
        /\ UNCHANGED <<partial, final, lock, cur, workflow>>
    BY <1>1, <1>a DEF ValidateOutput, Goto, Dirless, Unsafe, Codes
  <2>2. LockHeld' /\ NothingOwned' /\ WorkflowInStep' /\ PublishesPartial'
    BY <2>1 DEF LockHeld, NothingOwned, WorkflowInStep, PublishesPartial, TypeOK, PostLabels
  <2>3. /\ \A j \in Runs : pc'[j] \in Begun \cup PostLabels => pc'[j] = pc[j]
        /\ \A j \in Runs : pc[j] \notin Begun => pc'[j] \notin Begun
    BY <2>1 DEF TypeOK, Begun, PostLabels
  <2>4. QED BY <2>1, <2>2, <2>3, Ownerships, NextOwnership
<1>2. CASE MakeWorkingDir(i)
  <2>1. /\ pc[i] = "validated" /\ pc' = [pc EXCEPT ![i] = "made"]
        /\ partial = NoDir /\ partial' # NoDir /\ partial'.owner = i /\ ~Rec(partial')
        /\ UNCHANGED <<final, lock, cur, workflow>>
    BY <1>2, <1>a DEF MakeWorkingDir, SetDir, Exists, Dir, Rec, NoDir, Goto, Dirless, Unsafe, Codes
  <2>2. /\ \A j \in Runs : pc[j] \notin Begun
        /\ \A j \in Runs : pc[j] \in PostLabels => cur[j] # "partial"
        /\ final.owner # i /\ workflow[i] = "none"
    BY <2>1, Ownerships DEF NothingOwned
  <2>3. /\ \A j \in Runs \ {i} : pc'[j] = pc[j] /\ pc'[j] \notin Begun
        /\ pc'[i] = "made"
    BY <2>1, <2>2 DEF TypeOK
  <2>4. LockHeld' /\ NothingOwned' /\ WorkflowInStep' /\ PublishesPartial'
    BY <2>1, <2>2, <2>3 DEF LockHeld, NothingOwned, WorkflowInStep, PublishesPartial, PostLabels
  <2>5. \A j \in Runs : pc'[j] \in PostLabels =>
             LET d == IF cur'[j] = "partial" THEN partial' ELSE final'
             IN  d # NoDir /\ pc'[d.owner] \notin Begun /\ workflow'[d.owner] # "alive"
    BY <2>1, <2>2, <2>3, Ownerships DEF PostLabels
  <2>6. QED BY <2>1, <2>2, <2>3, <2>4, <2>5, Ownerships, NextOwnership
<1>3. CASE WriteRunning(i)
  <2>1. pc[i] = "made" /\ partial \in Dirs
    BY <1>3, Ownerships DEF WriteRunning, Exists, Dir
  <2>2. UNCHANGED <<final, cur, workflow>> \/ Exit(i, Unsafe)
    BY <1>3 DEF WriteRunning, SetDir
  <2>3. CASE SetDir("partial", NoDir) /\ Exit(i, Unsafe)
    <3>1. /\ \A j \in Runs \ {i} : pc'[j] = pc[j] /\ cur'[j] = cur[j]
          /\ pc'[i] = "exited"
          /\ workflow' = workflow /\ partial' = NoDir /\ final' = final
          /\ lock' = IF lock = i THEN NoRun ELSE lock
      BY <2>3 DEF Exit, Leave, SetDir, TypeOK
    <3>2. LockHeld' /\ NothingOwned' /\ WorkflowInStep' /\ PublishesPartial'
      BY <3>1 DEF LockHeld, NothingOwned, WorkflowInStep, PublishesPartial, NoDir, PostLabels
    <3>3. /\ \A j \in Runs \ {i} : pc[j] \notin Begun
          /\ \A j \in Runs : pc[j] \in PostLabels => cur[j] # "partial"
      BY <2>1, Ownerships DEF Begun
    <3>4. QED BY <3>1, <3>2, <3>3, Ownerships, NextOwnership DEF Begun, PostLabels, Rec
  <2>4. ASSUME NEW v \in BOOLEAN,
               NEW m,
               m = [run |-> i, stage |-> "workflow_running", status |-> "running",
                    exit |-> NoCode, runner |-> NoCode, verification |-> v,
                    finalized |-> FALSE, sums |-> NoSums],
               SetDir("partial", [partial EXCEPT !.man = m]),
               Goto(i, "launch"),
               UNCHANGED <<cur, workflow>>
        PROVE  Ownership'
    <3>a. m.exit = NoCode
      BY <2>4
    <3>b. Reworks(partial, [partial EXCEPT !.man = m]) /\ [partial EXCEPT !.man = m].man = m
      BY <2>1, EvidenceKeepsTheOwner
    <3>1. /\ pc' = [pc EXCEPT ![i] = "launch"]
          /\ partial' # NoDir /\ partial'.owner = partial.owner /\ ~Rec(partial')
          /\ UNCHANGED <<final, lock, cur, workflow>>
      BY <2>1, <2>4, <3>a, <3>b DEF SetDir, Goto, Rec, Reworks
    <3>2. /\ \A j \in Runs \ {i} : pc'[j] = pc[j]
          /\ pc'[i] = "launch"
      BY <3>1 DEF TypeOK
    <3>3. LockHeld' /\ NothingOwned' /\ WorkflowInStep' /\ PublishesPartial'
      BY <2>1, <3>1, <3>2 DEF LockHeld, NothingOwned, WorkflowInStep, PublishesPartial, PostLabels
    <3>4. \A j \in Runs : pc'[j] \in Begun <=> pc[j] \in Begun
      BY <2>1, <3>2 DEF Begun
    <3>5. \A j \in Runs : pc'[j] \in PostLabels => pc[j] \in PostLabels
      BY <3>2 DEF PostLabels
    <3>6. QED BY <3>1, <3>3, <3>4, <3>5, Ownerships, NextOwnership
  <2>5. QED BY <1>3, <2>3, <2>4 DEF WriteRunning
<1>4. CASE LaunchWorkflow(i)
  <2>1. /\ pc[i] = "launch" /\ pc' = [pc EXCEPT ![i] = "running"]
        /\ workflow' = [workflow EXCEPT ![i] = "alive"]
        /\ UNCHANGED <<partial, final, lock, cur>>
    BY <1>4 DEF LaunchWorkflow, Goto, Dirless
  <2>2. /\ \A j \in Runs \ {i} : pc'[j] = pc[j] /\ workflow'[j] = workflow[j]
        /\ pc'[i] = "running"
    BY <2>1 DEF TypeOK
  <2>3. partial.owner = i /\ final.owner # i /\ ~Rec(partial)
    BY <2>1, Ownerships DEF Begun
  <2>4. LockHeld' /\ NothingOwned' /\ WorkflowInStep' /\ PublishesPartial'
    BY <2>1, <2>2 DEF LockHeld, NothingOwned, WorkflowInStep, PublishesPartial, PostLabels
  <2>5. \A j \in Runs : pc[j] \in PostLabels => cur[j] # "partial"
    BY <2>1, <2>3, Ownerships DEF Begun
  <2>6. /\ \A j \in Runs : pc'[j] \in Begun <=> pc[j] \in Begun
        /\ \A j \in Runs : pc'[j] \in PostLabels => pc[j] \in PostLabels
    BY <2>1, <2>2 DEF Begun, PostLabels
  <2>7. final # NoDir => /\ workflow'[final.owner] = workflow[final.owner]
                         /\ pc'[final.owner] = pc[final.owner]
    BY <2>2, <2>3, Ownerships
  <2>8. QED BY <2>1, <2>3, <2>4, <2>5, <2>6, <2>7, Ownerships, NextOwnership
<1>5. CASE LaunchFails(i) \/ ReapWorkflow(i) \/ InterruptWorkflow(i)
  <2>1. /\ pc[i] \in Begun /\ pc' = [pc EXCEPT ![i] = "ended"]
        /\ UNCHANGED <<final, lock, cur>>
        /\ \A j \in Runs \ {i} : workflow'[j] = workflow[j]
        /\ workflow'[i] # "alive"
    BY <1>5 DEF LaunchFails, ReapWorkflow, InterruptWorkflow, Goto, Dirless, SetDir, TypeOK,
                Begun, WorkflowInStep
  <2>2. partial.owner = i /\ final.owner # i /\ ~Rec(partial) /\ partial \in Dirs
    BY <2>1, Ownerships
  <2>3. partial' # NoDir /\ partial'.owner = i /\ ~Rec(partial')
    <3>1. CASE partial' = partial
      BY <3>1, <2>2, <2>1, Ownerships
    <3>2. CASE \E map \in Maps, log \in Logs : partial' = Leaves(partial, map, log)
      BY <3>2, <2>2 DEF Leaves, Dirs, Rec, NoDir
    <3>3. QED BY <1>5, <3>1, <3>2 DEF LaunchFails, ReapWorkflow, InterruptWorkflow, Dirless, SetDir
  <2>4. /\ \A j \in Runs \ {i} : pc'[j] = pc[j]
        /\ pc'[i] = "ended"
    BY <2>1 DEF TypeOK
  <2>5. LockHeld' /\ NothingOwned' /\ WorkflowInStep' /\ PublishesPartial'
    BY <2>1, <2>2, <2>3, <2>4 DEF LockHeld, NothingOwned, WorkflowInStep, PublishesPartial, PostLabels, Begun
  <2>6. /\ \A j \in Runs : pc'[j] \in Begun <=> pc[j] \in Begun
        /\ \A j \in Runs : pc'[j] \in PostLabels => pc[j] \in PostLabels
    BY <2>1, <2>4 DEF Begun, PostLabels
  <2>7. \A j \in Runs : workflow[j] # "alive" => workflow'[j] # "alive"
    BY <2>1
  <2>8. /\ final # NoDir => workflow'[final.owner] # "alive"
        /\ \A j \in Runs : pc[j] \in PostLabels => cur[j] # "partial"
    BY <2>1, <2>2, <2>7, Ownerships
  <2>9. QED BY <2>1, <2>2, <2>3, <2>5, <2>6, <2>8, Ownerships, NextOwnership
<1>6. CASE LockFinishedRun(i)
  <2>1. /\ pc[i] = "ended" /\ pc' = [pc EXCEPT ![i] = "post"] /\ cur' = [cur EXCEPT ![i] = "partial"]
        /\ lock = NoRun /\ lock' = i
        /\ UNCHANGED <<partial, final, workflow>>
    BY <1>6, <1>a DEF LockFinishedRun, Dirless, Broken, Codes
  <2>2. /\ \A j \in Runs \ {i} : pc'[j] = pc[j] /\ cur'[j] = cur[j]
        /\ pc'[i] = "post" /\ cur'[i] = "partial"
    BY <2>1 DEF TypeOK
  <2>3. \A j \in Runs : pc[j] \notin PostLabels \cup {"resuming"}
    BY <2>1 DEF LockHeld
  <2>4. LockHeld' /\ NothingOwned' /\ WorkflowInStep' /\ PublishesPartial'
    BY <2>1, <2>2, <2>3 DEF LockHeld, NothingOwned, WorkflowInStep, PublishesPartial, PostLabels
  <2>5. partial.owner = i /\ partial # NoDir /\ workflow[i] # "alive"
    BY <2>1, Ownerships DEF Begun, WorkflowInStep
  <2>6. \A j \in Runs : pc'[j] \in Begun => pc[j] \in Begun
    BY <2>2 DEF Begun
  <2>7. \A j \in Runs : pc'[j] \in PostLabels => j = i
    BY <2>2, <2>3
  <2>8. QED BY <2>1, <2>2, <2>4, <2>5, <2>6, <2>7, Ownerships, NextOwnership DEF Begun
<1>9. QED BY <1>1, <1>2, <1>3, <1>4, <1>5, <1>6 DEF FreshStep

(* A resume takes over a directory whose result is recorded.               *)
LEMMA ResumeKeepsOwnership ==
  ASSUME IInv, NEW i \in Runs, ResumeStep(i)
  PROVE  Ownership'
<1> USE RunsAssumption DEF IInv
<1>a. SUFFICES ASSUME ~\E c \in Codes : Exit(i, c) /\ Dirless
               PROVE  Ownership'
  BY ExitKeepsOwnership DEF Exit
<1>1. CASE LockResume(i)
  <2>1. /\ pc[i] = "idle" /\ pc' = [pc EXCEPT ![i] = "resuming"]
        /\ lock = NoRun /\ lock' = i
        /\ UNCHANGED <<partial, final, cur, workflow>>
    BY <1>1, <1>a DEF LockResume, Dirless, Broken, Codes
  <2>2. /\ \A j \in Runs \ {i} : pc'[j] = pc[j]
        /\ pc'[i] = "resuming"
    BY <2>1 DEF TypeOK
  <2>3. \A j \in Runs : pc[j] \notin PostLabels \cup {"resuming"}
    BY <2>1 DEF LockHeld
  <2>4. LockHeld' /\ NothingOwned' /\ WorkflowInStep' /\ PublishesPartial'
    BY <2>1, <2>2, <2>3 DEF LockHeld, NothingOwned, WorkflowInStep, PublishesPartial, PostLabels
  <2>5. /\ \A j \in Runs : pc'[j] \in Begun <=> pc[j] \in Begun
        /\ \A j \in Runs : pc'[j] \notin PostLabels
    BY <2>1, <2>2, <2>3 DEF Begun, PostLabels
  <2>6. QED BY <2>1, <2>4, <2>5, Ownerships, NextOwnership
<1>2. CASE AcceptResume(i)
  <2>1. PICK place \in Places : HasManifest(place) /\ Dir(place).man.exit # NoCode
                                /\ cur' = [cur EXCEPT ![i] = place]
    BY <1>2 DEF AcceptResume, ResumeAccepted
  <2>2. /\ pc[i] = "resuming" /\ pc' = [pc EXCEPT ![i] = "post"]
        /\ UNCHANGED <<partial, final, lock, workflow>>
    BY <1>2 DEF AcceptResume, Goto, Dirless
  <2>3. /\ \A j \in Runs \ {i} : pc'[j] = pc[j] /\ cur'[j] = cur[j]
        /\ pc'[i] = "post" /\ cur'[i] = place
    BY <2>1, <2>2 DEF TypeOK
  <2>4. Rec(Dir(place)) /\ Dir(place).owner \in Runs
    BY <2>1, Ownerships DEF Rec, HasManifest, Exists, Dir
  <2>5. workflow[Dir(place).owner] # "alive" /\ pc[Dir(place).owner] \notin Begun
    BY <2>4, Ownerships DEF Dir, Rec
  <2>6. LockHeld' /\ NothingOwned' /\ WorkflowInStep' /\ PublishesPartial'
    BY <2>2, <2>3 DEF LockHeld, NothingOwned, WorkflowInStep, PublishesPartial, PostLabels
  <2>7. /\ \A j \in Runs : pc'[j] \in Begun <=> pc[j] \in Begun
        /\ \A j \in Runs \ {i} : pc'[j] \in PostLabels <=> pc[j] \in PostLabels
    BY <2>2, <2>3 DEF Begun
  <2>8. QED BY <2>2, <2>3, <2>4, <2>5, <2>6, <2>7, Ownerships, NextOwnership DEF Dir, Rec
<1>3. CASE RefuseResume(i)
  BY <1>3, <1>a DEF RefuseResume, Unsafe, Codes
<1>4. QED BY <1>1, <1>2, <1>3 DEF ResumeStep

\* A workflow that ends writes into its own directory only.
LEMMA WorkflowEndKeepsOwnership ==
  ASSUME IInv, NEW i \in Runs, WorkflowEnds(i)
  PROVE  Ownership'
<1> USE RunsAssumption DEF IInv
<1>1. /\ \A j \in Runs \ {i} : workflow'[j] = workflow[j]
      /\ workflow[i] = "alive" /\ workflow'[i] = "gone"
      /\ UNCHANGED <<lock, pc, cur, final>>
  BY DEF WorkflowEnds, SetDir, Dirless, TypeOK
<1>2. /\ partial' # NoDir <=> partial # NoDir
      /\ partial'.owner = partial.owner
      /\ Rec(partial') <=> Rec(partial)
  <2>1. CASE partial' = partial
    BY <2>1
  <2>2. CASE partial \in Dirs /\ \E map \in Maps, log \in Logs : partial' = Leaves(partial, map, log)
    BY <2>2 DEF Leaves, Dirs, Rec, NoDir
  <2>3. QED BY <2>1, <2>2, Ownerships DEF WorkflowEnds, SetDir, Dirless, Exists, Dir
<1>3. LockHeld' /\ NothingOwned' /\ WorkflowInStep' /\ PublishesPartial'
  BY <1>1, <1>2 DEF LockHeld, NothingOwned, WorkflowInStep, PublishesPartial
<1>4. \A j \in Runs : workflow[j] # "alive" => workflow'[j] # "alive"
  BY <1>1
<1>5. /\ final # NoDir => workflow'[final.owner] # "alive"
      /\ Rec(partial') => workflow'[partial.owner] # "alive"
  BY <1>2, <1>4, Ownerships DEF Rec
<1>6. \A j \in Runs : pc'[j] \in PostLabels =>
             LET d == IF cur'[j] = "partial" THEN partial' ELSE final'
             IN  d # NoDir /\ pc'[d.owner] \notin Begun /\ workflow'[d.owner] # "alive"
  BY <1>1, <1>2, <1>4, Ownerships
<1>7. QED BY <1>1, <1>2, <1>3, <1>5, <1>6, Ownerships, NextOwnership

-----------------------------------------------------------------------------
\* IInv holds at first.
LEMMA InvariantInit == Init => IInv
<1> SUFFICES ASSUME Init PROVE IInv
  OBVIOUS
<1> USE RunsAssumption DEF Init
<1>1. TypeOK
  BY DEF TypeOK, Labels, Codes, NoCode, Places
<1>2. MemHeld /\ LockHeld /\ NothingOwned /\ WorkflowInStep /\ PublishesPartial
  BY DEF MemHeld, Holding, LockHeld, PostLabels, NothingOwned, NoDir, WorkflowInStep, PublishesPartial
<1>3. WorkingDirOwned /\ PostsQuietDir
  BY DEF WorkingDirOwned, Begun, PostsQuietDir, Posting, PostLabels
<1>4. RecordedIsQuiet /\ FinalIsQuiet
  BY DEF RecordedIsQuiet, FinalIsQuiet, Recorded, HasManifest, Exists, Dir
<1>5. QED BY <1>1, <1>2, <1>3, <1>4 DEF IInv

\* IInv is inductive: types, memory and ownership, step by step.
LEMMA InvariantStep == IInv /\ [Next]_vars => IInv'
<1> SUFFICES ASSUME IInv, [Next]_vars PROVE IInv'
  OBVIOUS
<1>1. SUFFICES TypeOK' /\ MemHeld' /\ Ownership'
  BY DEF IInv, Ownership
<1>2. CASE UNCHANGED vars
  <2>1. TypeOK' /\ MemHeld'
    BY <1>2 DEF vars, IInv, TypeOK, MemHeld
  <2>2. LockHeld' /\ NothingOwned' /\ WorkflowInStep' /\ PublishesPartial'
    BY <1>2 DEF vars, IInv, LockHeld, NothingOwned, WorkflowInStep, PublishesPartial
  <2>3. QED BY <1>2, <2>1, <2>2, Ownerships, NextOwnership DEF vars
<1>3. ASSUME NEW i \in Runs, FreshStep(i)
      PROVE  TypeOK' /\ MemHeld' /\ Ownership'
  BY <1>3, FreshTypeStep, FreshKeepsOwnership
<1>4. ASSUME NEW i \in Runs, ResumeStep(i)
      PROVE  TypeOK' /\ MemHeld' /\ Ownership'
  BY <1>4, ResumeTypeStep, ResumeKeepsOwnership
<1>5. ASSUME NEW i \in Runs, PostStep(i)
      PROVE  TypeOK' /\ MemHeld' /\ Ownership'
  BY <1>5, PostTypeStep, PostStepShape, ShapeKeepsOwnership, PublishKeepsOwnership
<1>6. ASSUME NEW i \in Runs, WorkflowEnds(i)
      PROVE  TypeOK' /\ MemHeld' /\ Ownership'
  BY <1>6, OutsideTypeStep, WorkflowEndKeepsOwnership
<1>7. ASSUME NEW i \in Runs, Kill(i)
      PROVE  TypeOK' /\ MemHeld' /\ Ownership'
  BY <1>7, OutsideTypeStep, ExitKeepsOwnership DEF Kill
<1>8. QED BY <1>2, <1>3, <1>4, <1>5, <1>6, <1>7 DEF Next

\* IInv holds in every reachable state.
THEOREM InvariantHolds == Spec => []IInv
<1>1. QED BY InvariantInit, InvariantStep, PTL DEF Spec

\* The types of the variables, for any number of invocations and any faults.
THEOREM TypeCorrect == Spec => []TypeOK
<1>1. IInv => TypeOK
  BY DEF IInv
<1>2. QED BY <1>1, InvariantHolds, PTL

(* At most one invocation post-processes, and never a directory that a     *)
(* workflow, its own or one that outlived its killed runner, still writes  *)
(* into: the lock decides the first (LockHeld), the order in which         *)
(* _run_workflow reaps the group before the lock is taken the second.      *)
THEOREM OneWriter == Spec => []EvidenceHasOneWriter
<1>1. IInv => EvidenceHasOneWriter
  <2> SUFFICES ASSUME IInv, NEW i \in Runs, Posting(i)
               PROVE  /\ \A j \in Runs : Posting(j) => i = j
                      /\ \A j \in Runs : workflow[j] = "alive" => Dir(cur[i]).owner # j
    BY DEF EvidenceHasOneWriter
  <2>1. \A j \in Runs : Posting(j) => i = j
    BY DEF IInv, LockHeld, Posting
  <2>2. QED BY <2>1 DEF IInv, PostsQuietDir
<1>2. QED BY <1>1, InvariantHolds, PTL

-----------------------------------------------------------------------------
(* What is durable about results and evidence.  A run whose result is not  *)
(* recorded yet has no recorded manifest anywhere, whoever post-processes  *)
(* repeats the recorded result of the run, and what a sealed manifest or a *)
(* verification log claims was earned.                                     *)
\* The same result, and no interruption turned into anything else.
Repeats(m, n) ==
    /\ n.exit = m.exit /\ n.verification = m.verification
    /\ m.status = "interrupted" => n.status = "interrupted"

Unrecorded == {"idle"} \cup FreshLabels

\* The run of a recorded manifest is past its result, and whoever post-processes
\* that run repeats it.
RecordedOnce(d) ==
    Rec(d) =>
        /\ pc[d.man.run] \notin Unrecorded
        /\ \A i \in Runs : Posting(i) /\ d.man.run = mem[i].run => Repeats(d.man, mem[i])

\* The second invariant: recorded results.
ResultInv ==
    /\ \A i \in Runs : pc[i] \in {"launch", "running", "ended"} => mem[i].run = i
    /\ \A i \in Runs : Posting(i) => pc[mem[i].run] \notin Unrecorded
    /\ RecordedOnce(partial) /\ RecordedOnce(final)

\* A directory whose claims were earned.
Good(d) ==
    d # NoDir => /\ d.man # NoManifest => Earned(d.man)
                 /\ d.log = "PASS" => d.map = "good"

\* The second invariant: evidence.
EarnedInv ==
    /\ \A i \in Runs : pc[i] \in Holding => Earned(mem[i])
    /\ Good(partial) /\ Good(final)

\* A manifest put down for a run repeats the result that was recorded for it.
Put(d, e) == e # NoDir /\ e.man # NoManifest /\ (d # NoDir /\ d.man # NoManifest => e.man # d.man)
PutRepeats ==
    \A old \in {partial, final} :
        /\ Rec(old) /\ Put(partial, partial') /\ old.man.run = partial'.man.run
             => Repeats(old.man, partial'.man)
        /\ Rec(old) /\ Put(final, final') /\ old.man.run = final'.man.run
             => Repeats(old.man, final'.man)

\* ResultIsKept, from the two directories one by one.
LEMMA PutRepeatsIsEnough ==
  ASSUME PutRepeats
  PROVE  \A p, q \in Places :
          LET old == Dir(p).man
              new == Dir(q)'.man
          IN  (/\ Recorded(p) /\ HasManifest(q)'
               /\ HasManifest(q) => new # Dir(q).man
               /\ old.run = new.run)
              => /\ new.exit = old.exit
                 /\ new.verification = old.verification
                 /\ old.status = "interrupted" => new.status = "interrupted"
<1>1. /\ \A p \in Places : Recorded(p) => Rec(Dir(p)) /\ Dir(p) \in {partial, final}
      /\ \A q \in Places : HasManifest(q) <=> Dir(q) # NoDir /\ Dir(q).man # NoManifest
      /\ HasManifest("partial")' <=> partial' # NoDir /\ partial'.man # NoManifest
      /\ HasManifest("final")' <=> final' # NoDir /\ final'.man # NoManifest
      /\ Dir("partial") = partial /\ Dir("final") = final
      /\ Dir("partial")' = partial' /\ Dir("final")' = final'
  BY DEF Recorded, HasManifest, Exists, Dir, Rec
<1>2. SUFFICES ASSUME NEW p \in Places, NEW q \in Places,
                      Recorded(p), HasManifest(q)', HasManifest(q) => Dir(q)'.man # Dir(q).man,
                      Dir(p).man.run = Dir(q)'.man.run
               PROVE  Repeats(Dir(p).man, Dir(q)'.man)
  BY DEF Repeats
<1>3. CASE q = "partial"
  BY <1>1, <1>2, <1>3 DEF PutRepeats, Put
<1>4. CASE q = "final"
  BY <1>1, <1>2, <1>4 DEF PutRepeats, Put
<1>5. QED BY <1>3, <1>4 DEF Places

-----------------------------------------------------------------------------
(* What every step outside the post-processing has in common.              *)
Keeps(d, e, i) ==
    e # NoDir =>
        /\ e.man # NoManifest =>
              \/ d # NoDir /\ e.man = d.man
              \/ pc[i] \in Unrecorded /\ e.man.run = i /\ e.man.exit = NoCode /\ Earned(e.man)
        /\ e.log = "PASS" => e.map = "good" \/ (d # NoDir /\ d.log = "PASS" /\ e.map = d.map)

Unposted(i) ==
    /\ \A j \in Runs \ {i} : pc'[j] = pc[j] /\ mem'[j] = mem[j]
    /\ pc'[i] \in PostLabels => pc'[i] = pc[i] /\ mem'[i] = mem[i]
    /\ pc'[i] \in Unrecorded => pc[i] \in Unrecorded
    /\ pc'[i] \in {"launch", "running", "ended"} => mem'[i].run = i /\ Earned(mem'[i])
    /\ Keeps(partial, partial', i)
    /\ Keeps(final, final', i)

\* A step of that shape keeps the results.
LEMMA UnpostedKeepsResults ==
  ASSUME IInv, ResultInv, EarnedInv, NEW i \in Runs, Unposted(i)
  PROVE  ResultInv' /\ EarnedInv' /\ PutRepeats
<1>1. /\ \A j \in Runs : pc'[j] \in PostLabels => pc[j] \in PostLabels /\ mem'[j] = mem[j]
      /\ \A r : pc'[r] \in Unrecorded /\ r \in Runs => pc[r] \in Unrecorded
  BY DEF Unposted
<1>2. \A d, e : Keeps(d, e, i) /\ Rec(e) => Rec(d) /\ e.man = d.man
  BY DEF Keeps, Rec
<1>3. \A d \in {partial, final} : Rec(d) => d.man.run \in Runs
  BY DEF IInv, TypeOK, Rec, Dirs, Manifests
<1>4. \A j \in Runs : pc[j] \in PostLabels => mem[j].run \in Runs
  BY DEF IInv, MemHeld, Holding, Manifests
<1>5. \A d, e : d \in {partial, final} /\ RecordedOnce(d) /\ Keeps(d, e, i) /\ Rec(e) =>
          /\ pc'[e.man.run] \notin Unrecorded
          /\ \A j \in Runs : pc'[j] \in PostLabels /\ e.man.run = mem'[j].run => Repeats(e.man, mem'[j])
  BY <1>1, <1>2, <1>3 DEF RecordedOnce, Posting
<1>6. ResultInv'
  <2>1. RecordedOnce(partial)' /\ RecordedOnce(final)'
    BY <1>5 DEF RecordedOnce, Posting, ResultInv, Unposted
  <2>2. \A j \in Runs : pc'[j] \in {"launch", "running", "ended"} => mem'[j].run = j
    BY DEF Unposted, ResultInv
  <2>3. \A j \in Runs : pc'[j] \in PostLabels => pc'[mem'[j].run] \notin Unrecorded
    BY <1>1, <1>4 DEF ResultInv, Posting
  <2>4. QED BY <2>1, <2>2, <2>3 DEF ResultInv, Posting
<1>7. EarnedInv'
  <2>1. \A d, e : Keeps(d, e, i) /\ Good(d) => Good(e)
    BY DEF Keeps, Good
  <2>2. Good(partial)' /\ Good(final)'
    BY <2>1 DEF Unposted, EarnedInv
  <2>3. \A j \in Runs : pc'[j] \in Holding => Earned(mem'[j])
    BY DEF Unposted, EarnedInv, Holding
  <2>4. QED BY <2>2, <2>3 DEF EarnedInv
<1>8. PutRepeats
  <2>1. ASSUME NEW d, NEW e, NEW old \in {partial, final}, Rec(old),
               Keeps(d, e, i), Put(d, e), old.man.run = e.man.run
        PROVE  FALSE
    <3>1. pc[i] \in Unrecorded /\ e.man.run = i
      BY <2>1 DEF Keeps, Put
    <3>2. pc[old.man.run] \notin Unrecorded
      BY <2>1 DEF ResultInv, RecordedOnce
    <3>3. QED BY <2>1, <3>1, <3>2
  <2>2. Keeps(partial, partial', i) /\ Keeps(final, final', i)
    BY DEF Unposted
  <2>3. \A old \in {partial, final} :
          /\ ~(Rec(old) /\ Put(partial, partial') /\ old.man.run = partial'.man.run)
          /\ ~(Rec(old) /\ Put(final, final') /\ old.man.run = final'.man.run)
    BY <2>1, <2>2
  <2>4. QED BY <2>3 DEF PutRepeats
<1>9. QED BY <1>6, <1>7, <1>8

\* The result of a run is put down for that run, unsealed.
LEMMA FinishedRun ==
  ASSUME IInv, ResultInv, NEW i \in Runs, pc[i] \in {"launch", "running"},
         NEW exit, NEW int \in BOOLEAN, Finished(i, exit, int)
  PROVE  /\ mem'[i].run = i /\ Earned(mem'[i])
         /\ \A j \in Runs \ {i} : mem'[j] = mem[j]
<1>1. mem[i] \in Manifests /\ mem[i].run = i
  BY DEF IInv, MemHeld, Holding, ResultInv
<1>2. DEFINE m == [mem[i] EXCEPT !.exit = exit,
                       !.status = IF int THEN "interrupted" ELSE StatusOf(exit),
                       !.stage = "workflow_finished"]
<1>3. m.run = i /\ Earned(m)
  BY <1>1 DEF Manifests, Earned
<1>4. mem' = [mem EXCEPT ![i] = m]
  BY DEF Finished, IInv, TypeOK
<1>5. QED BY <1>3, <1>4 DEF IInv, TypeOK

\* A workflow's outcome is no manifest, and its log judges its map.
LEMMA OutcomeIsKept ==
  ASSUME NEW d \in Dirs, NEW map, NEW log, NEW i, Outcome(map, log)
  PROVE  Keeps(d, Leaves(d, map, log), i)
BY RunsAssumption DEF Dirs, NoDir, Leaves, Outcome, Judged, Keeps

\* Leaving is such a step.
LEMMA LeaveIsUnposted ==
  ASSUME IInv, NEW i \in Runs, NEW l \in {"exited", "killed"}, Leave(i, l),
         Keeps(partial, partial', i), Keeps(final, final', i)
  PROVE  Unposted(i)
BY DEF Unposted, Leave, IInv, TypeOK, Unrecorded, FreshLabels, PostLabels

\* So is leaving a directory alone.
LEMMA SameIsKept == \A d, i : Keeps(d, d, i)
BY DEF Keeps

\* The steps before the lock is taken are of that shape.
LEMMA FreshIsUnposted ==
  ASSUME IInv, ResultInv, EarnedInv, NEW i \in Runs, FreshStep(i), ~LockFinishedRun(i)
  PROVE  Unposted(i)
<1> USE RunsAssumption DEF IInv
<1>a. SUFFICES ASSUME ~\E c : Exit(i, c) /\ Dirless
               PROVE  Unposted(i)
  BY LeaveIsUnposted, SameIsKept DEF Exit, Dirless
<1>1. CASE ValidateOutput(i)
  BY <1>1, <1>a, SameIsKept DEF ValidateOutput, Goto, Dirless, Unposted, TypeOK, Unrecorded, FreshLabels, PostLabels
<1>2. CASE MakeWorkingDir(i)
  <2>1. /\ pc[i] = "validated" /\ pc' = [pc EXCEPT ![i] = "made"]
        /\ partial'.man = NoManifest /\ partial'.log = "none"
        /\ UNCHANGED <<final, mem>>
    BY <1>2, <1>a DEF MakeWorkingDir, SetDir, Goto
  <2>2. QED BY <2>1, SameIsKept DEF Keeps, Unposted, TypeOK, Unrecorded, FreshLabels, PostLabels
<1>3. CASE WriteRunning(i)
  <2>1. pc[i] = "made" /\ partial \in Dirs
    BY <1>3, Ownerships DEF WriteRunning, Exists, Dir
  <2>2. CASE SetDir("partial", NoDir) /\ Exit(i, Unsafe)
    BY <2>2, LeaveIsUnposted, SameIsKept DEF SetDir, Exit, Keeps
  <2>3. ASSUME NEW v \in BOOLEAN,
               NEW m,
               m = [run |-> i, stage |-> "workflow_running", status |-> "running",
                    exit |-> NoCode, runner |-> NoCode, verification |-> v,
                    finalized |-> FALSE, sums |-> NoSums],
               mem' = [mem EXCEPT ![i] = m],
               SetDir("partial", [partial EXCEPT !.man = m]),
               Goto(i, "launch"),
               UNCHANGED <<cur, workflow>>
        PROVE  Unposted(i)
    <3>1. m.run = i /\ m.exit = NoCode /\ Earned(m)
      BY <2>3 DEF Earned
    <3>2. /\ [partial EXCEPT !.man = m].man = m
          /\ [partial EXCEPT !.man = m].log = partial.log
          /\ [partial EXCEPT !.man = m].map = partial.map
          /\ partial # NoDir
      BY <2>1 DEF Dirs, NoDir
    <3>3. Keeps(partial, partial', i) /\ final' = final
      BY <2>1, <2>3, <3>1, <3>2 DEF Keeps, SetDir, Unrecorded, FreshLabels
    <3>4. pc' = [pc EXCEPT ![i] = "launch"]
      BY <2>3 DEF Goto
    <3>5. QED BY <2>1, <2>3, <3>1, <3>3, <3>4, SameIsKept
              DEF Unposted, TypeOK, Unrecorded, FreshLabels, PostLabels
  <2>4. QED BY <1>3, <2>2, <2>3 DEF WriteRunning
<1>4. CASE LaunchWorkflow(i)
  BY <1>4, SameIsKept DEF LaunchWorkflow, Goto, Dirless, Unposted, TypeOK, Unrecorded, FreshLabels,
     PostLabels, ResultInv, EarnedInv, Holding
<1>5. CASE LaunchFails(i) \/ ReapWorkflow(i) \/ InterruptWorkflow(i)
  <2>1. /\ pc[i] \in {"launch", "running"} /\ pc' = [pc EXCEPT ![i] = "ended"]
        /\ final' = final
        /\ \E exit : Finished(i, exit, FALSE) \/ Finished(i, exit, TRUE)
    BY <1>5 DEF LaunchFails, ReapWorkflow, InterruptWorkflow, Goto, Dirless, SetDir
  <2>2. /\ mem'[i].run = i /\ Earned(mem'[i])
        /\ \A j \in Runs \ {i} : mem'[j] = mem[j]
    BY <2>1, FinishedRun
  <2>3. Keeps(partial, partial', i)
    <3>1. CASE partial' = partial
      BY <3>1, SameIsKept
    <3>2. partial \in Dirs
      BY <2>1, Ownerships DEF Begun
    <3>3. CASE InterruptWorkflow(i)
      BY <3>2, <3>3, OutcomeIsKept DEF InterruptWorkflow, SetDir
    <3>4. QED BY <1>5, <3>1, <3>3 DEF LaunchFails, ReapWorkflow, Dirless
  <2>4. QED BY <2>1, <2>2, <2>3, SameIsKept DEF Unposted, TypeOK, Unrecorded, FreshLabels, PostLabels
<1>6. QED BY <1>1, <1>2, <1>3, <1>4, <1>5 DEF FreshStep

\* So are the refused resume, the workflow's end and the kill.
LEMMA OutsideIsUnposted ==
  ASSUME IInv, ResultInv, EarnedInv, NEW i \in Runs,
         LockResume(i) \/ RefuseResume(i) \/ WorkflowEnds(i) \/ Kill(i)
  PROVE  Unposted(i)
<1> USE RunsAssumption DEF IInv
<1>a. SUFFICES ASSUME ~\E c : Exit(i, c) /\ Dirless
               PROVE  Unposted(i)
  BY LeaveIsUnposted, SameIsKept DEF Exit, Dirless
<1>1. CASE LockResume(i)
  <2>1. /\ pc' = [pc EXCEPT ![i] = "resuming"] /\ mem' = mem
        /\ partial' = partial /\ final' = final
    BY <1>1, <1>a DEF LockResume, Dirless
  <2>2. QED BY <2>1, SameIsKept DEF Unposted, TypeOK, Unrecorded, FreshLabels, PostLabels
<1>2. CASE RefuseResume(i)
  BY <1>2, <1>a DEF RefuseResume
<1>3. CASE WorkflowEnds(i)
  <2>1. pc' = pc /\ mem' = mem /\ final' = final
    BY <1>3 DEF WorkflowEnds, SetDir, Dirless
  <2>2. Keeps(partial, partial', i)
    BY <1>3, Ownerships, OutcomeIsKept, SameIsKept DEF WorkflowEnds, SetDir, Dirless, Exists, Dir
  <2>3. QED BY <2>1, <2>2, SameIsKept DEF Unposted, ResultInv, EarnedInv, Holding
<1>4. CASE Kill(i)
  BY <1>4, LeaveIsUnposted, SameIsKept DEF Kill, Dirless
<1>5. QED BY <1>1, <1>2, <1>3, <1>4

\* A post-processing step continues the manifest it repeats.
LEMMA PostKeepsResults ==
  ASSUME IInv, ResultInv, EarnedInv, NEW i \in Runs, NEW l \in PostLabels \cup {"exited"},
         PostShape(i, l)
  PROVE  ResultInv' /\ EarnedInv' /\ PutRepeats
<1>1. /\ mem[i] \in Manifests /\ mem[i].run \in Runs
      /\ \A j \in Runs \ {i} : ~Posting(j)
  BY DEF IInv, MemHeld, Holding, PostShape, Manifests, LockHeld, Posting
<1>2. /\ \A j \in Runs \ {i} : pc'[j] = pc[j] /\ mem'[j] = mem[j]
      /\ pc'[i] = l /\ pc[i] \in PostLabels
      /\ \A r \in Runs : pc'[r] \in Unrecorded => pc[r] \in Unrecorded
      /\ l \notin Unrecorded
  BY DEF PostShape, IInv, TypeOK, PostLabels, Unrecorded, FreshLabels
<1>3. l # "exited" => Continues(mem[i], mem'[i])
  BY DEF PostShape
<1>4. \A d, e : Touches(d, e, NewManifests(i, l)) /\ e # NoDir =>
          /\ d # NoDir
          /\ e.man = d.man \/ (l # "exited" /\ e.man = mem'[i])
          /\ e = d \/ (e.map = d.map /\ e.log \in {d.log, "torn", Judged(d.map)})
  BY DEF Touches, NewManifests, Quiet, Reworks
<1>5. Touches(partial, partial', NewManifests(i, l)) /\ Touches(final, final', NewManifests(i, l))
  BY DEF PostShape
<1>6. \A old \in {partial, final} : Rec(old) =>
          /\ old.man.run \in Runs
          /\ pc'[old.man.run] \notin Unrecorded
          /\ l # "exited" /\ old.man.run = mem[i].run => Repeats(old.man, mem'[i])
  <2> SUFFICES ASSUME NEW old \in {partial, final}, Rec(old)
               PROVE  /\ old.man.run \in Runs
                      /\ pc'[old.man.run] \notin Unrecorded
                      /\ l # "exited" /\ old.man.run = mem[i].run => Repeats(old.man, mem'[i])
    OBVIOUS
  <2>1. old.man.run \in Runs
    BY DEF IInv, TypeOK, Dirs, Manifests, Rec
  <2>2. RecordedOnce(old)
    BY DEF ResultInv
  <2>3. QED BY <2>1, <2>2, <1>2, <1>3 DEF RecordedOnce, Posting, Continues, Repeats
<1>7. ResultInv'
  <2>1. \A j \in Runs : pc'[j] \in {"launch", "running", "ended"} => mem'[j].run = j
    BY <1>2 DEF ResultInv, PostLabels
  <2>2. l # "exited" => mem'[i].run = mem[i].run /\ pc'[mem[i].run] \notin Unrecorded
    BY <1>1, <1>2, <1>3 DEF ResultInv, Posting, Continues
  <2>3. \A j \in Runs : pc'[j] \in PostLabels => j = i /\ l # "exited"
    BY <1>1, <1>2 DEF Posting, PostLabels
  <2>4. ASSUME NEW d \in {partial, final}, NEW e, Touches(d, e, NewManifests(i, l)), Rec(e)
        PROVE  /\ pc'[e.man.run] \notin Unrecorded
               /\ \A j \in Runs : pc'[j] \in PostLabels /\ e.man.run = mem'[j].run
                                    => Repeats(e.man, mem'[j])
    <3>1. CASE e.man = d.man
      <4>1. Rec(d)
        BY <2>4, <3>1, <1>4 DEF Rec
      <4>2. QED BY <3>1, <4>1, <1>6, <2>2, <2>3
    <3>2. CASE l # "exited" /\ e.man = mem'[i]
      BY <3>2, <2>2, <2>3 DEF Repeats
    <3>3. QED BY <2>4, <3>1, <3>2, <1>4 DEF Rec
  <2>5. RecordedOnce(partial)' /\ RecordedOnce(final)'
    BY <2>4, <1>5 DEF RecordedOnce, Rec, Posting
  <2>6. QED BY <2>1, <2>2, <2>3, <2>5 DEF ResultInv, Posting
<1>8. EarnedInv'
  <2>1. l # "exited" => Earned(mem'[i])
    BY <1>2, <1>3 DEF EarnedInv, Holding, Continues
  <2>2. \A j \in Runs : pc'[j] \in Holding => Earned(mem'[j])
    BY <1>2, <2>1 DEF EarnedInv, Holding, PostLabels
  <2>3. ASSUME NEW d \in {partial, final}, NEW e, Touches(d, e, NewManifests(i, l))
        PROVE  Good(e)
    <3>1. SUFFICES ASSUME e # NoDir
                   PROVE  (e.man # NoManifest => Earned(e.man)) /\ (e.log = "PASS" => e.map = "good")
      BY DEF Good
    <3>2. Good(d) /\ d # NoDir
      BY <2>3, <3>1, <1>4 DEF EarnedInv
    <3>3. e.man # NoManifest => Earned(e.man)
      BY <2>1, <2>3, <3>1, <3>2, <1>4 DEF Good
    <3>4. e.log = "PASS" => e.map = "good"
      BY <2>3, <3>1, <3>2, <1>4 DEF Good, Judged
    <3>5. QED BY <3>3, <3>4
  <2>4. Good(partial)' /\ Good(final)'
    BY <2>3, <1>5 DEF Good
  <2>5. QED BY <2>2, <2>4 DEF EarnedInv
<1>9. PutRepeats
  <2>1. ASSUME NEW d, NEW e, NEW old \in {partial, final}, Touches(d, e, NewManifests(i, l)),
               Rec(old), Put(d, e), old.man.run = e.man.run
        PROVE  Repeats(old.man, e.man)
    <3>1. d # NoDir /\ l # "exited" /\ e.man = mem'[i]
      BY <2>1, <1>4 DEF Put
    <3>2. mem'[i].run = mem[i].run
      BY <3>1, <1>3 DEF Continues
    <3>3. QED BY <2>1, <3>1, <3>2, <1>6
  <2>2. QED BY <2>1, <1>5 DEF PutRepeats
<1>10. QED BY <1>7, <1>8, <1>9

\* The rename moves a recorded result as it is.
LEMMA PublishKeepsResults ==
  ASSUME IInv, ResultInv, EarnedInv, NEW i \in Runs, Publish(i)
  PROVE  ResultInv' /\ EarnedInv' /\ PutRepeats
<1>1. pc[i] \in PostLabels /\ cur[i] = "partial" /\ Quiet(partial)
  BY PostedDirIsQuiet DEF Publish, PostLabels, IInv, PublishesPartial, Dir
<1>2. CASE Dirless /\ UNCHANGED cur /\ Goto(i, "failing")
  <2>1. PostShape(i, "failing")
    BY <1>1, <1>2 DEF PostShape, Goto, Dirless, Touches, Continues, Publish, Places, Dir
  <2>2. QED BY <2>1, PostKeepsResults DEF PostLabels
<1>3. CASE final = NoDir /\ final' = partial /\ partial' = NoDir /\ Goto(i, "published")
  <2>1. /\ \A j \in Runs \ {i} : pc'[j] = pc[j]
        /\ pc'[i] = "published" /\ mem' = mem
        /\ ~Rec(partial') /\ ~Rec(final)
    BY <1>3 DEF Publish, Goto, IInv, TypeOK, Rec
  <2>2. \A j \in Runs : /\ pc'[j] \in PostLabels <=> pc[j] \in PostLabels
                        /\ pc'[j] \in Unrecorded <=> pc[j] \in Unrecorded
                        /\ pc'[j] \in {"launch", "running", "ended"} => pc'[j] = pc[j]
    BY <1>1, <2>1 DEF PostLabels, Unrecorded, FreshLabels
  <2>3. /\ Rec(partial) => partial.man.run \in Runs
        /\ \A j \in Runs : pc[j] \in PostLabels => mem[j].run \in Runs
    BY DEF Rec, IInv, TypeOK, Dirs, Manifests, MemHeld, Holding
  <2>4. RecordedOnce(partial)' /\ RecordedOnce(final)'
    BY <1>3, <2>1, <2>2, <2>3 DEF RecordedOnce, Posting, Rec, ResultInv
  <2>5. ResultInv'
    BY <2>1, <2>2, <2>3, <2>4 DEF ResultInv, Posting
  <2>6. EarnedInv'
    BY <1>3, <2>1, <2>2 DEF EarnedInv, Good, Holding
  <2>7. PutRepeats
    BY <1>3, <2>1 DEF PutRepeats, Put, Repeats
  <2>8. QED BY <2>5, <2>6, <2>7
<1>4. QED BY <1>2, <1>3 DEF Publish, Exists, Dir

\* A run that locks has recorded nothing yet: its result is the first.
LEMMA LockKeepsResults ==
  ASSUME IInv, ResultInv, EarnedInv, NEW i \in Runs, LockFinishedRun(i)
  PROVE  ResultInv' /\ EarnedInv' /\ PutRepeats
<1> USE RunsAssumption
<1>1. CASE Exit(i, Broken) /\ Dirless
  <2>1. Unposted(i)
    BY <1>1, LeaveIsUnposted, SameIsKept DEF Exit, Dirless
  <2>2. QED BY <2>1, UnpostedKeepsResults
<1>2. CASE pc' = [pc EXCEPT ![i] = "post"] /\ mem' = mem /\ Dirless
  <2>1. /\ \A j \in Runs \ {i} : pc'[j] = pc[j]
        /\ pc'[i] = "post" /\ mem' = mem /\ partial' = partial /\ final' = final
        /\ pc[i] \in Unrecorded /\ mem[i].run = i
    BY <1>2 DEF LockFinishedRun, Dirless, IInv, TypeOK, Unrecorded, FreshLabels, ResultInv
  <2>2. \A r \in Runs : pc'[r] \in Unrecorded => pc[r] \in Unrecorded
    BY <2>1 DEF Unrecorded, FreshLabels
  <2>3. \A d \in {partial, final} : Rec(d) => d.man.run \in Runs
    BY DEF Rec, IInv, TypeOK, Dirs, Manifests
  <2>4. \A j \in Runs : pc[j] \in PostLabels => mem[j].run \in Runs
    BY DEF IInv, MemHeld, Holding, Manifests
  <2>5. \A d \in {partial, final} : Rec(d) =>
          /\ pc'[d.man.run] \notin Unrecorded
          /\ \A j \in Runs : pc'[j] \in PostLabels /\ d.man.run = mem[j].run
                               => Repeats(d.man, mem[j])
    BY <2>1, <2>2, <2>3 DEF ResultInv, RecordedOnce, Posting
  <2>6. RecordedOnce(partial)' /\ RecordedOnce(final)'
    BY <2>1, <2>5 DEF RecordedOnce, Posting, Rec
  <2>7. ResultInv'
    <3>1. \A j \in Runs : pc'[j] \in {"launch", "running", "ended"} => mem'[j].run = j
      BY <2>1 DEF ResultInv
    <3>2. \A j \in Runs : pc'[j] \in PostLabels => pc'[mem'[j].run] \notin Unrecorded
      <4>1. pc'[i] \notin Unrecorded
        BY <2>1 DEF Unrecorded, FreshLabels
      <4>2. QED BY <2>1, <2>2, <2>4, <4>1 DEF ResultInv, Posting
    <3>3. QED BY <2>6, <3>1, <3>2 DEF ResultInv, Posting
  <2>8. EarnedInv'
    <3>1. pc[i] \in Holding
      BY <1>2 DEF LockFinishedRun, Holding
    <3>2. QED BY <2>1, <3>1 DEF EarnedInv, Good, Holding
  <2>9. PutRepeats
    BY <2>1 DEF PutRepeats, Put
  <2>10. QED BY <2>7, <2>8, <2>9
<1>3. QED BY <1>1, <1>2 DEF LockFinishedRun

\* A resume takes the recorded result over, with the interruption.
LEMMA AcceptKeepsResults ==
  ASSUME IInv, ResultInv, EarnedInv, NEW i \in Runs, AcceptResume(i)
  PROVE  ResultInv' /\ EarnedInv' /\ PutRepeats
<1>1. PICK place \in Places, v \in BOOLEAN :
        /\ ResumeAccepted(place, v)
        /\ mem' = [mem EXCEPT ![i] =
                    [Dir(place).man EXCEPT
                       !.status = IF Dir(place).man.status = "interrupted" THEN "interrupted"
                                  ELSE StatusOf(Dir(place).man.exit)]]
  BY DEF AcceptResume
<1> DEFINE m == Dir(place).man
<1>2. /\ m \in Manifests /\ Rec(Dir(place)) /\ m.stage \in Resumable
      /\ \A d \in {partial, final} : d # NoDir => d = Dir(place)
  BY <1>1, DirType DEF IInv, ResumeAccepted, HasManifest, Exists, Rec, Dir, Places
<1>3. /\ mem'[i].run = m.run /\ Repeats(m, mem'[i]) /\ mem'[i].stage = m.stage
      /\ \A j \in Runs \ {i} : mem'[j] = mem[j]
  BY <1>1, <1>2 DEF Manifests, Repeats, IInv, TypeOK
<1>4. /\ \A j \in Runs \ {i} : pc'[j] = pc[j] /\ pc[j] \notin PostLabels
      /\ pc[i] = "resuming" /\ pc'[i] = "post"
      /\ partial' = partial /\ final' = final
  BY DEF AcceptResume, Goto, Dirless, IInv, TypeOK, LockHeld
<1>5. /\ m.run \in Runs /\ pc[m.run] \notin Unrecorded
  BY <1>2 DEF Manifests, ResultInv, RecordedOnce, Dir
<1>6. \A r \in Runs : pc'[r] \in Unrecorded => pc[r] \in Unrecorded
  BY <1>4 DEF Unrecorded, FreshLabels
<1>7. \A d \in {partial, final} : Rec(d) =>
          /\ pc'[d.man.run] \notin Unrecorded
          /\ \A j \in Runs : pc'[j] \in PostLabels => Repeats(d.man, mem'[j])
  BY <1>2, <1>3, <1>4, <1>5, <1>6 DEF Rec
<1>8. ResultInv'
  <2>1. RecordedOnce(partial)' /\ RecordedOnce(final)'
    BY <1>4, <1>7 DEF RecordedOnce, Posting, Rec
  <2>2. \A j \in Runs : pc'[j] \in {"launch", "running", "ended"} => mem'[j].run = j
    BY <1>3, <1>4 DEF ResultInv
  <2>3. \A j \in Runs : pc'[j] \in PostLabels => pc'[mem'[j].run] \notin Unrecorded
    BY <1>3, <1>4, <1>5, <1>6
  <2>4. QED BY <2>1, <2>2, <2>3 DEF ResultInv, Posting
<1>9. EarnedInv'
  <2>1. Earned(mem'[i])
    BY <1>2, <1>3 DEF Earned, Resumable
  <2>2. \A j \in Runs : pc'[j] \in Holding => Earned(mem'[j])
    BY <2>1, <1>3, <1>4 DEF EarnedInv
  <2>3. QED BY <2>2, <1>4 DEF EarnedInv, Good
<1>10. PutRepeats
  BY <1>4 DEF PutRepeats, Put
<1>11. QED BY <1>8, <1>9, <1>10

\* Nothing is recorded at first.
LEMMA ResultInit == Init => ResultInv /\ EarnedInv
BY DEF Init, ResultInv, EarnedInv, RecordedOnce, Rec, Good, Holding, Posting, PostLabels

\* Every step keeps the results and repeats what is recorded.
LEMMA ResultStep ==
  ASSUME IInv, ResultInv, EarnedInv, [Next]_vars
  PROVE  ResultInv' /\ EarnedInv' /\ PutRepeats
<1>1. CASE UNCHANGED vars
  <2>1. ResultInv'
    BY <1>1 DEF vars, ResultInv, RecordedOnce, Posting, Rec
  <2>2. EarnedInv' /\ PutRepeats
    BY <1>1 DEF vars, EarnedInv, Good, PutRepeats, Put
  <2>3. QED BY <2>1, <2>2
<1>2. ASSUME NEW i \in Runs, FreshStep(i)
      PROVE  ResultInv' /\ EarnedInv' /\ PutRepeats
  BY <1>2, FreshIsUnposted, UnpostedKeepsResults, LockKeepsResults
<1>3. ASSUME NEW i \in Runs, ResumeStep(i)
      PROVE  ResultInv' /\ EarnedInv' /\ PutRepeats
  BY <1>3, OutsideIsUnposted, UnpostedKeepsResults, AcceptKeepsResults DEF ResumeStep
<1>4. ASSUME NEW i \in Runs, PostStep(i)
      PROVE  ResultInv' /\ EarnedInv' /\ PutRepeats
  BY <1>4, PostStepShape, PostKeepsResults, PublishKeepsResults
<1>5. ASSUME NEW i \in Runs, WorkflowEnds(i) \/ Kill(i)
      PROVE  ResultInv' /\ EarnedInv' /\ PutRepeats
  BY <1>5, OutsideIsUnposted, UnpostedKeepsResults
<1>6. QED BY <1>1, <1>2, <1>3, <1>4, <1>5 DEF Next

\* What is recorded was earned, and whoever post-processes repeats it.
THEOREM ResultsHold == Spec => [](IInv /\ ResultInv /\ EarnedInv)
<1>1. Init => ResultInv /\ EarnedInv
  BY ResultInit
<1>2. IInv /\ ResultInv /\ EarnedInv /\ [Next]_vars => ResultInv' /\ EarnedInv'
  BY ResultStep
<1>3. QED BY <1>1, <1>2, InvariantInit, InvariantStep, PTL DEF Spec

(* A recorded result is repeated by every manifest put down later for the  *)
(* run: no resume and no failure handler rewrites it.                      *)
THEOREM ResultKept == Spec => ResultIsKept
<1>1. IInv /\ ResultInv /\ EarnedInv /\ [Next]_vars => PutRepeats
  BY ResultStep
<1>2. PutRepeats =>
        \A p, q \in Places :
          LET old == Dir(p).man
              new == Dir(q)'.man
          IN  (/\ Recorded(p) /\ HasManifest(q)'
               /\ HasManifest(q) => new # Dir(q).man
               /\ old.run = new.run)
              => /\ new.exit = old.exit
                 /\ new.verification = old.verification
                 /\ old.status = "interrupted" => new.status = "interrupted"
  BY PutRepeatsIsEnough
<1>3. QED BY <1>1, <1>2, ResultsHold, PTL DEF Spec, ResultIsKept

(* What first_map_demo reuses as verified is a map that was judged good    *)
(* after a workflow that succeeded: the receipt is recomputed from the     *)
(* evidence (Trusted), a sealed verdict was earned, a PASS log judges the  *)
(* map beside it, and nobody writes into the published directory.          *)
THEOREM TrustedVerified == Spec => []TrustedMapIsVerified
<1>1. IInv /\ EarnedInv => TrustedMapIsVerified
  <2> SUFFICES ASSUME IInv, EarnedInv, Trusted
               PROVE  /\ final.man.exit = Ok /\ final.map = "good" /\ final.log = "PASS"
                      /\ \A i \in Runs : workflow[i] = "alive" => final.owner # i
    BY DEF TrustedMapIsVerified
  <2>1. final # NoDir /\ final.man # NoManifest
    BY DEF Trusted, HasManifest, Exists, Dir
  <2>2. /\ final.man.status = "succeeded" /\ final.man.stage = "complete" /\ final.man.runner = Ok
        /\ final.log = "PASS"
    BY DEF Trusted, ReceiptOf
  <2>3. Good(final) /\ Earned(final.man)
    BY <2>1 DEF EarnedInv, Good
  <2>4. final.man.exit = Ok /\ final.map = "good"
    BY <2>1, <2>2, <2>3 DEF Good, Earned
  <2>5. workflow[final.owner] # "alive"
    BY <2>1 DEF IInv, FinalIsQuiet, Exists, Dir
  <2>6. QED BY <2>2, <2>4, <2>5
<1>2. QED BY <1>1, ResultsHold, PTL

-----------------------------------------------------------------------------
(* What a reader of the output name finds while one fresh run, and any     *)
(* number of resumes, use it: one directory, whose manifest is at most one *)
(* write behind the process that holds the lock.                           *)
OneFreshRun == \A i, j \in Fresh : i = j

\* The manifest of a recorded run, by the directory it is in.
Sound(place, m) ==
    /\ m.exit \in {Ok, Failed, Broken, Interrupted}
    /\ m.stage \in Resumable \cup {"complete"}
    /\ m.stage = "complete" => place = "final"
    /\ place = "partial" => ~m.finalized
    /\ m.status = "interrupted" => m.exit \in {Interrupted, Broken}
\* What is recorded and what the process holds.
Agrees(m, n) ==
    /\ m.exit # NoCode =>
          /\ n.exit = m.exit
          /\ n.status = "interrupted" <=> m.status = "interrupted"
          /\ m.stage = "complete" => n.stage = "complete"
    /\ m.exit = NoCode => n.stage # "complete"
VerdictOf(m, d) ==
    IF m.status = "interrupted" \/ m.exit # Ok THEN m.exit
    ELSE IF m.verification /\ d.diag # "success" THEN Failed
    ELSE Ok

AfterRename == {"published", "finalized", "diagnosing", "writing", "diagnosed", "deciding",
                "sealing", "receipt", "concluding"}
\* A process at l holds m and works on d.
At(l, place, d, m) ==
    /\ d.man # NoManifest
    /\ d.man.exit # NoCode => Sound(place, d.man)
    /\ Sound(place, m) /\ Agrees(d.man, m)
    /\ l \notin {"post", "failing"} => d.man = m
    /\ m.stage = "complete" => l \in {"receipt", "concluding", "failing", "failed"}
    /\ l \in AfterRename => place = "final"
    /\ l \in AfterRename \ {"published"} => m.finalized
    /\ l = "sealing" => m.status = "interrupted" \/ m.status = StatusOf(VerdictOf(m, d))
    /\ l \in {"receipt", "concluding"} =>
          m.stage = "complete" /\ (m.runner = Ok => m.status = "succeeded")
    /\ l = "concluding" => Readable(d) /\ d.receipt = ReceiptOf(d)

\* Only a fresh run makes a directory, and there is one.
OneOutput ==
    /\ partial = NoDir \/ final = NoDir
    /\ partial # NoDir => partial.owner \in Fresh
    /\ final # NoDir => final.owner \in Fresh
\* A fresh run before its post-processing.
FreshInv ==
    \A i \in Runs :
        /\ pc[i] \in FreshLabels => i \in Fresh
        /\ pc[i] = "made" => partial.man = NoManifest
        /\ pc[i] \in {"launch", "running", "ended"} => partial.man # NoManifest
        /\ pc[i] \in {"launch", "running"} => ~mem[i].finalized
        /\ pc[i] = "ended" => mem[i].stage # "complete" /\ Sound("partial", mem[i])
SoundDirs ==
    /\ Rec(partial) => Sound("partial", partial.man)
    /\ Rec(final) => Sound("final", final.man)
PostInv == \A i \in Runs : Posting(i) => At(pc[i], cur[i], Dir(cur[i]), mem[i])
\* A run that is over for good: what exit status 0 promises.
Closed ==
    /\ \A j \in Runs : ~Posting(j)
    /\ Sealed("final")
    /\ final.man.status = "succeeded"
    /\ final.man.runner = Ok
    /\ final.man.finalized
    /\ final.man.verification => Trusted
ZeroInv == \A i \in Runs : code[i] = Ok => Closed

RecordInv == OneOutput /\ FreshInv /\ SoundDirs /\ PostInv /\ ZeroInv

\* A sound manifest is recorded, and agrees with itself.
LEMMA SoundIsRecorded ==
  ASSUME NEW place, NEW m, Sound(place, m)
  PROVE  m.exit # NoCode /\ Agrees(m, m)
BY DEF Sound, Agrees, NoCode, Ok, Failed, Broken, Interrupted

\* Nobody has posted where there is no directory, or one that is being made.
LEMMA BegunAlone ==
  ASSUME IInv, OneFreshRun, RecordInv, NEW i \in Runs, pc[i] \in Begun
  PROVE  /\ partial \in Dirs /\ partial # NoDir /\ partial.owner = i /\ final = NoDir
         /\ ~Rec(partial)
         /\ \A j \in Runs : ~Posting(j)
         /\ \A j \in Runs : code[j] # Ok
<1>1. partial.owner = i /\ ~Rec(partial)
  BY RecordedDirs DEF IInv, WorkingDirOwned
<1>2. partial # NoDir
  BY <1>1, RunsAssumption DEF NoDir
<1>3. final = NoDir
  BY <1>2 DEF RecordInv, OneOutput
<1>4. \A j \in Runs : ~Posting(j)
  BY <1>1, <1>3, RecordedDirs DEF IInv, PostsQuietDir, TypeOK, Places, Dir, Exists
<1>5. \A j \in Runs : code[j] # Ok
  BY <1>3, RecordedDirs DEF RecordInv, ZeroInv, Closed, Sealed, HasManifest
<1>6. QED BY <1>1, <1>2, <1>3, <1>4, <1>5 DEF IInv, TypeOK

\* Nor before that.
LEMMA NothingYet ==
  ASSUME IInv, OneFreshRun, RecordInv, NEW i \in Fresh, pc[i] \in {"idle", "validated"}
  PROVE  /\ partial = NoDir /\ final = NoDir
         /\ \A j \in Runs : ~Posting(j)
         /\ \A j \in Runs : code[j] # Ok
<1>1. i \in Runs /\ partial.owner # i /\ final.owner # i
  BY RunsAssumption DEF IInv, NothingOwned
<1>2. partial = NoDir /\ final = NoDir
  BY <1>1 DEF RecordInv, OneOutput, OneFreshRun
<1>3. \A j \in Runs : ~Posting(j)
  BY <1>2, RecordedDirs DEF IInv, PostsQuietDir, TypeOK, Places, Dir, Exists
<1>4. \A j \in Runs : code[j] # Ok
  BY <1>2, RecordedDirs DEF RecordInv, ZeroInv, Closed, Sealed, HasManifest
<1>5. QED BY <1>2, <1>3, <1>4

\* Whoever post-processes is alone with the only directory.
LEMMA PostsAlone ==
  ASSUME IInv, OneFreshRun, RecordInv, NEW i \in Runs, Posting(i)
  PROVE  /\ cur[i] \in Places /\ Dir(cur[i]) \in Dirs /\ Dir(cur[i]) # NoDir
         /\ cur[i] = "partial" => Dir(cur[i]) = partial /\ final = NoDir
         /\ cur[i] = "final" => Dir(cur[i]) = final /\ partial = NoDir
         /\ mem[i] \in Manifests
         /\ \A j \in Runs \ {i} : ~Posting(j)
         /\ \A j \in Runs : pc[j] \notin FreshLabels
         /\ \A j \in Runs : code[j] # Ok
         /\ At(pc[i], cur[i], Dir(cur[i]), mem[i])
<1>1. cur[i] \in Places /\ Dir(cur[i]) \in Dirs /\ Dir(cur[i]) # NoDir
  BY PostedDirIsQuiet, DirType DEF Quiet, IInv, Exists, Posting
<1>2. \A j \in Runs \ {i} : ~Posting(j)
  BY DEF IInv, LockHeld, Posting
<1>3. \A j \in Runs : pc[j] \notin FreshLabels
  <2>1. \A j \in Runs : pc[j] \notin Begun
    BY BegunAlone
  <2>2. \A j \in Runs : pc[j] # "validated"
    BY NothingYet DEF RecordInv, FreshInv, FreshLabels
  <2>3. QED BY <2>1, <2>2 DEF Begun, FreshLabels
<1>4. \A j \in Runs : code[j] # Ok
  BY DEF RecordInv, ZeroInv, Closed
<1>5. mem[i] \in Manifests
  BY DEF IInv, MemHeld, Holding, Posting
<1>6. QED
  BY <1>1, <1>2, <1>3, <1>4, <1>5 DEF RecordInv, OneOutput, PostInv, Dir

\* What the record shows of a manifest.
View(m) ==
    IF m.exit = NoCode THEN [phase |-> "open"]
    ELSE IF m.stage # "complete"
         THEN [phase |-> "result", exit |-> m.exit, interrupted |-> (m.status = "interrupted")]
    ELSE [phase |-> "sealed", exit |-> m.exit, interrupted |-> (m.status = "interrupted"),
          verdict |-> m.runner, status |-> m.status]

\* With one directory, the record is the view of its manifest.
LEMMA ViewOfOne ==
  ASSUME partial = NoDir \/ final = NoDir
  PROVE  /\ partial # NoDir /\ partial.man # NoManifest => DurableRecord = View(partial.man)
         /\ final # NoDir /\ final.man # NoManifest => DurableRecord = View(final.man)
BY DEF DurableRecord, Durable, View, HasManifest, Exists, Dir

\* A step after which one process post-processes, alone.
LEMMA PlaceReached ==
  ASSUME IInv, NEW i \in Runs, NEW l \in PostLabels,
         \A j \in Runs \ {i} : pc[j] \notin PostLabels \cup FreshLabels,
         \A j \in Runs : code[j] # Ok,
         pc' = [pc EXCEPT ![i] = l], code' = code,
         NEW place \in Places, NEW e, cur'[i] = place, e # NoDir, e.owner \in Fresh,
         place = "partial" => partial' = e /\ final' = NoDir,
         place = "final" => final' = e /\ partial' = NoDir,
         At(l, place, e, mem'[i])
  PROVE  RecordInv' /\ DurableRecord' = View(e.man)
<1>1. /\ \A j \in Runs \ {i} : pc'[j] = pc[j]
      /\ pc'[i] = l
      /\ \A j \in Runs : code'[j] # Ok
  BY DEF IInv, TypeOK
<1>2. \A j \in Runs : pc'[j] \notin FreshLabels
  BY <1>1 DEF PostLabels, FreshLabels
<1>3. OneOutput'
  BY DEF OneOutput, Places
<1>4. FreshInv'
  BY <1>2 DEF FreshInv, FreshLabels
<1>5. SoundDirs'
  <2>1. Rec(e) => Sound(place, e.man)
    BY DEF Rec, At
  <2>2. ~Rec(NoDir)
    BY DEF Rec
  <2>3. CASE place = "partial"
    BY <2>1, <2>2, <2>3 DEF SoundDirs
  <2>4. CASE place = "final"
    BY <2>1, <2>2, <2>4 DEF SoundDirs
  <2>5. QED BY <2>3, <2>4 DEF Places
<1>6. PostInv'
  <2>1. \A j \in Runs : pc'[j] \in PostLabels => j = i
    BY <1>1
  <2>2. e = IF cur'[i] = "partial" THEN partial' ELSE final'
    BY DEF Places
  <2>3. QED BY <1>1, <2>1, <2>2 DEF PostInv, Posting, Dir
<1>7. ZeroInv'
  BY <1>1 DEF ZeroInv
<1>8. DurableRecord' = View(e.man)
  <2>1. e.man # NoManifest
    BY DEF At
  <2>2. /\ partial' = NoDir \/ final' = NoDir
        /\ partial' # NoDir => partial' = e
        /\ final' # NoDir => final' = e
        /\ partial' # NoDir \/ final' # NoDir
    BY DEF Places
  <2>3. QED BY <2>1, <2>2 DEF DurableRecord, Durable, View, HasManifest, Exists, Dir
<1>9. QED BY <1>3, <1>4, <1>5, <1>6, <1>7, <1>8 DEF RecordInv

\* A step of post-processing that does not end the process.
LEMMA PostingReached ==
  ASSUME IInv, OneFreshRun, RecordInv, NEW i \in Runs, Posting(i), NEW l \in PostLabels,
         pc' = [pc EXCEPT ![i] = l], code' = code,
         NEW place \in Places, NEW e, cur'[i] = place, e # NoDir, e.owner \in Fresh,
         place = "partial" => partial' = e /\ final' = NoDir,
         place = "final" => final' = e /\ partial' = NoDir,
         At(l, place, e, mem'[i])
  PROVE  RecordInv' /\ DurableRecord' = View(e.man)
<1>1. /\ \A j \in Runs \ {i} : pc[j] \notin PostLabels \cup FreshLabels
      /\ \A j \in Runs : code[j] # Ok
  BY PostsAlone DEF Posting
<1>2. QED BY <1>1, PlaceReached

\* While a process posts, the record is the manifest of its directory.
LEMMA PostingRecord ==
  ASSUME IInv, OneFreshRun, RecordInv, NEW i \in Runs, Posting(i)
  PROVE  DurableRecord = View(Dir(cur[i]).man)
<1>1. Dir(cur[i]).man # NoManifest /\ Dir(cur[i]) # NoDir
  BY PostsAlone DEF At
<1>2. QED BY <1>1, PostsAlone, ViewOfOne DEF Places, RecordInv, OneOutput

\* How a manifest under the output name may change, and what the record makes of it.
Evolves(m, n) ==
    \/ n = m
    \/ /\ m.exit = NoCode
       /\ n.exit \in {Ok, Failed, Broken, Interrupted} /\ n.stage # "complete"
    \/ /\ m.exit \in {Ok, Failed, Broken, Interrupted}
       /\ n.exit = m.exit
       /\ n.status = "interrupted" <=> m.status = "interrupted"
       /\ \/ m.stage # "complete" /\ n.stage # "complete"
          \/ /\ n.stage = "complete"
             /\ n.status = IF n.status = "interrupted" THEN "interrupted" ELSE StatusOf(n.runner)
             /\ \/ n.runner = Broken
                \/ /\ m.stage # "complete"
                   /\ n.runner \in IF m.status = "interrupted" \/ m.exit # Ok THEN {m.exit}
                                   ELSE {Ok, Failed}

\* Such a change is a step of the record, or none.
LEMMA EvolvesIsRecorded ==
  ASSUME NEW m, NEW n, Evolves(m, n), DurableRecord = View(m), DurableRecord' = View(n)
  PROVE  [Record!Next]_DurableRecord
<1>1. CASE n = m
  BY <1>1
<1>2. CASE m.exit = NoCode /\ n.exit \in {Ok, Failed, Broken, Interrupted} /\ n.stage # "complete"
  <2>1. DurableRecord = [phase |-> "open"]
    BY <1>2 DEF View
  <2>2. DurableRecord' = [phase |-> "result", exit |-> n.exit, interrupted |-> (n.status = "interrupted")]
    BY <1>2 DEF View, NoCode, Ok, Failed, Broken, Interrupted
  <2>3. Record!RecordResult
    BY <2>1, <2>2, <1>2 DEF Record!RecordResult, Record!Open, Record!Result
  <2>4. QED BY <2>3 DEF Record!Next
<1>3. ASSUME m.exit \in {Ok, Failed, Broken, Interrupted}, n.exit = m.exit,
             n.status = "interrupted" <=> m.status = "interrupted"
      PROVE  /\ (m.stage # "complete" /\ n.stage # "complete") => DurableRecord' = DurableRecord
             /\ /\ n.stage = "complete"
                /\ n.status = IF n.status = "interrupted" THEN "interrupted" ELSE StatusOf(n.runner)
                => /\ m.stage = "complete" /\ n.runner = Broken => Record!Revoke
                   /\ /\ m.stage # "complete"
                      /\ n.runner \in {Broken} \cup
                                   IF m.status = "interrupted" \/ m.exit # Ok THEN {m.exit}
                                   ELSE {Ok, Failed}
                      => Record!Seal
  <2>a. m.exit # NoCode /\ n.exit # NoCode
    BY <1>3 DEF NoCode, Ok, Failed, Broken, Interrupted
  <2>b. (n.status = "interrupted") = (m.status = "interrupted")
    BY <1>3
  <2>1. ASSUME m.stage # "complete", n.stage # "complete"
        PROVE  DurableRecord' = DurableRecord
    BY <1>3, <2>a, <2>b, <2>1 DEF View
  <2>c. ASSUME n.stage = "complete",
               n.status = IF n.status = "interrupted" THEN "interrupted" ELSE StatusOf(n.runner)
        PROVE  DurableRecord' = Record!Sealed(m.exit, m.status = "interrupted", n.runner)
    BY <1>3, <2>a, <2>b, <2>c DEF View, Record!Sealed, StatusOf
  <2>2. ASSUME n.stage = "complete",
               n.status = IF n.status = "interrupted" THEN "interrupted" ELSE StatusOf(n.runner),
               m.stage = "complete", n.runner = Broken
        PROVE  Record!Revoke
    <3>1. /\ DurableRecord.phase = "sealed" /\ DurableRecord.exit = m.exit
          /\ DurableRecord.interrupted = (m.status = "interrupted")
      BY <2>a, <2>2 DEF View
    <3>2. QED BY <2>c, <2>2, <3>1 DEF Record!Revoke
  <2>3. ASSUME n.stage = "complete",
               n.status = IF n.status = "interrupted" THEN "interrupted" ELSE StatusOf(n.runner),
               m.stage # "complete",
               n.runner \in {Broken} \cup
                            IF m.status = "interrupted" \/ m.exit # Ok THEN {m.exit}
                            ELSE {Ok, Failed}
        PROVE  Record!Seal
    <3>1. /\ DurableRecord.phase = "result" /\ DurableRecord.exit = m.exit
          /\ DurableRecord.interrupted = (m.status = "interrupted")
      BY <2>a, <2>3 DEF View
    <3>2. n.runner \in Record!Verdicts(DurableRecord.exit, DurableRecord.interrupted)
      BY <2>3, <3>1 DEF Record!Verdicts
    <3>3. QED BY <2>c, <2>3, <3>1, <3>2 DEF Record!Seal
  <2>4. QED BY <2>1, <2>2, <2>3
<1>4. QED BY <1>1, <1>2, <1>3 DEF Evolves, Record!Next

\* The steps of the record, with the invariant.
RecordKept == RecordInv' /\ [Record!Next]_DurableRecord

\* A manifest write, from every stage before the last.
LEMMA WriteRecorded ==
  ASSUME IInv, OneFreshRun, RecordInv, NEW i \in Runs, Posting(i), pc[i] # "failing",
         NEW n \in Manifests, NEW l \in PostLabels, Write(i, n, l),
         mem[i].stage # "complete", n.exit = mem[i].exit,
         n.status = "interrupted" <=> mem[i].status = "interrupted",
         Sound(cur[i], n),
         At(l, cur[i], [Dir(cur[i]) EXCEPT !.man = n], n),
         n.stage = "complete" =>
            /\ Dir(cur[i]).man = mem[i]
            /\ n.status = IF n.status = "interrupted" THEN "interrupted" ELSE StatusOf(n.runner)
            /\ n.runner \in IF mem[i].status = "interrupted" \/ mem[i].exit # Ok THEN {mem[i].exit}
                            ELSE {Ok, Failed}
  PROVE  RecordKept
<1> DEFINE d == Dir(cur[i])
<1>1. /\ cur[i] \in Places /\ d \in Dirs /\ d # NoDir /\ mem[i] \in Manifests
      /\ cur[i] = "partial" => d = partial /\ final = NoDir
      /\ cur[i] = "final" => d = final /\ partial = NoDir
      /\ At(pc[i], cur[i], d, mem[i])
  BY PostsAlone
<1>2. d.owner \in Fresh /\ DurableRecord = View(d.man)
  BY <1>1, PostingRecord DEF RecordInv, OneOutput, Places
<1>3. /\ mem'[i] = n /\ cur'[i] = cur[i] /\ code' = code
  BY DEF Write, Goto, IInv, TypeOK
<1>4. d.man.stage # "complete" \/ d.man.exit = NoCode
  BY <1>1 DEF At, Agrees
<1>5. CASE SetDir(cur[i], [Dir(cur[i]) EXCEPT !.man = n]) /\ Goto(i, l)
  <2> DEFINE e == [d EXCEPT !.man = n]
  <2>1. e # NoDir /\ e.owner = d.owner /\ e.man = n
    BY <1>1, EvidenceKeepsTheOwner DEF Reworks
  <2>2. /\ cur[i] = "partial" => partial' = e /\ final' = NoDir
        /\ cur[i] = "final" => final' = e /\ partial' = NoDir
    BY <1>5, <1>1 DEF SetDir
  <2>3. RecordInv' /\ DurableRecord' = View(n)
    <3>1. pc' = [pc EXCEPT ![i] = l] /\ At(l, cur[i], e, mem'[i])
      BY <1>3, <1>5 DEF Goto
    <3> HIDE DEF e
    <3>2. RecordInv' /\ DurableRecord' = View(e.man)
      BY <3>1, <1>1, <1>2, <1>3, <2>1, <2>2, PostingReached
    <3>3. QED BY <3>2, <2>1
  <2>4. Evolves(d.man, n)
    <3>1. CASE d.man.exit = NoCode
      <4>1. d.man # mem[i]
        BY <1>1, <3>1 DEF At, Sound, NoCode, Ok, Failed, Broken, Interrupted
      <4>2. QED BY <4>1, <3>1 DEF Evolves, Sound
    <3>2. CASE d.man.exit # NoCode
      <4>1. /\ d.man.exit \in {Ok, Failed, Broken, Interrupted} /\ n.exit = d.man.exit
            /\ n.status = "interrupted" <=> d.man.status = "interrupted"
        BY <1>1, <3>2 DEF At, Sound, Agrees
      <4>2. QED BY <4>1, <1>4, <3>2 DEF Evolves
    <3>3. QED BY <3>1, <3>2
  <2>5. QED BY <2>3, <2>4, <1>2, EvolvesIsRecorded DEF RecordKept
<1>6. CASE Dirless /\ Goto(i, "failing")
  <2>1. At("failing", cur[i], d, mem'[i])
    <3>1. Agrees(d.man, n)
      BY <1>1, <1>4 DEF At, Agrees
    <3>2. QED BY <1>1, <1>3, <3>1 DEF At, AfterRename
  <2>2. /\ cur[i] = "partial" => partial' = d /\ final' = NoDir
        /\ cur[i] = "final" => final' = d /\ partial' = NoDir
    BY <1>6, <1>1 DEF Dirless
  <2>3. "failing" \in PostLabels /\ pc' = [pc EXCEPT ![i] = "failing"]
    BY <1>6 DEF PostLabels, Goto
  <2> HIDE DEF d
  <2>4. RecordInv' /\ DurableRecord' = View(d.man)
    BY <2>1, <2>2, <2>3, <1>1, <1>2, <1>3, PostingReached
  <2>5. QED BY <2>4, <1>2 DEF RecordKept
<1>7. QED BY <1>5, <1>6 DEF Write

\* A step that leaves the manifest alone, durable and in memory.
LEMMA EvidenceRecorded ==
  ASSUME IInv, OneFreshRun, RecordInv, NEW i \in Runs, Posting(i), NEW l \in PostLabels,
         UNCHANGED <<mem, cur>>, Goto(i, l), NEW e \in Dirs,
         e.man = Dir(cur[i]).man, e.owner = Dir(cur[i]).owner,
         \/ Dirless /\ e = Dir(cur[i])
         \/ SetDir(cur[i], e),
         At(l, cur[i], e, mem[i])
  PROVE  RecordKept
<1> DEFINE d == Dir(cur[i])
<1>1. /\ cur[i] \in Places /\ d \in Dirs /\ d # NoDir
      /\ cur[i] = "partial" => d = partial /\ final = NoDir
      /\ cur[i] = "final" => d = final /\ partial = NoDir
  BY PostsAlone
<1>2. d.owner \in Fresh /\ DurableRecord = View(d.man)
  BY <1>1, PostingRecord DEF RecordInv, OneOutput, Places
<1>3. e # NoDir
  BY RunsAssumption DEF Dirs, NoDir
<1>4. /\ cur[i] = "partial" => partial' = e /\ final' = NoDir
      /\ cur[i] = "final" => final' = e /\ partial' = NoDir
  BY <1>1 DEF SetDir, Dirless
<1>5. pc' = [pc EXCEPT ![i] = l] /\ code' = code /\ cur'[i] = cur[i] /\ mem'[i] = mem[i]
  BY DEF Goto
<1>6. RecordInv' /\ DurableRecord' = View(e.man)
  BY <1>1, <1>2, <1>3, <1>4, <1>5, PostingReached
<1>7. QED BY <1>6, <1>2 DEF RecordKept

\* The process leaves; what it had recorded stays.
LEMMA LeaveRecorded ==
  ASSUME IInv, OneFreshRun, RecordInv, NEW i \in Runs, NEW l \in {"exited", "killed"}, Leave(i, l),
         /\ partial' # NoDir <=> partial # NoDir
         /\ final' # NoDir <=> final # NoDir,
         partial # NoDir => partial'.owner = partial.owner /\ partial'.man = partial.man,
         final # NoDir => final'.owner = final.owner /\ final'.man = final.man,
         Posting(i) \/ Dirless,
         ZeroInv'
  PROVE  RecordKept
<1>1. /\ \A j \in Runs \ {i} : pc'[j] = pc[j] /\ mem'[j] = mem[j] /\ cur'[j] = cur[j]
      /\ pc'[i] \in {"exited", "killed"}
  BY DEF Leave, IInv, TypeOK
<1>2. OneOutput'
  BY DEF RecordInv, OneOutput
<1>3. FreshInv'
  <2>1. \A j \in Runs : pc'[j] \in FreshLabels => j # i
    BY <1>1 DEF FreshLabels
  <2>2. CASE Posting(i)
    BY <2>1, <2>2, <1>1, PostsAlone DEF FreshInv, FreshLabels
  <2>3. CASE Dirless
    BY <2>1, <2>3, <1>1 DEF RecordInv, FreshInv, FreshLabels, Dirless
  <2>4. QED BY <2>2, <2>3
<1>4. SoundDirs'
  BY DEF RecordInv, SoundDirs, Rec
<1>5. PostInv'
  <2>1. \A j \in Runs : pc'[j] \in PostLabels => pc[j] \in PostLabels /\ j # i
    BY <1>1 DEF PostLabels
  <2>2. CASE Posting(i)
    BY <2>1, <2>2, PostsAlone DEF PostInv, Posting
  <2>3. CASE Dirless
    BY <2>1, <2>3, <1>1 DEF PostInv, Posting, RecordInv, Dirless, Dir
  <2>4. QED BY <2>2, <2>3
<1>6. DurableRecord' = DurableRecord
  BY DEF DurableRecord, Durable, HasManifest, Exists, Dir
<1>7. QED BY <1>2, <1>3, <1>4, <1>5, <1>6 DEF RecordKept, RecordInv

\* A stage that is marked, where nothing is sealed.
LEMMA MarkRecorded ==
  ASSUME IInv, OneFreshRun, RecordInv, NEW i \in Runs, NEW at \in PostLabels, NEW st \in Resumable,
         NEW l \in PostLabels \ {"sealing", "receipt", "concluding"}, Mark(i, at, st, l),
         at \notin {"receipt", "concluding", "failing", "failed"},
         l \in AfterRename => cur[i] = "final",
         l \in AfterRename \ {"published"} => mem[i].finalized
  PROVE  RecordKept
<1> DEFINE n == [mem[i] EXCEPT !.stage = st]
           e == [Dir(cur[i]) EXCEPT !.man = n]
<1>1. Posting(i) /\ pc[i] = at
  BY DEF Mark, Posting
<1>2. mem[i] \in Manifests /\ Dir(cur[i]) \in Dirs /\ At(at, cur[i], Dir(cur[i]), mem[i])
  BY <1>1, PostsAlone
<1>3. mem[i].stage # "complete"
  BY <1>2 DEF At
<1>4. /\ n \in Manifests /\ n.exit = mem[i].exit /\ n.status = mem[i].status
      /\ n.finalized = mem[i].finalized /\ n.stage = st /\ st # "complete"
  BY <1>2 DEF Manifests, Stages, Resumable
<1>5. Sound(cur[i], n)
  BY <1>2, <1>4 DEF At, Sound
<1>6. e.man = n
  BY <1>2 DEF Dirs
<1> HIDE DEF n
<1>7. At(l, cur[i], e, n)
  <2>1. n # NoManifest
    BY <1>4, RunsAssumption DEF Manifests, NoManifest
  <2> HIDE DEF e
  <2>2. QED BY <1>4, <1>5, <1>6, <2>1 DEF At, Agrees
<1>8. QED
  <2>1. Write(i, n, l)
    BY DEF Mark, n
  <2>2. QED BY <1>1, <1>2, <1>3, <1>4, <1>5, <1>7, <2>1, WriteRecorded

\* The steps that write a manifest.
LEMMA WritesRecorded ==
  ASSUME IInv, OneFreshRun, RecordInv, NEW i \in Runs,
         \/ RecordResult(i) \/ MarkVerifying(i) \/ MarkVerified(i) \/ MarkFinalizing(i)
         \/ MarkFinalized(i) \/ MarkDiagnosing(i) \/ MarkDiagnosed(i)
  PROVE  RecordKept
<1>a. Posting(i) => /\ mem[i] \in Manifests /\ Dir(cur[i]) \in Dirs /\ cur[i] \in Places
                    /\ At(pc[i], cur[i], Dir(cur[i]), mem[i])
  BY PostsAlone
<1>1. CASE RecordResult(i)
  <2>1. pc[i] = "post" /\ Posting(i) /\ Write(i, mem[i], "recorded")
    BY <1>1 DEF RecordResult, Posting, PostLabels
  <2>2. mem[i].stage # "complete" /\ Sound(cur[i], mem[i])
    BY <1>a, <2>1 DEF At
  <2>3. [Dir(cur[i]) EXCEPT !.man = mem[i]].man = mem[i] /\ mem[i] # NoManifest
    BY <1>a, <2>1, RunsAssumption DEF Dirs, Manifests, NoManifest
  <2>4. At("recorded", cur[i], [Dir(cur[i]) EXCEPT !.man = mem[i]], mem[i])
    BY <2>2, <2>3 DEF At, Agrees, AfterRename
  <2>5. QED BY <1>a, <2>1, <2>2, <2>4, WriteRecorded DEF PostLabels
<1>2. CASE MarkVerifying(i)
  BY <1>2, MarkRecorded DEF MarkVerifying, PostLabels, Resumable, AfterRename
<1>3. CASE MarkVerified(i)
  <2>1. Posting(i)
    BY <1>3 DEF MarkVerified, Mark, Posting, PostLabels
  <2>2. CASE cur[i] = "partial"
    BY <1>3, <2>2, MarkRecorded DEF MarkVerified, PostLabels, Resumable, AfterRename
  <2>3. CASE cur[i] = "final"
    BY <1>3, <2>3, MarkRecorded DEF MarkVerified, PostLabels, Resumable, AfterRename
  <2>4. QED BY <1>a, <2>1, <2>2, <2>3 DEF Places
<1>4. CASE MarkFinalizing(i)
  BY <1>4, MarkRecorded DEF MarkFinalizing, PostLabels, Resumable, AfterRename
<1>5. CASE MarkFinalized(i)
  <2> DEFINE n == [mem[i] EXCEPT !.stage = "finalized", !.finalized = TRUE]
             e == [Dir(cur[i]) EXCEPT !.man = n]
  <2>1. pc[i] = "published" /\ Posting(i) /\ Write(i, n, "finalized")
    BY <1>5 DEF MarkFinalized, Posting, PostLabels
  <2>2. mem[i].stage # "complete" /\ Sound(cur[i], mem[i]) /\ cur[i] = "final"
    BY <1>a, <2>1 DEF At, AfterRename
  <2>3. /\ n \in Manifests /\ n.exit = mem[i].exit /\ n.status = mem[i].status
        /\ n.stage = "finalized" /\ n.finalized
    BY <1>a, <2>1 DEF Manifests, Stages, Resumable
  <2>4. e.man = n /\ n # NoManifest
    BY <1>a, <2>1, <2>3, RunsAssumption DEF Dirs, Manifests, NoManifest
  <2> HIDE DEF n, e
  <2>5. Sound(cur[i], n)
    BY <2>2, <2>3 DEF Sound, Resumable
  <2>6. At("finalized", cur[i], e, n)
    BY <2>2, <2>3, <2>4, <2>5 DEF At, Agrees
  <2>7. QED BY <1>a, <2>1, <2>2, <2>3, <2>5, <2>6, WriteRecorded DEF PostLabels, e
<1>6. CASE MarkDiagnosing(i)
  <2>1. cur[i] = "final" /\ mem[i].finalized
    BY <1>6, <1>a DEF MarkDiagnosing, Mark, Posting, PostLabels, At, AfterRename
  <2>2. QED BY <1>6, <2>1, MarkRecorded DEF MarkDiagnosing, PostLabels, Resumable
<1>7. CASE MarkDiagnosed(i)
  <2>1. cur[i] = "final" /\ mem[i].finalized
    BY <1>7, <1>a DEF MarkDiagnosed, Mark, Posting, PostLabels, At, AfterRename
  <2>2. QED BY <1>7, <2>1, MarkRecorded DEF MarkDiagnosed, PostLabels, Resumable
<1>8. QED BY <1>1, <1>2, <1>3, <1>4, <1>5, <1>6, <1>7

\* The verdict does not depend on the stage or on the manifest in the directory.
LEMMA VerdictStays ==
  ASSUME NEW m \in Manifests, NEW d \in Dirs
  PROVE  /\ VerdictOf(m, d) \in {m.exit, Failed, Ok}
         /\ ~(m.status = "interrupted" \/ m.exit # Ok) => VerdictOf(m, d) \in {Ok, Failed}
         /\ m.status = "interrupted" \/ m.exit # Ok => VerdictOf(m, d) = m.exit
BY DEF VerdictOf

\* Checksumming sets the final status, sealing the verdict it stands for.
LEMMA SealRecorded ==
  ASSUME IInv, OneFreshRun, RecordInv, NEW i \in Runs, MarkChecksumming(i) \/ Seal(i)
  PROVE  RecordKept
<1> DEFINE d == Dir(cur[i])
           v == VerdictOf(mem[i], d)
<1>1. Posting(i) /\ pc[i] \in {"deciding", "sealing"}
  BY DEF MarkChecksumming, Seal, Posting, PostLabels
<1>2. mem[i] \in Manifests /\ d \in Dirs /\ At(pc[i], cur[i], d, mem[i])
  BY <1>1, PostsAlone
<1>3. /\ cur[i] = "final" /\ mem[i].finalized /\ mem[i].stage # "complete"
      /\ Sound(cur[i], mem[i]) /\ d.man = mem[i]
  BY <1>1, <1>2 DEF At, AfterRename
<1>4. v \in Codes /\ Verdict(i) = v
  BY <1>2, VerdictStays, ManifestParts DEF VerdictOf, Verdict, Codes, Failed, Ok
<1>5. CASE MarkChecksumming(i)
  <2> DEFINE n == [mem[i] EXCEPT !.stage = "checksumming",
                               !.status = IF @ = "interrupted" THEN @
                                          ELSE StatusOf(Verdict(i))]
             e == [d EXCEPT !.man = n]
  <2>1. Write(i, n, "sealing")
    BY <1>5 DEF MarkChecksumming
  <2>2. /\ n \in Manifests /\ n.exit = mem[i].exit /\ n.finalized
        /\ n.verification = mem[i].verification /\ n.stage = "checksumming"
        /\ n.status = IF mem[i].status = "interrupted" THEN "interrupted" ELSE StatusOf(v)
    BY <1>2, <1>3, <1>4 DEF Manifests, Stages, Resumable, StatusOf, Statuses
  <2>3. e.man = n /\ e.diag = d.diag /\ n # NoManifest
    BY <1>2, <2>2, RunsAssumption DEF Dirs, Manifests, NoManifest
  <2> HIDE DEF n, e
  <2>4. n.status = "interrupted" <=> mem[i].status = "interrupted"
    BY <2>2 DEF StatusOf
  <2>5. Sound(cur[i], n)
    BY <1>3, <2>2, <2>4 DEF Sound, Resumable
  <2>6. VerdictOf(n, e) = v
    BY <2>2, <2>3, <2>4 DEF VerdictOf
  <2> HIDE DEF v
  <2>7. At("sealing", cur[i], e, n)
    BY <1>3, <2>2, <2>3, <2>4, <2>5, <2>6 DEF At, Agrees
  <2>8. QED BY <1>1, <1>3, <2>1, <2>2, <2>4, <2>5, <2>7, WriteRecorded DEF PostLabels, e
<1>6. CASE Seal(i)
  <2> DEFINE n == [mem[i] EXCEPT !.stage = "complete", !.runner = Verdict(i),
                               !.sums = SumsOf(Dir(cur[i]))]
             e == [d EXCEPT !.man = n]
  <2>1. Write(i, n, "receipt") /\ pc[i] = "sealing"
    BY <1>6 DEF Seal
  <2>2. /\ n \in Manifests /\ n.exit = mem[i].exit /\ n.finalized
        /\ n.stage = "complete" /\ n.runner = v /\ n.status = mem[i].status
    BY <1>2, <1>3, <1>4, DirParts DEF Manifests, Stages
  <2>3. e.man = n /\ n # NoManifest
    BY <1>2, <2>2, RunsAssumption DEF Dirs, Manifests, NoManifest
  <2>4. mem[i].status = "interrupted" \/ mem[i].status = StatusOf(v)
    BY <1>2, <2>1 DEF At
  <2> HIDE DEF n, e
  <2>5. Sound(cur[i], n)
    BY <1>3, <2>2 DEF Sound
  <2>6. n.runner = Ok => n.status = "succeeded"
    <3>1. ASSUME v = Ok, mem[i].status = "interrupted" PROVE FALSE
      BY <1>3, <3>1 DEF VerdictOf, Sound, Ok, Interrupted, Broken
    <3>2. QED BY <3>1, <2>2, <2>4 DEF StatusOf
  <2>7. n.runner \in IF mem[i].status = "interrupted" \/ mem[i].exit # Ok THEN {mem[i].exit}
                     ELSE {Ok, Failed}
    BY <2>2, <1>2, VerdictStays
  <2> HIDE DEF v
  <2>8. At("receipt", cur[i], e, n)
    BY <1>3, <2>2, <2>3, <2>5, <2>6, SoundIsRecorded DEF At
  <2>9. n.status = IF n.status = "interrupted" THEN "interrupted" ELSE StatusOf(n.runner)
    BY <2>2, <2>4
  <2>10. QED BY <1>1, <1>3, <2>1, <2>2, <2>5, <2>7, <2>8, <2>9, WriteRecorded DEF PostLabels, e
<1>7. QED BY <1>5, <1>6

\* The place of a process that only touched evidence, or failed.
LEMMA AtNext ==
  ASSUME NEW l, NEW k, NEW place, NEW d, NEW e, NEW m, At(l, place, d, m), e.man = d.man,
         \/ k = "failing"
         \/ /\ l \notin {"post", "failing"} /\ k \notin {"sealing", "receipt", "concluding"}
            /\ l \in {"receipt", "concluding", "failed"} => k = "failed"
            /\ k \in AfterRename => l \in AfterRename \ {"published"}
  PROVE  l \in {"receipt", "concluding", "failing", "failed"} \/ m.stage # "complete"
         => At(k, place, e, m)
BY DEF At, AfterRename

\* A directory with other evidence keeps its owner and its manifest.
LEMMA EvidenceParts ==
  ASSUME NEW d \in Dirs
  PROVE  /\ \A x \in Logs : LET e == [d EXCEPT !.log = x]
                            IN  e \in Dirs /\ e.man = d.man /\ e.owner = d.owner
         /\ \A x \in Diagnoses : LET e == [d EXCEPT !.diag = x]
                                 IN  e \in Dirs /\ e.man = d.man /\ e.owner = d.owner
         /\ \A x \in Receipts : LET e == [d EXCEPT !.receipt = x]
                                IN  /\ e \in Dirs /\ e.man = d.man /\ e.owner = d.owner
                                    /\ e.receipt = x /\ e.log = d.log /\ e.diag = d.diag
BY DEF Dirs

\* Verification and diagnosis.
LEMMA EvidenceStepsRecorded ==
  ASSUME IInv, OneFreshRun, RecordInv, NEW i \in Runs,
         OpenVerifyLog(i) \/ VerifyMap(i) \/ OpenDiagnosis(i) \/ WriteDiagnosis(i)
  PROVE  RecordKept
<1> DEFINE d == Dir(cur[i])
<1>1. Posting(i) /\ pc[i] \in {"verifying", "judging", "diagnosing", "writing"}
  BY DEF OpenVerifyLog, VerifyMap, OpenDiagnosis, WriteDiagnosis, Posting, PostLabels
<1>2. d \in Dirs /\ At(pc[i], cur[i], d, mem[i])
  BY <1>1, PostsAlone
<1>3. mem[i].stage # "complete"
  BY <1>1, <1>2 DEF At
<1>4. UNCHANGED <<mem, cur>>
  BY DEF OpenVerifyLog, VerifyMap, OpenDiagnosis, WriteDiagnosis
<1>5. "torn" \in Logs /\ "torn" \in Diagnoses /\ Judged(d.map) \in Logs /\ Diagnosed(d) \in Diagnoses
  BY <1>2, DirParts DEF Logs, Diagnoses
<1> HIDE DEF d
<1>6. ASSUME NEW e \in Dirs, e.man = d.man, e.owner = d.owner, NEW k,
             \/ pc[i] = "verifying" /\ k = "judging"
             \/ pc[i] \in {"verifying", "judging"} /\ k = "verified"
             \/ pc[i] = "diagnosing" /\ k = "writing"
             \/ pc[i] = "writing" /\ k = "diagnosed"
             \/ k = "failing",
             Goto(i, k), (Dirless /\ e = d) \/ SetDir(cur[i], e)
      PROVE  RecordKept
  <2>1. k \in PostLabels
    BY <1>6 DEF PostLabels
  <2>2. At(k, cur[i], e, mem[i])
    BY <1>1, <1>2, <1>3, <1>6, AtNext DEF AfterRename
  <2>3. QED BY <1>1, <1>4, <1>6, <2>1, <2>2, EvidenceRecorded DEF d
<1>7. CASE OpenVerifyLog(i)
  <2>1. \/ SetDir(cur[i], [d EXCEPT !.log = "torn"]) /\ Goto(i, "judging")
        \/ Dirless /\ Goto(i, "verified")
    BY <1>7 DEF OpenVerifyLog, d
  <2>2. QED BY <1>2, <1>5, <1>6, <1>7, <2>1, EvidenceParts DEF OpenVerifyLog
<1>8. CASE VerifyMap(i)
  <2>1. SetDir(cur[i], [d EXCEPT !.log = Judged(d.map)]) /\ Goto(i, "verified")
    BY <1>8 DEF VerifyMap, d
  <2>2. QED BY <1>2, <1>5, <1>6, <1>8, <2>1, EvidenceParts DEF VerifyMap
<1>9. CASE OpenDiagnosis(i)
  <2>1. \/ SetDir(cur[i], [d EXCEPT !.diag = "torn"]) /\ Goto(i, "writing")
        \/ Dirless /\ Goto(i, "failing")
    BY <1>9 DEF OpenDiagnosis, d
  <2>2. QED BY <1>2, <1>5, <1>6, <1>9, <2>1, EvidenceParts DEF OpenDiagnosis
<1>10. CASE WriteDiagnosis(i)
  <2>1. \/ SetDir(cur[i], [d EXCEPT !.diag = Diagnosed(d)]) /\ Goto(i, "diagnosed")
        \/ Dirless /\ Goto(i, "failing")
    BY <1>10 DEF WriteDiagnosis, d
  <2>2. QED BY <1>2, <1>5, <1>6, <1>10, <2>1, EvidenceParts DEF WriteDiagnosis
<1>11. QED BY <1>7, <1>8, <1>9, <1>10

\* The rename moves the only directory.
LEMMA PublishRecorded ==
  ASSUME IInv, OneFreshRun, RecordInv, NEW i \in Runs, Publish(i)
  PROVE  RecordKept
<1>1. pc[i] = "renaming" /\ Posting(i) /\ cur[i] = "partial"
  BY DEF Publish, Posting, PostLabels, IInv, PublishesPartial
<1>2. /\ Dir(cur[i]) = partial /\ partial \in Dirs /\ partial # NoDir /\ final = NoDir
      /\ At("renaming", "partial", partial, mem[i])
  BY <1>1, PostsAlone
<1>3. mem[i].stage # "complete"
  BY <1>2 DEF At
<1>4. CASE Dirless /\ UNCHANGED cur /\ Goto(i, "failing")
  <2>1. At("failing", cur[i], partial, mem[i])
    BY <1>1, <1>2, <1>3, AtNext
  <2>2. QED BY <1>1, <1>2, <1>4, <2>1, EvidenceRecorded DEF Publish, PostLabels
<1>5. CASE /\ final' = partial /\ partial' = NoDir
           /\ cur' = [cur EXCEPT ![i] = "final"] /\ Goto(i, "published")
  <2>1. Sound("final", mem[i]) /\ partial.man = mem[i]
    BY <1>2 DEF At, Sound
  <2>2. At("published", "final", partial, mem'[i])
    BY <1>2, <1>3, <2>1 DEF Publish, At, Agrees
  <2>3. /\ pc' = [pc EXCEPT ![i] = "published"] /\ code' = code /\ cur'[i] = "final"
        /\ "published" \in PostLabels /\ "final" \in Places
    BY <1>5 DEF Goto, PostLabels, Places, IInv, TypeOK
  <2>4. partial.owner \in Fresh
    BY <1>2 DEF RecordInv, OneOutput
  <2>5. RecordInv' /\ DurableRecord' = View(partial.man)
    BY <1>1, <1>2, <1>5, <2>2, <2>3, <2>4, PostingReached
  <2>6. DurableRecord = View(partial.man)
    BY <1>1, <1>2, PostingRecord
  <2>7. QED BY <2>5, <2>6 DEF RecordKept
<1>6. QED BY <1>4, <1>5 DEF Publish

\* A receipt is the one its directory gives.
LEMMA ReceiptStays ==
  ASSUME NEW d \in Dirs, Readable(d)
  PROVE  LET e == [d EXCEPT !.receipt = ReceiptOf(d)]
         IN  /\ e \in Dirs /\ e.man = d.man /\ e.owner = d.owner
             /\ Readable(e) /\ e.receipt = ReceiptOf(e)
<1> DEFINE r == ReceiptOf(d)
           e == [d EXCEPT !.receipt = r]
<1>1. r \in Receipts
  BY DirParts DEF Readable
<1>2. /\ e \in Dirs /\ e.man = d.man /\ e.owner = d.owner /\ e.receipt = r
      /\ e.log = d.log /\ e.diag = d.diag
  BY <1>1, EvidenceParts
<1> HIDE DEF e
<1>3. ReceiptOf(e) = r
  BY <1>2 DEF ReceiptOf, SumsOf
<1>4. Readable(e)
  BY <1>2 DEF Readable
<1>5. QED BY <1>2, <1>3, <1>4 DEF e

\* Writing the receipt, which may fail.
LEMMA ReceiptRecorded ==
  ASSUME IInv, OneFreshRun, RecordInv, NEW i \in Runs, WriteReceipt(i)
  PROVE  RecordKept
<1> DEFINE d == Dir(cur[i])
           e == [d EXCEPT !.receipt = ReceiptOf(d)]
<1>1. Posting(i) /\ pc[i] = "receipt"
  BY DEF WriteReceipt, Posting, PostLabels
<1>2. d \in Dirs /\ At("receipt", cur[i], d, mem[i])
  BY <1>1, PostsAlone
<1>3. CASE Readable(d) /\ SetDir(cur[i], e) /\ Goto(i, "concluding")
  <2>1. e \in Dirs /\ e.man = d.man /\ e.owner = d.owner /\ Readable(e) /\ e.receipt = ReceiptOf(e)
    BY <1>2, <1>3, ReceiptStays
  <2> HIDE DEF d, e
  <2>2. At("concluding", cur[i], e, mem[i])
    BY <1>2, <2>1 DEF At, AfterRename
  <2>3. QED BY <1>1, <1>3, <2>1, <2>2, EvidenceRecorded DEF WriteReceipt, PostLabels, d
<1>4. CASE Dirless /\ Goto(i, "failing")
  <2>1. At("failing", cur[i], d, mem[i])
    BY <1>2, AtNext
  <2>2. QED BY <1>1, <1>2, <1>4, <2>1, EvidenceRecorded DEF WriteReceipt, PostLabels
<1>5. QED BY <1>3, <1>4 DEF WriteReceipt

\* A record with a status is not the empty receipt.
LEMMA ReceiptIsOne == \A d : ReceiptOf(d) # NoReceipt
<1>1. \A d : DOMAIN ReceiptOf(d) = {"man", "seen", "pass"}
  BY DEF ReceiptOf
<1>2. DOMAIN NoReceipt = {"pass"}
  BY DEF NoReceipt
<1>3. {"man", "seen", "pass"} # {"pass"}
  OBVIOUS
<1>4. QED BY <1>1, <1>2, <1>3

\* Exit status 0 is the verdict of a sealed run with its receipt.
LEMMA ConcludeRecorded ==
  ASSUME IInv, OneFreshRun, RecordInv, NEW i \in Runs, Conclude(i)
  PROVE  RecordKept
<1> DEFINE d == Dir(cur[i])
<1>1. Posting(i) /\ pc[i] = "concluding" /\ Dirless
  BY DEF Conclude, Posting, PostLabels
<1>2. /\ d \in Dirs /\ At("concluding", cur[i], d, mem[i]) /\ mem[i] \in Manifests
      /\ cur[i] = "final" => d = final
      /\ \A j \in Runs \ {i} : ~Posting(j)
      /\ \A j \in Runs : code[j] # Ok
      /\ d # NoDir
  BY <1>1, PostsAlone
<1>3. CASE Goto(i, "failing") /\ UNCHANGED <<mem, cur>>
  <2>1. At("failing", cur[i], d, mem[i])
    BY <1>2, AtNext
  <2>2. QED BY <1>1, <1>2, <1>3, <2>1, EvidenceRecorded DEF PostLabels
<1>4. CASE /\ Exit(i, mem[i].runner)
           /\ ~(mem[i].status = "succeeded" /\ mem[i].verification /\ ~d.receipt.pass)
  <2>1. ZeroInv'
    <3> SUFFICES ASSUME mem[i].runner = Ok PROVE Closed'
      BY <1>2, <1>4 DEF ZeroInv, Exit, IInv, TypeOK
    <3>1. /\ cur[i] = "final" /\ d = final /\ final' = final
          /\ final.man = mem[i] /\ mem[i].stage = "complete" /\ mem[i].finalized
          /\ mem[i].status = "succeeded" /\ Readable(final) /\ final.receipt = ReceiptOf(final)
          /\ final # NoDir /\ final.man # NoManifest
      BY <1>1, <1>2 DEF At, AfterRename, Dirless
    <3>2. \A j \in Runs : pc'[j] \notin PostLabels
      BY <1>2, <1>4 DEF Exit, Leave, IInv, TypeOK, Posting, PostLabels
    <3>3. final.man.verification => Trusted
      <4>1. HasManifest("final")
        BY <3>1 DEF HasManifest, Exists, Dir
      <4>2. mem[i].verification => final.receipt.pass
        BY <3>1, <1>4
      <4>3. QED BY <3>1, <4>1, <4>2, ReceiptIsOne DEF Trusted
    <3>4. (final.man.verification => Trusted)'
      BY <3>1, <3>3 DEF Trusted, HasManifest, Exists, Dir
    <3>5. Sealed("final")'
      BY <3>1 DEF Sealed, HasManifest, Exists, Dir
    <3>6. QED BY <3>1, <3>2, <3>4, <3>5 DEF Closed, Posting
  <2>2. QED BY <1>1, <1>4, <2>1, LeaveRecorded DEF Exit, Dirless
<1>5. QED BY <1>3, <1>4 DEF Conclude

\* The failure handler writes into the only directory.
LEMMA HandlerRecorded ==
  ASSUME IInv, OneFreshRun, RecordInv, NEW i \in Runs, HandleFailure(i)
  PROVE  RecordKept
<1> DEFINE d == Dir(cur[i])
           place == HandlerPlace
           n == [mem[i] EXCEPT !.status = IF @ \in {"failed", "interrupted"} THEN @ ELSE "failed",
                               !.finalized = Exists("final"),
                               !.runner = Broken,
                               !.sums = SumsOf(Dir(place))]
           e == [d EXCEPT !.man = n]
<1>1. Posting(i) /\ pc[i] = "failing"
  BY DEF HandleFailure, Posting, PostLabels
<1>2. /\ cur[i] \in Places /\ d \in Dirs /\ d # NoDir /\ At("failing", cur[i], d, mem[i])
      /\ cur[i] = "partial" => d = partial /\ final = NoDir
      /\ cur[i] = "final" => d = final /\ partial = NoDir
      /\ mem[i] \in Manifests
      /\ \A j \in Runs : code[j] # Ok
  BY <1>1, PostsAlone
<1>3. place = cur[i] /\ Dir(place) = d /\ (Exists("final") <=> cur[i] = "final")
  BY <1>2, RecordedDirs DEF HandlerPlace, Places
<1>4. CASE Exit(i, Broken) /\ Dirless
  <2>1. ZeroInv'
    BY <1>2, <1>4 DEF ZeroInv, Exit, IInv, TypeOK, Broken, Ok
  <2>2. QED BY <1>1, <1>4, <2>1, LeaveRecorded DEF Exit, Dirless
<1>5. CASE /\ mem' = [mem EXCEPT ![i] = n]
           /\ SetDir(place, [Dir(place) EXCEPT !.man = n])
           /\ cur' = [cur EXCEPT ![i] = place]
           /\ Goto(i, "failed")
  <2>a. SumsOf(Dir(place)) \in Sums /\ Exists("final") \in BOOLEAN
    BY <1>2, <1>3, DirParts DEF Exists
  <2>1. /\ n \in Manifests /\ n.exit = mem[i].exit /\ n.runner = Broken
        /\ n.finalized = Exists("final") /\ n.stage = mem[i].stage
        /\ n.status = IF mem[i].status = "interrupted" THEN "interrupted" ELSE "failed"
    <3> HIDE DEF place
    <3>1. QED BY <1>2, <2>a DEF Manifests, Broken, Codes, Statuses
  <2>2. mem'[i] = n
    BY <1>5 DEF IInv, TypeOK
  <2>3. e.man = n /\ e.owner = d.owner /\ e # NoDir /\ n # NoManifest
    BY <1>2, <2>1, RunsAssumption DEF Dirs, NoDir, Manifests, NoManifest
  <2>4. SetDir(cur[i], e)
    BY <1>3, <1>5
  <2> HIDE DEF n, e
  <2>5. Sound(cur[i], n)
    BY <1>2, <1>3, <2>1 DEF At, Sound
  <2>6. At("failed", cur[i], e, n)
    BY <1>2, <2>1, <2>3, <2>5 DEF At, Agrees, AfterRename
  <2>7. /\ cur[i] = "partial" => partial' = e /\ final' = NoDir
        /\ cur[i] = "final" => final' = e /\ partial' = NoDir
    BY <1>2, <2>4 DEF SetDir
  <2>8. /\ pc' = [pc EXCEPT ![i] = "failed"] /\ code' = code /\ cur'[i] = cur[i]
        /\ "failed" \in PostLabels
    BY <1>3, <1>5 DEF Goto, PostLabels, IInv, TypeOK
  <2>9. d.owner \in Fresh
    BY <1>2 DEF RecordInv, OneOutput, Places
  <2> HIDE DEF d
  <2>10. RecordInv' /\ DurableRecord' = View(n)
    <3>1. RecordInv' /\ DurableRecord' = View(e.man)
      BY <1>1, <1>2, <2>2, <2>3, <2>6, <2>7, <2>8, <2>9, PostingReached
    <3>2. QED BY <3>1, <2>3
  <2>11. DurableRecord = View(d.man)
    BY <1>1, PostingRecord DEF d
  <2>12. Evolves(d.man, n)
    <3>1. CASE d.man.exit = NoCode
      <4>1. n.stage # "complete"
        BY <1>2, <2>1, <3>1 DEF At, Agrees
      <4>2. QED BY <3>1, <4>1, <2>5 DEF Evolves, Sound
    <3>2. CASE d.man.exit # NoCode
      <4>1. /\ d.man.exit \in {Ok, Failed, Broken, Interrupted} /\ n.exit = d.man.exit
            /\ n.status = "interrupted" <=> d.man.status = "interrupted"
            /\ d.man.stage = "complete" => n.stage = "complete"
        BY <1>2, <2>1, <3>2 DEF At, Sound, Agrees
      <4>2. n.status = IF n.status = "interrupted" THEN "interrupted" ELSE StatusOf(n.runner)
        BY <2>1 DEF StatusOf, Broken, Ok
      <4>3. QED BY <4>1, <4>2, <2>1 DEF Evolves
    <3>3. QED BY <3>1, <3>2
  <2>13. QED BY <2>10, <2>11, <2>12, EvolvesIsRecorded DEF RecordKept
<1>6. QED BY <1>4, <1>5 DEF HandleFailure

\* Its receipt comes last.
LEMMA HandlerReceiptRecorded ==
  ASSUME IInv, OneFreshRun, RecordInv, NEW i \in Runs, HandlerReceipt(i)
  PROVE  RecordKept
<1> DEFINE d == Dir(cur[i])
           e == [d EXCEPT !.receipt = ReceiptOf(d)]
<1>1. Posting(i) /\ pc[i] = "failed" /\ Exit(i, Broken)
  BY DEF HandlerReceipt, Posting, PostLabels
<1>2. /\ cur[i] \in Places /\ d \in Dirs /\ d # NoDir
      /\ cur[i] = "partial" => d = partial /\ final = NoDir
      /\ cur[i] = "final" => d = final /\ partial = NoDir
      /\ \A j \in Runs : code[j] # Ok
  BY <1>1, PostsAlone
<1>3. ZeroInv'
  BY <1>1, <1>2 DEF ZeroInv, Exit, IInv, TypeOK, Broken, Ok
<1>4. CASE Dirless
  BY <1>1, <1>3, <1>4, LeaveRecorded DEF Exit, Dirless
<1>5. CASE Readable(d) /\ SetDir(cur[i], e)
  <2>1. e \in Dirs /\ e.man = d.man /\ e.owner = d.owner
    BY <1>2, <1>5, ReceiptStays
  <2>2. e # NoDir
    BY <2>1, RunsAssumption DEF Dirs, NoDir
  <2> HIDE DEF e, d
  <2>3. /\ partial' # NoDir <=> partial # NoDir
        /\ final' # NoDir <=> final # NoDir
        /\ partial # NoDir => partial'.owner = partial.owner /\ partial'.man = partial.man
        /\ final # NoDir => final'.owner = final.owner /\ final'.man = final.man
    BY <1>2, <1>5, <2>1, <2>2 DEF SetDir, Places
  <2>4. QED BY <1>1, <1>3, <2>3, LeaveRecorded DEF Exit
<1>6. QED BY <1>4, <1>5 DEF HandlerReceipt

\* Every step of the post-processing is a step of the record.
LEMMA PostRecorded ==
  ASSUME IInv, OneFreshRun, RecordInv, NEW i \in Runs, PostStep(i)
  PROVE  RecordKept
BY WritesRecorded, EvidenceStepsRecorded, PublishRecorded, SealRecorded, ReceiptRecorded,
   ConcludeRecorded, HandlerRecorded, HandlerReceiptRecorded DEF PostStep

-----------------------------------------------------------------------------
\* A run that is over stays over.
LEMMA ClosedStays ==
  ASSUME Closed, final' = final, \A j \in Runs : pc'[j] \notin PostLabels
  PROVE  Closed'
<1>1. Sealed("final")'
  BY DEF Closed, Sealed, HasManifest, Exists, Dir
<1>2. Trusted => Trusted'
  BY DEF Trusted, HasManifest, Exists, Dir
<1>3. QED BY <1>1, <1>2 DEF Closed, Posting

\* A step outside the post-processing that leaves the directories' manifests
\* and their places alone, and after which no process posts that did not before.
LEMMA AsideRecorded ==
  ASSUME IInv, OneFreshRun, RecordInv,
         \A j \in Runs : pc'[j] \in PostLabels =>
            pc'[j] = pc[j] /\ mem'[j] = mem[j] /\ cur'[j] = cur[j],
         \A j \in Runs : pc'[j] \in FreshLabels =>
            \/ pc'[j] = pc[j] /\ mem'[j] = mem[j]
            \/ /\ j \in Fresh
               /\ pc'[j] = "made" => partial'.man = NoManifest
               /\ pc'[j] \in {"launch", "running", "ended"} => partial'.man # NoManifest
               /\ pc'[j] \in {"launch", "running"} => ~mem'[j].finalized
               /\ pc'[j] = "ended" => mem'[j].stage # "complete" /\ Sound("partial", mem'[j]),
         \A j \in Runs : code'[j] = Ok => code[j] = Ok,
         final' = final,
         partial' # NoDir <=> partial # NoDir,
         partial # NoDir => partial'.owner = partial.owner /\ partial'.man = partial.man,
         (\E j \in Runs : Posting(j) /\ cur[j] = "partial") => partial' = partial
  PROVE  RecordKept
<1>1. OneOutput' /\ SoundDirs'
  BY DEF RecordInv, OneOutput, SoundDirs, Rec
<1>2. FreshInv'
  <2>1. ASSUME NEW j \in Runs, pc[j] \in Begun PROVE partial'.man = partial.man
    BY <2>1, BegunAlone
  <2>2. QED BY <2>1 DEF RecordInv, FreshInv, Begun, FreshLabels
<1>3. PostInv'
  <2> SUFFICES ASSUME NEW j \in Runs, pc'[j] \in PostLabels
               PROVE  At(pc'[j], cur'[j], IF cur'[j] = "partial" THEN partial' ELSE final', mem'[j])
    BY DEF PostInv, Posting, Dir
  <2>1. Posting(j)
    BY DEF Posting
  <2>2. At(pc[j], cur[j], Dir(cur[j]), mem[j])
    BY <2>1 DEF RecordInv, PostInv
  <2>3. Dir(cur[j]) = IF cur'[j] = "partial" THEN partial' ELSE final'
    BY <2>1 DEF Dir
  <2>4. QED BY <2>1, <2>2, <2>3
<1>4. ZeroInv'
  BY ClosedStays DEF RecordInv, ZeroInv, Closed, Posting
<1>5. DurableRecord' = DurableRecord
  BY DEF DurableRecord, Durable, HasManifest, Exists, Dir
<1>6. QED BY <1>1, <1>2, <1>3, <1>4, <1>5 DEF RecordKept, RecordInv

\* Leaving without having posted, with a code that is not 0, or by a kill.
LEMMA DepartureRecorded ==
  ASSUME IInv, OneFreshRun, RecordInv, NEW i \in Runs, NEW l \in {"exited", "killed"}, Leave(i, l),
         Dirless, \A j \in Runs : code'[j] = Ok => code[j] = Ok
  PROVE  RecordKept
<1>1. \A j \in Runs : pc'[j] \in PostLabels => pc[j] \in PostLabels
  BY DEF Leave, IInv, TypeOK, PostLabels
<1>2. ZeroInv'
  BY <1>1, ClosedStays DEF RecordInv, ZeroInv, Closed, Posting, Dirless
<1>3. QED BY <1>2, LeaveRecorded DEF Dirless

\* The result of the workflow, before it is recorded.
LEMMA FinishedSound ==
  ASSUME IInv, NEW i \in Runs, mem[i] \in Manifests, ~mem[i].finalized,
         NEW exit, NEW int \in BOOLEAN, Finished(i, exit, int),
         exit \in IF int THEN {Interrupted, Broken} ELSE {Ok, Failed, Broken}
  PROVE  /\ Sound("partial", mem'[i]) /\ mem'[i].stage # "complete"
         /\ \A j \in Runs \ {i} : mem'[j] = mem[j]
<1>1. DEFINE m == [mem[i] EXCEPT !.exit = exit,
                       !.status = IF int THEN "interrupted" ELSE StatusOf(exit),
                       !.stage = "workflow_finished"]
<1>2. /\ m.exit = exit /\ m.stage = "workflow_finished" /\ m.finalized = mem[i].finalized
      /\ m.status = IF int THEN "interrupted" ELSE StatusOf(exit)
  BY DEF Manifests
<1>3. mem' = [mem EXCEPT ![i] = m]
  BY DEF Finished, IInv, TypeOK
<1> HIDE DEF m
<1>4. Sound("partial", m) /\ m.stage # "complete"
  BY <1>2 DEF Sound, Resumable, StatusOf
<1>5. QED BY <1>3, <1>4 DEF IInv, TypeOK

\* The steps of a fresh run up to the launch.
LEMMA PreparationRecorded ==
  ASSUME IInv, OneFreshRun, RecordInv, NEW i \in Runs,
         ValidateOutput(i) \/ MakeWorkingDir(i) \/ WriteRunning(i) \/ LaunchWorkflow(i)
  PROVE  RecordKept
<1> USE RunsAssumption
<1>1. CASE ValidateOutput(i)
  <2>1. CASE Exit(i, Unsafe)
    <3>1. \A j \in Runs : code'[j] = Ok => code[j] = Ok
      BY <2>1 DEF Exit, IInv, TypeOK, Unsafe, Ok
    <3>2. QED BY <1>1, <2>1, <3>1, DepartureRecorded DEF ValidateOutput, Exit
  <2>2. CASE Goto(i, "validated") /\ UNCHANGED <<mem, cur, workflow>>
    <3>1. \A j \in Runs : pc'[j] = pc[j] \/ (j \in Fresh /\ pc'[j] = "validated")
      BY <1>1, <2>2 DEF ValidateOutput, Goto, IInv, TypeOK
    <3>2. QED
      BY <1>1, <2>2, <3>1, AsideRecorded DEF ValidateOutput, Goto, Dirless, PostLabels
  <2>3. QED BY <1>1, <2>1, <2>2 DEF ValidateOutput
<1>2. CASE MakeWorkingDir(i)
  <2>1. CASE Exit(i, Unsafe) /\ Dirless
    <3>1. \A j \in Runs : code'[j] = Ok => code[j] = Ok
      BY <2>1 DEF Exit, IInv, TypeOK, Unsafe, Ok
    <3>2. QED BY <2>1, <3>1, DepartureRecorded DEF Exit
  <2> DEFINE e == [owner |-> i, map |-> "none", log |-> "none", diag |-> "none",
                   man |-> NoManifest, receipt |-> NoReceipt]
  <2>2. CASE SetDir("partial", e) /\ Goto(i, "made") /\ UNCHANGED <<mem, cur, workflow>>
    <3>1. i \in Fresh
      BY <1>2 DEF MakeWorkingDir, RecordInv, FreshInv, FreshLabels
    <3>2. /\ partial = NoDir /\ final = NoDir
          /\ \A j \in Runs : ~Posting(j)
          /\ \A j \in Runs : code[j] # Ok
      BY <1>2, <3>1, NothingYet DEF MakeWorkingDir
    <3>3. partial' = e /\ final' = NoDir /\ e.man = NoManifest /\ e.owner = i
      BY <2>2, <3>2 DEF SetDir
    <3>4. \A j \in Runs : pc'[j] = IF j = i THEN "made" ELSE pc[j]
      BY <2>2 DEF Goto, IInv, TypeOK
    <3>5. \A j \in Runs : pc[j] \notin Begun
      BY <3>2, BegunAlone
    <3> HIDE DEF e
    <3>6. OneOutput' /\ SoundDirs'
      BY <3>1, <3>3 DEF OneOutput, SoundDirs, Rec
    <3>7. FreshInv'
      BY <3>1, <3>3, <3>4, <3>5 DEF RecordInv, FreshInv, Begun, FreshLabels
    <3>8. PostInv' /\ ZeroInv'
      BY <2>2, <3>2, <3>4 DEF PostInv, ZeroInv, Posting, PostLabels, Goto
    <3>9. DurableRecord' = DurableRecord
      BY <3>2, <3>3 DEF DurableRecord, Durable, HasManifest, Exists, Dir
    <3>10. QED BY <3>6, <3>7, <3>8, <3>9 DEF RecordKept, RecordInv
  <2>3. QED BY <1>2, <2>1, <2>2 DEF MakeWorkingDir
<1>3. CASE WriteRunning(i)
  <2>1. /\ pc[i] = "made" /\ i \in Fresh /\ partial.man = NoManifest
        /\ partial \in Dirs /\ partial # NoDir /\ partial.owner = i /\ final = NoDir
        /\ \A j \in Runs : ~Posting(j)
        /\ \A j \in Runs : code[j] # Ok
    BY <1>3, BegunAlone DEF WriteRunning, Begun, RecordInv, FreshInv, FreshLabels
  <2>a. \A j \in Runs \ {i} : pc[j] \notin FreshLabels
    BY <2>1 DEF RecordInv, FreshInv, OneFreshRun
  <2>2. CASE SetDir("partial", NoDir) /\ Exit(i, Unsafe)
    <3>1. partial' = NoDir /\ final' = NoDir
      BY <2>1, <2>2 DEF SetDir
    <3>2. \A j \in Runs : pc'[j] = IF j = i THEN "exited" ELSE pc[j]
      BY <2>2 DEF Exit, Leave, IInv, TypeOK
    <3>3. OneOutput' /\ SoundDirs'
      BY <3>1 DEF OneOutput, SoundDirs, Rec
    <3>4. FreshInv'
      BY <2>a, <3>2 DEF FreshInv, FreshLabels
    <3>5. \A j \in Runs : code'[j] # Ok
      BY <2>1, <2>2 DEF Exit, IInv, TypeOK, Unsafe, Ok
    <3>6. PostInv' /\ ZeroInv'
      BY <2>1, <3>2, <3>5 DEF PostInv, ZeroInv, Posting, PostLabels
    <3>7. DurableRecord' = DurableRecord
      BY <2>1, <3>1 DEF DurableRecord, Durable, HasManifest, Exists, Dir
    <3>8. QED BY <3>3, <3>4, <3>6, <3>7 DEF RecordKept, RecordInv
  <2>3. ASSUME NEW v \in BOOLEAN,
               LET m == [run |-> i, stage |-> "workflow_running", status |-> "running",
                         exit |-> NoCode, runner |-> NoCode, verification |-> v,
                         finalized |-> FALSE, sums |-> NoSums]
               IN  /\ mem' = [mem EXCEPT ![i] = m]
                   /\ SetDir("partial", [partial EXCEPT !.man = m])
                   /\ Goto(i, "launch")
        PROVE  RecordKept
    <3> DEFINE m == [run |-> i, stage |-> "workflow_running", status |-> "running",
                     exit |-> NoCode, runner |-> NoCode, verification |-> v,
                     finalized |-> FALSE, sums |-> NoSums]
    <3>1. m # NoManifest /\ m.exit = NoCode /\ ~m.finalized /\ m.run = i
      BY DEF NoManifest
    <3>2. /\ mem' = [mem EXCEPT ![i] = m]
          /\ partial' = [partial EXCEPT !.man = m] /\ final' = NoDir
          /\ Goto(i, "launch")
      BY <2>1, <2>3 DEF SetDir
    <3> HIDE DEF m
    <3>3. partial'.man = m /\ partial'.owner = i /\ partial' # NoDir
      BY <2>1, <3>2 DEF Dirs, NoDir
    <3>4. \A j \in Runs : pc'[j] = IF j = i THEN "launch" ELSE pc[j]
      BY <3>2 DEF Goto, IInv, TypeOK
    <3>5. mem'[i] = m /\ \A j \in Runs : code'[j] # Ok
      BY <2>1, <3>2 DEF IInv, TypeOK, Goto
    <3>6. OneOutput' /\ SoundDirs'
      BY <2>1, <3>1, <3>2, <3>3 DEF OneOutput, SoundDirs, Rec
    <3>7. FreshInv'
      BY <2>1, <2>a, <3>1, <3>3, <3>4, <3>5 DEF FreshInv, FreshLabels
    <3>8. PostInv' /\ ZeroInv'
      BY <2>1, <3>4, <3>5 DEF PostInv, ZeroInv, Posting, PostLabels
    <3>9. Record!OpenRecord
      <4>1. DurableRecord = [phase |-> "absent"]
        BY <2>1 DEF DurableRecord, Durable, HasManifest, Exists, Dir
      <4>2. DurableRecord' = [phase |-> "open"]
        BY <3>1, <3>2, <3>3 DEF DurableRecord, Durable, HasManifest, Exists, Dir
      <4>3. QED BY <4>1, <4>2 DEF Record!OpenRecord, Record!Absent, Record!Open
    <3>10. QED BY <3>6, <3>7, <3>8, <3>9 DEF RecordKept, RecordInv, Record!Next
  <2>4. QED BY <1>3, <2>2, <2>3 DEF WriteRunning
<1>4. CASE LaunchWorkflow(i)
  <2>1. pc[i] = "launch" /\ i \in Fresh /\ partial.man # NoManifest /\ ~mem[i].finalized
    BY <1>4 DEF LaunchWorkflow, RecordInv, FreshInv, FreshLabels
  <2>2. \A j \in Runs : pc'[j] = IF j = i THEN "running" ELSE pc[j]
    BY <1>4 DEF LaunchWorkflow, Goto, IInv, TypeOK
  <2>3. QED
    BY <1>4, <2>1, <2>2, AsideRecorded DEF LaunchWorkflow, Goto, Dirless, PostLabels
<1>5. QED BY <1>1, <1>2, <1>3, <1>4

\* The end of the workflow, in whatever way.
LEMMA EndingRecorded ==
  ASSUME IInv, OneFreshRun, RecordInv, NEW i \in Runs,
         ReapWorkflow(i) \/ InterruptWorkflow(i) \/ LaunchFails(i)
  PROVE  RecordKept
<1>1. pc[i] \in {"launch", "running"} /\ Goto(i, "ended")
  BY DEF ReapWorkflow, InterruptWorkflow, LaunchFails
<1>2. /\ i \in Fresh /\ partial.man # NoManifest /\ ~mem[i].finalized
      /\ mem[i] \in Manifests
  BY <1>1 DEF RecordInv, FreshInv, FreshLabels, IInv, MemHeld, Holding
<1>3. /\ partial \in Dirs /\ partial # NoDir /\ final = NoDir
      /\ \A j \in Runs : ~Posting(j)
  BY <1>1, BegunAlone DEF Begun
<1>4. \E exit, int : /\ int \in BOOLEAN /\ Finished(i, exit, int)
                     /\ exit \in IF int THEN {Interrupted, Broken} ELSE {Ok, Failed, Broken}
  BY DEF ReapWorkflow, InterruptWorkflow, LaunchFails
<1>5. /\ Sound("partial", mem'[i]) /\ mem'[i].stage # "complete"
      /\ \A j \in Runs \ {i} : mem'[j] = mem[j]
  BY <1>2, <1>4, FinishedSound
<1>6. final' = final /\ partial' # NoDir /\ partial'.owner = partial.owner /\ partial'.man = partial.man
  <2>1. CASE Dirless
    BY <1>3, <2>1 DEF Dirless
  <2>2. ASSUME NEW map, NEW log, SetDir("partial", Leaves(partial, map, log))
        PROVE  final' = final /\ partial' # NoDir /\ partial'.owner = partial.owner
               /\ partial'.man = partial.man
    <3>1. partial' = Leaves(partial, map, log) /\ final' = final
      BY <2>2 DEF SetDir
    <3>2. QED BY <1>3, <3>1, RunsAssumption DEF Leaves, Dirs, NoDir
  <2>3. QED BY <2>1, <2>2 DEF ReapWorkflow, InterruptWorkflow, LaunchFails
<1>7. \A j \in Runs : pc'[j] = IF j = i THEN "ended" ELSE pc[j]
  BY <1>1 DEF Goto, IInv, TypeOK
<1>8. QED
  BY <1>1, <1>2, <1>3, <1>5, <1>6, <1>7, AsideRecorded DEF Goto, Posting, PostLabels

\* A workflow that ends on its own changes the map and the log it leaves.
LEMMA WorkflowEndRecorded ==
  ASSUME IInv, OneFreshRun, RecordInv, NEW i \in Runs, WorkflowEnds(i)
  PROVE  RecordKept
<1>1. UNCHANGED <<lock, pc, mem, cur, code>> /\ workflow[i] = "alive"
  BY DEF WorkflowEnds
<1>2. CASE Dirless
  BY <1>1, <1>2, AsideRecorded DEF Dirless
<1>3. ASSUME NEW map, NEW log, SetDir("partial", Leaves(partial, map, log)),
             Exists("partial"), partial.owner = i
      PROVE  RecordKept
  <2>1. partial \in Dirs /\ partial # NoDir
    BY <1>3 DEF IInv, TypeOK, Exists, Dir
  <2>2. partial' = Leaves(partial, map, log) /\ final' = final
    BY <1>3 DEF SetDir
  <2>3. partial' # NoDir /\ partial'.owner = partial.owner /\ partial'.man = partial.man
    BY <2>1, <2>2, RunsAssumption DEF Leaves, Dirs, NoDir
  <2>4. ~\E j \in Runs : Posting(j) /\ cur[j] = "partial"
    BY <1>1, <1>3 DEF IInv, PostsQuietDir, Dir
  <2>5. QED BY <1>1, <2>1, <2>2, <2>3, <2>4, AsideRecorded
<1>4. QED BY <1>2, <1>3 DEF WorkflowEnds

\* The lock opens the post-processing of the run's own directory.
LEMMA LockRecorded ==
  ASSUME IInv, OneFreshRun, RecordInv, NEW i \in Runs, LockFinishedRun(i)
  PROVE  RecordKept
<1>1. CASE Exit(i, Broken)
  <2>1. \A j \in Runs : code'[j] = Ok => code[j] = Ok
    BY <1>1 DEF Exit, IInv, TypeOK, Broken, Ok
  <2>2. QED BY <1>1, <2>1, DepartureRecorded DEF LockFinishedRun, Exit
<1>2. CASE /\ pc' = [pc EXCEPT ![i] = "post"] /\ cur' = [cur EXCEPT ![i] = "partial"]
           /\ UNCHANGED <<mem, code, workflow>>
  <2>1. /\ pc[i] = "ended" /\ i \in Fresh /\ partial.man # NoManifest
        /\ mem[i].stage # "complete" /\ Sound("partial", mem[i])
    BY DEF LockFinishedRun, RecordInv, FreshInv, FreshLabels
  <2>2. /\ partial # NoDir /\ partial.owner = i /\ final = NoDir /\ ~Rec(partial)
        /\ \A j \in Runs : ~Posting(j)
        /\ \A j \in Runs : code[j] # Ok
    BY <2>1, BegunAlone DEF Begun
  <2>3. \A j \in Runs \ {i} : pc[j] \notin PostLabels \cup FreshLabels
    BY <2>1, <2>2 DEF RecordInv, FreshInv, OneFreshRun, Posting
  <2>4. At("post", "partial", partial, mem'[i])
    BY <1>2, <2>1, <2>2 DEF At, Agrees, Rec, AfterRename
  <2>5. /\ cur'[i] = "partial" /\ "post" \in PostLabels /\ "partial" \in Places
        /\ partial' = partial /\ final' = NoDir
    BY <1>2, <2>2 DEF IInv, TypeOK, PostLabels, Places, LockFinishedRun, Dirless
  <2>6. RecordInv' /\ DurableRecord' = View(partial.man)
    BY <1>2, <2>1, <2>2, <2>3, <2>4, <2>5, PlaceReached
  <2>7. DurableRecord = View(partial.man)
    BY <2>1, <2>2, ViewOfOne
  <2>8. QED BY <2>6, <2>7 DEF RecordKept
<1>3. QED BY <1>1, <1>2 DEF LockFinishedRun

\* So does an accepted resume, of the directory that is there.
LEMMA AcceptRecorded ==
  ASSUME IInv, OneFreshRun, RecordInv, NEW i \in Runs, AcceptResume(i)
  PROVE  RecordKept
<1>1. PICK place \in Places, v \in BOOLEAN :
          /\ ResumeAccepted(place, v)
          /\ LET m == Dir(place).man
             IN  mem' = [mem EXCEPT ![i] =
                          [m EXCEPT !.status = IF m.status = "interrupted" THEN "interrupted"
                                               ELSE StatusOf(m.exit)]]
          /\ cur' = [cur EXCEPT ![i] = place]
  BY DEF AcceptResume
<1> DEFINE d == Dir(place)
           n == [d.man EXCEPT !.status = IF d.man.status = "interrupted" THEN "interrupted"
                                         ELSE StatusOf(d.man.exit)]
<1>2. pc[i] = "resuming" /\ Goto(i, "post") /\ Dirless
  BY DEF AcceptResume
<1>3. /\ d # NoDir /\ d.man # NoManifest /\ d.man.exit # NoCode /\ d.man.stage \in Resumable
      /\ d \in Dirs /\ d.man \in Manifests
      /\ place = "partial" => d = partial /\ final = NoDir
      /\ place = "final" => d = final /\ partial = NoDir
      /\ Rec(d)
  BY <1>1, DirType, RecordedDirs DEF ResumeAccepted, HasManifest, Exists, IInv, Places, Rec
<1>4. Sound(place, d.man) /\ d.owner \in Fresh
  BY <1>3 DEF RecordInv, SoundDirs, OneOutput, Places
<1>5. mem'[i] = n /\ cur'[i] = place /\ pc' = [pc EXCEPT ![i] = "post"] /\ code' = code
  BY <1>1, <1>2 DEF IInv, TypeOK, Goto
<1>6. \A j \in Runs \ {i} : pc[j] \notin PostLabels \cup FreshLabels
  <2>1. \A j \in Runs \ {i} : pc[j] \notin PostLabels
    BY <1>2 DEF IInv, LockHeld
  <2>2. \A j \in Runs : pc[j] \notin Begun
    BY <1>3, BegunAlone DEF Places
  <2>3. \A j \in Runs : pc[j] # "validated"
    BY <1>3, NothingYet DEF RecordInv, FreshInv, FreshLabels, Places
  <2>4. QED BY <2>1, <2>2, <2>3 DEF Begun, FreshLabels
<1>7. \A j \in Runs : code[j] # Ok
  <2>1. ASSUME Closed PROVE FALSE
    <3>1. final # NoDir /\ final.man.stage = "complete"
      BY <2>1 DEF Closed, Sealed, HasManifest, Exists, Dir
    <3>2. QED BY <1>3, <3>1 DEF Places, Resumable
  <2>2. QED BY <2>1 DEF RecordInv, ZeroInv
<1>8. /\ n.exit = d.man.exit /\ n.stage = d.man.stage /\ n.finalized = d.man.finalized
      /\ n.status = "interrupted" <=> d.man.status = "interrupted"
  BY <1>3 DEF Manifests, StatusOf
<1> HIDE DEF n, d
<1>9. At("post", place, d, n)
  <2>1. Sound(place, n) /\ n.stage # "complete"
    BY <1>3, <1>4, <1>8 DEF Sound, Resumable
  <2>2. QED BY <1>3, <1>4, <1>8, <2>1 DEF At, Agrees, AfterRename
<1>10. /\ place = "partial" => partial' = d /\ final' = NoDir
       /\ place = "final" => final' = d /\ partial' = NoDir
       /\ "post" \in PostLabels
  BY <1>2, <1>3 DEF Dirless, PostLabels
<1>11. RecordInv' /\ DurableRecord' = View(d.man)
  BY <1>3, <1>4, <1>5, <1>6, <1>7, <1>9, <1>10, PlaceReached
<1>12. DurableRecord = View(d.man)
  BY <1>3, ViewOfOne DEF Places
<1>13. QED BY <1>11, <1>12 DEF RecordKept

\* The other steps of a resume, and a kill anywhere.
LEMMA OthersRecorded ==
  ASSUME IInv, OneFreshRun, RecordInv, NEW i \in Runs, LockResume(i) \/ RefuseResume(i) \/ Kill(i)
  PROVE  RecordKept
<1>1. CASE Leave(i, "killed") /\ code' = code /\ Dirless
  BY <1>1, DepartureRecorded
<1>2. ASSUME NEW c \in {Unsafe, Broken}, Exit(i, c), Dirless PROVE RecordKept
  <2>1. \A j \in Runs : code'[j] = Ok => code[j] = Ok
    BY <1>2 DEF Exit, IInv, TypeOK, Broken, Unsafe, Ok
  <2>2. QED BY <1>2, <2>1, DepartureRecorded DEF Exit
<1>3. CASE pc' = [pc EXCEPT ![i] = "resuming"] /\ UNCHANGED <<mem, cur, code>> /\ Dirless
  <2>1. \A j \in Runs : pc'[j] = pc[j] \/ pc'[j] = "resuming"
    BY <1>3 DEF IInv, TypeOK
  <2>2. QED BY <1>3, <2>1, AsideRecorded DEF Dirless, PostLabels, FreshLabels
<1>4. QED BY <1>1, <1>2, <1>3 DEF LockResume, RefuseResume, Kill

\* Every step of the runner, of its handler and of a resume.
LEMMA StepRecorded ==
  ASSUME IInv, OneFreshRun, RecordInv, [Next]_vars
  PROVE  RecordKept
<1>1. CASE UNCHANGED vars
  <2>1. DurableRecord' = DurableRecord
    BY <1>1 DEF vars, DurableRecord, Durable, HasManifest, Exists, Dir
  <2>2. OneOutput' /\ FreshInv' /\ SoundDirs' /\ PostInv'
    BY <1>1 DEF vars, RecordInv, OneOutput, FreshInv, SoundDirs, Rec, PostInv, Posting, Dir
  <2>3. ZeroInv'
    BY <1>1, ClosedStays DEF vars, RecordInv, ZeroInv, Closed, Posting
  <2>4. QED BY <2>1, <2>2, <2>3 DEF RecordKept, RecordInv
<1>2. ASSUME NEW i \in Runs,
             FreshStep(i) \/ ResumeStep(i) \/ PostStep(i) \/ WorkflowEnds(i) \/ Kill(i)
      PROVE  RecordKept
  BY <1>2, PreparationRecorded, EndingRecorded, LockRecorded, AcceptRecorded, OthersRecorded,
     PostRecorded, WorkflowEndRecorded DEF FreshStep, ResumeStep
<1>3. QED BY <1>1, <1>2 DEF Next

\* It holds at first, when nothing is there.
LEMMA RecordInit == Init => RecordInv /\ Record!Init
<1> SUFFICES ASSUME Init PROVE RecordInv /\ Record!Init
  OBVIOUS
<1>1. OneOutput /\ SoundDirs
  BY DEF Init, OneOutput, SoundDirs, Rec
<1>2. FreshInv /\ PostInv /\ ZeroInv
  BY DEF Init, FreshInv, FreshLabels, PostInv, Posting, PostLabels, ZeroInv, NoCode, Ok
<1>3. DurableRecord = [phase |-> "absent"]
  BY DEF Init, DurableRecord, Durable, HasManifest, Exists, Dir
<1>4. QED BY <1>1, <1>2, <1>3 DEF RecordInv, Record!Init, Record!Absent

(* One directory, its manifest, the process at work on it and an exit      *)
(* status that was given, in every reachable state.                        *)
THEOREM RecordHolds ==
  ASSUME OneFreshRun
  PROVE  Spec => [](IInv /\ RecordInv)
<1>1. Init => IInv /\ RecordInv
  BY InvariantInit, RecordInit
<1>2. IInv /\ RecordInv /\ [Next]_vars => IInv' /\ RecordInv'
  BY InvariantStep, StepRecorded DEF RecordKept
<1>3. QED BY <1>1, <1>2, PTL DEF Spec

(* Whatever the runner, its failure handler and any number of resumes do,  *)
(* and wherever they are killed, the manifest under the output name goes   *)
(* through the life of one RunRecord: opened once, its result recorded     *)
(* once, sealed with a verdict that result allows, at most revoked.        *)
THEOREM RunRecordImplemented ==
  ASSUME OneFreshRun
  PROVE  Spec => ImplementsRunRecord
<1>1. Init => Record!Init
  BY RecordInit
<1>2. IInv /\ RecordInv /\ [Next]_vars => [Record!Next]_DurableRecord
  BY StepRecorded DEF RecordKept
<1>3. QED BY <1>1, <1>2, RecordHolds, PTL DEF Spec, ImplementsRunRecord, Record!Spec

(* Exit status 0 was given for a published, sealed and successful run, and *)
(* with verification on for one whose receipt a reader accepts; nothing    *)
(* that happens afterwards takes that away.                                *)
THEOREM ZeroSealed ==
  ASSUME OneFreshRun
  PROVE  Spec => []ZeroExitIsSealed
<1>1. IInv /\ RecordInv => ZeroExitIsSealed
  BY DEF RecordInv, ZeroInv, Closed, ZeroExitIsSealed
<1>2. QED BY <1>1, RecordHolds, PTL

(* A run whose result is recorded is sealed or can be resumed, wherever    *)
(* its post-processing stopped; only an interruption whose reserve failed  *)
(* as well cannot.                                                         *)
THEOREM RecordedRecoverable ==
  ASSUME OneFreshRun
  PROVE  Spec => []RecordedRunIsRecoverable
<1>1. IInv /\ RecordInv => RecordedRunIsRecoverable
  <2> SUFFICES ASSUME IInv, RecordInv, NEW p \in Places, Recorded(p)
               PROVE  \/ Sealed(p) /\ p = "final"
                      \/ ResumeAccepted(p, Dir(p).man.verification)
                      \/ Dir(p).man.status = "interrupted" /\ Dir(p).man.exit = Broken
    BY DEF RecordedRunIsRecoverable
  <2>1. /\ HasManifest(p) /\ Dir(p).man.exit # NoCode
        /\ \A q \in Places \ {p} : ~Exists(q)
    BY RecordedDirs DEF Recorded, HasManifest, RecordInv, OneOutput, Places, Exists
  <2>2. Sound(p, Dir(p).man)
    BY RecordedDirs DEF RecordInv, SoundDirs, Places
  <2>3. CASE Dir(p).man.stage = "complete"
    BY <2>1, <2>2, <2>3 DEF Sealed, Sound
  <2>4. CASE Dir(p).man.stage # "complete"
    BY <2>1, <2>2, <2>4 DEF Sound, ResumeAccepted
  <2>5. QED BY <2>3, <2>4
<1>2. QED BY <1>1, RecordHolds, PTL
=============================================================================

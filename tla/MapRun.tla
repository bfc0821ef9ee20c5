------------------------------- MODULE MapRun -------------------------------
(***************************************************************************)
(* The life of one map run: scripts/run_autoware_map_from_bag.py.          *)
(*                                                                         *)
(* A fresh invocation makes <output>.partial, writes run_manifest.json     *)
(* into it, runs the mapping workflow in a process group of its own, and   *)
(* post-processes the result under an advisory lock: it verifies the map,  *)
(* renames <output>.partial to <output>, diagnoses, checksums, and seals   *)
(* the manifest with a validation receipt.  An invocation with --resume    *)
(* repeats only the post-processing of a run that stopped after its        *)
(* workflow ended.  Every file system step may fail, every process may be  *)
(* killed between two steps, and the invocations run concurrently on the   *)
(* same output name.  The directories are the durable state; mem, cur and  *)
(* the program counters die with their process.                            *)
(***************************************************************************)
EXTENDS Naturals, FiniteSets

CONSTANTS
    Runs,       \* the invocations, each started at most once
    Fresh,      \* those without --resume
    Faults,     \* the operations that may fail in this instance
    NoRun       \* the lock's owner when it is free

FaultKinds == {"kill", "manifest", "launch", "rename", "diagnosis", "receipt", "reserve"}

ASSUME RunsAssumption ==
    /\ Fresh \subseteq Runs
    /\ Faults \subseteq FaultKinds
    /\ NoRun \notin Runs

VARIABLES
    partial,    \* <output>.partial
    final,      \* <output>
    lock,       \* the holder of .<output>.postprocess.lock
    pc,         \* where each invocation is
    mem,        \* the manifest each invocation holds in memory
    cur,        \* the directory it post-processes
    code,       \* its exit code
    workflow    \* its workflow's process group

vars == <<partial, final, lock, pc, mem, cur, code, workflow>>

(***************************************************************************)
(* Manifests, directories, receipts.                                       *)
(***************************************************************************)
\* 0, a failure of the workflow, an interruption (128 + signal), and the
\* runner's own failure.
Ok == 0
Failed == 1
Unsafe == 2
Broken == 70
Interrupted == 130
NoCode == 255
Codes == {Ok, Failed, Unsafe, Broken, Interrupted, NoCode}

\* _build_manifest starts at "initialized"; no manifest is written before
\* the stage is "workflow_running".
Resumable == {"workflow_finished", "verifying", "verified", "finalizing", "finalized",
              "diagnosing", "diagnosed", "checksumming"}
Stages == {"workflow_running", "complete"} \cup Resumable
Statuses == {"running", "succeeded", "failed", "interrupted"}
Maps == {"none", "good", "bad"}
Logs == {"none", "torn", "PASS", "FAIL"}
Diagnoses == {"none", "torn", "success", "verify_failed", "map_saved", "incomplete",
              "runtime_failed"}

NoManifest == [run |-> NoRun]
NoSums == [log |-> "none", diag |-> "none"]
Sums == [log : Logs, diag : Diagnoses]
Manifests == [run : Runs, stage : Stages, status : Statuses, exit : Codes, runner : Codes,
              verification : BOOLEAN, finalized : BOOLEAN, sums : Sums]

\* A receipt names the manifest and the evidence it was derived from by digest.
NoReceipt == [pass |-> FALSE]
Receipts == [pass : BOOLEAN, man : Manifests, seen : Sums]

NoDir == [owner |-> NoRun]
Dirs == [owner : Runs, map : Maps, log : Logs, diag : Diagnoses,
         man : Manifests \cup {NoManifest}, receipt : Receipts \cup {NoReceipt}]

Places == {"partial", "final"}
Dir(place) == IF place = "partial" THEN partial ELSE final
Exists(place) == Dir(place) # NoDir
HasManifest(place) == Exists(place) /\ Dir(place).man # NoManifest

\* _artifact_checksums binds the files beside the manifest as they are.
SumsOf(d) == [log |-> d.log, diag |-> d.diag]

\* Mutation: a map that is there passes.
JudgedByPresence(map) == IF map = "none" THEN "FAIL" ELSE "PASS"

\* verify_autoware_map.py judges the map that is there.
Judged(map) == IF map = "good" THEN "PASS" ELSE "FAIL"

\* diagnose_autoware_map_run.summarize_run
Diagnosed(d) ==
    IF d.man # NoManifest /\ d.man.status \in {"failed", "interrupted"} THEN "runtime_failed"
    ELSE IF d.map # "none" /\ d.log = "PASS" THEN "success"
    ELSE IF d.log = "FAIL" THEN "verify_failed"
    ELSE IF d.map # "none" THEN "map_saved"
    ELSE "incomplete"

\* first_map_validation_receipt.build_receipt
ReceiptOf(d) ==
    [man |-> d.man,
     seen |-> SumsOf(d),
     pass |-> /\ d.man.status = "succeeded"
              /\ d.man.stage = "complete"
              /\ d.man.runner = Ok
              /\ d.diag = "success"
              /\ d.log = "PASS"
              /\ d.man.sums = SumsOf(d)]

\* It refuses a diagnosis it cannot read.
Readable(d) == d.man # NoManifest /\ d.diag # "torn"

StatusOf(exit) == IF exit = Ok THEN "succeeded" ELSE "failed"

-----------------------------------------------------------------------------
(***************************************************************************)
(* What the readers of a directory conclude.                               *)
(***************************************************************************)
\* _validate_resume_state up to the identities, for the one directory there is.
ResumeAccepted(place, verification) ==
    /\ HasManifest(place)
    /\ \A other \in Places \ {place} : ~Exists(other)
    /\ Dir(place).man.stage \in Resumable
    /\ Dir(place).man.exit # NoCode
    /\ Dir(place).man.verification = verification
    /\ ~(place = "partial" /\ Dir(place).man.finalized)
    /\ Dir(place).man.status = "interrupted" => Dir(place).man.exit = Interrupted

\* first_map_demo._verified_output: the receipt is the one the evidence gives.
Trusted ==
    /\ HasManifest("final")
    /\ final.receipt # NoReceipt
    /\ Readable(final)
    /\ final.receipt = ReceiptOf(final)
    /\ final.receipt.pass
    /\ final.man.finalized

-----------------------------------------------------------------------------
Init ==
    /\ partial = NoDir
    /\ final = NoDir
    /\ lock = NoRun
    /\ pc = [i \in Runs |-> "idle"]
    /\ mem = [i \in Runs |-> NoManifest]
    /\ cur = [i \in Runs |-> "partial"]
    /\ code = [i \in Runs |-> NoCode]
    /\ workflow = [i \in Runs |-> "none"]

\* The process ends: its memory is gone and its lock file closes.
Leave(i, label) ==
    /\ pc' = [pc EXCEPT ![i] = label]
    /\ mem' = [mem EXCEPT ![i] = NoManifest]
    /\ cur' = [cur EXCEPT ![i] = "partial"]
    /\ lock' = IF lock = i THEN NoRun ELSE lock
    /\ UNCHANGED workflow

Exit(i, c) == Leave(i, "exited") /\ code' = [code EXCEPT ![i] = c]

Goto(i, label) ==
    /\ pc' = [pc EXCEPT ![i] = label]
    /\ UNCHANGED <<lock, code>>

SetDir(place, d) ==
    /\ partial' = IF place = "partial" THEN d ELSE partial
    /\ final' = IF place = "final" THEN d ELSE final

Dirless == UNCHANGED <<partial, final>>

(***************************************************************************)
(* A fresh invocation.                                                     *)
(***************************************************************************)
ValidateOutput(i) ==
    /\ pc[i] = "idle"
    /\ i \in Fresh
    /\ \/ /\ ~Exists("final") /\ ~Exists("partial")
          /\ Goto(i, "validated")
          /\ UNCHANGED <<mem, cur, workflow>>
       \/ Exit(i, Unsafe)
    /\ Dirless

\* mkdir(exist_ok=False): the name decides, nothing else is locked.
MakeWorkingDir(i) ==
    /\ pc[i] = "validated"
    /\ \/ /\ ~Exists("partial")
          /\ SetDir("partial", [owner |-> i, map |-> "none", log |-> "none", diag |-> "none",
                                man |-> NoManifest, receipt |-> NoReceipt])
          /\ Goto(i, "made")
          /\ UNCHANGED <<mem, cur, workflow>>
       \/ /\ Exists("partial")
          /\ Exit(i, Unsafe)
          /\ Dirless

\* The reserve and the first manifest; the plan's verification mode is pinned.
WriteRunning(i) ==
    /\ pc[i] = "made"
    /\ Exists("partial")
    /\ \/ \E v \in BOOLEAN :
            LET m == [run |-> i, stage |-> "workflow_running", status |-> "running",
                      exit |-> NoCode, runner |-> NoCode, verification |-> v,
                      finalized |-> FALSE, sums |-> NoSums]
            IN  /\ mem' = [mem EXCEPT ![i] = m]
                /\ SetDir("partial", [partial EXCEPT !.man = m])
                /\ Goto(i, "launch")
                /\ UNCHANGED <<cur, workflow>>
       \/ /\ "manifest" \in Faults
          /\ SetDir("partial", NoDir)
          /\ Exit(i, Unsafe)

LaunchWorkflow(i) ==
    /\ pc[i] = "launch"
    /\ workflow' = [workflow EXCEPT ![i] = "alive"]
    /\ Goto(i, "running")
    /\ Dirless
    /\ UNCHANGED <<mem, cur>>

\* What a workflow leaves behind; some profiles verify on their own.
Leaves(d, map, log) == [d EXCEPT !.map = map, !.log = log]
Outcome(map, log) == log = "none" \/ (map # "none" /\ log = Judged(map))

\* The group ends by itself, or outlives its killed runner and ends later.
WorkflowEnds(i) ==
    /\ workflow[i] = "alive"
    /\ workflow' = [workflow EXCEPT ![i] = "gone"]
    /\ \E map \in Maps, log \in Logs :
          /\ Outcome(map, log)
          /\ IF Exists("partial") /\ partial.owner = i
             THEN SetDir("partial", Leaves(partial, map, log)) ELSE Dirless
    /\ UNCHANGED <<lock, pc, mem, cur, code>>

\* The result is held in memory until the first post-processing write.
Finished(i, exit, interrupted) ==
    mem' = [mem EXCEPT ![i].exit = exit,
                       ![i].status = IF interrupted THEN "interrupted" ELSE StatusOf(exit),
                       ![i].stage = "workflow_finished"]

ReapWorkflow(i) ==
    /\ pc[i] = "running"
    /\ workflow[i] = "gone"
    /\ \/ \E exit \in {Ok, Failed} : Finished(i, exit, FALSE)
       \/ "reserve" \in Faults /\ Finished(i, Broken, FALSE)
    /\ Goto(i, "ended")
    /\ Dirless
    /\ UNCHANGED <<cur, workflow>>

\* SIGINT or SIGTERM: the group is signalled, killed after the grace and reaped.
InterruptWorkflow(i) ==
    /\ pc[i] = "running"
    /\ workflow[i] = "alive"
    /\ workflow' = [workflow EXCEPT ![i] = "gone"]
    /\ \E map \in Maps, log \in Logs :
          Outcome(map, log) /\ SetDir("partial", Leaves(partial, map, log))
    /\ \/ Finished(i, Interrupted, TRUE)
       \/ "reserve" \in Faults /\ Finished(i, Broken, TRUE)
    /\ Goto(i, "ended")
    /\ UNCHANGED cur

\* Popen raises OSError: exit code 70 is the workflow's result.
LaunchFails(i) ==
    /\ "launch" \in Faults
    /\ pc[i] = "launch"
    /\ Finished(i, Broken, FALSE)
    /\ Goto(i, "ended")
    /\ Dirless
    /\ UNCHANGED <<cur, workflow>>

\* _postprocess_with_lock: a busy lock ends the run with its result unwritten.
LockFinishedRun(i) ==
    /\ pc[i] = "ended"
    /\ \/ /\ lock = NoRun
          /\ lock' = i
          /\ pc' = [pc EXCEPT ![i] = "post"]
          /\ cur' = [cur EXCEPT ![i] = "partial"]
          /\ UNCHANGED <<mem, code, workflow>>
       \/ lock # NoRun /\ Exit(i, Broken)
    /\ Dirless

(***************************************************************************)
(* An invocation with --resume.                                            *)
(***************************************************************************)
\* Mutation: the lock is not tried.
LockResumeAnyway(i) ==
    /\ pc[i] = "idle"
    /\ i \in Runs \ Fresh
    /\ lock' = i
    /\ pc' = [pc EXCEPT ![i] = "resuming"]
    /\ UNCHANGED <<mem, cur, code, workflow>>
    /\ Dirless

LockResume(i) ==
    /\ pc[i] = "idle"
    /\ i \in Runs \ Fresh
    /\ \/ /\ lock = NoRun
          /\ lock' = i
          /\ pc' = [pc EXCEPT ![i] = "resuming"]
          /\ UNCHANGED <<mem, cur, code, workflow>>
       \/ lock # NoRun /\ Exit(i, Broken)
    /\ Dirless

\* Mutation: an interruption is forgotten.
AcceptResumeByExit(i) ==
    /\ pc[i] = "resuming"
    /\ \E place \in Places, v \in BOOLEAN :
          /\ ResumeAccepted(place, v)
          /\ mem' = [mem EXCEPT ![i] = [Dir(place).man EXCEPT !.status = StatusOf(Dir(place).man.exit)]]
          /\ cur' = [cur EXCEPT ![i] = place]
    /\ Goto(i, "post")
    /\ Dirless
    /\ UNCHANGED workflow

\* The manifest is taken over with its status recomputed from the exit code.
AcceptResume(i) ==
    /\ pc[i] = "resuming"
    /\ \E place \in Places, v \in BOOLEAN :
          /\ ResumeAccepted(place, v)
          /\ LET m == Dir(place).man
             IN  mem' = [mem EXCEPT ![i] =
                          [m EXCEPT !.status = IF m.status = "interrupted" THEN "interrupted"
                                               ELSE StatusOf(m.exit)]]
          /\ cur' = [cur EXCEPT ![i] = place]
    /\ Goto(i, "post")
    /\ Dirless
    /\ UNCHANGED workflow

\* Refused for its state, its verification mode or an identity that changed.
RefuseResume(i) ==
    /\ pc[i] = "resuming"
    /\ Exit(i, Unsafe)
    /\ Dirless

(***************************************************************************)
(* Post-processing (_postprocess_run).  A stage is set in memory, then     *)
(* written; a failed write goes to the handler with the new stage.         *)
(***************************************************************************)
Write(i, m, label) ==
    /\ mem' = [mem EXCEPT ![i] = m]
    /\ \/ /\ Exists(cur[i])
          /\ SetDir(cur[i], [Dir(cur[i]) EXCEPT !.man = m])
          /\ Goto(i, label)
       \/ /\ "manifest" \in Faults \/ ~Exists(cur[i])
          /\ Dirless
          /\ Goto(i, "failing")
    /\ UNCHANGED <<cur, workflow>>

Mark(i, at, stage, label) ==
    /\ pc[i] = at
    /\ Write(i, [mem[i] EXCEPT !.stage = stage], label)

RecordResult(i) == pc[i] = "post" /\ Write(i, mem[i], "recorded")
MarkVerifying(i) == Mark(i, "recorded", "verifying", "verifying")

\* maybe_verify_map truncates the log, then the verifier fills it.
OpenVerifyLog(i) ==
    /\ pc[i] = "verifying"
    /\ Exists(cur[i])
    /\ IF mem[i].verification /\ Dir(cur[i]).map # "none"
       THEN SetDir(cur[i], [Dir(cur[i]) EXCEPT !.log = "torn"]) /\ Goto(i, "judging")
       ELSE Dirless /\ Goto(i, "verified")
    /\ UNCHANGED <<mem, cur, workflow>>

VerifyMap(i) ==
    /\ pc[i] = "judging"
    /\ Exists(cur[i])
    /\ SetDir(cur[i], [Dir(cur[i]) EXCEPT !.log = Judged(Dir(cur[i]).map)])
    /\ Goto(i, "verified")
    /\ UNCHANGED <<mem, cur, workflow>>

MarkVerified(i) ==
    Mark(i, "verified", "verified", IF cur[i] = "partial" THEN "publishing" ELSE "published")
MarkFinalizing(i) == Mark(i, "publishing", "finalizing", "renaming")

\* _finalize_output: refuse a collision, then one atomic rename.
Publish(i) ==
    /\ pc[i] = "renaming"
    /\ \/ /\ ~Exists("final") /\ Exists("partial")
          /\ final' = partial
          /\ partial' = NoDir
          /\ cur' = [cur EXCEPT ![i] = "final"]
          /\ Goto(i, "published")
       \/ /\ Exists("final") \/ "rename" \in Faults
          /\ Dirless
          /\ UNCHANGED cur
          /\ Goto(i, "failing")
    /\ UNCHANGED <<mem, workflow>>

\* Mutation: finalized is set by the run that renames.
MarkFinalizedHere(i) ==
    /\ pc[i] = "published"
    /\ Write(i, [mem[i] EXCEPT !.finalized = (mem[i].stage = "finalizing"),
                               !.stage = "finalized"], "finalized")

MarkFinalized(i) ==
    /\ pc[i] = "published"
    /\ Write(i, [mem[i] EXCEPT !.stage = "finalized", !.finalized = TRUE], "finalized")
MarkDiagnosing(i) == Mark(i, "finalized", "diagnosing", "diagnosing")

\* write_diagnostics: two plain writes; a kill between leaves a torn file.
OpenDiagnosis(i) ==
    /\ pc[i] = "diagnosing"
    /\ \/ /\ Exists(cur[i])
          /\ SetDir(cur[i], [Dir(cur[i]) EXCEPT !.diag = "torn"])
          /\ Goto(i, "writing")
       \/ /\ "diagnosis" \in Faults
          /\ Dirless
          /\ Goto(i, "failing")
    /\ UNCHANGED <<mem, cur, workflow>>

WriteDiagnosis(i) ==
    /\ pc[i] = "writing"
    /\ \/ /\ Exists(cur[i])
          /\ SetDir(cur[i], [Dir(cur[i]) EXCEPT !.diag = Diagnosed(Dir(cur[i]))])
          /\ Goto(i, "diagnosed")
       \/ /\ "diagnosis" \in Faults
          /\ Dirless
          /\ Goto(i, "failing")
    /\ UNCHANGED <<mem, cur, workflow>>

MarkDiagnosed(i) == Mark(i, "diagnosed", "diagnosed", "deciding")

\* Mutation: the workflow's exit code yields to the diagnosis.
VerdictOfDiagnosis(i) ==
    IF mem[i].verification /\ Dir(cur[i]).diag # "success" THEN Failed
    ELSE mem[i].exit

\* The run's own verdict: interrupted, the workflow's failure, or the diagnosis.
Verdict(i) ==
    IF mem[i].status = "interrupted" \/ mem[i].exit # Ok THEN mem[i].exit
    ELSE IF mem[i].verification /\ Dir(cur[i]).diag # "success" THEN Failed
    ELSE Ok

MarkChecksumming(i) ==
    /\ pc[i] = "deciding"
    /\ Exists(cur[i])
    /\ Write(i, [mem[i] EXCEPT !.stage = "checksumming",
                               !.status = IF @ = "interrupted" THEN @
                                          ELSE StatusOf(Verdict(i))], "sealing")

Seal(i) ==
    /\ pc[i] = "sealing"
    /\ Exists(cur[i])
    /\ Write(i, [mem[i] EXCEPT !.stage = "complete", !.runner = Verdict(i),
                               !.sums = SumsOf(Dir(cur[i]))], "receipt")

\* Mutation: a receipt that is there is kept.
WriteReceiptOnce(i) ==
    /\ pc[i] = "receipt"
    /\ \/ /\ Exists(cur[i]) /\ Readable(Dir(cur[i]))
          /\ IF Dir(cur[i]).receipt = NoReceipt
             THEN SetDir(cur[i], [Dir(cur[i]) EXCEPT !.receipt = ReceiptOf(Dir(cur[i]))])
             ELSE Dirless
          /\ Goto(i, "concluding")
       \/ /\ "receipt" \in Faults \/ ~Readable(Dir(cur[i]))
          /\ Dirless
          /\ Goto(i, "failing")
    /\ UNCHANGED <<mem, cur, workflow>>

\* The JSON receipt replaces the old one; the Markdown beside it may still fail.
WriteReceipt(i) ==
    /\ pc[i] = "receipt"
    /\ \/ /\ Exists(cur[i]) /\ Readable(Dir(cur[i]))
          /\ SetDir(cur[i], [Dir(cur[i]) EXCEPT !.receipt = ReceiptOf(Dir(cur[i]))])
          /\ Goto(i, "concluding")
       \/ /\ "receipt" \in Faults \/ ~Readable(Dir(cur[i]))
          /\ Dirless
          /\ Goto(i, "failing")
    /\ UNCHANGED <<mem, cur, workflow>>

Conclude(i) ==
    /\ pc[i] = "concluding"
    /\ Exists(cur[i])
    /\ Dirless
    /\ LET refused == /\ mem[i].status = "succeeded"
                      /\ mem[i].verification
                      /\ ~Dir(cur[i]).receipt.pass
       IN  \/ ~refused /\ Exit(i, mem[i].runner)
           \/ /\ refused \/ "receipt" \in Faults
              /\ Goto(i, "failing")
              /\ UNCHANGED <<mem, cur, workflow>>

(***************************************************************************)
(* The handler of _postprocess_run: it keeps what evidence it can and      *)
(* writes into <output> whenever that exists.                              *)
(***************************************************************************)
HandlerPlace == IF Exists("final") THEN "final" ELSE "partial"

\* Mutation: the handler takes the directory for the published one.
HandleFailureAsFinal(i) ==
    /\ pc[i] = "failing"
    /\ LET place == HandlerPlace
           m == [mem[i] EXCEPT !.status = IF @ \in {"failed", "interrupted"} THEN @ ELSE "failed",
                               !.finalized = TRUE,
                               !.runner = Broken,
                               !.sums = SumsOf(Dir(place))]
       IN  \/ /\ Exists(place)
              /\ mem' = [mem EXCEPT ![i] = m]
              /\ SetDir(place, [Dir(place) EXCEPT !.man = m])
              /\ cur' = [cur EXCEPT ![i] = place]
              /\ Goto(i, "failed")
              /\ UNCHANGED workflow
           \/ /\ ~Exists(place) \/ "manifest" \in Faults
              /\ Exit(i, Broken)
              /\ Dirless

HandleFailure(i) ==
    /\ pc[i] = "failing"
    /\ LET place == HandlerPlace
           m == [mem[i] EXCEPT !.status = IF @ \in {"failed", "interrupted"} THEN @ ELSE "failed",
                               !.finalized = Exists("final"),
                               !.runner = Broken,
                               !.sums = SumsOf(Dir(place))]
       IN  \/ /\ Exists(place)
              /\ mem' = [mem EXCEPT ![i] = m]
              /\ SetDir(place, [Dir(place) EXCEPT !.man = m])
              /\ cur' = [cur EXCEPT ![i] = place]
              /\ Goto(i, "failed")
              /\ UNCHANGED workflow
           \/ /\ ~Exists(place) \/ "manifest" \in Faults
              /\ Exit(i, Broken)
              /\ Dirless

HandlerReceipt(i) ==
    /\ pc[i] = "failed"
    /\ \/ /\ Exists(cur[i]) /\ Readable(Dir(cur[i]))
          /\ SetDir(cur[i], [Dir(cur[i]) EXCEPT !.receipt = ReceiptOf(Dir(cur[i]))])
       \/ /\ "receipt" \in Faults \/ ~Readable(Dir(cur[i]))
          /\ Dirless
    /\ Exit(i, Broken)

(***************************************************************************)
(* A kill, a power cut, or a signal outside _run_workflow.                 *)
(***************************************************************************)
Kill(i) ==
    /\ "kill" \in Faults
    /\ pc[i] \notin {"idle", "exited", "killed"}
    /\ Leave(i, "killed")
    /\ Dirless
    /\ UNCHANGED code

FreshStep(i) ==
    \/ ValidateOutput(i) \/ MakeWorkingDir(i) \/ WriteRunning(i) \/ LaunchWorkflow(i)
    \/ LaunchFails(i) \/ ReapWorkflow(i) \/ InterruptWorkflow(i) \/ LockFinishedRun(i)

ResumeStep(i) == LockResume(i) \/ AcceptResume(i) \/ RefuseResume(i)

PostStep(i) ==
    \/ RecordResult(i) \/ MarkVerifying(i) \/ OpenVerifyLog(i) \/ VerifyMap(i)
    \/ MarkVerified(i) \/ MarkFinalizing(i) \/ Publish(i) \/ MarkFinalized(i)
    \/ MarkDiagnosing(i) \/ OpenDiagnosis(i) \/ WriteDiagnosis(i) \/ MarkDiagnosed(i)
    \/ MarkChecksumming(i) \/ Seal(i) \/ WriteReceipt(i) \/ Conclude(i)
    \/ HandleFailure(i) \/ HandlerReceipt(i)

Next ==
    \E i \in Runs :
        FreshStep(i) \/ ResumeStep(i) \/ PostStep(i) \/ WorkflowEnds(i) \/ Kill(i)

\* A live process goes on running; nobody has to start, signal or kill one.
Fairness ==
    \A i \in Runs :
        /\ WF_vars(PostStep(i))
        /\ WF_vars(pc[i] # "idle" /\ (FreshStep(i) \/ ResumeStep(i)))
        /\ WF_vars(WorkflowEnds(i))

Spec == Init /\ [][Next]_vars
FairSpec == Spec /\ Fairness

-----------------------------------------------------------------------------
(***************************************************************************)
(* Properties.                                                             *)
(***************************************************************************)
PostLabels == {"post", "recorded", "verifying", "judging", "verified", "publishing", "renaming",
               "published", "finalized", "diagnosing", "writing", "diagnosed", "deciding",
               "sealing", "receipt", "concluding", "failing", "failed"}
FreshLabels == {"validated", "made", "launch", "running", "ended"}
Labels == {"idle", "resuming", "exited", "killed"} \cup FreshLabels \cup PostLabels

Posting(i) == pc[i] \in PostLabels
Sealed(place) == HasManifest(place) /\ Dir(place).man.stage = "complete"
Recorded(place) == HasManifest(place) /\ Dir(place).man.exit # NoCode

TypeOK ==
    /\ partial \in Dirs \cup {NoDir}
    /\ final \in Dirs \cup {NoDir}
    /\ lock \in Runs \cup {NoRun}
    /\ pc \in [Runs -> Labels]
    /\ mem \in [Runs -> Manifests \cup {NoManifest}]
    /\ cur \in [Runs -> Places]
    /\ code \in [Runs -> Codes]
    /\ workflow \in [Runs -> {"none", "alive", "gone"}]

\* "Starting post-processing could corrupt evidence": at most one invocation
\* post-processes the output, and never while a workflow that may outlive its
\* killed runner still writes into the directory being judged.
EvidenceHasOneWriter ==
    \A i \in Runs : Posting(i) =>
        /\ \A j \in Runs : Posting(j) => i = j
        /\ \A j \in Runs : workflow[j] = "alive" => Dir(cur[i]).owner # j

\* The workflow's result, once durable, is never rewritten by a resume, a
\* handler or a late writer: whatever manifest is put down for that run repeats
\* it, and an interruption is never turned into a success.
ResultIsKept ==
    [][\A p, q \in Places :
          LET old == Dir(p).man
              new == Dir(q)'.man
          IN  (/\ Recorded(p) /\ HasManifest(q)'
               /\ HasManifest(q) => new # Dir(q).man
               /\ old.run = new.run)
              => /\ new.exit = old.exit
                 /\ new.verification = old.verification
                 /\ old.status = "interrupted" => new.status = "interrupted"]_vars

\* A directory the demo reuses as verified holds a map that was judged good
\* after its workflow succeeded: no torn, stale or foreign evidence passes.
TrustedMapIsVerified ==
    Trusted => /\ final.man.exit = Ok
               /\ final.map = "good"
               /\ final.log = "PASS"
               /\ \A i \in Runs : workflow[i] = "alive" => final.owner # i

\* Exit status 0 is only ever reported for a sealed, published run, and with
\* verification on only for one whose receipt a reader accepts, also later.
ZeroExitIsSealed ==
    \A i \in Runs : code[i] = Ok =>
        /\ Sealed("final")
        /\ final.man.status = "succeeded"
        /\ final.man.runner = Ok
        /\ final.man.finalized
        /\ final.man.verification => Trusted

\* Wherever post-processing stopped, there is one directory and it can be
\* resumed or is complete: no failed write or kill leaves it in between.  The
\* one exception is an interruption whose disk reserve failed with it.
RecordedRunIsRecoverable ==
    \A p \in Places :
        Recorded(p) /\ (\A i \in Runs : ~Posting(i)) =>
            \/ Sealed(p) /\ p = "final"
            \/ ResumeAccepted(p, Dir(p).man.verification)
            \/ Dir(p).man.status = "interrupted" /\ Dir(p).man.exit = Broken

\* A resume the runner accepted seals the run with its receipt, from every
\* stage a kill or a failure can leave behind, unless it is killed itself or
\* reports that it could not.
AcceptedResumeCompletes ==
    \A i \in Runs \ Fresh :
        pc[i] = "post" ~>
            \/ Sealed("final") /\ Readable(final) /\ final.receipt = ReceiptOf(final)
            \/ pc[i] = "killed"
            \/ pc[i] = "exited" /\ code[i] = Broken

-----------------------------------------------------------------------------
(***************************************************************************)
(* The manifest a reader finds under the output name, as a RunRecord.      *)
(***************************************************************************)
Durable == IF HasManifest("final") THEN final.man
           ELSE IF HasManifest("partial") THEN partial.man ELSE NoManifest

DurableRecord ==
    LET m == Durable
        interrupted == m.status = "interrupted"
    IN  IF m = NoManifest THEN [phase |-> "absent"]
        ELSE IF m.exit = NoCode THEN [phase |-> "open"]
        ELSE IF m.stage # "complete"
             THEN [phase |-> "result", exit |-> m.exit, interrupted |-> interrupted]
        ELSE [phase |-> "sealed", exit |-> m.exit, interrupted |-> interrupted,
              verdict |-> m.runner, status |-> m.status]

Record == INSTANCE RunRecord WITH
    record <- DurableRecord, Exits <- {Ok, Failed, Broken, Interrupted},
    Unverified <- Failed

\* Every step of the runner, of its failure handler and of a resume is a step
\* of the record or leaves it alone.
ImplementsRunRecord == Record!Spec
=============================================================================

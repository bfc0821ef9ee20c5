--------------------------- MODULE SessionHandoff ---------------------------
(***************************************************************************)
(* What a person watching a map session is told:                           *)
(* scripts/sensor_setup_wizard.py.                                         *)
(*                                                                         *)
(* The helper keeps session.json, the one status of the session, and the   *)
(* page session.html derived from it.  A monitor thread mirrors the        *)
(* lifecycle stage the runner writes into run_manifest.json, first in      *)
(* <output>.partial and after its rename in <output>; the main thread      *)
(* writes the first and the last word.  Each file is replaced atomically,  *)
(* the two of them are not, any write may fail, and the runner never       *)
(* waits for either thread.                                                *)
(***************************************************************************)
EXTENDS Naturals, Sequences

CONSTANTS
    Faults,     \* the writes that may fail, and "interrupt"
    Viewer      \* --viewer browser

ASSUME FaultsAssumption ==
    /\ Faults \subseteq {"json", "html", "recovery", "interrupt"}
    /\ Viewer \in BOOLEAN

VARIABLES
    stage,      \* the stage in the manifest of each place, or "none"
    runner,     \* "off", "running", "ok" or "failed"
    main,       \* where the helper's main thread is
    mon,        \* where its monitor thread is
    seen,       \* the stage the monitor is about to report
    last,       \* its last_stage
    stop,       \* progress_stop
    json,       \* session.json
    html,       \* session.html
    recovery,   \* whether map_session_recovery.json is there
    missed      \* history: the monitor's latest report could not be written

vars == <<stage, runner, main, mon, seen, last, stop, json, html, recovery, missed>>
writer == <<json, html, recovery, missed>>
monitor == <<mon, seen, last>>

\* The stages the runner writes, between the two of the helper's own.
Lifecycle == <<"workflow_running", "workflow_finished", "verifying", "verified", "finalizing",
               "finalized", "diagnosing", "diagnosed", "checksumming", "complete">>
Rank == [none |-> 0, preparing |-> 1, workflow_running |-> 2, workflow_finished |-> 3,
         verifying |-> 4, verified |-> 5, finalizing |-> 6, finalized |-> 7, diagnosing |-> 8,
         diagnosed |-> 9, checksumming |-> 10, preparing_preview |-> 11, complete |-> 12]
Stages == DOMAIN Rank

NoIndex == [status |-> "none", stage |-> "none", receipt |-> FALSE]
Running(s) == [status |-> "running", stage |-> s, receipt |-> FALSE]
Closed == {"finished", "action_required"}

Init ==
    /\ stage = [place \in {"partial", "final"} |-> "none"]
    /\ runner = "off"
    /\ main = "opening"
    /\ mon = "off" /\ seen = "none" /\ last = "preparing"
    /\ stop = FALSE
    /\ json = NoIndex /\ html = NoIndex
    /\ recovery = FALSE
    /\ missed = FALSE

-----------------------------------------------------------------------------
(***************************************************************************)
(* The runner, as far as its manifest shows it.                            *)
(***************************************************************************)
Begin ==
    /\ stage = [place \in {"partial", "final"} |-> "none"]
    /\ stage' = [stage EXCEPT !["partial"] = "workflow_running"]

Advance ==
    \E place \in {"partial", "final"}, k \in 1..Len(Lifecycle) - 1 :
        /\ stage[place] = Lifecycle[k]
        /\ place = "partial" <=> k < 5
        /\ stage' = [stage EXCEPT ![place] = Lifecycle[k + 1]]

\* The rename takes the manifest with it.
Rename ==
    /\ stage["partial"] = "finalizing"
    /\ stage' = [partial |-> "none", final |-> "finalizing"]

RunnerWorks ==
    /\ runner = "running"
    /\ Begin \/ Advance \/ Rename
    /\ UNCHANGED <<runner, main, stop, monitor, writer>>

\* It may end without success anywhere, also before it has a directory.
RunnerEnds ==
    /\ runner = "running"
    /\ \/ runner' = "failed"
       \/ stage["final"] = "complete" /\ runner' = "ok"
    /\ UNCHANGED <<stage, main, stop, monitor, writer>>

-----------------------------------------------------------------------------
(***************************************************************************)
(* The two files.  The index comes first; without it there is no page.     *)
(***************************************************************************)
WriteIndex(index, written, failed) ==
    \/ json' = index /\ written
    \/ "json" \in Faults /\ json' = json /\ failed

WritePage == html' = json \/ ("html" \in Faults /\ html' = html)

(***************************************************************************)
(* The monitor thread (_monitor_session_progress).                         *)
(***************************************************************************)
\* An unchanged stage is not reported; the last word is not the monitor's.
Reports(s) ==
    IF s = last THEN mon' = "waiting" /\ UNCHANGED <<seen, last>>
    ELSE IF s = "complete" THEN mon' = "waiting" /\ last' = s /\ UNCHANGED seen
    ELSE mon' = "writing" /\ seen' = s /\ UNCHANGED last

\* _observed_session_progress reads the working directory first, so that the
\* rename between its two reads cannot hide the manifest from both.
ReadPartial ==
    /\ mon = "waiting"
    /\ ~stop
    /\ IF stage["partial"] # "none" THEN Reports(stage["partial"])
       ELSE mon' = "reading" /\ UNCHANGED <<seen, last>>
    /\ UNCHANGED <<stage, runner, main, stop, writer>>

\* Mutation: the published manifest is not looked for.
ReadFinalNowhere ==
    /\ mon = "reading"
    /\ Reports("preparing")
    /\ UNCHANGED <<stage, runner, main, stop, writer>>

ReadFinal ==
    /\ mon = "reading"
    /\ Reports(IF stage["final"] # "none" THEN stage["final"] ELSE "preparing")
    /\ UNCHANGED <<stage, runner, main, stop, writer>>

\* A stage whose write failed is not tried again.
MirrorIndex ==
    /\ mon = "writing"
    /\ WriteIndex(Running(seen),
                  mon' = "paging" /\ missed' = FALSE /\ UNCHANGED last,
                  mon' = "waiting" /\ missed' = TRUE /\ last' = seen)
    /\ UNCHANGED <<stage, runner, main, stop, seen, html, recovery>>

\* Mutation: a page that cannot be written ends the thread.
MirrorPageOrDie ==
    /\ mon = "paging"
    /\ \/ html' = json /\ mon' = "waiting"
       \/ "html" \in Faults /\ html' = html /\ mon' = "ended"
    /\ last' = seen
    /\ UNCHANGED <<stage, runner, main, stop, seen, json, recovery, missed>>

MirrorPage ==
    /\ mon = "paging"
    /\ WritePage
    /\ mon' = "waiting"
    /\ last' = seen
    /\ UNCHANGED <<stage, runner, main, stop, seen, json, recovery, missed>>

MonitorEnds ==
    /\ mon = "waiting"
    /\ stop
    /\ mon' = "ended"
    /\ UNCHANGED <<stage, runner, main, stop, seen, last, writer>>

-----------------------------------------------------------------------------
(***************************************************************************)
(* The main thread (_run_session).                                         *)
(***************************************************************************)
At(here, there) == main = here /\ main' = there

Open ==
    /\ main = "opening"
    /\ WriteIndex(Running("preparing"), main' = "presenting", main' = "delegating")
    /\ UNCHANGED <<stage, runner, stop, monitor, html, recovery, missed>>

Present ==
    /\ At("presenting", "delegating")
    /\ WritePage
    /\ UNCHANGED <<stage, runner, stop, monitor, json, recovery, missed>>

\* The monitor is started, then the runner.
Delegate ==
    /\ At("delegating", "waiting")
    /\ mon' = "waiting"
    /\ runner' = "running"
    /\ UNCHANGED <<stage, stop, seen, last, writer>>

StopMonitor ==
    /\ At("waiting", "joining")
    /\ runner \in {"ok", "failed"}
    /\ stop' = TRUE
    /\ UNCHANGED <<stage, runner, monitor, writer>>

Outcome == IF runner = "failed" THEN "recovering" ELSE IF Viewer THEN "previewing" ELSE "closing"

\* Mutation: the monitor is stopped and not joined.
DoNotJoinMonitor ==
    /\ At("joining", Outcome)
    /\ UNCHANGED <<stage, runner, stop, monitor, writer>>

JoinMonitor ==
    /\ At("joining", Outcome)
    /\ mon = "ended"
    /\ UNCHANGED <<stage, runner, stop, monitor, writer>>

\* _write_session_recovery
WriteRecovery ==
    /\ At("recovering", "closing")
    /\ recovery' = TRUE \/ ("recovery" \in Faults /\ UNCHANGED recovery)
    /\ UNCHANGED <<stage, runner, stop, monitor, json, html, missed>>

Preview ==
    /\ main = "previewing"
    /\ WriteIndex(Running("preparing_preview"), main' = "showing", main' = "viewing")
    /\ UNCHANGED <<stage, runner, stop, monitor, html, recovery, missed>>

ShowPreview ==
    /\ At("showing", "viewing")
    /\ WritePage
    /\ UNCHANGED <<stage, runner, stop, monitor, json, recovery, missed>>

\* The viewer's result is reported and does not touch the index.
View ==
    /\ At("viewing", "closing")
    /\ UNCHANGED <<stage, runner, stop, monitor, writer>>

\* _retained_run_dir and the stage of its manifest.
Retained ==
    IF stage["final"] # "none" THEN stage["final"]
    ELSE IF stage["partial"] # "none" THEN stage["partial"] ELSE "preparing"

\* Mutation: the receipt is named without a look at the file.
LastWordWithReceipt ==
    IF runner = "ok" THEN [status |-> "finished", stage |-> "complete", receipt |-> FALSE]
    ELSE [status |-> "action_required", stage |-> Retained, receipt |-> TRUE]

\* _session_index_payload: the terminal index.
LastWord ==
    IF runner = "ok" THEN [status |-> "finished", stage |-> "complete", receipt |-> FALSE]
    ELSE [status |-> "action_required", stage |-> Retained, receipt |-> recovery]

Close ==
    /\ main = "closing"
    /\ WriteIndex(LastWord, main' = "signing", main' = "done")
    /\ UNCHANGED <<stage, runner, stop, monitor, html, recovery, missed>>

Sign ==
    /\ At("signing", "done")
    /\ WritePage
    /\ UNCHANGED <<stage, runner, stop, monitor, json, recovery, missed>>

\* Outside the delegated wait nothing turns Ctrl-C into a handoff, and the
\* monitor is a daemon thread.
Interrupt ==
    /\ "interrupt" \in Faults
    /\ main \notin {"waiting", "done", "gone"}
    /\ main' = "gone"
    /\ mon' = "ended"
    /\ UNCHANGED <<stage, runner, stop, seen, last, writer>>

Monitor == ReadPartial \/ ReadFinal \/ MirrorIndex \/ MirrorPage \/ MonitorEnds
Main ==
    \/ Open \/ Present \/ Delegate \/ StopMonitor \/ JoinMonitor
    \/ WriteRecovery \/ Preview \/ ShowPreview \/ View \/ Close \/ Sign

Next == RunnerWorks \/ RunnerEnds \/ Monitor \/ Main \/ Interrupt

\* Both threads run; the runner may stay in a stage for as long as it likes.
Spec == Init /\ [][Next]_vars
FairSpec == Spec /\ WF_vars(Monitor) /\ WF_vars(Main)

-----------------------------------------------------------------------------
(***************************************************************************)
(* Properties.                                                             *)
(***************************************************************************)
Indexes == [status : {"none", "running"} \cup Closed, stage : Stages, receipt : BOOLEAN]
MainLabels == {"opening", "presenting", "delegating", "waiting", "joining", "recovering",
               "previewing", "showing", "viewing", "closing", "signing", "done", "gone"}

TypeOK ==
    /\ stage \in [{"partial", "final"} -> Stages]
    /\ runner \in {"off", "running", "ok", "failed"}
    /\ main \in MainLabels
    /\ mon \in {"off", "waiting", "reading", "writing", "paging", "ended"}
    /\ seen \in Stages /\ last \in Stages
    /\ stop \in BOOLEAN
    /\ json \in Indexes /\ html \in Indexes
    /\ recovery \in BOOLEAN
    /\ missed \in BOOLEAN

\* Nobody who reloads the index sees the session fall back to an earlier
\* stage, whatever the rename, a failed write or the hand-over of the file from
\* the monitor to the main thread do in between.
ProgressNeverGoesBack ==
    [][Rank[json'.stage] >= Rank[json.stage]]_vars

\* The last word stays: no late report of the monitor puts a finished or
\* failed session back to "running".
LastWordStays ==
    [][json.status \in Closed => json' = json]_vars

\* "Advances only from the atomic run-manifest lifecycle": the index never
\* claims more than the runner has made durable, finished included.
IndexClaimsNothingEarly ==
    /\ json.status = "running" => Rank[json.stage] <= Rank[Retained]
    /\ json.status = "finished" => runner = "ok" /\ stage["final"] = "complete"
    /\ json.receipt => recovery

\* Whoever waits long enough is shown the stage the runner is in, unless the
\* report of it could not be written.
StageIsShown ==
    \A s \in Stages \ {"none", "preparing", "preparing_preview", "complete"} :
        (<>[](Retained = s /\ runner = "running")) => <>[](json.stage = s \/ missed)
=============================================================================

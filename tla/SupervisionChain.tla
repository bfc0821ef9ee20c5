-------------------------- MODULE SupervisionChain --------------------------
(***************************************************************************)
(* Stopping a map session.  The product runs a map through a chain of      *)
(* processes, each waiting for the next:                                   *)
(*                                                                         *)
(*   cli       scripts/lidarslam_cli.py, the command the operator typed    *)
(*   session   scripts/sensor_setup_wizard.py, the `start` helper          *)
(*   inner     the lidarslam_cli.py the helper runs                        *)
(*   runner    scripts/run_autoware_map_from_bag.py                        *)
(*   script    the workflow, scripts/run_rko_lio_graph_autoware_dogfood.sh *)
(*   launch    the `ros2 launch` it starts with setsid                     *)
(*                                                                         *)
(* A stop request reaches some of them as a signal and is handed down from *)
(* process group to process group, each level with a grace of its own, a   *)
(* second signal when the grace is over, and SIGKILL at the end.  Time     *)
(* advances in ticks of five seconds; whatever a process does at once      *)
(* happens between two ticks.                                              *)
(***************************************************************************)
EXTENDS Integers, Sequences, FiniteSets

CONSTANTS
    Chain,      \* the supervisors of this command, outermost first
    Reached,    \* the processes a stop request is delivered to
    Requests,   \* how many stop requests there may be
    Ways,       \* the signals that ask for a stop
    Stops       \* how many ticks a launch may need to stop

\* `lidarslam start` and `lidarslam run`.
StartChain == <<"cli", "session", "inner", "runner">>
RunChain == <<"cli", "runner">>

ASSUME ChainAssumption ==
    /\ Chain \in {StartChain, RunChain}
    /\ Requests \in Nat
    /\ Ways \subseteq {"INT", "TERM"}
    /\ Stops \subseteq Nat

VARIABLES
    st,         \* where each process is
    inbox,      \* the signals pending for it
    left,       \* the ticks until its timeout, or Never
    needs,      \* how many ticks the launch of this session needs to stop
    record,     \* the run manifest: "none", "running", "result" or "sealed"
    requests    \* the stop requests so far

vars == <<st, inbox, left, needs, record, requests>>

Never == -1
Sup == {Chain[k] : k \in 1..Len(Chain)} \ {"runner"}
Procs == Sup \cup {"runner", "script", "launch"}
Outermost == Chain[1]
Child(p) == LET k == CHOOSE k \in 1..Len(Chain) : Chain[k] = p IN Chain[k + 1]

Signals == {"INT", "TERM", "KILL"}
Ended(p) == st[p] = "ended"
Live(p) == st[p] \notin {"off", "ended"}

\* SESSION_INTERRUPT_GRACE_SECONDS and the CLI's, in ticks; then the
\* *_TERMINATE_SECONDS of both and WORKFLOW_SHUTDOWN_GRACE_SECS.
Grace(p) == IF p = "session" THEN 4 ELSE 7
TerminateWindow == 2
WorkflowGrace == 2

\* Mutation: a nested CLI signals its child as well.
OwnsEveryGroup(p) == TRUE

\* start_new_session: the group a process leads for its child.  A nested CLI
\* shares the group that its parent already signals.
OwnsGroup(p) == p # "inner"
GroupBelow(p) ==
    IF p = "session" THEN {"inner", "runner"} ELSE {Child(p)}

-----------------------------------------------------------------------------
Send(targets, sig) ==
    [q \in Procs |-> IF q \in targets /\ Live(q) THEN inbox[q] \cup {sig} ELSE inbox[q]]
SendFrom(p, targets, sig) == [Send(targets, sig) EXCEPT ![p] = {}]

Init ==
    /\ st = [p \in Procs |-> IF p = Outermost THEN "spawning" ELSE "off"]
    /\ inbox = [p \in Procs |-> {}]
    /\ left = [p \in Procs |-> Never]
    /\ needs \in Stops
    /\ record = "none"
    /\ requests = 0

\* Process p goes to a state, with a timeout or none.
Become(p, label, ticks) ==
    /\ st' = [st EXCEPT ![p] = label]
    /\ left' = [left EXCEPT ![p] = ticks]

End(p) == Become(p, "ended", Never) /\ inbox' = [inbox EXCEPT ![p] = {}]
Keep == UNCHANGED <<needs, record, requests>>

\* Ctrl-C or SIGTERM, at any time once the workflow exists.
Request(sig) ==
    /\ requests < Requests
    /\ st["runner"] \notin {"off", "preparing"}
    /\ Live(Outermost)
    /\ requests' = requests + 1
    /\ inbox' = Send(Reached, sig)
    /\ UNCHANGED <<st, left, needs, record>>

-----------------------------------------------------------------------------
(***************************************************************************)
(* The supervisors: _run_delegated_command and _run_delegated_session.     *)
(***************************************************************************)
Spawn(p) ==
    /\ st[p] = "spawning"
    /\ st' = [st EXCEPT ![p] = "waiting",
                        ![Child(p)] = IF Child(p) = "runner" THEN "preparing" ELSE "spawning"]
    /\ UNCHANGED <<inbox, left>> /\ Keep

\* The helper still has its receipt and session index to write.
ChildEnded(p) ==
    /\ st[p] \in {"waiting", "grace", "terminating", "reaping"}
    /\ inbox[p] = {}
    /\ Ended(Child(p))
    /\ IF p = "session" THEN Become(p, "finishing", Never) /\ UNCHANGED inbox ELSE End(p)
    /\ Keep

Finish(p) == st[p] = "finishing" /\ inbox[p] = {} /\ End(p) /\ Keep

\* The first signal is handed down; a nested CLI only starts to wait.
FirstSignal(p) ==
    /\ st[p] = "waiting"
    /\ "KILL" \notin inbox[p]
    /\ \E sig \in inbox[p] :
          inbox' = SendFrom(p, IF OwnsGroup(p) THEN GroupBelow(p) ELSE {}, sig)
    /\ Become(p, "grace", Grace(p))
    /\ Keep

\* Mutation: a grace that is over does nothing.
ProddedBySignal(p) == inbox[p] \ {"KILL"} # {}

Prodded(p) == inbox[p] \ {"KILL"} # {} \/ left[p] = 0

\* Another signal or the end of the grace: SIGTERM.
Terminate(p) ==
    /\ st[p] = "grace"
    /\ "KILL" \notin inbox[p] /\ Prodded(p)
    /\ inbox' = SendFrom(p, IF OwnsGroup(p) THEN GroupBelow(p) ELSE {Child(p)}, "TERM")
    /\ Become(p, "terminating", TerminateWindow)
    /\ Keep

Kill(p) ==
    /\ st[p] = "terminating"
    /\ "KILL" \notin inbox[p] /\ Prodded(p)
    /\ inbox' = SendFrom(p, IF OwnsGroup(p) THEN GroupBelow(p) ELSE {Child(p)}, "KILL")
    /\ Become(p, "reaping", Never)
    /\ Keep

\* Outside the waits nothing catches a signal, and nothing catches SIGKILL.
Die(p) ==
    /\ \/ "KILL" \in inbox[p] /\ Live(p)
       \/ inbox[p] # {} /\ st[p] \in {"spawning", "reaping", "finishing"}
    /\ End(p)
    /\ Keep

-----------------------------------------------------------------------------
(***************************************************************************)
(* The runner: _run_workflow and _terminate_process_group.                 *)
(***************************************************************************)
StartWorkflow ==
    /\ st["runner"] = "preparing"
    /\ inbox["runner"] = {}
    /\ st' = [st EXCEPT !["runner"] = "waiting", !["script"] = "starting"]
    /\ record' = "running"
    /\ UNCHANGED <<inbox, left, needs, requests>>

\* The SIGTERM handler is restored before the group is signalled.
InterruptWorkflow ==
    /\ st["runner"] = "waiting"
    /\ "KILL" \notin inbox["runner"]
    /\ \E sig \in inbox["runner"] :
          inbox' = [Send({"script"}, sig) EXCEPT !["runner"] = @ \ {sig}]
    /\ Become("runner", "polling", WorkflowGrace)
    /\ Keep

KillWorkflow ==
    /\ st["runner"] = "polling"
    /\ inbox["runner"] = {}
    /\ left["runner"] = 0
    /\ inbox' = Send({"script"}, "KILL")
    /\ Become("runner", "reaping", Never)
    /\ Keep

\* Mutation: the signalled script is not waited for.
WorkflowGivenUp ==
    /\ \/ st["runner"] \in {"waiting", "reaping"} /\ Ended("script")
       \/ st["runner"] = "polling"
    /\ inbox["runner"] = {}
    /\ Become("runner", "post", Never)
    /\ record' = "result"
    /\ UNCHANGED <<inbox, needs, requests>>

\* The leader's exit ends the wait; the whole group's ends the grace.
WorkflowEnded ==
    /\ st["runner"] \in {"waiting", "polling", "reaping"}
    /\ inbox["runner"] = {}
    /\ Ended("script")
    /\ Become("runner", "post", Never)
    /\ record' = "result"
    /\ UNCHANGED <<inbox, needs, requests>>

\* Verification, checksums and the receipt take their time.
PostProcessed ==
    /\ st["runner"] = "post"
    /\ inbox["runner"] = {}
    /\ End("runner")
    /\ record' = "sealed"
    /\ UNCHANGED <<needs, requests>>

RunnerDies ==
    /\ inbox["runner"] # {}
    /\ st["runner"] \in {"preparing", "polling", "reaping", "post"} \/ "KILL" \in inbox["runner"]
    /\ Live("runner")
    /\ End("runner")
    /\ Keep

-----------------------------------------------------------------------------
(***************************************************************************)
(* The workflow script and the launch it keeps in a group of its own.      *)
(***************************************************************************)
StartLaunch ==
    /\ st["script"] = "starting"
    /\ inbox["script"] = {}
    /\ st' = [st EXCEPT !["script"] = "running", !["launch"] = "running"]
    /\ UNCHANGED <<inbox, left>> /\ Keep

\* The map is done: the script stops the launch and waits, its traps still set.
WindUp ==
    /\ st["script"] = "running"
    /\ inbox["script"] = {}
    /\ inbox' = Send({"launch"}, "TERM")
    /\ Become("script", "ending", Never)
    /\ Keep

\* on_signal: the same, with the traps taken off.
CleanUp ==
    /\ st["script"] \in {"running", "ending"}
    /\ inbox["script"] # {} /\ "KILL" \notin inbox["script"]
    /\ inbox' = SendFrom("script", {"launch"}, "TERM")
    /\ Become("script", "cleaning", Never)
    /\ Keep

\* Mutation: the script does not wait for the launch.
ScriptEndsEarly ==
    /\ st["script"] \in {"ending", "cleaning"}
    /\ inbox["script"] = {}
    /\ End("script")
    /\ Keep

ScriptEnds ==
    /\ st["script"] \in {"ending", "cleaning"}
    /\ inbox["script"] = {}
    /\ Ended("launch")
    /\ End("script")
    /\ Keep

\* `trap - INT TERM`: while it cleans up, any signal ends it.
ScriptDies ==
    /\ \/ inbox["script"] # {} /\ st["script"] \in {"starting", "cleaning"}
       \/ "KILL" \in inbox["script"] /\ Live("script")
    /\ End("script")
    /\ Keep

LaunchStopping ==
    /\ st["launch"] = "running"
    /\ inbox["launch"] # {}
    /\ Become("launch", "stopping", needs)
    /\ inbox' = [inbox EXCEPT !["launch"] = {}]
    /\ Keep

LaunchStopped ==
    /\ st["launch"] = "stopping"
    /\ left["launch"] = 0
    /\ End("launch")
    /\ Keep

-----------------------------------------------------------------------------
SupStep(p) ==
    Spawn(p) \/ ChildEnded(p) \/ Finish(p) \/ FirstSignal(p) \/ Terminate(p) \/ Kill(p) \/ Die(p)

RunnerStep == StartWorkflow \/ InterruptWorkflow \/ KillWorkflow \/ WorkflowEnded \/ RunnerDies

WorkflowStep ==
    \/ StartLaunch \/ CleanUp \/ ScriptEnds \/ ScriptDies \/ LaunchStopping \/ LaunchStopped

AtOnce == (\E p \in Sup : SupStep(p)) \/ RunnerStep \/ WorkflowStep

\* Some process has something to do before time passes: AtOnce is enabled.
SupBusy(p) ==
    \/ st[p] \in {"spawning", "finishing"}
    \/ st[p] \in {"waiting", "grace", "terminating", "reaping"} /\ Ended(Child(p))
    \/ st[p] \in {"grace", "terminating"} /\ left[p] = 0

RunnerBusy ==
    \/ st["runner"] = "preparing"
    \/ st["runner"] = "polling" /\ left["runner"] = 0
    \/ st["runner"] \in {"waiting", "polling", "reaping"} /\ Ended("script")

WorkflowBusy ==
    \/ st["script"] = "starting"
    \/ st["script"] \in {"ending", "cleaning"} /\ Ended("launch")
    \/ st["launch"] = "running" /\ inbox["launch"] # {}
    \/ st["launch"] = "stopping" /\ left["launch"] = 0

Busy ==
    \/ \E p \in Procs \ {"launch"} : Live(p) /\ inbox[p] # {}
    \/ \E p \in Sup : SupBusy(p)
    \/ RunnerBusy
    \/ WorkflowBusy

Tick ==
    /\ ~Busy
    /\ \E p \in Procs : left[p] > 0
    /\ left' = [p \in Procs |-> IF left[p] > 0 THEN left[p] - 1 ELSE left[p]]
    /\ UNCHANGED <<st, inbox, needs, record, requests>>

Next ==
    \/ \E p \in Sup : SupStep(p)
    \/ RunnerStep
    \/ WorkflowStep
    \/ WindUp
    \/ PostProcessed
    \/ Tick
    \/ \E sig \in Ways : Request(sig)

\* Processes run and time passes.  Nothing says that the map is ever finished
\* or that post-processing ends.
Fairness == WF_vars(AtOnce) /\ WF_vars(Tick)

Spec == Init /\ [][Next]_vars
FairSpec == Spec /\ Fairness

-----------------------------------------------------------------------------
(***************************************************************************)
(* Properties.                                                             *)
(***************************************************************************)
SupLabels == {"off", "spawning", "waiting", "grace", "terminating", "reaping", "finishing", "ended"}
RunnerLabels == {"off", "preparing", "waiting", "polling", "reaping", "post", "ended"}
ScriptLabels == {"off", "starting", "running", "ending", "cleaning", "ended"}
LaunchLabels == {"off", "running", "stopping", "ended"}

\* Every process is in one of its states, with signals, a timeout or none.
TypeOK ==
    /\ st \in [Procs -> SupLabels \cup RunnerLabels \cup ScriptLabels \cup LaunchLabels]
    /\ \A p \in Sup : st[p] \in SupLabels
    /\ st["runner"] \in RunnerLabels
    /\ st["script"] \in ScriptLabels
    /\ st["launch"] \in LaunchLabels
    /\ inbox \in [Procs -> SUBSET Signals]
    /\ left \in [Procs -> Nat \cup {Never}]
    /\ needs \in Stops
    /\ record \in {"none", "running", "result", "sealed"}
    /\ requests \in 0..Requests

\* A launch that outlasts the runner's grace is out of reach of its SIGKILL,
\* and one that ends with it races it; an operator who insists gives up the
\* evidence for the terminal.
InTime == needs < WorkflowGrace
Patient == requests <= 1

\* When the command the operator typed has returned, nothing it started is
\* still running, however far the stop request had got on its way down.
NothingSurvives ==
    Ended(Outermost) /\ Patient =>
        \A p \in Procs : Live(p) => p = "launch" /\ ~InTime

\* "The workflow may still be running, so starting post-processing could
\* corrupt evidence": nothing maps while the runner judges the map.
PostProcessingIsAlone ==
    st["runner"] = "post" => ~Live("script") /\ (InTime => ~Live("launch"))

\* A stop always leaves the workflow's result in the manifest, never a run
\* that `--resume` has to refuse because it may still be going on.
ResultIsDurable ==
    Ended("runner") /\ Patient => record \in {"result", "sealed"}

\* A requested stop comes to an end, whatever the launch and the
\* post-processing do: the terminal is given back, also to an operator who
\* insists, and one request alone ends every process.
StopCompletes ==
    requests > 0 ~> Ended(Outermost) /\ (Patient => \A p \in Procs : ~Live(p))
=============================================================================

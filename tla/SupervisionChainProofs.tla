---------------------- MODULE SupervisionChainProofs ----------------------
(***************************************************************************)
(* A stop on its way down, for either command, any number of requests and  *)
(* any time the launch may take: nothing maps while the runner judges the  *)
(* map, one request leaves the workflow's result in the manifest and no    *)
(* process behind.                                                         *)
(***************************************************************************)
EXTENDS SupervisionChain, TLAPS

(* Processes are spawned from the top, and only a live one has signals.    *)
BornInv ==
    /\ \A p \in Procs : ~Live(p) => inbox[p] = {}
    /\ \A p \in Sup : st[p] \in {"off", "spawning"} => st[Child(p)] = "off"
    /\ st["runner"] \in {"off", "preparing"} => st["script"] = "off"
    /\ st["script"] \in {"off", "starting"} => st["launch"] = "off"

(* The runner asks once: before, the script hears nothing; the SIGKILL      *)
(* comes when the grace is over, and finds it cleaning up or gone.          *)
NotYetAsked ==
    st["runner"] \in {"off", "preparing", "waiting"} =>
        inbox["script"] = {} /\ st["script"] # "cleaning"
KilledLast ==
    "KILL" \in inbox["script"] =>
        /\ st["runner"] \in {"reaping", "post", "ended"}
        /\ st["script"] \notin {"off", "starting"}
        /\ InTime => ~Live("launch")

(* A script that cleans up has already told its launch.                    *)
CleaningAlone ==
    st["script"] = "cleaning" =>
        /\ inbox["script"] \subseteq {"KILL"}
        /\ st["launch"] = "running" => inbox["launch"] # {}

(* While the grace of the runner runs the launch is ahead of it: both start *)
(* to count in the tick of the request, and the launch needs less.          *)
GraceOutlastsLaunch ==
    st["runner"] = "polling" =>
        /\ left["runner"] \in 0..WorkflowGrace
        /\ st["script"] \in {"starting", "running", "ending"} => inbox["script"] # {}
        /\ left["runner"] < WorkflowGrace =>
              st["script"] \in {"cleaning", "ended"} /\ (InTime => st["launch"] # "running")
        /\ InTime /\ st["launch"] = "stopping" => left["launch"] < left["runner"]

ScriptOutlivesLaunch == Ended("script") => (InTime => ~Live("launch"))

WorkflowInv ==
    /\ NotYetAsked /\ KilledLast /\ CleaningAlone /\ GraceOutlastsLaunch /\ ScriptOutlivesLaunch
    /\ st["runner"] \in {"waiting", "polling", "reaping"} => st["script"] # "off"
    /\ st["runner"] = "reaping" => Ended("script") \/ "KILL" \in inbox["script"]
    /\ st["launch"] = "stopping" => left["launch"] \in 0..needs
    /\ st["runner"] = "post" => Ended("script")

-----------------------------------------------------------------------------
(* One request: a process that waits has one signal of it, or none.        *)
One == {{"INT"}, {"TERM"}}

(* The request has not come down to p.                                     *)
Calm(p) == inbox[p] = {} /\ st[p] \notin {"grace", "terminating", "reaping", "polling"}

(* The runner while the process m above it waits with a grace of g ticks:   *)
(* its own grace is the shorter one, so it is done with the script when m   *)
(* loses patience.                                                          *)
RunnerUnder(m, g) ==
    \/ st["runner"] = "waiting" /\ inbox["runner"] \in One /\ left[m] = g
    \/ /\ st["runner"] = "polling" /\ inbox["runner"] = {}
       /\ left["runner"] \in 0..WorkflowGrace /\ left[m] = left["runner"] + g - WorkflowGrace
    \/ st["runner"] = "reaping" /\ inbox["runner"] = {} /\ left[m] = g - WorkflowGrace
    \/ st["runner"] = "post" /\ inbox["runner"] \in One \cup {{}}
    \/ st["runner"] = "ended"

(* When m has lost patience the runner is gone, or at its post-processing   *)
(* and about to die of the second signal.                                   *)
RunnerPressed == Ended("runner") \/ (st["runner"] = "post" /\ inbox["runner"] # {})

(* A runner ends after its workflow, with the result in the manifest.      *)
RecordInv ==
    /\ st["runner"] = "post" => record = "result"
    /\ Ended("runner") => record \in {"result", "sealed"} /\ Ended("script")


(* The outermost command is asked once, when the runner exists.            *)
CliInv ==
    /\ inbox["cli"] \in One \cup {{}}
    /\ requests = 0 => inbox["cli"] = {} /\ st["cli"] # "grace"
    /\ inbox["cli"] # {} => st["cli"] = "waiting"
    /\ requests > 0 => st["runner"] \notin {"off", "preparing"}

(* No supervisor gets as far as its SIGKILL.                                *)
NoKill == \A p \in Sup \cup {"runner"} : "KILL" \notin inbox[p]


(* lidarslam start: who waits for whom, and how their graces compare.      *)
CliOverSession ==
    /\ st["cli"] \in {"spawning", "waiting", "grace", "ended"}
    /\ st["cli"] \in {"spawning", "waiting"} => Calm("session")
    /\ st["cli"] = "grace" =>
        /\ inbox["cli"] = {}
        /\ \/ st["session"] = "waiting" /\ inbox["session"] \in One /\ left["cli"] = 7
           \/ st["session"] = "grace" /\ inbox["session"] = {} /\ left["cli"] = left["session"] + 3
           \/ st["session"] = "terminating" /\ inbox["session"] = {} /\ left["cli"] = 3
           \/ st["session"] \in {"finishing", "ended"} /\ left["cli"] > 0
    /\ Ended("cli") => Ended("session")

SessionOverInner ==
    /\ st["session"] # "reaping"
    /\ st["session"] \in {"off", "spawning", "waiting"} => Calm("inner") /\ Calm("runner")
    /\ st["session"] = "grace" =>
        /\ left["session"] \in 0..4
        /\ RunnerUnder("session", 4)
        /\ \/ st["inner"] = "waiting" /\ inbox["inner"] \in One /\ left["session"] = 4
           \/ st["inner"] = "grace" /\ inbox["inner"] = {} /\ left["inner"] = left["session"] + 3
           \/ st["inner"] = "ended"
    /\ st["session"] = "terminating" =>
        /\ left["session"] = 2
        /\ RunnerPressed
        /\ \/ st["inner"] = "grace" /\ inbox["inner"] # {}
           \/ st["inner"] = "terminating" /\ inbox["inner"] = {} /\ left["inner"] = 2
           \/ st["inner"] = "ended"
    /\ st["session"] \in {"finishing", "ended"} => Ended("inner")

InnerOverRunner ==
    /\ st["inner"] \notin {"reaping", "finishing"}
    /\ Ended("inner") => Ended("runner")

StartInv == CliOverSession /\ SessionOverInner /\ InnerOverRunner

(* lidarslam run: the command above the runner.                            *)
RunInv ==
    /\ st["cli"] \in {"spawning", "waiting"} => Calm("runner")
    /\ st["cli"] = "grace" => inbox["cli"] = {} /\ left["cli"] \in 0..7 /\ RunnerUnder("cli", 7)
    /\ st["cli"] = "terminating" => inbox["cli"] = {} /\ left["cli"] = 2 /\ RunnerPressed
    /\ Ended("cli") => Ended("runner")
    /\ st["cli"] \notin {"off", "reaping", "finishing"}
    /\ requests = 0 => st["cli"] # "terminating"

CommonInv == CliInv /\ NoKill /\ RecordInv

PatientInv ==
    Patient => CommonInv /\ (Chain = StartChain => StartInv) /\ (Chain = RunChain => RunInv)

-----------------------------------------------------------------------------
(* The two commands, spelled out, and what they have in common: signals    *)
(* go down, and every process has one parent.                              *)
LEMMA StartFacts ==
    ASSUME Chain = StartChain
    PROVE  /\ Sup = {"cli", "session", "inner"}
           /\ Outermost = "cli"
           /\ Child("cli") = "session" /\ Child("session") = "inner" /\ Child("inner") = "runner"
<1>1. Len(Chain) = 4 /\ Chain[1] = "cli" /\ Chain[2] = "session" /\ Chain[3] = "inner" /\ Chain[4] = "runner"
  BY DEF StartChain
<1>2. 1..Len(Chain) = {1, 2, 3, 4}
  BY <1>1
<1>3. Sup = {"cli", "session", "inner"}
  BY <1>1, <1>2 DEF Sup
<1>4. Child("cli") = "session"
  <2>1. (CHOOSE k \in 1..Len(Chain) : Chain[k] = "cli") = 1
    BY <1>1, <1>2
  <2> QED BY <2>1, <1>1 DEF Child
<1>5. Child("session") = "inner"
  <2>1. (CHOOSE k \in 1..Len(Chain) : Chain[k] = "session") = 2
    BY <1>1, <1>2
  <2> QED BY <2>1, <1>1 DEF Child
<1>6. Child("inner") = "runner"
  <2>1. (CHOOSE k \in 1..Len(Chain) : Chain[k] = "inner") = 3
    BY <1>1, <1>2
  <2> QED BY <2>1, <1>1 DEF Child
<1> QED BY <1>1, <1>3, <1>4, <1>5, <1>6 DEF Outermost

LEMMA RunFacts ==
    ASSUME Chain = RunChain
    PROVE  Sup = {"cli"} /\ Outermost = "cli" /\ Child("cli") = "runner"
<1>1. Len(Chain) = 2 /\ Chain[1] = "cli" /\ Chain[2] = "runner"
  BY DEF RunChain
<1>2. 1..Len(Chain) = {1, 2}
  BY <1>1
<1>3. (CHOOSE k \in 1..Len(Chain) : Chain[k] = "cli") = 1
  BY <1>1, <1>2
<1> QED BY <1>1, <1>2, <1>3 DEF Sup, Outermost, Child

LEMMA ChainFacts ==
    /\ \A p \in Sup : Child(p) \in (Sup \ {p}) \cup {"runner"}
    /\ \A p \in Sup : GroupBelow(p) \subseteq (Sup \ {p}) \cup {"runner"}
    /\ \A p, q \in Sup : Child(p) = Child(q) => p = q
    /\ Outermost \in Sup
    /\ \A p \in Sup : Child(p) # Outermost
    /\ {"runner", "script", "launch"} \cap Sup = {}
    /\ Procs = Sup \cup {"runner", "script", "launch"}
<1>1. CASE Chain = StartChain
  BY <1>1, StartFacts DEF GroupBelow, Procs
<1>2. CASE Chain = RunChain
  BY <1>2, RunFacts DEF GroupBelow, Procs
<1> QED BY <1>1, <1>2, ChainAssumption DEF StartChain, RunChain

AllLabels == SupLabels \cup RunnerLabels \cup ScriptLabels \cup LaunchLabels

-----------------------------------------------------------------------------
(* Types: what a signal, a new state or an end leaves of the variables.    *)
LEMMA Sending ==
    ASSUME inbox \in [Procs -> SUBSET Signals], NEW sig \in Signals, NEW targets, NEW p \in Procs
    PROVE  /\ Send(targets, sig) \in [Procs -> SUBSET Signals]
           /\ SendFrom(p, targets, sig) \in [Procs -> SUBSET Signals]
           /\ \A q \in Procs : Send(targets, sig)[q] =
                  IF q \in targets /\ Live(q) THEN inbox[q] \cup {sig} ELSE inbox[q]
           /\ \A q \in Procs \ {p} : SendFrom(p, targets, sig)[q] =
                  IF q \in targets /\ Live(q) THEN inbox[q] \cup {sig} ELSE inbox[q]
           /\ SendFrom(p, targets, sig)[p] = {}
  BY DEF Send, SendFrom

LEMMA BecomeType ==
    ASSUME TypeOK, NEW p \in Procs, NEW label \in AllLabels, NEW ticks \in Nat \cup {Never},
           Become(p, label, ticks), Keep,
           p \in Sup => label \in SupLabels,
           p = "runner" => label \in RunnerLabels,
           p = "script" => label \in ScriptLabels,
           p = "launch" => label \in LaunchLabels,
           inbox' \in [Procs -> SUBSET Signals]
    PROVE  TypeOK'
<1>1. st' \in [Procs -> AllLabels] /\ left' \in [Procs -> Nat \cup {Never}]
  BY DEF Become, TypeOK, AllLabels
<1>2. st'[p] = label /\ \A q \in Procs \ {p} : st'[q] = st[q]
  BY DEF Become, TypeOK
<1> QED BY <1>1, <1>2, ChainFacts DEF TypeOK, Keep, AllLabels

LEMMA EndType ==
    ASSUME TypeOK, NEW p \in Procs, End(p), Keep
    PROVE  TypeOK'
<1>1. inbox' \in [Procs -> SUBSET Signals]
  BY DEF End, TypeOK
<1> QED BY <1>1, BecomeType, ChainFacts DEF End, AllLabels, SupLabels, RunnerLabels, ScriptLabels, LaunchLabels

LEMMA SupTypes == ASSUME TypeOK, NEW p \in Sup, SupStep(p) PROVE TypeOK'
<1> USE ChainFacts
<1>0. p \in Procs /\ Child(p) \in Procs /\ inbox \in [Procs -> SUBSET Signals]
  BY DEF TypeOK
<1>n. p # "runner" /\ p # "script" /\ p # "launch"
  OBVIOUS
<1>g. Grace(p) \in Nat /\ TerminateWindow \in Nat
  BY DEF Grace, TerminateWindow
<1>s. \A targets : \A sig \in Signals : SendFrom(p, targets, sig) \in [Procs -> SUBSET Signals]
  BY <1>0, Sending
<1>1. CASE Spawn(p)
  <2>1. st' \in [Procs -> AllLabels]
    BY <1>1, <1>0 DEF Spawn, TypeOK, AllLabels, SupLabels, RunnerLabels
  <2>2. \A q \in Procs : \/ st'[q] = st[q]
                         \/ q = p /\ st'[q] = "waiting"
                         \/ q = Child(p) /\ q = "runner" /\ st'[q] = "preparing"
                         \/ q = Child(p) /\ q # "runner" /\ st'[q] = "spawning"
    BY <1>1, <1>0 DEF Spawn, TypeOK
  <2> QED BY <1>0, <2>1, <2>2, <1>1 DEF Spawn, TypeOK, Keep, SupLabels, RunnerLabels, AllLabels
<1>2. CASE ChildEnded(p)
  <2>1. CASE p = "session"
    BY <2>1, <1>2, <1>0, <1>n, BecomeType DEF ChildEnded, Never, AllLabels, SupLabels
  <2>2. CASE p # "session"
    BY <2>2, <1>2, <1>0, EndType DEF ChildEnded
  <2> QED BY <2>1, <2>2
<1>3. CASE Finish(p)
  BY <1>3, <1>0, EndType DEF Finish
<1>4. CASE FirstSignal(p)
  <2>1. inbox' \in [Procs -> SUBSET Signals]
    BY <1>4, <1>s, <1>0 DEF FirstSignal
  <2> QED BY <1>4, <1>0, <1>g, <2>1, BecomeType DEF FirstSignal, AllLabels, SupLabels
<1>5. CASE Terminate(p)
  <2>1. inbox' \in [Procs -> SUBSET Signals]
    BY <1>5, <1>s DEF Terminate, Signals
  <2> QED BY <1>5, <1>0, <1>g, <2>1, BecomeType DEF Terminate, AllLabels, SupLabels
<1>6. CASE Kill(p)
  <2>1. inbox' \in [Procs -> SUBSET Signals]
    BY <1>6, <1>s DEF Kill, Signals
  <2> QED BY <1>6, <1>0, <2>1, BecomeType DEF Kill, AllLabels, SupLabels
<1>7. CASE Die(p)
  BY <1>7, <1>0, EndType DEF Die
<1> QED BY <1>1, <1>2, <1>3, <1>4, <1>5, <1>6, <1>7 DEF SupStep

LEMMA RunnerTypes == ASSUME TypeOK, RunnerStep PROVE TypeOK'
<1> USE ChainFacts
<1>0. /\ {"runner", "script"} \subseteq Procs /\ inbox \in [Procs -> SUBSET Signals]
      /\ WorkflowGrace \in Nat
  BY DEF TypeOK, WorkflowGrace
<1>1. CASE StartWorkflow
  <2>1. st' \in [Procs -> AllLabels] /\ \A p \in Sup \cup {"launch"} : st'[p] = st[p]
    BY <1>1, <1>0 DEF StartWorkflow, TypeOK, AllLabels, RunnerLabels, ScriptLabels
  <2>2. st'["runner"] = "waiting" /\ st'["script"] = "starting"
    BY <1>1, <1>0 DEF StartWorkflow, TypeOK
  <2> QED BY <1>1, <2>1, <2>2, <1>0 DEF StartWorkflow, TypeOK, AllLabels, RunnerLabels, ScriptLabels
<1>2. CASE InterruptWorkflow
  <2>1. inbox' \in [Procs -> SUBSET Signals]
    <3>1. PICK sig \in inbox["runner"] \ {"KILL"} :
              inbox' = [Send({"script"}, sig) EXCEPT !["runner"] = @ \ {sig}]
      BY <1>2 DEF InterruptWorkflow
    <3>2. sig \in Signals
      BY <1>0
    <3>3. Send({"script"}, sig) \in [Procs -> SUBSET Signals]
      BY <1>0, <3>2, Sending
    <3> QED BY <1>0, <3>1, <3>3
  <2> QED BY <1>2, <1>0, <2>1, BecomeType DEF InterruptWorkflow, AllLabels, RunnerLabels
<1>3. CASE KillWorkflow
  <2>1. inbox' \in [Procs -> SUBSET Signals]
    BY <1>3, <1>0, Sending DEF KillWorkflow, Signals
  <2> QED BY <1>3, <1>0, <2>1, BecomeType DEF KillWorkflow, AllLabels, RunnerLabels
<1>4. CASE WorkflowEnded
  <2>1. st' \in [Procs -> AllLabels] /\ left' \in [Procs -> Nat \cup {Never}]
    BY <1>4, <1>0 DEF WorkflowEnded, Become, TypeOK, AllLabels, RunnerLabels
  <2>2. st'["runner"] = "post" /\ \A p \in Procs \ {"runner"} : st'[p] = st[p]
    BY <1>4, <1>0 DEF WorkflowEnded, Become, TypeOK
  <2> QED BY <1>4, <2>1, <2>2, <1>0 DEF WorkflowEnded, TypeOK, AllLabels, RunnerLabels
<1>5. CASE RunnerDies
  BY <1>5, <1>0, EndType DEF RunnerDies
<1> QED BY <1>1, <1>2, <1>3, <1>4, <1>5 DEF RunnerStep

LEMMA PostTypes == ASSUME TypeOK, PostProcessed PROVE TypeOK'
<1> USE ChainFacts
<1>1. st' \in [Procs -> AllLabels] /\ left' \in [Procs -> Nat \cup {Never}]
      /\ inbox' \in [Procs -> SUBSET Signals]
  BY DEF PostProcessed, End, Become, TypeOK, AllLabels, RunnerLabels
<1>2. st'["runner"] = "ended" /\ \A p \in Procs \ {"runner"} : st'[p] = st[p]
  BY DEF PostProcessed, End, Become, TypeOK
<1> QED BY <1>1, <1>2 DEF PostProcessed, TypeOK, AllLabels, RunnerLabels

LEMMA WorkflowTypes == ASSUME TypeOK, WorkflowStep \/ WindUp PROVE TypeOK'
<1> USE ChainFacts
<1>0. /\ {"script", "launch"} \subseteq Procs /\ inbox \in [Procs -> SUBSET Signals]
      /\ {"script", "launch"} \cap (Sup \cup {"runner"}) = {} /\ needs \in Nat
  BY ChainAssumption DEF TypeOK
<1>s. \A targets : SendFrom("script", targets, "TERM") \in [Procs -> SUBSET Signals]
                   /\ Send(targets, "TERM") \in [Procs -> SUBSET Signals]
  BY <1>0, Sending DEF Signals
<1>1. CASE StartLaunch
  <2>1. st' \in [Procs -> AllLabels] /\ \A p \in Sup \cup {"runner"} : st'[p] = st[p]
    BY <1>1, <1>0 DEF StartLaunch, TypeOK, AllLabels, ScriptLabels
  <2>2. st'["script"] = "running" /\ st'["launch"] = "running"
    BY <1>1, <1>0 DEF StartLaunch, TypeOK
  <2> QED BY <1>1, <2>1, <2>2, <1>0 DEF StartLaunch, TypeOK, AllLabels, LaunchLabels, ScriptLabels, Keep
<1>2. CASE WindUp
  BY <1>2, <1>0, <1>s, BecomeType DEF WindUp, AllLabels, ScriptLabels, Never
<1>3. CASE CleanUp
  BY <1>3, <1>0, <1>s, BecomeType DEF CleanUp, AllLabels, ScriptLabels, Never
<1>4. CASE ScriptEnds
  BY <1>4, <1>0, EndType DEF ScriptEnds
<1>5. CASE ScriptDies
  BY <1>5, <1>0, EndType DEF ScriptDies
<1>6. CASE LaunchStopping
  <2>1. inbox' \in [Procs -> SUBSET Signals]
    BY <1>6, <1>0 DEF LaunchStopping
  <2> QED BY <1>6, <2>1, <1>0, BecomeType DEF LaunchStopping, AllLabels, LaunchLabels
<1>7. CASE LaunchStopped
  BY <1>7, <1>0, EndType DEF LaunchStopped
<1> QED BY <1>1, <1>2, <1>3, <1>4, <1>5, <1>6, <1>7 DEF WorkflowStep

LEMMA TickTypes == ASSUME TypeOK, Tick PROVE TypeOK'
<1>1. left' \in [Procs -> Nat \cup {Never}]
  BY DEF TypeOK, Tick, Never
<1> QED BY <1>1 DEF TypeOK, Tick

LEMMA RequestTypes == ASSUME TypeOK, NEW sig \in Ways, Request(sig) PROVE TypeOK'
<1>1. sig \in Signals
  BY ChainAssumption DEF Signals
<1>2. inbox' \in [Procs -> SUBSET Signals]
  BY <1>1, Sending, ChainFacts DEF TypeOK, Request
<1>3. requests' \in 0..Requests
  BY ChainAssumption DEF Request, TypeOK
<1> QED BY <1>2, <1>3 DEF TypeOK, Request

LEMMA TypeInit == Init => TypeOK
  BY ChainFacts, ChainAssumption
  DEF Init, TypeOK, SupLabels, RunnerLabels, ScriptLabels, LaunchLabels, Never

LEMMA TypeStep == ASSUME TypeOK, [Next]_vars PROVE TypeOK'
<1>1. CASE UNCHANGED vars
  BY <1>1 DEF vars, TypeOK
<1> QED BY <1>1, SupTypes, RunnerTypes, WorkflowTypes, PostTypes, TickTypes, RequestTypes DEF Next

(* Every process of _run_delegated_command, _run_delegated_session,        *)
(* _run_workflow and the script is in a state of its own, with signals, a  *)
(* timeout or none.                                                        *)
THEOREM TypeCorrect == Spec => []TypeOK
  BY TypeInit, TypeStep, PTL DEF Spec

Unspawned(p) == st[p] \in {"off", "spawning"}

-----------------------------------------------------------------------------
(* What a step of a supervisor leaves to the processes below it.           *)
LEMMA SupFrame ==
    ASSUME TypeOK, NEW p \in Sup, SupStep(p)
    PROVE  /\ Keep
           /\ Live(p) /\ ~Unspawned(p)'
           /\ \A q \in Procs \ {p} : left'[q] = left[q]
           /\ \A q \in Procs \ {p} :
                  \/ st'[q] = st[q]
                  \/ /\ q = Child(p) /\ st[p] = "spawning" /\ inbox' = inbox
                     /\ st'[q] = IF q = "runner" THEN "preparing" ELSE "spawning"
           /\ \A q \in Procs \ {p} : q \in {"script", "launch"} \/ ~Live(q) => inbox'[q] = inbox[q]
           /\ ~Live(p)' => inbox'[p] = {}
<1> USE ChainFacts
<1>0. /\ p \in Procs /\ Child(p) \in Procs /\ Child(p) # p /\ inbox \in [Procs -> SUBSET Signals]
      /\ p \notin {"script", "launch"} /\ Child(p) \notin {"script", "launch"}
      /\ \A q \in {"script", "launch"} : q \notin GroupBelow(p)
  BY DEF TypeOK
<1>a. ASSUME NEW label, NEW ticks, Become(p, label, ticks)
      PROVE  /\ st'[p] = label
             /\ \A q \in Procs \ {p} : st'[q] = st[q] /\ left'[q] = left[q]
  BY <1>a, <1>0 DEF Become, TypeOK
<1>b. ASSUME End(p)
      PROVE  /\ st'[p] = "ended" /\ inbox'[p] = {}
             /\ \A q \in Procs \ {p} : st'[q] = st[q] /\ left'[q] = left[q] /\ inbox'[q] = inbox[q]
  BY <1>b, <1>0 DEF End, Become, TypeOK
<1>c. ASSUME NEW targets, NEW sig \in Signals, inbox' = SendFrom(p, targets, sig),
             targets \subseteq GroupBelow(p) \cup {Child(p)}
      PROVE  \A q \in Procs \ {p} : q \in {"script", "launch"} \/ ~Live(q) => inbox'[q] = inbox[q]
  <2>1. \A q \in Procs \ {p} : inbox'[q] = IF q \in targets /\ Live(q) THEN inbox[q] \cup {sig} ELSE inbox[q]
    BY <1>c, <1>0 DEF SendFrom, Send
  <2>2. \A q \in {"script", "launch"} : q \notin targets
    BY <1>c, <1>0
  <2> QED BY <2>1, <2>2
<1>1. CASE Spawn(p)
  <2>1. st'[p] = "waiting" /\ st'[Child(p)] = IF Child(p) = "runner" THEN "preparing" ELSE "spawning"
    BY <1>1, <1>0 DEF Spawn, TypeOK
  <2>2. \A q \in Procs \ {p, Child(p)} : st'[q] = st[q]
    BY <1>1, <1>0 DEF Spawn, TypeOK
  <2> QED BY <1>1, <2>1, <2>2, <1>0 DEF Spawn, Live, Unspawned
<1>2. CASE ChildEnded(p)
  <2>1. CASE p = "session"
    BY <2>1, <1>2, <1>0, <1>a DEF ChildEnded, Live, Unspawned
  <2>2. CASE p # "session"
    BY <2>2, <1>2, <1>0, <1>b DEF ChildEnded, Live, Unspawned
  <2> QED BY <2>1, <2>2
<1>3. CASE Finish(p)
  BY <1>3, <1>0, <1>b DEF Finish, Live, Unspawned
<1>4. CASE FirstSignal(p)
  <2>1. PICK sig \in inbox[p] \ {"KILL"} :
            inbox' = SendFrom(p, IF OwnsGroup(p) THEN GroupBelow(p) ELSE {}, sig)
    BY <1>4 DEF FirstSignal
  <2>2. sig \in Signals
    BY <1>0
  <2>3. \A q \in Procs \ {p} : q \in {"script", "launch"} \/ ~Live(q) => inbox'[q] = inbox[q]
    BY <2>1, <2>2, <1>c
  <2> QED BY <1>4, <2>3, <1>a DEF FirstSignal, Live, Unspawned
<1>5. CASE Terminate(p)
  <2>1. \A q \in Procs \ {p} : q \in {"script", "launch"} \/ ~Live(q) => inbox'[q] = inbox[q]
    BY <1>5, <1>c DEF Terminate, Signals
  <2> QED BY <1>5, <2>1, <1>a DEF Terminate, Live, Unspawned
<1>6. CASE Kill(p)
  <2>1. \A q \in Procs \ {p} : q \in {"script", "launch"} \/ ~Live(q) => inbox'[q] = inbox[q]
    BY <1>6, <1>c DEF Kill, Signals
  <2> QED BY <1>6, <2>1, <1>a DEF Kill, Live, Unspawned
<1>7. CASE Die(p)
  BY <1>7, <1>0, <1>b DEF Die, Live, Unspawned
<1> QED BY <1>1, <1>2, <1>3, <1>4, <1>5, <1>6, <1>7 DEF SupStep

LEMMA SupBorn == ASSUME TypeOK, BornInv, NEW p \in Sup, SupStep(p) PROVE BornInv'
<1> USE ChainFacts
<1>1. \A q \in Procs : ~Live(q)' => inbox'[q] = {}
  BY SupFrame DEF BornInv, Live
<1>2. ASSUME NEW q \in Sup, Unspawned(q)' PROVE st'[Child(q)] = "off"
  <2>1. q # p /\ q \in Procs /\ Child(q) \in Procs
    BY <1>2, SupFrame
  <2>2. CASE st'[q] = st[q]
    <3>1. st[Child(q)] = "off"
      BY <2>2, <1>2, <2>1 DEF BornInv, Unspawned
    <3>2. Child(q) # p
      BY <3>1, SupFrame DEF Live
    <3>3. Child(q) # Child(p)
      BY <2>1
    <3> QED BY <3>1, <3>2, <3>3, <2>1, SupFrame
  <2>3. CASE q = Child(p) /\ st[p] = "spawning"
    <3>1. st[q] = "off"
      BY <2>3, <2>1 DEF BornInv
    <3>2. st[Child(q)] = "off"
      BY <3>1, <2>1 DEF BornInv
    <3>3. Child(q) # p
      BY <3>2, <2>3
    <3>4. Child(q) # Child(p)
      BY <2>1
    <3> QED BY <3>2, <3>3, <3>4, <2>1, SupFrame
  <2> QED BY <2>1, <2>2, <2>3, SupFrame
<1>3. /\ st'["runner"] = st["runner"] \/ (st'["runner"] = "preparing" /\ st["runner"] = "off")
      /\ st'["script"] = st["script"] /\ st'["launch"] = st["launch"]
  BY SupFrame DEF BornInv
<1> QED BY <1>1, <1>2, <1>3 DEF BornInv, Unspawned

\* A step of the runner or of the workflow leaves the supervisors alone.
LowerFrame ==
    /\ \A p \in Sup : st'[p] = st[p] /\ inbox'[p] = inbox[p]
    /\ \A p \in Procs : ~Live(p)' => inbox'[p] = {}
    /\ st'["runner"] \in {"off", "preparing"} => st'["runner"] = st["runner"] /\ st'["script"] = st["script"]
    /\ st'["script"] \in {"off", "starting"} =>
           st["script"] \in {"off", "starting"} /\ st'["launch"] = st["launch"]
    /\ st["runner"] # "off"

LEMMA LowerBorn == ASSUME TypeOK, BornInv, LowerFrame PROVE BornInv'
<1> USE ChainFacts
<1>1. \A p \in Procs : ~Live(p)' => inbox'[p] = {}
  BY DEF LowerFrame, Live
<1>2. ASSUME NEW q \in Sup, Unspawned(q)' PROVE st'[Child(q)] = "off"
  <2>1. st[Child(q)] = "off"
    BY <1>2 DEF BornInv, Unspawned, LowerFrame
  <2> QED BY <2>1 DEF LowerFrame
<1>3. /\ st'["runner"] \in {"off", "preparing"} => st'["script"] = "off"
      /\ st'["script"] \in {"off", "starting"} => st'["launch"] = "off"
  BY DEF LowerFrame, BornInv
<1> QED BY <1>1, <1>2, <1>3 DEF BornInv, Unspawned

LEMMA BecomeFrame ==
    ASSUME TypeOK, NEW p \in Procs, NEW label, NEW ticks, Become(p, label, ticks)
    PROVE  /\ st'[p] = label /\ left'[p] = ticks
           /\ \A q \in Procs \ {p} : st'[q] = st[q] /\ left'[q] = left[q]
  BY DEF Become, TypeOK

LEMMA EndFrame ==
    ASSUME TypeOK, NEW p \in Procs, End(p)
    PROVE  /\ st'[p] = "ended" /\ inbox'[p] = {} /\ left'[p] = Never
           /\ \A q \in Procs \ {p} : st'[q] = st[q] /\ left'[q] = left[q] /\ inbox'[q] = inbox[q]
  BY BecomeFrame DEF End, TypeOK

\* What each step of the runner does to what lies below it.
LEMMA RunnerFrame ==
    ASSUME TypeOK, BornInv, RunnerStep \/ PostProcessed
    PROVE  LowerFrame
<1> USE ChainFacts
<1>0. /\ {"runner", "script", "launch"} \subseteq Procs /\ inbox \in [Procs -> SUBSET Signals]
      /\ \A p \in Sup : p \notin {"runner", "script", "launch"}
      /\ \A p \in Procs : ~Live(p) => inbox[p] = {}
  BY DEF TypeOK, BornInv
<1>1. CASE StartWorkflow
  <2>1. st' = [st EXCEPT !["runner"] = "waiting", !["script"] = "starting"] /\ inbox' = inbox
    BY <1>1 DEF StartWorkflow
  <2>2. st["script"] = "off" /\ st["launch"] = "off"
    BY <1>1 DEF StartWorkflow, BornInv
  <2> QED BY <1>1, <2>1, <2>2, <1>0 DEF StartWorkflow, TypeOK, LowerFrame, Live
<1>2. CASE InterruptWorkflow
  <2>1. PICK sig \in inbox["runner"] \ {"KILL"} :
            inbox' = [Send({"script"}, sig) EXCEPT !["runner"] = @ \ {sig}]
    BY <1>2 DEF InterruptWorkflow
  <2>2. \A p \in Procs \ {"runner", "script"} : inbox'[p] = inbox[p]
    BY <2>1, <1>0 DEF Send
  <2>3. ~Live("script") => inbox'["script"] = inbox["script"]
    BY <2>1, <1>0 DEF Send
  <2> QED BY <1>2, <2>2, <2>3, <1>0, BecomeFrame DEF InterruptWorkflow, LowerFrame, Live
<1>3. CASE KillWorkflow
  <2>1. \A p \in Procs \ {"script"} : inbox'[p] = inbox[p]
    BY <1>3, <1>0 DEF KillWorkflow, Send
  <2>2. ~Live("script") => inbox'["script"] = inbox["script"]
    BY <1>3, <1>0 DEF KillWorkflow, Send
  <2> QED BY <1>3, <2>1, <2>2, <1>0, BecomeFrame DEF KillWorkflow, LowerFrame, Live
<1>4. CASE WorkflowEnded
  BY <1>4, <1>0, BecomeFrame DEF WorkflowEnded, LowerFrame, Live
<1>5. CASE RunnerDies
  BY <1>5, <1>0, EndFrame DEF RunnerDies, LowerFrame, Live
<1>6. CASE PostProcessed
  BY <1>6, <1>0, EndFrame DEF PostProcessed, LowerFrame, Live
<1> QED BY <1>1, <1>2, <1>3, <1>4, <1>5, <1>6 DEF RunnerStep

\* A script that stops leaves all but itself and its launch alone.
LEMMA ScriptTells ==
    ASSUME TypeOK, BornInv, NEW label \in {"ending", "cleaning"},
           st["script"] \in {"running", "ending"}, Become("script", label, Never),
           \A p \in Procs \ {"script", "launch"} : inbox'[p] = inbox[p],
           ~Live("launch") => inbox'["launch"] = inbox["launch"]
    PROVE  LowerFrame
<1>1. /\ {"runner", "script", "launch"} \subseteq Procs /\ Sup \subseteq Procs
      /\ \A p \in Sup : p \notin {"runner", "script", "launch"}
  BY ChainFacts
<1>2. st'["script"] = label /\ \A p \in Procs \ {"script"} : st'[p] = st[p]
  BY <1>1, BecomeFrame
<1>3. \A p \in Sup : st'[p] = st[p] /\ inbox'[p] = inbox[p]
  BY <1>1, <1>2
<1>4. ASSUME NEW p \in Procs, ~Live(p)' PROVE inbox'[p] = {}
  <2>1. p # "script" /\ ~Live(p)
    BY <1>2, <1>4 DEF Live
  <2>2. inbox[p] = {}
    BY <2>1 DEF BornInv
  <2> QED BY <2>1, <2>2
<1>5. st["runner"] \notin {"off", "preparing"} /\ st'["runner"] = st["runner"]
  BY <1>1, <1>2 DEF BornInv
<1>6. st'["script"] \notin {"off", "starting"}
  BY <1>2
<1> QED BY <1>3, <1>4, <1>5, <1>6 DEF LowerFrame

LEMMA ScriptFrame ==
    ASSUME TypeOK, BornInv, WorkflowStep \/ WindUp
    PROVE  LowerFrame
<1> USE ChainFacts
<1>0. /\ {"runner", "script", "launch"} \subseteq Procs /\ inbox \in [Procs -> SUBSET Signals]
      /\ \A p \in Sup : p \notin {"runner", "script", "launch"}
      /\ \A p \in Procs : ~Live(p) => inbox[p] = {}
      /\ st["script"] # "off" => st["runner"] \notin {"off", "preparing"}
      /\ st["launch"] # "off" => st["script"] \notin {"off", "starting"}
  BY DEF TypeOK, BornInv
<1>1. CASE StartLaunch
  <2>1. st' = [st EXCEPT !["script"] = "running", !["launch"] = "running"] /\ inbox' = inbox
    BY <1>1 DEF StartLaunch
  <2> QED BY <1>1, <2>1, <1>0 DEF StartLaunch, TypeOK, LowerFrame, Live
<1>2. CASE WindUp
  <2>1. \A p \in Procs \ {"launch"} : inbox'[p] = inbox[p]
    BY <1>2, <1>0 DEF WindUp, Send
  <2>2. ~Live("launch") => inbox'["launch"] = inbox["launch"]
    BY <1>2, <1>0 DEF WindUp, Send
  <2> QED BY <1>2, <2>1, <2>2, ScriptTells DEF WindUp
<1>3. CASE CleanUp
  <2>1. \A p \in Procs \ {"script", "launch"} : inbox'[p] = inbox[p]
    BY <1>3, <1>0 DEF CleanUp, SendFrom, Send
  <2>2. ~Live("launch") => inbox'["launch"] = inbox["launch"]
    BY <1>3, <1>0 DEF CleanUp, SendFrom, Send
  <2> QED BY <1>3, <2>1, <2>2, ScriptTells DEF CleanUp
<1>4. CASE ScriptEnds
  BY <1>4, <1>0, EndFrame DEF ScriptEnds, LowerFrame, Live
<1>5. CASE ScriptDies
  BY <1>5, <1>0, EndFrame DEF ScriptDies, LowerFrame, Live
<1>6. CASE LaunchStopping
  BY <1>6, <1>0, BecomeFrame DEF LaunchStopping, LowerFrame, Live
<1>7. CASE LaunchStopped
  BY <1>7, <1>0, EndFrame DEF LaunchStopped, LowerFrame, Live
<1> QED BY <1>1, <1>2, <1>3, <1>4, <1>5, <1>6, <1>7 DEF WorkflowStep

LEMMA BornInit == Init => BornInv
<1> SUFFICES ASSUME Init PROVE BornInv
  OBVIOUS
<1>1. st["runner"] = "off" /\ st["script"] = "off" /\ st["launch"] = "off" /\ \A p \in Procs : inbox[p] = {}
  BY ChainFacts DEF Init
<1>2. \A p \in Sup : st[Child(p)] = "off"
  BY ChainFacts DEF Init
<1> QED BY <1>1, <1>2 DEF BornInv

LEMMA BornStep == ASSUME TypeOK, BornInv, [Next]_vars PROVE BornInv'
<1>1. CASE Tick
  BY <1>1 DEF Tick, BornInv, Live
<1>2. ASSUME NEW sig \in Ways, Request(sig) PROVE BornInv'
  <2>1. st' = st /\ \A p \in Procs : ~Live(p) => inbox'[p] = inbox[p]
    BY <1>2 DEF Request, Send
  <2> QED BY <2>1 DEF BornInv, Live
<1>3. CASE UNCHANGED vars
  BY <1>3 DEF vars, BornInv, Live
<1> QED BY <1>1, <1>2, <1>3, SupBorn, LowerBorn, RunnerFrame, ScriptFrame DEF Next

-----------------------------------------------------------------------------
(* The workflow below the runner: nothing a supervisor does reaches it, as *)
(* start_new_session gives the script a group of its own.                  *)
LEMMA SupWorkflow == ASSUME TypeOK, BornInv, WorkflowInv, NEW p \in Sup, SupStep(p) PROVE WorkflowInv'
<1> USE ChainFacts
<1>0. p \notin {"runner", "script", "launch"} /\ {"runner", "script", "launch"} \subseteq Procs
  OBVIOUS
<1>1. /\ st'["script"] = st["script"] /\ st'["launch"] = st["launch"]
      /\ inbox'["script"] = inbox["script"] /\ inbox'["launch"] = inbox["launch"]
      /\ left'["runner"] = left["runner"] /\ left'["launch"] = left["launch"] /\ needs' = needs
      /\ \/ st'["runner"] = st["runner"]
         \/ st["runner"] = "off" /\ st'["runner"] = "preparing"
  BY <1>0, SupFrame DEF BornInv, Keep
<1>2. st["runner"] = "off" => st["script"] = "off" /\ inbox["script"] = {}
  BY <1>0 DEF BornInv, Live
<1> HIDE ChainFacts
<1> QED BY <1>1, <1>2 DEF WorkflowInv, NotYetAsked, KilledLast, CleaningAlone, GraceOutlastsLaunch,
      ScriptOutlivesLaunch, InTime, Live, Ended

LEMMA RequestWorkflow ==
    ASSUME Reached \subseteq Sup \cup {"runner"}, TypeOK, WorkflowInv, NEW sig \in Ways, Request(sig)
    PROVE  WorkflowInv'
<1>1. /\ {"script", "launch"} \cap Reached = {} /\ {"script", "launch"} \subseteq Procs
  BY ChainFacts
<1>2. inbox'["script"] = inbox["script"] /\ inbox'["launch"] = inbox["launch"]
  BY <1>1 DEF Request, Send
<1> QED BY <1>2 DEF Request, WorkflowInv, NotYetAsked, KilledLast, CleaningAlone,
      GraceOutlastsLaunch, ScriptOutlivesLaunch, InTime, Live, Ended

(* Time: the script is past its traps when the first tick of the grace     *)
(* comes, and the launch has begun to stop.                                *)
LEMMA TickWorkflow == ASSUME TypeOK, WorkflowInv, Tick PROVE WorkflowInv'
<1>0. {"runner", "script", "launch"} \subseteq Procs
  BY ChainFacts
<1>1. /\ st' = st /\ inbox' = inbox /\ needs' = needs
      /\ \A q \in {"runner", "launch"} : left'[q] = IF left[q] > 0 THEN left[q] - 1 ELSE left[q]
  BY <1>0 DEF Tick
<1>2. /\ Live("script") => inbox["script"] = {}
      /\ ~RunnerBusy /\ ~WorkflowBusy
  BY <1>0 DEF Tick, Busy
<1>3. needs \in Nat /\ left["runner"] \in Nat \cup {-1} /\ left["launch"] \in Nat \cup {-1}
      /\ st["script"] \in ScriptLabels /\ st["launch"] \in LaunchLabels
  BY <1>0, ChainAssumption DEF TypeOK, Never
<1>4. GraceOutlastsLaunch'
  <2> SUFFICES ASSUME st["runner"] = "polling" PROVE GraceOutlastsLaunch'
    BY <1>1 DEF GraceOutlastsLaunch
  <2>1. left["runner"] \in 1..2 /\ left'["runner"] = left["runner"] - 1
    BY <1>1, <1>2 DEF RunnerBusy, WorkflowInv, GraceOutlastsLaunch, WorkflowGrace
  <2>2. st["script"] \in {"cleaning", "ended"}
    BY <1>2, <1>3 DEF WorkflowInv, GraceOutlastsLaunch, Live, ScriptLabels, WorkflowBusy
  <2>3. InTime => st["launch"] # "running"
    BY <2>2, <1>2 DEF WorkflowInv, CleaningAlone, ScriptOutlivesLaunch, Live, Ended, WorkflowBusy
  <2>4. st["launch"] = "stopping" => left'["launch"] = left["launch"] - 1 /\ left["launch"] \in Nat
    BY <1>1, <1>2, <1>3 DEF WorkflowBusy, WorkflowInv
  <2> QED BY <1>1, <1>3, <2>1, <2>2, <2>3, <2>4 DEF WorkflowInv, GraceOutlastsLaunch, InTime, WorkflowGrace
<1>5. st'["launch"] = "stopping" => left'["launch"] \in 0..needs'
  BY <1>1, <1>2, <1>3 DEF WorkflowInv
<1> QED BY <1>1, <1>4, <1>5 DEF WorkflowInv, NotYetAsked, KilledLast, CleaningAlone,
      ScriptOutlivesLaunch, InTime, Live, Ended

(* _run_workflow and _terminate_process_group.                             *)
LEMMA RunnerWorkflow ==
    ASSUME TypeOK, BornInv, WorkflowInv, RunnerStep \/ PostProcessed
    PROVE  WorkflowInv'
<1>0. {"runner", "script", "launch"} \subseteq Procs
  BY ChainFacts
<1>1. /\ inbox \in [Procs -> SUBSET Signals] /\ needs \in Nat
      /\ st["script"] \in ScriptLabels /\ st["launch"] \in LaunchLabels
  BY ChainAssumption DEF TypeOK
<1>2. CASE StartWorkflow
  <2>1. st["script"] = "off" /\ inbox["script"] = {}
    BY <1>2, <1>0 DEF StartWorkflow, BornInv, Live
  <2>2. /\ st'["runner"] = "waiting" /\ st'["script"] = "starting" /\ st'["launch"] = st["launch"]
    BY <1>2, <1>0 DEF StartWorkflow, TypeOK
  <2> QED BY <1>2, <2>1, <2>2 DEF StartWorkflow, WorkflowInv, NotYetAsked, KilledLast, CleaningAlone,
      GraceOutlastsLaunch, ScriptOutlivesLaunch, InTime, Live, Ended
<1>3. CASE InterruptWorkflow
  <2>1. PICK sig \in inbox["runner"] \ {"KILL"} :
            inbox' = [Send({"script"}, sig) EXCEPT !["runner"] = @ \ {sig}]
    BY <1>3 DEF InterruptWorkflow
  <2>2. inbox'["script"] = IF Live("script") THEN inbox["script"] \cup {sig} ELSE inbox["script"]
    BY <2>1, <1>0 DEF Send
  <2>3. inbox'["launch"] = inbox["launch"]
    BY <2>1, <1>0 DEF Send
  <2>4. /\ st'["runner"] = "polling" /\ left'["runner"] = WorkflowGrace
        /\ \A q \in {"script", "launch"} : st'[q] = st[q] /\ left'[q] = left[q]
        /\ needs' = needs /\ st["runner"] = "waiting"
    BY <1>3, <1>0, BecomeFrame DEF InterruptWorkflow, Keep
  <2>5. inbox["script"] = {} /\ st["script"] \notin {"cleaning", "off"}
    BY <2>4 DEF WorkflowInv, NotYetAsked
  <2> QED BY <1>1, <2>1, <2>2, <2>3, <2>4, <2>5 DEF WorkflowInv, NotYetAsked, KilledLast, CleaningAlone,
      GraceOutlastsLaunch, ScriptOutlivesLaunch, InTime, Live, Ended, WorkflowGrace
<1>4. CASE KillWorkflow
  <2>1. inbox'["script"] = IF Live("script") THEN inbox["script"] \cup {"KILL"} ELSE inbox["script"]
    BY <1>4, <1>0 DEF KillWorkflow, Send
  <2>2. inbox'["launch"] = inbox["launch"]
    BY <1>4, <1>0 DEF KillWorkflow, Send
  <2>3. /\ st'["runner"] = "reaping" /\ st["runner"] = "polling" /\ left["runner"] = 0
        /\ \A q \in {"script", "launch"} : st'[q] = st[q] /\ left'[q] = left[q]
        /\ needs' = needs
    BY <1>4, <1>0, BecomeFrame DEF KillWorkflow, Keep
  <2>4. st["script"] \in {"cleaning", "ended"} /\ (InTime => ~Live("launch"))
    BY <2>3, <1>1 DEF WorkflowInv, GraceOutlastsLaunch, WorkflowGrace, Live, LaunchLabels, InTime
  <2> QED BY <1>1, <2>1, <2>2, <2>3, <2>4 DEF WorkflowInv, NotYetAsked, KilledLast, CleaningAlone,
      GraceOutlastsLaunch, ScriptOutlivesLaunch, InTime, Live, Ended
<1>5. CASE WorkflowEnded
  <2>1. /\ st'["runner"] = "post" /\ inbox' = inbox /\ needs' = needs /\ Ended("script")
        /\ st["runner"] \in {"waiting", "polling", "reaping"}
        /\ \A q \in {"script", "launch"} : st'[q] = st[q] /\ left'[q] = left[q]
    BY <1>5, <1>0, BecomeFrame DEF WorkflowEnded
  <2>2. "KILL" \notin inbox'["script"]
    BY <2>1, <1>0 DEF BornInv, Live, Ended
  <2> QED BY <2>1, <2>2 DEF WorkflowInv, NotYetAsked, KilledLast, CleaningAlone,
      GraceOutlastsLaunch, ScriptOutlivesLaunch, InTime, Live, Ended
<1>6. CASE RunnerDies \/ PostProcessed
  <2>1. /\ st'["runner"] = "ended" /\ needs' = needs
        /\ \A q \in {"script", "launch"} : st'[q] = st[q] /\ left'[q] = left[q] /\ inbox'[q] = inbox[q]
    BY <1>6, <1>0, EndFrame DEF RunnerDies, PostProcessed, Keep
  <2> QED BY <2>1 DEF WorkflowInv, NotYetAsked, KilledLast, CleaningAlone,
      GraceOutlastsLaunch, ScriptOutlivesLaunch, InTime, Live, Ended
<1> QED BY <1>2, <1>3, <1>4, <1>5, <1>6 DEF RunnerStep

(* cleanup and on_signal of the workflow script.                           *)
LEMMA ScriptWorkflow ==
    ASSUME TypeOK, BornInv, WorkflowInv, WorkflowStep \/ WindUp
    PROVE  WorkflowInv'
<1>0. {"runner", "script", "launch"} \subseteq Procs
  BY ChainFacts
<1>1. /\ inbox \in [Procs -> SUBSET Signals] /\ needs \in Nat
      /\ st["script"] \in ScriptLabels /\ st["launch"] \in LaunchLabels
      /\ st["runner"] \in RunnerLabels
  BY ChainAssumption DEF TypeOK
<1>2. CASE StartLaunch
  <2>1. /\ st'["script"] = "running" /\ st'["launch"] = "running" /\ st'["runner"] = st["runner"]
        /\ st["script"] = "starting" /\ inbox["script"] = {}
    BY <1>2, <1>0 DEF StartLaunch, TypeOK
  <2> QED BY <1>2, <2>1 DEF StartLaunch, Keep, WorkflowInv, NotYetAsked, KilledLast, CleaningAlone,
      GraceOutlastsLaunch, ScriptOutlivesLaunch, InTime, Live, Ended
<1>3. CASE WindUp
  <2>1. /\ st'["script"] = "ending" /\ st["script"] = "running" /\ inbox["script"] = {}
        /\ \A q \in {"runner", "launch"} : st'[q] = st[q] /\ left'[q] = left[q]
        /\ needs' = needs
    BY <1>3, <1>0, BecomeFrame DEF WindUp, Keep
  <2>2. inbox'["script"] = {}
    BY <1>3, <1>0 DEF WindUp, Send
  <2> QED BY <2>1, <2>2 DEF WorkflowInv, NotYetAsked, KilledLast, CleaningAlone,
      GraceOutlastsLaunch, ScriptOutlivesLaunch, InTime, Live, Ended
<1>4. CASE CleanUp
  <2>1. /\ st'["script"] = "cleaning" /\ st["script"] \in {"running", "ending"} /\ inbox["script"] # {}
        /\ \A q \in {"runner", "launch"} : st'[q] = st[q] /\ left'[q] = left[q]
        /\ needs' = needs
    BY <1>4, <1>0, BecomeFrame DEF CleanUp, Keep
  <2>2. inbox'["script"] = {} /\ (Live("launch") => inbox'["launch"] # {})
    BY <1>4, <1>0 DEF CleanUp, SendFrom, Send
  <2>3. st["runner"] \notin {"off", "preparing", "waiting", "reaping", "post"}
    BY <2>1, <1>4 DEF CleanUp, WorkflowInv, NotYetAsked, Ended
  <2> QED BY <2>1, <2>2, <2>3, <1>1 DEF WorkflowInv, NotYetAsked, KilledLast, CleaningAlone,
      GraceOutlastsLaunch, ScriptOutlivesLaunch, InTime, Live, Ended
<1>5. CASE ScriptEnds \/ ScriptDies
  <2>1. /\ st'["script"] = "ended" /\ inbox'["script"] = {} /\ st["script"] # "off"
        /\ \A q \in {"runner", "launch"} : st'[q] = st[q] /\ left'[q] = left[q] /\ inbox'[q] = inbox[q]
        /\ needs' = needs
    BY <1>5, <1>0, EndFrame DEF ScriptEnds, ScriptDies, Keep, Live
  <2>2. InTime => ~Live("launch")
    BY <1>5 DEF ScriptEnds, ScriptDies, BornInv, WorkflowInv, KilledLast, CleaningAlone, Live, Ended
  <2> QED BY <2>1, <2>2 DEF WorkflowInv, NotYetAsked, KilledLast, CleaningAlone,
      GraceOutlastsLaunch, ScriptOutlivesLaunch, InTime, Live, Ended
<1>6. CASE LaunchStopping
  <2>1. /\ st'["launch"] = "stopping" /\ left'["launch"] = needs /\ st["launch"] = "running"
        /\ \A q \in {"runner", "script"} : st'[q] = st[q] /\ left'[q] = left[q] /\ inbox'[q] = inbox[q]
        /\ needs' = needs
    BY <1>6, <1>0, <1>1, BecomeFrame DEF LaunchStopping, Keep
  <2> QED BY <2>1, <1>1 DEF WorkflowInv, NotYetAsked, KilledLast, CleaningAlone,
      GraceOutlastsLaunch, ScriptOutlivesLaunch, InTime, Live, Ended, WorkflowGrace
<1>7. CASE LaunchStopped
  <2>1. /\ st'["launch"] = "ended"
        /\ \A q \in {"runner", "script"} : st'[q] = st[q] /\ left'[q] = left[q] /\ inbox'[q] = inbox[q]
        /\ needs' = needs
    BY <1>7, <1>0, EndFrame DEF LaunchStopped, Keep
  <2> QED BY <2>1 DEF WorkflowInv, NotYetAsked, KilledLast, CleaningAlone,
      GraceOutlastsLaunch, ScriptOutlivesLaunch, InTime, Live, Ended
<1> QED BY <1>2, <1>3, <1>4, <1>5, <1>6, <1>7 DEF WorkflowStep

LEMMA WorkflowInit == Init => WorkflowInv
<1> SUFFICES ASSUME Init PROVE WorkflowInv
  OBVIOUS
<1>1. st["runner"] = "off" /\ st["script"] = "off" /\ st["launch"] = "off" /\ \A p \in Procs : inbox[p] = {}
  BY ChainFacts DEF Init
<1>2. inbox["script"] = {}
  BY <1>1, ChainFacts
<1> QED BY <1>1, <1>2 DEF WorkflowInv, NotYetAsked, KilledLast, CleaningAlone,
      GraceOutlastsLaunch, ScriptOutlivesLaunch, Ended

LEMMA WorkflowNext ==
    ASSUME Reached \subseteq Sup \cup {"runner"}, TypeOK, BornInv, WorkflowInv, [Next]_vars
    PROVE  WorkflowInv'
<1>1. CASE UNCHANGED vars
  BY <1>1 DEF vars, WorkflowInv, NotYetAsked, KilledLast, CleaningAlone,
      GraceOutlastsLaunch, ScriptOutlivesLaunch, InTime, Live, Ended
<1> QED BY <1>1, SupWorkflow, RunnerWorkflow, ScriptWorkflow, TickWorkflow, RequestWorkflow DEF Next

(* Whoever of the chain is signalled, and however often, the runner is the *)
(* only one who signals the script, in order, and the launch that stops in *)
(* time is gone before the grace of _terminate_process_group is over.      *)
THEOREM WorkflowHolds ==
    ASSUME Reached \subseteq Sup \cup {"runner"}
    PROVE  Spec => [](TypeOK /\ BornInv /\ WorkflowInv)
<1>1. Init => TypeOK /\ BornInv /\ WorkflowInv
  BY TypeInit, BornInit, WorkflowInit
<1>2. (TypeOK /\ BornInv /\ WorkflowInv) /\ [Next]_vars => (TypeOK /\ BornInv /\ WorkflowInv)'
  BY TypeStep, BornStep, WorkflowNext
<1> QED BY <1>1, <1>2, PTL DEF Spec

(* "The workflow may still be running, so starting post-processing could   *)
(* corrupt evidence": whatever the operator asks of the supervisors and the *)
(* runner, a run is judged when its script has ended and, if it stops within *)
(* the grace, its launch too.                                              *)
THEOREM PostAlone ==
    ASSUME Reached \subseteq Sup \cup {"runner"}
    PROVE  Spec => []PostProcessingIsAlone
<1>1. WorkflowInv => PostProcessingIsAlone
  BY DEF WorkflowInv, ScriptOutlivesLaunch, PostProcessingIsAlone, Live, Ended
<1> QED BY <1>1, WorkflowHolds, PTL

\* What a step of process p leaves of another one.
Untouched(q) == st'[q] = st[q] /\ left'[q] = left[q] /\ inbox'[q] = inbox[q]
Told(q, sig) ==
    /\ st'[q] = st[q] /\ left'[q] = left[q]
    /\ inbox'[q] = IF Live(q) THEN inbox[q] \cup {sig} ELSE inbox[q]

(* One request, seen from the process that handles it.                     *)
LEMMA SendFromFrame ==
    ASSUME TypeOK, NEW p \in Procs, NEW targets, NEW sig, NEW label, NEW ticks,
           inbox' = SendFrom(p, targets, sig), Become(p, label, ticks), Keep
    PROVE  /\ st'[p] = label /\ left'[p] = ticks /\ inbox'[p] = {}
           /\ \A q \in Procs \ {p} : q \in targets => Told(q, sig)
           /\ \A q \in Procs \ {p} : q \notin targets => Untouched(q)
           /\ UNCHANGED <<record, requests>>
<1>1. inbox \in [Procs -> SUBSET Signals]
  BY DEF TypeOK
<1>2. inbox'[p] = {}
  BY <1>1 DEF SendFrom, Send
<1>3. \A q \in Procs \ {p} : inbox'[q] = IF q \in targets /\ Live(q) THEN inbox[q] \cup {sig} ELSE inbox[q]
  BY <1>1 DEF SendFrom, Send
<1>4. /\ st'[p] = label /\ left'[p] = ticks
      /\ \A q \in Procs \ {p} : st'[q] = st[q] /\ left'[q] = left[q]
  BY BecomeFrame
<1>5. ASSUME NEW q \in Procs \ {p}, q \in targets PROVE Told(q, sig)
  BY <1>3, <1>4, <1>5 DEF Told
<1>6. ASSUME NEW q \in Procs \ {p}, q \notin targets PROVE Untouched(q)
  BY <1>3, <1>4, <1>6 DEF Untouched
<1>7. UNCHANGED <<record, requests>>
  BY DEF Keep
<1> QED BY <1>2, <1>4, <1>5, <1>6, <1>7

LEMMA StartCli ==
    ASSUME Chain = StartChain, TypeOK, BornInv, CommonInv, StartInv, SupStep("cli")
    PROVE  (CommonInv /\ StartInv)'
<1>0. /\ Sup = {"cli", "session", "inner"} /\ Child("cli") = "session"
      /\ {"cli", "session", "inner", "runner", "script", "launch"} = Procs
      /\ OwnsGroup("cli") /\ GroupBelow("cli") = {"session"}
  BY StartFacts, ChainFacts DEF OwnsGroup, GroupBelow
<1>1. /\ inbox \in [Procs -> SUBSET Signals] /\ requests \in Nat
      /\ left \in [Procs -> Nat \cup {Never}]
  BY ChainAssumption DEF TypeOK
<1>2. /\ "KILL" \notin inbox["cli"] /\ "KILL" \notin inbox["session"]
      /\ "KILL" \notin inbox["inner"] /\ "KILL" \notin inbox["runner"]
  BY <1>0 DEF CommonInv, NoKill
<1>3. CASE Spawn("cli")
  <2>1. /\ st["session"] = "off" /\ st["inner"] \in {"off"} /\ st["runner"] = "off"
    BY <1>3, <1>0, StartFacts DEF Spawn, BornInv
  <2>2. /\ st' = [st EXCEPT !["cli"] = "waiting", !["session"] = "spawning"]
        /\ UNCHANGED <<inbox, left, record, requests>>
    BY <1>3, <1>0 DEF Spawn, Keep
  <2>3. /\ st'["cli"] = "waiting" /\ st'["session"] = "spawning"
        /\ st'["inner"] = st["inner"] /\ st'["runner"] = st["runner"] /\ st'["script"] = st["script"]
    BY <2>2, <1>0 DEF TypeOK
  <2>4. inbox["session"] = {} /\ inbox["inner"] = {} /\ inbox["runner"] = {} /\ st["cli"] = "spawning"
    BY <2>1, <1>3, <1>0 DEF BornInv, Live, Spawn
  <2> QED BY <1>0, <1>2, <2>1, <2>2, <2>3, <2>4 DEF CommonInv, CliInv, NoKill, RecordInv, StartInv,
        CliOverSession, SessionOverInner, InnerOverRunner, Calm, Ended
<1>4. CASE ChildEnded("cli")
  <2>1. /\ st'["cli"] = "ended" /\ inbox'["cli"] = {} /\ st["session"] = "ended"
        /\ Untouched("session") /\ Untouched("inner") /\ Untouched("runner") /\ Untouched("script")
        /\ UNCHANGED <<record, requests>>
    BY <1>4, <1>0, EndFrame DEF ChildEnded, Ended, Keep, Untouched
  <2> QED BY <1>0, <1>2, <2>1 DEF CommonInv, CliInv, NoKill, RecordInv, StartInv,
        CliOverSession, SessionOverInner, InnerOverRunner, Calm, Ended, RunnerUnder, RunnerPressed, Untouched
<1>5. CASE FirstSignal("cli")
  <2>1. PICK sig \in inbox["cli"] \ {"KILL"} : inbox' = SendFrom("cli", {"session"}, sig)
    BY <1>5, <1>0 DEF FirstSignal
  <2>2. /\ st'["cli"] = "grace" /\ inbox'["cli"] = {} /\ left'["cli"] = 7 /\ st["cli"] = "waiting"
        /\ Told("session", sig) /\ Untouched("inner") /\ Untouched("runner") /\ Untouched("script")
        /\ UNCHANGED <<record, requests>>
    BY <1>5, <1>0, <2>1, SendFromFrame DEF FirstSignal, Grace
  <2>3. sig \in {"INT", "TERM"} /\ {sig} \in One /\ requests > 0
    BY <2>1, <1>1 DEF CommonInv, CliInv, One
  <2>4. st["session"] \in {"waiting", "finishing", "ended"} /\ inbox["session"] = {}
    <3>1. st["session"] \notin {"off", "spawning"}
      BY <2>3, <1>0, StartFacts DEF CommonInv, CliInv, BornInv
    <3>2. Calm("session") /\ st["session"] \in SupLabels
      BY <2>2, <1>0 DEF StartInv, CliOverSession, TypeOK
    <3> QED BY <3>1, <3>2 DEF Calm, SupLabels
  <2> QED BY <1>0, <1>1, <1>2, <2>2, <2>3, <2>4 DEF CommonInv, CliInv, NoKill, RecordInv, StartInv,
        CliOverSession, SessionOverInner, InnerOverRunner, Calm, Ended, Live, RunnerUnder, RunnerPressed, Untouched, Told
<1>6. ~Terminate("cli")
  <2>1. st["cli"] = "grace" => inbox["cli"] = {} /\ left["cli"] # 0
    BY <1>1 DEF StartInv, CliOverSession, SessionOverInner
  <2> QED BY <2>1 DEF Terminate, Prodded
<1>8. ~Kill("cli") /\ ~Finish("cli")
  BY DEF Kill, Finish, StartInv, CliOverSession
<1>7. ~Die("cli")
  BY <1>2 DEF Die, CommonInv, CliInv
<1> QED BY <1>3, <1>4, <1>5, <1>6, <1>7, <1>8 DEF SupStep

RunnerHeard == inbox["runner"] # {} => st["runner"] \in {"waiting", "post"}

\* A step of the runner, seen from above.
RunnerActs ==
    /\ \A p \in Sup : Untouched(p)
    /\ inbox'["runner"] \subseteq inbox["runner"]
    /\ requests' = requests
    /\ st'["runner"] \in {"off", "preparing"} => st["runner"] = st'["runner"]
    /\ \/ /\ st["runner"] = "preparing" /\ st'["runner"] = "waiting" /\ inbox' = inbox
       \/ /\ st["runner"] = "waiting" /\ inbox["runner"] # {} /\ st'["runner"] = "polling"
          /\ left'["runner"] = WorkflowGrace
          /\ inbox["runner"] \in One => inbox'["runner"] = {}
       \/ /\ st["runner"] = "polling" /\ left["runner"] = 0 /\ st'["runner"] = "reaping"
       \/ /\ st["runner"] \in {"waiting", "polling", "reaping"} /\ inbox["runner"] = {}
          /\ st'["runner"] = "post" /\ record' = "result"
       \/ /\ Live("runner") /\ st'["runner"] = "ended" /\ inbox'["runner"] = {}
          /\ \/ st["runner"] = "post" /\ inbox["runner"] = {} /\ record' = "sealed"
             \/ inbox["runner"] # {} /\ record' = record
                /\ (st["runner"] # "waiting" \/ "KILL" \in inbox["runner"])

(* A step of the runner, seen from above: what its parents count on holds  *)
(* whatever it does.                                                       *)
LEMMA RunnerSeen ==
    ASSUME TypeOK, BornInv, RunnerStep \/ PostProcessed
    PROVE  RunnerActs
<1>0. /\ {"runner", "script", "launch"} \subseteq Procs /\ inbox \in [Procs -> SUBSET Signals]
      /\ \A p \in Sup : p \in Procs /\ p \notin {"runner", "script", "launch"}
  BY ChainFacts DEF TypeOK
<1>1. CASE StartWorkflow
  <2>1. st' = [st EXCEPT !["runner"] = "waiting", !["script"] = "starting"]
    BY <1>1 DEF StartWorkflow
  <2>2. st'["runner"] = "waiting" /\ \A p \in Sup : st'[p] = st[p]
    BY <2>1, <1>0 DEF TypeOK
  <2> QED BY <1>1, <2>2 DEF StartWorkflow, RunnerActs, Untouched
<1>2. CASE InterruptWorkflow
  <2>1. PICK sig \in inbox["runner"] \ {"KILL"} :
            inbox' = [Send({"script"}, sig) EXCEPT !["runner"] = @ \ {sig}]
    BY <1>2 DEF InterruptWorkflow
  <2>2. inbox'["runner"] = inbox["runner"] \ {sig} /\ \A p \in Sup : inbox'[p] = inbox[p]
    BY <2>1, <1>0 DEF Send
  <2>3. inbox["runner"] \in One => inbox'["runner"] = {}
    BY <2>1, <2>2 DEF One
  <2> QED BY <1>2, <1>0, <2>1, <2>2, <2>3, BecomeFrame DEF InterruptWorkflow, Keep, RunnerActs, Untouched
<1>3. CASE KillWorkflow
  <2>1. inbox'["runner"] = inbox["runner"] /\ \A p \in Sup : inbox'[p] = inbox[p]
    BY <1>3, <1>0 DEF KillWorkflow, Send
  <2> QED BY <1>3, <1>0, <2>1, BecomeFrame DEF KillWorkflow, Keep, RunnerActs, Untouched
<1>4. CASE WorkflowEnded
  BY <1>4, <1>0, BecomeFrame DEF WorkflowEnded, RunnerActs, Untouched
<1>5. CASE RunnerDies
  BY <1>5, <1>0, EndFrame DEF RunnerDies, Keep, RunnerActs, Untouched
<1>6. CASE PostProcessed
  BY <1>6, <1>0, EndFrame DEF PostProcessed, RunnerActs, Untouched, Live
<1> QED BY <1>1, <1>2, <1>3, <1>4, <1>5, <1>6 DEF RunnerStep

LEMMA RunnerSettles ==
    ASSUME TypeOK, RunnerActs
    PROVE  /\ Calm("runner") => Calm("runner")'
           /\ \A m \in Sup : \A g \in {4, 7} : RunnerUnder(m, g) => RunnerUnder(m, g)'
           /\ RunnerPressed => RunnerPressed'
           /\ ~Ended("runner")
<1>1. ASSUME Calm("runner") PROVE Calm("runner")'
  BY <1>1 DEF Calm, RunnerActs
<1>2. ASSUME NEW m \in Sup, NEW g \in {4, 7}, RunnerUnder(m, g) PROVE RunnerUnder(m, g)'
  BY <1>2 DEF RunnerUnder, RunnerActs, Untouched, WorkflowGrace, One
<1>3. ASSUME RunnerPressed PROVE RunnerPressed'
  BY <1>3 DEF RunnerPressed, RunnerActs, Ended, Live
<1> QED BY <1>1, <1>2, <1>3 DEF RunnerActs, Ended, Live

LEMMA StartSession ==
    ASSUME Chain = StartChain, TypeOK, BornInv, CommonInv, StartInv, SupStep("session")
    PROVE  (CommonInv /\ StartInv)'
<1>0. /\ Sup = {"cli", "session", "inner"} /\ Child("session") = "inner"
      /\ {"cli", "session", "inner", "runner", "script", "launch"} = Procs
      /\ OwnsGroup("session") /\ GroupBelow("session") = {"inner", "runner"}
  BY StartFacts, ChainFacts DEF OwnsGroup, GroupBelow
<1>1. /\ inbox \in [Procs -> SUBSET Signals] /\ requests \in Nat
      /\ left \in [Procs -> Nat \cup {Never}]
      /\ st["cli"] \in SupLabels /\ st["session"] \in SupLabels /\ st["inner"] \in SupLabels
      /\ st["runner"] \in RunnerLabels
  BY <1>0, ChainAssumption DEF TypeOK
<1>2. /\ "KILL" \notin inbox["cli"] /\ "KILL" \notin inbox["session"]
      /\ "KILL" \notin inbox["inner"] /\ "KILL" \notin inbox["runner"]
  BY <1>0 DEF CommonInv, NoKill
<1>3. CASE Spawn("session")
  <2>1. st["inner"] = "off" /\ st["runner"] = "off" /\ st["session"] = "spawning"
    BY <1>3, <1>0, StartFacts DEF Spawn, BornInv
  <2>2. /\ st' = [st EXCEPT !["session"] = "waiting", !["inner"] = "spawning"]
        /\ UNCHANGED <<inbox, left, record, requests>>
    BY <1>3, <1>0 DEF Spawn, Keep
  <2>3. /\ st'["session"] = "waiting" /\ st'["inner"] = "spawning"
        /\ st'["cli"] = st["cli"] /\ st'["runner"] = st["runner"] /\ st'["script"] = st["script"]
    BY <2>2, <1>0 DEF TypeOK
  <2>4. inbox["inner"] = {} /\ inbox["runner"] = {} /\ st["cli"] # "grace"
    BY <2>1, <1>0 DEF BornInv, Live, StartInv, CliOverSession
  <2> QED BY <1>0, <1>2, <2>1, <2>2, <2>3, <2>4 DEF CommonInv, CliInv, NoKill, RecordInv, StartInv,
        CliOverSession, SessionOverInner, InnerOverRunner, Calm, Ended
<1>4. CASE ChildEnded("session")
  <2>1. /\ st'["session"] = "finishing" /\ inbox' = inbox /\ st["inner"] = "ended"
        /\ st["session"] \in {"waiting", "grace", "terminating", "reaping"} /\ inbox["session"] = {}
        /\ Untouched("cli") /\ Untouched("inner") /\ Untouched("runner") /\ Untouched("script")
        /\ UNCHANGED <<record, requests>>
    BY <1>4, <1>0, BecomeFrame DEF ChildEnded, Ended, Keep, Untouched
  <2>2. st["cli"] = "grace" => left["cli"] > 0
    BY <2>1, <1>1 DEF StartInv, CliOverSession, SessionOverInner, One
  <2> QED BY <1>0, <1>2, <2>1, <2>2 DEF CommonInv, CliInv, NoKill, RecordInv, StartInv,
        CliOverSession, SessionOverInner, InnerOverRunner, Calm, Ended, Untouched
<1>5. CASE Finish("session") \/ Die("session")
  <2>1. st["session"] = "finishing"
    BY <1>5, <1>2 DEF Finish, Die, StartInv, CliOverSession, SessionOverInner, Calm, Live, Ended
  <2>2. /\ st'["session"] = "ended" /\ inbox'["session"] = {}
        /\ Untouched("cli") /\ Untouched("inner") /\ Untouched("runner") /\ Untouched("script")
        /\ UNCHANGED <<record, requests>>
    BY <1>5, <1>0, EndFrame DEF Finish, Die, Keep, Untouched
  <2> QED BY <1>0, <1>2, <2>1, <2>2 DEF CommonInv, CliInv, NoKill, RecordInv, StartInv,
        CliOverSession, SessionOverInner, InnerOverRunner, Calm, Ended, Untouched
<1>6. CASE FirstSignal("session")
  <2>1. PICK sig \in inbox["session"] \ {"KILL"} : inbox' = SendFrom("session", {"inner", "runner"}, sig)
    BY <1>6, <1>0 DEF FirstSignal
  <2>2. /\ st'["session"] = "grace" /\ inbox'["session"] = {} /\ left'["session"] = 4
        /\ st["session"] = "waiting"
        /\ Told("inner", sig) /\ Told("runner", sig) /\ Untouched("cli") /\ Untouched("script")
        /\ UNCHANGED <<record, requests>>
    BY <1>6, <1>0, <2>1, SendFromFrame DEF FirstSignal, Grace
  <2>3. sig \in {"INT", "TERM"} /\ {sig} \in One
    BY <2>1, <1>0, <1>1 DEF One, Signals
  <2>4. st["cli"] = "grace" /\ left["cli"] = 7 /\ inbox["cli"] = {} /\ requests > 0
    BY <2>1, <2>2, <1>1 DEF CommonInv, CliInv, StartInv, CliOverSession, Calm, Ended
  <2>5. /\ st["runner"] \in {"waiting", "post", "ended"} /\ inbox["runner"] = {}
    BY <2>2, <2>4, <1>1 DEF CommonInv, CliInv, StartInv, SessionOverInner, Calm, RunnerLabels
  <2>6. st["inner"] \in {"waiting", "ended"} /\ inbox["inner"] = {}
    <3>1. st["inner"] \notin {"off", "spawning"}
      BY <2>5, <1>0, StartFacts DEF BornInv
    <3> QED BY <3>1, <2>2, <1>1 DEF StartInv, SessionOverInner, InnerOverRunner, Calm, SupLabels
  <2>7. RunnerUnder("session", 4)'
    BY <2>2, <2>3, <2>5 DEF RunnerUnder, Told, Live, One
  <2> QED BY <1>0, <1>1, <1>2, <2>2, <2>3, <2>4, <2>5, <2>6, <2>7 DEF CommonInv, CliInv, NoKill, RecordInv,
        StartInv, CliOverSession, SessionOverInner, InnerOverRunner, Calm, Ended, Live, Untouched, Told
<1>7. CASE Terminate("session")
  <2>1. /\ inbox' = SendFrom("session", {"inner", "runner"}, "TERM")
        /\ Become("session", "terminating", 2) /\ Keep /\ st["session"] = "grace"
        /\ inbox["session"] # {} \/ left["session"] = 0
    BY <1>7, <1>0 DEF Terminate, Prodded, TerminateWindow
  <2>2. /\ st'["session"] = "terminating" /\ inbox'["session"] = {} /\ left'["session"] = 2
        /\ Told("inner", "TERM") /\ Told("runner", "TERM") /\ Untouched("cli") /\ Untouched("script")
        /\ UNCHANGED <<record, requests>>
    BY <1>0, <2>1, SendFromFrame
  <2>3. inbox["session"] = {} /\ left["session"] = 0
    BY <2>1 DEF StartInv, CliOverSession, Calm, Ended
  <2>4. st["runner"] \in {"post", "ended"}
    BY <2>1, <2>3 DEF StartInv, SessionOverInner, RunnerUnder, WorkflowGrace
  <2>5. st["inner"] \in {"grace", "ended"}
    BY <2>1, <2>3 DEF StartInv, SessionOverInner
  <2>6. RunnerPressed'
    BY <2>2, <2>4 DEF RunnerPressed, Told, Live, Ended
  <2>7. st["cli"] = "grace" => left["cli"] = 3
    BY <2>1, <2>3 DEF StartInv, CliOverSession
  <2> QED BY <1>0, <1>1, <1>2, <2>1, <2>2, <2>3, <2>4, <2>5, <2>6, <2>7 DEF CommonInv, CliInv, NoKill, RecordInv,
        StartInv, CliOverSession, SessionOverInner, InnerOverRunner, Calm, Ended, Live, Untouched, Told
<1>8. ~Kill("session")
  <2>1. st["session"] = "terminating" => left["session"] = 2 /\ inbox["session"] = {}
    BY DEF StartInv, CliOverSession, SessionOverInner, Calm, Ended
  <2> QED BY <2>1 DEF Kill, Prodded
<1> QED BY <1>3, <1>4, <1>5, <1>6, <1>7, <1>8 DEF SupStep

LEMMA StartInner ==
    ASSUME Chain = StartChain, TypeOK, BornInv, CommonInv, StartInv, SupStep("inner")
    PROVE  (CommonInv /\ StartInv)'
<1>0. /\ Sup = {"cli", "session", "inner"} /\ Child("inner") = "runner"
      /\ {"cli", "session", "inner", "runner", "script", "launch"} = Procs
      /\ ~OwnsGroup("inner")
  BY StartFacts, ChainFacts DEF OwnsGroup
<1>1. /\ inbox \in [Procs -> SUBSET Signals] /\ requests \in Nat
      /\ left \in [Procs -> Nat \cup {Never}]
      /\ st["session"] \in SupLabels /\ st["inner"] \in SupLabels
  BY <1>0, ChainAssumption DEF TypeOK
<1>2. /\ "KILL" \notin inbox["cli"] /\ "KILL" \notin inbox["session"]
      /\ "KILL" \notin inbox["inner"] /\ "KILL" \notin inbox["runner"]
  BY <1>0 DEF CommonInv, NoKill
<1>3. CASE Spawn("inner")
  <2>1. st["runner"] = "off" /\ st["inner"] = "spawning"
    BY <1>3, <1>0, StartFacts DEF Spawn, BornInv
  <2>2. /\ st' = [st EXCEPT !["inner"] = "waiting", !["runner"] = "preparing"]
        /\ UNCHANGED <<inbox, left, record, requests>>
    BY <1>3, <1>0 DEF Spawn, Keep
  <2>3. /\ st'["inner"] = "waiting" /\ st'["runner"] = "preparing"
        /\ st'["cli"] = st["cli"] /\ st'["session"] = st["session"] /\ st'["script"] = st["script"]
    BY <2>2, <1>0 DEF TypeOK
  <2>4. inbox["inner"] = {} /\ inbox["runner"] = {} /\ st["session"] \in {"off", "spawning", "waiting"}
    <3>1. st["session"] \in {"off", "spawning", "waiting"}
      BY <2>1, <1>1 DEF StartInv, SessionOverInner, Ended, SupLabels
    <3> QED BY <3>1 DEF StartInv, SessionOverInner, Calm
  <2> QED BY <1>0, <1>2, <2>1, <2>2, <2>3, <2>4 DEF CommonInv, CliInv, NoKill, RecordInv, StartInv,
        CliOverSession, SessionOverInner, InnerOverRunner, Calm, Ended
<1>4. CASE ChildEnded("inner")
  <2>1. /\ st'["inner"] = "ended" /\ inbox'["inner"] = {} /\ st["runner"] = "ended"
        /\ Untouched("cli") /\ Untouched("session") /\ Untouched("runner") /\ Untouched("script")
        /\ UNCHANGED <<record, requests>>
    BY <1>4, <1>0, EndFrame DEF ChildEnded, Ended, Keep, Untouched
  <2> QED BY <1>0, <1>2, <2>1 DEF CommonInv, CliInv, NoKill, RecordInv, StartInv,
        CliOverSession, SessionOverInner, InnerOverRunner, Calm, Ended, RunnerUnder, RunnerPressed, Untouched
<1>5. CASE FirstSignal("inner")
  <2>1. PICK sig \in inbox["inner"] \ {"KILL"} : inbox' = SendFrom("inner", {}, sig)
    BY <1>5, <1>0 DEF FirstSignal
  <2>2. /\ st'["inner"] = "grace" /\ inbox'["inner"] = {} /\ left'["inner"] = 7 /\ st["inner"] = "waiting"
        /\ Untouched("cli") /\ Untouched("session") /\ Untouched("runner") /\ Untouched("script")
        /\ UNCHANGED <<record, requests>>
    BY <1>5, <1>0, <2>1, SendFromFrame DEF FirstSignal, Grace
  <2>3. st["session"] = "grace" /\ left["session"] = 4
    BY <2>1, <2>2, <1>1 DEF StartInv, SessionOverInner, Calm, Ended, SupLabels
  <2> QED BY <1>0, <1>2, <2>2, <2>3 DEF CommonInv, CliInv, NoKill, RecordInv, StartInv,
        CliOverSession, SessionOverInner, InnerOverRunner, Calm, Ended, RunnerUnder, RunnerPressed, Untouched
<1>6. CASE Terminate("inner")
  <2>1. /\ inbox' = SendFrom("inner", {"runner"}, "TERM")
        /\ Become("inner", "terminating", 2) /\ Keep /\ st["inner"] = "grace"
        /\ inbox["inner"] # {} \/ left["inner"] = 0
    BY <1>6, <1>0 DEF Terminate, Prodded, TerminateWindow
  <2>2. /\ st'["inner"] = "terminating" /\ inbox'["inner"] = {} /\ left'["inner"] = 2
        /\ Told("runner", "TERM") /\ Untouched("cli") /\ Untouched("session") /\ Untouched("script")
        /\ UNCHANGED <<record, requests>>
    BY <1>0, <2>1, SendFromFrame
  <2>3. st["session"] = "terminating"
    BY <2>1, <1>1 DEF StartInv, SessionOverInner, Calm, Ended, SupLabels
  <2>4. RunnerPressed'
    BY <2>2, <2>3 DEF StartInv, SessionOverInner, RunnerPressed, Told, Live, Ended
  <2> QED BY <1>0, <1>2, <2>1, <2>2, <2>3, <2>4 DEF CommonInv, CliInv, NoKill, RecordInv, StartInv,
        CliOverSession, SessionOverInner, InnerOverRunner, Calm, Ended, Untouched, Told
<1>7. ~Kill("inner") /\ ~Finish("inner")
  <2>1. st["inner"] = "terminating" => left["inner"] = 2 /\ inbox["inner"] = {}
    BY <1>1 DEF StartInv, SessionOverInner, Calm, Ended, SupLabels
  <2> QED BY <2>1 DEF Kill, Prodded, Finish, StartInv, InnerOverRunner
<1>8. ~Die("inner")
  <2>1. st["inner"] = "spawning" => inbox["inner"] = {}
    BY <1>1 DEF StartInv, SessionOverInner, Calm, Ended, SupLabels
  <2> QED BY <2>1, <1>2 DEF Die, StartInv, InnerOverRunner
<1> QED BY <1>3, <1>4, <1>5, <1>6, <1>7, <1>8 DEF SupStep

\* What the runner does on one request is kept in the manifest.
LEMMA RunnerRecords ==
    ASSUME TypeOK, WorkflowInv, CommonInv, RunnerActs, RunnerHeard,
           Ended("script") => Ended("script")'
    PROVE  RecordInv'
<1>1. "KILL" \notin inbox["runner"]
  BY DEF CommonInv, NoKill
<1>2. st'["runner"] = "post" => record' = "result"
  BY DEF RunnerActs
<1>3. Ended("runner")' => record' \in {"result", "sealed"} /\ Ended("script")
  BY <1>1 DEF RunnerActs, RunnerHeard, CommonInv, RecordInv, WorkflowInv, Ended
<1> QED BY <1>2, <1>3 DEF RecordInv

LEMMA ScriptStays ==
    ASSUME TypeOK, BornInv, RunnerStep \/ PostProcessed \/ WorkflowStep \/ WindUp, Ended("script")
    PROVE  Ended("script")'
<1>0. {"runner", "script", "launch"} \subseteq Procs
  BY ChainFacts
<1>1. CASE RunnerStep \/ PostProcessed
  <2>1. ~StartWorkflow
    BY DEF StartWorkflow, BornInv, Ended
  <2> QED BY <1>1, <2>1, <1>0, BecomeFrame, EndFrame DEF RunnerStep, InterruptWorkflow, KillWorkflow,
        WorkflowEnded, RunnerDies, PostProcessed, Ended
<1>2. CASE WorkflowStep \/ WindUp
  BY <1>2, <1>0, BecomeFrame, EndFrame DEF WorkflowStep, StartLaunch, WindUp, CleanUp, ScriptEnds, ScriptDies,
        LaunchStopping, LaunchStopped, Ended, Live
<1> QED BY <1>1, <1>2

\* A step of the workflow is not seen from above.
LEMMA ScriptSeen ==
    ASSUME TypeOK, WorkflowStep \/ WindUp
    PROVE  /\ \A p \in Sup \cup {"runner"} : Untouched(p)
           /\ UNCHANGED <<record, requests>>
<1>0. /\ {"runner", "script", "launch"} \subseteq Procs /\ inbox \in [Procs -> SUBSET Signals]
      /\ \A p \in Sup \cup {"runner"} : p \in Procs /\ p \notin {"script", "launch"}
  BY ChainFacts DEF TypeOK
<1>1. CASE StartLaunch
  <2>1. \A p \in Sup \cup {"runner"} : st'[p] = st[p]
    BY <1>1, <1>0 DEF StartLaunch, TypeOK
  <2> QED BY <1>1, <2>1 DEF StartLaunch, Keep, Untouched
<1>2. CASE WindUp
  <2>1. \A p \in Procs \ {"launch"} : inbox'[p] = inbox[p]
    BY <1>2, <1>0 DEF WindUp, Send
  <2> QED BY <1>2, <2>1, <1>0, BecomeFrame DEF WindUp, Keep, Untouched
<1>3. CASE CleanUp
  <2>1. \A p \in Procs \ {"script", "launch"} : inbox'[p] = inbox[p]
    BY <1>3, <1>0 DEF CleanUp, SendFrom, Send
  <2> QED BY <1>3, <2>1, <1>0, BecomeFrame DEF CleanUp, Keep, Untouched
<1>4. CASE ScriptEnds \/ ScriptDies \/ LaunchStopped
  BY <1>4, <1>0, EndFrame DEF ScriptEnds, ScriptDies, LaunchStopped, Keep, Untouched
<1>5. CASE LaunchStopping
  BY <1>5, <1>0, BecomeFrame DEF LaunchStopping, Keep, Untouched
<1> QED BY <1>1, <1>2, <1>3, <1>4, <1>5 DEF WorkflowStep

(* The steps of lidarslam start below the supervisors.                     *)
LEMMA StartRunner ==
    ASSUME Chain = StartChain, TypeOK, BornInv, WorkflowInv, CommonInv, StartInv,
           RunnerStep \/ PostProcessed
    PROVE  (CommonInv /\ StartInv)'
<1>0. /\ Sup = {"cli", "session", "inner"}
      /\ {"cli", "session", "inner", "runner", "script", "launch"} = Procs
      /\ st["session"] \in SupLabels
  BY StartFacts, ChainFacts DEF TypeOK
<1>1. RunnerActs /\ Untouched("cli") /\ Untouched("session") /\ Untouched("inner")
      /\ inbox'["runner"] \subseteq inbox["runner"] /\ requests' = requests
      /\ (st'["runner"] \in {"off", "preparing"} => st["runner"] = st'["runner"])
  BY RunnerSeen, <1>0 DEF RunnerActs
<1>2. /\ Calm("runner") => Calm("runner")'
      /\ RunnerUnder("session", 4) => RunnerUnder("session", 4)'
      /\ RunnerPressed => RunnerPressed'
      /\ ~Ended("runner")
  BY RunnerSettles, <1>1, <1>0
<1>3. RunnerHeard
  BY <1>0, <1>2 DEF StartInv, SessionOverInner, InnerOverRunner, Calm, RunnerUnder, RunnerPressed, RunnerHeard,
      SupLabels, Ended, One
<1>4. RecordInv'
  BY <1>1, <1>3, RunnerRecords, ScriptStays
<1>5. CliInv' /\ NoKill'
  BY <1>0, <1>1 DEF CommonInv, CliInv, NoKill, Untouched
<1>6. StartInv'
  BY <1>1, <1>2 DEF StartInv, CliOverSession, SessionOverInner, InnerOverRunner, Calm, Ended, Untouched
<1> QED BY <1>4, <1>5, <1>6 DEF CommonInv

LEMMA StartScript ==
    ASSUME Chain = StartChain, TypeOK, BornInv, CommonInv, StartInv, WorkflowStep \/ WindUp
    PROVE  (CommonInv /\ StartInv)'
<1>0. Sup = {"cli", "session", "inner"}
  BY StartFacts
<1>1. /\ Untouched("cli") /\ Untouched("session") /\ Untouched("inner") /\ Untouched("runner")
      /\ UNCHANGED <<record, requests>>
  BY <1>0, ScriptSeen
<1>2. Ended("script") => Ended("script")'
  BY ScriptStays
<1>3. CommonInv'
  BY <1>0, <1>1, <1>2 DEF CommonInv, CliInv, NoKill, RecordInv, Untouched, Ended
<1> QED BY <1>1, <1>3 DEF StartInv, CliOverSession, SessionOverInner, InnerOverRunner, Calm, Ended,
      RunnerUnder, RunnerPressed, Untouched

(* When time passes, every signal has been taken.                          *)
LEMMA TickWaits ==
    ASSUME TypeOK, BornInv, WorkflowInv, Tick
    PROVE  /\ st' = st /\ inbox' = inbox /\ record' = record /\ requests' = requests
           /\ \A p \in Procs : left'[p] = IF left[p] > 0 THEN left[p] - 1 ELSE left[p]
           /\ \A p \in Sup \cup {"runner"} : Live(p) => inbox[p] = {}
           /\ \A p \in Sup : ~SupBusy(p)
           /\ st["runner"] \notin {"preparing", "reaping"}
           /\ st["runner"] = "polling" => left["runner"] # 0
<1>0. \A p \in Sup \cup {"runner", "script"} : p \in Procs /\ p # "launch"
  BY ChainFacts
<1>1. /\ ~RunnerBusy /\ (Live("script") => inbox["script"] = {})
      /\ (~Live("script") => inbox["script"] = {})
  BY <1>0 DEF Tick, Busy, BornInv
<1>2. st["runner"] # "reaping"
  BY <1>1 DEF RunnerBusy, WorkflowInv
<1> QED BY <1>0, <1>1, <1>2 DEF Tick, Busy, RunnerBusy

LEMMA StartTick ==
    ASSUME Chain = StartChain, TypeOK, BornInv, WorkflowInv, CommonInv, StartInv, Tick
    PROVE  (CommonInv /\ StartInv)'
<1>0. /\ Sup = {"cli", "session", "inner"} /\ Child("session") = "inner" /\ Child("inner") = "runner"
      /\ Child("cli") = "session"
      /\ {"cli", "session", "inner", "runner", "script", "launch"} = Procs
      /\ \A p \in Procs : left[p] \in Nat \cup {-1}
  BY StartFacts, ChainFacts DEF TypeOK, Never
<1>1. /\ st' = st /\ inbox' = inbox /\ record' = record /\ requests' = requests
      /\ \A p \in {"cli", "session", "inner", "runner"} :
             /\ left'[p] = IF left[p] > 0 THEN left[p] - 1 ELSE left[p]
             /\ Live(p) => inbox[p] = {}
      /\ ~SupBusy("cli") /\ ~SupBusy("session") /\ ~SupBusy("inner")
      /\ st["runner"] # "reaping" /\ (st["runner"] = "polling" => left["runner"] # 0)
  BY <1>0, TickWaits
<1>o. {} \notin One
  BY DEF One
<1>2. CommonInv'
  BY <1>1 DEF CommonInv, CliInv, NoKill, RecordInv, Ended
<1>3. st["session"] = "grace" => RunnerUnder("session", 4)' /\ left["session"] > 0
  <2> SUFFICES ASSUME st["session"] = "grace" PROVE RunnerUnder("session", 4)' /\ left["session"] > 0
    OBVIOUS
  <2>1. left["session"] \in 1..4 /\ RunnerUnder("session", 4)
    BY <1>1 DEF StartInv, SessionOverInner, SupBusy
  <2>2. CASE st["runner"] = "polling"
    BY <2>1, <2>2, <1>1 DEF RunnerUnder, WorkflowGrace
  <2>3. CASE st["runner"] # "polling"
    <3>1. st["runner"] # "waiting" \/ inbox["runner"] \notin One
      BY <1>1, <1>o DEF Live
    <3>2. st["runner"] = "ended" \/ (st["runner"] = "post" /\ inbox["runner"] \in One \cup {{}})
      BY <2>1, <2>3, <3>1, <1>1 DEF RunnerUnder
    <3> QED BY <2>1, <3>2, <1>1 DEF RunnerUnder
  <2> QED BY <2>2, <2>3
<1>4. st["session"] # "terminating"
  BY <1>0, <1>1 DEF StartInv, SessionOverInner, RunnerPressed, SupBusy, Live, Ended
<1>5. CliOverSession'
  <2>1. st["cli"] = "grace" => left["cli"] > 0 /\ left'["cli"] = left["cli"] - 1 /\ st["session"] = "grace"
    BY <1>0, <1>1, <1>3, <1>4, <1>o DEF StartInv, CliOverSession, SessionOverInner, SupBusy, Ended, Live
  <2> QED BY <2>1, <1>0, <1>1, <1>3 DEF StartInv, CliOverSession, Calm, Ended
<1>6. SessionOverInner'
  <2>1. st["session"] = "grace" => inbox["inner"] \notin One \/ st["inner"] # "waiting"
    BY <1>1, <1>o DEF Live
  <2> QED BY <2>1, <1>0, <1>1, <1>3, <1>4 DEF StartInv, SessionOverInner, Calm, Ended
<1>7. InnerOverRunner'
  BY <1>1 DEF StartInv, InnerOverRunner, Ended
<1> QED BY <1>2, <1>5, <1>6, <1>7 DEF StartInv

(* A first request finds the outermost command waiting.                    *)
LEMMA Asked ==
    ASSUME Reached = {"cli"}, TypeOK, BornInv, CommonInv, NEW sig \in Ways, Request(sig), Patient', "cli" \in Sup,
           Outermost = "cli", st["cli"] \in {"spawning", "waiting", "grace", "terminating", "ended"},
           st["cli"] = "spawning" => st["runner"] = "off",
           requests = 0 => st["cli"] \notin {"grace", "terminating"}
    PROVE  /\ st' = st /\ left' = left /\ record' = record
           /\ \A p \in Procs \ {"cli"} : inbox'[p] = inbox[p]
           /\ inbox'["cli"] \in One /\ st["cli"] = "waiting" /\ requests = 0 /\ requests' = 1
           /\ st["runner"] \notin {"off", "preparing"}
<1>1. requests = 0 /\ requests' = 1 /\ sig \in {"INT", "TERM"}
  BY ChainAssumption DEF TypeOK, Request, Patient
<1>2. inbox["cli"] = {} /\ st["cli"] = "waiting" /\ st["runner"] \notin {"off", "preparing"}
  BY <1>1 DEF CommonInv, CliInv, Request, Live
<1>3. inbox'["cli"] = {sig} /\ \A p \in Procs \ {"cli"} : inbox'[p] = inbox[p]
  BY <1>2, ChainFacts DEF Request, Send, Live
<1> QED BY <1>1, <1>2, <1>3 DEF Request, One

LEMMA StartAsked ==
    ASSUME Chain = StartChain, Reached = {"cli"}, TypeOK, BornInv, CommonInv, StartInv,
           NEW sig \in Ways, Request(sig), Patient'
    PROVE  (CommonInv /\ StartInv)'
<1>0. /\ Sup = {"cli", "session", "inner"} /\ Child("session") = "inner" /\ Child("inner") = "runner"
      /\ Child("cli") = "session" /\ Outermost = "cli"
      /\ {"cli", "session", "inner", "runner", "script", "launch"} = Procs
  BY StartFacts, ChainFacts
<1>1. st["cli"] = "spawning" => st["runner"] = "off"
  BY <1>0 DEF BornInv
<1>2. /\ st["cli"] \in {"spawning", "waiting", "grace", "ended"}
      /\ requests = 0 => st["cli"] # "grace"
  BY DEF StartInv, CliOverSession, CommonInv, CliInv
<1>3. /\ st' = st /\ left' = left /\ record' = record
      /\ \A p \in {"session", "inner", "runner"} : inbox'[p] = inbox[p]
      /\ inbox'["cli"] \in One /\ st["cli"] = "waiting" /\ requests = 0 /\ requests' = 1
      /\ st["runner"] \notin {"off", "preparing"}
  BY <1>0, <1>1, <1>2, Asked
<1>4. CommonInv'
  BY <1>0, <1>3 DEF CommonInv, CliInv, NoKill, RecordInv, Ended, One
<1> QED BY <1>3, <1>4 DEF StartInv, CliOverSession, SessionOverInner, InnerOverRunner, Calm, Ended,
      RunnerUnder, RunnerPressed

-----------------------------------------------------------------------------
(* lidarslam run: the command and the runner alone.                        *)
LEMMA RunCli ==
    ASSUME Chain = RunChain, TypeOK, BornInv, CommonInv, RunInv, SupStep("cli")
    PROVE  (CommonInv /\ RunInv)'
<1>0. /\ Sup = {"cli"} /\ Child("cli") = "runner"
      /\ {"cli", "runner", "script", "launch"} = Procs
      /\ OwnsGroup("cli") /\ GroupBelow("cli") = {"runner"}
  BY RunFacts, ChainFacts DEF OwnsGroup, GroupBelow
<1>1. /\ inbox \in [Procs -> SUBSET Signals] /\ requests \in Nat
      /\ left \in [Procs -> Nat \cup {Never}]
      /\ st["runner"] \in RunnerLabels
  BY <1>0, ChainAssumption DEF TypeOK
<1>2. "KILL" \notin inbox["cli"] /\ "KILL" \notin inbox["runner"]
  BY <1>0 DEF CommonInv, NoKill
<1>3. CASE Spawn("cli")
  <2>1. st["runner"] = "off" /\ inbox["runner"] = {} /\ st["cli"] = "spawning"
    BY <1>3, <1>0 DEF Spawn, BornInv, Live
  <2>2. /\ st' = [st EXCEPT !["cli"] = "waiting", !["runner"] = "preparing"]
        /\ UNCHANGED <<inbox, left, record, requests>>
    BY <1>3, <1>0 DEF Spawn, Keep
  <2>3. st'["cli"] = "waiting" /\ st'["runner"] = "preparing"
    BY <2>2, <1>0 DEF TypeOK
  <2> QED BY <1>0, <1>2, <2>1, <2>2, <2>3 DEF CommonInv, CliInv, NoKill, RecordInv, RunInv, Calm, Ended
<1>4. CASE ChildEnded("cli")
  <2>1. /\ st'["cli"] = "ended" /\ inbox'["cli"] = {} /\ st["runner"] = "ended"
        /\ Untouched("runner") /\ Untouched("script")
        /\ UNCHANGED <<record, requests>>
    BY <1>4, <1>0, EndFrame DEF ChildEnded, Ended, Keep, Untouched
  <2> QED BY <1>0, <1>2, <2>1 DEF CommonInv, CliInv, NoKill, RecordInv, RunInv, Ended, Untouched
<1>5. CASE FirstSignal("cli")
  <2>1. PICK sig \in inbox["cli"] \ {"KILL"} : inbox' = SendFrom("cli", {"runner"}, sig)
    BY <1>5, <1>0 DEF FirstSignal
  <2>2. /\ st'["cli"] = "grace" /\ inbox'["cli"] = {} /\ left'["cli"] = 7 /\ st["cli"] = "waiting"
        /\ Told("runner", sig) /\ Untouched("script")
        /\ UNCHANGED <<record, requests>>
    BY <1>5, <1>0, <2>1, SendFromFrame DEF FirstSignal, Grace
  <2>3. sig \in {"INT", "TERM"} /\ {sig} \in One /\ requests > 0
    BY <2>1, <1>0, <1>1 DEF CommonInv, CliInv, One, Signals
  <2>4. st["runner"] \in {"waiting", "post", "ended"} /\ inbox["runner"] = {}
    BY <2>2, <2>3, <1>1 DEF CommonInv, CliInv, RunInv, Calm, RunnerLabels
  <2>5. RunnerUnder("cli", 7)'
    BY <2>2, <2>3, <2>4 DEF RunnerUnder, Told, Live, One
  <2> QED BY <1>0, <1>1, <1>2, <2>2, <2>3, <2>4, <2>5 DEF CommonInv, CliInv, NoKill, RecordInv, RunInv,
        Ended, Live, Untouched, Told
<1>6. CASE Terminate("cli")
  <2>1. /\ inbox' = SendFrom("cli", {"runner"}, "TERM")
        /\ Become("cli", "terminating", 2) /\ Keep /\ st["cli"] = "grace"
        /\ inbox["cli"] # {} \/ left["cli"] = 0
    BY <1>6, <1>0 DEF Terminate, Prodded, TerminateWindow
  <2>2. /\ st'["cli"] = "terminating" /\ inbox'["cli"] = {} /\ left'["cli"] = 2
        /\ Told("runner", "TERM") /\ Untouched("script")
        /\ UNCHANGED <<record, requests>>
    BY <1>0, <2>1, SendFromFrame
  <2>3. st["runner"] \in {"post", "ended"}
    BY <2>1 DEF RunInv, RunnerUnder, WorkflowGrace
  <2>4. RunnerPressed'
    BY <2>2, <2>3 DEF RunnerPressed, Told, Live, Ended
  <2>5. requests # 0
    BY <2>1 DEF CommonInv, CliInv
  <2> QED BY <1>0, <1>1, <1>2, <2>2, <2>3, <2>4, <2>5 DEF CommonInv, CliInv, NoKill, RecordInv, RunInv,
        Ended, Live, Untouched, Told
<1>7. ~Kill("cli") /\ ~Finish("cli") /\ ~Die("cli")
  BY <1>2 DEF Kill, Prodded, Finish, Die, CommonInv, CliInv, RunInv
<1> QED BY <1>3, <1>4, <1>5, <1>6, <1>7 DEF SupStep

LEMMA RunRunner ==
    ASSUME Chain = RunChain, TypeOK, BornInv, WorkflowInv, CommonInv, RunInv,
           RunnerStep \/ PostProcessed
    PROVE  (CommonInv /\ RunInv)'
<1>0. /\ Sup = {"cli"} /\ st["cli"] \in SupLabels
  BY RunFacts DEF TypeOK
<1>1. RunnerActs /\ Untouched("cli")
      /\ inbox'["runner"] \subseteq inbox["runner"] /\ requests' = requests
      /\ (st'["runner"] \in {"off", "preparing"} => st["runner"] = st'["runner"])
  BY RunnerSeen, <1>0 DEF RunnerActs
<1>2. /\ Calm("runner") => Calm("runner")'
      /\ RunnerUnder("cli", 7) => RunnerUnder("cli", 7)'
      /\ RunnerPressed => RunnerPressed'
      /\ ~Ended("runner")
  BY RunnerSettles, <1>1, <1>0
<1>3. RunnerHeard
  BY <1>0, <1>2 DEF RunInv, Calm, RunnerUnder, RunnerPressed, RunnerHeard, SupLabels, Ended, One
<1>4. RecordInv'
  BY <1>1, <1>3, RunnerRecords, ScriptStays
<1>5. CliInv' /\ NoKill'
  BY <1>0, <1>1 DEF CommonInv, CliInv, NoKill, Untouched
<1>6. RunInv'
  BY <1>1, <1>2 DEF RunInv, Ended, Untouched
<1> QED BY <1>4, <1>5, <1>6 DEF CommonInv

LEMMA RunScript ==
    ASSUME Chain = RunChain, TypeOK, BornInv, CommonInv, RunInv, WorkflowStep \/ WindUp
    PROVE  (CommonInv /\ RunInv)'
<1>0. Sup = {"cli"}
  BY RunFacts
<1>1. Untouched("cli") /\ Untouched("runner") /\ UNCHANGED <<record, requests>>
  BY <1>0, ScriptSeen
<1>2. Ended("script") => Ended("script")'
  BY ScriptStays
<1>3. CommonInv'
  BY <1>0, <1>1, <1>2 DEF CommonInv, CliInv, NoKill, RecordInv, Untouched, Ended
<1> QED BY <1>1, <1>3 DEF RunInv, Calm, Ended, RunnerUnder, RunnerPressed, Untouched

LEMMA RunTick ==
    ASSUME Chain = RunChain, TypeOK, BornInv, WorkflowInv, CommonInv, RunInv, Tick
    PROVE  (CommonInv /\ RunInv)'
<1>0. /\ Sup = {"cli"} /\ Child("cli") = "runner" /\ {"cli", "runner", "script", "launch"} = Procs
      /\ \A p \in Procs : left[p] \in Nat \cup {-1}
  BY RunFacts, ChainFacts DEF TypeOK, Never
<1>1. /\ st' = st /\ inbox' = inbox /\ record' = record /\ requests' = requests
      /\ \A p \in {"cli", "runner"} :
             /\ left'[p] = IF left[p] > 0 THEN left[p] - 1 ELSE left[p]
             /\ Live(p) => inbox[p] = {}
      /\ ~SupBusy("cli")
      /\ st["runner"] # "reaping" /\ (st["runner"] = "polling" => left["runner"] # 0)
  BY <1>0, TickWaits
<1>o. {} \notin One
  BY DEF One
<1>2. CommonInv'
  BY <1>1 DEF CommonInv, CliInv, NoKill, RecordInv, Ended
<1>3. ASSUME st["cli"] = "grace" PROVE RunnerUnder("cli", 7)' /\ left["cli"] \in 1..7
  <2>1. left["cli"] \in 1..7 /\ RunnerUnder("cli", 7)
    BY <1>1, <1>3 DEF RunInv, SupBusy
  <2>2. CASE st["runner"] = "polling"
    BY <2>1, <2>2, <1>1 DEF RunnerUnder, WorkflowGrace
  <2>3. CASE st["runner"] # "polling"
    <3>1. st["runner"] # "waiting" \/ inbox["runner"] \notin One
      BY <1>1, <1>o DEF Live
    <3>2. st["runner"] = "ended" \/ (st["runner"] = "post" /\ inbox["runner"] \in One \cup {{}})
      BY <2>1, <2>3, <3>1, <1>1 DEF RunnerUnder
    <3> QED BY <2>1, <3>2, <1>1 DEF RunnerUnder
  <2> QED BY <2>2, <2>3
<1>4. st["cli"] # "terminating"
  BY <1>0, <1>1 DEF RunInv, RunnerPressed, SupBusy, Live, Ended
<1>5. RunInv'
  BY <1>0, <1>1, <1>3, <1>4 DEF RunInv, Calm, Ended
<1> QED BY <1>2, <1>5

LEMMA RunAsked ==
    ASSUME Chain = RunChain, Reached = {"cli"}, TypeOK, BornInv, CommonInv, RunInv,
           NEW sig \in Ways, Request(sig), Patient'
    PROVE  (CommonInv /\ RunInv)'
<1>0. /\ Sup = {"cli"} /\ Child("cli") = "runner" /\ Outermost = "cli"
      /\ {"cli", "runner", "script", "launch"} = Procs
      /\ st["cli"] \in SupLabels
  BY RunFacts, ChainFacts DEF TypeOK
<1>1. st["cli"] = "spawning" => st["runner"] = "off"
  BY <1>0 DEF BornInv
<1>2. /\ st["cli"] \in {"spawning", "waiting", "grace", "terminating", "ended"}
      /\ requests = 0 => st["cli"] \notin {"grace", "terminating"}
  BY <1>0 DEF RunInv, CommonInv, CliInv, SupLabels
<1>3. /\ st' = st /\ left' = left /\ record' = record
      /\ inbox'["runner"] = inbox["runner"]
      /\ inbox'["cli"] \in One /\ st["cli"] = "waiting" /\ requests = 0 /\ requests' = 1
      /\ st["runner"] \notin {"off", "preparing"}
  BY <1>0, <1>1, <1>2, Asked
<1>4. CommonInv'
  BY <1>0, <1>3 DEF CommonInv, CliInv, NoKill, RecordInv, Ended, One
<1> QED BY <1>3, <1>4 DEF RunInv, Calm, Ended

-----------------------------------------------------------------------------
LEMMA PatientInit == Init => PatientInv
<1> SUFFICES ASSUME Init PROVE PatientInv
  OBVIOUS
<1>0. Outermost = "cli"
  BY StartFacts, RunFacts, ChainAssumption DEF StartChain, RunChain
<1>1. /\ st["cli"] = "spawning" /\ \A p \in Procs \ {"cli"} : st[p] = "off"
      /\ \A p \in Procs : inbox[p] = {}
      /\ requests = 0
  BY <1>0, ChainFacts DEF Init
<1>2. "cli" \in Procs /\ "runner" \in Procs /\ st["runner"] = "off" /\ inbox["cli"] = {} /\ inbox["runner"] = {}
      /\ \A p \in Sup : inbox[p] = {}
  BY <1>0, <1>1, ChainFacts
<1>3. CommonInv
  BY <1>1, <1>2 DEF CommonInv, CliInv, NoKill, RecordInv, Ended
<1>4. Chain = StartChain => StartInv
  <2>1. Chain = StartChain => /\ st["session"] = "off" /\ st["inner"] = "off"
                              /\ inbox["session"] = {} /\ inbox["inner"] = {}
    BY <1>1, StartFacts, ChainFacts
  <2> QED BY <1>1, <1>2, <2>1 DEF StartInv, CliOverSession, SessionOverInner, InnerOverRunner, Calm, Ended
<1>5. Chain = RunChain => RunInv
  BY <1>1, <1>2 DEF RunInv, Calm, Ended
<1> QED BY <1>3, <1>4, <1>5 DEF PatientInv

LEMMA PatientStep ==
    ASSUME Reached = {Outermost}, TypeOK, BornInv, WorkflowInv, PatientInv, [Next]_vars
    PROVE  PatientInv'
<1> SUFFICES ASSUME Patient' PROVE PatientInv'
  BY DEF PatientInv
<1>0. Reached = {"cli"}
  BY StartFacts, RunFacts, ChainAssumption DEF StartChain, RunChain
<1>1. CASE UNCHANGED vars
  BY <1>1 DEF vars, PatientInv, Patient, CommonInv, CliInv, NoKill, RecordInv, StartInv, CliOverSession,
      SessionOverInner, InnerOverRunner, RunInv, Calm, Ended, RunnerUnder, RunnerPressed
<1>2. CASE Next
  <2>1. requests' = requests \/ requests' = requests + 1
    BY <1>2 DEF Next, SupStep, Spawn, ChildEnded, Finish, FirstSignal, Terminate, Kill, Die, Keep, RunnerStep,
        StartWorkflow, InterruptWorkflow, KillWorkflow, WorkflowEnded, RunnerDies, WorkflowStep, StartLaunch,
        CleanUp, ScriptEnds, ScriptDies, LaunchStopping, LaunchStopped, WindUp, PostProcessed, Tick, Request
  <2>2. Patient
    BY <2>1 DEF Patient, TypeOK
  <2>3. CASE Chain = StartChain
    <3>1. CommonInv /\ StartInv /\ Chain # RunChain
      BY <2>2, <2>3 DEF PatientInv, StartChain, RunChain
    <3>2. ASSUME NEW p \in Sup, SupStep(p) PROVE (CommonInv /\ StartInv)'
      BY <3>1, <3>2, <2>3, StartFacts, StartCli, StartSession, StartInner
    <3>3. (CommonInv /\ StartInv)'
      BY <1>0, <1>2, <2>3, <3>1, <3>2, StartRunner, StartScript, StartTick, StartAsked DEF Next
    <3> QED BY <3>1, <3>3 DEF PatientInv
  <2>4. CASE Chain = RunChain
    <3>1. CommonInv /\ RunInv /\ Chain # StartChain
      BY <2>2, <2>4 DEF PatientInv, StartChain, RunChain
    <3>2. ASSUME NEW p \in Sup, SupStep(p) PROVE (CommonInv /\ RunInv)'
      BY <3>1, <3>2, <2>4, RunFacts, RunCli
    <3>3. (CommonInv /\ RunInv)'
      BY <1>0, <1>2, <2>4, <3>1, <3>2, RunRunner, RunScript, RunTick, RunAsked DEF Next
    <3> QED BY <3>1, <3>3 DEF PatientInv
  <2> QED BY <2>3, <2>4, ChainAssumption DEF StartChain, RunChain
<1> QED BY <1>1, <1>2

(* A single request to the command the operator typed goes down level by   *)
(* level: each grace is longer than what lies below it needs, no level gets *)
(* as far as its SIGKILL, and no process ends before the one it waits for. *)
THEOREM StopHolds ==
    ASSUME Reached = {Outermost}
    PROVE  Spec => [](TypeOK /\ BornInv /\ WorkflowInv /\ PatientInv)
<1>1. Reached \subseteq Sup \cup {"runner"}
  BY ChainFacts
<1>2. Init => PatientInv
  BY PatientInit
<1>3. (TypeOK /\ BornInv /\ WorkflowInv) /\ PatientInv /\ [Next]_vars => PatientInv'
  BY PatientStep
<1>4. Spec => [](TypeOK /\ BornInv /\ WorkflowInv)
  BY <1>1, WorkflowHolds
<1> QED BY <1>2, <1>3, <1>4, PTL DEF Spec

(* _run_workflow returns a signalled workflow like a failed one and the    *)
(* manifest has its result before the runner ends, however the runner ends: *)
(* one request never leaves a run that --resume refuses.                   *)
THEOREM ResultKept ==
    ASSUME Reached = {Outermost}
    PROVE  Spec => []ResultIsDurable
<1>1. PatientInv => ResultIsDurable
  BY DEF PatientInv, CommonInv, RecordInv, ResultIsDurable
<1> QED BY <1>1, StopHolds, PTL

(* When the command returns after at most one request, everything it started *)
(* has ended, but for a launch that outlasts the grace of the runner.      *)
THEOREM NothingLeft ==
    ASSUME Reached = {Outermost}
    PROVE  Spec => []NothingSurvives
<1>1. TypeOK /\ WorkflowInv /\ PatientInv => NothingSurvives
  <2> SUFFICES ASSUME TypeOK, WorkflowInv, PatientInv, Ended(Outermost), Patient,
                      NEW p \in Procs, Live(p)
               PROVE  p = "launch" /\ ~InTime
    BY DEF NothingSurvives
  <2>1. Ended("runner") /\ \A q \in Sup : Ended(q)
    <3>1. CASE Chain = StartChain
      BY <3>1, StartFacts DEF PatientInv, StartInv, CliOverSession, SessionOverInner, InnerOverRunner, Ended
    <3>2. CASE Chain = RunChain
      BY <3>2, RunFacts DEF PatientInv, RunInv, Ended
    <3> QED BY <3>1, <3>2, ChainAssumption DEF StartChain, RunChain
  <2>2. Ended("script")
    BY <2>1 DEF PatientInv, CommonInv, RecordInv
  <2> QED BY <2>1, <2>2, ChainFacts DEF WorkflowInv, ScriptOutlivesLaunch, Live, Ended
<1> QED BY <1>1, StopHolds, PTL

-----------------------------------------------------------------------------
(* How long a stop takes.  A supervisor that stops waits with a timeout, or *)
(* for a child that is gone or about to die of its SIGKILL.                *)
Stopping(p) == st[p] \in {"grace", "terminating", "reaping"} \/ (st[p] = "waiting" /\ inbox[p] # {})

\* The ticks that may pass before p ends or writes its last words.
PatienceLeft(p) ==
    CASE st[p] = "waiting" -> Grace(p) + TerminateWindow
      [] st[p] = "grace" -> left[p] + TerminateWindow
      [] st[p] = "terminating" -> left[p]
      [] OTHER -> 0

TimedInv ==
    \A p \in Sup :
        /\ st[p] \notin {"off", "spawning", "ended"} => st[Child(p)] # "off"
        /\ st[p] = "grace" => left[p] \in 0..Grace(p)
        /\ st[p] = "terminating" => left[p] \in 0..TerminateWindow
        /\ st[p] = "reaping" => Ended(Child(p)) \/ "KILL" \in inbox[Child(p)]
        /\ st[p] = "finishing" => p = "session"

\* A command that was asked to stop does nothing else any more.
AskedStops == requests > 0 /\ Live(Outermost) => Stopping(Outermost)

(* Who stops goes on stopping, and each tick costs patience.               *)
PatienceRunsOut ==
    [][\A p \in Sup : Stopping(p) =>
         /\ Stopping(p)' \/ st'[p] \in {"finishing", "ended"}
         /\ PatienceLeft(p) \in 0..(Grace(p) + TerminateWindow)
         /\ PatienceLeft(p)' <= PatienceLeft(p)
         /\ Tick => PatienceLeft(p)' < PatienceLeft(p)]_vars

\* The group that a supervisor signals holds its child.
LEMMA GroupHasChild ==
    ASSUME NEW p \in Sup
    PROVE  Child(p) \in IF OwnsGroup(p) THEN GroupBelow(p) ELSE {Child(p)}
<1>1. CASE Chain = StartChain
  BY <1>1, StartFacts DEF GroupBelow
<1>2. CASE Chain = RunChain
  BY <1>2, RunFacts DEF GroupBelow
<1> QED BY <1>1, <1>2, ChainAssumption DEF StartChain, RunChain

\* What a step of a supervisor does to its own wait.
Waits(p) ==
    \/ st[p] = "spawning" /\ st'[p] = "waiting" /\ st'[Child(p)] # "off" /\ inbox' = inbox
    \/ /\ "KILL" \notin inbox[p]
       /\ \/ st[p] = "waiting" /\ st'[p] = "grace" /\ left'[p] = Grace(p)
          \/ st[p] = "grace" /\ st'[p] = "terminating" /\ left'[p] = TerminateWindow
          \/ /\ st[p] = "terminating" /\ st'[p] = "reaping"
             /\ Live(Child(p)) => "KILL" \in inbox'[Child(p)]
          \/ st[p] # "spawning" /\ st'[p] = "finishing" /\ p = "session"
    \/ st'[p] = "ended"

LEMMA SupTimes ==
    ASSUME TypeOK, NEW p \in Sup, SupStep(p)
    PROVE  Waits(p) /\ \A q \in Procs \ {p} : inbox[q] \subseteq inbox'[q]
<1> USE ChainFacts
<1>0. /\ p \in Procs /\ Child(p) \in Procs /\ Child(p) # p /\ inbox \in [Procs -> SUBSET Signals]
  BY DEF TypeOK
<1>1. ASSUME NEW targets, NEW sig, inbox' = SendFrom(p, targets, sig)
      PROVE  /\ \A q \in Procs \ {p} : inbox[q] \subseteq inbox'[q]
             /\ \A q \in targets : q \in Procs \ {p} /\ Live(q) => sig \in inbox'[q]
  BY <1>1, <1>0 DEF SendFrom, Send
<1>2. CASE Spawn(p)
  <2>1. st'[p] = "waiting" /\ st'[Child(p)] = IF Child(p) = "runner" THEN "preparing" ELSE "spawning"
    BY <1>2, <1>0 DEF Spawn, TypeOK
  <2> QED BY <1>2, <2>1 DEF Spawn, Waits
<1>3. CASE ChildEnded(p)
  <2>1. CASE p = "session"
    BY <2>1, <1>3, <1>0, BecomeFrame DEF ChildEnded, Waits
  <2>2. CASE p # "session"
    BY <2>2, <1>3, <1>0, EndFrame DEF ChildEnded, Waits
  <2> QED BY <2>1, <2>2
<1>4. CASE Finish(p) \/ Die(p)
  BY <1>4, <1>0, EndFrame DEF Finish, Die, Waits
<1>5. CASE FirstSignal(p)
  <2>1. st[p] = "waiting" /\ "KILL" \notin inbox[p] /\ st'[p] = "grace" /\ left'[p] = Grace(p)
    BY <1>5, <1>0, BecomeFrame DEF FirstSignal
  <2>2. \A q \in Procs \ {p} : inbox[q] \subseteq inbox'[q]
    <3> DEFINE targets == IF OwnsGroup(p) THEN GroupBelow(p) ELSE {}
    <3>1. PICK sig : inbox' = SendFrom(p, targets, sig)
      BY <1>5 DEF FirstSignal
    <3> HIDE DEF targets
    <3> QED BY <3>1, <1>1
  <2> QED BY <2>1, <2>2 DEF Waits
<1>6. CASE Terminate(p)
  <2>1. st[p] = "grace" /\ "KILL" \notin inbox[p] /\ st'[p] = "terminating" /\ left'[p] = TerminateWindow
    BY <1>6, <1>0, BecomeFrame DEF Terminate
  <2>2. \A q \in Procs \ {p} : inbox[q] \subseteq inbox'[q]
    <3> DEFINE targets == IF OwnsGroup(p) THEN GroupBelow(p) ELSE {Child(p)}
    <3>1. inbox' = SendFrom(p, targets, "TERM")
      BY <1>6 DEF Terminate
    <3> HIDE DEF targets
    <3> QED BY <3>1, <1>1
  <2> QED BY <2>1, <2>2 DEF Waits
<1>7. CASE Kill(p)
  <2>1. st[p] = "terminating" /\ "KILL" \notin inbox[p] /\ st'[p] = "reaping"
    BY <1>7, <1>0, BecomeFrame DEF Kill
  <2> DEFINE targets == IF OwnsGroup(p) THEN GroupBelow(p) ELSE {Child(p)}
  <2>2. inbox' = SendFrom(p, targets, "KILL")
    BY <1>7 DEF Kill
  <2>3. Child(p) \in targets
    BY GroupHasChild
  <2> HIDE DEF targets
  <2>4. /\ \A q \in Procs \ {p} : inbox[q] \subseteq inbox'[q]
        /\ Live(Child(p)) => "KILL" \in inbox'[Child(p)]
    BY <2>2, <2>3, <1>0, <1>1
  <2> QED BY <2>1, <2>4 DEF Waits
<1> QED BY <1>2, <1>3, <1>4, <1>5, <1>6, <1>7 DEF SupStep

LEMMA LowerTimes ==
    ASSUME TypeOK, BornInv, RunnerStep \/ PostProcessed \/ WorkflowStep \/ WindUp
    PROVE  /\ \A p \in Sup : st'[p] = st[p] /\ left'[p] = left[p] /\ inbox'[p] = inbox[p]
           /\ st["runner"] # "off" => st'["runner"] # "off"
           /\ Ended("runner") => Ended("runner")'
           /\ "KILL" \in inbox["runner"] => Ended("runner")' \/ "KILL" \in inbox'["runner"]
           /\ UNCHANGED requests
<1> USE ChainFacts
<1>0. /\ {"runner", "script", "launch"} \subseteq Procs /\ inbox \in [Procs -> SUBSET Signals]
      /\ \A p \in Sup : p \in Procs /\ p \notin {"runner", "script", "launch"}
  BY DEF TypeOK
<1>1. \A p \in Sup : st'[p] = st[p] /\ inbox'[p] = inbox[p]
  BY RunnerFrame, ScriptFrame DEF LowerFrame
<1>2. CASE StartWorkflow \/ StartLaunch
  BY <1>0, <1>1, <1>2 DEF StartWorkflow, StartLaunch, Keep, TypeOK, Ended
<1>3. CASE InterruptWorkflow
  <2>1. /\ st["runner"] = "waiting" /\ st'["runner"] = "polling"
        /\ \A p \in Sup : left'[p] = left[p]
    BY <1>0, <1>3, BecomeFrame DEF InterruptWorkflow
  <2>2. PICK sig \in inbox["runner"] \ {"KILL"} :
            inbox' = [Send({"script"}, sig) EXCEPT !["runner"] = @ \ {sig}]
    BY <1>3 DEF InterruptWorkflow
  <2>3. inbox'["runner"] = inbox["runner"] \ {sig}
    BY <2>2, <1>0 DEF Send
  <2> QED BY <1>1, <1>3, <2>1, <2>2, <2>3 DEF InterruptWorkflow, Keep, Ended
<1>4. CASE KillWorkflow \/ WorkflowEnded
  BY <1>0, <1>1, <1>4, BecomeFrame DEF KillWorkflow, WorkflowEnded, Keep, Ended
<1>5. CASE RunnerDies \/ PostProcessed
  BY <1>0, <1>1, <1>5, EndFrame DEF RunnerDies, PostProcessed, Keep, Ended
<1>6. CASE WindUp
  <2>1. inbox'["runner"] = inbox["runner"]
    BY <1>6, <1>0 DEF WindUp, Send
  <2> QED BY <1>0, <1>1, <1>6, <2>1, BecomeFrame DEF WindUp, Keep, Ended
<1>7. CASE CleanUp
  <2>1. inbox'["runner"] = inbox["runner"]
    BY <1>7, <1>0 DEF CleanUp, SendFrom, Send
  <2> QED BY <1>0, <1>1, <1>7, <2>1, BecomeFrame DEF CleanUp, Keep, Ended
<1>8. CASE ScriptEnds \/ ScriptDies \/ LaunchStopped
  BY <1>0, <1>1, <1>8, EndFrame DEF ScriptEnds, ScriptDies, LaunchStopped, Keep, Ended
<1>9. CASE LaunchStopping
  BY <1>0, <1>1, <1>9, BecomeFrame DEF LaunchStopping, Keep, Ended
<1> QED
  BY <1>2, <1>3, <1>4, <1>5, <1>6, <1>7, <1>8, <1>9 DEF RunnerStep, WorkflowStep

LEMMA TimedInit == Init => TimedInv
  BY ChainFacts DEF Init, TimedInv

LEMMA SupTimed ==
    ASSUME TypeOK, BornInv, TimedInv, NEW p \in Sup, SupStep(p)
    PROVE  TimedInv'
<1> USE ChainFacts
<1>0. /\ p \in Procs
      /\ \A q \in Sup : q \in Procs /\ Child(q) \in Procs /\ Child(q) # q /\ q # "runner"
  OBVIOUS
<1>1. Waits(p) /\ \A q \in Procs \ {p} : inbox[q] \subseteq inbox'[q]
  BY SupTimes
<1>2. Live(p) /\ ~Unspawned(p)' /\ \A q \in Procs \ {p} : left'[q] = left[q]
  BY SupFrame
<1>3. \A q \in Procs \ {p} :
        st'[q] = st[q] \/ (st[q] = "off" /\ st'[q] = IF q = "runner" THEN "preparing" ELSE "spawning")
  BY SupFrame DEF BornInv
<1> HIDE ChainFacts
<1>4. ASSUME NEW q \in Sup, st'[q] \notin {"off", "spawning", "ended"} PROVE st'[Child(q)] # "off"
  <2>1. CASE q = p
    <3>1. CASE st[p] = "spawning"
      BY <2>1, <3>1, <1>1, <1>4 DEF Waits
    <3>2. CASE st[p] # "spawning"
      <4>1. st[Child(p)] # "off"
        BY <3>2, <1>2 DEF TimedInv, Live
      <4> QED BY <2>1, <4>1, <1>0, <1>3
    <3> QED BY <3>1, <3>2
  <2>2. CASE q # p
    <3>1. st[Child(q)] # "off"
      BY <2>2, <1>0, <1>3, <1>4 DEF TimedInv
    <3>2. Child(q) = p => st'[Child(q)] # "off"
      BY <1>2 DEF Unspawned
    <3> QED BY <3>1, <3>2, <1>0, <1>3
  <2> QED BY <2>1, <2>2
<1>5. ASSUME NEW q \in Sup PROVE st'[q] = "grace" => left'[q] \in 0..Grace(q)
  <2>1. CASE q = p
    BY <2>1, <1>1, <1>2 DEF Waits, Grace, Live, Unspawned
  <2>2. CASE q # p
    BY <2>2, <1>0, <1>2, <1>3 DEF TimedInv
  <2> QED BY <2>1, <2>2
<1>6. ASSUME NEW q \in Sup PROVE st'[q] = "terminating" => left'[q] \in 0..TerminateWindow
  <2>1. CASE q = p
    BY <2>1, <1>1 DEF Waits, TerminateWindow
  <2>2. CASE q # p
    BY <2>2, <1>0, <1>2, <1>3 DEF TimedInv
  <2> QED BY <2>1, <2>2
<1>7. ASSUME NEW q \in Sup, st'[q] = "reaping" PROVE Ended(Child(q))' \/ "KILL" \in inbox'[Child(q)]
  <2>1. CASE q = p
    <3>1. st[p] = "terminating" /\ (Live(Child(p)) => "KILL" \in inbox'[Child(p)])
      BY <2>1, <1>1, <1>7 DEF Waits
    <3>2. st[Child(p)] # "off"
      BY <3>1 DEF TimedInv
    <3> QED BY <2>1, <3>1, <3>2, <1>0, <1>3 DEF Live, Ended
  <2>2. CASE q # p
    <3>1. Ended(Child(q)) \/ "KILL" \in inbox[Child(q)]
      BY <2>2, <1>0, <1>3, <1>7 DEF TimedInv
    <3>2. CASE Child(q) = p
      <4>1. "KILL" \in inbox[p]
        BY <3>1, <3>2, <1>2 DEF Live, Ended
      <4> QED BY <3>2, <4>1, <1>1 DEF Waits, Ended
    <3>3. CASE Child(q) # p
      BY <3>1, <3>3, <1>0, <1>1, <1>3 DEF Ended
    <3> QED BY <3>2, <3>3
  <2> QED BY <2>1, <2>2
<1>8. ASSUME NEW q \in Sup PROVE st'[q] = "finishing" => q = "session"
  <2>1. CASE q = p
    BY <2>1, <1>1 DEF Waits
  <2>2. CASE q # p
    BY <2>2, <1>0, <1>3 DEF TimedInv
  <2> QED BY <2>1, <2>2
<1> QED BY <1>4, <1>5, <1>6, <1>7, <1>8 DEF TimedInv

LEMMA LowerTimed ==
    ASSUME TypeOK, BornInv, TimedInv, RunnerStep \/ PostProcessed \/ WorkflowStep \/ WindUp
    PROVE  TimedInv'
<1>1. /\ \A p \in Sup : st'[p] = st[p] /\ left'[p] = left[p] /\ inbox'[p] = inbox[p]
      /\ st["runner"] # "off" => st'["runner"] # "off"
      /\ Ended("runner") => Ended("runner")'
      /\ "KILL" \in inbox["runner"] => Ended("runner")' \/ "KILL" \in inbox'["runner"]
  BY LowerTimes
<1>2. \A p \in Sup : Child(p) \in Sup \cup {"runner"}
  BY ChainFacts
<1> QED BY <1>1, <1>2 DEF TimedInv, Ended

(* Nobody waits with a timeout that is over while time passes.             *)
LEMMA TickTimes ==
    ASSUME TypeOK, BornInv, TimedInv, Tick, NEW p \in Sup
    PROVE  /\ st[p] = "grace" => left[p] \in 1..Grace(p) /\ left'[p] = left[p] - 1
           /\ st[p] = "terminating" => left[p] \in 1..TerminateWindow /\ left'[p] = left[p] - 1
           /\ st[p] # "reaping"
           /\ st[p] = "waiting" => inbox[p] = {}
<1>0. p \in Procs /\ p # "launch" /\ Child(p) \in Procs /\ Child(p) # "launch"
  BY ChainFacts
<1>1. /\ ~SupBusy(p) /\ (Live(p) => inbox[p] = {}) /\ (Live(Child(p)) => inbox[Child(p)] = {})
      /\ left'[p] = IF left[p] > 0 THEN left[p] - 1 ELSE left[p]
  BY <1>0 DEF Tick, Busy
<1>2. inbox[Child(p)] = {}
  BY <1>0, <1>1 DEF BornInv
<1>3. Grace(p) \in Nat /\ TerminateWindow \in Nat
  BY DEF Grace, TerminateWindow
<1>4. st[p] \in {"grace", "terminating"} => left[p] # 0
  BY <1>1 DEF SupBusy
<1>5. st[p] = "grace" => left[p] \in 1..Grace(p) /\ left'[p] = left[p] - 1
  BY <1>1, <1>3, <1>4 DEF TimedInv
<1>6. st[p] = "terminating" => left[p] \in 1..TerminateWindow /\ left'[p] = left[p] - 1
  BY <1>1, <1>3, <1>4 DEF TimedInv
<1>7. st[p] # "reaping"
  BY <1>1, <1>2 DEF TimedInv, SupBusy
<1> QED BY <1>1, <1>5, <1>6, <1>7 DEF Live

LEMMA TimedStep == ASSUME TypeOK, BornInv, TimedInv, [Next]_vars PROVE TimedInv'
<1>1. CASE Tick
  <2>1. st' = st /\ inbox' = inbox
    BY <1>1 DEF Tick
  <2>2. \A p \in Sup : /\ st[p] = "grace" => left'[p] \in 0..Grace(p)
                       /\ st[p] = "terminating" => left'[p] \in 0..TerminateWindow
    BY <1>1, TickTimes DEF Grace, TerminateWindow
  <2> QED BY <2>1, <2>2 DEF TimedInv, Ended
<1>2. ASSUME NEW sig \in Ways, Request(sig) PROVE TimedInv'
  <2>1. st' = st /\ left' = left /\ \A p \in Procs : inbox[p] \subseteq inbox'[p]
    BY <1>2 DEF Request, Send
  <2>2. \A p \in Sup : Child(p) \in Procs
    BY ChainFacts
  <2> QED BY <2>1, <2>2 DEF TimedInv, Ended
<1>3. CASE UNCHANGED vars
  BY <1>3 DEF vars, TimedInv, Ended
<1> QED BY <1>1, <1>2, <1>3, SupTimed, LowerTimed DEF Next

(* A command is asked when the runner exists, and so waits for its child.  *)
LEMMA AskedInit == Init => AskedStops
  BY DEF Init, AskedStops

LEMMA AskedStep ==
    ASSUME Outermost \in Reached, TypeOK, BornInv, TimedInv, AskedStops, [Next]_vars
    PROVE  AskedStops'
<1>0. Outermost \in Sup /\ Outermost \in Procs /\ Outermost # "session" /\ \A p \in Sup : Child(p) # Outermost
  <2>1. Outermost # "session"
    BY StartFacts, RunFacts, ChainAssumption
  <2> QED BY <2>1, ChainFacts
<1>1. CASE Tick \/ UNCHANGED vars
  BY <1>1 DEF Tick, vars, AskedStops, Live, Stopping
<1>2. ASSUME NEW sig \in Ways, Request(sig) PROVE AskedStops'
  <2>1. st' = st /\ Live(Outermost) /\ st["runner"] # "off" /\ inbox'[Outermost] # {}
    BY <1>0, <1>2 DEF Request, Send
  <2>2. st[Outermost] # "spawning"
    <3>1. CASE Chain = StartChain
      BY <2>1, <3>1, StartFacts DEF BornInv
    <3>2. CASE Chain = RunChain
      BY <2>1, <3>2, RunFacts DEF BornInv
    <3> QED BY <3>1, <3>2, ChainAssumption
  <2>3. st[Outermost] \in {"waiting", "grace", "terminating", "reaping"}
    BY <1>0, <2>1, <2>2 DEF TypeOK, TimedInv, SupLabels, Live
  <2> QED BY <2>1, <2>3 DEF AskedStops, Stopping
<1>3. ASSUME NEW p \in Sup, SupStep(p) PROVE AskedStops'
  <2> SUFFICES ASSUME requests' > 0, Live(Outermost)' PROVE Stopping(Outermost)'
    BY DEF AskedStops
  <2>1. requests' = requests /\ Live(p)
    BY <1>3, SupFrame DEF Keep
  <2>2. CASE p = Outermost
    <3>1. Stopping(Outermost)
      BY <2>1, <2>2 DEF AskedStops
    <3>2. Waits(p)
      BY <1>3, SupTimes
    <3> QED BY <1>0, <2>2, <3>1, <3>2 DEF Waits, Stopping, Live
  <2>3. CASE p # Outermost
    <3>1. st'[Outermost] = st[Outermost] /\ inbox[Outermost] \subseteq inbox'[Outermost]
      BY <1>0, <1>3, <2>3, SupFrame, SupTimes
    <3> QED BY <2>1, <3>1 DEF AskedStops, Stopping, Live
  <2> QED BY <2>2, <2>3
<1>4. CASE RunnerStep \/ PostProcessed \/ WorkflowStep \/ WindUp
  BY <1>0, <1>4, LowerTimes DEF AskedStops, Stopping, Live
<1> QED BY <1>1, <1>2, <1>3, <1>4 DEF Next

(* _run_delegated_command and _run_delegated_session, whatever their       *)
(* children do and whoever is signalled how often: a supervisor that was   *)
(* asked to stop never waits longer than its grace and the termination     *)
(* window, nine ticks for a CLI and six for the session helper.            *)
THEOREM PatienceIsLimited == Spec => PatienceRunsOut
<1> DEFINE Runs(p) ==
      /\ Stopping(p)' \/ st'[p] \in {"finishing", "ended"}
      /\ PatienceLeft(p) \in 0..(Grace(p) + TerminateWindow)
      /\ PatienceLeft(p)' <= PatienceLeft(p)
      /\ Tick => PatienceLeft(p)' < PatienceLeft(p)
<1>1. ASSUME TypeOK, BornInv, TimedInv, [Next]_vars, NEW p \in Sup, Stopping(p) PROVE Runs(p)
  <2>0. p \in Procs /\ Grace(p) \in Nat /\ TerminateWindow \in Nat
    BY ChainFacts DEF Grace, TerminateWindow
  <2>1. PatienceLeft(p) \in 0..(Grace(p) + TerminateWindow)
    BY <1>1, <2>0 DEF TimedInv, Stopping, PatienceLeft
  <2>2. CASE Tick
    <3>1. st'[p] = st[p] /\ inbox'[p] = inbox[p]
      BY <2>2 DEF Tick
    <3>2. PatienceLeft(p)' < PatienceLeft(p)
      BY <1>1, <2>0, <2>2, <3>1, TickTimes DEF Stopping, PatienceLeft
    <3>3. PatienceLeft(p)' \in Int
      BY <1>1, <2>0, <2>2, <3>1, TickTimes DEF Stopping, PatienceLeft
    <3> QED BY <1>1, <2>1, <3>1, <3>2, <3>3 DEF Stopping
  <2>3. CASE st'[p] = st[p] /\ left'[p] = left[p] /\ inbox[p] \subseteq inbox'[p] /\ ~Tick
    <3>1. Stopping(p)' /\ PatienceLeft(p)' = PatienceLeft(p)
      BY <1>1, <2>3 DEF Stopping, PatienceLeft
    <3> QED BY <2>1, <2>3, <3>1
  <2>4. CASE Waits(p) /\ ~Tick
    <3>1. /\ Stopping(p)' \/ st'[p] \in {"finishing", "ended"}
          /\ PatienceLeft(p)' <= PatienceLeft(p)
      <4>1. CASE st[p] = "waiting" /\ st'[p] = "grace" /\ left'[p] = Grace(p)
        BY <2>0, <4>1 DEF Stopping, PatienceLeft
      <4>2. CASE st[p] = "grace" /\ st'[p] = "terminating" /\ left'[p] = TerminateWindow
        BY <1>1, <2>0, <4>2 DEF Stopping, PatienceLeft, TimedInv
      <4>3. CASE st'[p] = "reaping" \/ st'[p] \in {"finishing", "ended"}
        BY <2>1, <4>3 DEF Stopping, PatienceLeft
      <4> QED BY <1>1, <2>4, <4>1, <4>2, <4>3 DEF Waits, Stopping
    <3> QED BY <2>1, <2>4, <3>1
  <2>5. Tick \/ Waits(p) \/ (st'[p] = st[p] /\ left'[p] = left[p] /\ inbox[p] \subseteq inbox'[p])
    <3>1. ASSUME NEW q \in Sup, SupStep(q), q # p
          PROVE  st'[p] = st[p] /\ left'[p] = left[p] /\ inbox[p] \subseteq inbox'[p]
      <4>1. st[p] # "off"
        BY <1>1 DEF Stopping
      <4>2. st'[p] = st[p] \/ (p = Child(q) /\ st[q] = "spawning")
        BY <1>1, <2>0, <3>1, SupFrame
      <4>3. st[q] = "spawning" => st[Child(q)] = "off"
        BY <1>1 DEF BornInv
      <4> QED BY <1>1, <2>0, <3>1, <4>1, <4>2, <4>3, SupFrame, SupTimes
    <3>2. ASSUME NEW sig \in Ways, Request(sig)
          PROVE  st'[p] = st[p] /\ left'[p] = left[p] /\ inbox[p] \subseteq inbox'[p]
      BY <2>0, <3>2 DEF Request, Send
    <3>3. CASE RunnerStep \/ PostProcessed \/ WorkflowStep \/ WindUp
      BY <1>1, <3>3, LowerTimes
    <3>4. CASE UNCHANGED vars
      BY <3>4 DEF vars
    <3> QED BY <1>1, <3>1, <3>2, <3>3, <3>4, SupTimes DEF Next
  <2> QED BY <2>2, <2>3, <2>4, <2>5
<1>2. TypeOK /\ BornInv /\ TimedInv /\ [Next]_vars =>
        [\A p \in Sup : Stopping(p) => Runs(p)]_vars
  BY <1>1
<1>3. Spec => [](TypeOK /\ BornInv /\ TimedInv)
  BY TypeInit, TypeStep, BornInit, BornStep, TimedInit, TimedStep, PTL DEF Spec
<1> QED BY <1>2, <1>3, PTL DEF Spec, PatienceRunsOut

(* The command that the operator typed is stopping from the moment it is   *)
(* asked, if it is reached at all.  With PatienceRunsOut: the terminal is  *)
(* given back within nine ticks, 45 seconds, of the first request.         *)
THEOREM StopIsHeard ==
    ASSUME Outermost \in Reached
    PROVE  Spec => []AskedStops
<1>1. Spec => [](TypeOK /\ BornInv /\ TimedInv)
  BY TypeInit, TypeStep, BornInit, BornStep, TimedInit, TimedStep, PTL DEF Spec
<1> QED BY <1>1, AskedInit, AskedStep, PTL DEF Spec
=============================================================================

# Formal models of lidar_slam_ros2

TLA+ models of the repository's concurrent C++ core and of the Python processes
that run, supervise and record a map run, TLC configurations that check them on
small instances, and TLAPS proofs for every value of the constants. Paths are
relative to the repository root; `AD` stands for
`graph_based_slam/src/graph_slam_ros_adapter.cpp`, `BW` for
`graph_based_slam/include/graph_based_slam/background_work_drain.hpp`, and `RL` and `RH`
for `registration_plugin_loader.cpp` and `.hpp` of `lidarslam_registration_loader`; `RN`,
`CLI`, `WZ` and `SK` for `run_autoware_map_from_bag.py`, `lidarslam_cli.py`,
`sensor_setup_wizard.py` and `run_map_soak.py` in `scripts`.

## 1. The system

`scanmatcher` turns clouds into poses and publishes submaps in a `MapArray`.
`graph_based_slam` collects submaps (from `MapArray` messages, or from an
external odometry and clouds), searches loops between them, optimises the pose
graph and writes map bundles. `lidarslam_registration_loader` loads registration
backends as plugins for both. The product around them is Python: `CLI` is the
command the operator types, `WZ` sets up and watches a session, `RN` runs the
nodes on a bag and turns the result into a verified map with a manifest, and `SK`
repeats that for hours.

| Part | State it keeps | Operations | What makes it correct | Here |
|---|---|---|---|---|
| Work drain (`BW`) | `stopping_`, `drain_pending_`, `jobs_`, `drain_error_` | `request`, `runSerialized`, `stop`, the worker's `run` | no lost wakeup; no task lost, run twice or outliving its caller; truthful answers; failures reported; `stop` final | modelled, proved |
| Backend node (`AD`, `graph_based_slam_node.cpp`) | worker's place, snapshot, sensor buffers | submap callbacks, `map_save`, search loop, pose adjustment, shutdown | every submap searched once and in order; maps cover what was staged; scheduling invisible | partly modelled, proved |
| Application (`graph_slam_application.cpp`) | `next_query_index`, `loop_edges` | `processSubmaps`, `optimizeAndSerialize` | a query sees its prefix; cursor, edges and events agree when a search throws | partly modelled, proved |
| Loop edge set (`loop_edge_set.hpp`) | the edges | `upsert` | the better of two nearby duplicates stays | modelled |
| Graph state store (`graph_state_store.hpp`) | map array, clouds | `replace`, `append`, `snapshot` | readers get one complete graph | modelled as used |
| Submap cache (`filesystem_io_ports.cpp`) | files by index, point counts | `store`, `storeBatch`, `load` | a cloud belongs to the submap whose index names it | partly modelled |
| GNSS and IMU buffers (`AD`) | stamped measurements, origin | receive, flush, match | stamps independent of start-up order | planned |
| Scan matcher (`scanmatcher_component.cpp`) | `map_array_msg_`, `targeted_cloud_`, flags, update thread | `receiveCloud`, `updateMap` | each update reaches the registration target; distances without a race | planned |
| Pose acceptance (`pose_acceptance.hpp`) | streaks, mode, cooldown | `evaluate` | modes and cooldowns recover | planned |
| Plugin session (`RL`, `RH`) | `mutex`, `in_flight`, `cancelled`, `shutdown`, `faulted` | `setInputTarget`, `align`, `cancel`, `shutdown` | plugin reset once, after the last call; serialized providers entered by one thread; closed sessions stay closed; the barrier opens | modelled, proved |
| Activation transaction (`RH`) | previous, candidate and committed snapshots, flags; the host's slots | `prepare`, `validate`, `commit`, `rollback`, destructor | undoing restores the host; slots belong together; plugin pointers do not outlive their session | modelled, proved |
| `SerializedWorkDrain` | `draining_`, `pending_` | `request` | no notification lost | planned (only a unit test uses it) |
| Loop candidates, verification, optimisation, filters, reports | none that is shared | numeric functions | numeric | not modelled |
| Map runner (`RN`, with the receipt, the diagnosis and the demo that reuse its output) | `<output>.partial`, `<output>`, `run_manifest.json`, logs, diagnosis, receipt, the post-processing lock | fresh run, `--resume`, post-processing, failure handler; readers | a recorded result is never changed; every stop is resumable or complete; one writer of the evidence; what is trusted was verified | modelled but for preflight and identities, proved |
| Command supervision (`CLI`, `WZ`, `RN`, the RKO-LIO workflow script) | process groups, pending signals, graces | forward, wait, terminate, kill, reap | nothing survives the command; cleanup is not cut short; the result is recorded; a stop ends | modelled for the chain of a session, proved |
| Session handoff (`WZ`) | `session.json`, `session.html`, the recovery receipt | monitor thread, main thread | progress never goes back; the last word stays; nothing is claimed early; a lasting stage is shown | modelled, proved |
| Soak harness (`SK`) | `soak_report.json`, the current iteration | iterate, sample, judge, stop, close | passed is earned; evidence only grows; the soak ends | modelled, proved |
| Offline runner, multi-session join, other operator scripts, launch files, tools | files | batch programs | | not modelled |

How the modelled parts interact: the executor thread (`rclcpp::spin`) runs one
callback at a time. A submap callback writes clouds to the cache, commits the
graph to the store under its mutex, and calls `request()` of the work drain,
which wakes the worker. The worker's drain body, `searchPendingLoopQueries`,
takes a snapshot of the store, hands growing prefixes of it to the application,
and publishes an adjusted map whenever a prefix changed the loop edges.
`map_save` puts a task into the same work drain and blocks the executor until
the task has searched what is pending and written the bundle. At shutdown `spin`
returns and the destructor calls `stop()`.

A registration session is shared by the threads that align with it and those
that cancel it or shut it down; its two waits are the mutex and the barrier in
`shutdown()`. At startup a transaction installs the session in the host's slots and
takes it out again when publishers or subscriptions cannot be created.

A map session is a chain of processes that wait for each other: `CLI` starts `WZ`,
which starts a second `CLI`, which starts `RN`, which starts a workflow script, which
starts `ros2 launch`. Signals travel down that chain through process groups, exit
codes travel up. `RN` and `WZ` share no memory: the session reads the stages that the
runner writes into its manifest, and later decides from it whether to offer `--resume`.
`SK` starts the whole chain again and again, under GNU time.

What is hard here: two threads and three mutexes; coalesced requests; an
executor that waits for the worker it feeds; exceptions that travel from the
worker to a later callback; a cache that is written before the graph it belongs
to; an interrupt at any point; evidence in several files that are replaced one
by one, renamed and judged while processes may be killed between two writes;
nested timeouts. `PROJECT.json` lists these hazards with their
lines and the properties that cover them.

## 2. Modules

| Module | Models | Notes |
|---|---|---|
| `BackgroundWorkDrain` | `BW`: the worker, any set of calling threads, the owner that stops | one action per critical section or step outside the lock |
| `BackgroundWorkDrainProofs` | theorems about it | |
| `LoopEdgeSet` | `upsert` as an operator from edges to edges | the field the code calls fitness is an integer |
| `GraphSlamApplication` | `shouldSearch`, `processSubmaps`, `loopConstraintsForPrefix` | the search is `CONSTANT Proposal(_)`, a function of the prefix |
| `SequentialReplay` | abstract specification: one thread takes the submaps in order, searches each one once with its prefix, books the outcome | from `docs/graph-slam-architecture.md` and the comment at `AD:409` |
| `GraphSlamBackend` | the node: callbacks, store, cache, worker body, shutdown; instantiates `BackgroundWorkDrain` with the executor as its only caller | |
| `GraphSlamBackendProofs` | theorems about the composition, and about the application's two loops | instantiates `BackgroundWorkDrainProofs` |
| `RegistrationPluginSession` | a session and any set of threads that use it | one module for both threading models (the variable `serialized`, chosen by the plugin) and both cancellation models (`Cooperative`) |
| `RegistrationPluginSessionProofs` | theorems about it | |
| `RegistrationActivation` | activation transactions on the same slots | one step per method, destructor pointer by pointer |
| `RegistrationActivationProofs` | theorems about it | |
| `MapRun` | `RN`: fresh invocations and resumes of one output name, their workflows, post-processing, the handler, kills | the directories are the durable state |
| `RunRecord` | abstract specification: a manifest is opened, gets a result, is sealed, may be revoked | |
| `MapRunProofs` | theorems about `MapRun` | |
| `SupervisionChain` | a stop request on its way from the command to the launch | discrete time, one tick is five seconds |
| `SupervisionChainProofs` | theorems about it | |
| `SessionHandoff` | `WZ`: the two threads that report a session | |
| `SessionHandoffProofs` | theorems about it | |
| `SoakRun` | `SK`: one soak | |
| `SoakRunProofs` | theorems about it | |
| `MCBackgroundWorkDrain`, `MCGraphSlamBackend`, `MCRegistrationPluginSession`, `MCRegistrationActivation`, `MCMapRun`, `MCSupervisionChain` | values of the constants for TLC | `MCSupervisionChain` also says that `Busy` is what can happen at once |

### Correspondence: work drain

A thread parked on a condition variable is `worker = "asleep"` or
`caller[c] = "blocked"`; a notification moves it to `"awake"` or `"woken"`, and
only then does it test its predicate. Spurious wakeups are actions.
`RequestMark`/`RequestNotify` are the locked and the unlocked half of
`request()`, `StopMark`/`StopNotify`/`StopJoin` those of `stop()`. `runSerialized()` notifies
under the lock, so `RunQueued` is one action. The worker holds the lock from the
moment a body is booked until it starts the next one or waits: `TaskEnds` and
`DrainEnds` contain the head of the loop (`LoopTop`). When the loop ends on
`stopping_`, the discarded jobs are finished in the same section. `executed` is a
history variable, `reply` what the call returned or threw.

### Correspondence: backend node

`exec` is where a submap callback stands: staged (cache written), committed
(`replace`/`append`), and then inside `request()` (`caller[Executor]`). `search` is where
the worker's body stands, `snap`, `query` and `events` its locals. A submap is
named by the frontend run it came from and its index, and its cloud carries the
same name, so that a cloud loaded for another submap shows. `published` and
`saved` are the last adjusted map and the last bundle, `log` is a history of all
queries. Loads of clouds happen in the step that uses them (`ProcessQuery`,
`AdjustPrefix`, `SaveMap`): a cache that changes during one call of
`processSubmaps` is seen before or after that call.

One callback of the node runs at a time in both programs that contain it:
`graph_based_slam_node.cpp` spins it with one thread, and `lidarslam/src/lidarslam.cpp`
with a `MultiThreadedExecutor`, where all its callbacks share the node's default,
mutually exclusive, callback group. `map_array` is subscribed to in every
configuration; with `UseOdomInput` the model assumes that nobody publishes it.

An exception that leaves a callback leaves `rclcpp::spin` and `main`
(`graph_based_slam_node.cpp:39`): `process` becomes `"crashed"`. The service
response is empty, so a client cannot tell a skipped save from a written one;
`reply` here is the value of `runSerialized()`.

`doPoseAdjustment` either publishes and, if asked, writes a whole bundle, or
throws before (`AdjustFails`). Writing of a part of a bundle is not modelled.

### The abstract specification

`SequentialReplay` has the submaps given so far and the list of completed queries,
each with the clouds and poses it saw. It allows a query to end without its event
when an exception is thrown. `BatchingIsUnobservable` says that the node
implements it under the mapping `input <- Poses(graph)`, `replayed <- log`: how requests
coalesce and how many submaps a drain finds cannot be seen in any query. What
the optimiser is given besides submaps and edges (GNSS and IMU buffers,
auto-scaled weights) depends on arrival times and is not part of the statement.

### Correspondence: plugin session

`setInputTarget()` and `align()` have the same control and are one call. Its
places follow the code: `entering` (before `begin()` has the mutex), `admitting`
(holding it), `admitted` (flags read), `inside` (counted, in the plugin), `returned`
or `threw`, `leaving` (before `end()`). The flags are atomics that other threads
set without the mutex, so they are read in one step and the call is counted in
the next. The separate loads of one test are one step: no flag is ever cleared, so all loads of a
test that finds none set could have been made at its first.
`CancelMarks`/`CancelRequests` are the two stores of `cancel()`; the plugin's own
reaction to `requestCancel()` is not modelled, except that it stays asked. `shutdown()` is
five steps, up to `reset()` under the mutex. A second `shutdown()` returns
at once, as in the code. `late` and `resets` are history variables. At this commit
the callers of `cancel()` and `shutdown()` are tests, the stress tool
`tools/registration_plugin_session_stress.cpp` and the session adapter's `reset()`.

### Correspondence: activation

A session's name stands for the session, its plugin and its contract; a snapshot
is a record of the three, as the code copies and swaps them separately. `stage` is
the combination of the four flags, of which only these occur. Rejected calls
change nothing and are left out. `has_committed_state_` equals `committed_`.
`WithContract` says whether the host supplies the three contract slots, as
`scanmatcher_component.cpp` does and `graph_slam_offline_runner.cpp` does not. The
other owners that the comments of the class speak of are other transactions.

### Correspondence: map run

A directory is one value: the map, the verification log, the diagnosis, the
manifest and the receipt that lie in it, and which invocation made it. A file that is
truncated and then filled is `"torn"` in between (`OpenVerifyLog`/`VerifyMap`,
`OpenDiagnosis`/`WriteDiagnosis`); the manifest and the receipt are replaced
atomically. A receipt carries the manifest and the evidence that it names by
digest, so that a later change of either shows. `mem[i]` is the manifest an
invocation holds in memory: `_postprocess_run` sets a stage there and then writes
it, and a failed write goes to the handler with the new stage (`Write`). The
manifest exists on disk from `WriteRunning`, with the stage `workflow_running`, and is
not written again before post-processing. `cur[i]` is the directory that is
post-processed.

`Kill` ends an invocation between any two steps and frees its advisory lock. Its
workflow, in a group of its own, may live on and still write into its directory
(`WorkflowEnds`). `Faults` names what may fail: a manifest write, the launch, the rename, the
diagnosis, the receipt, the disk reserve that turns the result into exit code 70.
Preflight and the comparison of identities are a refusal that may always happen
(`RefuseResume`). Exit codes are classes: 130 stands for 128 + signal. The
verification mode is chosen when the run starts, and a resume with another one is
refused.

Two kinds of end are exempt from being resumable. A run that finds its lock taken
(`RN:1361`) ends with an open manifest, as it never recorded a result. An
interruption whose disk reserve failed with it has exit code 70, which the
runner does not resume (`RN:1043`); `RecordedRunIsRecoverable` names it. `AcceptedResumeCompletes`
exempts a resume that is killed or reports a failure of its own.

`RunRecord` says what the manifest promises to a reader of the output name.
`ImplementsRunRecord` maps the manifest found there to it.

### Correspondence: supervision

The state of a supervisor names the wait it is in: `waiting` for its child,
`grace` after it has forwarded a first signal, `terminating`, `reaping`. A process has a
set of pending signals, as POSIX does: signals of one kind coalesce.
`GroupBelow` is the process group a supervisor leads and signals; a nested `CLI` shares
the group of its parent and forwards nothing at first (`OwnsGroup`). Whatever a
process does at once happens between two ticks: a tick waits until nobody is `Busy`.
That is a predicate on states, so that the proofs can use it; `BusyMeansEnabled`
says that it is `ENABLED AtOnce`, and TLC agrees on both chains.
The graces are 35 (`CLI`), 20 (`WZ`) and 10 (`RN`)
seconds. The workflow script is `run_rko_lio_graph_autoware_dogfood.sh`, which stops
its launch in its trap and waits for it; `ros2 launch` itself is external and
needs a number of ticks that `needs` fixes once, from `Stops`. `InTime` says that this is
less than the grace of the workflow (`WorkflowGrace`): a launch that ends together with
the grace races the SIGKILL that the runner then sends to the script, and may be left
without a parent. `Patient` says that the operator asked only
once: who asks again asks for the cleanup to be cut short.
A signal that finds no handler ends the process (`Die`, `RunnerDies`, `ScriptDies`). No
process reacts to anything else once a SIGKILL is pending: the guard
`"KILL" \notin inbox[p]` is in every action that handles a signal.

### Correspondence: session handoff

The runner appears as far as its manifest shows it. A read of the monitor is two
steps, as it looks into the working directory and then into the output
directory. The index and the page are two writes with a state between them. A
stage whose write failed is remembered as reported. `Interrupt` is a Ctrl-C outside
the delegated wait, which ends the helper and its daemon thread.

### Correspondence: soak

`report` is the report in memory and `file` the one on disk, `over` the set of budgets
that are exceeded; the size may come back, the maxima may not. The clock may advance in
any step. `happened` is a history of what really went wrong. `group` is GNU time and
the CLI, `work` the map runner in the session of its own that the CLI gives it.

## 3. Runs

| Run | Instance | Question | Result |
|---|---|---|---|
| `drain` | 2 callers, fair | can a wakeup, a caller or an answer be lost, do calls and `stop()` return, do requested drains start, is a failure kept, is `stop()` final? | holds |
| `backend_odom` | odometry input, cache, saves in the loop, failures, 4 submaps | is an unsearched submap always owed a search, do saves cover what was staged, do clouds belong to their poses, is the sequential replay implemented? | holds |
| `backend_map_array` | map arrays of one frontend run, cache, failures, 3 submaps, fair | is staging invisible, do searches catch up, are saves answered, does an interrupted node leave? | holds |
| `backend_frontend_restart` | map arrays of two frontend runs, no cache, no failures, 3 submaps | does `map_save` cover a graph that replaced another? | finding 1 |
| `session` | 3 threads, a cooperative provider, reentrant or serialized, fair | is the plugin reset once and last, is a parked `shutdown()` owed a notification, is a serialized provider entered by one thread, does `shutdown()` return? | holds |
| `activation` | 3 transactions, 2 candidates, contract slots, symmetric | does undoing restore the host, do slots belong together, do leases hold? | holds |
| `map_run` | 1 fresh run, 2 resumes, every fault, fair | can a recorded result change or its run be lost, can 0 or trust be given for less than a verified run, is there one writer, is the record implemented, does an accepted resume seal the run? | holds |
| `stop` | `start` chain, up to 3 requests of either signal, launches that stop in time or not, fair | does a stop end with its result recorded and nothing left, is post-processing alone, is the terminal given back? | holds |
| `stop_service` | `run` chain, SIGTERM to every process at once | is the result recorded? | finding 2 |
| `session_handoff` | every write may fail, interruptions, a viewer, fair | can progress go back, the last word be lost, something be claimed early, is a lasting stage shown? | holds |
| `soak` | target 3, iterations up to 2, samples every 1, full disk, signals, fair | is passed earned, does evidence only grow, does the soak end? | holds |
| `soak_stopped` | the same, no fault | is the map run over when a failed report is final? | finding 3 |

`session` covers both kinds of provider: `serialized` is what the plugin declared when
it was loaded, `Init` leaves it open and no step changes it.

Bounds. Two callers of the drain are the fewest with one running and one queued or
requesting; their number of calls is unbounded, as every call returns to `idle`,
and the theorems hold for any number of callers. Four submaps give
`MCGraphSlamBackend!LoopOf` a prefix without a loop, a first loop and a better loop
near it, with a request that coalesces while the worker is in an earlier query;
three suffice where no edge is in question. `MaxSessions` counts frontend runs; two
show what one cannot. `Stride` and `DedupWindow` are 1. `MaxSubmaps` and `MaxSessions`
are the only bounds of the node, and `MayThrow` switches its failures on. Three threads
of a session are one inside, one queued and one that closes; nothing else is bounded
there, as flags are only set and a plugin is reset once. Three transactions let
one commit on top of another and a third stand on either.

In `MapRun` each invocation runs once, and nothing else is bounded. A run and two
resumes show a resume of a failed resume, and two invocations at the same directory
while the first may still be alive. Two fresh runs of one output name are covered by
the theorems about one writer, results and trust, which hold for any number of each.
What a zero exit code or a recorded result says of the directory at the output name
is true of one fresh run only (`OneFreshRun`, section 4). Maps, logs and
diagnoses are classes of what the readers distinguish. In `SupervisionChain` the
number of stop requests is bounded (`Requests`); a fourth has nothing left to do,
as the third already kills. `AnyTime` has launches that stop at once, within the
workflow's grace, with it and after it. `SoakRun` has a target of three time units with
iterations of at most two, so that several iterations, a sample in each and an
iteration over the end fit; the bound of its clock follows from them.
`SessionHandoff` is finite as it is.

Deadlock is checked in the runs of the drain, the node and the session
(`Terminated` is the end of the node's process). It is off for systems that end:
`activation`, when every transaction has been destroyed, and the map run, the stops,
the session handoff and the soaks, when their processes have ended.

Fairness. `WF(WorkerStep)`: the worker thread is scheduled and its bodies
return, which the code needs for `join()`. In the drain, weak fairness of each
caller inside a call and of the owner inside `stop()`; in the node, of
`ExecutorStep`. Nobody is assumed to make a call, send a message, save or interrupt,
and no wakeup is spurious by assumption. `RequestedDrainStarts` assumes in its statement that
the job queue runs dry again and again: `run()` prefers tasks, and two callers that always
queue the next task hold a pending drain back for good. With the node's single
executor that cannot happen, and `EverySubmapIsSearched` needs no such premise.

In the session, threads are scheduled once inside the loader's code. A call into a
cooperative provider returns only once it has been asked to. `ShutdownReturns`
assumes in its statement that, at last, no new processing call contends for the
mutex: the mutex is not fair, and threads that keep calling a closed session may
keep the closing one out.

In `MapRun` an invocation that has started goes on and a workflow ends by itself;
nobody has to start, interrupt or kill one. In `SupervisionChain` processes run and
time passes, and the waits of the code do the rest; a map need not be finished, and
post-processing need not end. In `SessionHandoff` both threads of the helper run,
while the runner may stay in a stage for as long as it likes. In `SoakRun` the
harness runs and time passes, while a map run may stall for ever.

Findings. Where a document, a comment or a test says otherwise than what the code
does, a run shows it:

1. The cursor `next_query_index` is never reset. When a restarted frontend
   publishes a new `MapArray`, its submaps below the old cursor count as searched,
   and `map_save` writes a map without searching them, against the comment at
   `AD:338`.
2. A service stop signals `CLI` and `RN`, and `CLI` signals `RN` again. The second
   SIGTERM meets the restored default handler (`RN:202`, `RN:221`) during the termination
   wait, and the run is left at `workflow_running`, against
   `docs/operational-reliability.md:18`.
3. `SK:486` waits for GNU time, which dies first, and then kills the CLI; the map
   runner runs on after the report is final, against
   `docs/operational-reliability.md:194`.

Met while modelling, and not among the runs; each needs an instance, or a
property, that the runs above leave out:

- Clouds of the next `MapArray` go to index-named files before the commit, and
  readers prefer files, against the comment at `AD:229`. Within one frontend
  run the clouds are equal and nothing shows; the theorem about clouds names
  this as its assumption.
- `upsert()` stops at the first nearby edge (`loop_edge_set.hpp:92`), so two nearby
  duplicates can be stored side by side, the worse one included, against the
  comment at `loop_edge_set.hpp:67`.
- The failure handler of post-processing (`RN:1315`) writes into `<output>` whenever
  that exists. A fresh run that lost its name to another one (both passed the test
  at `RN:1685` before either published) puts its failed manifest, checksums and receipt
  into the other's directory, against `docs/golden-path-cli.md:319`.
- The status is `succeeded` from the end of the workflow (`RN:1246`), before and
  also after a verification that failed, until checksumming; against
  `docs/golden-path-cli.md:383`. A kill leaves it so.
- A run that finds its lock taken (`RN:1361`) exits without having written its workflow's
  result; the manifest stays at `workflow_running`, which cannot be resumed, against
  `docs/golden-path-cli.md:324`.
- `WZ:2094` offers `--resume` for an interrupted run with any exit code; `RN:1043`
  refuses all but 128 + signal, and a failed reserve records 70.
- The manifest is complete before the receipt is written (`RN:1302`). A
  termination in between cannot be resumed (`RN:1002`), against
  `docs/operational-reliability.md:19`. What reads the run later sees that the
  receipt is missing, which is what `TrustedMapIsVerified` relies on.
- The workflow's launch is in a group of its own, which the runner's SIGKILL misses;
  a launch that needs longer than the grace still runs beside post-processing
  (`run_rko_lio_graph_autoware_dogfood.sh:730`), against
  `docs/operational-reliability.md:152`.
- The wall time of a soak is read before the clock that ends it (`SK:699`, `SK:584`): a soak
  that ran its whole duration may be closed as failed, without an error, against
  `docs/operational-reliability.md:184`.

## 4. Proofs

`BackgroundWorkDrainProofs`, for any set `Callers`: `IInv` is inductive. Its parts
need one another. `TypeOK` gives `ran` and `error` their meaning; `NoLostWakeup`
says why an idle worker has an empty queue; `TaskBelongsToWaitingCall` relates queue,
running task and waiting callers, and is what makes the head of the queue a
caller that waits; `TaskAccounting` carries how often a task was started from
the queue to the answer, for `ReplyTellsTheTruth`. Lemmas about taking the head
of a queue and appending to it without repetition (`PopFront`, `PushBack`) carry the sequences.
From `IInv` follow the invariants; `StopIsFinal` and `FailureIsReported` are proved as
action properties.

`GraphSlamBackendProofs`, for any `MaxSubmaps`, `MaxSessions`, `Proposal`, `Stride`
and `DedupWindow`: every step of the node is a step of the work drain or leaves it
alone (`DrainIsUsedAsSpecified`), so its theorems hold inside the node
(`DrainInvariantInNode`). `NoSubmapLeftBehind` is not inductive: at rest it says
nothing of how the node came to rest. `SearchIsOwed` is the strengthening: an
unsearched submap has a callback that has not requested yet, a pending request,
a body that will look at the graph again, or a failure on its way to a callback.
It is proved from the drain's invariant, which excludes that a pending request
sleeps, and gives `NothingLeftBehind`.

`RegistrationPluginSessionProofs`, for any finite set of threads: the reset excludes
calls by two different means, which is why `ResetFollowsTheLastCall` is not inductive.
`MutexHasOneOwner` excludes a call between its flag test and its count,
`CounterCounts` those inside, `OneThreadCloses` a second reset, and `ClosingIsCancelled`
any call that would begin later. `BarrierWillOpen` needs that every counted call
has its notification ahead of it. `SerializedProviderIsAlone` follows from `MutexHasOneOwner`: a
serialized provider is called with the mutex held. The step lemma is split into control, counter and types.

`RegistrationActivationProofs`, for any finite set of transactions: `UndoneMeansRestored`
is about all of them at once and follows from none of them alone. `MovesBalance`
counts, for each session, the standing commits that left it and that reached it;
the difference tells where the slots started and where they are. Each commit adds
one move and each rollback removes its own, whatever happened in between. The
other parts say which pointers a transaction holds at each stage. `ActivationTypes` is
a theorem only: no run lists it.

`MapRunProofs`, for any set of invocations and any set of faults: `EvidenceHasOneWriter` is
not inductive, as it says nothing of what a killed runner left. `IInv` says who may
hold the lock and be in post-processing (`LockHeld`), that the working directory is
owned by the invocation that made it while that has not posted (`WorkingDirOwned`, `NothingOwned`),
that a recorded result means a workflow that has ended (`RecordedIsQuiet`, `FinalIsQuiet`,
`PostsQuietDir`), and where each stage of post-processing is (`PublishesPartial`). An orphaned workflow
keeps its manifest at `workflow_running`, which no resume accepts: that is the argument for one
writer. `ResultIsKept` follows from `ResultInv`, which relates every copy of a
manifest, in memory or in a directory, to the others of the same run, and
`TrustedMapIsVerified` from `EarnedInv`, which says what each stage has behind it. The steps of
post-processing share one shape (`PostShape`), and the proofs treat them by it.

What stands at the output name is the subject of `RecordInv`, under the assumption
`OneFreshRun`. Without it TLC finds both statements about it violated: a fresh run that lost its
name to another writes its failure into the winner's directory (`RN:1315`, section 3), so
the winner's exit code 0 or its recorded result no longer describes what lies there. With it,
there is one directory at a time (`OneOutput`), every manifest is `Sound` for the place it is
in, and the manifest on disk is at most one write behind the one that the holder of the
lock has in memory (`PostInv`); `ZeroInv` keeps a closed run closed. `ZeroExitIsSealed` and
`RecordedRunIsRecoverable` are read off it. `RunRecordImplemented` goes step by step: `View` is the
refinement mapping, `Evolves` a step of `RunRecord` or none, and each action either
leaves the view, opens it, gives it its result, advances the stage, seals it or revokes it.

`SupervisionChainProofs`, for both chains, any number of requests, either signal and any
times that launches take to stop. Three inductive invariants:

- `WorkflowInv` is about the three lowest processes. Post-processing starts when the runner has
  reaped its script, so it is alone if the script outlives its launch
  (`ScriptOutlivesLaunch`). That holds because the script waits for the launch unless it is
  killed, and it is killed only by the runner, at the end of the grace (`KilledLast`); the
  launch has been told by then and `GraceOutlastsLaunch` compares the ticks it still needs with
  those the runner still grants. `PostAlone` assumes `Reached \subseteq Sup \cup {"runner"}`, which
  is to say that nobody but the runner signals the workflow.
- `PatientInv` is about the supervisors, when only one stop is requested. For each
  supervisor and the process below it, it says how far the signal has come and that the
  upper grace is longer than what the lower one can still use up (`CliOverSession`,
  `SessionOverInner`, `InnerOverRunner`, `RunnerUnder`). Hence no supervisor escalates (`NoKill`),
  the runner is pressed once and writes its result before it ends (`ResultKept`), and each
  process ends after the one it waits for (`NothingLeft`). These two assume
  `Reached = {Outermost}`: the request meets the process that the operator started. With a
  stop that signals every process of a service at once they are false; that is finding 2.

- `TimedInv` says that a supervisor that stops waits with a timeout, or for a child that has
  ended or has a SIGKILL pending. `PatienceLeft` adds up what it may still wait. It never
  grows, each tick takes one of it, and only the end of the supervisor takes it out of its
  stop (`PatienceIsLimited`), whatever the children do and however many requests reach
  whom: nine ticks, 45 seconds, for a CLI, and six for the session helper. Further
  signals only shorten it. `StopIsHeard` adds that a request to the process the operator
  started does begin such a stop, as the runner exists only when everything above it
  waits. Together they are the safety half of `StopCompletes`; that time passes, so that
  the patience is used up, is fairness and stays with TLC.

The graces are numbers of the code (35, 20 and 10 seconds). The first two invariants
use only their order and that a supervisor needs no time to react; the third adds them up.

`SoakRunProofs`, for any `Target`, `MaxIteration`, `Interval` and any faults:
`PassedIsEarned` is not inductive, as it says nothing of a bad event that is not in
the report yet. `HappenedInv` says where each is: in the report, in the result of an
iteration that will be read, or on a path whose only report is a failed one.
`FileInv` relates the report on disk to the one in memory, of which it is an earlier
version, and `TimeInv` orders the clocks; `CheckpointGrows` states once what writing
a checkpoint does, for all the steps that write one.

`SessionHandoffProofs`, for any faults: `IndexClaimsNothingEarly` depends on who may write when.
`MainInv` says that main thread and monitor take turns, so the last word comes
after the join. `MonitorInv` carries what a read of two directories is worth: a monitor
that has found no working directory will find the published one, and what it
has seen is never beyond the manifest nor behind the index. `RetainedGrows` says that
the manifest itself never goes back, the rename included.

In `GraphSlamBackendProofs`, `CloudsStayWithPoses` needs the assumption `OneRunPerCache`: with a
cache, map arrays come from one frontend run. Files are named by index only, and
without the assumption the statement is false (section 3). `StoreInv` says that every entry of the
graph, of the array that is being committed and of the worker's snapshot carries its
own cloud or is backed by the file of its index; `QueryInv` that one call of
`processSubmaps` is one query, so that a query never reads past its snapshot.
`StagingStaysInvisible` follows, as both graphs load the clouds of their own poses.

`SavesCoverStaged` assumes `OneFrontendRun`, without which it is false as well (finding 1): a
second run renumbers the submaps below the cursor. `OrderInv` says that submaps are
numbered in order and that all those up to the cursor are in the log. `SaveInv` follows a save: the
executor that waits for it is in no other callback, so the snapshot that the task found
fully searched is still the graph when it writes the bundle and when the call returns;
a drain that runs in between finds nothing to query, hence nothing to adjust, and
leaves the bundle alone. An interrupted search would report success too, but only on
a node that is already going down.

`SchedulingIsInvisible` proves the refinement, `BatchingIsUnobservable`, under `OneFrontendRun`.
`ReplayInv` is what it needs besides `CloudInv` and `OrderInv`: one query is booked for each
submap below the cursor, the edges are those of the last event and join submaps below the
cursor, and the graph has at least what snapshot and callbacks have seen. Then `CommitGraph` gives
submaps (`Arrive`), `ProcessQuery` books a query (`Search`), the steps that write a map are
`Adjust`, and every other step of the two threads maps to a stutter (`ReplayStep`). It is the
callers that make the statement hard: a map is written with the edges induced by its submaps
(`loopConstraintsForPrefix`), and the replay has no such filter. Both agree as no edge reaches
beyond the cursor (`AllInduced`), which is true of searches that join submaps they were
given. `SearchesPrefix` says that of `Proposal`; the code picks the pair from the prefix
(`backend_core.hpp:954`).

`NodeTypeCorrect` holds for any number of frontend runs. `StoreTypes` says that a submap whose
cloud a callback has dropped has a file (`Filed`), in the graph, in the array being committed
and in the worker's snapshot: without it a load could find nothing, and the type invariant
is not inductive.

`BatchesCompose` is about `processSubmaps` alone, for any search: submaps handed over at once or in
two calls make the same events. `test_graph_slam_application.cpp:177` compares the two for four
submaps and one search.

The two meet in `OneBatchSuffices`. Each step of the replay extends the log by what one call
with one more submap would add (`BatchGrows`), so the log of a node is what a single call
of `processSubmaps` with all submaps searched so far makes, and every map it publishes or saves is
`MapAfter(n)` for some number of submaps. With `SavesCoverStaged` that number is known for a
reported save (`SavesAreReproducible`): it is the whole graph, so the bundle depends on the
submaps and on nothing that happened between them.

`NearbyKeepsBetter` is about `upsert` alone, for any edges, window and fitness: "keep the better
fitness for nearby duplicate pairs". Only the first stored edge near the new one is
compared, so it does not say that stored edges stay apart, and they need not: one that
is replaced may come near another. `LoopsImprove` carries it to the life of a node, for
any number of frontend runs: the edges change by upserts only (`QueryUpserts`).

What the loops of the application compute is stated with recursive functions, and the
facts about them would be inductions. They are proved from the least counterexample
instead (`LeastNat`, from the library's `WFMin`), which takes a set and no operator:
`InducedSteps` and `ProcessSteps` say what one more step of the loop does, and the rest is
about the first index at which a claim fails.

The proofs assume `BackendAssumption` (`GraphSlamBackend`), `SessionAssumption`,
`ActivationAssumption`, `RunsAssumption`, `SoakAssumption`, `FaultsAssumption` (`SessionHandoff`),
`ChainAssumption` (`SupervisionChain`), and `OneRunPerCache`,
`OneFrontendRun`, `OneFreshRun`, `SearchesPrefix` (the only thing said of `Proposal`) or a set of
processes that a stop reaches where they are named.
Type correctness is proved for the drain, the node, the session, the activation, the map run, the stop,
the soak and the handoff, and is in no run. Proved without a run as well: one task of the drain
belongs to each waiting call, what a closed session does, that only accepted sessions are active,
that the node implements the work drain,
that nothing is left behind at rest, that batches compose, that one batch makes every map, how an
edge set improves and how long a stop may take. The runs keep the stronger or the
more surprising statement instead.

Every invariant, every action property and both refinements that a passing run checks are
thereby proved. Left to TLC: all liveness, as the prover has no rule for fairness here, and that
`Busy` is `ENABLED AtOnce`.

## 5. What is not modelled, and the plan

Not modelled: the numeric code (registration, descriptors, optimisation, filters,
refinement), file formats, launch files, sequential tools and scripts, and vendored
libraries. The components in `PROJECT.json` give the reason for each. Most of the
repository's Python is of that kind: reports, comparisons and checks that read files,
compute and print, with no state that a second actor or a failure could catch
half-way.

Done: the work drain, the application with its edge set, and the backend node; the plugin
session and the activation; the map run with its record; the stop; the session handoff; the
soak; and their proofs.

Next, in this order:

1. `ScanMatcherMapUpdate`: the update thread, its future and flag, the hand-over of
   `targeted_cloud_`, synchronous warm-up, recovery target, the unlocked
   `trans_`. Then `PoseAcceptance`: streaks, modes and the cooldown.
2. `SubmapCache`: files that survive a process, torn writes; map bundles written
   halfway; the publication of `map_edit.py` and `map_merge.py`.
3. `GnssStamping`: pre-odometry buffer, flush, stamps; `SerializedWorkDrain`.

-------------------------- MODULE GraphSlamBackend --------------------------
(***************************************************************************)
(* The graph_based_slam node: the executor thread that runs the map_array, *)
(* odometry+cloud and map_save callbacks, and the backend worker that      *)
(* searches loops, adjusts poses and saves maps                            *)
(* (src/graph_slam_ros_adapter.cpp, graph_state_store.hpp,                 *)
(* src/graph_slam_application.cpp), composed with the work drain between   *)
(* them (module BackgroundWorkDrain).                                      *)
(***************************************************************************)
EXTENDS GraphSlamApplication

CONSTANTS
  Executor,         \* whoever spins the node, one callback at a time
  MaxSubmaps,       \* bound: submaps of one graph
  MaxSessions,      \* bound: frontend runs that publish map_array
  UseOdomInput,     \* use_odom_input: submaps from odometry+cloud pairs
  UsePcdCache,      \* use_pcd_cache: clouds go to files named by index
  SaveMapInLoop,    \* use_save_map_in_loop
  MayThrow,         \* searches and pose adjustments may throw
  NoCloud           \* no cloud stored at this index

ASSUME BackendAssumption ==
  /\ MaxSubmaps \in Nat \ {0}
  /\ MaxSessions \in Nat \ {0}
  /\ UseOdomInput \in BOOLEAN
  /\ UsePcdCache \in BOOLEAN
  /\ SaveMapInLoop \in BOOLEAN
  /\ MayThrow \in BOOLEAN

VARIABLES
  stopping, drainPending, jobs, job, drainError, worker, current, caller,
  reply, executed, owner,          \* the work drain
  graph,            \* GraphStateStore: poses with their in-memory clouds
  cache,            \* the submap storage: index -> cloud
  session,          \* the frontend run the graph comes from
  incoming,         \* the graph a callback has staged and not yet committed
  exec,             \* where the executor is in a submap callback
  rosOk,            \* rclcpp::ok()
  process,          \* the node process
  search,           \* where the worker is in its drain or task
  snap,             \* the worker's snapshot of the graph
  query,            \* query_index of searchPendingLoopQueries()
  events,           \* events of processSubmaps() still to be handled
  cursor,           \* next_query_index of the application
  edges,            \* loop_edges of the application
  log,              \* history: every query completed, in order
  published,        \* the last pose-adjusted map that was published
  saved             \* the last map bundle written

drainVars == <<stopping, drainPending, jobs, job, drainError, worker, current,
               caller, reply, executed, owner>>
storeVars == <<graph, cache, session, incoming>>
searchVars == <<search, snap, query, events>>
engineVars == <<cursor, edges, log>>
mapVars == <<published, saved>>
vars == <<drainVars, storeVars, exec, rosOk, process, searchVars, engineVars, mapVars>>

Drain == INSTANCE BackgroundWorkDrain WITH Callers <- {Executor}

Submap == (1..MaxSessions) \X (1..MaxSubmaps)
EmptyMap == [submaps |-> <<>>, edges |-> <<>>]

Poses(g) == [i \in DOMAIN g |-> g[i].pose]

\* loadSubmapCloud(): the file of the index if there is one, else the cloud
\* the graph carries.
LoadCloud(g, i) == IF UsePcdCache /\ cache[i] # NoCloud THEN cache[i] ELSE g[i].cloud

Loaded(g, count) ==
  [i \in 1..count |-> [pose |-> g[i].pose, cloud |-> LoadCloud(g, i)]]

Init ==
  /\ Drain!Init
  /\ graph = <<>>
  /\ cache = [i \in 1..MaxSubmaps |-> NoCloud]
  /\ session = 1
  /\ incoming = <<>>
  /\ exec = "idle"
  /\ rosOk = TRUE
  /\ process = "running"
  /\ search = "none"
  /\ snap = <<>>
  /\ query = 0
  /\ events = <<>>
  /\ cursor = 1
  /\ edges = <<>>
  /\ log = <<>>
  /\ published = EmptyMap
  /\ saved = EmptyMap

-----------------------------------------------------------------------------
(* Submap callbacks: write the clouds to the cache, commit the graph, then *)
(* request a drain.  A failed cache write keeps the cloud in the graph.    *)

CallbackStarts == process = "running" /\ rosOk /\ exec = "idle"
                  /\ caller[Executor] = "idle" /\ owner = "running"

\* Mutations: a failed cache write counts as stored; the files are numbered
\* one too low.
StageAssumesStored(g, stored) ==
  /\ incoming' = [i \in DOMAIN g |-> [pose |-> g[i],
                    cloud |-> IF i \in DOMAIN graph /\ UseOdomInput THEN graph[i].cloud
                              ELSE IF UsePcdCache THEN NoCloud ELSE g[i]]]
  /\ cache' = [i \in DOMAIN cache |-> IF i \in stored THEN g[i] ELSE cache[i]]
  /\ exec' = "staged"
  /\ UNCHANGED <<drainVars, graph, rosOk, process, searchVars, engineVars, mapVars>>

StageOffByOne(g, stored) ==
  /\ incoming' = [i \in DOMAIN g |-> [pose |-> g[i],
                    cloud |-> IF i \in DOMAIN graph /\ UseOdomInput THEN graph[i].cloud
                              ELSE IF i \in stored THEN NoCloud ELSE g[i]]]
  /\ cache' = [i \in DOMAIN cache |-> IF i + 1 \in stored THEN g[i + 1] ELSE cache[i]]
  /\ exec' = "staged"
  /\ UNCHANGED <<drainVars, graph, rosOk, process, searchVars, engineVars, mapVars>>

Stage(g, stored) ==
  /\ incoming' = [i \in DOMAIN g |-> [pose |-> g[i],
                    cloud |-> IF i \in DOMAIN graph /\ UseOdomInput THEN graph[i].cloud
                              ELSE IF i \in stored THEN NoCloud ELSE g[i]]]
  /\ cache' = [i \in DOMAIN cache |-> IF i \in stored THEN g[i] ELSE cache[i]]
  /\ exec' = "staged"
  /\ UNCHANGED <<drainVars, graph, rosOk, process, searchVars, engineVars, mapVars>>

\* tryCreateSubmap(): one more submap.
StageOdomSubmap ==
  /\ UseOdomInput
  /\ CallbackStarts
  /\ Len(graph) < MaxSubmaps
  /\ \E stored \in SUBSET {Len(graph) + 1} :
       /\ stored # {} => UsePcdCache
       /\ Stage(Append(Poses(graph), <<session, Len(graph) + 1>>), stored)
  /\ UNCHANGED session

\* map_array callback: the whole graph of the running frontend, which only
\* grows during one session and starts again from one submap in the next.
\* The subscription is always there; nobody publishes to it when the node is
\* fed with odometry and clouds.
StageMapArray ==
  /\ ~UseOdomInput
  /\ CallbackStarts
  /\ \E s \in session..MaxSessions, count \in 1..MaxSubmaps :
       /\ s = session => count > Len(graph)
       /\ \E stored \in SUBSET (1..count) :
            /\ stored # {} => UsePcdCache
            /\ Stage([i \in 1..count |-> <<s, i>>], stored)
       /\ session' = s

\* GraphStateStore::append() or replace().
CommitGraph ==
  /\ process = "running"
  /\ exec = "staged"
  /\ graph' = incoming
  /\ exec' = "committed"
  /\ UNCHANGED <<drainVars, cache, session, incoming, rosOk, process, searchVars,
                 engineVars, mapVars>>

RequestDrain ==
  /\ process = "running"
  /\ exec = "committed"
  /\ Drain!RequestMark(Executor)
  /\ exec' = "idle"
  /\ incoming' = <<>>
  /\ UNCHANGED <<graph, cache, session, rosOk, process, searchVars, engineVars, mapVars>>

\* An exception that leaves a callback leaves rclcpp::spin() and main().
Survives == process' = IF reply'[Executor] \in {"drain_error", "task_error"}
                       THEN "crashed" ELSE "running"

RequestReturns ==
  /\ process = "running"
  /\ Drain!RequestNotify(Executor)
  /\ Survives
  /\ UNCHANGED <<storeVars, exec, rosOk, searchVars, engineVars, mapVars>>

-----------------------------------------------------------------------------
(* map_save: the executor waits until the worker has run the save.         *)

MapSave ==
  /\ CallbackStarts
  /\ Drain!RunQueued(Executor) \/ Drain!RunRethrow(Executor)
  /\ IF caller'[Executor] = "blocked" THEN UNCHANGED process ELSE Survives
  /\ UNCHANGED <<storeVars, exec, rosOk, searchVars, engineVars, mapVars>>

MapSaveReturns ==
  /\ process = "running"
  /\ Drain!CallerReturn(Executor)
  /\ Survives
  /\ UNCHANGED <<storeVars, exec, rosOk, searchVars, engineVars, mapVars>>

MapSaveWaits ==
  /\ process = "running"
  /\ Drain!CallerWaitAgain(Executor) \/ Drain!SpuriousCallerWakeup(Executor)
  /\ UNCHANGED <<storeVars, exec, rosOk, process, searchVars, engineVars, mapVars>>

-----------------------------------------------------------------------------
(* The worker: searchPendingLoopQueries(), then, in a save task, the final *)
(* pose adjustment and the save.                                           *)

\* A body starts with locals of its own: snapshot, query index and events.
EnterBody ==
  /\ search' = IF worker' \in {"task", "drain"} THEN "loop" ELSE "none"
  /\ snap' = <<>>
  /\ query' = 0
  /\ events' = <<>>

WorkerWakes ==
  /\ process = "running"
  /\ Drain!WorkerWakes
  /\ EnterBody
  /\ UNCHANGED <<storeVars, exec, rosOk, process, engineVars, mapVars>>

WorkerSpuriouslyWakes ==
  /\ process = "running"
  /\ Drain!SpuriousWorkerWakeup
  /\ UNCHANGED <<storeVars, exec, rosOk, process, searchVars, engineVars, mapVars>>

Halted == ~rosOk \/ stopping

SearchAt(place) == process = "running" /\ search = place
                   /\ UNCHANGED <<drainVars, storeVars, exec, rosOk, process>>

\* Mutations: a save takes the graph as it is; the last submap never counts
\* as pending.
SnapshotForSave ==
  /\ SearchAt("loop")
  /\ snap' = graph
  /\ query' = cursor
  /\ search' = IF graph = <<>> THEN "no_input"
               ELSE IF worker = "task" \/ cursor >= Len(graph) THEN "complete" ELSE "query"
  /\ UNCHANGED <<events, engineVars, mapVars>>

SnapshotOffByOne ==
  /\ SearchAt("loop")
  /\ IF Halted THEN search' = "interrupted" /\ UNCHANGED <<snap, query>>
     ELSE IF graph = <<>> THEN search' = "no_input" /\ UNCHANGED <<snap, query>>
     ELSE /\ snap' = graph
          /\ query' = cursor
          /\ search' = IF cursor + 1 >= Len(graph) THEN "complete" ELSE "query"
  /\ UNCHANGED <<events, engineVars, mapVars>>

\* The head of the outer loop: a fresh snapshot, and is anything pending?
TakeSnapshot ==
  /\ SearchAt("loop")
  /\ IF Halted THEN search' = "interrupted" /\ UNCHANGED <<snap, query>>
     ELSE IF graph = <<>> THEN search' = "no_input" /\ UNCHANGED <<snap, query>>
     ELSE /\ snap' = graph
          /\ query' = cursor
          /\ search' = IF Len(graph) < 2 \/ cursor >= Len(graph) THEN "complete" ELSE "query"
  /\ UNCHANGED <<events, engineVars, mapVars>>

QueriesExhausted ==
  /\ SearchAt("query")
  /\ query >= Len(snap)
  /\ search' = "loop"
  /\ UNCHANGED <<snap, query, events, engineVars, mapVars>>

StopBetweenQueries ==
  /\ SearchAt("query")
  /\ query < Len(snap)
  /\ Halted
  /\ search' = "interrupted"
  /\ UNCHANGED <<snap, query, events, engineVars, mapVars>>

\* Mutation: the search is given the whole snapshot.
WholeSnapshot(g, q) == Loaded(g, Len(g))

\* The prefix one processSubmaps() call is given.
PrefixOf(g, q) == Loaded(g, q + 1)

\* processSubmaps() on the prefix that ends in the query submap.
ProcessQuery ==
  /\ SearchAt("query")
  /\ query < Len(snap)
  /\ ~Halted
  /\ LET produced == Process(PrefixOf(snap, query), cursor, edges)
     IN  /\ events' = produced
         /\ cursor' = cursor + Len(produced)
         /\ edges' = EdgesAfter(produced, edges)
         /\ log' = log \o produced
  /\ search' = "events"
  /\ UNCHANGED <<snap, query, mapVars>>

\* A registration, descriptor or cloud provider throws: the queries before
\* it stay booked, their events are lost with the call.
ProcessQueryFails ==
  /\ MayThrow
  /\ SearchAt("query")
  /\ query < Len(snap)
  /\ ~Halted
  /\ LET produced == Process(PrefixOf(snap, query), cursor, edges)
     IN  \E done \in 0..(Len(produced) - 1) :
           /\ cursor' = cursor + done
           /\ edges' = EdgesAfter(SubSeq(produced, 1, done), edges)
           /\ log' = log \o SubSeq(produced, 1, done)
  /\ search' = "failed"
  /\ UNCHANGED <<snap, query, events, mapVars>>

\* doPoseAdjustment() on the first `count` submaps of the snapshot.
AdjustedMap(count) == [submaps |-> Loaded(snap, count), edges |-> InducedBy(edges, count)]

SkipEvent ==
  /\ SearchAt("events")
  /\ events # <<>>
  /\ ~Head(events).changed
  /\ events' = Tail(events)
  /\ UNCHANGED <<search, snap, query, engineVars, mapVars>>

AdjustPrefix ==
  /\ SearchAt("events")
  /\ events # <<>>
  /\ Head(events).changed
  /\ published' = AdjustedMap(Head(events).query + 1)
  /\ saved' = IF SaveMapInLoop THEN published' ELSE saved
  /\ events' = Tail(events)
  /\ UNCHANGED <<search, snap, query, engineVars>>

\* Mutation: the query index is not advanced.
SameQuery ==
  /\ SearchAt("events")
  /\ events = <<>>
  /\ search' = "query"
  /\ UNCHANGED <<snap, query, events, engineVars, mapVars>>

NextQuery ==
  /\ SearchAt("events")
  /\ events = <<>>
  /\ query' = query + 1
  /\ search' = "query"
  /\ UNCHANGED <<snap, events, engineVars, mapVars>>

SaveMap ==
  /\ worker = "task"
  /\ SearchAt("complete")
  /\ published' = AdjustedMap(Len(snap))
  /\ saved' = published'
  /\ search' = "saved"
  /\ UNCHANGED <<snap, query, events, engineVars>>

\* The optimization or the publication throws before the bundle is written.
AdjustFails ==
  /\ MayThrow
  /\ process = "running"
  /\ \/ SearchAt("events") /\ events # <<>> /\ Head(events).changed
     \/ SearchAt("complete") /\ worker = "task"
  /\ search' = "failed"
  /\ events' = <<>>
  /\ UNCHANGED <<snap, query, engineVars, mapVars>>

\* Mutation: an exception of the search is swallowed.
DrainEndsQuietly ==
  /\ process = "running"
  /\ search \in {"no_input", "complete", "interrupted", "failed"}
  /\ Drain!DrainEnds(FALSE)
  /\ EnterBody
  /\ UNCHANGED <<storeVars, exec, rosOk, process, engineVars, mapVars>>

DrainEnds ==
  /\ process = "running"
  /\ search \in {"no_input", "complete", "interrupted", "failed"}
  /\ Drain!DrainEnds(search = "failed")
  /\ EnterBody
  /\ UNCHANGED <<storeVars, exec, rosOk, process, engineVars, mapVars>>

TaskEnds ==
  /\ process = "running"
  /\ search \in {"no_input", "saved", "interrupted", "failed"}
  /\ Drain!TaskEnds(search = "failed")
  /\ EnterBody
  /\ UNCHANGED <<storeVars, exec, rosOk, process, engineVars, mapVars>>

-----------------------------------------------------------------------------
(* Shutdown: ok() turns false, spin() returns between callbacks, and the   *)
(* destructor stops the worker.                                            *)

Interrupt ==
  /\ process = "running"
  /\ rosOk
  /\ rosOk' = FALSE
  /\ UNCHANGED <<drainVars, storeVars, exec, process, searchVars, engineVars, mapVars>>

SpinReturns ==
  /\ process = "running"
  /\ ~rosOk
  /\ exec = "idle"
  /\ caller[Executor] = "idle"
  /\ Drain!StopMark
  /\ UNCHANGED <<storeVars, exec, rosOk, process, searchVars, engineVars, mapVars>>

Destroy ==
  /\ process = "running"
  /\ Drain!StopNotify \/ Drain!StopJoin
  /\ process' = IF owner' = "joined" THEN "exited" ELSE process
  /\ UNCHANGED <<storeVars, exec, rosOk, searchVars, engineVars, mapVars>>

Terminated == process # "running" /\ UNCHANGED vars

-----------------------------------------------------------------------------
SearchStep ==
  \/ TakeSnapshot
  \/ QueriesExhausted
  \/ StopBetweenQueries
  \/ ProcessQuery
  \/ ProcessQueryFails
  \/ SkipEvent
  \/ AdjustPrefix
  \/ NextQuery
  \/ SaveMap
  \/ AdjustFails

WorkerStep == WorkerWakes \/ SearchStep \/ DrainEnds \/ TaskEnds

\* What the executor does without being asked by a message or a client.
ExecutorStep ==
  \/ CommitGraph
  \/ RequestDrain
  \/ RequestReturns
  \/ MapSaveReturns
  \/ SpinReturns
  \/ Destroy

Next ==
  \/ StageOdomSubmap
  \/ StageMapArray
  \/ MapSave
  \/ MapSaveWaits
  \/ ExecutorStep
  \/ WorkerStep
  \/ WorkerSpuriouslyWakes
  \/ Interrupt
  \/ Terminated

Spec == Init /\ [][Next]_vars

\* The scheduler runs both threads; nobody has to send a message, to save a
\* map or to interrupt the node.
FairSpec == Spec /\ WF_vars(WorkerStep) /\ WF_vars(ExecutorStep)

-----------------------------------------------------------------------------
Entry == [pose : Submap, cloud : Submap \cup {NoCloud}]
WholeEntry == [pose : Submap, cloud : Submap]
Edge == [from : Nat, to : Nat, fitness : Int]
Map == [submaps : Seq(WholeEntry), edges : Seq(Edge)]

TypeOK ==
  /\ Drain!TypeOK
  /\ graph \in Seq(Entry)
  /\ cache \in [1..MaxSubmaps -> Submap \cup {NoCloud}]
  /\ session \in 1..MaxSessions
  /\ incoming \in Seq(Entry)
  /\ exec \in {"idle", "staged", "committed"}
  /\ rosOk \in BOOLEAN
  /\ process \in {"running", "crashed", "exited"}
  /\ search \in {"none", "loop", "query", "events", "no_input", "complete",
                  "interrupted", "failed", "saved"}
  /\ snap \in Seq(Entry)
  /\ query \in Nat
  /\ cursor \in Nat \ {0}
  /\ edges \in Seq(Edge)
  /\ published \in Map
  /\ saved \in Map

(* When both threads are at rest no committed submap is still unsearched:  *)
(* the requests that coalesced while the worker was busy were not lost     *)
(* between its last snapshot and its going to sleep.  A failed search is   *)
(* exempt as long as its exception waits to be rethrown.                   *)
AllSearched == Len(graph) < 2 \/ cursor >= Len(graph)

NoSubmapLeftBehind ==
  (/\ process = "running"
   /\ rosOk
   /\ worker = "asleep"
   /\ exec = "idle"
   /\ caller[Executor] = "idle"
   /\ ~drainError) => AllSearched

(* Why: on a running node an unsearched submap is owed a search by someone.*)
(* Its callback has not requested the drain yet, the request is pending,   *)
(* the worker will look at the graph again before it leaves its body, or a *)
(* failed search has an exception on its way to a callback.                *)
SearchIsOwed ==
  (process = "running" /\ rosOk) =>
    /\ ~stopping
    /\ search # "interrupted"
    /\ search # "none" <=> worker \in {"task", "drain"}
    /\ \/ AllSearched
       \/ exec = "committed"
       \/ drainPending
       \/ search \in {"loop", "query", "events", "failed"}
       \/ drainError
       \/ job[Executor].error /\ caller[Executor] \in {"blocked", "woken"}

(* A map_save that reports success on a running node has searched every    *)
(* submap staged before it, and the bundle on disk is that whole graph     *)
(* with all its loop edges (handleMapSaveRequest: "once every submap       *)
(* staged so far has been searched").                                      *)
SearchedAsQuery(pose) == \E k \in DOMAIN log : Last(log[k].visible).pose = pose

MapSaveCoversStaged ==
  [][(/\ caller[Executor] = "woken"
      /\ caller'[Executor] = "idle"
      /\ reply'[Executor] = "ran"
      /\ rosOk
      /\ graph # <<>>) =>
        /\ Poses(saved.submaps) = Poses(graph)
        /\ saved.edges = InducedBy(edges, Len(graph))
        /\ \A i \in 2..Len(graph) : SearchedAsQuery(graph[i].pose)]_vars

(* Until a callback commits its graph, readers load the previous complete  *)
(* graph: staging the next one in the cache changes none of its clouds     *)
(* (the comment in the map_array callback).                                *)
StagingIsInvisible ==
  [][graph' = graph => Loaded(graph, Len(graph))' = Loaded(graph, Len(graph))]_vars

(* Every cloud a search or a map uses is the cloud of the submap whose     *)
(* pose it uses, however the cache and the graph changed meanwhile and     *)
(* whichever cache writes failed (loadSubmapCloud).                        *)
CloudsBelongToPoses ==
  LET whole(g) == \A i \in DOMAIN g : g[i].cloud = g[i].pose
  IN  /\ \A k \in DOMAIN log : whole(log[k].visible)
      /\ whole(published.submaps)
      /\ whole(saved.submaps)

(* Whatever the callbacks, the coalescing, the saves and the failures do,  *)
(* queries and maps are those of the sequential replay.                    *)
Replay == INSTANCE SequentialReplay WITH input <- Poses(graph), replayed <- log
BatchingIsUnobservable == Replay!ReplaySpec

(* The two threads of the node use the work drain as its specification     *)
(* allows, so its theorems hold here.                                      *)
UsesDrain == Drain!Spec

(* Every submap of the graph is searched unless the node is interrupted or *)
(* a search fails; the failure stays recorded until a callback rethrows it.*)
EverySubmapIsSearched ==
  \A k \in 2..MaxSubmaps :
    Len(graph) >= k ~> (cursor >= k \/ ~rosOk \/ drainError \/ process # "running")

(* map_save is answered, although the executor that waits for it is the    *)
(* thread that would deliver every further submap.                         *)
MapSaveIsAnswered ==
  caller[Executor] = "blocked" ~> (caller[Executor] = "idle" \/ process # "running")

(* An interrupted node leaves: a search in progress notices between two    *)
(* queries and the destructor can join the worker.                         *)
InterruptEndsTheNode == ~rosOk ~> process # "running"
=============================================================================

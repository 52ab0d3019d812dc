---------------------------- MODULE BaselineGraph ----------------------------
(***************************************************************************)
(* The graph scheduler on top of the pool: src/task_graph_baseline.cpp     *)
(* over src/thread_pool_baseline.cpp.  Main has built a graph, runs it     *)
(* and waits for it, or for the whole pool.  A node's fn and               *)
(* on_node_complete() are the body of a pool task; the nodes they release  *)
(* are enqueued by the worker they run on.                                 *)
(*                                                                         *)
(* The task <<v, k>> is the k-th Task that dispatch() made for node v.     *)
(* Node ids start at 1, at 0 in the code.                                  *)
(***************************************************************************)
EXTENDS BaselinePool, Dependencies

CONSTANTS Graphs,     \* the successor lists Main may have built
          MaxNodes    \* bound on their length

\* add_dependency() refuses ids that are not in the graph, run() cyclic graphs.
ASSUME GraphsAssumption ==
  /\ MaxNodes \in Nat
  /\ \A succ \in Graphs :
       succ \in Seq(Seq(DOMAIN succ)) /\ Len(succ) <= MaxNodes /\ ~Cyclic(succ)
  /\ Tasks \subseteq (1..MaxNodes) \X Nat
  /\ Clients = {Main}

VARIABLES successors,    \* nodes_[v]->successors
          pendingDeps,   \* nodes_[v]->pending_deps
          remaining,     \* remaining_
          main,          \* where the graph's caller is; pc[Main] is where it is in the pool
          loop,          \* the node run()'s loop looks at next
          edge           \* position of each worker in its node's successors, 0 in fn

shape == <<successors, main, loop>>
graph == <<pendingDeps, remaining, shape, edge>>
system == <<vars, graph>>

Nodes == DOMAIN successors
InDegree(succ, v) ==
  Cardinality(UNION {{u} \X {i \in DOMAIN succ[u] : succ[u][i] = v} : u \in DOMAIN succ})

SystemInit ==
  /\ Init
  /\ successors \in Graphs
  /\ pendingDeps = [v \in Nodes |-> InDegree(successors, v)]
  /\ remaining = 0
  /\ main = "build" /\ loop = 1
  /\ edge = [w \in Workers |-> 0]

-----------------------------------------------------------------------------
(* dispatch() and run()                                                    *)

Copies(v) == {x \in Tasks : x[1] = v}

\* Tasks bounds how often each node can be dispatched.
Dispatch(p, v) ==
  LET x == <<v, Cardinality({y \in Copies(v) : status[y] # "new"}) + 1>>
  IN  x \in Tasks /\ Begin(p, x)

Calls(l) == main = l /\ At(Main, "idle")

RunStarts ==
  /\ Calls("build")
  /\ remaining' = Len(successors)
  /\ main' = "dispatch"
  /\ UNCHANGED <<vars, pendingDeps, successors, loop, edge>>

RunLoop ==
  /\ Calls("dispatch") /\ loop <= Len(successors)
  /\ IF pendingDeps[loop] = 0 THEN Dispatch(Main, loop) ELSE UNCHANGED vars
  /\ loop' = loop + 1
  /\ UNCHANGED <<pendingDeps, remaining, successors, main, edge>>

RunReturns ==
  /\ Calls("dispatch") /\ loop > Len(successors)
  /\ main' = "ran"
  /\ UNCHANGED <<vars, pendingDeps, remaining, successors, loop, edge>>

Run == RunStarts \/ RunLoop \/ RunReturns

-----------------------------------------------------------------------------
(* The body of a task: fn, then on_node_complete().                        *)

NodeOf(w) == task[w][1]

FnReturns(w) ==
  /\ At(w, "run") /\ edge[w] = 0
  /\ edge' = [edge EXCEPT ![w] = 1]
  /\ UNCHANGED <<vars, pendingDeps, remaining, shape>>

Releasing(w) == At(w, "run") /\ edge[w] > 0

LastDep_OneLate(v) == pendingDeps[v] = 0
LastDep(v) == pendingDeps[v] = 1

Release(w) ==
  /\ Releasing(w) /\ edge[w] <= Len(successors[NodeOf(w)])
  /\ LET sid == successors[NodeOf(w)][edge[w]] IN
       /\ pendingDeps' = [pendingDeps EXCEPT ![sid] = @ - 1]
       /\ IF LastDep(sid) THEN Dispatch(w, sid) ELSE UNCHANGED vars
  /\ edge' = [edge EXCEPT ![w] = @ + 1]
  /\ UNCHANGED <<remaining, shape>>

LeaveBody(w) == BodyReturns(w) /\ edge' = [edge EXCEPT ![w] = 0]

Complete(w) ==
  /\ Releasing(w) /\ edge[w] > Len(successors[NodeOf(w)])
  /\ remaining' = remaining - 1
  /\ IF remaining = 1 THEN Goto(w, "graph_notify") /\ UNCHANGED <<data, edge>>
                      ELSE LeaveBody(w)
  /\ UNCHANGED <<pendingDeps, shape>>

GraphNotify(w) ==
  /\ At(w, "graph_notify")
  /\ LeaveBody(w)
  /\ main' = IF main = "wait_asleep" THEN "wait_pred" ELSE main
  /\ UNCHANGED <<pendingDeps, remaining, successors, loop>>

Body(w) == FnReturns(w) \/ Release(w) \/ Complete(w) \/ GraphNotify(w)

-----------------------------------------------------------------------------
(* wait(), and what Main asks of the pool itself.                          *)

Wait ==
  /\ \/ Calls("ran") /\ main' = "wait_pred"
     \/ main = "wait_pred" /\ main' = IF remaining = 0 THEN "waited" ELSE "wait_block"
     \/ main = "wait_block" /\ main' = "wait_asleep"
     \/ main = "wait_asleep" /\ main' = "wait_pred"   \* for no reason
  /\ UNCHANGED <<vars, pendingDeps, remaining, successors, loop, edge>>

\* Main waits for the pool between two calls of the graph, and destroys the
\* pool when it is through with the graph.
UsePool ==
  /\ \/ main \in {"ran", "waited"} /\ WaitAll
     \/ main = "waited" /\ Destroy
  /\ UNCHANGED graph

-----------------------------------------------------------------------------
PoolStep(A) == A /\ UNCHANGED graph
Worker(w) == PoolStep(Start(w) \/ Loop(w)) \/ Body(w)
Push == PoolStep(PushGlobal(Main) \/ Notify(Main))

Next ==
  \/ \E w \in Workers : Worker(w) \/ PoolStep(SpuriousWakeup(w))
  \/ Run \/ Push \/ Wait \/ UsePool \/ PoolStep(Shutdown)

Spec == SystemInit /\ [][Next]_system

\* Threads with something to do keep running, a node's fn returns, and a
\* contended global_mutex_ is not denied to a thread for ever.  Nothing obliges
\* Main to call anything; a call of run() that has begun goes on.
Fairness ==
  /\ \A w \in Workers : /\ WF_system(Worker(w))
                        /\ SF_system(PoolStep(Lock(w))) /\ SF_system(PoolStep(PopGlobal(w)))
  /\ WF_system(Push) /\ SF_system(PoolStep(PushGlobal(Main)))
  /\ WF_system(main = "dispatch" /\ Run) /\ WF_system(PoolStep(Shutdown))

FairSpec == Spec /\ Fairness

-----------------------------------------------------------------------------
(* Properties, besides those of BaselinePool.                              *)

\* When run() has returned and pending_ is 0, the whole graph has been executed
\* and no worker is inside on_node_complete() any more: each dispatch is counted
\* before the task that makes it is uncounted.  So wait_all() after run() waits
\* for the graph too, even for one whose nodes are dispatched twice, and after
\* it the graph may be destroyed; after wait() a notify can still be to come.
Copied(v, S) == Cardinality({x \in Copies(v) : status[x] \in S})
Executed(v) == Copied(v, {"finished", "retired"}) > 0
PoolIdleMeansGraphDone ==
  main \notin {"build", "dispatch"} /\ pending = 0 =>
    /\ \A v \in Nodes : Executed(v)
    /\ \A w \in Workers : edge[w] = 0

\* The composition implements TaskGraph: the executor that TaskGraph takes for
\* granted is this pool, whose own steps are invisible there.
InBody(w) == pc[w] \in {"run", "push", "notify"}
GraphStep(w) == CASE pc[w] = "graph_notify" -> "notify"
                  [] InBody(w) -> IF edge[w] = 0 THEN "fn" ELSE "release"
                  [] OTHER -> "idle"
Returned(v) == Copied(v, {"finished", "retired"})
                 + Cardinality({w \in Workers : edge[w] > 0 /\ NodeOf(w) = v})
G == INSTANCE TaskGraph WITH
       MaxTasks <- MaxNodes, MaxDeps <- 0, MaxRuns <- 1,
       runs <- IF main = "build" THEN 0 ELSE 1,
       jobs <- [v \in 1..MaxNodes |-> Copied(v, {"submitted"})],
       pc <- [w \in Workers |-> GraphStep(w)],
       node <- [w \in Workers |-> IF InBody(w) THEN NodeOf(w) ELSE 0],
       edge <- [w \in Workers |-> IF InBody(w) /\ edge[w] > 0 THEN edge[w] ELSE 1],
       begun <- [v \in 1..MaxNodes |-> Copied(v, {"running", "finished", "retired"})],
       finished <- [v \in 1..MaxNodes |-> Returned(v)]
ImplementsGraph == [][G!Next]_(G!vars)

\* A graph that is run is executed to its last node: none is lost between the
\* worker that releases it and the workers that sleep.
GraphRuns == (main = "dispatch") ~> (\A v \in Nodes : Executed(v))
=============================================================================

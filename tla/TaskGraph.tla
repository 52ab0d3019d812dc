----------------------------- MODULE TaskGraph -----------------------------
(***************************************************************************)
(* The dependency-graph scheduler of include/task_graph.hpp and            *)
(* src/task_graph.cpp: one caller that builds a graph, runs it, waits for  *)
(* it and resets it, in the order the header's usage comment gives, while  *)
(* the pool's workers execute the nodes.                                   *)
(*                                                                         *)
(* The pool is the one of module Executor: a dispatched node is run once,  *)
(* by any idle worker, in any order.  Node ids are 1..n here, 0..n-1 in    *)
(* the code.                                                               *)
(***************************************************************************)
EXTENDS Dependencies, Integers, FiniteSets

CONSTANTS Workers,
          MaxTasks,   \* bounds: calls of add_task(), of add_dependency(), of run()
          MaxDeps,
          MaxRuns

ASSUME GraphAssumption == MaxTasks \in Nat /\ MaxDeps \in Nat /\ MaxRuns \in Nat

VARIABLES successors,   \* nodes_[v]->successors
          pendingDeps,  \* nodes_[v]->pending_deps
          remaining,    \* remaining_
          runs,         \* number of runs so far
          main,         \* where the caller is
          loop,         \* the node run()'s loop looks at next
          jobs,         \* how often the pool holds node v, submitted and not started
          pc, node, edge,   \* each worker's step, node and position in successors
          begun,        \* history: how often v's fn was started, and has
          finished      \* returned, in this run

build == <<successors, runs>>
callerVars == <<main, loop>>
workers == <<pc, node, edge>>
history == <<begun, finished>>
vars == <<build, pendingDeps, remaining, callerVars, jobs, workers, history>>

Ids   == 1..MaxTasks
Nodes == DOMAIN successors
Edges == UNION {{u} \X DOMAIN successors[u] : u \in Nodes}
Preds(v) == Predecessors(successors, v)
None  == [v \in Ids |-> 0]

Init ==
  /\ successors = <<>> /\ pendingDeps = <<>>
  /\ remaining = 0 /\ runs = 0
  /\ main = "build" /\ loop = 1
  /\ jobs = None
  /\ pc = [w \in Workers |-> "idle"]
  /\ node = [w \in Workers |-> 0] /\ edge = [w \in Workers |-> 1]
  /\ begun = None /\ finished = None

-----------------------------------------------------------------------------
(* add_task() and add_dependency()                                         *)

AddTask ==
  /\ main = "build" /\ Len(successors) < MaxTasks
  /\ successors' = Append(successors, <<>>)
  /\ pendingDeps' = Append(pendingDeps, 0)
  /\ UNCHANGED <<remaining, runs, callerVars, jobs, workers, history>>

\* Ids beyond nodes_.size() are refused with an exception and change nothing.
AddDependency ==
  /\ main = "build" /\ Cardinality(Edges) < MaxDeps
  /\ \E successor, predecessor \in Nodes :
       /\ successors' = [successors EXCEPT ![predecessor] = Append(@, successor)]
       /\ pendingDeps' = [pendingDeps EXCEPT ![successor] = @ + 1]
  /\ UNCHANGED <<remaining, runs, callerVars, jobs, workers, history>>

-----------------------------------------------------------------------------
(* run(): refuse a cyclic graph, else dispatch the nodes without pending    *)
(* dependencies, looking at one node per step while workers already run.   *)

\* check_for_cycles() throws exactly for these graphs: see CycleCheck.
Refused == Cyclic(successors)

MayRun == main \in {"build", "ready"} /\ runs < MaxRuns

RunRefuses ==
  /\ MayRun /\ Refused
  /\ main' = "refused"
  /\ UNCHANGED <<build, pendingDeps, remaining, loop, jobs, workers, history>>

AllNodes_OneShort == Len(successors) - 1
AllNodes == Len(successors)

RunStarts ==
  /\ MayRun /\ ~Refused
  /\ main' = "dispatch" /\ loop' = 1 /\ runs' = runs + 1
  /\ remaining' = AllNodes
  /\ begun' = None /\ finished' = None
  /\ UNCHANGED <<successors, pendingDeps, jobs, workers>>

FirstEdge_ZeroBased == 0
FirstEdge == 1   \* where a walk through successors begins

Submitted(v) == jobs' = [jobs EXCEPT ![v] = @ + 1]

NoDeps_Ignored(v) == TRUE
NoDeps(v) == pendingDeps[v] = 0

RunLoop ==
  /\ main = "dispatch" /\ loop <= Len(successors)
  /\ IF NoDeps(loop) THEN Submitted(loop) ELSE UNCHANGED jobs
  /\ loop' = loop + 1
  /\ UNCHANGED <<build, pendingDeps, remaining, main, workers, history>>

RunReturns ==
  /\ main = "dispatch" /\ loop > Len(successors)
  /\ main' = "ran"
  /\ UNCHANGED <<build, pendingDeps, remaining, loop, jobs, workers, history>>

-----------------------------------------------------------------------------
(* The job a worker runs: fn, then on_node_complete().                     *)

Start(w) ==
  /\ pc[w] = "idle"
  /\ \E v \in Nodes :
       /\ jobs[v] > 0
       /\ jobs' = [jobs EXCEPT ![v] = @ - 1]
       /\ node' = [node EXCEPT ![w] = v]
       /\ begun' = [begun EXCEPT ![v] = @ + 1]
  /\ pc' = [pc EXCEPT ![w] = "fn"]
  /\ UNCHANGED <<build, pendingDeps, remaining, callerVars, edge, finished>>

FnReturns(w) ==
  /\ pc[w] = "fn"
  /\ finished' = [finished EXCEPT ![node[w]] = @ + 1]
  /\ edge' = [edge EXCEPT ![w] = FirstEdge]
  /\ pc' = [pc EXCEPT ![w] = "release"]
  /\ UNCHANGED <<build, pendingDeps, remaining, callerVars, jobs, node, begun>>

LastDep_Each(v) == TRUE
LastDep_OneLate(v) == pendingDeps[v] = 0
LastDep(v) == pendingDeps[v] = 1

Release(w) ==
  /\ pc[w] = "release" /\ edge[w] <= Len(successors[node[w]])
  /\ LET sid == successors[node[w]][edge[w]] IN
       /\ pendingDeps' = [pendingDeps EXCEPT ![sid] = @ - 1]
       /\ IF LastDep(sid) THEN Submitted(sid) ELSE UNCHANGED jobs
  /\ edge' = [edge EXCEPT ![w] = @ + 1]
  /\ UNCHANGED <<build, remaining, callerVars, pc, node, history>>

Complete(w) ==
  /\ pc[w] = "release" /\ edge[w] > Len(successors[node[w]])
  /\ remaining' = remaining - 1
  /\ pc' = [pc EXCEPT ![w] = IF remaining = 1 THEN "notify" ELSE "idle"]
  /\ node' = [node EXCEPT ![w] = 0] /\ edge' = [edge EXCEPT ![w] = 1]
  /\ UNCHANGED <<build, pendingDeps, callerVars, jobs, history>>

\* done_cv_.notify_all(), without done_mutex_: it reaches only a caller that
\* is already blocked.
NotifyDone(w) ==
  /\ pc[w] = "notify"
  /\ pc' = [pc EXCEPT ![w] = "idle"]
  /\ main' = IF main = "wait_asleep" THEN "wait_pred" ELSE main
  /\ UNCHANGED <<build, pendingDeps, remaining, loop, jobs, node, edge, history>>

-----------------------------------------------------------------------------
(* wait() and reset()                                                      *)

Wait ==
  /\ \/ main = "ran" /\ main' = "wait_pred"
     \/ main = "wait_pred" /\ main' = IF remaining = 0 THEN "waited" ELSE "wait_block"
     \/ main = "wait_block" /\ main' = "wait_asleep"
  /\ UNCHANGED <<build, pendingDeps, remaining, loop, jobs, workers, history>>

SpuriousWakeup ==
  /\ main = "wait_asleep" /\ main' = "wait_pred"
  /\ UNCHANGED <<build, pendingDeps, remaining, loop, jobs, workers, history>>

Reset ==
  /\ main = "waited"
  /\ main' = "ready"
  /\ pendingDeps' = [v \in Nodes |-> 0]
  /\ remaining' = 0
  /\ UNCHANGED <<build, loop, jobs, workers, history>>

-----------------------------------------------------------------------------
Run == RunStarts \/ RunRefuses \/ RunLoop \/ RunReturns
Work(w) == Start(w) \/ FnReturns(w) \/ Release(w) \/ Complete(w) \/ NotifyDone(w)

Next ==
  \/ AddTask \/ AddDependency \/ Run \/ Wait \/ SpuriousWakeup \/ Reset
  \/ \E w \in Workers : Work(w)

Spec == Init /\ [][Next]_vars

-----------------------------------------------------------------------------
(* Properties.                                                             *)

TypeOK ==
  /\ successors \in Seq(Seq(Ids)) /\ Len(successors) <= MaxTasks
  /\ \A u \in Nodes : \A i \in DOMAIN successors[u] : successors[u][i] \in Nodes
  /\ pendingDeps \in Seq(Int) /\ Len(pendingDeps) = Len(successors)
  /\ remaining \in Int /\ runs \in 0..MaxRuns
  /\ main \in {"build", "refused", "dispatch", "ran", "wait_pred", "wait_block",
               "wait_asleep", "waited", "ready"}
  /\ loop \in 1..(MaxTasks + 1)
  /\ jobs \in [Ids -> Nat]
  /\ pc \in [Workers -> {"idle", "fn", "release", "notify"}]
  /\ node \in [Workers -> Nodes \cup {0}]
  /\ \A w \in Workers : pc[w] \in {"fn", "release"} => node[w] \in Nodes
  /\ edge \in [Workers -> Nat \ {0}]
  /\ begun \in [Ids -> Nat] /\ finished \in [Ids -> Nat]

\* Graphs run() is safe for: each node with dependencies has a predecessor that
\* was added after it, so that the loop cannot meet it with all of them done.
Shielded == \A v \in Nodes : Preds(v) # {} => \E u \in Preds(v) : u > v

\* "predecessor must finish before successor" (task_graph.hpp:42): no node is
\* started, or even handed to the pool, before all its predecessors returned.
Dispatched(v) == begun[v] + jobs[v] > 0
InOrder == \A v \in Nodes : Dispatched(v) => \A u \in Preds(v) : finished[u] > 0
ShieldedInOrder == Shielded => InOrder

\* run()'s loop and the workers that finish predecessors meanwhile never both
\* dispatch the same node.
OnceEach == \A v \in Nodes : begun[v] + jobs[v] <= 1
ShieldedOnceEach == Shielded => OnceEach

\* "Block until all tasks in this graph complete" (task_graph.hpp:48): and when
\* wait() has returned no worker touches a node or a counter any more.  The
\* notify of the last one may still be to come.
WaitSound ==
  main = "waited" => /\ \A v \in Nodes : finished[v] > 0
                     /\ \A w \in Workers : pc[w] \in {"idle", "notify"}
ShieldedWaitSound == Shielded => WaitSound

\* When run() has returned and the pool has nothing left to do, every node of
\* the graph has been executed: the caller of wait() does not wait in vain, and
\* after wait() too no released node is missing.
\* This one holds for badly scheduled graphs too.
Quiescent ==
  /\ main \in {"ran", "wait_pred", "wait_block", "wait_asleep", "waited"}
  /\ \A v \in Nodes : jobs[v] = 0
  /\ \A w \in Workers : pc[w] = "idle"
NothingForgotten == Quiescent => \A v \in Nodes : finished[v] > 0
=============================================================================

----------------------------- MODULE CycleCheck -----------------------------
(***************************************************************************)
(* TaskGraph::check_for_cycles() of src/task_graph.cpp: a depth-first      *)
(* search with an explicit stack of (node, next successor) pairs and three *)
(* colours.  One step per turn of its loops; the graph does not change     *)
(* meanwhile, run() holds mutex_.                                          *)
(***************************************************************************)
EXTENDS Dependencies, Integers

CONSTANTS MaxNodes,  \* bounds of the graphs: nodes, successors of a node
          MaxDegree

ASSUME CycleCheckAssumption == MaxNodes \in Nat /\ MaxDegree \in Nat

VARIABLES succ,     \* nodes_[v]->successors
          color,    \* 0 unvisited, 1 on the stack, 2 done
          start,    \* the node the outer loop looks at
          stk,      \* the stack, its top last
          verdict   \* "none" while it runs, then "acyclic" or "cycle"

vars == <<succ, color, start, stk, verdict>>

Graphs ==
  UNION {[1..n -> UNION {[1..d -> 1..n] : d \in 0..MaxDegree}] : n \in 0..MaxNodes}

Nodes == DOMAIN succ
Top == stk[Len(stk)]
Popped == SubSeq(stk, 1, Len(stk) - 1)

Init ==
  /\ succ \in Graphs
  /\ color = [v \in DOMAIN succ |-> 0]
  /\ start = 1
  /\ stk = <<>>
  /\ verdict = "none"

Searching == verdict = "none" /\ stk # <<>>
Between   == verdict = "none" /\ stk = <<>>

SkipStart ==
  /\ Between /\ start \in Nodes /\ color[start] # 0
  /\ start' = start + 1
  /\ UNCHANGED <<succ, color, stk, verdict>>

Frame_ZeroBased(v) == <<v, 0>>
Frame(v) == <<v, 1>>   \* (node, index of its next successor)

OpenStart ==
  /\ Between /\ start \in Nodes /\ color[start] = 0
  /\ stk' = <<Frame(start)>>
  /\ color' = [color EXCEPT ![start] = 1]
  /\ UNCHANGED <<succ, start, verdict>>

\* One successor of the node on top: the index is advanced, then by colour.
Advanced_Not == stk
Advanced == Append(Popped, <<Top[1], Top[2] + 1>>)
Grey_Visited(v) == color[v] # 0
Grey(v) == color[v] = 1

FollowEdge ==
  /\ Searching /\ Top[2] <= Len(succ[Top[1]])
  /\ LET next == succ[Top[1]][Top[2]] IN
       \/ /\ Grey(next)
          /\ verdict' = "cycle" /\ stk' = Advanced
          /\ UNCHANGED color
       \/ /\ color[next] = 0
          /\ color' = [color EXCEPT ![next] = 1]
          /\ stk' = Append(Advanced, Frame(next))
          /\ UNCHANGED verdict
       \/ /\ color[next] = 2
          /\ stk' = Advanced
          /\ UNCHANGED <<color, verdict>>
  /\ UNCHANGED <<succ, start>>

Done_StaysGrey == 1
Done == 2

Retreat ==
  /\ Searching /\ Top[2] > Len(succ[Top[1]])
  /\ color' = [color EXCEPT ![Top[1]] = Done]
  /\ stk' = Popped
  /\ UNCHANGED <<succ, start, verdict>>

Accept ==
  /\ Between /\ start \notin Nodes
  /\ verdict' = "acyclic"
  /\ UNCHANGED <<succ, color, start, stk>>

Next == SkipStart \/ OpenStart \/ FollowEdge \/ Retreat \/ Accept

Spec == Init /\ [][Next]_vars

\* It is a loop of one thread: it runs on until it has a verdict.
FairSpec == Spec /\ WF_vars(Next)

-----------------------------------------------------------------------------
(* Properties.                                                             *)

TypeOK ==
  /\ succ \in Graphs
  /\ color \in [Nodes -> 0..2]
  /\ start \in 1..(MaxNodes + 1)
  /\ stk \in Seq(Nodes \X (1..(MaxDegree + 1)))
  /\ verdict \in {"none", "acyclic", "cycle"}

\* The exception is thrown for graphs with a cycle and for no other graph, and
\* the task it names is on one ("cycle detected involving task").
Reported == succ[Top[1]][Top[2] - 1]
VerdictRight ==
  /\ verdict = "acyclic" => ~Cyclic(succ)
  /\ verdict = "cycle" => Cyclic(succ) /\ OnCycle(succ, Reported)

\* Why: the grey nodes are those of the stack, each once; the stack is a path of
\* the graph, so that what a node of it leads to includes the nodes above it; the
\* successors already passed are black, but for the one the next frame is about;
\* black nodes lead to black ones, in an order.
OnStack == {stk[i][1] : i \in DOMAIN stk}
GreyIsStack ==
  /\ OnStack = {v \in Nodes : color[v] = 1}
  /\ \A i, j \in DOMAIN stk : stk[i][1] = stk[j][1] => i = j
StackIsPath ==
  \A i \in 1..(Len(stk) - 1) :
    stk[i][2] > 1 /\ succ[stk[i][1]][stk[i][2] - 1] = stk[i + 1][1]
PathReaches ==
  \A i, j \in DOMAIN stk : \A C \in SUBSET Nodes :
    /\ i < j /\ Closed(succ, C)
    /\ \A u \in Nodes : Edge(succ, stk[i][1], u) => u \in C
    => stk[j][1] \in C
PassedDone ==
  /\ \A i \in DOMAIN stk :
       /\ stk[i][2] - 1 <= Len(succ[stk[i][1]])
       /\ \A k \in 1..(stk[i][2] - 2) : color[succ[stk[i][1]][k]] = 2
  /\ Searching => \A k \in 1..(Top[2] - 1) : color[succ[Top[1]][k]] = 2
BlackClosed ==
  \A u, v \in Nodes : color[u] = 2 /\ Edge(succ, u, v) => color[v] = 2
BlackSorted ==
  \A C \in SUBSET {v \in Nodes : color[v] = 2} :
    C # {} => \E v \in C : \A u \in C : ~Edge(succ, u, v)
StartPassed ==
  /\ \A v \in Nodes : v < start => color[v] # 0
  /\ verdict = "acyclic" => \A v \in Nodes : color[v] = 2
  /\ verdict = "cycle" => stk # <<>> /\ Top[2] > 1 /\ Reported \in OnStack
SearchInv ==
  /\ GreyIsStack /\ StackIsPath /\ PathReaches /\ PassedDone
  /\ BlackClosed /\ BlackSorted /\ StartPassed

\* The search ends on every graph, however its nodes are shared.
Terminates == <>(verdict # "none")
=============================================================================

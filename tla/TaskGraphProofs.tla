--------------------------- MODULE TaskGraphProofs ---------------------------
(***************************************************************************)
(* Proofs about the first run of a graph of TaskGraph, for any number of   *)
(* nodes, dependencies and workers.                                        *)
(***************************************************************************)
EXTENDS TaskGraph, FiniteSetTheorems, SequenceTheorems, TLAPS

-----------------------------------------------------------------------------
(* The inductive invariant.                                                *)

Holds(w, v) == pc[w] \in {"fn", "release"} /\ node[w] = v
Releases(w, v) == pc[w] = "release" /\ node[w] = v

\* The i-th successor of u has still to be told, for the first time or again.
Open(u, i) == finished[u] = 0 \/ \E w \in Workers : Releases(w, u) /\ edge[w] <= i
OpenTo(v, u) == {i \in DOMAIN successors[u] : successors[u][i] = v /\ Open(u, i)}
Unreleased(v) == UNION {{u} \X OpenTo(v, u) : u \in Nodes}
DepsFinite == \A v \in Nodes : IsFiniteSet(Unreleased(v))
DepsExact  == \A v \in Nodes : pendingDeps[v] = Cardinality(Unreleased(v))

\* Before the first run nothing has happened to the graph but its construction.
Fresh ==
  /\ main \in {"build", "refused"}
  /\ jobs = None /\ begun = None /\ finished = None
  /\ \A w \in Workers : pc[w] = "idle"
  /\ DepsExact

Running == main \in {"dispatch", "ran", "wait_pred", "wait_block", "wait_asleep"}
UntilReset == Running \/ main = "waited"

\* In any first run, also one that dispatches a node twice: a dependency counter
\* is not above the number of predecessors' edges still to be released, and a
\* node whose counter is at 0 has been dispatched or the loop will do it.
Awaited ==
  /\ \A v \in Nodes : pendingDeps[v] <= Cardinality(Unreleased(v))
  /\ \A v \in Nodes : pendingDeps[v] <= 0 =>
       \/ Dispatched(v)
       \/ main = "dispatch" /\ loop <= v /\ Preds(v) = {} /\ pendingDeps[v] = 0
  /\ \A v \in Nodes : begun[v] > 0 /\ finished[v] = 0 =>
       \E w \in Workers : pc[w] = "fn" /\ node[w] = v

\* In the first run of a shielded graph the counters are exact, nobody runs what
\* another one runs, and the loop is ahead of everything that it has not seen.
OneJob == \A v \in Nodes : begun[v] + jobs[v] <= 1 /\ finished[v] <= begun[v]
OneWorker ==
  /\ \A w \in Workers : pc[w] \in {"fn", "release"} =>
       begun[node[w]] = 1 /\ finished[node[w]] = IF pc[w] = "fn" THEN 0 ELSE 1
  /\ \A v, w \in Workers : Holds(v, node[w]) /\ Holds(w, node[w]) => v = w
ReadyDispatched == \A v \in Nodes : Dispatched(v) => pendingDeps[v] = 0
LoopAhead == main = "dispatch" => \A v \in Nodes : loop <= v => ~Dispatched(v)

\* remaining_ counts the nodes that are not through on_node_complete().
Incomplete == {v \in Nodes : finished[v] = 0 \/ \E w \in Workers : Releases(w, v)}
RemainingExact == IsFiniteSet(Incomplete) /\ remaining = Cardinality(Incomplete)
Over == ~Running => Incomplete = {}

Orderly ==
  /\ DepsExact /\ OneJob /\ OneWorker /\ ReadyDispatched /\ LoopAhead
  /\ RemainingExact /\ Over

Inv ==
  /\ TypeOK
  /\ main = "build" => runs = 0
  /\ runs = 0 => Fresh
  /\ runs > 0 => ~Cyclic(successors)
  /\ runs = 1 /\ UntilReset => Awaited
  /\ runs = 1 /\ Shielded => Orderly

-----------------------------------------------------------------------------
(* Types.                                                                  *)

ShapeOK ==
  /\ successors \in Seq(Seq(Ids)) /\ Len(successors) <= MaxTasks
  /\ \A u \in Nodes : \A i \in DOMAIN successors[u] : successors[u][i] \in Nodes
  /\ pendingDeps \in Seq(Int) /\ Len(pendingDeps) = Len(successors)
CallerOK ==
  /\ remaining \in Int /\ runs \in 0..MaxRuns
  /\ main \in {"build", "refused", "dispatch", "ran", "wait_pred", "wait_block",
               "wait_asleep", "waited", "ready"}
  /\ loop \in 1..(MaxTasks + 1)
WorkersOK ==
  /\ jobs \in [Ids -> Nat]
  /\ pc \in [Workers -> {"idle", "fn", "release", "notify"}]
  /\ node \in [Workers -> Nodes \cup {0}]
  /\ \A w \in Workers : pc[w] \in {"fn", "release"} => node[w] \in Nodes
  /\ edge \in [Workers -> Nat \ {0}]
  /\ begun \in [Ids -> Nat] /\ finished \in [Ids -> Nat]

LEMMA TypeParts ==
  /\ TypeOK <=> ShapeOK /\ CallerOK /\ WorkersOK
  /\ TypeOK' <=> ShapeOK' /\ CallerOK' /\ WorkersOK'
BY DEF TypeOK, ShapeOK, CallerOK, WorkersOK

LEMMA NodesAre ==
  ASSUME ShapeOK
  PROVE  /\ Nodes = 1..Len(successors) /\ Len(successors) \in Nat /\ Nodes \subseteq Ids
         /\ Nodes = DOMAIN pendingDeps /\ IsFiniteSet(Nodes)
         /\ Cardinality(Nodes) = Len(successors)
         /\ \A v \in Nodes : pendingDeps[v] \in Int /\ successors[v] \in Seq(Ids)
<1>1. Nodes = 1..Len(successors) /\ Len(successors) \in Nat
  BY LenProperties DEF ShapeOK, Nodes
<1>2. Nodes \subseteq Ids
  BY <1>1, GraphAssumption DEF Ids, ShapeOK
<1>3. Nodes = DOMAIN pendingDeps
  <2>1. pendingDeps \in Seq(Int) /\ Len(pendingDeps) = Len(successors)
    BY DEF ShapeOK
  <2>. QED
    BY <1>1, <2>1, LenProperties
<1>4. IsFiniteSet(Nodes) /\ Cardinality(Nodes) = Len(successors)
  <2>1. PICK n \in Nat : n = Len(successors)
    BY <1>1
  <2>2. IsFiniteSet(1..n) /\ Cardinality(1..n) = IF 1 > n THEN 0 ELSE n - 1 + 1
    BY FS_Interval
  <2>. QED
    BY <1>1, <2>1, <2>2
<1>5. \A v \in Nodes : pendingDeps[v] \in Int /\ successors[v] \in Seq(Ids)
  BY <1>1, <1>3, ElementOfSeq DEF ShapeOK, Nodes
<1>. QED
  BY <1>1, <1>2, <1>3, <1>4, <1>5

\* A new node comes after the others and has neither edges nor dependencies.
LEMMA NewNode ==
  ASSUME ShapeOK, AddTask
  PROVE  LET n == Len(successors) + 1
         IN  /\ n \in Ids /\ n \notin Nodes /\ Nodes' = Nodes \cup {n}
             /\ \A v \in Nodes : successors'[v] = successors[v] /\ pendingDeps'[v] = pendingDeps[v]
             /\ successors'[n] = <<>> /\ pendingDeps'[n] = 0
             /\ ShapeOK'
<1>. DEFINE n == Len(successors) + 1
<1>1. /\ successors' = Append(successors, <<>>) /\ pendingDeps' = Append(pendingDeps, 0)
      /\ Len(successors) < MaxTasks
  BY DEF AddTask
<1>2. /\ successors' \in Seq(Seq(Ids)) /\ Len(successors') = Len(successors) + 1
      /\ \A v \in 1..Len(successors) : successors'[v] = successors[v]
      /\ successors'[n] = <<>>
  <2>1. <<>> \in Seq(Ids)
    BY EmptySeq
  <2>. QED
    BY <1>1, <2>1, AppendProperties DEF ShapeOK
<1>3. /\ pendingDeps' \in Seq(Int) /\ Len(pendingDeps') = Len(successors) + 1
      /\ \A v \in 1..Len(successors) : pendingDeps'[v] = pendingDeps[v]
      /\ pendingDeps'[n] = 0
  BY <1>1, AppendProperties DEF ShapeOK
<1>4. Nodes = 1..Len(successors) /\ Len(successors) \in Nat
  BY NodesAre
<1>5. Nodes' = 1..(Len(successors) + 1)
  BY <1>2, LenProperties DEF Nodes
<1>6. n \in Ids /\ n \notin Nodes /\ Nodes' = Nodes \cup {n}
  BY <1>1, <1>4, <1>5, GraphAssumption DEF Ids
<1>7. ShapeOK'
  <2>1. \A u \in Nodes' : \A i \in DOMAIN successors'[u] : successors'[u][i] \in Nodes'
    BY <1>2, <1>4, <1>6 DEF ShapeOK
  <2>2. Len(successors') <= MaxTasks
    BY <1>1, <1>2, <1>4, GraphAssumption
  <2>3. Len(pendingDeps') = Len(successors')
    BY <1>2, <1>3
  <2>. QED
    BY <1>2, <1>3, <2>1, <2>2, <2>3 DEF ShapeOK
<1>. QED
  BY <1>2, <1>3, <1>4, <1>6, <1>7

\* A new edge goes to the end of its predecessor's list.
Linked(s, p) ==
  /\ s \in Nodes /\ p \in Nodes
  /\ successors' = [successors EXCEPT ![p] = Append(@, s)]
  /\ pendingDeps' = [pendingDeps EXCEPT ![s] = @ + 1]
LEMMA NewEdge ==
  ASSUME ShapeOK, NEW s, NEW p, Linked(s, p)
  PROVE  LET n == Len(successors[p]) + 1
         IN  /\ Nodes' = Nodes
             /\ \A u \in Nodes \ {p} : successors'[u] = successors[u]
             /\ n \notin DOMAIN successors[p]
             /\ DOMAIN successors'[p] = DOMAIN successors[p] \cup {n}
             /\ \A i \in DOMAIN successors[p] : successors'[p][i] = successors[p][i]
             /\ successors'[p][n] = s
             /\ pendingDeps'[s] = pendingDeps[s] + 1
             /\ \A v \in Nodes \ {s} : pendingDeps'[v] = pendingDeps[v]
             /\ ShapeOK'
<1>. DEFINE q == Append(successors[p], s)
            n == Len(successors[p]) + 1
<1>1. /\ s \in Nodes /\ p \in Nodes /\ successors' = [successors EXCEPT ![p] = q]
      /\ pendingDeps' = [pendingDeps EXCEPT ![s] = pendingDeps[s] + 1]
  BY DEF Linked
<1>2. /\ Nodes = 1..Len(successors) /\ Nodes \subseteq Ids /\ Len(successors) \in Nat
      /\ Nodes = DOMAIN pendingDeps /\ pendingDeps[s] \in Int /\ successors[p] \in Seq(Ids)
  BY <1>1, NodesAre
<1>3. /\ q \in Seq(Ids) /\ Len(q) = n /\ Len(successors[p]) \in Nat
      /\ \A i \in 1..Len(successors[p]) : q[i] = successors[p][i]
      /\ q[n] = s
  BY <1>1, <1>2, AppendProperties, LenProperties
<1>4. /\ DOMAIN successors[p] = 1..Len(successors[p]) /\ DOMAIN q = 1..n
  BY <1>2, <1>3, LenProperties
<1>. HIDE DEF q
<1>5. /\ successors' \in Seq(Seq(Ids)) /\ Len(successors') = Len(successors)
      /\ successors'[p] = q /\ \A u \in Nodes \ {p} : successors'[u] = successors[u]
  BY <1>1, <1>2, <1>3, ExceptSeq DEF ShapeOK, Nodes
<1>6. /\ pendingDeps' \in Seq(Int) /\ Len(pendingDeps') = Len(pendingDeps)
      /\ pendingDeps'[s] = pendingDeps[s] + 1
      /\ \A v \in Nodes \ {s} : pendingDeps'[v] = pendingDeps[v]
  BY <1>1, <1>2, ExceptSeq DEF ShapeOK
<1>7. Nodes' = Nodes
  BY <1>2, <1>5, LenProperties DEF Nodes
<1>8. n \notin DOMAIN successors[p] /\ DOMAIN q = DOMAIN successors[p] \cup {n}
  BY <1>3, <1>4
<1>9. ShapeOK'
  <2>1. \A u \in Nodes : \A i \in DOMAIN successors'[u] : successors'[u][i] \in Nodes
    <3>. TAKE u \in Nodes
    <3>. TAKE i \in DOMAIN successors'[u]
    <3>1. CASE u = p
      <4>1. i \in DOMAIN successors[p] \/ i = n
        BY <1>5, <1>8, <3>1
      <4>2. i \in DOMAIN successors[p] => q[i] \in Nodes
        BY <1>1, <1>3, <1>4 DEF ShapeOK
      <4>. QED
        BY <1>1, <1>3, <1>5, <3>1, <4>1, <4>2
    <3>2. CASE u # p
      BY <1>5, <3>2 DEF ShapeOK
    <3>. QED
      BY <3>1, <3>2
  <2>. QED
    BY <1>5, <1>6, <1>7, <2>1 DEF ShapeOK
<1>. QED
  BY <1>3, <1>4, <1>5, <1>6, <1>7, <1>8, <1>9

LEMMA ShapeKept == ShapeOK /\ UNCHANGED <<successors, pendingDeps>> => ShapeOK' /\ Nodes' = Nodes
BY DEF ShapeOK, Nodes

\* What one step of on_node_complete() does to the node sid it tells: w tells
\* the i-th successor of u.
Told(w, u, i, sid) ==
  /\ pc[w] = "release" /\ node[w] = u /\ edge[w] = i /\ successors[u][i] = sid
  /\ pendingDeps'[sid] = pendingDeps[sid] - 1
  /\ \A v \in Nodes \ {sid} : pendingDeps'[v] = pendingDeps[v]
  /\ IF pendingDeps[sid] = 1 THEN jobs' = [jobs EXCEPT ![sid] = jobs[sid] + 1] ELSE jobs' = jobs
  /\ edge' = [edge EXCEPT ![w] = i + 1]
  /\ UNCHANGED <<successors, runs, remaining, main, loop, pc, node, begun, finished>>

LEMMA ReleaseTells ==
  ASSUME TypeOK, NEW w \in Workers, Release(w)
  PROVE  /\ ShapeOK' /\ Nodes' = Nodes
         /\ \E u \in Nodes : \E i \in DOMAIN successors[u] : \E sid \in Nodes : Told(w, u, i, sid)
<1>0. ShapeOK /\ WorkersOK
  BY TypeParts
<1>1. PICK u \in Nodes : u = node[w]
  BY <1>0 DEF WorkersOK, Release
<1>2. PICK i \in DOMAIN successors[u] : i = edge[w]
  <2>1. successors[u] \in Seq(Ids)
    BY <1>0, NodesAre
  <2>2. DOMAIN successors[u] = 1..Len(successors[u]) /\ Len(successors[u]) \in Nat
    BY <2>1, LenProperties
  <2>3. edge[w] \in Nat \ {0} /\ edge[w] <= Len(successors[u])
    BY <1>0, <1>1 DEF WorkersOK, Release
  <2>. QED
    BY <2>2, <2>3
<1>3. PICK sid \in Nodes : sid = successors[u][i]
  BY <1>0 DEF ShapeOK
<1>4. /\ pendingDeps' = [pendingDeps EXCEPT ![sid] = pendingDeps[sid] - 1]
      /\ UNCHANGED successors
  BY <1>1, <1>2, <1>3 DEF Release, build
<1>5. /\ pendingDeps' \in Seq(Int) /\ Len(pendingDeps') = Len(pendingDeps)
      /\ pendingDeps'[sid] = pendingDeps[sid] - 1
      /\ \A v \in Nodes \ {sid} : pendingDeps'[v] = pendingDeps[v]
  <2>1. /\ pendingDeps \in Seq(Int) /\ Nodes = 1..Len(pendingDeps)
        /\ pendingDeps[sid] - 1 \in Int
    BY <1>0, NodesAre DEF ShapeOK
  <2>. QED
    BY <1>4, <2>1, ExceptSeq
<1>6. ShapeOK' /\ Nodes' = Nodes
  BY <1>0, <1>4, <1>5 DEF ShapeOK, Nodes
<1>7. Told(w, u, i, sid)
  <2>1. IF pendingDeps[sid] = 1 THEN jobs' = [jobs EXCEPT ![sid] = jobs[sid] + 1] ELSE jobs' = jobs
    BY <1>1, <1>2, <1>3 DEF Release, LastDep, Submitted
  <2>2. edge' = [edge EXCEPT ![w] = i + 1]
    BY <1>2 DEF Release
  <2>. QED
    BY <1>1, <1>2, <1>3, <1>5, <2>1, <2>2 DEF Release, Told, build, callerVars, history
<1>. QED
  BY <1>6, <1>7

\* The steps of the caller keep the types.
LEMMA CallerType ==
  ASSUME TypeOK, AddTask \/ AddDependency \/ Run \/ Wait \/ SpuriousWakeup \/ Reset
  PROVE  TypeOK'
<1>0. ShapeOK /\ CallerOK /\ WorkersOK
  BY TypeParts
<1>1. ASSUME UNCHANGED <<jobs, workers, history>>, Nodes \subseteq Nodes' PROVE WorkersOK'
  BY <1>0, <1>1 DEF WorkersOK, workers, history
<1>2. CASE AddTask
  <2>1. ShapeOK' /\ Nodes \subseteq Nodes'
    BY <1>0, <1>2, NewNode
  <2>2. CallerOK'
    BY <1>0, <1>2 DEF AddTask, CallerOK, callerVars
  <2>. QED
    BY <1>1, <1>2, <2>1, <2>2, TypeParts DEF AddTask
<1>3. CASE AddDependency
  <2>1. PICK s \in Nodes, q \in Nodes : Linked(s, q)
    BY <1>3 DEF AddDependency, Linked
  <2>2. ShapeOK' /\ Nodes' = Nodes
    BY <1>0, <2>1, NewEdge
  <2>3. CallerOK'
    BY <1>0, <1>3 DEF AddDependency, CallerOK, callerVars
  <2>. QED
    BY <1>1, <1>3, <2>2, <2>3, TypeParts DEF AddDependency
<1>4. CASE RunStarts
  <2>1. ShapeOK' /\ Nodes' = Nodes
    BY <1>0, <1>4, ShapeKept DEF RunStarts
  <2>2. CallerOK'
    BY <1>0, <1>4, NodesAre, GraphAssumption DEF RunStarts, MayRun, AllNodes, CallerOK
  <2>3. None \in [Ids -> Nat]
    BY DEF None
  <2>4. WorkersOK'
    BY <1>0, <1>4, <2>1, <2>3 DEF RunStarts, WorkersOK, workers
  <2>. QED
    BY <2>1, <2>2, <2>4, TypeParts
<1>5. CASE RunLoop
  <2>1. ShapeOK' /\ Nodes' = Nodes
    BY <1>0, <1>5, ShapeKept DEF RunLoop, build
  <2>2. CallerOK'
    BY <1>0, <1>5, NodesAre, GraphAssumption DEF RunLoop, CallerOK, build, ShapeOK
  <2>3. loop \in Ids
    BY <1>0, <1>5, NodesAre DEF RunLoop, CallerOK, Ids, ShapeOK
  <2>4. jobs' \in [Ids -> Nat]
    BY <1>0, <1>5, <2>3 DEF RunLoop, Submitted, WorkersOK
  <2>5. WorkersOK'
    BY <1>0, <1>5, <2>1, <2>4 DEF RunLoop, WorkersOK, workers, history
  <2>. QED
    BY <2>1, <2>2, <2>5, TypeParts
<1>6. CASE RunRefuses \/ RunReturns \/ Wait \/ SpuriousWakeup
  <2>1. UNCHANGED <<successors, runs, pendingDeps, remaining, loop, jobs, workers, history>>
    BY <1>6 DEF RunRefuses, RunReturns, Wait, SpuriousWakeup, build
  <2>2. main' \in {"refused", "ran", "wait_pred", "waited", "wait_block", "wait_asleep"}
    BY <1>6 DEF RunRefuses, RunReturns, Wait, SpuriousWakeup
  <2>3. ShapeOK' /\ Nodes' = Nodes
    BY <1>0, <2>1, ShapeKept
  <2>4. CallerOK'
    BY <1>0, <2>1, <2>2 DEF CallerOK
  <2>. QED
    BY <1>1, <2>1, <2>3, <2>4, TypeParts
<1>7. CASE Reset
  <2>1. UNCHANGED <<successors, runs>> /\ pendingDeps' = [v \in Nodes |-> 0]
    BY <1>7 DEF Reset, build
  <2>2. pendingDeps' \in Seq(Int) /\ Len(pendingDeps') = Len(successors)
    BY <1>0, <2>1, NodesAre, IsASeq
  <2>3. ShapeOK' /\ Nodes' = Nodes
    BY <1>0, <2>1, <2>2 DEF ShapeOK, Nodes
  <2>4. CallerOK'
    BY <1>0, <1>7, <2>1 DEF Reset, CallerOK
  <2>. QED
    BY <1>1, <1>7, <2>3, <2>4, TypeParts DEF Reset
<1>. QED
  BY <1>2, <1>3, <1>4, <1>5, <1>6, <1>7 DEF Run

\* So do the steps of a worker.
LEMMA WorkType ==
  ASSUME TypeOK, NEW w \in Workers, Work(w)
  PROVE  TypeOK'
<1>0. ShapeOK /\ CallerOK /\ WorkersOK
  BY TypeParts
<1>1. CASE Start(w)
  <2>1. ShapeOK' /\ Nodes' = Nodes /\ CallerOK'
    BY <1>0, <1>1, ShapeKept DEF Start, CallerOK, build, callerVars
  <2>2. PICK v \in Nodes :
          /\ jobs[v] > 0 /\ jobs' = [jobs EXCEPT ![v] = jobs[v] - 1]
          /\ node' = [node EXCEPT ![w] = v] /\ begun' = [begun EXCEPT ![v] = begun[v] + 1]
    BY <1>1 DEF Start
  <2>3. v \in Ids /\ jobs[v] - 1 \in Nat /\ begun[v] + 1 \in Nat
    BY <1>0, <2>2, NodesAre DEF WorkersOK
  <2>4. jobs' \in [Ids -> Nat] /\ begun' \in [Ids -> Nat] /\ node' \in [Workers -> Nodes \cup {0}]
    BY <1>0, <2>2, <2>3 DEF WorkersOK
  <2>5. /\ pc' = [pc EXCEPT ![w] = "fn"] /\ edge' = edge /\ finished' = finished
    BY <1>1 DEF Start
  <2>6. /\ pc' \in [Workers -> {"idle", "fn", "release", "notify"}]
        /\ \A u \in Workers : pc'[u] \in {"fn", "release"} => node'[u] \in Nodes
    BY <1>0, <2>2, <2>5 DEF WorkersOK
  <2>7. WorkersOK'
    BY <1>0, <2>1, <2>4, <2>5, <2>6 DEF WorkersOK
  <2>. QED
    BY <2>1, <2>7, TypeParts
<1>2. CASE FnReturns(w)
  <2>1. ShapeOK' /\ Nodes' = Nodes /\ CallerOK'
    BY <1>0, <1>2, ShapeKept DEF FnReturns, CallerOK, build, callerVars
  <2>2. PICK v \in Nodes : v = node[w]
    BY <1>0, <1>2 DEF FnReturns, WorkersOK
  <2>3. finished' \in [Ids -> Nat]
    BY <1>0, <1>2, <2>2, NodesAre DEF FnReturns, WorkersOK
  <2>4. edge' \in [Workers -> Nat \ {0}]
    BY <1>0, <1>2 DEF FnReturns, FirstEdge, WorkersOK
  <2>5. pc' = [pc EXCEPT ![w] = "release"] /\ UNCHANGED <<jobs, node, begun>> /\ pc[w] = "fn"
    BY <1>2 DEF FnReturns
  <2>6. WorkersOK'
    BY <1>0, <2>1, <2>3, <2>4, <2>5 DEF WorkersOK
  <2>. QED
    BY <2>1, <2>6, TypeParts
<1>3. CASE Release(w)
  <2>1. PICK u \in Nodes : \E i \in DOMAIN successors[u] : \E sid \in Nodes : Told(w, u, i, sid)
    BY <1>3, ReleaseTells
  <2>2. PICK i \in DOMAIN successors[u], sid \in Nodes : Told(w, u, i, sid)
    BY <2>1
  <2>3. ShapeOK' /\ Nodes' = Nodes /\ CallerOK'
    BY <1>0, <1>3, <2>2, ReleaseTells DEF CallerOK, Told
  <2>4. jobs' \in [Ids -> Nat]
    <3>0. sid \in Ids
      BY <1>0, NodesAre
    <3>1. jobs[sid] + 1 \in Nat
      BY <1>0, <3>0 DEF WorkersOK
    <3>. QED
      BY <1>0, <2>2, <3>0, <3>1 DEF WorkersOK, Told
  <2>5. edge' \in [Workers -> Nat \ {0}]
    BY <1>0, <2>2 DEF WorkersOK, Told
  <2>6. WorkersOK'
    BY <1>0, <2>2, <2>3, <2>4, <2>5 DEF WorkersOK, Told
  <2>. QED
    BY <2>3, <2>6, TypeParts
<1>4. CASE Complete(w)
  <2>1. ShapeOK' /\ Nodes' = Nodes /\ CallerOK'
    BY <1>0, <1>4, ShapeKept DEF Complete, CallerOK, build, callerVars
  <2>2. /\ pc' = [pc EXCEPT ![w] = IF remaining = 1 THEN "notify" ELSE "idle"]
        /\ node' = [node EXCEPT ![w] = 0] /\ edge' = [edge EXCEPT ![w] = 1]
        /\ UNCHANGED <<jobs, begun, finished>>
    BY <1>4 DEF Complete, history
  <2>3. WorkersOK'
    BY <1>0, <2>1, <2>2 DEF WorkersOK
  <2>. QED
    BY <2>1, <2>3, TypeParts
<1>5. CASE NotifyDone(w)
  <2>1. ShapeOK' /\ Nodes' = Nodes /\ CallerOK'
    BY <1>0, <1>5, ShapeKept DEF NotifyDone, CallerOK, build
  <2>2. WorkersOK'
    BY <1>0, <1>5, <2>1 DEF WorkersOK, NotifyDone, history
  <2>. QED
    BY <2>1, <2>2, TypeParts
<1>. QED
  BY <1>1, <1>2, <1>3, <1>4, <1>5 DEF Work

LEMMA TypeStep == TypeOK /\ [Next]_vars => TypeOK'
<1>1. ASSUME TypeOK, UNCHANGED vars PROVE TypeOK'
  BY <1>1 DEF TypeOK, vars, build, callerVars, workers, history, Nodes
<1>. QED
  BY <1>1, CallerType, WorkType DEF Next

LEMMA InitType == Init => TypeOK
<1>. SUFFICES ASSUME Init PROVE TypeOK
  OBVIOUS
<1>1. ShapeOK
  BY EmptySeq, GraphAssumption DEF Init, ShapeOK, Nodes
<1>2. CallerOK
  BY GraphAssumption DEF Init, CallerOK
<1>3. WorkersOK
  BY DEF Init, WorkersOK, None
<1>. QED
  BY <1>1, <1>2, <1>3, TypeParts

\* Every variable of the graph keeps its type in all runs; in particular no
\* worker walks beyond a list of successors or tells a node that does not exist.
THEOREM GraphTyped == Spec => []TypeOK
BY InitType, TypeStep, PTL DEF Spec

-----------------------------------------------------------------------------
(* The edges that a dependency counter counts.                             *)

LEMMA UnreleasedIs ==
  ASSUME NEW v
  PROVE  /\ \A e : e \in Unreleased(v) <=>
              \E u \in Nodes : \E i \in DOMAIN successors[u] :
                e = <<u, i>> /\ successors[u][i] = v /\ Open(u, i)
         /\ \A e : e \in Unreleased(v)' <=>
              \E u \in Nodes' : \E i \in DOMAIN successors'[u] :
                e = <<u, i>> /\ successors'[u][i] = v /\ Open(u, i)'
BY DEF Unreleased, OpenTo

\* Pairs with a first component from a finite set and finitely many seconds each.
LEMMA FinitePairs ==
  ASSUME NEW S, IsFiniteSet(S), NEW f, \A u \in S : IsFiniteSet(f[u])
  PROVE  IsFiniteSet(UNION {{u} \X f[u] : u \in S})
<1>. DEFINE g == [u \in S |-> {u} \X f[u]]
            T == {{u} \X f[u] : u \in S}
<1>1. g \in Surjection(S, T)
  BY DEF Surjection
<1>2. IsFiniteSet(T)
  BY <1>1, FS_Surjection
<1>3. \A u \in S : IsFiniteSet({u} \X f[u])
  BY FS_Product, FS_Singleton
<1>. QED
  BY <1>2, <1>3, FS_UNION DEF T

LEMMA DepsAreFinite == ShapeOK => DepsFinite
<1>. SUFFICES ASSUME ShapeOK, NEW v \in Nodes PROVE IsFiniteSet(Unreleased(v))
  BY DEF DepsFinite
<1>. DEFINE f == [u \in Nodes |-> OpenTo(v, u)]
<1>1. \A u \in Nodes : IsFiniteSet(f[u])
  <2>. TAKE u \in Nodes
  <2>1. successors[u] \in Seq(Ids)
    BY NodesAre
  <2>2. DOMAIN successors[u] = 1..Len(successors[u]) /\ Len(successors[u]) \in Nat
    BY <2>1, LenProperties
  <2>3. IsFiniteSet(DOMAIN successors[u]) /\ OpenTo(v, u) \subseteq DOMAIN successors[u]
    BY <2>2, FS_Interval DEF OpenTo
  <2>. QED
    BY <2>3, FS_Subset
<1>2. IsFiniteSet(Nodes) /\ Unreleased(v) = UNION {{u} \X f[u] : u \in Nodes}
  BY NodesAre DEF Unreleased
<1>. HIDE DEF f
<1>. QED
  BY <1>1, <1>2, FinitePairs

LEMMA DepsNumbers ==
  ASSUME ShapeOK, ShapeOK'
  PROVE  /\ \A v \in Nodes : IsFiniteSet(Unreleased(v)) /\ Cardinality(Unreleased(v)) \in Nat
         /\ \A v \in Nodes' : IsFiniteSet(Unreleased(v)') /\ Cardinality(Unreleased(v)') \in Nat
<1>1. DepsFinite
  BY DepsAreFinite
<1>2. DepsFinite'
  BY DepsAreFinite, PTL
<1>. QED
  BY <1>1, <1>2, FS_CardinalityType DEF DepsFinite

LEMMA UnreleasedKept ==
  ASSUME UNCHANGED successors,
         \A u \in Nodes : \A i \in DOMAIN successors[u] : Open(u, i)' <=> Open(u, i)
  PROVE  \A v : Unreleased(v)' = Unreleased(v)
<1>. SUFFICES ASSUME NEW v PROVE Unreleased(v)' = Unreleased(v)
  OBVIOUS
<1>1. Nodes' = Nodes
  BY DEF Nodes
<1>2. \A e : e \in Unreleased(v)' <=> e \in Unreleased(v)
  BY <1>1, UnreleasedIs
<1>. QED
  BY <1>2

\* Nothing is open to a node exactly when all its predecessors have told it.
LEMMA NothingOpen ==
  ASSUME TypeOK, NEW v \in Nodes, Unreleased(v) = {}
  PROVE  \A u \in Preds(v) : u \in Nodes /\ finished[u] > 0
<1>1. WorkersOK /\ Nodes \subseteq Ids
  BY TypeParts, NodesAre
<1>. SUFFICES ASSUME NEW u \in Preds(v) PROVE u \in Nodes /\ finished[u] > 0
  OBVIOUS
<1>2. u \in Nodes /\ \E i \in DOMAIN successors[u] : successors[u][i] = v
  BY DEF Preds, Predecessors, Edge, Nodes
<1>3. finished[u] # 0
  BY <1>2, UnreleasedIs DEF Open
<1>. QED
  BY <1>1, <1>2, <1>3 DEF WorkersOK

\* Telling sid closes no other edge than the i-th of u.
LEMMA ToldCloses ==
  ASSUME TypeOK, NEW w \in Workers, NEW u \in Nodes, NEW i \in DOMAIN successors[u],
         NEW sid \in Nodes, Told(w, u, i, sid)
  PROVE  /\ \A v \in Nodes \ {sid} : Unreleased(v)' = Unreleased(v)
         /\ Unreleased(sid)' \subseteq Unreleased(sid)
         /\ Unreleased(sid) \subseteq Unreleased(sid)' \cup {<<u, i>>}
         /\ <<u, i>> \in Unreleased(sid)
         /\ <<u, i>> \in Unreleased(sid)' <=> Open(u, i)'
<1>0. /\ ShapeOK /\ WorkersOK /\ successors' = successors /\ Nodes' = Nodes
      /\ successors[u][i] = sid
  BY TypeParts DEF Told, Nodes
<1>1. /\ pc' = pc /\ node' = node /\ finished' = finished
      /\ pc[w] = "release" /\ node[w] = u /\ edge[w] = i
      /\ edge'[w] = i + 1 /\ \A x \in Workers \ {w} : edge'[x] = edge[x]
  BY <1>0 DEF Told, WorkersOK
<1>2. \A x \in Nodes : DOMAIN successors[x] \subseteq Nat \ {0}
  BY <1>0, NodesAre, LenProperties
<1>3. ASSUME NEW x \in Nodes, NEW j \in DOMAIN successors[x], x # u \/ j # i
      PROVE  Open(x, j)' <=> Open(x, j)
  <2>1. \A y \in Workers : Releases(y, x)' <=> Releases(y, x)
    BY <1>1 DEF Releases
  <2>2. \A y \in Workers : Releases(y, x) => (edge'[y] <= j <=> edge[y] <= j)
    BY <1>1, <1>2, <1>3 DEF Releases
  <2>. QED
    BY <1>1, <2>1, <2>2 DEF Open
<1>4. Open(u, i)
  BY <1>1, <1>2 DEF Open, Releases
<1>5. <<u, i>> \in Unreleased(sid) /\ (<<u, i>> \in Unreleased(sid)' <=> Open(u, i)')
  BY <1>0, <1>4, UnreleasedIs
<1>6. ASSUME NEW v \in Nodes, NEW e, e # <<u, i>>
      PROVE  e \in Unreleased(v)' <=> e \in Unreleased(v)
  BY <1>0, <1>3, <1>6, UnreleasedIs
<1>7. \A v \in Nodes \ {sid} : <<u, i>> \notin Unreleased(v) /\ <<u, i>> \notin Unreleased(v)'
  BY <1>0, UnreleasedIs
<1>. QED
  BY <1>5, <1>6, <1>7

-----------------------------------------------------------------------------
(* Building the graph and starting the first run.                          *)

\* Before the first run every edge is open.
LEMMA FreshOpen ==
  ASSUME TypeOK, Fresh
  PROVE  /\ \A u \in Nodes : \A i : Open(u, i)
         /\ \A u \in Ids : begun[u] = 0 /\ finished[u] = 0 /\ jobs[u] = 0
         /\ \A w \in Workers : \A u : ~Releases(w, u)
<1>1. \A u \in Ids : begun[u] = 0 /\ finished[u] = 0 /\ jobs[u] = 0
  BY DEF Fresh, None
<1>2. Nodes \subseteq Ids
  BY TypeParts, NodesAre
<1>. QED
  BY <1>1, <1>2 DEF Open, Fresh, Releases

LEMMA AddTaskFresh ==
  ASSUME TypeOK, Fresh, AddTask
  PROVE  Fresh'
<1>0. /\ ShapeOK /\ ShapeOK' /\ UNCHANGED <<main, jobs, begun, finished, pc>>
      /\ \A w \in Workers : pc[w] = "idle"
  BY TypeParts, NewNode DEF AddTask, callerVars, workers, history, Fresh
<1>1. PICK n : n = Len(successors) + 1
  OBVIOUS
<1>2. /\ n \in Ids /\ n \notin Nodes /\ Nodes' = Nodes \cup {n}
      /\ \A v \in Nodes : successors'[v] = successors[v] /\ pendingDeps'[v] = pendingDeps[v]
      /\ successors'[n] = <<>> /\ pendingDeps'[n] = 0
  BY <1>0, <1>1, NewNode
<1>3. \A u \in Nodes' : \A i : Open(u, i)'
  <2>1. \A u \in Ids : finished'[u] = 0
    BY <1>0, FreshOpen
  <2>2. Nodes \subseteq Ids
    BY <1>0, NodesAre
  <2>. QED
    BY <1>2, <2>1, <2>2 DEF Open
<1>4. \A v \in Nodes : Unreleased(v)' = Unreleased(v)
  <2>. TAKE v \in Nodes
  <2>1. \A e : e \in Unreleased(v)' <=> e \in Unreleased(v)
    BY <1>2, <1>3, FreshOpen, UnreleasedIs
  <2>. QED
    BY <2>1
<1>5. Unreleased(n)' = {}
  <2>1. \A u \in Nodes : \A i \in DOMAIN successors[u] : successors[u][i] # n
    BY <1>0, <1>2 DEF ShapeOK
  <2>. QED
    BY <1>2, <2>1, UnreleasedIs
<1>6. DepsExact'
  BY <1>2, <1>4, <1>5, FS_EmptySet DEF DepsExact, Fresh
<1>. QED
  BY <1>0, <1>6 DEF Fresh, None

LEMMA AddDependencyFresh ==
  ASSUME TypeOK, Fresh, AddDependency
  PROVE  Fresh'
<1>1. PICK s \in Nodes, q \in Nodes : Linked(s, q)
  BY DEF AddDependency, Linked
<1>0. ShapeOK /\ ShapeOK' /\ UNCHANGED <<main, jobs, begun, finished, pc>>
  BY <1>1, TypeParts, NewEdge DEF AddDependency, callerVars, workers, history
<1>2. PICK n : n = Len(successors[q]) + 1
  OBVIOUS
<1>3. /\ Nodes' = Nodes
      /\ \A u \in Nodes \ {q} : successors'[u] = successors[u]
      /\ n \notin DOMAIN successors[q]
      /\ DOMAIN successors'[q] = DOMAIN successors[q] \cup {n}
      /\ \A i \in DOMAIN successors[q] : successors'[q][i] = successors[q][i]
      /\ successors'[q][n] = s
      /\ pendingDeps'[s] = pendingDeps[s] + 1
      /\ \A v \in Nodes \ {s} : pendingDeps'[v] = pendingDeps[v]
  BY <1>0, <1>1, <1>2, NewEdge
<1>4. \A u \in Nodes : \A i : Open(u, i) /\ Open(u, i)'
  <2>1. \A u \in Nodes : finished'[u] = 0
    BY <1>0, FreshOpen, NodesAre
  <2>. QED
    BY <2>1, FreshOpen DEF Open
<1>5. \A v \in Nodes \ {s} : Unreleased(v)' = Unreleased(v)
  <2>. TAKE v \in Nodes \ {s}
  <2>1. \A e : e \in Unreleased(v)' <=> e \in Unreleased(v)
    BY <1>3, <1>4, UnreleasedIs
  <2>. QED
    BY <2>1
<1>6. <<q, n>> \notin Unreleased(s) /\ Unreleased(s)' = Unreleased(s) \cup {<<q, n>>}
  <2>1. <<q, n>> \notin Unreleased(s)
    BY <1>3, UnreleasedIs
  <2>2. \A e : e \in Unreleased(s)' <=> e \in Unreleased(s) \/ e = <<q, n>>
    BY <1>1, <1>3, <1>4, UnreleasedIs
  <2>. QED
    BY <2>1, <2>2
<1>7. DepsExact'
  <2>1. Cardinality(Unreleased(s)') = Cardinality(Unreleased(s)) + 1
    BY <1>0, <1>6, DepsNumbers, FS_AddElement
  <2>2. pendingDeps'[s] = Cardinality(Unreleased(s)')
    BY <1>3, <2>1 DEF Fresh, DepsExact
  <2>. QED
    BY <1>3, <1>5, <2>2 DEF Fresh, DepsExact
<1>. QED
  BY <1>0, <1>7 DEF Fresh, None

\* run() of a graph as it was built.
LEMMA FirstRunStarts ==
  ASSUME TypeOK, Fresh, RunStarts
  PROVE  Awaited' /\ Orderly'
<1>0. /\ ShapeOK /\ ShapeOK' /\ Nodes' = Nodes /\ UNCHANGED <<successors, pendingDeps, jobs, pc, node, edge>>
      /\ remaining' = Len(successors) /\ main' = "dispatch" /\ loop' = 1
      /\ begun' = None /\ finished' = None
      /\ \A w \in Workers : pc[w] = "idle"
  BY TypeParts, ShapeKept DEF RunStarts, AllNodes, workers, Fresh
<1>1. /\ Nodes = 1..Len(successors) /\ Nodes \subseteq Ids
      /\ IsFiniteSet(Nodes) /\ Cardinality(Nodes) = Len(successors)
  BY <1>0, NodesAre
<1>2. \A v \in Nodes : begun'[v] = 0 /\ finished'[v] = 0 /\ jobs'[v] = 0
  BY <1>0, <1>1, FreshOpen DEF None
<1>3. /\ \A w \in Workers : \A u : ~Releases(w, u)'
      /\ \A u \in Nodes : \A i : Open(u, i) /\ Open(u, i)'
  BY <1>0, <1>2, FreshOpen DEF Releases, Open
<1>4. \A v : Unreleased(v)' = Unreleased(v)
  BY <1>0, <1>3, UnreleasedKept
<1>5. DepsExact'
  BY <1>0, <1>4 DEF Fresh, DepsExact
<1>6. \A v \in Nodes : ~Dispatched(v)'
  BY <1>2 DEF Dispatched
<1>7. Awaited'
  <2>1. ASSUME NEW v \in Nodes, pendingDeps'[v] <= 0
        PROVE  Preds(v)' = {} /\ pendingDeps'[v] = 0
    <3>1. pendingDeps'[v] = Cardinality(Unreleased(v)) /\ IsFiniteSet(Unreleased(v))
          /\ Cardinality(Unreleased(v)) \in Nat
      BY <1>0, <1>4, <1>5, DepsNumbers DEF DepsExact
    <3>2. Unreleased(v) = {} /\ pendingDeps'[v] = 0
      BY <2>1, <3>1, FS_EmptySet
    <3>3. \A u \in Preds(v) : u \in Nodes /\ finished[u] > 0
      BY <3>2, NothingOpen
    <3>4. Preds(v) = {}
      BY <1>1, <3>3, FreshOpen
    <3>. QED
      BY <1>0, <3>2, <3>4 DEF Preds
  <2>2. \A v \in Nodes : pendingDeps'[v] <= Cardinality(Unreleased(v)')
    BY <1>0, <1>5, DepsNumbers DEF DepsExact
  <2>3. \A v \in Nodes : loop' <= v
    BY <1>0, <1>1
  <2>. QED
    BY <1>0, <1>2, <2>1, <2>2, <2>3 DEF Awaited
<1>8. Incomplete' = Nodes
  BY <1>0, <1>2 DEF Incomplete
<1>9. OneJob' /\ OneWorker' /\ ReadyDispatched' /\ LoopAhead' /\ Over'
  BY <1>0, <1>2, <1>6 DEF OneJob, OneWorker, Holds, ReadyDispatched, LoopAhead, Over, Running
<1>10. RemainingExact'
  BY <1>0, <1>1, <1>8 DEF RemainingExact
<1>. QED
  BY <1>5, <1>7, <1>9, <1>10 DEF Orderly

-----------------------------------------------------------------------------
(* Steps that change nothing but where the caller and a notifying worker    *)
(* are.                                                                    *)

Still ==
  /\ UNCHANGED <<successors, runs, pendingDeps, remaining, loop, jobs, node, edge, history>>
  /\ \A w \in Workers : /\ pc'[w] = "fn" <=> pc[w] = "fn"
                        /\ pc'[w] = "release" <=> pc[w] = "release"

LEMMA StillOpen ==
  ASSUME Still
  PROVE  /\ Nodes' = Nodes /\ (\A v : Unreleased(v)' = Unreleased(v))
         /\ \A w \in Workers : \A v : (Releases(w, v)' <=> Releases(w, v)) /\ (Holds(w, v)' <=> Holds(w, v))
         /\ \A v : (Dispatched(v)' <=> Dispatched(v))
         /\ Incomplete' = Incomplete
<1>1. /\ Nodes' = Nodes /\ successors' = successors /\ finished' = finished /\ begun' = begun
      /\ jobs' = jobs /\ node' = node /\ edge' = edge
  BY DEF Still, Nodes, history
<1>2. \A w \in Workers : \A v : (Releases(w, v)' <=> Releases(w, v)) /\ (Holds(w, v)' <=> Holds(w, v))
  BY <1>1 DEF Still, Releases, Holds
<1>3. \A u \in Nodes : \A i \in DOMAIN successors[u] : Open(u, i)' <=> Open(u, i)
  BY <1>1, <1>2 DEF Open
<1>4. \A v : Unreleased(v)' = Unreleased(v)
  BY <1>1, <1>3, UnreleasedKept
<1>5. Incomplete' = Incomplete
  BY <1>1, <1>2 DEF Incomplete
<1>. QED
  BY <1>1, <1>2, <1>4, <1>5 DEF Dispatched

LEMMA StillAwaited ==
  ASSUME Awaited, Still, main' = "dispatch" => main = "dispatch",
         main = "dispatch" => main' = "dispatch" \/ \A v \in Nodes : ~(loop <= v)
  PROVE  Awaited'
<1>1. /\ Nodes' = Nodes /\ (\A v : Unreleased(v)' = Unreleased(v))
      /\ \A v : (Dispatched(v)' <=> Dispatched(v))
  BY StillOpen
<1>2. UNCHANGED <<successors, pendingDeps, loop, begun, finished, node>>
  BY DEF Still, history
<1>3. \A v : Preds(v)' = Preds(v)
  BY <1>2 DEF Preds
<1>4. \A v \in Nodes : pendingDeps'[v] <= Cardinality(Unreleased(v)')
  BY <1>1, <1>2 DEF Awaited
<1>5. \A v \in Nodes : pendingDeps'[v] <= 0 =>
       \/ Dispatched(v)'
       \/ main' = "dispatch" /\ loop' <= v /\ Preds(v)' = {} /\ pendingDeps'[v] = 0
  BY <1>1, <1>2, <1>3 DEF Awaited
<1>6. \A v \in Nodes : begun'[v] > 0 /\ finished'[v] = 0 =>
       \E w \in Workers : pc'[w] = "fn" /\ node'[w] = v
  BY <1>2 DEF Awaited, Still
<1>. QED
  BY <1>1, <1>4, <1>5, <1>6 DEF Awaited

LEMMA StillOrderly ==
  ASSUME Orderly, Still, main' = "dispatch" => main = "dispatch",
         Running' \/ ~Running \/ remaining = 0
  PROVE  Orderly'
<1>1. /\ Nodes' = Nodes /\ (\A v : Unreleased(v)' = Unreleased(v))
      /\ \A w \in Workers : \A v : (Releases(w, v)' <=> Releases(w, v)) /\ (Holds(w, v)' <=> Holds(w, v))
      /\ \A v : (Dispatched(v)' <=> Dispatched(v))
      /\ Incomplete' = Incomplete
  BY StillOpen
<1>2. UNCHANGED <<successors, pendingDeps, remaining, loop, jobs, begun, finished, node>>
  BY DEF Still, history
<1>3. DepsExact' /\ OneJob' /\ ReadyDispatched' /\ RemainingExact'
  BY <1>1, <1>2 DEF Orderly, DepsExact, OneJob, ReadyDispatched, RemainingExact
<1>4. OneWorker'
  BY <1>1, <1>2 DEF Orderly, OneWorker, Still
<1>5. LoopAhead'
  BY <1>1, <1>2 DEF Orderly, LoopAhead
<1>6. Over'
  BY <1>1, FS_EmptySet DEF Orderly, Over, RemainingExact
<1>. QED
  BY <1>3, <1>4, <1>5, <1>6 DEF Orderly

\* The parts of the invariant that depend on the run.
RunInv ==
  /\ runs = 0 => Fresh
  /\ runs > 0 => ~Cyclic(successors)
  /\ main = "build" => runs = 0
  /\ runs = 1 /\ UntilReset => Awaited
  /\ runs = 1 /\ Shielded => Orderly

LEMMA ShieldedKept ==
  UNCHANGED successors =>
    /\ Shielded' <=> Shielded
    /\ Cyclic(successors)' <=> Cyclic(successors)
    /\ \A v : Preds(v)' = Preds(v)
BY DEF Shielded, Nodes, Preds

LEMMA StillRun ==
  ASSUME Inv, RunRefuses \/ RunReturns \/ Wait \/ SpuriousWakeup \/ \E w \in Workers : NotifyDone(w)
  PROVE  RunInv'
<1>0. ShapeOK /\ CallerOK /\ WorkersOK
  BY TypeParts DEF Inv
<1>1. Still
  BY <1>0 DEF RunRefuses, RunReturns, Wait, SpuriousWakeup, NotifyDone, build, workers, Still, WorkersOK
<1>2. UNCHANGED <<successors, runs>>
  BY <1>1 DEF Still
<1>3. /\ main' = "dispatch" <=> main = "dispatch" /\ ~RunReturns
      /\ main' # "build" \/ main = "build"
      /\ Running' \/ ~Running \/ remaining = 0
      /\ Running' \/ main' = "waited" => UntilReset
  BY DEF RunRefuses, MayRun, RunReturns, Wait, SpuriousWakeup, NotifyDone, Running, UntilReset
<1>4. RunReturns => main = "dispatch" /\ \A v \in Nodes : ~(loop <= v)
  BY <1>0, NodesAre DEF RunReturns, CallerOK
<1>5. runs = 0 => Fresh'
  <2>. SUFFICES ASSUME runs = 0 PROVE Fresh'
    OBVIOUS
  <2>1. Fresh
    BY DEF Inv
  <2>2. /\ RunRefuses /\ main' = "refused"
        /\ UNCHANGED <<jobs, begun, finished, pc, pendingDeps>>
    BY <2>1 DEF Fresh, RunRefuses, RunReturns, Wait, SpuriousWakeup, NotifyDone, workers, history
  <2>3. DepsExact'
    BY <1>1, <2>1, <2>2, StillOpen DEF Fresh, DepsExact
  <2>. QED
    BY <2>1, <2>2, <2>3 DEF Fresh, None
<1>6. runs = 1 /\ UntilReset' => Awaited'
  BY <1>1, <1>3, <1>4, StillAwaited DEF Inv, UntilReset
<1>7. runs = 1 /\ Shielded => Orderly'
  BY <1>1, <1>3, StillOrderly DEF Inv
<1>. QED
  BY <1>2, <1>3, <1>5, <1>6, <1>7, ShieldedKept DEF Inv, RunInv

-----------------------------------------------------------------------------
(* The rest of run(), and reset().                                         *)

LEMMA RunStartsInv ==
  ASSUME Inv, RunStarts
  PROVE  RunInv'
<1>1. /\ UNCHANGED successors /\ runs' = runs + 1 /\ main' = "dispatch" /\ ~Cyclic(successors)
      /\ runs \in Nat
  BY TypeParts DEF RunStarts, Refused, Inv, CallerOK
<1>2. runs' = 1 => Awaited' /\ Orderly'
  BY <1>1, FirstRunStarts DEF Inv
<1>. QED
  BY <1>1, <1>2, ShieldedKept DEF RunInv

\* The loop dispatches a node that nobody has dispatched: all those from loop
\* on are still to come, because in a shielded graph none of them has had all
\* its predecessors done.
LEMMA RunLoopInv ==
  ASSUME Inv, RunLoop
  PROVE  RunInv'
<1>0. /\ ShapeOK /\ CallerOK /\ WorkersOK /\ Nodes \subseteq Ids
      /\ \A v \in Nodes : v \in Nat /\ pendingDeps[v] \in Int
  BY TypeParts, NodesAre DEF Inv, Ids
<1>1. PICK n : n = loop
  OBVIOUS
<1>2. /\ n \in Nodes /\ n \in Nat /\ loop' = n + 1 /\ main = "dispatch"
      /\ UNCHANGED <<successors, runs, pendingDeps, remaining, main, pc, node, edge, begun, finished>>
      /\ IF pendingDeps[n] = 0 THEN jobs' = [jobs EXCEPT ![n] = jobs[n] + 1] ELSE jobs' = jobs
  BY <1>0, <1>1, NodesAre DEF RunLoop, NoDeps, Submitted, CallerOK, build, workers, history
<1>3. /\ Nodes' = Nodes /\ Incomplete' = Incomplete
      /\ \A w \in Workers : \A v : (Releases(w, v)' <=> Releases(w, v)) /\ (Holds(w, v)' <=> Holds(w, v))
      /\ (Running' <=> Running)
  BY <1>2 DEF Nodes, Incomplete, Releases, Holds, Running
<1>4. \A v : Unreleased(v)' = Unreleased(v)
  BY <1>2, UnreleasedKept DEF Open, Releases
<1>5. /\ \A v \in Nodes \ {n} : jobs'[v] = jobs[v]
      /\ jobs'[n] = IF pendingDeps[n] = 0 THEN jobs[n] + 1 ELSE jobs[n]
      /\ \A v \in Nodes : jobs[v] \in Nat /\ begun[v] \in Nat
  BY <1>0, <1>2 DEF WorkersOK
<1>6. \A v \in Nodes : Dispatched(v)' <=> Dispatched(v) \/ (v = n /\ pendingDeps[n] = 0)
  BY <1>2, <1>5 DEF Dispatched
<1>7. runs = 1 => Awaited'
  <2>. SUFFICES ASSUME runs = 1 PROVE Awaited'
    OBVIOUS
  <2>1. Awaited
    BY <1>2 DEF Inv, Running, UntilReset
  <2>2. \A v : Preds(v)' = Preds(v)
    BY <1>2, ShieldedKept
  <2>3. ASSUME NEW v \in Nodes, pendingDeps[v] <= 0
        PROVE  Dispatched(v)' \/ (loop' <= v /\ Preds(v) = {} /\ pendingDeps[v] = 0)
    <3>1. Dispatched(v) \/ (n <= v /\ Preds(v) = {} /\ pendingDeps[v] = 0)
      BY <1>1, <2>1, <2>3 DEF Awaited
    <3>. QED
      BY <1>0, <1>2, <1>6, <3>1
  <2>. QED
    BY <1>2, <1>3, <1>4, <2>1, <2>2, <2>3 DEF Awaited
<1>8. runs = 1 /\ Shielded => Orderly'
  <2>. SUFFICES ASSUME runs = 1, Shielded PROVE Orderly'
    OBVIOUS
  <2>1. Orderly
    BY DEF Inv
  <2>2. begun[n] = 0 /\ jobs[n] = 0
    BY <1>1, <1>2, <1>5, <2>1 DEF Orderly, LoopAhead, Dispatched
  <2>3. OneJob'
    BY <1>2, <1>3, <1>5, <2>1, <2>2 DEF Orderly, OneJob
  <2>4. DepsExact' /\ OneWorker' /\ RemainingExact' /\ Over'
    BY <1>2, <1>3, <1>4, <2>1 DEF Orderly, DepsExact, OneWorker, RemainingExact, Over
  <2>5. ReadyDispatched'
    BY <1>2, <1>3, <1>6, <2>1 DEF Orderly, ReadyDispatched
  <2>6. LoopAhead'
    BY <1>0, <1>1, <1>2, <1>3, <1>6, <2>1 DEF Orderly, LoopAhead
  <2>. QED
    BY <2>3, <2>4, <2>5, <2>6 DEF Orderly
<1>9. runs # 0
  BY <1>2 DEF Inv, Fresh
<1>. QED
  BY <1>2, <1>7, <1>8, <1>9, ShieldedKept DEF Inv, RunInv

\* reset() comes after wait(), when nothing is left of the run.
LEMMA ResetInv ==
  ASSUME Inv, Reset
  PROVE  RunInv'
<1>0. ShapeOK
  BY TypeParts DEF Inv
<1>1. /\ main = "waited" /\ main' = "ready" /\ remaining' = 0
      /\ UNCHANGED <<successors, runs, jobs, pc, node, edge, begun, finished>>
      /\ pendingDeps' = [v \in Nodes |-> 0]
  BY DEF Reset, build, workers, history
<1>2. /\ Nodes' = Nodes /\ Incomplete' = Incomplete
      /\ \A w \in Workers : \A v : (Releases(w, v)' <=> Releases(w, v)) /\ (Holds(w, v)' <=> Holds(w, v))
  BY <1>1 DEF Nodes, Incomplete, Releases, Holds
<1>3. \A v : Unreleased(v)' = Unreleased(v)
  BY <1>1, UnreleasedKept DEF Open, Releases
<1>4. runs = 1 /\ Shielded => Orderly'
  <2>. SUFFICES ASSUME runs = 1, Shielded PROVE Orderly'
    OBVIOUS
  <2>1. Orderly /\ Incomplete = {}
    BY <1>1 DEF Inv, Orderly, Over, Running
  <2>2. \A v \in Nodes : Unreleased(v) = {}
    BY <2>1, UnreleasedIs DEF Open, Incomplete
  <2>3. DepsExact' /\ ReadyDispatched'
    BY <1>1, <1>2, <1>3, <2>2, FS_EmptySet DEF DepsExact, ReadyDispatched
  <2>4. OneJob' /\ OneWorker'
    BY <1>1, <1>2, <2>1 DEF Orderly, OneJob, OneWorker
  <2>5. LoopAhead' /\ Over' /\ RemainingExact'
    BY <1>1, <1>2, <2>1, FS_EmptySet DEF LoopAhead, Over, RemainingExact
  <2>. QED
    BY <2>3, <2>4, <2>5 DEF Orderly
<1>5. runs # 0 /\ ~UntilReset'
  BY <1>1 DEF Inv, Fresh, Running, UntilReset
<1>. QED
  BY <1>1, <1>4, <1>5, ShieldedKept DEF Inv, RunInv

-----------------------------------------------------------------------------
(* The steps of a worker.                                                  *)

\* What they have in common: the run goes on, and nobody starts before it.
LEMMA WorkRun ==
  ASSUME Inv, NEW w \in Workers, Start(w) \/ FnReturns(w) \/ Release(w) \/ Complete(w),
         runs = 1 /\ UntilReset => Awaited', runs = 1 /\ Shielded => Orderly'
  PROVE  RunInv'
<1>1. UNCHANGED <<successors, runs, main>>
  BY DEF Start, FnReturns, Release, Complete, build, callerVars
<1>2. runs # 0
  <2>1. Fresh => \A v \in Nodes : jobs[v] = 0
    BY FreshOpen, TypeParts, NodesAre DEF Inv
  <2>. QED
    BY <2>1 DEF Inv, Fresh, Start, FnReturns, Release, Complete
<1>3. UntilReset' <=> UntilReset
  BY <1>1 DEF Running, UntilReset
<1>. QED
  BY <1>1, <1>2, <1>3, ShieldedKept DEF Inv, RunInv

LEMMA StartInv ==
  ASSUME Inv, NEW w \in Workers, Start(w)
  PROVE  RunInv'
<1>0. WorkersOK /\ Nodes \subseteq Ids
  BY TypeParts, NodesAre DEF Inv
<1>1. PICK v \in Nodes :
        /\ jobs[v] > 0 /\ jobs' = [jobs EXCEPT ![v] = jobs[v] - 1]
        /\ node' = [node EXCEPT ![w] = v] /\ begun' = [begun EXCEPT ![v] = begun[v] + 1]
  BY DEF Start
<1>2. /\ UNCHANGED <<successors, pendingDeps, remaining, main, loop, edge, finished>>
      /\ pc[w] = "idle" /\ pc' = [pc EXCEPT ![w] = "fn"]
  BY DEF Start, build, callerVars
<1>3. /\ pc'[w] = "fn" /\ node'[w] = v
      /\ \A x \in Workers \ {w} : pc'[x] = pc[x] /\ node'[x] = node[x]
      /\ jobs'[v] = jobs[v] - 1 /\ begun'[v] = begun[v] + 1
      /\ \A x \in Nodes \ {v} : jobs'[x] = jobs[x] /\ begun'[x] = begun[x]
      /\ \A x \in Nodes : jobs[x] \in Nat /\ begun[x] \in Nat /\ finished[x] \in Nat
  BY <1>0, <1>1, <1>2 DEF WorkersOK
<1>4. /\ Nodes' = Nodes
      /\ \A x \in Workers : \A u : Releases(x, u)' <=> Releases(x, u)
      /\ \A x \in Nodes : Dispatched(x)' <=> Dispatched(x)
      /\ (Running' <=> Running) /\ (\A x : Preds(x)' = Preds(x))
  BY <1>1, <1>2, <1>3, ShieldedKept DEF Nodes, Releases, Dispatched, Running
<1>5. Incomplete' = Incomplete /\ \A x : Unreleased(x)' = Unreleased(x)
  BY <1>2, <1>4, UnreleasedKept DEF Incomplete, Open
<1>6. runs = 1 /\ UntilReset => Awaited'
  <2>. SUFFICES ASSUME Awaited PROVE Awaited'
    BY DEF Inv
  <2>1. \A x \in Nodes : begun'[x] > 0 /\ finished'[x] = 0 =>
          \E y \in Workers : pc'[y] = "fn" /\ node'[y] = x
    <3>. TAKE x \in Nodes
    <3>1. CASE x = v
      BY <1>3, <3>1
    <3>2. CASE x # v
      BY <1>2, <1>3, <3>2 DEF Awaited
    <3>. QED
      BY <3>1, <3>2
  <2>. QED
    BY <1>2, <1>4, <1>5, <2>1 DEF Awaited
<1>7. runs = 1 /\ Shielded => Orderly'
  <2>. SUFFICES ASSUME Orderly PROVE Orderly'
    BY DEF Inv
  <2>1. jobs[v] = 1 /\ begun[v] = 0 /\ finished[v] = 0
    BY <1>1, <1>3 DEF Orderly, OneJob
  <2>2. OneJob'
    BY <1>2, <1>3, <1>4, <2>1 DEF Orderly, OneJob
  <2>3. \A x \in Workers : pc[x] \in {"fn", "release"} => node[x] \in Nodes /\ node[x] # v
    BY <1>0, <2>1 DEF Orderly, OneWorker, WorkersOK
  <2>4. OneWorker'
    <3>1. \A x \in Workers : pc'[x] \in {"fn", "release"} =>
            begun'[node'[x]] = 1 /\ finished'[node'[x]] = IF pc'[x] = "fn" THEN 0 ELSE 1
      <4>. TAKE x \in Workers
      <4>1. CASE x = w
        BY <1>2, <1>3, <2>1, <4>1
      <4>2. CASE x # w
        BY <1>2, <1>3, <2>3, <4>2 DEF Orderly, OneWorker
      <4>. QED
        BY <4>1, <4>2
    <3>2. \A x \in Workers : \A u : Holds(x, u)' <=> (x # w /\ Holds(x, u)) \/ (x = w /\ u = v)
      BY <1>3 DEF Holds
    <3>3. \A x \in Workers : ~Holds(x, v)
      BY <2>3 DEF Holds
    <3>4. ASSUME NEW x \in Workers, NEW y \in Workers, Holds(x, node[y])', Holds(y, node[y])'
          PROVE  x = y
      BY <1>3, <3>2, <3>3, <3>4 DEF Orderly, OneWorker
    <3>. QED
      BY <3>1, <3>4 DEF OneWorker
  <2>5. DepsExact' /\ ReadyDispatched' /\ LoopAhead' /\ RemainingExact' /\ Over'
    BY <1>2, <1>4, <1>5 DEF Orderly, DepsExact, ReadyDispatched, LoopAhead, RemainingExact, Over
  <2>. QED
    BY <2>2, <2>4, <2>5 DEF Orderly
<1>. QED
  BY <1>6, <1>7, WorkRun

LEMMA FnReturnsInv ==
  ASSUME Inv, NEW w \in Workers, FnReturns(w)
  PROVE  RunInv'
<1>0. ShapeOK /\ ShapeOK' /\ WorkersOK /\ Nodes \subseteq Ids
  BY TypeParts, NodesAre, WorkType DEF Inv, Work
<1>1. PICK v \in Nodes : v = node[w]
  BY <1>0 DEF FnReturns, WorkersOK
<1>2. /\ UNCHANGED <<successors, pendingDeps, remaining, main, loop, jobs, node, begun>>
      /\ pc[w] = "fn" /\ pc' = [pc EXCEPT ![w] = "release"] /\ edge' = [edge EXCEPT ![w] = 1]
      /\ finished' = [finished EXCEPT ![v] = finished[v] + 1]
  BY <1>1 DEF FnReturns, FirstEdge, build, callerVars
<1>3. /\ pc'[w] = "release" /\ edge'[w] = 1
      /\ \A x \in Workers \ {w} : pc'[x] = pc[x] /\ edge'[x] = edge[x]
      /\ finished'[v] = finished[v] + 1 /\ \A x \in Nodes \ {v} : finished'[x] = finished[x]
      /\ \A x \in Nodes : begun[x] \in Nat /\ finished[x] \in Nat
  BY <1>0, <1>2 DEF WorkersOK
<1>4. /\ Nodes' = Nodes /\ (Running' <=> Running) /\ (\A x : Preds(x)' = Preds(x))
      /\ \A x : Dispatched(x)' <=> Dispatched(x)
      /\ \A x \in Workers : \A u : Releases(x, u)' <=> Releases(x, u) \/ (x = w /\ u = v)
      /\ \A x \in Workers : \A u : Holds(x, u)' <=> Holds(x, u)
      /\ \A u : ~Releases(w, u)
  BY <1>1, <1>2, <1>3, ShieldedKept DEF Nodes, Running, Dispatched, Releases, Holds
<1>5. \A x \in Nodes : DOMAIN successors[x] \subseteq Nat \ {0}
  BY <1>0, NodesAre, LenProperties
<1>6. \A i \in Nat \ {0} : Open(v, i)'
  BY <1>3, <1>4 DEF Open
<1>7. ASSUME NEW u \in Nodes \ {v}, NEW i PROVE Open(u, i)' <=> Open(u, i)
  <2>1. finished'[u] = finished[u]
    BY <1>3
  <2>2. \A x \in Workers : Releases(x, u)' /\ edge'[x] <= i <=> Releases(x, u) /\ edge[x] <= i
    BY <1>3, <1>4
  <2>. QED
    BY <2>1, <2>2 DEF Open
<1>8. runs = 1 /\ UntilReset => Awaited'
  <2>. SUFFICES ASSUME Awaited PROVE Awaited'
    BY DEF Inv
  <2>1. \A x \in Nodes : Cardinality(Unreleased(x)) <= Cardinality(Unreleased(x)')
    <3>. TAKE x \in Nodes
    <3>1. \A e : e \in Unreleased(x) => e \in Unreleased(x)'
      BY <1>2, <1>4, <1>5, <1>6, <1>7, UnreleasedIs
    <3>2. Unreleased(x) \in SUBSET (Unreleased(x)') /\ IsFiniteSet(Unreleased(x)')
      BY <1>0, <1>4, <3>1, DepsNumbers
    <3>. QED
      BY <3>2, FS_Subset
  <2>2. \A x \in Nodes : pendingDeps'[x] <= Cardinality(Unreleased(x)')
    <3>1. \A x \in Nodes : /\ Cardinality(Unreleased(x)) \in Nat
                           /\ Cardinality(Unreleased(x)') \in Nat /\ pendingDeps[x] \in Int
      BY <1>0, <1>4, DepsNumbers, NodesAre
    <3>. QED
      BY <1>2, <2>1, <3>1 DEF Awaited
  <2>3. \A x \in Nodes : begun'[x] > 0 /\ finished'[x] = 0 =>
          \E y \in Workers : pc'[y] = "fn" /\ node'[y] = x
    <3>. SUFFICES ASSUME NEW x \in Nodes, begun'[x] > 0, finished'[x] = 0
                  PROVE  \E y \in Workers : pc'[y] = "fn" /\ node'[y] = x
      OBVIOUS
    <3>1. x # v /\ finished[x] = 0
      BY <1>3
    <3>2. PICK y \in Workers : pc[y] = "fn" /\ node[y] = x
      BY <1>2, <3>1 DEF Awaited
    <3>. QED
      BY <1>1, <1>2, <1>3, <3>1, <3>2
  <2>. QED
    BY <1>2, <1>4, <2>2, <2>3 DEF Awaited
<1>9. runs = 1 /\ Shielded => Orderly'
  <2>. SUFFICES ASSUME Orderly PROVE Orderly'
    BY DEF Inv
  <2>1. begun[v] = 1 /\ finished[v] = 0
    BY <1>1, <1>2 DEF Orderly, OneWorker
  <2>2. \A u \in Nodes : \A i \in DOMAIN successors[u] : Open(u, i)' <=> Open(u, i)
    <3>1. \A i \in Nat \ {0} : Open(v, i)
      BY <2>1 DEF Open
    <3>. QED
      BY <1>5, <1>6, <1>7, <3>1
  <2>3. \A x : Unreleased(x)' = Unreleased(x)
    BY <1>2, <2>2, UnreleasedKept
  <2>4. DepsExact' /\ ReadyDispatched' /\ LoopAhead'
    BY <1>2, <1>4, <2>3 DEF Orderly, DepsExact, ReadyDispatched, LoopAhead
  <2>5. OneJob'
    BY <1>2, <1>3, <1>4, <2>1 DEF Orderly, OneJob
  <2>6. OneWorker'
    <3>1. \A x \in Workers \ {w} : pc[x] \in {"fn", "release"} => node[x] \in Nodes /\ node[x] # v
      BY <1>0, <1>1, <1>2 DEF Orderly, OneWorker, Holds, WorkersOK
    <3>2. \A x \in Workers : pc'[x] \in {"fn", "release"} =>
            begun'[node'[x]] = 1 /\ finished'[node'[x]] = IF pc'[x] = "fn" THEN 0 ELSE 1
      <4>. TAKE x \in Workers
      <4>1. CASE x = w
        BY <1>1, <1>2, <1>3, <2>1, <4>1
      <4>2. CASE x # w
        BY <1>2, <1>3, <3>1, <4>2 DEF Orderly, OneWorker
      <4>. QED
        BY <4>1, <4>2
    <3>. QED
      BY <1>2, <1>4, <3>2 DEF Orderly, OneWorker
  <2>7. Incomplete' = Incomplete
    <3>1. \A x \in Nodes \ {v} : x \in Incomplete' <=> x \in Incomplete
      BY <1>3, <1>4 DEF Incomplete
    <3>2. v \in Incomplete' /\ v \in Incomplete
      BY <1>4, <2>1 DEF Incomplete
    <3>3. Incomplete \subseteq Nodes /\ Incomplete' \subseteq Nodes
      BY <1>4 DEF Incomplete
    <3>. QED
      BY <3>1, <3>2, <3>3
  <2>8. RemainingExact' /\ Over'
    BY <1>2, <1>4, <2>7 DEF Orderly, RemainingExact, Over
  <2>. QED
    BY <2>4, <2>5, <2>6, <2>8 DEF Orderly
<1>. QED
  BY <1>8, <1>9, WorkRun

\* A release takes one off the counter and closes one edge.  In a shielded graph
\* the node it dispatches has not been dispatched, and is behind the loop: one of
\* its predecessors comes after it and has been dispatched.
LEMMA ReleaseInv ==
  ASSUME Inv, NEW w \in Workers, Release(w)
  PROVE  RunInv'
<1>0. /\ TypeOK /\ ShapeOK /\ ShapeOK' /\ WorkersOK /\ Nodes' = Nodes /\ Nodes \subseteq Ids
      /\ \A x \in Nodes : x \in Nat /\ pendingDeps[x] \in Int
  BY TypeParts, NodesAre, ReleaseTells DEF Inv, Ids
<1>1. PICK u \in Nodes : \E i \in DOMAIN successors[u] : \E sid \in Nodes : Told(w, u, i, sid)
  BY <1>0, ReleaseTells
<1>2. PICK i \in DOMAIN successors[u], sid \in Nodes : Told(w, u, i, sid)
  BY <1>1
<1>3. /\ UNCHANGED <<successors, remaining, main, loop, pc, node, begun, finished>>
      /\ pc[w] = "release" /\ node[w] = u /\ edge[w] = i /\ edge' = [edge EXCEPT ![w] = i + 1]
      /\ pendingDeps'[sid] = pendingDeps[sid] - 1
      /\ \A x \in Nodes \ {sid} : pendingDeps'[x] = pendingDeps[x]
      /\ IF pendingDeps[sid] = 1 THEN jobs' = [jobs EXCEPT ![sid] = jobs[sid] + 1] ELSE jobs' = jobs
      /\ successors[u][i] = sid
  BY <1>2 DEF Told
<1>4. /\ \A x \in Nodes \ {sid} : jobs'[x] = jobs[x]
      /\ jobs'[sid] = IF pendingDeps[sid] = 1 THEN jobs[sid] + 1 ELSE jobs[sid]
      /\ \A x \in Nodes : jobs[x] \in Nat /\ begun[x] \in Nat /\ finished[x] \in Nat
  BY <1>0, <1>3 DEF WorkersOK
<1>5. /\ \A x \in Nodes : Dispatched(x)' <=> Dispatched(x) \/ (x = sid /\ pendingDeps[sid] = 1)
      /\ (Running' <=> Running) /\ (\A x : Preds(x)' = Preds(x)) /\ Incomplete' = Incomplete
      /\ \A x \in Workers : \A y : (Releases(x, y)' <=> Releases(x, y)) /\ (Holds(x, y)' <=> Holds(x, y))
  BY <1>0, <1>3, <1>4, ShieldedKept DEF Dispatched, Running, Incomplete, Releases, Holds
<1>6. PICK e : e = <<u, i>>
  OBVIOUS
<1>7. /\ \A x \in Nodes \ {sid} : Unreleased(x)' = Unreleased(x)
      /\ Unreleased(sid)' \subseteq Unreleased(sid)
      /\ Unreleased(sid) \subseteq Unreleased(sid)' \cup {e}
      /\ e \in Unreleased(sid) /\ (e \in Unreleased(sid)' <=> Open(u, i)')
  BY <1>0, <1>2, <1>6, ToldCloses
<1>8. \A x \in Nodes : /\ IsFiniteSet(Unreleased(x)) /\ IsFiniteSet(Unreleased(x)')
                       /\ Cardinality(Unreleased(x)) \in Nat /\ Cardinality(Unreleased(x)') \in Nat
  BY <1>0, DepsNumbers
<1>9. u \in Preds(sid)
  BY <1>3 DEF Preds, Predecessors, Edge, Nodes
<1>10. runs = 1 /\ UntilReset => Awaited'
  <2>. SUFFICES ASSUME Awaited PROVE Awaited'
    BY DEF Inv
  <2>1. Cardinality(Unreleased(sid)) <= Cardinality(Unreleased(sid)') + 1
    <3>1. /\ IsFiniteSet(Unreleased(sid)' \cup {e})
          /\ Cardinality(Unreleased(sid)' \cup {e}) <= Cardinality(Unreleased(sid)') + 1
      <4>1. /\ IsFiniteSet(Unreleased(sid)' \cup {e})
            /\ Cardinality(Unreleased(sid)' \cup {e})
                 = IF e \in Unreleased(sid)' THEN Cardinality(Unreleased(sid)')
                                            ELSE Cardinality(Unreleased(sid)') + 1
        BY <1>8, FS_AddElement
      <4>2. Cardinality(Unreleased(sid)') \in Nat
        BY <1>8
      <4>. QED
        BY <4>1, <4>2
    <3>2. Cardinality(Unreleased(sid)' \cup {e}) \in Nat
      BY <3>1, FS_CardinalityType
    <3>3. Cardinality(Unreleased(sid)) <= Cardinality(Unreleased(sid)' \cup {e})
      BY <1>7, <3>1, FS_Subset
    <3>. QED
      BY <1>8, <3>1, <3>2, <3>3
  <2>2. \A x \in Nodes : pendingDeps'[x] <= Cardinality(Unreleased(x)')
    <3>. TAKE x \in Nodes
    <3>1. CASE x = sid
      BY <1>0, <1>3, <1>8, <2>1, <3>1 DEF Awaited
    <3>2. CASE x # sid
      BY <1>3, <1>7, <3>2 DEF Awaited
    <3>. QED
      BY <3>1, <3>2
  <2>3. ASSUME NEW x \in Nodes, pendingDeps'[x] <= 0
        PROVE  \/ Dispatched(x)'
               \/ main' = "dispatch" /\ loop' <= x /\ Preds(x)' = {} /\ pendingDeps'[x] = 0
    <3>1. CASE x = sid
      <4>1. pendingDeps[sid] = 1 \/ pendingDeps[sid] <= 0
        BY <1>0, <1>3, <2>3, <3>1
      <4>. QED
        BY <1>5, <1>9, <3>1, <4>1 DEF Awaited
    <3>2. CASE x # sid
      BY <1>3, <1>5, <2>3, <3>2 DEF Awaited
    <3>. QED
      BY <3>1, <3>2
  <2>. QED
    BY <1>0, <1>3, <2>2, <2>3 DEF Awaited
<1>11. runs = 1 /\ Shielded => Orderly'
  <2>. SUFFICES ASSUME Shielded, Orderly PROVE Orderly'
    BY DEF Inv
  <2>1. e \notin Unreleased(sid)'
    <3>1. \A x \in Workers : Releases(x, u) => x = w
      BY <1>3 DEF Orderly, OneWorker, Holds, Releases
    <3>2. finished[u] = 1
      BY <1>3 DEF Orderly, OneWorker
    <3>3. i \in Nat
      BY <1>0, NodesAre, LenProperties
    <3>4. edge'[w] = i + 1
      BY <1>0, <1>3 DEF WorkersOK
    <3>5. ~Open(u, i)'
      BY <1>3, <1>5, <3>1, <3>2, <3>3, <3>4 DEF Open
    <3>. QED
      BY <1>7, <3>5
  <2>2. Unreleased(sid) = Unreleased(sid)' \cup {e}
    BY <1>7
  <2>3. Cardinality(Unreleased(sid)) = Cardinality(Unreleased(sid)') + 1
    BY <1>8, <2>1, <2>2, FS_AddElement
  <2>4. DepsExact'
    <3>1. pendingDeps'[sid] = Cardinality(Unreleased(sid)')
      BY <1>3, <1>8, <2>3 DEF Orderly, DepsExact
    <3>. QED
      BY <1>0, <1>3, <1>7, <3>1 DEF Orderly, DepsExact
  <2>5. ~Dispatched(sid) /\ begun[sid] = 0 /\ jobs[sid] = 0
    <3>1. pendingDeps[sid] # 0
      BY <1>8, <2>3 DEF Orderly, DepsExact
    <3>2. ~Dispatched(sid)
      BY <3>1 DEF Orderly, ReadyDispatched
    <3>. QED
      BY <1>4, <3>2 DEF Dispatched
  <2>6. OneJob'
    BY <1>0, <1>3, <1>4, <2>5 DEF Orderly, OneJob
  <2>7. OneWorker'
    BY <1>3, <1>5 DEF Orderly, OneWorker
  <2>8. ReadyDispatched'
    <3>. SUFFICES ASSUME NEW x \in Nodes, Dispatched(x)' PROVE pendingDeps'[x] = 0
      BY <1>0 DEF ReadyDispatched
    <3>1. CASE x = sid
      BY <1>3, <1>5, <2>5, <3>1
    <3>2. CASE x # sid
      BY <1>3, <1>5, <3>2 DEF Orderly, ReadyDispatched
    <3>. QED
      BY <3>1, <3>2
  <2>9. LoopAhead'
    <3>. SUFFICES ASSUME main = "dispatch", NEW x \in Nodes, loop <= x, Dispatched(x)' PROVE FALSE
      BY <1>0, <1>3 DEF LoopAhead
    <3>1. x = sid /\ pendingDeps[sid] = 1
      BY <1>5 DEF Orderly, LoopAhead
    <3>2. Unreleased(sid)' = {}
      <4>1. Cardinality(Unreleased(sid)') = 0
        BY <1>8, <2>3, <3>1 DEF Orderly, DepsExact
      <4>. QED
        BY <1>8, <4>1, FS_EmptySet
    <3>3. PICK y \in Preds(sid) : y > sid
      BY <1>9 DEF Shielded
    <3>4. y \in Nodes /\ \E j \in DOMAIN successors[y] : successors[y][j] = sid
      BY <3>3 DEF Preds, Predecessors, Edge, Nodes
    <3>5. finished[y] # 0
      <4>1. PICK j \in DOMAIN successors[y] : successors[y][j] = sid
        BY <3>4
      <4>2. <<y, j>> \in Unreleased(sid)' <=> Open(y, j)'
        BY <1>0, <1>3, <3>4, <4>1, UnreleasedIs
      <4>3. ~Open(y, j)'
        BY <3>2, <4>2
      <4>. QED
        BY <1>3, <4>3 DEF Open
    <3>6. Dispatched(y)
      BY <1>4, <3>4, <3>5 DEF Dispatched, Orderly, OneJob
    <3>7. loop <= y
      <4>1. loop \in Nat
        BY TypeParts, GraphAssumption DEF Inv, CallerOK
      <4>. QED
        BY <1>0, <3>1, <3>3, <3>4, <4>1
    <3>. QED
      BY <3>4, <3>6, <3>7 DEF Orderly, LoopAhead
  <2>10. RemainingExact' /\ Over'
    BY <1>3, <1>5 DEF Orderly, RemainingExact, Over
  <2>. QED
    BY <2>4, <2>6, <2>7, <2>8, <2>9, <2>10 DEF Orderly
<1>. QED
  BY <1>10, <1>11, WorkRun

\* The counter remaining_ goes down with the one node that is through.
LEMMA CompleteInv ==
  ASSUME Inv, NEW w \in Workers, Complete(w)
  PROVE  RunInv'
<1>0. ShapeOK /\ ShapeOK' /\ WorkersOK
  BY TypeParts, WorkType DEF Inv, Work
<1>1. PICK v \in Nodes : v = node[w]
  BY <1>0 DEF Complete, WorkersOK
<1>2. /\ UNCHANGED <<successors, pendingDeps, main, loop, jobs, begun, finished>>
      /\ pc[w] = "release" /\ edge[w] > Len(successors[v]) /\ remaining' = remaining - 1
      /\ node' = [node EXCEPT ![w] = 0] /\ edge' = [edge EXCEPT ![w] = 1]
  BY <1>1 DEF Complete, build, callerVars, history
<1>3. /\ pc'[w] \in {"notify", "idle"}
      /\ \A x \in Workers \ {w} : pc'[x] = pc[x] /\ node'[x] = node[x] /\ edge'[x] = edge[x]
  BY <1>0, <1>2 DEF WorkersOK, Complete
<1>4. /\ Nodes' = Nodes /\ (Running' <=> Running) /\ (\A x : Preds(x)' = Preds(x))
      /\ \A x : Dispatched(x)' <=> Dispatched(x)
      /\ \A x \in Workers : \A u : Releases(x, u)' <=> x # w /\ Releases(x, u)
      /\ \A x \in Workers : \A u : Holds(x, u)' <=> x # w /\ Holds(x, u)
      /\ \A u : Releases(w, u) <=> u = v
  BY <1>1, <1>2, <1>3, ShieldedKept DEF Nodes, Running, Dispatched, Releases, Holds
<1>5. ASSUME NEW u \in Nodes, NEW i \in DOMAIN successors[u] PROVE Open(u, i)' <=> Open(u, i)
  <2>1. ~(Releases(w, u) /\ edge[w] <= i)
    <3>1. successors[u] \in Seq(Ids) /\ edge[w] \in Nat
      BY <1>0, NodesAre DEF WorkersOK
    <3>2. DOMAIN successors[u] = 1..Len(successors[u]) /\ Len(successors[u]) \in Nat
      BY <3>1, LenProperties
    <3>. QED
      BY <1>2, <1>4, <3>1, <3>2
  <2>2. \A x \in Workers : Releases(x, u)' /\ edge'[x] <= i <=> Releases(x, u) /\ edge[x] <= i
    BY <1>3, <1>4, <2>1
  <2>. QED
    BY <1>2, <2>2 DEF Open
<1>6. \A x : Unreleased(x)' = Unreleased(x)
  BY <1>2, <1>5, UnreleasedKept
<1>7. runs = 1 /\ UntilReset => Awaited'
  <2>. SUFFICES ASSUME Awaited PROVE Awaited'
    BY DEF Inv
  <2>1. \A x \in Nodes : begun'[x] > 0 /\ finished'[x] = 0 =>
          \E y \in Workers : pc'[y] = "fn" /\ node'[y] = x
    <3>. SUFFICES ASSUME NEW x \in Nodes, begun'[x] > 0, finished'[x] = 0
                  PROVE  \E y \in Workers : pc'[y] = "fn" /\ node'[y] = x
      OBVIOUS
    <3>1. PICK y \in Workers : pc[y] = "fn" /\ node[y] = x
      BY <1>2 DEF Awaited
    <3>. QED
      BY <1>2, <1>3, <3>1
  <2>. QED
    BY <1>2, <1>4, <1>6, <2>1 DEF Awaited
<1>8. runs = 1 /\ Shielded => Orderly'
  <2>. SUFFICES ASSUME Orderly PROVE Orderly'
    BY DEF Inv
  <2>1. DepsExact' /\ ReadyDispatched' /\ LoopAhead' /\ OneJob'
    BY <1>2, <1>4, <1>6 DEF Orderly, DepsExact, ReadyDispatched, LoopAhead, OneJob
  <2>2. OneWorker'
    <3>1. \A x \in Workers : pc'[x] \in {"fn", "release"} => x # w
      BY <1>3
    <3>2. \A x \in Workers : pc'[x] \in {"fn", "release"} =>
            begun'[node'[x]] = 1 /\ finished'[node'[x]] = IF pc'[x] = "fn" THEN 0 ELSE 1
      BY <1>2, <1>3, <3>1 DEF Orderly, OneWorker
    <3>3. ASSUME NEW x \in Workers, NEW y \in Workers, Holds(x, node[y])', Holds(y, node[y])'
          PROVE  x = y
      <4>1. x # w /\ y # w /\ node'[y] = node[y]
        BY <1>3, <1>4, <3>3
      <4>. QED
        BY <1>4, <3>3, <4>1 DEF Orderly, OneWorker
    <3>. QED
      BY <3>2, <3>3 DEF OneWorker
  <2>3. finished[v] = 1 /\ \A x \in Workers : Releases(x, v) => x = w
    BY <1>1, <1>2 DEF Orderly, OneWorker, Holds, Releases
  <2>4. v \in Incomplete /\ Incomplete' = Incomplete \ {v}
    <3>1. v \in Incomplete /\ v \notin Incomplete'
      BY <1>2, <1>4, <2>3 DEF Incomplete
    <3>2. \A x \in Nodes \ {v} : x \in Incomplete' <=> x \in Incomplete
      BY <1>2, <1>4 DEF Incomplete
    <3>3. Incomplete \subseteq Nodes /\ Incomplete' \subseteq Nodes
      BY <1>4 DEF Incomplete
    <3>. QED
      BY <3>1, <3>2, <3>3
  <2>5. RemainingExact'
    <3>1. IsFiniteSet(Incomplete) /\ remaining = Cardinality(Incomplete)
      BY DEF Orderly, RemainingExact
    <3>2. IsFiniteSet(Incomplete') /\ Cardinality(Incomplete') = Cardinality(Incomplete) - 1
      BY <2>4, <3>1, FS_RemoveElement
    <3>. QED
      BY <1>2, <3>1, <3>2 DEF RemainingExact
  <2>6. Over'
    BY <1>4, <2>4 DEF Orderly, Over
  <2>. QED
    BY <2>1, <2>2, <2>5, <2>6 DEF Orderly
<1>. QED
  BY <1>7, <1>8, WorkRun

-----------------------------------------------------------------------------
(* The invariant, and what it says about the first run.                    *)

LEMMA BuildInv ==
  ASSUME Inv, AddTask \/ AddDependency
  PROVE  RunInv'
<1>1. /\ main = "build" /\ main' = "build" /\ runs' = 0 /\ Fresh /\ TypeOK
  BY DEF Inv, AddTask, AddDependency, callerVars
<1>2. Fresh'
  BY <1>1, AddTaskFresh, AddDependencyFresh
<1>. QED
  BY <1>1, <1>2 DEF RunInv

LEMMA InvParts ==
  /\ Inv <=> TypeOK /\ RunInv
  /\ Inv' <=> TypeOK' /\ RunInv'
BY DEF Inv, RunInv

LEMMA InitInv == Init => Inv
<1>. SUFFICES ASSUME Init PROVE Inv
  OBVIOUS
<1>1. TypeOK
  BY InitType
<1>2. Nodes = {}
  BY EmptySeq DEF Init, Nodes
<1>3. Fresh
  BY <1>2 DEF Init, Fresh, DepsExact
<1>. QED
  BY <1>1, <1>3 DEF Init, Inv

LEMMA NextInv == Inv /\ [Next]_vars => Inv'
<1>. SUFFICES ASSUME Inv, [Next]_vars PROVE Inv'
  OBVIOUS
<1>1. TypeOK'
  BY TypeStep DEF Inv
<1>2. RunInv'
  <2>1. CASE AddTask \/ AddDependency
    BY <2>1, BuildInv
  <2>2. CASE Run
    BY <2>2, RunStartsInv, RunLoopInv, StillRun DEF Run
  <2>3. CASE Wait \/ SpuriousWakeup
    BY <2>3, StillRun
  <2>4. CASE Reset
    BY <2>4, ResetInv
  <2>5. ASSUME NEW w \in Workers, Work(w) PROVE RunInv'
    BY <2>5, StartInv, FnReturnsInv, ReleaseInv, CompleteInv, StillRun DEF Work
  <2>6. CASE UNCHANGED vars
    <3>1. Still /\ UNCHANGED main /\ UNCHANGED pc
      BY <2>6 DEF vars, build, callerVars, workers, history, Still
    <3>2. runs = 0 => Fresh'
      BY <3>1, StillOpen DEF Still, history, Inv, Fresh, DepsExact, None
    <3>3. runs = 1 /\ UntilReset => Awaited'
      BY <3>1, StillAwaited DEF Inv
    <3>4. runs = 1 /\ Shielded => Orderly'
      BY <3>1, StillOrderly DEF Inv, Running
    <3>. QED
      BY <3>1, <3>2, <3>3, <3>4, ShieldedKept DEF Inv, RunInv, Still, Running, UntilReset
  <2>. QED
    BY <2>1, <2>2, <2>3, <2>4, <2>5, <2>6 DEF Next
<1>. QED
  BY <1>1, <1>2, InvParts

\* The invariant of the first run holds throughout.
THEOREM GraphInductive == Spec => []Inv
BY InitInv, NextInv, PTL DEF Spec

LEMMA InOrderHolds == Inv /\ runs <= 1 => ShieldedInOrder
<1>. SUFFICES ASSUME Inv, runs <= 1, Shielded, NEW v \in Nodes, Dispatched(v)
              PROVE  \A u \in Preds(v) : finished[u] > 0
  BY DEF ShieldedInOrder, InOrder
<1>0. TypeOK /\ ShapeOK /\ runs \in Nat /\ Nodes \subseteq Ids
  BY TypeParts, NodesAre DEF Inv, CallerOK
<1>1. runs # 0
  BY <1>0, FreshOpen DEF Inv, Dispatched
<1>2. Orderly
  BY <1>0, <1>1 DEF Inv
<1>3. Cardinality(Unreleased(v)) = 0 /\ IsFiniteSet(Unreleased(v))
  BY <1>0, <1>2, DepsAreFinite DEF Orderly, ReadyDispatched, DepsExact, DepsFinite
<1>4. Unreleased(v) = {}
  BY <1>3, FS_EmptySet
<1>. QED
  BY <1>0, <1>4, NothingOpen

\* "predecessor must finish before successor" (task_graph.hpp:42), in the first
\* run of a shielded graph of any size: run()'s loop and on_node_complete() hand
\* a node to the pool only when every predecessor's fn has returned.
THEOREM FirstRunInOrder == Spec => [](runs <= 1 => ShieldedInOrder)
<1>1. Inv => (runs <= 1 => ShieldedInOrder)
  BY InOrderHolds
<1>. QED
  BY <1>1, GraphInductive, PTL

LEMMA OnceEachHolds == Inv /\ runs <= 1 => ShieldedOnceEach
<1>. SUFFICES ASSUME Inv, runs <= 1, Shielded, NEW v \in Nodes
              PROVE  begun[v] + jobs[v] <= 1
  BY DEF ShieldedOnceEach, OnceEach
<1>0. TypeOK /\ runs \in Nat /\ v \in Ids
  BY TypeParts, NodesAre DEF Inv, CallerOK
<1>1. CASE runs = 0
  BY <1>0, <1>1, FreshOpen DEF Inv
<1>2. CASE runs = 1
  BY <1>2 DEF Inv, Orderly, OneJob
<1>. QED
  BY <1>0, <1>1, <1>2

\* run()'s loop never submits a node that a worker has submitted, nor the other
\* way round, in the first run of a shielded graph of any size.
THEOREM FirstRunOnceEach == Spec => [](runs <= 1 => ShieldedOnceEach)
<1>1. Inv => (runs <= 1 => ShieldedOnceEach)
  BY OnceEachHolds
<1>. QED
  BY <1>1, GraphInductive, PTL

LEMMA WaitSoundHolds == Inv /\ runs <= 1 => ShieldedWaitSound
<1>. SUFFICES ASSUME Inv, runs <= 1, Shielded, main = "waited"
              PROVE  /\ \A v \in Nodes : finished[v] > 0
                     /\ \A w \in Workers : pc[w] \in {"idle", "notify"}
  BY DEF ShieldedWaitSound, WaitSound
<1>0. WorkersOK /\ runs \in Nat /\ Nodes \subseteq Ids
  BY TypeParts, NodesAre DEF Inv, CallerOK
<1>1. Orderly
  BY <1>0 DEF Inv, Fresh
<1>2. Incomplete = {}
  BY <1>1 DEF Orderly, Over, Running
<1>3. \A v \in Nodes : finished[v] # 0 /\ \A w \in Workers : ~Releases(w, v)
  BY <1>2 DEF Incomplete
<1>4. \A v \in Nodes : finished[v] > 0
  BY <1>0, <1>3 DEF WorkersOK
<1>5. ASSUME NEW w \in Workers PROVE pc[w] \notin {"fn", "release"}
  <2>. SUFFICES ASSUME pc[w] \in {"fn", "release"} PROVE FALSE
    OBVIOUS
  <2>1. node[w] \in Nodes
    BY <1>0 DEF WorkersOK
  <2>2. pc[w] = "fn"
    BY <1>3, <2>1 DEF Releases
  <2>3. finished[node[w]] = 0
    BY <1>1, <2>2 DEF Orderly, OneWorker
  <2>. QED
    BY <1>3, <2>1, <2>3
<1>. QED
  BY <1>0, <1>4, <1>5 DEF WorkersOK

\* "Block until all tasks in this graph complete" (task_graph.hpp:48), in the
\* first run of a shielded graph of any size: when wait() has seen remaining_ at
\* 0, every node's fn has returned and no worker is inside a node any more.
THEOREM FirstWaitSound == Spec => [](runs <= 1 => ShieldedWaitSound)
<1>1. Inv => (runs <= 1 => ShieldedWaitSound)
  BY WaitSoundHolds
<1>. QED
  BY <1>1, GraphInductive, PTL

\* A node that was never dispatched waits for another such node: for ever, on a
\* cycle, which run() has refused.
LEMMA NothingForgottenHolds == Inv /\ runs <= 1 => NothingForgotten
<1>. SUFFICES ASSUME Inv, runs <= 1, Quiescent
              PROVE  \A v \in Nodes : finished[v] > 0
  BY DEF NothingForgotten
<1>0. /\ ShapeOK /\ WorkersOK /\ runs \in Nat /\ Nodes \subseteq Ids
      /\ \A v \in Nodes : pendingDeps[v] \in Int
  BY TypeParts, NodesAre DEF Inv, CallerOK
<1>1. runs = 1 /\ Awaited /\ ~Cyclic(successors) /\ main # "dispatch"
  BY <1>0 DEF Inv, Fresh, Quiescent, Running, UntilReset
<1>. DEFINE C == {v \in Nodes : finished[v] = 0}
<1>2. ASSUME NEW v \in C PROVE \E u \in C : Edge(successors, u, v)
  <2>1. v \in Nodes /\ finished[v] = 0 /\ jobs[v] = 0
    BY DEF Quiescent
  <2>2. begun[v] = 0
    BY <1>0, <1>1, <2>1 DEF Awaited, Quiescent, WorkersOK
  <2>3. ~(pendingDeps[v] <= 0)
    BY <1>1, <2>1, <2>2 DEF Awaited, Dispatched
  <2>4. Cardinality(Unreleased(v)) # 0
    <3>1. pendingDeps[v] <= Cardinality(Unreleased(v)) /\ Cardinality(Unreleased(v)) \in Nat
      BY <1>0, <1>1, <2>1, DepsAreFinite, FS_CardinalityType DEF Awaited, DepsFinite
    <3>. QED
      BY <1>0, <2>1, <2>3, <3>1
  <2>5. PICK e : e \in Unreleased(v)
    BY <2>4, FS_EmptySet
  <2>6. PICK u \in Nodes : \E i \in DOMAIN successors[u] : successors[u][i] = v /\ Open(u, i)
    BY <2>5, UnreleasedIs
  <2>7. finished[u] = 0
    BY <2>6 DEF Open, Releases, Quiescent
  <2>. QED
    BY <2>6, <2>7 DEF Edge
<1>3. C = {}
  <2>1. C \in SUBSET DOMAIN successors
    BY DEF Nodes
  <2>. HIDE DEF C
  <2>. QED
    BY <1>1, <1>2, <2>1 DEF Cyclic
<1>. QED
  BY <1>0, <1>3 DEF WorkersOK

\* In the first run of any graph, shielded or not: when run() has returned and
\* the pool has run dry every node has been executed.
THEOREM FirstRunForgetsNothing == Spec => [](runs <= 1 => NothingForgotten)
<1>1. Inv => (runs <= 1 => NothingForgotten)
  BY NothingForgottenHolds
<1>. QED
  BY <1>1, GraphInductive, PTL
=============================================================================

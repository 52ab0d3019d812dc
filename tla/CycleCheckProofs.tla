-------------------------- MODULE CycleCheckProofs --------------------------
(***************************************************************************)
(* Proofs about CycleCheck for graphs of any number of nodes and           *)
(* successors.  No induction on the graph is used: what a path reaches and *)
(* in which order black nodes may come are invariants of the search.       *)
(***************************************************************************)
EXTENDS CycleCheck, SequenceTheorems, TLAPS

Frames == Nodes \X (1..(MaxDegree + 1))

\* A graph has the nodes 1..n, each with a sequence of successors among them.
LEMMA GraphType ==
  ASSUME succ \in Graphs
  PROVE  /\ \E n \in 0..MaxNodes : Nodes = 1..n
         /\ \A v \in Nodes : /\ succ[v] \in Seq(Nodes)
                             /\ Len(succ[v]) \in 0..MaxDegree
                             /\ DOMAIN succ[v] = 1..Len(succ[v])
<1>1. PICK n \in 0..MaxNodes :
        succ \in [1..n -> UNION {[1..d -> 1..n] : d \in 0..MaxDegree}]
  BY DEF Graphs
<1>2. Nodes = 1..n
  BY <1>1 DEF Nodes
<1>3. ASSUME NEW v \in Nodes
      PROVE  /\ succ[v] \in Seq(Nodes)
             /\ Len(succ[v]) \in 0..MaxDegree
             /\ DOMAIN succ[v] = 1..Len(succ[v])
  <2>1. succ[v] \in UNION {[1..d -> 1..n] : d \in 0..MaxDegree}
    BY <1>1, <1>2, <1>3
  <2>2. PICK d \in 0..MaxDegree : succ[v] \in [1..d -> Nodes]
    BY <1>2, <2>1
  <2>. QED
    BY <2>2, CycleCheckAssumption
<1>. QED
  BY <1>2, <1>3

\* v has u among its successors exactly at an index of its sequence.
LEMMA EdgeAt ==
  ASSUME succ \in Graphs, NEW u \in Nodes, NEW v
  PROVE  Edge(succ, u, v) <=> \E k \in 1..Len(succ[u]) : succ[u][k] = v
BY GraphType DEF Edge

\* The stack without its top frame.
LEMMA PoppedType ==
  ASSUME NEW S, stk \in Seq(S), stk # <<>>
  PROVE  /\ Len(stk) \in Nat \ {0}
         /\ DOMAIN stk = 1..Len(stk)
         /\ \A i \in 1..Len(stk) : stk[i] \in S
         /\ Top = stk[Len(stk)] /\ Top \in S
         /\ Popped \in Seq(S)
         /\ Len(Popped) = Len(stk) - 1
         /\ DOMAIN Popped = 1..(Len(stk) - 1)
         /\ \A i \in 1..(Len(stk) - 1) : Popped[i] = stk[i]
<1>1. Len(stk) \in Nat \ {0} /\ DOMAIN stk = 1..Len(stk)
  BY EmptySeq
<1>2. \A i \in 1..Len(stk) : stk[i] \in S
  BY <1>1, ElementOfSeq
<1>3. /\ Popped \in Seq(S)
      /\ Len(Popped) = Len(stk) - 1
      /\ \A i \in 1..(Len(stk) - 1) : Popped[i] = stk[i]
  BY <1>1, <1>2, SubSeqProperties DEF Popped
<1>4. DOMAIN Popped = 1..(Len(stk) - 1)
  BY <1>3
<1>. QED
  BY <1>1, <1>2, <1>3, <1>4 DEF Top

\* The stack whose top frame has gone on to the next successor.
LEMMA AdvancedType ==
  ASSUME stk \in Seq(Frames), stk # <<>>, Top[2] <= MaxDegree
  PROVE  /\ Advanced \in Seq(Frames)
         /\ Len(Advanced) = Len(stk)
         /\ DOMAIN Advanced = 1..Len(stk)
         /\ \A i \in 1..(Len(stk) - 1) : Advanced[i] = stk[i]
         /\ Advanced[Len(stk)] = <<Top[1], Top[2] + 1>>
<1>. DEFINE f == <<Top[1], Top[2] + 1>>
<1>1. f \in Frames
  BY PoppedType, CycleCheckAssumption DEF Frames
<1>. HIDE DEF f
<1>2. Popped \in Seq(Frames) /\ Len(Popped) = Len(stk) - 1 /\ Len(stk) \in Nat
  BY PoppedType
<1>3. /\ Append(Popped, f) \in Seq(Frames)
      /\ Len(Append(Popped, f)) = Len(stk)
      /\ \A i \in 1..(Len(stk) - 1) : Append(Popped, f)[i] = Popped[i]
      /\ Append(Popped, f)[Len(stk)] = f
  BY <1>1, <1>2, AppendProperties
<1>4. Advanced = Append(Popped, f)
  BY DEF Advanced, f
<1>5. /\ Advanced \in Seq(Frames)
      /\ Len(Advanced) = Len(stk)
      /\ DOMAIN Advanced = 1..Len(stk)
      /\ Advanced[Len(stk)] = f
  BY <1>3, <1>4
<1>6. \A i \in 1..(Len(stk) - 1) : Advanced[i] = stk[i]
  BY <1>3, <1>4, PoppedType
<1>. QED
  BY <1>5, <1>6 DEF f

-----------------------------------------------------------------------------
IInv == TypeOK /\ SearchInv

\* The search starts in the invariant: nothing is visited, the stack is empty.
LEMMA InitInv == Init => IInv
<1>. SUFFICES ASSUME Init PROVE IInv
  OBVIOUS
<1>1. succ \in Graphs /\ stk = <<>> /\ start = 1 /\ verdict = "none"
      /\ color = [v \in Nodes |-> 0]
  BY DEF Init, Nodes
<1>2. PICK n \in 0..MaxNodes : Nodes = 1..n
  BY <1>1, GraphType
<1>3. TypeOK
  BY <1>1, CycleCheckAssumption DEF TypeOK
<1>4. DOMAIN stk = {} /\ Len(stk) = 0 /\ \A v \in Nodes : color[v] = 0
  BY <1>1
<1>5. GreyIsStack
  BY <1>4 DEF GreyIsStack, OnStack
<1>6. StackIsPath /\ PathReaches
  BY <1>4 DEF StackIsPath, PathReaches
<1>7. PassedDone
  BY <1>1, <1>4 DEF PassedDone, Searching
<1>8. BlackClosed /\ BlackSorted
  BY <1>4 DEF BlackClosed, BlackSorted
<1>9. StartPassed
  BY <1>1, <1>2, <1>4 DEF StartPassed
<1>. QED
  BY <1>3, <1>5, <1>6, <1>7, <1>8, <1>9 DEF IInv, SearchInv

\* The outer loop passes a node that was visited before.
LEMMA SkipStartInv == IInv /\ SkipStart => IInv'
<1>. SUFFICES ASSUME IInv, SkipStart PROVE IInv'
  OBVIOUS
<1>. USE DEF IInv, SearchInv, SkipStart, Between
<1>1. PICK n \in 0..MaxNodes : Nodes = 1..n
  BY GraphType DEF TypeOK
<1>2. Nodes' = Nodes /\ OnStack' = OnStack /\ Top' = Top /\ (Searching' <=> Searching)
  BY DEF Nodes, OnStack, Top, Searching
<1>3. TypeOK'
  BY <1>1, <1>2, CycleCheckAssumption DEF TypeOK
<1>4. GreyIsStack' /\ StackIsPath' /\ BlackClosed' /\ BlackSorted'
  BY <1>2 DEF GreyIsStack, StackIsPath, BlackClosed, BlackSorted
<1>5. PathReaches' /\ PassedDone'
  BY <1>2 DEF PathReaches, PassedDone
<1>6. StartPassed'
  BY <1>1, <1>2 DEF StartPassed, TypeOK
<1>. QED
  BY <1>3, <1>4, <1>5, <1>6

\* With the stack empty and every node passed, no node is white or grey.
LEMMA AcceptInv == IInv /\ Accept => IInv'
<1>. SUFFICES ASSUME IInv, Accept PROVE IInv'
  OBVIOUS
<1>. USE DEF IInv, SearchInv, Accept, Between
<1>1. PICK n \in 0..MaxNodes : Nodes = 1..n
  BY GraphType DEF TypeOK
<1>2. Nodes' = Nodes /\ OnStack' = OnStack /\ Top' = Top /\ ~Searching'
  BY DEF Nodes, OnStack, Top, Searching
<1>3. TypeOK'
  BY <1>2 DEF TypeOK
<1>4. GreyIsStack' /\ StackIsPath' /\ BlackClosed' /\ BlackSorted'
  BY <1>2 DEF GreyIsStack, StackIsPath, BlackClosed, BlackSorted
<1>5. PathReaches' /\ PassedDone'
  BY <1>2 DEF PathReaches, PassedDone
<1>6. \A v \in Nodes : color[v] = 2
  <2>1. DOMAIN stk = {}
    OBVIOUS
  <2>2. OnStack = {}
    BY <2>1 DEF OnStack
  <2>3. \A v \in Nodes : color[v] # 1
    BY <2>2 DEF GreyIsStack
  <2>4. \A v \in Nodes : color[v] # 0
    BY <1>1 DEF StartPassed, TypeOK
  <2>. QED
    BY <2>3, <2>4 DEF TypeOK
<1>7. StartPassed'
  BY <1>2, <1>6 DEF StartPassed
<1>. QED
  BY <1>3, <1>4, <1>5, <1>7

\* The outer loop starts a search at a white node: the stack is that node.
LEMMA OpenStartInv == IInv /\ OpenStart => IInv'
<1>. SUFFICES ASSUME IInv, OpenStart PROVE IInv'
  OBVIOUS
<1>. USE DEF IInv, SearchInv, OpenStart, Between
<1>1. start \in Nodes /\ color[start] = 0 /\ stk = <<>> /\ verdict = "none"
  OBVIOUS
<1>2. Nodes' = Nodes /\ succ' = succ /\ verdict' = "none" /\ start' = start
  BY DEF Nodes
<1>3. color' = [color EXCEPT ![start] = 1] /\ color \in [Nodes -> 0..2]
  BY DEF TypeOK
<1>4. \A v \in Nodes : color'[v] = IF v = start THEN 1 ELSE color[v]
  BY <1>1, <1>3
<1>5. /\ stk' = << <<start, 1>> >> /\ stk' # <<>>
      /\ Len(stk') = 1 /\ DOMAIN stk' = {1}
      /\ stk'[1] = <<start, 1>>
  BY DEF Frame
<1>6. TypeOK'
  <2>1. <<start, 1>> \in Nodes \X (1..(MaxDegree + 1))
    BY <1>1, CycleCheckAssumption
  <2>2. stk' \in Seq(Nodes \X (1..(MaxDegree + 1)))
    BY <2>1, <1>5
  <2>3. color' \in [Nodes -> 0..2]
    BY <1>3
  <2>. QED
    BY <1>2, <2>2, <2>3 DEF TypeOK
<1>7. GreyIsStack'
  <2>1. \A v \in Nodes : color[v] # 1
    BY <1>1 DEF GreyIsStack, OnStack
  <2>2. OnStack' = {start}
    BY <1>5 DEF OnStack
  <2>3. {v \in Nodes : color'[v] = 1} = {start}
    BY <1>1, <1>4, <2>1
  <2>. QED
    BY <1>2, <1>5, <2>2, <2>3 DEF GreyIsStack
<1>8. StackIsPath' /\ PathReaches'
  BY <1>5 DEF StackIsPath, PathReaches
<1>9. PassedDone'
  <2>1. Top' = <<start, 1>>
    BY <1>5 DEF Top
  <2>2. Len(succ[start]) \in Nat
    BY <1>1, GraphType DEF TypeOK
  <2>. QED
    BY <1>2, <1>5, <2>1, <2>2 DEF PassedDone
<1>10. BlackClosed' /\ BlackSorted'
  <2>1. {v \in Nodes : color'[v] = 2} = {v \in Nodes : color[v] = 2}
    BY <1>1, <1>4
  <2>2. \A v \in Nodes : color'[v] = 2 <=> color[v] = 2
    BY <1>1, <1>4
  <2>. QED
    BY <1>2, <2>1, <2>2 DEF BlackClosed, BlackSorted
<1>11. StartPassed'
  BY <1>2, <1>4 DEF StartPassed
<1>. QED
  BY <1>6, <1>7, <1>8, <1>9, <1>10, <1>11

\* A node whose successors are all passed turns black.  They are all black, the
\* node itself is not among them and no black node leads to it: in the order of
\* the black nodes it comes first.
LEMMA RetreatInv == IInv /\ Retreat => IInv'
<1>. SUFFICES ASSUME IInv, Retreat PROVE IInv'
  OBVIOUS
<1>. USE DEF IInv, SearchInv
<1>. DEFINE top == Top[1]
<1>1. /\ stk \in Seq(Frames) /\ stk # <<>> /\ verdict = "none"
      /\ color \in [Nodes -> 0..2] /\ succ \in Graphs
      /\ Top[2] > Len(succ[top])
  BY DEF TypeOK, Retreat, Searching, Frames
<1>2. /\ Len(stk) \in Nat \ {0} /\ DOMAIN stk = 1..Len(stk)
      /\ \A i \in 1..Len(stk) : stk[i] \in Frames
      /\ Top = stk[Len(stk)] /\ Top \in Frames
  BY <1>1, PoppedType
<1>3. /\ stk' \in Seq(Frames) /\ Len(stk') = Len(stk) - 1
      /\ DOMAIN stk' = 1..(Len(stk) - 1)
      /\ \A i \in 1..(Len(stk) - 1) : stk'[i] = stk[i]
  BY <1>1, PoppedType DEF Retreat
<1>4. top \in Nodes /\ Len(succ[top]) \in Nat /\ Top[2] \in Nat
  BY <1>1, <1>2, GraphType DEF Frames
<1>5. Nodes' = Nodes /\ succ' = succ /\ verdict' = verdict /\ start' = start
  BY DEF Nodes, Retreat
<1>6. \A v \in Nodes : color'[v] = IF v = top THEN 2 ELSE color[v]
  BY <1>1, <1>4 DEF Retreat, Done
<1>7. color[top] = 1
  BY <1>2, <1>4 DEF GreyIsStack, OnStack
<1>8. \A v \in Nodes : Edge(succ, top, v) => color[v] = 2 /\ v # top
  <2>1. \A k \in 1..Len(succ[top]) : color[succ[top][k]] = 2
    BY <1>1, <1>4 DEF PassedDone, Searching
  <2>. QED
    BY <1>1, <1>4, <1>7, <2>1, EdgeAt
<1>9. \A u \in Nodes : color[u] = 2 => ~Edge(succ, u, top)
  BY <1>4, <1>7 DEF BlackClosed
<1>. HIDE DEF top
<1>10. TypeOK'
  <2>1. color' = [color EXCEPT ![top] = 2]
    BY DEF Retreat, Done, top
  <2>2. color' \in [Nodes -> 0..2]
    BY <1>1, <1>4, <2>1
  <2>. QED
    BY <1>3, <1>5, <2>2 DEF TypeOK, Frames
<1>11. GreyIsStack'
  <2>1. \A i, j \in DOMAIN stk' : stk'[i][1] = stk'[j][1] => i = j
    BY <1>2, <1>3 DEF GreyIsStack
  <2>2. \A i \in DOMAIN stk' : stk'[i][1] # top
    BY <1>2, <1>3 DEF GreyIsStack, top
  <2>3. ASSUME NEW i \in DOMAIN stk'
        PROVE  stk'[i][1] \in {v \in Nodes : color'[v] = 1}
    <3>1. stk'[i] = stk[i] /\ i \in DOMAIN stk
      BY <1>2, <1>3
    <3>2. stk[i][1] \in {v \in Nodes : color[v] = 1}
      BY <3>1 DEF GreyIsStack, OnStack
    <3>. QED
      BY <1>6, <2>2, <3>1, <3>2
  <2>4. ASSUME NEW v \in Nodes, color'[v] = 1
        PROVE  v \in OnStack'
    <3>1. v # top /\ color[v] = 1
      BY <1>6, <2>4
    <3>2. PICK i \in DOMAIN stk : stk[i][1] = v
      BY <3>1 DEF GreyIsStack, OnStack
    <3>3. i # Len(stk)
      BY <1>2, <3>1, <3>2 DEF top
    <3>. QED
      BY <1>2, <1>3, <3>2, <3>3 DEF OnStack
  <2>5. OnStack' = {v \in Nodes : color'[v] = 1}
    BY <2>3, <2>4 DEF OnStack
  <2>. QED
    BY <1>5, <2>1, <2>5 DEF GreyIsStack
<1>12. StackIsPath'
  BY <1>2, <1>3, <1>5 DEF StackIsPath
<1>13. PathReaches'
  BY <1>2, <1>3, <1>5 DEF PathReaches
<1>14. PassedDone'
  <2>1. ASSUME NEW u \in Nodes, color[u] = 2
        PROVE  color'[u] = 2
    BY <1>6, <2>1
  <2>2. ASSUME NEW i \in DOMAIN stk'
        PROVE  /\ stk'[i] = stk[i] /\ i \in DOMAIN stk /\ stk[i][1] \in Nodes
               /\ stk[i][2] \in Nat
               /\ stk[i][2] - 1 <= Len(succ[stk[i][1]])
               /\ \A k \in 1..(stk[i][2] - 2) : color[succ[stk[i][1]][k]] = 2
    <3>1. stk'[i] = stk[i] /\ i \in 1..Len(stk) /\ i \in DOMAIN stk
      BY <1>2, <1>3
    <3>2. stk[i][1] \in Nodes /\ stk[i][2] \in Nat
      BY <1>2, <3>1 DEF Frames
    <3>. QED
      BY <3>1, <3>2 DEF PassedDone
  <2>3. ASSUME NEW i \in DOMAIN stk', NEW k \in 1..(stk[i][2] - 2)
        PROVE  color'[succ[stk[i][1]][k]] = 2
    <3>1. color[succ[stk[i][1]][k]] = 2
      BY <2>2
    <3>2. succ[stk[i][1]] \in Seq(Nodes) /\ k \in 1..Len(succ[stk[i][1]])
      BY <1>1, <2>2, GraphType
    <3>3. succ[stk[i][1]][k] \in Nodes
      BY <3>2, ElementOfSeq
    <3>. QED
      BY <2>1, <3>1, <3>3
  <2>4. ASSUME Searching', NEW k \in 1..(Top'[2] - 1)
        PROVE  color'[succ[Top'[1]][k]] = 2
    <3>. DEFINE m == Len(stk) - 1
    <3>1. m \in DOMAIN stk' /\ m \in 1..(Len(stk) - 1) /\ Top' = stk[m]
      BY <1>2, <1>3, <2>4, EmptySeq DEF Searching, Top
    <3>2. stk[m][2] > 1 /\ succ[stk[m][1]][stk[m][2] - 1] = top
      BY <1>2, <3>1 DEF StackIsPath, top
    <3>3. CASE k = stk[m][2] - 1
      BY <1>4, <1>6, <3>1, <3>2, <3>3
    <3>4. CASE k \in 1..(stk[m][2] - 2)
      BY <2>3, <3>1, <3>4
    <3>5. stk[m][2] \in Nat /\ k \in 1..(stk[m][2] - 1)
      BY <2>2, <3>1
    <3>. HIDE DEF m
    <3>6. k = stk[m][2] - 1 \/ k \in 1..(stk[m][2] - 2)
      BY <3>5
    <3>. QED
      BY <3>3, <3>4, <3>6
  <2>. QED
    BY <1>5, <2>2, <2>3, <2>4 DEF PassedDone
<1>15. BlackClosed'
  BY <1>5, <1>6, <1>8 DEF BlackClosed
<1>16. BlackSorted'
  <2>1. ASSUME NEW C \in SUBSET {v \in Nodes : color'[v] = 2}, C # {}
        PROVE  \E v \in C : \A u \in C : ~Edge(succ, u, v)
    <3>1. CASE top \in C
      <4>1. ~Edge(succ, top, top)
        BY <1>4, <1>8
      <4>2. \A u \in C : u # top => ~Edge(succ, u, top)
        BY <1>6, <1>9
      <4>. QED
        BY <3>1, <4>1, <4>2
    <3>2. CASE top \notin C
      <4>1. C \in SUBSET {v \in Nodes : color[v] = 2}
        BY <1>6, <3>2
      <4>. QED
        BY <2>1, <4>1 DEF BlackSorted
    <3>. QED
      BY <3>1, <3>2
  <2>. QED
    BY <1>5, <2>1 DEF BlackSorted
<1>17. StartPassed'
  BY <1>1, <1>5, <1>6 DEF StartPassed
<1>. QED
  BY <1>10, <1>11, <1>12, <1>13, <1>14, <1>15, <1>16, <1>17

\* FollowEdge looks at the successor of v at index k; what holds of the stack
\* before it, with the index advanced, and what stays.
Followed(v, k) ==
  /\ Top = <<v, k>> /\ v \in Nodes /\ k \in 1..Len(succ[v])
  /\ succ[v][k] \in Nodes /\ Edge(succ, v, succ[v][k])
  /\ color[v] = 1
  /\ stk \in Seq(Frames) /\ stk # <<>> /\ verdict = "none"
  /\ Len(stk) \in Nat \ {0} /\ DOMAIN stk = 1..Len(stk)
  /\ \A i \in 1..Len(stk) : stk[i][1] \in Nodes /\ stk[i][2] \in Nat \ {0}
  /\ stk[Len(stk)] = <<v, k>>
  /\ Advanced \in Seq(Frames) /\ Len(Advanced) = Len(stk)
  /\ DOMAIN Advanced = 1..Len(stk)
  /\ \A i \in 1..(Len(stk) - 1) : Advanced[i] = stk[i]
  /\ Advanced[Len(stk)] = <<v, k + 1>>
  /\ \A j \in 1..(k - 1) : color[succ[v][j]] = 2
  /\ Nodes' = Nodes /\ succ' = succ /\ start' = start

\* It is the top frame that FollowEdge is about.
LEMMA FollowedTop ==
  IInv /\ FollowEdge => \E v, k \in Nat : Followed(v, k)
<1>. SUFFICES ASSUME IInv, FollowEdge PROVE \E v, k \in Nat : Followed(v, k)
  OBVIOUS
<1>. DEFINE v == Top[1]
<1>. DEFINE k == Top[2]
<1>1. /\ stk \in Seq(Frames) /\ stk # <<>> /\ verdict = "none" /\ succ \in Graphs
      /\ k <= Len(succ[v])
  BY DEF IInv, TypeOK, FollowEdge, Searching, Frames
<1>2. /\ Len(stk) \in Nat \ {0} /\ DOMAIN stk = 1..Len(stk)
      /\ \A i \in 1..Len(stk) : stk[i] \in Frames
      /\ Top = stk[Len(stk)] /\ Top \in Frames
  BY <1>1, PoppedType
<1>3. Top = <<v, k>> /\ v \in Nodes /\ k \in Nat \ {0}
  BY <1>2 DEF Frames
<1>4. \E n \in 0..MaxNodes : Nodes = 1..n
  BY <1>1, GraphType
<1>5. v \in Nat
  BY <1>3, <1>4
<1>. HIDE DEF v, k
<1>6. succ[v] \in Seq(Nodes) /\ Len(succ[v]) \in 0..MaxDegree
  BY <1>1, <1>3, GraphType
<1>7. k \in 1..Len(succ[v]) /\ k <= MaxDegree
  BY <1>1, <1>3, <1>6, CycleCheckAssumption
<1>8. succ[v][k] \in Nodes
  BY <1>6, <1>7, ElementOfSeq
<1>9. Edge(succ, v, succ[v][k])
  BY <1>1, <1>3, <1>7, EdgeAt
<1>10. Top[1] = v /\ Top[2] = k
  BY DEF v, k
<1>11. /\ Advanced \in Seq(Frames) /\ Len(Advanced) = Len(stk)
       /\ DOMAIN Advanced = 1..Len(stk)
       /\ \A i \in 1..(Len(stk) - 1) : Advanced[i] = stk[i]
       /\ Advanced[Len(stk)] = <<v, k + 1>>
  BY <1>1, <1>7, <1>10, AdvancedType
<1>12. color[v] = 1
  <2>1. Len(stk) \in DOMAIN stk /\ stk[Len(stk)][1] = v
    BY <1>2, <1>10
  <2>2. v \in OnStack
    BY <2>1 DEF OnStack
  <2>. QED
    BY <2>2 DEF IInv, SearchInv, GreyIsStack
<1>13. \A i \in 1..Len(stk) : stk[i][1] \in Nodes /\ stk[i][2] \in Nat \ {0}
  BY <1>2 DEF Frames
<1>14. \A j \in 1..(k - 1) : color[succ[v][j]] = 2
  BY <1>1, <1>10 DEF IInv, SearchInv, PassedDone, Searching
<1>15. Nodes' = Nodes /\ succ' = succ /\ start' = start
  BY DEF FollowEdge, Nodes
<1>16. stk[Len(stk)] = <<v, k>>
  BY <1>2, <1>3
<1>. QED
  BY <1>1, <1>2, <1>3, <1>5, <1>7, <1>8, <1>9, <1>11, <1>12, <1>13, <1>14,
     <1>15, <1>16 DEF Followed

\* Advancing the index of the top frame keeps the nodes of the stack, and the
\* path, for the top has no next frame.
LEMMA AdvancedKeeps ==
  ASSUME IInv, NEW v \in Nat, NEW k \in Nat, Followed(v, k),
         stk' = Advanced, color' = color
  PROVE  /\ GreyIsStack' /\ StackIsPath' /\ PathReaches'
         /\ BlackClosed' /\ BlackSorted' /\ OnStack' = OnStack
         /\ Top' = <<v, k + 1>> /\ stk' # <<>>
<1>. USE DEF IInv, SearchInv
<1>1. /\ Len(stk) \in Nat \ {0} /\ DOMAIN stk = 1..Len(stk)
      /\ Len(stk') = Len(stk) /\ DOMAIN stk' = 1..Len(stk)
      /\ stk[Len(stk)] = <<v, k>> /\ stk'[Len(stk)] = <<v, k + 1>>
      /\ \A i \in 1..(Len(stk) - 1) : stk'[i] = stk[i]
      /\ Nodes' = Nodes /\ succ' = succ
  BY DEF Followed
<1>2. \A i \in 1..Len(stk) : stk'[i][1] = stk[i][1]
  BY <1>1
<1>3. OnStack' = OnStack
  BY <1>1, <1>2 DEF OnStack
<1>4. GreyIsStack'
  BY <1>1, <1>2, <1>3 DEF GreyIsStack
<1>5. StackIsPath'
  BY <1>1, <1>2 DEF StackIsPath
<1>6. PathReaches'
  <2>1. ASSUME NEW i \in DOMAIN stk', NEW j \in DOMAIN stk', NEW C \in SUBSET Nodes,
               i < j, Closed(succ, C),
               \A u \in Nodes : Edge(succ, stk'[i][1], u) => u \in C
        PROVE  stk'[j][1] \in C
    <3>1. i \in DOMAIN stk /\ j \in DOMAIN stk
          /\ stk'[i][1] = stk[i][1] /\ stk'[j][1] = stk[j][1]
      BY <1>1, <1>2
    <3>. QED
      BY <2>1, <3>1 DEF PathReaches
  <2>. QED
    BY <1>1, <2>1 DEF PathReaches
<1>7. BlackClosed' /\ BlackSorted'
  BY <1>1 DEF BlackClosed, BlackSorted
<1>8. Top' = <<v, k + 1>> /\ stk' # <<>>
  BY <1>1, EmptySeq DEF Top
<1>. QED
  BY <1>3, <1>4, <1>5, <1>6, <1>7, <1>8

\* Of the frames below the top nothing changes; the top has passed the k-th
\* successor, and the ones before it are black.
LEMMA AdvancedPassed ==
  ASSUME IInv, NEW v \in Nat, NEW k \in Nat, Followed(v, k), NEW i \in 1..Len(stk)
  PROVE  /\ Advanced[i][2] - 1 <= Len(succ[Advanced[i][1]])
         /\ \A j \in 1..(Advanced[i][2] - 2) : color[succ[Advanced[i][1]][j]] = 2
<1>1. CASE i = Len(stk)
  BY <1>1 DEF Followed
<1>2. CASE i \in 1..(Len(stk) - 1)
  <2>1. Advanced[i] = stk[i] /\ i \in DOMAIN stk
    BY <1>2 DEF Followed
  <2>. QED
    BY <2>1 DEF IInv, SearchInv, PassedDone
<1>3. Len(stk) \in Nat \ {0}
  BY DEF Followed
<1>. QED
  BY <1>1, <1>2, <1>3

\* A black successor: the top frame goes on.
LEMMA FollowBlack ==
  ASSUME IInv, NEW v \in Nat, NEW k \in Nat, Followed(v, k),
         stk' = Advanced, color' = color, verdict' = verdict, color[succ[v][k]] = 2
  PROVE  IInv'
<1>. USE DEF IInv, SearchInv
<1>1. TypeOK'
  BY DEF TypeOK, Followed, Frames
<1>2. Top' = <<v, k + 1>> /\ OnStack' = OnStack /\ stk' # <<>>
  BY AdvancedKeeps
<1>3. PassedDone'
  <2>1. \A j \in 1..k : color[succ[v][j]] = 2
    BY DEF Followed
  <2>2. DOMAIN stk' = 1..Len(stk) /\ succ' = succ
    BY DEF Followed
  <2>3. \A i \in DOMAIN stk' :
          /\ stk'[i][2] - 1 <= Len(succ'[stk'[i][1]])
          /\ \A j \in 1..(stk'[i][2] - 2) : color'[succ'[stk'[i][1]][j]] = 2
    BY <2>2, AdvancedPassed
  <2>. QED
    BY <1>2, <2>1, <2>2, <2>3 DEF PassedDone
<1>4. StartPassed'
  BY <1>2 DEF StartPassed, Followed
<1>. QED
  BY <1>1, <1>3, <1>4, AdvancedKeeps

\* A grey successor: the cycle is found.
LEMMA FollowGrey ==
  ASSUME IInv, NEW v \in Nat, NEW k \in Nat, Followed(v, k),
         stk' = Advanced, color' = color, verdict' = "cycle", color[succ[v][k]] = 1
  PROVE  IInv'
<1>. USE DEF IInv, SearchInv
<1>1. TypeOK'
  BY DEF TypeOK, Followed, Frames
<1>2. Top' = <<v, k + 1>> /\ OnStack' = OnStack /\ stk' # <<>>
  BY AdvancedKeeps
<1>3. PassedDone'
  <2>1. ~Searching'
    BY DEF Searching
  <2>2. DOMAIN stk' = 1..Len(stk) /\ succ' = succ
    BY DEF Followed
  <2>3. \A i \in DOMAIN stk' :
          /\ stk'[i][2] - 1 <= Len(succ'[stk'[i][1]])
          /\ \A j \in 1..(stk'[i][2] - 2) : color'[succ'[stk'[i][1]][j]] = 2
    BY <2>2, AdvancedPassed
  <2>. QED
    BY <2>1, <2>3 DEF PassedDone
<1>4. StartPassed'
  <2>1. Reported' = succ[v][k]
    BY <1>2 DEF Reported, Followed
  <2>2. succ[v][k] \in OnStack
    BY DEF GreyIsStack, Followed
  <2>. QED
    BY <1>2, <2>1, <2>2 DEF StartPassed, Followed
<1>. QED
  BY <1>1, <1>3, <1>4, AdvancedKeeps

\* The white node next turns grey and is pushed.
Opened(next) ==
  /\ color[next] = 0 /\ verdict' = verdict
  /\ color' = [color EXCEPT ![next] = 1]
  /\ stk' = Append(Advanced, Frame(next))

\* A white successor: it turns grey and its frame is pushed, which extends the
\* path by the edge just followed.
LEMMA FollowWhite ==
  ASSUME IInv, NEW v \in Nat, NEW k \in Nat, Followed(v, k), Opened(succ[v][k])
  PROVE  IInv'
<1>. DEFINE n == Len(stk)
<1>. DEFINE next == succ[v][k]
<1>0. /\ TypeOK /\ GreyIsStack /\ StackIsPath /\ PathReaches /\ PassedDone
      /\ BlackClosed /\ BlackSorted /\ StartPassed
  BY DEF IInv, SearchInv
<1>1. /\ n \in Nat \ {0} /\ DOMAIN stk = 1..n
      /\ next \in Nodes /\ v \in Nodes /\ color[v] = 1
      /\ Edge(succ, v, next)
      /\ stk[n] = <<v, k>> /\ verdict = "none" /\ stk # <<>>
      /\ Nodes' = Nodes /\ succ' = succ /\ start' = start /\ verdict' = verdict
      /\ color[next] = 0
  BY DEF Followed, Opened
<1>2. color \in [Nodes -> 0..2] /\ \A w \in Nodes : color'[w] = IF w = next THEN 1 ELSE color[w]
  BY <1>0, <1>1 DEF TypeOK, Opened
<1>c. color' \in [Nodes -> 0..2]
  <2>1. color' = [color EXCEPT ![next] = 1]
    BY DEF Opened
  <2>. QED
    BY <1>1, <1>2, <2>1
<1>3. <<next, 1>> \in Frames
  BY <1>1, CycleCheckAssumption DEF Frames
<1>4. /\ stk' \in Seq(Frames) /\ Len(stk') = n + 1 /\ DOMAIN stk' = 1..(n + 1)
      /\ \A i \in 1..n : stk'[i] = Advanced[i]
      /\ stk'[n + 1] = <<next, 1>>
  <2>1. Advanced \in Seq(Frames) /\ Len(Advanced) = n
    BY DEF Followed
  <2>2. stk' = Append(Advanced, <<next, 1>>)
    BY DEF Frame, Opened
  <2>3. /\ stk' \in Seq(Frames) /\ Len(stk') = n + 1
        /\ \A i \in 1..n : stk'[i] = Advanced[i]
        /\ stk'[n + 1] = <<next, 1>>
    BY <1>3, <2>1, <2>2, AppendProperties
  <2>. QED
    BY <2>3
<1>a. /\ \A i \in 1..(n - 1) : Advanced[i] = stk[i]
      /\ Advanced[n] = <<v, k + 1>> /\ k >= 1 /\ succ[v][k] = next
  BY DEF Followed
<1>. HIDE DEF n, next
<1>5. \A i \in 1..(n - 1) : stk'[i] = stk[i]
  BY <1>1, <1>4, <1>a
<1>6. stk'[n] = <<v, k + 1>>
  BY <1>1, <1>4, <1>a
<1>b. /\ n \in Nat \ {0} /\ n \in 1..n
      /\ \A i : i \in 1..(n + 1) <=> i \in 1..n \/ i = n + 1
      /\ \A i : i \in 1..n <=> i \in 1..(n - 1) \/ i = n
  BY <1>1
<1>7. \A i \in 1..n : stk'[i][1] = stk[i][1]
  <2>. TAKE i \in 1..n
  <2>1. CASE i \in 1..(n - 1)
    BY <1>5, <2>1
  <2>2. CASE i = n
    BY <1>1, <1>6, <2>2
  <2>. QED
    BY <1>b, <2>1, <2>2
<1>8. TypeOK'
  <2>1. color' \in [Nodes -> 0..2]
    BY <1>c
  <2>. QED
    BY <1>0, <1>1, <1>4, <2>1 DEF TypeOK, Frames
<1>9. \A i \in 1..n : stk[i][1] # next /\ stk[i][1] \in OnStack
  <2>1. \A i \in 1..n : stk[i][1] \in OnStack
    BY <1>1 DEF OnStack
  <2>. QED
    BY <1>0, <1>1, <2>1 DEF GreyIsStack
<1>10. GreyIsStack'
  <2>1. \A i, j \in 1..(n + 1) : stk'[i][1] = stk'[j][1] => i = j
    <3>. TAKE i, j \in 1..(n + 1)
    <3>1. CASE i \in 1..n /\ j \in 1..n
      BY <1>0, <1>1, <1>7, <3>1 DEF GreyIsStack
    <3>2. CASE i = n + 1 \/ j = n + 1
      <4>1. \A m \in 1..n : stk'[m][1] # stk'[n + 1][1]
        BY <1>4, <1>7, <1>9
      <4>. QED
        BY <1>1, <3>2, <4>1
    <3>. QED
      BY <1>1, <3>1, <3>2
  <2>2. OnStack' = OnStack \cup {next}
    <3>1. ASSUME NEW w \in OnStack' PROVE w \in OnStack \cup {next}
      <4>1. PICK i \in 1..(n + 1) : w = stk'[i][1]
        BY <1>4 DEF OnStack
      <4>2. i \in 1..n \/ i = n + 1
        BY <1>1
      <4>. QED
        BY <1>4, <1>7, <1>9, <4>1, <4>2
    <3>2. ASSUME NEW w \in OnStack PROVE w \in OnStack'
      <4>1. PICK i \in 1..n : w = stk[i][1]
        BY <1>1 DEF OnStack
      <4>2. i \in DOMAIN stk'
        BY <1>1, <1>4
      <4>. QED
        BY <1>7, <4>1, <4>2 DEF OnStack
    <3>3. next \in OnStack'
      <4>1. n + 1 \in DOMAIN stk' /\ stk'[n + 1][1] = next
        BY <1>1, <1>4
      <4>. QED
        BY <4>1 DEF OnStack
    <3>. QED
      BY <3>1, <3>2, <3>3
  <2>3. {w \in Nodes : color'[w] = 1} = {w \in Nodes : color[w] = 1} \cup {next}
    BY <1>1, <1>2
  <2>. QED
    BY <1>0, <1>1, <1>4, <2>1, <2>2, <2>3 DEF GreyIsStack
<1>11. StackIsPath'
  <2>1. ASSUME NEW i \in 1..n
        PROVE  stk'[i][2] > 1 /\ succ[stk'[i][1]][stk'[i][2] - 1] = stk'[i + 1][1]
    <3>1. CASE i = n
      BY <1>1, <1>4, <1>6, <1>a, <3>1
    <3>2. CASE i \in 1..(n - 1)
      <4>1. stk'[i] = stk[i] /\ i + 1 \in 1..n
        BY <1>1, <1>5, <3>2
      <4>. QED
        BY <1>0, <1>7, <3>2, <4>1 DEF StackIsPath, n
    <3>. QED
      BY <1>1, <3>1, <3>2
  <2>. QED
    BY <1>0, <1>1, <1>4, <2>1 DEF StackIsPath
<1>12. PathReaches'
  <2>1. ASSUME NEW i \in 1..(n + 1), NEW j \in 1..(n + 1), NEW C \in SUBSET Nodes,
               i < j, Closed(succ, C),
               \A u \in Nodes : Edge(succ, stk'[i][1], u) => u \in C
        PROVE  stk'[j][1] \in C
    <3>1. i \in 1..n /\ stk'[i][1] = stk[i][1]
      BY <1>1, <1>7, <2>1
    <3>2. CASE j \in 1..n
      BY <1>0, <1>1, <1>7, <2>1, <3>1, <3>2 DEF PathReaches
    <3>3. CASE j = n + 1 /\ i = n
      BY <1>1, <1>4, <1>6, <2>1, <3>3
    <3>4. CASE j = n + 1 /\ i < n
      <4>1. stk[n][1] \in C
        BY <1>0, <1>1, <2>1, <3>1, <3>4 DEF PathReaches
      <4>. QED
        BY <1>1, <1>4, <2>1, <3>4, <4>1 DEF Closed, Nodes
    <3>. QED
      BY <1>1, <3>1, <3>2, <3>3, <3>4
  <2>. QED
    BY <1>0, <1>1, <1>4, <2>1 DEF PathReaches
<1>13. PassedDone'
  <2>1. \A w \in Nodes : color[w] = 2 => color'[w] = 2
    BY <1>1, <1>2
  <2>2. ASSUME NEW i \in 1..n
        PROVE  /\ stk'[i][2] - 1 <= Len(succ[stk'[i][1]])
               /\ \A j \in 1..(stk'[i][2] - 2) : color'[succ[stk'[i][1]][j]] = 2
    <3>1. /\ stk'[i] = Advanced[i] /\ stk'[i][2] - 1 <= Len(succ[stk'[i][1]])
          /\ \A j \in 1..(stk'[i][2] - 2) : color[succ[stk'[i][1]][j]] = 2
      BY <1>4, AdvancedPassed DEF n
    <3>2. stk'[i][1] \in Nodes /\ stk'[i][2] \in Nat
      BY <1>1, <1>4, <3>1, ElementOfSeq DEF Frames
    <3>3. succ[stk'[i][1]] \in Seq(Nodes) /\ Len(succ[stk'[i][1]]) \in Nat
      BY <1>0, <3>2, GraphType DEF TypeOK
    <3>4. ASSUME NEW j \in 1..(stk'[i][2] - 2)
          PROVE  succ[stk'[i][1]][j] \in Nodes
      BY <3>1, <3>2, <3>3, ElementOfSeq
    <3>. QED
      BY <2>1, <3>1, <3>4
  <2>3. /\ stk'[n + 1][2] - 1 <= Len(succ[stk'[n + 1][1]])
        /\ stk'[n + 1][2] = 1
    BY <1>0, <1>1, <1>4, GraphType DEF TypeOK
  <2>4. Top' = <<next, 1>>
    BY <1>4 DEF Top
  <2>5. \A i \in DOMAIN stk' :
          /\ stk'[i][2] - 1 <= Len(succ'[stk'[i][1]])
          /\ \A j \in 1..(stk'[i][2] - 2) : color'[succ'[stk'[i][1]][j]] = 2
    <3>. TAKE i \in DOMAIN stk'
    <3>1. CASE i \in 1..n
      BY <1>1, <2>2, <3>1
    <3>2. CASE i = n + 1
      BY <1>1, <2>3, <3>2
    <3>. QED
      BY <1>1, <1>4, <3>1, <3>2
  <2>. QED
    BY <1>0, <2>4, <2>5 DEF PassedDone
<1>14. BlackClosed' /\ BlackSorted'
  <2>1. \A w \in Nodes : color'[w] = 2 <=> color[w] = 2
    BY <1>1, <1>2
  <2>2. {w \in Nodes : color'[w] = 2} = {w \in Nodes : color[w] = 2}
    BY <2>1
  <2>. QED
    BY <1>0, <1>1, <2>1, <2>2 DEF BlackClosed, BlackSorted
<1>15. StartPassed'
  BY <1>0, <1>1, <1>2 DEF StartPassed
<1>. QED
  BY <1>8, <1>10, <1>11, <1>12, <1>13, <1>14, <1>15 DEF IInv, SearchInv

\* The three colours of the successor.
LEMMA FollowEdgeInv == IInv /\ FollowEdge => IInv'
<1>. SUFFICES ASSUME IInv, FollowEdge PROVE IInv'
  OBVIOUS
<1>1. PICK v, k \in Nat : Followed(v, k)
  BY FollowedTop
<1>2. Top[1] = v /\ Top[2] = k
  BY <1>1 DEF Followed
<1>3. CASE Grey(succ[v][k]) /\ verdict' = "cycle" /\ stk' = Advanced /\ color' = color
  BY <1>1, <1>3, FollowGrey DEF Grey
<1>4. CASE Opened(succ[v][k])
  BY <1>1, <1>4, FollowWhite
<1>5. CASE color[succ[v][k]] = 2 /\ stk' = Advanced /\ color' = color /\ verdict' = verdict
  BY <1>1, <1>5, FollowBlack
<1>. QED
  BY <1>2, <1>3, <1>4, <1>5 DEF FollowEdge, Opened

\* Every step of the search keeps the invariant.
LEMMA NextInv == IInv /\ [Next]_vars => IInv'
<1>1. CASE UNCHANGED vars
  <2>1. /\ succ' = succ /\ color' = color /\ start' = start /\ stk' = stk
        /\ verdict' = verdict /\ Nodes' = Nodes /\ Top' = Top
        /\ OnStack' = OnStack /\ (Searching' <=> Searching)
    BY <1>1 DEF vars, Nodes, Top, OnStack, Searching
  <2>2. Reported' = Reported
    BY <2>1 DEF Reported
  <2>. QED
    BY <2>1, <2>2, ZenonT(40) DEF IInv, TypeOK, SearchInv, GreyIsStack, StackIsPath,
       PathReaches, PassedDone, BlackClosed, BlackSorted, StartPassed
<1>. QED
  BY <1>1, SkipStartInv, OpenStartInv, FollowEdgeInv, RetreatInv, AcceptInv DEF Next

-----------------------------------------------------------------------------
\* When every node is black there is no cycle: a set of nodes of which none can
\* come first would have a first one.
LEMMA AcceptedRight ==
  ASSUME IInv, verdict = "acyclic"
  PROVE  ~Cyclic(succ)
<1>1. \A v \in Nodes : color[v] = 2
  BY DEF IInv, SearchInv, StartPassed
<1>2. BlackSorted
  BY DEF IInv, SearchInv
<1>. QED
  BY <1>1, <1>2 DEF BlackSorted, Cyclic, Nodes

\* The node a cycle is reported at is on the stack, so the path from it to the
\* top and the edge just followed are a cycle of the graph.
LEMMA ReportedRight ==
  ASSUME IInv, verdict = "cycle"
  PROVE  Cyclic(succ) /\ OnCycle(succ, Reported)
<1>. DEFINE n == Len(stk)
<1>. DEFINE top == stk[n][1]
<1>1. /\ succ \in Graphs /\ stk \in Seq(Frames) /\ stk # <<>>
      /\ Top[2] > 1 /\ Reported \in OnStack
      /\ StackIsPath /\ PathReaches /\ PassedDone
  BY DEF IInv, SearchInv, TypeOK, StartPassed, Frames
<1>2. /\ n \in Nat \ {0} /\ DOMAIN stk = 1..n
      /\ \A i \in 1..n : stk[i] \in Frames
      /\ Top = stk[n]
  BY <1>1, PoppedType
<1>3. \A i \in 1..n : stk[i][1] \in Nodes /\ stk[i][2] \in Nat
  BY <1>2 DEF Frames
<1>. HIDE DEF n
<1>4. PICK m \in 1..n : Reported = stk[m][1]
  BY <1>1, <1>2 DEF OnStack
<1>5. \A i \in 1..n : stk[i][2] - 1 <= Len(succ[stk[i][1]])
  BY <1>1, <1>2 DEF PassedDone
<1>6. Edge(succ, top, Reported)
  <2>1. Reported = succ[top][stk[n][2] - 1] /\ n \in 1..n
    BY <1>2 DEF Reported
  <2>2. stk[n][2] - 1 \in 1..Len(succ[top])
    BY <1>1, <1>2, <1>3, <1>5, <2>1, GraphType
  <2>. QED
    BY <1>1, <1>3, <2>1, <2>2, EdgeAt
<1>7. \A i \in 1..(n - 1) : Edge(succ, stk[i][1], stk[i + 1][1])
  <2>. TAKE i \in 1..(n - 1)
  <2>1. stk[i][2] > 1 /\ succ[stk[i][1]][stk[i][2] - 1] = stk[i + 1][1] /\ i \in 1..n
    BY <1>1, <1>2 DEF StackIsPath, n
  <2>2. stk[i][1] \in Nodes /\ stk[i][2] \in Nat
        /\ stk[i][2] - 1 <= Len(succ[stk[i][1]])
    BY <1>3, <1>5, <2>1
  <2>3. Len(succ[stk[i][1]]) \in Nat
    BY <1>1, <2>2, GraphType
  <2>4. stk[i][2] - 1 \in 1..Len(succ[stk[i][1]])
    BY <2>1, <2>2, <2>3
  <2>. QED
    BY <1>1, <2>1, <2>2, <2>4, EdgeAt
<1>8. n \in 1..n /\ top \in Nodes
  BY <1>2, <1>3
<1>. HIDE DEF top
<1>9. Cyclic(succ)
  <2>. DEFINE C == {stk[i][1] : i \in m..n}
  <2>1. C \in SUBSET DOMAIN succ /\ Reported \in C
    BY <1>2, <1>3, <1>4 DEF Nodes
  <2>2. ASSUME NEW v \in C PROVE \E u \in C : Edge(succ, u, v)
    <3>1. PICK i \in m..n : v = stk[i][1]
      OBVIOUS
    <3>2. CASE i = m
      <4>1. top \in C
        BY <1>2, <1>4 DEF top
      <4>. QED
        BY <1>4, <1>6, <3>1, <3>2, <4>1
    <3>3. CASE i # m
      <4>1. i - 1 \in m..n /\ i - 1 \in 1..(n - 1) /\ (i - 1) + 1 = i
        BY <1>2, <3>3
      <4>2. Edge(succ, stk[i - 1][1], stk[i][1])
        BY <1>7, <4>1
      <4>. QED
        BY <3>1, <4>1, <4>2
    <3>. QED
      BY <3>2, <3>3
  <2>. QED
    BY <2>1, <2>2 DEF Cyclic
<1>10. OnCycle(succ, Reported)
  <2>1. ASSUME NEW C \in SUBSET Nodes, Closed(succ, C),
               \A u \in Nodes : Edge(succ, Reported, u) => u \in C
        PROVE  Reported \in C
    <3>1. Reported \in Nodes
      BY <1>3, <1>4
    <3>2. CASE m = n
      BY <1>4, <1>6, <2>1, <3>1, <3>2 DEF top
    <3>3. CASE m # n
      <4>1. top \in C
        BY <1>1, <1>2, <1>4, <1>8, <2>1, <3>3 DEF PathReaches, top
      <4>. QED
        BY <1>6, <2>1, <3>1, <4>1 DEF Closed, Nodes
    <3>. QED
      BY <3>2, <3>3
  <2>. QED
    BY <2>1 DEF OnCycle, Nodes
<1>. QED
  BY <1>9, <1>10

-----------------------------------------------------------------------------
\* The invariant holds of every search of check_for_cycles().
THEOREM SearchInductive == Spec => []IInv
<1>. QED
  BY InitInv, NextInv, PTL DEF Spec

\* Every variable of the search keeps its type: colours are 0, 1 or 2 and a frame
\* never points further than one past the last successor.
THEOREM SearchTyped == Spec => []TypeOK
<1>1. IInv => TypeOK
  BY DEF IInv
<1>. QED
  BY <1>1, SearchInductive, PTL

\* The stack holds the grey nodes and is a path; black nodes lead to black nodes
\* only, in an order.
THEOREM SearchInvariant == Spec => []SearchInv
<1>1. IInv => SearchInv
  BY DEF IInv
<1>. QED
  BY <1>1, SearchInductive, PTL

\* run() throws "cycle detected involving task" for graphs with a cycle and for
\* no other, and the task it names is on a cycle.
THEOREM VerdictCorrect == Spec => []VerdictRight
<1>1. IInv => VerdictRight
  BY AcceptedRight, ReportedRight DEF VerdictRight
<1>. QED
  BY <1>1, SearchInductive, PTL
=============================================================================

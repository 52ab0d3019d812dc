--------------------------- MODULE BaselineProofs ---------------------------
(***************************************************************************)
(* Proofs about BaselineGraph, and through it about BaselinePool, for any  *)
(* number of workers, any acyclic graphs and any bound on the dispatches.  *)
(* As in BaselinePool the deques are perfect sequences.                    *)
(***************************************************************************)
EXTENDS BaselineGraph, FiniteSetTheorems, SequenceTheorems, TLAPS

-----------------------------------------------------------------------------
(* What a step of the composition does to the pool.                        *)

Enqueues(p) ==
  /\ At(p, IF p \in Workers THEN "run" ELSE "idle")
  /\ \E x \in Tasks : Begin(p, x)
Rings(w) == At(w, "run") /\ Goto(w, "graph_notify") /\ UNCHANGED data
Leaves(w) == pc[w] \in {"run", "graph_notify"} /\ BodyReturns(w)

WorkerMoves(w) == Start(w) \/ Loop(w) \/ SpuriousWakeup(w) \/ Rings(w) \/ Leaves(w)
PoolMoves ==
  \/ \E w \in Workers : WorkerMoves(w)
  \/ \E p \in Threads : Enqueues(p)
  \/ PushGlobal(Main) \/ Notify(Main) \/ WaitAll \/ Destroy \/ Shutdown

-----------------------------------------------------------------------------
(* The inductive invariant of the pool.                                    *)

WorkerLabels ==
  {"pop", "global", "steal", "steal_cas", "taken", "run", "push", "notify", "graph_notify",
   "finish", "notify_done", "lock", "pred", "pred_bottom", "pred_top", "block", "asleep",
   "exit_check", "exited"}
ClientLabels ==
  {"idle", "push", "notify", "wait_pred", "wait_block", "wait_asleep", "stop_notify", "join",
   "destroyed"}
Labels(p) == IF p \in Workers THEN WorkerLabels ELSE ClientLabels
Labelled ==
  /\ pc \in [Threads -> WorkerLabels \cup ClientLabels]
  /\ \A p \in Threads : pc[p] \in Labels(p)

\* The places a submitted task can wait in, as boxes with contents: the hand of
\* a thread that enqueues, the global queue, the deques, the workers that took one.
Boxes == (({"hand"} \X Threads) \cup ({"deque", "taken"} \X Workers)) \cup {<<"global", 0>>}

Elements(s) == {s[i] : i \in DOMAIN s}
Content(b) ==
  CASE b[1] = "hand"   -> IF pc[b[2]] = "push" THEN {item[b[2]]} ELSE {}
    [] b[1] = "deque"  -> Elements(deque[b[2]])
    [] b[1] = "taken"  -> IF pc[b[2]] = "taken" THEN {task[b[2]]} ELSE {}
    [] b[1] = "global" -> Elements(global)

Contents == UNION {Content(b) : b \in Boxes}
Disjoint == \A b, c \in Boxes : b # c => Content(b) \cap Content(c) = {}
Submitted == {x \in Tasks : status[x] = "submitted"}

Injective(s) == \A i, j \in DOMAIN s : s[i] = s[j] => i = j
Unrepeated == Injective(global) /\ \A w \in Workers : Injective(deque[w])

\* The submitted tasks are the contents of the boxes, each in one of them, once.
Placed == Disjoint /\ Unrepeated /\ Contents = Submitted

\* A worker that executes has a task of its own, running or just finished.
Executing(w) == pc[w] \in {"run", "push", "notify", "graph_notify", "finish"}
Working ==
  /\ \A w \in Workers : Executing(w) =>
       /\ task[w] \in Tasks
       /\ status[task[w]] = IF pc[w] = "finish" THEN "finished" ELSE "running"
  /\ \A v, w \in Workers :
       Executing(v) /\ Executing(w) /\ task[v] = task[w] => v = w

\* pending_ counts the tasks that were submitted and are not retired.
Unfinished == {x \in Tasks : status[x] \in {"submitted", "running", "finished"}}
Balanced == IsFiniteSet(Unfinished) /\ pending = Cardinality(Unfinished)

TasksInv == Placed /\ Working /\ Balanced
PoolInv == TypeOK /\ Labelled /\ Placed /\ Working /\ Balanced

-----------------------------------------------------------------------------
(* Threads, labels and steps.                                              *)

LEMMA ThreadFacts ==
  /\ 0 \in Workers /\ Workers \subseteq Threads /\ Clients = {Main}
  /\ Main \in Threads /\ Main \in Clients /\ Main \notin Workers
  /\ \A p \in Threads : p = Main <=> p \notin Workers
  /\ \A p \in Threads : p \in Clients <=> p \notin Workers
BY BaselineAssumption, GraphsAssumption DEF Workers, Threads

\* Every step of the composition is one of these, or does nothing to the pool.
LEMMA StepMoves ==
  ASSUME [Next]_system
  PROVE  PoolMoves \/ UNCHANGED vars
<1>0. Main \in Threads /\ Workers \subseteq Threads /\ Main \notin Workers
  BY ThreadFacts
<1>1. ASSUME NEW p \in Threads, NEW v, Dispatch(p, v),
             At(p, IF p \in Workers THEN "run" ELSE "idle")
      PROVE  PoolMoves
  <2>1. Enqueues(p)
    BY <1>1 DEF Dispatch, Enqueues
  <2>. QED
    BY <2>1 DEF PoolMoves
<1>2. ASSUME NEW w \in Workers, Worker(w) \/ PoolStep(SpuriousWakeup(w))
      PROVE  PoolMoves \/ UNCHANGED vars
  <2>1. CASE PoolStep(Start(w) \/ Loop(w)) \/ PoolStep(SpuriousWakeup(w))
    BY <2>1 DEF PoolStep, PoolMoves, WorkerMoves
  <2>2. CASE FnReturns(w)
    BY <2>2 DEF FnReturns
  <2>3. CASE Release(w)
    BY <1>0, <1>1, <2>3 DEF Release, Releasing
  <2>4. CASE Complete(w)
    <3>1. WorkerMoves(w)
      BY <2>4 DEF Complete, Releasing, LeaveBody, At, WorkerMoves, Rings, Leaves
    <3>. QED
      BY <3>1 DEF PoolMoves
  <2>5. CASE GraphNotify(w)
    <3>1. WorkerMoves(w)
      BY <2>5 DEF GraphNotify, LeaveBody, At, WorkerMoves, Leaves
    <3>. QED
      BY <3>1 DEF PoolMoves
  <2>. QED
    BY <1>2, <2>1, <2>2, <2>3, <2>4, <2>5 DEF Worker, Body
<1>3. CASE Run
  BY <1>0, <1>1, <1>3 DEF Run, RunStarts, RunLoop, RunReturns, Calls
<1>4. CASE Push \/ UsePool \/ PoolStep(Shutdown)
  BY <1>4 DEF Push, UsePool, PoolStep, PoolMoves
<1>5. CASE Wait
  BY <1>5 DEF Wait
<1>6. CASE UNCHANGED system
  BY <1>6 DEF system
<1>. QED
  BY <1>2, <1>3, <1>4, <1>5, <1>6 DEF Next

\* A label may be given to a thread of its kind.
LEMMA GotoLabel ==
  ASSUME Labelled, NEW p \in Threads, NEW l \in Labels(p), Goto(p, l)
  PROVE  Labelled' /\ pc'[p] = l /\ \A q \in Threads \ {p} : pc'[q] = pc[q]
<1>1. pc' = [pc EXCEPT ![p] = l]
  BY DEF Goto
<1>2. l \in WorkerLabels \cup ClientLabels
  BY DEF Labels
<1>. QED
  BY <1>1, <1>2 DEF Labelled

\* Waking sleepers moves workers only, from cv_ back to its predicate.
LEMMA WakeLabel ==
  ASSUME Labelled, NEW S \in SUBSET Sleepers, NEW p \in Threads, NEW l \in Labels(p),
         p \notin S, pc' = [WakeAll(S) EXCEPT ![p] = l]
  PROVE  /\ Labelled' /\ pc'[p] = l
         /\ \A q \in Threads \ {p} : pc'[q] = IF q \in S THEN "lock" ELSE pc[q]
         /\ \A q \in S : q \in Workers /\ pc[q] = "asleep"
<1>1. \A q \in S : q \in Workers /\ pc[q] = "asleep"
  BY DEF Sleepers, At
<1>2. l \in WorkerLabels \cup ClientLabels
  BY DEF Labels
<1>3. WakeAll(S) \in [Threads -> WorkerLabels \cup ClientLabels]
  BY DEF WakeAll, WorkerLabels, Labelled
<1>4. \A q \in Threads : WakeAll(S)[q] = IF q \in S THEN "lock" ELSE pc[q]
  BY DEF WakeAll
<1>5. /\ pc' \in [Threads -> WorkerLabels \cup ClientLabels] /\ pc'[p] = l
      /\ \A q \in Threads \ {p} : pc'[q] = IF q \in S THEN "lock" ELSE pc[q]
  BY <1>2, <1>3, <1>4
<1>6. \A q \in Workers : "lock" \in Labels(q)
  BY DEF Labels, WorkerLabels
<1>7. Labelled'
  BY <1>1, <1>5, <1>6 DEF Labelled
<1>. QED
  BY <1>1, <1>5, <1>7

-----------------------------------------------------------------------------
(* Types.                                                                  *)

Statuses == {"new", "submitted", "running", "finished", "retired"}
DataTyped ==
  /\ pending \in Nat /\ stop \in BOOLEAN
  /\ global \in Seq(Tasks) /\ deque \in [Workers -> Seq(Tasks)] /\ top \in [Workers -> Nat]
  /\ item \in [Threads -> Tasks \cup {NoTask}] /\ task \in [Workers -> Tasks \cup {NoTask}]
  /\ scan \in [Workers -> SUBSET Workers]
  /\ victim \in [Workers -> Workers] /\ seen \in [Workers -> Int]
  /\ status \in [Tasks -> Statuses]

LEMMA TypeParts == TypeOK <=> DataTyped /\ DOMAIN pc = Threads
BY DEF TypeOK, DataTyped, Statuses

LEMMA DataKept == DataTyped /\ UNCHANGED data => DataTyped'
BY DEF DataTyped, data, queues, locals

LEMMA MarkType ==
  ASSUME DataTyped, NEW x, NEW s \in Statuses, Mark(x, s)
  PROVE  status' \in [Tasks -> Statuses]
BY DEF DataTyped, Mark

LEMMA DropType ==
  ASSUME DataTyped, NEW p \in Threads, Drop(p)
  PROVE  item' \in [Threads -> Tasks \cup {NoTask}]
BY DEF DataTyped, Drop

LEMMA GotType ==
  ASSUME DataTyped, NEW w \in Workers, NEW x \in Tasks, Got(w, x)
  PROVE  task' \in [Workers -> Tasks \cup {NoTask}]
BY DEF DataTyped, Got

\* Taking a task from a sequence: what is left and what was taken.
LEMMA Taken ==
  ASSUME NEW S, NEW q \in Seq(S), q # <<>>
  PROVE  /\ Len(q) \in Nat \ {0} /\ q[Len(q)] \in S /\ Head(q) \in S /\ Head(q) = q[1]
         /\ SubSeq(q, 1, Len(q) - 1) \in Seq(S) /\ Tail(q) \in Seq(S)
<1>1. Len(q) \in Nat \ {0}
  BY EmptySeq
<1>2. q[Len(q)] \in S /\ q[1] \in S
  BY <1>1, ElementOfSeq
<1>3. SubSeq(q, 1, Len(q) - 1) \in Seq(S)
  BY <1>1, <1>2, SubSeqProperties, ElementOfSeq
<1>4. Head(q) = q[1] /\ Tail(q) \in Seq(S)
  BY HeadTailProperties
<1>. QED
  BY <1>1, <1>2, <1>3, <1>4

\* A thread that enqueues has a task in hand.
LEMMA HandTyped ==
  ASSUME Placed, NEW p \in Threads, pc[p] = "push"
  PROVE  item[p] \in Tasks /\ status[item[p]] = "submitted"
<1>1. <<"hand", p>> \in Boxes /\ item[p] \in Content(<<"hand", p>>)
  BY DEF Boxes, Content
<1>. QED
  BY <1>1 DEF Placed, Contents, Submitted

\* A worker that is about to decrement pending_ still has an unfinished task.
LEMMA PendingPositive ==
  ASSUME PoolInv, NEW w \in Workers, pc[w] = "finish"
  PROVE  task[w] \in Unfinished /\ pending - 1 \in Nat
<1>1. task[w] \in Unfinished
  BY DEF PoolInv, Working, Executing, Unfinished
<1>2. pending \in Nat /\ pending # 0
  BY <1>1, FS_EmptySet, FS_CardinalityType DEF PoolInv, Balanced
<1>. QED
  BY <1>1, <1>2

\* enqueue() keeps the types.
LEMMA EnqueueData ==
  ASSUME PoolInv, DataTyped, NEW p \in Threads,
         \/ Enqueues(p) \/ Notify(p)
         \/ p \in Workers /\ PushOwn(p)
         \/ p \notin Workers /\ PushGlobal(p)
  PROVE  DataTyped'
<1>1. CASE Enqueues(p)
  <2>1. PICK x \in Tasks : Begin(p, x)
    BY <1>1 DEF Enqueues
  <2>2. /\ pending' = pending + 1 /\ item' = [item EXCEPT ![p] = x]
        /\ Mark(x, "submitted")
        /\ UNCHANGED <<stop, global, deque, top, task, scan, victim, seen>>
    BY <2>1 DEF Begin, Counted, queues
  <2>3. status' \in [Tasks -> Statuses] /\ item' \in [Threads -> Tasks \cup {NoTask}]
    BY <2>2, MarkType DEF Statuses, DataTyped
  <2>. QED
    BY <2>2, <2>3 DEF DataTyped
<1>2. CASE Notify(p)
  BY <1>2, DataKept DEF Notify
<1>3. CASE p \in Workers /\ PushOwn(p)
  <2>1. item[p] \in Tasks
    BY <1>3, HandTyped DEF PushOwn, At, PoolInv
  <2>2. Append(deque[p], item[p]) \in Seq(Tasks)
    BY <1>3, <2>1, AppendProperties DEF DataTyped
  <2>3. deque' \in [Workers -> Seq(Tasks)]
    BY <1>3, <2>2 DEF PushOwn, DataTyped
  <2>4. item' \in [Threads -> Tasks \cup {NoTask}]
    BY <1>3, DropType DEF PushOwn
  <2>. QED
    BY <1>3, <2>3, <2>4 DEF PushOwn, DataTyped
<1>4. CASE p \notin Workers /\ PushGlobal(p)
  <2>1. item[p] \in Tasks
    BY <1>4, HandTyped DEF PushGlobal, At, PoolInv
  <2>2. global' \in Seq(Tasks)
    BY <1>4, <2>1, AppendProperties DEF DataTyped, PushGlobal
  <2>3. item' \in [Threads -> Tasks \cup {NoTask}]
    BY <1>4, DropType DEF PushGlobal
  <2>. QED
    BY <1>4, <2>2, <2>3 DEF PushGlobal, DataTyped
<1>. QED
  BY <1>1, <1>2, <1>3, <1>4

\* Finding a task keeps the types.
LEMMA FindData ==
  ASSUME DataTyped, NEW w \in Workers, Find(w)
  PROVE  DataTyped'
<1>0. deque[w] \in Seq(Tasks) /\ w \in Threads
  BY ThreadFacts DEF DataTyped
<1>1. CASE PopOwn(w)
  <2>1. UNCHANGED <<pending, stop, global, item, scan, victim, seen, status>>
    BY <1>1 DEF PopOwn
  <2>2. CASE deque[w] # <<>>
    <3>1. /\ Got(w, deque[w][Len(deque[w])])
          /\ deque' = [deque EXCEPT ![w] = SubSeq(deque[w], 1, Len(deque[w]) - 1)]
          /\ top' = top \/ top' = [top EXCEPT ![w] = top[w] + 1]
      BY <1>1, <2>2 DEF PopOwn
    <3>2. task' \in [Workers -> Tasks \cup {NoTask}] /\ deque' \in [Workers -> Seq(Tasks)]
      BY <1>0, <2>2, <3>1, Taken, GotType DEF DataTyped
    <3>3. top' \in [Workers -> Nat]
      <4>1. top[w] + 1 \in Nat /\ top \in [Workers -> Nat]
        BY DEF DataTyped
      <4>. QED
        BY <3>1, <4>1
    <3>. QED
      BY <2>1, <3>2, <3>3 DEF DataTyped
  <2>3. CASE deque[w] = <<>>
    BY <1>1, <2>1, <2>3 DEF PopOwn, DataTyped
  <2>. QED
    BY <2>2, <2>3
<1>2. CASE PopGlobal(w)
  <2>1. UNCHANGED <<pending, stop, deque, top, item, victim, seen, status>>
    BY <1>2 DEF PopGlobal
  <2>2. CASE global # <<>>
    <3>1. Got(w, Head(global)) /\ global' = Tail(global) /\ scan' = scan
      BY <1>2, <2>2 DEF PopGlobal
    <3>2. task' \in [Workers -> Tasks \cup {NoTask}] /\ global' \in Seq(Tasks)
      BY <2>2, <3>1, Taken, GotType DEF DataTyped
    <3>. QED
      BY <2>1, <3>1, <3>2 DEF DataTyped
  <2>3. CASE global = <<>>
    <3>1. scan' = [scan EXCEPT ![w] = Workers \ {w}] /\ UNCHANGED <<task, global>>
      BY <1>2, <2>3 DEF PopGlobal
    <3>. QED
      BY <2>1, <3>1 DEF DataTyped
  <2>. QED
    BY <2>2, <2>3
<1>3. CASE StealLook(w)
  <2>1. PICK v \in scan[w] :
          /\ scan' = [scan EXCEPT ![w] = scan[w] \ {v}]
          /\ \/ /\ deque[v] # <<>>
                /\ item' = [item EXCEPT ![w] = Head(deque[v])]
                /\ victim' = [victim EXCEPT ![w] = v]
             \/ UNCHANGED <<item, victim>>
    BY <1>3 DEF StealLook
  <2>2. v \in Workers /\ deque[v] \in Seq(Tasks) /\ scan[w] \subseteq Workers
    BY DEF DataTyped
  <2>3. scan' \in [Workers -> SUBSET Workers]
    BY <2>1, <2>2 DEF DataTyped
  <2>4. deque[v] # <<>> => Head(deque[v]) \in Tasks
    BY <2>2, Taken
  <2>5. item' \in [Threads -> Tasks \cup {NoTask}]
    <3>1. CASE item' = [item EXCEPT ![w] = Head(deque[v])] /\ deque[v] # <<>>
      BY <1>0, <2>4, <3>1 DEF DataTyped
    <3>. QED
      BY <2>1, <3>1 DEF DataTyped
  <2>6. victim' \in [Workers -> Workers]
    BY <2>1, <2>2 DEF DataTyped
  <2>. QED
    BY <1>3, <2>3, <2>5, <2>6 DEF DataTyped, StealLook, queues
<1>4. CASE StealCas(w)
  <2>1. /\ victim' = [victim EXCEPT ![w] = 0] /\ Drop(w)
        /\ UNCHANGED <<pending, stop, global, seen, status>>
    BY <1>4 DEF StealCas
  <2>2. victim' \in [Workers -> Workers] /\ item' \in [Threads -> Tasks \cup {NoTask}]
    BY <1>0, <2>1, DropType, ThreadFacts DEF DataTyped
  <2>3. PICK v \in Workers : v = victim[w]
    BY DEF DataTyped
  <2>4. CASE OnTop(v, item[w])
    <3>1. /\ Got(w, item[w]) /\ deque' = [deque EXCEPT ![v] = Tail(deque[v])]
          /\ top' = [top EXCEPT ![v] = top[v] + 1] /\ scan' = [scan EXCEPT ![w] = {}]
      BY <1>4, <2>3, <2>4 DEF StealCas
    <3>2. Tail(deque[v]) \in Seq(Tasks) /\ item[w] \in Tasks
      BY <2>4, Taken DEF OnTop, DataTyped
    <3>3. task' \in [Workers -> Tasks \cup {NoTask}]
      BY <3>1, <3>2, GotType
    <3>4. deque' \in [Workers -> Seq(Tasks)]
      BY <3>1, <3>2 DEF DataTyped
    <3>5. top' \in [Workers -> Nat] /\ scan' \in [Workers -> SUBSET Workers]
      BY <3>1 DEF DataTyped
    <3>. QED
      BY <2>1, <2>2, <3>3, <3>4, <3>5 DEF DataTyped
  <2>5. CASE ~OnTop(v, item[w])
    BY <1>4, <2>1, <2>2, <2>3, <2>5 DEF StealCas, DataTyped
  <2>. QED
    BY <2>4, <2>5
<1>5. CASE StealGiveUp(w)
  BY <1>5, DataKept DEF StealGiveUp
<1>. QED
  BY <1>1, <1>2, <1>3, <1>4, <1>5 DEF Find

\* Executing a task keeps the types.
LEMMA ExecuteData ==
  ASSUME PoolInv, DataTyped, NEW w \in Workers,
         Start(w) \/ Rings(w) \/ Leaves(w) \/ Finish(w) \/ NotifyDone(w)
  PROVE  DataTyped'
<1>1. CASE Start(w) \/ Leaves(w)
  <2>1. status' \in [Tasks -> Statuses]
    BY <1>1, MarkType DEF Start, Leaves, BodyReturns, Statuses
  <2>. QED
    BY <1>1, <2>1 DEF Start, Leaves, BodyReturns, DataTyped, queues, locals
<1>2. CASE Finish(w)
  <2>1. status' \in [Tasks -> Statuses]
    BY <1>2, MarkType DEF Finish, Statuses
  <2>2. pending' \in Nat
    BY <1>2, PendingPositive DEF Finish, At
  <2>3. task' \in [Workers -> Tasks \cup {NoTask}]
    BY <1>2 DEF Finish, DataTyped
  <2>. QED
    BY <1>2, <2>1, <2>2, <2>3 DEF Finish, DataTyped, queues
<1>3. CASE Rings(w) \/ NotifyDone(w)
  BY <1>3, DataKept DEF Rings, NotifyDone
<1>. QED
  BY <1>1, <1>2, <1>3

\* So do the predicate under global_mutex_, waiting and shutting down.
LEMMA ControlData ==
  ASSUME DataTyped,
         \/ \E w \in Workers : Idle(w) \/ SpuriousWakeup(w)
         \/ WaitAll \/ Destroy \/ Shutdown
  PROVE  DataTyped'
<1>1. ASSUME NEW w \in Workers, Idle(w) \/ SpuriousWakeup(w) PROVE DataTyped'
  <2>1. CASE PredBottom(w)
    <3>1. PICK v \in Workers : v = victim[w]
      BY DEF DataTyped
    <3>2. PICK b \in Bottoms(v) : seen' = [seen EXCEPT ![w] = b]
      BY <2>1, <3>1 DEF PredBottom
    <3>3. Len(deque[v]) \in Nat /\ top[v] \in Nat
      BY LenProperties DEF DataTyped
    <3>4. b \in Int
      BY <3>2, <3>3 DEF Bottoms
    <3>5. seen' \in [Workers -> Int]
      BY <3>2, <3>4 DEF DataTyped
    <3>. QED
      BY <2>1, <3>5 DEF PredBottom, DataTyped, queues
  <2>2. CASE PredTop(w)
    <3>1. PICK v \in Workers : v = victim[w]
      BY DEF DataTyped
    <3>2. PICK u : u = IF seen[w] <= top[v] /\ v < N - 1 THEN v + 1 ELSE 0
      OBVIOUS
    <3>3. victim' = [victim EXCEPT ![w] = u]
      BY <2>2, <3>1, <3>2 DEF PredTop
    <3>4. u \in Workers
      BY <3>2, BaselineAssumption, ThreadFacts DEF Workers
    <3>5. victim' \in [Workers -> Workers]
      BY <3>3, <3>4 DEF DataTyped
    <3>6. seen' \in [Workers -> Int]
      BY <2>2 DEF PredTop, DataTyped
    <3>. QED
      BY <2>2, <3>5, <3>6 DEF PredTop, DataTyped, queues
  <2>3. CASE Lock(w) \/ Pred(w) \/ Block(w) \/ ExitCheck(w) \/ SpuriousWakeup(w)
    BY <2>3, DataKept DEF Lock, Pred, Block, ExitCheck, SpuriousWakeup
  <2>. QED
    BY <1>1, <2>1, <2>2, <2>3 DEF Idle
<1>2. CASE WaitAll \/ Shutdown
  BY <1>2, DataKept DEF WaitAll, Shutdown
<1>3. CASE Destroy
  BY <1>3 DEF Destroy, DataTyped, queues, locals
<1>. QED
  BY <1>1, <1>2, <1>3

\* Every step keeps the types.
LEMMA DataStep ==
  ASSUME PoolInv, PoolMoves
  PROVE  DataTyped'
<1>0. DataTyped
  BY TypeParts DEF PoolInv
<1>1. ASSUME NEW w \in Workers, WorkerMoves(w) PROVE DataTyped'
  BY <1>0, <1>1, ThreadFacts, EnqueueData, FindData, ExecuteData, ControlData
     DEF WorkerMoves, Loop
<1>. QED
  BY <1>0, <1>1, ThreadFacts, EnqueueData, ControlData DEF PoolMoves

-----------------------------------------------------------------------------
(* Labels.                                                                 *)

\* A step of a thread moves that thread only, unless it notifies.
LEMMA WorkerGoes ==
  ASSUME NEW w \in Workers,
         \/ Find(w) \/ Idle(w) \/ SpuriousWakeup(w) \/ PushOwn(w) \/ Enqueues(w)
         \/ Start(w) \/ Rings(w) \/ Leaves(w) \/ Finish(w)
  PROVE  pc' = pc \/ \E l \in Labels(w) : Goto(w, l)
<1>. SUFFICES pc' = pc \/ \E l \in WorkerLabels : Goto(w, l)
  BY DEF Labels
<1>1. CASE Find(w)
  BY <1>1 DEF Find, PopOwn, PopGlobal, StealLook, StealCas, StealGiveUp, Got, WorkerLabels
<1>2. CASE Idle(w) \/ SpuriousWakeup(w)
  <2>1. CASE PredTop(w)
    BY <2>1 DEF PredTop, WorkerLabels
  <2>2. CASE Lock(w) \/ Pred(w) \/ PredBottom(w) \/ Block(w) \/ ExitCheck(w) \/ SpuriousWakeup(w)
    BY <2>2 DEF Lock, Pred, PredBottom, Block, ExitCheck, SpuriousWakeup, WorkerLabels
  <2>. QED
    BY <1>2, <2>1, <2>2 DEF Idle
<1>3. CASE PushOwn(w) \/ Enqueues(w) \/ Start(w) \/ Rings(w) \/ Leaves(w) \/ Finish(w)
  BY <1>3 DEF PushOwn, Enqueues, Begin, Start, Rings, Leaves, BodyReturns, Finish, WorkerLabels
<1>. QED
  BY <1>1, <1>2, <1>3

LEMMA MainGoes ==
  ASSUME \/ Enqueues(Main) \/ PushGlobal(Main) \/ WaitAll \/ Destroy
         \/ Shutdown /\ At(Main, "join")
  PROVE  \E l \in Labels(Main) : Goto(Main, l)
<1>. SUFFICES \E l \in ClientLabels : Goto(Main, l)
  BY ThreadFacts DEF Labels
<1>1. CASE Enqueues(Main) \/ PushGlobal(Main) \/ Destroy
  BY <1>1 DEF Enqueues, Begin, PushGlobal, Destroy, ClientLabels
<1>2. CASE WaitAll
  BY <1>2 DEF WaitAll, ClientLabels
<1>3. CASE Shutdown /\ At(Main, "join")
  BY <1>3 DEF Shutdown, At, ClientLabels
<1>. QED
  BY <1>1, <1>2, <1>3

\* The notifications.
LEMMA NotifyGoes ==
  ASSUME Labelled, NEW p \in Threads, Notify(p)
  PROVE  /\ Labelled' /\ pc[p] = "notify"
         /\ pc'[p] = IF p \in Workers THEN "run" ELSE "idle"
         /\ \A q \in Threads \ {p} :
              \/ pc'[q] = pc[q]
              \/ q \in Workers /\ pc[q] = "asleep" /\ pc'[q] = "lock"
         /\ Sleepers # {} => \E q \in Workers : pc[q] = "asleep" /\ pc'[q] = "lock"
<1>1. PICK l : l = IF p \in Workers THEN "run" ELSE "idle"
  OBVIOUS
<1>2. PICK S \in SUBSET Sleepers :
        pc' = [WakeAll(S) EXCEPT ![p] = l] /\ (Sleepers # {} => S # {})
  BY <1>1 DEF Notify
<1>3. p \notin S /\ pc[p] = "notify" /\ l \in Labels(p)
  BY <1>1, <1>2 DEF Notify, At, Sleepers, Labels, WorkerLabels, ClientLabels
<1>4. /\ Labelled' /\ pc'[p] = l
      /\ \A q \in Threads \ {p} : pc'[q] = IF q \in S THEN "lock" ELSE pc[q]
      /\ \A q \in S : q \in Workers /\ pc[q] = "asleep"
  BY <1>2, <1>3, WakeLabel
<1>5. S \subseteq Threads \ {p}
  BY <1>3, <1>4, ThreadFacts
<1>. QED
  BY <1>1, <1>2, <1>3, <1>4, <1>5

LEMMA StopGoes ==
  ASSUME Labelled, Shutdown, At(Main, "stop_notify")
  PROVE  /\ Labelled' /\ pc'[Main] = "join"
         /\ \A q \in Workers : IF pc[q] = "asleep" THEN pc'[q] = "lock" ELSE pc'[q] = pc[q]
<1>1. pc' = [WakeAll(Sleepers) EXCEPT ![Main] = "join"]
  BY DEF Shutdown, At
<1>2. Main \in Threads /\ Main \notin Sleepers /\ "join" \in Labels(Main)
  BY ThreadFacts DEF Sleepers, Labels, ClientLabels
<1>3. Sleepers \in SUBSET Sleepers
  OBVIOUS
<1>4. /\ Labelled' /\ pc'[Main] = "join"
      /\ \A q \in Threads \ {Main} : pc'[q] = IF q \in Sleepers THEN "lock" ELSE pc[q]
  BY <1>1, <1>2, <1>3, WakeLabel
<1>5. \A q \in Workers : q \in Sleepers <=> pc[q] = "asleep"
  BY DEF Sleepers, At
<1>. QED
  BY <1>4, <1>5, ThreadFacts

LEMMA DoneGoes ==
  ASSUME Labelled, NEW w \in Workers, NotifyDone(w)
  PROVE  /\ Labelled' /\ pc[w] = "notify_done" /\ pc'[w] = "pop"
         /\ pc'[Main] = IF pc[Main] = "wait_asleep" THEN "wait_pred" ELSE pc[Main]
         /\ \A q \in Workers \ {w} : pc'[q] = pc[q]
<1>1. w # Main /\ w \in Threads /\ Main \in Threads /\ Main \notin Workers /\ pc[w] = "notify_done"
      /\ Workers \subseteq Threads
  BY ThreadFacts DEF NotifyDone, At
<1>2. PICK m : m = IF pc[Main] = "wait_asleep" THEN "wait_pred" ELSE pc[Main]
  OBVIOUS
<1>3. pc' = [pc EXCEPT ![w] = "pop", ![Main] = m]
  BY <1>1, <1>2 DEF NotifyDone, Labelled
<1>4. m \in ClientLabels /\ "pop" \in WorkerLabels
  BY <1>1, <1>2 DEF Labelled, Labels, ClientLabels, WorkerLabels
<1>5. pc'[w] = "pop" /\ pc'[Main] = m /\ \A q \in Threads \ {w, Main} : pc'[q] = pc[q]
  BY <1>1, <1>3 DEF Labelled
<1>6. Labelled'
  <2>1. pc' \in [Threads -> WorkerLabels \cup ClientLabels]
    BY <1>3, <1>4 DEF Labelled
  <2>. QED
    BY <1>1, <1>4, <1>5, <2>1 DEF Labelled, Labels
<1>. QED
  BY <1>1, <1>2, <1>5, <1>6

\* Every step keeps the labels.
LEMMA LabelStep ==
  ASSUME Labelled, PoolMoves
  PROVE  Labelled'
<1>1. ASSUME NEW w \in Workers, WorkerMoves(w) PROVE Labelled'
  <2>0. w \in Threads
    BY ThreadFacts
  <2>1. CASE Notify(w) \/ NotifyDone(w)
    BY <2>0, <2>1, NotifyGoes, DoneGoes
  <2>2. CASE ~(Notify(w) \/ NotifyDone(w))
    <3>1. pc' = pc \/ \E l \in Labels(w) : Goto(w, l)
      BY <1>1, <2>2, WorkerGoes DEF WorkerMoves, Loop
    <3>. QED
      BY <2>0, <3>1, GotoLabel DEF Labelled
  <2>. QED
    BY <2>1, <2>2
<1>2. ASSUME NEW w \in Workers, Enqueues(w) PROVE Labelled'
  <2>1. pc' = pc \/ \E l \in Labels(w) : Goto(w, l)
    BY <1>2, WorkerGoes
  <2>. QED
    BY <2>1, ThreadFacts, GotoLabel DEF Labelled
<1>3. CASE \/ Enqueues(Main) \/ PushGlobal(Main) \/ WaitAll \/ Destroy
           \/ Shutdown /\ At(Main, "join")
  BY <1>3, MainGoes, GotoLabel, ThreadFacts
<1>4. CASE Notify(Main) \/ (Shutdown /\ At(Main, "stop_notify"))
  BY <1>4, NotifyGoes, StopGoes, ThreadFacts
<1>5. Shutdown => At(Main, "join") \/ At(Main, "stop_notify")
  BY DEF Shutdown
<1>. QED
  BY <1>1, <1>2, <1>3, <1>4, <1>5, ThreadFacts DEF PoolMoves

-----------------------------------------------------------------------------
(* Tasks move between boxes.                                               *)

Hand(p)     == <<"hand", p>>
OwnDeque(w) == <<"deque", w>>
TakenBox(w) == <<"taken", w>>
GlobalBox   == <<"global", 0>>

LEMMA BoxesAre ==
  /\ GlobalBox \in Boxes /\ \A p \in Threads : Hand(p) \in Boxes
  /\ \A w \in Workers : OwnDeque(w) \in Boxes /\ TakenBox(w) \in Boxes
  /\ \A b \in Boxes : \/ b = GlobalBox
                      \/ \E p \in Threads : b = Hand(p)
                      \/ \E w \in Workers : b \in {OwnDeque(w), TakenBox(w)}
  /\ \A p, q : Hand(p) \notin {GlobalBox, OwnDeque(q), TakenBox(q)}
  /\ \A p, q : OwnDeque(p) # TakenBox(q) /\ GlobalBox \notin {OwnDeque(p), TakenBox(p)}
  /\ \A p, q : p # q => /\ Hand(p) # Hand(q) /\ OwnDeque(p) # OwnDeque(q)
                        /\ TakenBox(p) # TakenBox(q)
BY DEF Boxes, Hand, GlobalBox, OwnDeque, TakenBox

LEMMA ContentIs ==
  ASSUME NEW p
  PROVE  /\ Content(Hand(p)) = IF pc[p] = "push" THEN {item[p]} ELSE {}
         /\ Content(OwnDeque(p)) = Elements(deque[p])
         /\ Content(TakenBox(p)) = IF pc[p] = "taken" THEN {task[p]} ELSE {}
         /\ Content(Hand(p))' = IF pc'[p] = "push" THEN {item'[p]} ELSE {}
         /\ Content(OwnDeque(p))' = Elements(deque'[p])
         /\ Content(TakenBox(p))' = IF pc'[p] = "taken" THEN {task'[p]} ELSE {}
         /\ Content(GlobalBox) = Elements(global) /\ Content(GlobalBox)' = Elements(global')
<1>1. /\ Content(Hand(p)) = IF pc[p] = "push" THEN {item[p]} ELSE {}
      /\ Content(Hand(p))' = IF pc'[p] = "push" THEN {item'[p]} ELSE {}
  BY DEF Content, Hand
<1>2. /\ Content(GlobalBox) = Elements(global) /\ Content(GlobalBox)' = Elements(global')
  BY DEF Content, GlobalBox, Elements
<1>3. /\ Content(OwnDeque(p)) = Elements(deque[p])
      /\ Content(OwnDeque(p))' = Elements(deque'[p])
  BY DEF Content, OwnDeque, Elements
<1>4. /\ Content(TakenBox(p)) = IF pc[p] = "taken" THEN {task[p]} ELSE {}
      /\ Content(TakenBox(p))' = IF pc'[p] = "taken" THEN {task'[p]} ELSE {}
  BY DEF Content, TakenBox
<1>. QED
  BY <1>1, <1>2, <1>3, <1>4

\* A task that moves from one box to another stays in one box.
LEMMA Moved ==
  ASSUME Disjoint, NEW from \in Boxes, NEW to \in Boxes, NEW x, from # to,
         x \in Content(from), Content(from)' = Content(from) \ {x},
         Content(to)' = Content(to) \cup {x},
         \A b \in Boxes \ {from, to} : Content(b)' = Content(b)
  PROVE  Disjoint' /\ Contents' = Contents
<1>1. \A b \in Boxes : x \in Content(b) => b = from
  BY DEF Disjoint
<1>2. \A b \in Boxes : \A y : y \in Content(b)' <=>
        \/ y = x /\ b = to
        \/ y # x /\ y \in Content(b)
  BY <1>1
<1>3. Disjoint'
  BY <1>2 DEF Disjoint
<1>4. Contents' = Contents
  BY <1>2 DEF Contents
<1>. QED
  BY <1>3, <1>4

\* A new task goes to one box.
LEMMA Added ==
  ASSUME Disjoint, NEW to \in Boxes, NEW x, x \notin Contents,
         Content(to)' = Content(to) \cup {x},
         \A b \in Boxes \ {to} : Content(b)' = Content(b)
  PROVE  Disjoint' /\ Contents' = Contents \cup {x}
<1>1. \A b \in Boxes : x \notin Content(b)
  BY DEF Contents
<1>2. \A b \in Boxes : \A y : y \in Content(b)' <=>
        (y = x /\ b = to) \/ (y # x /\ y \in Content(b))
  BY <1>1
<1>3. Disjoint'
  BY <1>2 DEF Disjoint
<1>4. Contents' = Contents \cup {x}
  BY <1>2 DEF Contents
<1>. QED
  BY <1>3, <1>4

\* A task that leaves its box is in none.
LEMMA Removed ==
  ASSUME Disjoint, NEW from \in Boxes, NEW x, x \in Content(from),
         Content(from)' = Content(from) \ {x},
         \A b \in Boxes \ {from} : Content(b)' = Content(b)
  PROVE  Disjoint' /\ Contents' = Contents \ {x}
<1>1. \A b \in Boxes : x \in Content(b) => b = from
  BY DEF Disjoint
<1>2. \A b \in Boxes : \A y : y \in Content(b)' <=> (y # x /\ y \in Content(b))
  BY <1>1
<1>3. Disjoint'
  BY <1>2 DEF Disjoint
<1>4. Contents' = Contents \ {x}
  BY <1>2 DEF Contents
<1>. QED
  BY <1>3, <1>4

\* What the three operations do to a sequence without repetitions.
LEMMA PushEnd ==
  ASSUME NEW S, NEW q \in Seq(S), NEW x \in S, Injective(q), x \notin Elements(q)
  PROVE  Injective(Append(q, x)) /\ Elements(Append(q, x)) = Elements(q) \cup {x}
<1>. DEFINE r == Append(q, x)
<1>1. /\ r \in Seq(S) /\ Len(r) = Len(q) + 1 /\ Len(q) \in Nat
      /\ DOMAIN q = 1..Len(q) /\ DOMAIN r = 1..(Len(q) + 1)
      /\ \A i \in 1..Len(q) : r[i] = q[i]
      /\ r[Len(q) + 1] = x
  BY AppendProperties, LenProperties
<1>. HIDE DEF r
<1>2. \A i : i \in DOMAIN r <=> i \in DOMAIN q \/ i = Len(q) + 1
  BY <1>1
<1>3. \A i \in DOMAIN q : r[i] = q[i] /\ q[i] # x
  BY <1>1 DEF Elements
<1>4. Injective(r)
  BY <1>1, <1>2, <1>3 DEF Injective
<1>5. Elements(r) = Elements(q) \cup {x}
  BY <1>1, <1>2, <1>3 DEF Elements
<1>. QED
  BY <1>4, <1>5 DEF r

LEMMA PopEnd ==
  ASSUME NEW S, NEW q \in Seq(S), q # <<>>, Injective(q)
  PROVE  LET r == SubSeq(q, 1, Len(q) - 1)
         IN  /\ Injective(r) /\ Elements(r) = Elements(q) \ {q[Len(q)]}
             /\ q[Len(q)] \in Elements(q)
<1>. DEFINE r == SubSeq(q, 1, Len(q) - 1)
<1>1. Len(q) \in Nat \ {0} /\ DOMAIN q = 1..Len(q) /\ \A i \in 1..Len(q) : q[i] \in S
  BY EmptySeq, ElementOfSeq
<1>2. /\ r \in Seq(S) /\ Len(r) = Len(q) - 1
      /\ \A i \in 1..(Len(q) - 1) : r[i] = q[i]
  BY <1>1, SubSeqProperties
<1>3. DOMAIN r = 1..(Len(q) - 1)
  BY <1>2
<1>. HIDE DEF r
<1>4. DOMAIN r = DOMAIN q \ {Len(q)} /\ Len(q) \in DOMAIN q
  BY <1>1, <1>3
<1>5. \A i \in DOMAIN r : i \in DOMAIN q /\ r[i] = q[i]
  BY <1>2, <1>3, <1>4
<1>6. \A i \in DOMAIN r : r[i] # q[Len(q)]
  BY <1>4, <1>5 DEF Injective
<1>7. Injective(r)
  BY <1>5 DEF Injective
<1>8. Elements(r) = Elements(q) \ {q[Len(q)]} /\ q[Len(q)] \in Elements(q)
  <2>1. \A y \in Elements(r) : y \in Elements(q) /\ y # q[Len(q)]
    BY <1>5, <1>6 DEF Elements
  <2>2. \A y \in Elements(q) : y # q[Len(q)] => y \in Elements(r)
    BY <1>4, <1>5 DEF Elements
  <2>3. q[Len(q)] \in Elements(q)
    BY <1>4 DEF Elements
  <2>. QED
    BY <2>1, <2>2, <2>3
<1>. QED
  BY <1>7, <1>8 DEF r

LEMMA PopFront ==
  ASSUME NEW S, NEW q \in Seq(S), q # <<>>, Injective(q)
  PROVE  /\ Injective(Tail(q)) /\ Elements(Tail(q)) = Elements(q) \ {Head(q)}
         /\ Head(q) \in Elements(q)
<1>. DEFINE r == Tail(q)
<1>1. Len(q) \in Nat \ {0} /\ DOMAIN q = 1..Len(q) /\ Head(q) = q[1]
  BY EmptySeq, Taken
<1>2. /\ r \in Seq(S) /\ Len(r) = Len(q) - 1
      /\ \A i \in 1..Len(r) : r[i] = q[i + 1]
  BY HeadTailProperties
<1>3. DOMAIN r = 1..(Len(q) - 1)
  BY <1>2
<1>. HIDE DEF r
<1>4. \A i \in DOMAIN r : i + 1 \in DOMAIN q /\ i + 1 # 1 /\ r[i] = q[i + 1]
  BY <1>1, <1>2, <1>3
<1>5. \A i \in DOMAIN q : i # 1 => i - 1 \in DOMAIN r /\ r[i - 1] = q[i]
  <2>. TAKE i \in DOMAIN q
  <2>1. i # 1 => i - 1 \in DOMAIN r /\ (i - 1) + 1 = i
    BY <1>1, <1>3
  <2>. QED
    BY <1>4, <2>1
<1>6. 1 \in DOMAIN q /\ Len(q) \in DOMAIN q /\ DOMAIN r = DOMAIN q \ {Len(q)}
  BY <1>1, <1>3
<1>7. Injective(r)
  <2>. SUFFICES ASSUME NEW i \in DOMAIN r, NEW j \in DOMAIN r, r[i] = r[j] PROVE i = j
    BY DEF Injective
  <2>1. i + 1 = j + 1
    BY <1>4 DEF Injective
  <2>. QED
    BY <1>1, <1>3, <2>1
<1>8. Elements(r) = Elements(q) \ {q[1]} /\ q[1] \in Elements(q)
  <2>1. \A y \in Elements(r) : y \in Elements(q) /\ y # q[1]
    BY <1>4, <1>6 DEF Elements, Injective
  <2>2. \A y \in Elements(q) : y # q[1] => y \in Elements(r)
    BY <1>5 DEF Elements
  <2>3. q[1] \in Elements(q)
    BY <1>6 DEF Elements
  <2>. QED
    BY <2>1, <2>2, <2>3
<1>. QED
  BY <1>1, <1>7, <1>8 DEF r

\* Which boxes a step of p leaves alone: those of the others, and its own hand
\* and its own "taken" when it neither comes from nor goes to those labels.
LEMMA OwnStep ==
  ASSUME Labelled, NEW p \in Threads, NEW l \in Labels(p), Goto(p, l),
         \A q \in Threads \ {p} : item'[q] = item[q],
         \A w \in Workers \ {p} : task'[w] = task[w]
  PROVE  /\ \A q \in Threads \ {p} : Content(Hand(q))' = Content(Hand(q))
         /\ \A w \in Workers \ {p} : Content(TakenBox(w))' = Content(TakenBox(w))
         /\ pc[p] # "push" /\ l # "push" => Content(Hand(p))' = Content(Hand(p))
         /\ pc[p] # "taken" /\ l # "taken" => Content(TakenBox(p))' = Content(TakenBox(p))
<1>1. pc'[p] = l /\ \A q \in Threads \ {p} : pc'[q] = pc[q]
  BY GotoLabel
<1>. QED
  BY <1>1, ContentIs, ThreadFacts

\* Steps after which every box has what it had.
LEMMA PlacedKept ==
  ASSUME Placed, \A b \in Boxes : Content(b)' = Content(b),
         UNCHANGED <<global, deque>>, Submitted' = Submitted
  PROVE  Placed'
<1>1. Disjoint' /\ Contents' = Contents
  BY DEF Placed, Disjoint, Contents
<1>2. Unrepeated'
  BY DEF Placed, Unrepeated
<1>. QED
  BY <1>1, <1>2 DEF Placed

LEMMA InvParts ==
  PoolInv => /\ TypeOK /\ Labelled /\ Placed /\ Working /\ Balanced /\ DataTyped
             /\ Disjoint /\ Unrepeated /\ Contents = Submitted
             /\ item \in [Threads -> Tasks \cup {NoTask}]
             /\ task \in [Workers -> Tasks \cup {NoTask}]
             /\ global \in Seq(Tasks) /\ deque \in [Workers -> Seq(Tasks)]
             /\ status \in [Tasks -> Statuses] /\ pending \in Nat
BY TypeParts DEF PoolInv, DataTyped, Placed

\* A task that nobody has submitted before is taken up.
LEMMA BeginPlaced ==
  ASSUME PoolInv, NEW p \in Threads, NEW x \in Tasks, Begin(p, x),
         pc[p] # "push", pc[p] # "taken"
  PROVE  Placed'
<1>1. /\ Labelled /\ Placed /\ item \in [Threads -> Tasks \cup {NoTask}]
      /\ status \in [Tasks -> Statuses]
  BY InvParts
<1>2. "push" \in Labels(p) /\ UNCHANGED <<global, deque, task>>
  BY DEF Labels, WorkerLabels, ClientLabels, Begin, queues
<1>3. item'[p] = x /\ \A q \in Threads \ {p} : item'[q] = item[q]
  BY <1>1 DEF Begin
<1>4. Goto(p, "push") /\ pc'[p] = "push"
  BY <1>1, <1>2, GotoLabel DEF Begin
<1>5. Content(Hand(p)) = {} /\ Content(Hand(p))' = Content(Hand(p)) \cup {x}
  BY <1>3, <1>4, ContentIs
<1>6. /\ \A q \in Threads \ {p} : Content(Hand(q))' = Content(Hand(q))
      /\ \A w \in Workers : Content(TakenBox(w))' = Content(TakenBox(w))
  BY <1>1, <1>2, <1>3, <1>4, OwnStep, ThreadFacts
<1>7. /\ \A w \in Workers : Content(OwnDeque(w))' = Content(OwnDeque(w))
      /\ Content(GlobalBox)' = Content(GlobalBox)
  BY <1>2, ContentIs
<1>8. \A b \in Boxes \ {Hand(p)} : Content(b)' = Content(b)
  BY <1>6, <1>7, BoxesAre
<1>9. x \notin Contents
  BY <1>1 DEF Begin, Placed, Submitted
<1>10. Disjoint' /\ Contents' = Contents \cup {x}
  BY <1>1, <1>5, <1>8, <1>9, BoxesAre, Added DEF Placed
<1>11. Submitted' = Submitted \cup {x}
  BY <1>1 DEF Begin, Mark, Submitted
<1>12. Unrepeated'
  BY <1>1, <1>2 DEF Placed, Unrepeated
<1>. QED
  BY <1>1, <1>10, <1>11, <1>12 DEF Placed

\* What a push does before one knows to which queue.
LEMMA PushFrom ==
  ASSUME PoolInv, NEW p \in Threads, NEW x, x = item[p], pc[p] = "push",
         Drop(p), Goto(p, "notify"), UNCHANGED <<task, status>>
  PROVE  /\ x \in Tasks /\ Content(Hand(p)) = {x} /\ Content(Hand(p))' = Content(Hand(p)) \ {x}
         /\ \A q \in Threads \ {p} : Content(Hand(q))' = Content(Hand(q))
         /\ \A w \in Workers : Content(TakenBox(w))' = Content(TakenBox(w))
         /\ Submitted' = Submitted
         /\ \A b \in Boxes \ {Hand(p)} : x \notin Content(b)
<1>1. Labelled /\ Disjoint /\ item \in [Threads -> Tasks \cup {NoTask}] /\ x \in Tasks
  BY InvParts, HandTyped
<1>2. "notify" \in Labels(p) /\ pc'[p] = "notify"
  BY <1>1, GotoLabel DEF Labels, WorkerLabels, ClientLabels
<1>3. \A q \in Threads \ {p} : item'[q] = item[q]
  BY <1>1 DEF Drop
<1>4. Content(Hand(p)) = {x} /\ Content(Hand(p))' = Content(Hand(p)) \ {x}
  BY <1>2, ContentIs
<1>5. /\ \A q \in Threads \ {p} : Content(Hand(q))' = Content(Hand(q))
      /\ \A w \in Workers : Content(TakenBox(w))' = Content(TakenBox(w))
  BY <1>1, <1>2, <1>3, OwnStep, ThreadFacts
<1>6. Submitted' = Submitted
  BY DEF Submitted
<1>7. \A b \in Boxes \ {Hand(p)} : x \notin Content(b)
  BY <1>1, <1>4, BoxesAre DEF Disjoint
<1>. QED
  BY <1>1, <1>4, <1>5, <1>6, <1>7

LEMMA PushOwnPlaced ==
  ASSUME PoolInv, NEW p \in Workers, PushOwn(p)
  PROVE  Placed'
<1>0. /\ p \in Threads /\ Disjoint /\ Unrepeated /\ Contents = Submitted
      /\ deque \in [Workers -> Seq(Tasks)]
  BY InvParts, ThreadFacts
<1>1. PICK x : x = item[p]
  OBVIOUS
<1>2. /\ pc[p] = "push" /\ Drop(p) /\ Goto(p, "notify") /\ UNCHANGED <<global, task, status>>
      /\ deque' = [deque EXCEPT ![p] = Append(deque[p], x)]
  BY <1>1 DEF PushOwn, At
<1>3. /\ x \in Tasks /\ Content(Hand(p)) = {x} /\ Content(Hand(p))' = Content(Hand(p)) \ {x}
      /\ \A q \in Threads \ {p} : Content(Hand(q))' = Content(Hand(q))
      /\ \A w \in Workers : Content(TakenBox(w))' = Content(TakenBox(w))
      /\ Submitted' = Submitted
      /\ \A b \in Boxes \ {Hand(p)} : x \notin Content(b)
  BY <1>0, <1>1, <1>2, PushFrom
<1>4. Injective(deque[p]) /\ x \notin Elements(deque[p]) /\ deque[p] \in Seq(Tasks)
  BY <1>0, <1>3, BoxesAre, ContentIs DEF Unrepeated
<1>5. deque'[p] = Append(deque[p], x) /\ \A w \in Workers \ {p} : deque'[w] = deque[w]
  BY <1>0, <1>2
<1>6. Injective(deque'[p]) /\ Elements(deque'[p]) = Elements(deque[p]) \cup {x}
  BY <1>3, <1>4, <1>5, PushEnd
<1>7. /\ Content(OwnDeque(p))' = Content(OwnDeque(p)) \cup {x}
      /\ \A w \in Workers \ {p} : Content(OwnDeque(w))' = Content(OwnDeque(w))
      /\ Content(GlobalBox)' = Content(GlobalBox)
  BY <1>2, <1>5, <1>6, ContentIs
<1>8. \A b \in Boxes \ {Hand(p), OwnDeque(p)} : Content(b)' = Content(b)
  BY <1>3, <1>7, BoxesAre
<1>9. Disjoint' /\ Contents' = Contents
  BY <1>0, <1>3, <1>7, <1>8, BoxesAre, Moved
<1>10. Unrepeated'
  BY <1>0, <1>2, <1>5, <1>6 DEF Unrepeated
<1>. QED
  BY <1>0, <1>3, <1>9, <1>10 DEF Placed

LEMMA PushGlobalPlaced ==
  ASSUME PoolInv, NEW p \in Threads, PushGlobal(p)
  PROVE  Placed'
<1>0. /\ Disjoint /\ Unrepeated /\ Contents = Submitted /\ global \in Seq(Tasks)
  BY InvParts, ThreadFacts
<1>1. PICK x : x = item[p]
  OBVIOUS
<1>2. /\ pc[p] = "push" /\ Drop(p) /\ Goto(p, "notify") /\ UNCHANGED <<deque, task, status>>
      /\ global' = Append(global, x)
  BY <1>1 DEF PushGlobal, At
<1>3. /\ x \in Tasks /\ Content(Hand(p)) = {x} /\ Content(Hand(p))' = Content(Hand(p)) \ {x}
      /\ \A q \in Threads \ {p} : Content(Hand(q))' = Content(Hand(q))
      /\ \A w \in Workers : Content(TakenBox(w))' = Content(TakenBox(w))
      /\ Submitted' = Submitted
      /\ \A b \in Boxes \ {Hand(p)} : x \notin Content(b)
  BY <1>0, <1>1, <1>2, PushFrom
<1>4. Injective(global) /\ x \notin Elements(global)
  BY <1>0, <1>3, BoxesAre, ContentIs DEF Unrepeated
<1>5. Injective(global') /\ Elements(global') = Elements(global) \cup {x}
  BY <1>0, <1>2, <1>3, <1>4, PushEnd
<1>6. /\ Content(GlobalBox)' = Content(GlobalBox) \cup {x}
      /\ \A w \in Workers : Content(OwnDeque(w))' = Content(OwnDeque(w))
  BY <1>2, <1>5, ContentIs
<1>7. \A b \in Boxes \ {Hand(p), GlobalBox} : Content(b)' = Content(b)
  BY <1>3, <1>6, BoxesAre
<1>8. Disjoint' /\ Contents' = Contents
  BY <1>0, <1>3, <1>6, <1>7, BoxesAre, Moved
<1>9. Unrepeated'
  BY <1>0, <1>2, <1>5 DEF Unrepeated
<1>. QED
  BY <1>0, <1>3, <1>8, <1>9 DEF Placed

\* A worker takes a task out of a box that is a queue.
LEMMA GotPlaced ==
  ASSUME PoolInv, NEW w \in Workers, NEW x \in Tasks, Got(w, x),
         pc[w] # "push", pc[w] # "taken",
         NEW from \in Boxes, \A v \in Workers : from # TakenBox(v),
         x \in Content(from), Content(from)' = Content(from) \ {x},
         GlobalBox # from => Content(GlobalBox)' = Content(GlobalBox),
         \A v \in Workers : OwnDeque(v) # from => Content(OwnDeque(v))' = Content(OwnDeque(v)),
         \A p \in Threads : from # Hand(p),
         \A q \in Threads \ {w} : item'[q] = item[q],
         Unrepeated', status' = status
  PROVE  Placed'
<1>1. /\ Labelled /\ Disjoint /\ Contents = Submitted /\ w \in Threads
      /\ task \in [Workers -> Tasks \cup {NoTask}]
  BY InvParts, ThreadFacts
<1>2. "taken" \in Labels(w) /\ Goto(w, "taken") /\ pc'[w] = "taken"
  BY <1>1, GotoLabel DEF Got, Labels, WorkerLabels
<1>3. task'[w] = x /\ \A v \in Workers \ {w} : task'[v] = task[v]
  BY <1>1 DEF Got
<1>4. /\ \A q \in Threads : Content(Hand(q))' = Content(Hand(q))
      /\ \A v \in Workers \ {w} : Content(TakenBox(v))' = Content(TakenBox(v))
  BY <1>1, <1>2, <1>3, OwnStep
<1>5. Content(TakenBox(w))' = Content(TakenBox(w)) \cup {x}
  BY <1>2, <1>3, ContentIs
<1>6. \A b \in Boxes \ {from, TakenBox(w)} : Content(b)' = Content(b)
  BY <1>4, BoxesAre
<1>7. Disjoint' /\ Contents' = Contents
  BY <1>1, <1>5, <1>6, BoxesAre, Moved
<1>8. Submitted' = Submitted
  BY DEF Submitted
<1>. QED
  BY <1>1, <1>7, <1>8 DEF Placed

\* pop() moves the last task of the own deque to the worker.
LEMMA PopOwnPlaced ==
  ASSUME PoolInv, NEW w \in Workers, PopOwn(w), deque[w] # <<>>
  PROVE  Placed'
<1>1. PICK x : x = deque[w][Len(deque[w])]
  OBVIOUS
<1>2. /\ Got(w, x) /\ deque' = [deque EXCEPT ![w] = SubSeq(deque[w], 1, Len(deque[w]) - 1)]
      /\ global' = global /\ item' = item /\ status' = status /\ pc[w] = "pop"
  BY <1>1 DEF PopOwn, At
<1>3. /\ deque \in [Workers -> Seq(Tasks)] /\ deque[w] \in Seq(Tasks)
      /\ Injective(deque[w]) /\ Unrepeated
  BY InvParts DEF Unrepeated
<1>4. x \in Tasks
  BY <1>1, <1>3, Taken
<1>5. /\ Injective(deque'[w]) /\ x \in Elements(deque[w])
      /\ Elements(deque'[w]) = Elements(deque[w]) \ {x}
  BY <1>1, <1>2, <1>3, PopEnd
<1>6. \A v \in Workers \ {w} : deque'[v] = deque[v]
  BY <1>2, <1>3
<1>7. Unrepeated'
  BY <1>2, <1>3, <1>5, <1>6 DEF Unrepeated
<1>8. x \in Content(OwnDeque(w)) /\ Content(OwnDeque(w))' = Content(OwnDeque(w)) \ {x}
  BY <1>5, ContentIs
<1>9. /\ Content(GlobalBox)' = Content(GlobalBox)
      /\ \A v \in Workers : OwnDeque(v) # OwnDeque(w) =>
           Content(OwnDeque(v))' = Content(OwnDeque(v))
  BY <1>2, <1>6, ContentIs
<1>. QED
  BY <1>2, <1>4, <1>7, <1>8, <1>9, BoxesAre, GotPlaced

\* The worker takes the front of the global queue.
LEMMA PopGlobalPlaced ==
  ASSUME PoolInv, NEW w \in Workers, PopGlobal(w), global # <<>>
  PROVE  Placed'
<1>1. PICK x : x = Head(global)
  OBVIOUS
<1>2. /\ Got(w, x) /\ global' = Tail(global)
      /\ deque' = deque /\ item' = item /\ status' = status /\ pc[w] = "global"
  BY <1>1 DEF PopGlobal, At
<1>3. global \in Seq(Tasks) /\ Injective(global) /\ Unrepeated
  BY InvParts DEF Unrepeated
<1>4. x \in Tasks
  BY <1>1, <1>3, Taken
<1>5. /\ Injective(global') /\ x \in Elements(global)
      /\ Elements(global') = Elements(global) \ {x}
  BY <1>1, <1>2, <1>3, PopFront
<1>6. Unrepeated'
  BY <1>2, <1>3, <1>5 DEF Unrepeated
<1>7. x \in Content(GlobalBox) /\ Content(GlobalBox)' = Content(GlobalBox) \ {x}
  BY <1>5, ContentIs
<1>8. \A v \in Workers : Content(OwnDeque(v))' = Content(OwnDeque(v))
  BY <1>2, ContentIs
<1>. QED
  BY <1>2, <1>4, <1>6, <1>7, <1>8, BoxesAre, GotPlaced

\* A successful CAS moves the victim's first task to the thief, whatever
\* happened since the thief read it.
LEMMA StealCasPlaced ==
  ASSUME PoolInv, NEW w \in Workers, StealCas(w), OnTop(victim[w], item[w])
  PROVE  Placed'
<1>1. PICK u \in Workers : u = victim[w]
  BY InvParts DEF DataTyped
<1>2. PICK x : x = item[w]
  OBVIOUS
<1>3. /\ Got(w, x) /\ deque' = [deque EXCEPT ![u] = Tail(deque[u])]
      /\ global' = global /\ status' = status /\ pc[w] = "steal_cas"
      /\ deque[u] # <<>> /\ x = Head(deque[u])
  BY <1>1, <1>2 DEF StealCas, At, OnTop
<1>4. /\ deque \in [Workers -> Seq(Tasks)] /\ deque[u] \in Seq(Tasks)
      /\ Injective(deque[u]) /\ Unrepeated
      /\ item \in [Threads -> Tasks \cup {NoTask}]
  BY InvParts DEF Unrepeated
<1>5. x \in Tasks /\ deque'[u] = Tail(deque[u])
  BY <1>3, <1>4, Taken
<1>6. /\ Injective(deque'[u]) /\ x \in Elements(deque[u])
      /\ Elements(deque'[u]) = Elements(deque[u]) \ {x}
  BY <1>3, <1>4, <1>5, PopFront
<1>7. \A v \in Workers \ {u} : deque'[v] = deque[v]
  BY <1>3, <1>4
<1>8. Unrepeated'
  BY <1>3, <1>4, <1>6, <1>7 DEF Unrepeated
<1>9. x \in Content(OwnDeque(u)) /\ Content(OwnDeque(u))' = Content(OwnDeque(u)) \ {x}
  BY <1>6, ContentIs
<1>10. /\ Content(GlobalBox)' = Content(GlobalBox)
       /\ \A v \in Workers : OwnDeque(v) # OwnDeque(u) =>
            Content(OwnDeque(v))' = Content(OwnDeque(v))
  BY <1>3, <1>7, ContentIs
<1>11. \A q \in Threads \ {w} : item'[q] = item[q]
  BY <1>4 DEF StealCas, Drop
<1>. QED
  BY <1>3, <1>5, <1>8, <1>9, <1>10, <1>11, BoxesAre, GotPlaced

\* The task a worker has taken leaves the boxes when it starts.
LEMMA StartPlaced ==
  ASSUME PoolInv, NEW w \in Workers, Start(w)
  PROVE  Placed' /\ task[w] \in Submitted
<1>1. /\ Labelled /\ Disjoint /\ Unrepeated /\ Contents = Submitted /\ w \in Threads
      /\ status \in [Tasks -> Statuses]
  BY InvParts, ThreadFacts
<1>2. PICK x : x = task[w]
  OBVIOUS
<1>3. /\ pc[w] = "taken" /\ Goto(w, "run") /\ "run" \in Labels(w)
      /\ UNCHANGED <<global, deque, item, task>> /\ status' = [status EXCEPT ![x] = "running"]
  BY <1>2 DEF Start, At, Mark, queues, locals, Labels, WorkerLabels
<1>4. pc'[w] = "run"
  BY <1>1, <1>3, GotoLabel
<1>5. Content(TakenBox(w)) = {x} /\ Content(TakenBox(w))' = Content(TakenBox(w)) \ {x}
  BY <1>2, <1>3, <1>4, ContentIs
<1>6. /\ \A q \in Threads : Content(Hand(q))' = Content(Hand(q))
      /\ \A v \in Workers \ {w} : Content(TakenBox(v))' = Content(TakenBox(v))
  BY <1>1, <1>3, OwnStep
<1>7. /\ \A v \in Workers : Content(OwnDeque(v))' = Content(OwnDeque(v))
      /\ Content(GlobalBox)' = Content(GlobalBox)
  BY <1>3, ContentIs
<1>8. \A b \in Boxes \ {TakenBox(w)} : Content(b)' = Content(b)
  BY <1>6, <1>7, BoxesAre
<1>9. Disjoint' /\ Contents' = Contents \ {x}
  BY <1>1, <1>5, <1>8, BoxesAre, Removed
<1>10. x \in Submitted
  BY <1>1, <1>5, BoxesAre DEF Contents
<1>11. Submitted' = Submitted \ {x}
  BY <1>1, <1>3, <1>10 DEF Submitted
<1>12. Unrepeated'
  BY <1>1, <1>3 DEF Unrepeated
<1>. QED
  BY <1>1, <1>2, <1>9, <1>10, <1>11, <1>12 DEF Placed

-----------------------------------------------------------------------------
(* Most steps move no task and no count.                                   *)

Same(p, l) == pc'[p] = l <=> pc[p] = l
Quiet ==
  /\ UNCHANGED <<pending, global, deque, task, status>>
  /\ \A p \in Threads :
       /\ Same(p, "push") /\ Same(p, "taken") /\ Same(p, "finish")
       /\ pc[p] = "push" => item'[p] = item[p]
  /\ \A w \in Workers : Executing(w)' <=> Executing(w)

\* They keep what the invariant says of tasks and counts.
LEMMA QuietInv ==
  ASSUME PoolInv, Quiet
  PROVE  Placed' /\ Working' /\ Balanced'
<1>0. Placed /\ Working /\ Balanced
  BY InvParts
<1>1. Placed'
  <2>1. /\ \A q \in Threads : Content(Hand(q))' = Content(Hand(q))
        /\ \A w \in Workers : /\ Content(TakenBox(w))' = Content(TakenBox(w))
                              /\ Content(OwnDeque(w))' = Content(OwnDeque(w))
        /\ Content(GlobalBox)' = Content(GlobalBox)
    <3>1. ASSUME NEW q \in Threads PROVE Content(Hand(q))' = Content(Hand(q))
      BY ContentIs DEF Quiet, Same
    <3>2. ASSUME NEW w \in Workers
          PROVE  /\ Content(TakenBox(w))' = Content(TakenBox(w))
                 /\ Content(OwnDeque(w))' = Content(OwnDeque(w))
      <4>1. w \in Threads
        BY ThreadFacts
      <4>2. (pc'[w] = "taken" <=> pc[w] = "taken") /\ task'[w] = task[w] /\ deque'[w] = deque[w]
        BY <4>1 DEF Quiet, Same
      <4>. QED
        BY <4>2, ContentIs
    <3>3. Content(GlobalBox)' = Content(GlobalBox)
      BY ContentIs DEF Quiet
    <3>. QED
      BY <3>1, <3>2, <3>3
  <2>2. \A b \in Boxes : Content(b)' = Content(b)
    BY <2>1, BoxesAre
  <2>. QED
    BY <1>0, <2>2, PlacedKept DEF Quiet, Submitted
<1>2. Working'
  BY <1>0, ThreadFacts DEF Quiet, Same, Working
<1>3. Balanced'
  BY <1>0 DEF Quiet, Balanced, Unfinished
<1>. QED
  BY <1>1, <1>2, <1>3

Busy == {"push", "taken", "run", "notify", "graph_notify", "finish"}

\* A thread that goes from a label to another, neither of which has to do with
\* a task, or both in the body of one.
LEMMA QuietGoto ==
  ASSUME Labelled, NEW p \in Threads, NEW l \in Labels(p), Goto(p, l),
         \/ pc[p] \notin Busy /\ l \notin Busy
         \/ pc[p] = "run" /\ l = "graph_notify",
         UNCHANGED <<pending, global, deque, task, status>>,
         \A q \in Threads \ {p} : item'[q] = item[q]
  PROVE  Quiet
<1>1. pc'[p] = l /\ \A q \in Threads \ {p} : pc'[q] = pc[q]
  BY GotoLabel
<1>2. \A q \in Threads \ {p} :
        /\ Same(q, "push") /\ Same(q, "taken") /\ Same(q, "finish")
        /\ q \in Workers => (Executing(q)' <=> Executing(q))
  BY <1>1 DEF Same, Executing
<1>3. /\ Same(p, "push") /\ Same(p, "taken") /\ Same(p, "finish")
      /\ Executing(p)' <=> Executing(p)
      /\ pc[p] # "push"
  BY <1>1 DEF Same, Executing, Busy
<1>. QED
  BY <1>2, <1>3, ThreadFacts DEF Quiet

LEMMA FindNothing ==
  ASSUME PoolInv, NEW w \in Workers,
         \/ PopOwn(w) /\ deque[w] = <<>>
         \/ PopGlobal(w) /\ global = <<>>
         \/ StealLook(w)
         \/ StealCas(w) /\ ~OnTop(victim[w], item[w])
         \/ StealGiveUp(w)
  PROVE  Quiet
<1>0. Labelled /\ w \in Threads /\ item \in [Threads -> Tasks \cup {NoTask}]
  BY InvParts, ThreadFacts
<1>1. UNCHANGED <<pending, global, deque, task, status>>
  BY DEF PopOwn, PopGlobal, StealLook, StealCas, StealGiveUp, data, queues, locals
<1>2. \A q \in Threads \ {w} : item'[q] = item[q]
  BY <1>0 DEF PopOwn, PopGlobal, StealLook, StealCas, StealGiveUp, data, locals, Drop
<1>3. pc[w] \in {"pop", "global", "steal", "steal_cas"}
  BY DEF PopOwn, PopGlobal, StealLook, StealCas, StealGiveUp, At
<1>4. \/ \E l \in {"global", "steal", "steal_cas", "lock"} : Goto(w, l)
      \/ pc' = pc /\ item' = item
  BY DEF PopOwn, PopGlobal, StealLook, StealCas, StealGiveUp
<1>5. ASSUME NEW l \in {"global", "steal", "steal_cas", "lock"}, Goto(w, l) PROVE Quiet
  <2>1. l \in Labels(w) /\ l \notin Busy /\ pc[w] \notin Busy
    BY <1>3 DEF Labels, WorkerLabels, Busy
  <2>. QED
    BY <1>0, <1>1, <1>2, <1>5, <2>1, QuietGoto
<1>6. CASE pc' = pc /\ item' = item
  BY <1>1, <1>6 DEF Quiet, Same, Executing
<1>. QED
  BY <1>4, <1>5, <1>6

LEMMA ControlQuiet ==
  ASSUME PoolInv,
         \/ \E w \in Workers : Idle(w) \/ SpuriousWakeup(w) \/ Rings(w)
         \/ WaitAll \/ Destroy \/ (Shutdown /\ At(Main, "join"))
  PROVE  Quiet
<1>0. Labelled
  BY InvParts
<1>1. ASSUME NEW w \in Workers, Idle(w) \/ SpuriousWakeup(w) PROVE Quiet
  <2>1. UNCHANGED <<pending, global, deque, task, status, item>>
    BY <1>1 DEF Idle, Lock, Pred, PredBottom, PredTop, Block, ExitCheck, SpuriousWakeup,
       data, queues, locals
  <2>2. pc[w] \in {"lock", "pred", "pred_bottom", "pred_top", "block", "asleep", "exit_check"}
    BY <1>1 DEF Idle, Lock, Pred, PredBottom, PredTop, Block, ExitCheck, SpuriousWakeup, At
  <2>3. \E l \in {"lock", "pred", "pred_bottom", "pred_top", "block", "asleep", "exit_check",
                  "exited", "pop"} : Goto(w, l)
    <3>1. CASE PredTop(w)
      BY <3>1 DEF PredTop
    <3>2. CASE Lock(w) \/ Pred(w) \/ PredBottom(w) \/ Block(w) \/ ExitCheck(w) \/ SpuriousWakeup(w)
      BY <3>2 DEF Lock, Pred, PredBottom, Block, ExitCheck, SpuriousWakeup
    <3>. QED
      BY <1>1, <3>1, <3>2 DEF Idle
  <2>4. PICK l \in WorkerLabels \ Busy : Goto(w, l)
    BY <2>3 DEF WorkerLabels, Busy
  <2>5. w \in Threads /\ l \in Labels(w) /\ pc[w] \notin Busy
    BY <2>2, <2>4, ThreadFacts DEF Labels, Busy
  <2>. QED
    BY <1>0, <2>1, <2>4, <2>5, QuietGoto
<1>2. ASSUME NEW w \in Workers, Rings(w) PROVE Quiet
  <2>1. /\ pc[w] = "run" /\ Goto(w, "graph_notify")
        /\ UNCHANGED <<pending, global, deque, task, status, item>>
    BY <1>2 DEF Rings, At, data, queues, locals
  <2>2. w \in Threads /\ "graph_notify" \in Labels(w)
    BY ThreadFacts DEF Labels, WorkerLabels
  <2>. QED
    BY <1>0, <2>1, <2>2, QuietGoto
<1>3. CASE WaitAll \/ Destroy \/ (Shutdown /\ At(Main, "join"))
  <2>1. UNCHANGED <<pending, global, deque, task, status, item>>
    BY <1>3 DEF WaitAll, Destroy, Shutdown, data, queues, locals
  <2>2. pc[Main] \in {"idle", "wait_pred", "wait_block", "wait_asleep", "join"}
    BY <1>3, ThreadFacts DEF WaitAll, Destroy, At
  <2>3. \E l \in {"idle", "wait_pred", "wait_block", "wait_asleep", "stop_notify", "destroyed"} :
          Goto(Main, l)
    <3>1. CASE WaitAll
      BY <3>1 DEF WaitAll
    <3>2. CASE Destroy \/ (Shutdown /\ At(Main, "join"))
      BY <3>2 DEF Destroy, Shutdown, At
    <3>. QED
      BY <1>3, <3>1, <3>2
  <2>4. PICK l \in ClientLabels \ Busy : Goto(Main, l)
    BY <2>3 DEF ClientLabels, Busy
  <2>5. Main \in Threads /\ l \in Labels(Main) /\ pc[Main] \notin Busy
    BY <2>2, <2>4, ThreadFacts DEF Labels, Busy
  <2>. QED
    BY <1>0, <2>1, <2>4, <2>5, QuietGoto
<1>. QED
  BY <1>1, <1>2, <1>3

\* And the three notifications, which move sleepers to their predicate.
LEMMA NotifyQuiet ==
  ASSUME PoolInv,
         \/ \E p \in Threads : Notify(p)
         \/ \E w \in Workers : NotifyDone(w)
         \/ Shutdown /\ At(Main, "stop_notify")
  PROVE  Quiet
<1>0. Labelled
  BY InvParts
<1>1. UNCHANGED <<pending, global, deque, task, status, item>>
  BY DEF Notify, NotifyDone, Shutdown, data, queues, locals
<1>. SUFFICES
       /\ \A p \in Threads : Same(p, "push") /\ Same(p, "taken") /\ Same(p, "finish")
       /\ \A w \in Workers : Executing(w)' <=> Executing(w)
  BY <1>1 DEF Quiet
<1>2. ASSUME NEW p \in Threads, Notify(p)
      PROVE  /\ \A q \in Threads : Same(q, "push") /\ Same(q, "taken") /\ Same(q, "finish")
             /\ \A w \in Workers : Executing(w)' <=> Executing(w)
  <2>1. /\ pc[p] = "notify" /\ pc'[p] = IF p \in Workers THEN "run" ELSE "idle"
        /\ \A q \in Threads \ {p} :
             \/ pc'[q] = pc[q]
             \/ q \in Workers /\ pc[q] = "asleep" /\ pc'[q] = "lock"
    BY <1>0, <1>2, NotifyGoes
  <2>. QED
    BY <2>1, ThreadFacts DEF Same, Executing
<1>3. ASSUME NEW w \in Workers, NotifyDone(w)
      PROVE  /\ \A q \in Threads : Same(q, "push") /\ Same(q, "taken") /\ Same(q, "finish")
             /\ \A u \in Workers : Executing(u)' <=> Executing(u)
  <2>1. /\ pc[w] = "notify_done" /\ pc'[w] = "pop"
        /\ pc'[Main] = IF pc[Main] = "wait_asleep" THEN "wait_pred" ELSE pc[Main]
        /\ \A q \in Workers \ {w} : pc'[q] = pc[q]
    BY <1>0, <1>3, DoneGoes
  <2>. QED
    BY <2>1, ThreadFacts DEF Same, Executing
<1>4. ASSUME Shutdown, At(Main, "stop_notify")
      PROVE  /\ \A q \in Threads : Same(q, "push") /\ Same(q, "taken") /\ Same(q, "finish")
             /\ \A u \in Workers : Executing(u)' <=> Executing(u)
  <2>1. /\ pc[Main] = "stop_notify" /\ pc'[Main] = "join"
        /\ \A q \in Workers : IF pc[q] = "asleep" THEN pc'[q] = "lock" ELSE pc'[q] = pc[q]
    BY <1>0, <1>4, StopGoes DEF At
  <2>. QED
    BY <2>1, ThreadFacts DEF Same, Executing
<1>. QED
  BY <1>2, <1>3, <1>4

-----------------------------------------------------------------------------
(* The steps that move a task.                                             *)

LEMMA GotoOthers ==
  ASSUME Labelled, NEW p \in Threads, NEW l \in Labels(p), Goto(p, l)
  PROVE  /\ pc'[p] = l /\ \A q \in Threads \ {p} : pc'[q] = pc[q]
         /\ \A w \in Workers \ {p} : Executing(w)' <=> Executing(w)
<1>1. pc'[p] = l /\ \A q \in Threads \ {p} : pc'[q] = pc[q]
  BY GotoLabel
<1>. QED
  BY <1>1, ThreadFacts DEF Executing

\* Submitting: pending_ is incremented and one more task is unfinished.
LEMMA EnqueuesInv ==
  ASSUME PoolInv, NEW p \in Threads, Enqueues(p)
  PROVE  Placed' /\ Working' /\ Balanced'
<1>0. /\ Labelled /\ Working /\ Balanced /\ status \in [Tasks -> Statuses] /\ pending \in Nat
  BY InvParts
<1>1. PICK x \in Tasks : Begin(p, x)
  BY DEF Enqueues
<1>2. pc[p] = IF p \in Workers THEN "run" ELSE "idle"
  BY DEF Enqueues, At
<1>3. /\ status[x] = "new" /\ status' = [status EXCEPT ![x] = "submitted"]
      /\ pending' = pending + 1 /\ Goto(p, "push") /\ "push" \in Labels(p) /\ task' = task
  BY <1>1 DEF Begin, Mark, Counted, Labels, WorkerLabels, ClientLabels
<1>4. /\ pc'[p] = "push" /\ \A q \in Threads \ {p} : pc'[q] = pc[q]
      /\ \A w \in Workers \ {p} : Executing(w)' <=> Executing(w)
  BY <1>0, <1>3, GotoOthers
<1>5. Placed'
  BY <1>1, <1>2, BeginPlaced
<1>6. Working'
  <2>1. \A w \in Workers : Executing(w)' => Executing(w)
    BY <1>2, <1>4 DEF Executing
  <2>2. ASSUME NEW w \in Workers, Executing(w)'
        PROVE  /\ task[w] \in Tasks
               /\ status'[task[w]] = IF pc'[w] = "finish" THEN "finished" ELSE "running"
    <3>1. /\ Executing(w) /\ task[w] \in Tasks
          /\ status[task[w]] = IF pc[w] = "finish" THEN "finished" ELSE "running"
      BY <1>0, <2>1, <2>2 DEF Working
    <3>2. status'[task[w]] = status[task[w]]
      BY <1>0, <1>3, <3>1
    <3>3. pc'[w] = "finish" <=> pc[w] = "finish"
      BY <1>2, <1>4, <2>2, ThreadFacts
    <3>. QED
      BY <3>1, <3>2, <3>3
  <2>. QED
    BY <1>0, <1>3, <2>1, <2>2 DEF Working
<1>7. Balanced'
  <2>1. Unfinished' = Unfinished \cup {x} /\ x \notin Unfinished
    BY <1>0, <1>3 DEF Unfinished, Statuses
  <2>. QED
    BY <1>0, <1>3, <2>1, FS_AddElement DEF Balanced
<1>. QED
  BY <1>5, <1>6, <1>7

\* Handing the task over to a queue.
LEMMA PushInv ==
  ASSUME PoolInv, NEW p \in Threads,
         (p \in Workers /\ PushOwn(p)) \/ PushGlobal(p)
  PROVE  Placed' /\ Working' /\ Balanced'
<1>0. Labelled /\ Working /\ Balanced
  BY InvParts
<1>1. /\ UNCHANGED <<pending, task, status>> /\ pc[p] = "push" /\ Goto(p, "notify")
      /\ "notify" \in Labels(p)
  BY DEF PushOwn, PushGlobal, At, Labels, WorkerLabels, ClientLabels
<1>2. /\ pc'[p] = "notify" /\ \A q \in Threads \ {p} : pc'[q] = pc[q]
      /\ \A w \in Workers \ {p} : Executing(w)' <=> Executing(w)
  BY <1>0, <1>1, GotoOthers
<1>3. Placed'
  BY PushOwnPlaced, PushGlobalPlaced
<1>4. Working'
  BY <1>0, <1>1, <1>2, ThreadFacts DEF Working, Executing
<1>5. Balanced'
  BY <1>0, <1>1 DEF Balanced, Unfinished
<1>. QED
  BY <1>3, <1>4, <1>5

\* Taking a task from the own deque, the global queue or another deque.
LEMMA TakeInv ==
  ASSUME PoolInv, NEW w \in Workers,
         \/ PopOwn(w) /\ deque[w] # <<>>
         \/ PopGlobal(w) /\ global # <<>>
         \/ StealCas(w) /\ OnTop(victim[w], item[w])
  PROVE  Placed' /\ Working' /\ Balanced'
<1>0. /\ Labelled /\ Working /\ Balanced /\ w \in Threads
      /\ task \in [Workers -> Tasks \cup {NoTask}]
  BY InvParts, ThreadFacts
<1>1. Placed'
  BY PopOwnPlaced, PopGlobalPlaced, StealCasPlaced
<1>2. /\ UNCHANGED <<pending, status>> /\ Goto(w, "taken") /\ "taken" \in Labels(w)
      /\ \A v \in Workers \ {w} : task'[v] = task[v]
  BY <1>0 DEF PopOwn, PopGlobal, StealCas, Got, Labels, WorkerLabels
<1>3. /\ pc'[w] = "taken" /\ \A q \in Threads \ {w} : pc'[q] = pc[q]
      /\ \A v \in Workers \ {w} : Executing(v)' <=> Executing(v)
  BY <1>0, <1>2, GotoOthers
<1>4. Working'
  <2>1. ~Executing(w)'
    BY <1>3 DEF Executing
  <2>2. \A v \in Workers : Executing(v)' =>
          Executing(v) /\ task'[v] = task[v] /\ pc'[v] = pc[v]
    BY <1>2, <1>3, <2>1, ThreadFacts
  <2>. QED
    BY <1>0, <1>2, <2>2 DEF Working
<1>5. Balanced'
  BY <1>0, <1>2 DEF Balanced, Unfinished
<1>. QED
  BY <1>1, <1>4, <1>5

\* The task a worker has taken starts: no other worker runs it.
LEMMA StartInv ==
  ASSUME PoolInv, NEW w \in Workers, Start(w)
  PROVE  Placed' /\ Working' /\ Balanced'
<1>0. /\ Labelled /\ Working /\ Balanced /\ w \in Threads /\ status \in [Tasks -> Statuses]
  BY InvParts, ThreadFacts
<1>1. PICK x : x = task[w]
  OBVIOUS
<1>2. /\ UNCHANGED <<pending, task>> /\ status' = [status EXCEPT ![x] = "running"]
      /\ Goto(w, "run") /\ "run" \in Labels(w)
  BY <1>1 DEF Start, Mark, queues, locals, Labels, WorkerLabels
<1>3. x \in Tasks /\ status[x] = "submitted"
  BY <1>1, StartPlaced DEF Submitted
<1>4. /\ pc'[w] = "run" /\ \A q \in Threads \ {w} : pc'[q] = pc[q]
      /\ \A v \in Workers \ {w} : Executing(v)' <=> Executing(v)
  BY <1>0, <1>2, GotoOthers
<1>5. Placed'
  BY StartPlaced
<1>6. Working'
  <2>1. ASSUME NEW v \in Workers \ {w}, Executing(v)
        PROVE  /\ task[v] \in Tasks /\ task[v] # x
               /\ status'[task[v]] = IF pc'[v] = "finish" THEN "finished" ELSE "running"
    BY <1>0, <1>2, <1>3, <1>4, <2>1, ThreadFacts DEF Working
  <2>2. status'[x] = "running"
    BY <1>0, <1>2, <1>3
  <2>. QED
    BY <1>0, <1>1, <1>2, <1>3, <1>4, <2>1, <2>2 DEF Working
<1>7. Balanced'
  <2>1. Unfinished' = Unfinished
    BY <1>0, <1>2, <1>3 DEF Unfinished
  <2>. QED
    BY <1>0, <1>2, <2>1 DEF Balanced
<1>. QED
  BY <1>5, <1>6, <1>7

\* The body of a task returns, and the worker comes back from it.
LEMMA EndInv ==
  ASSUME PoolInv, NEW w \in Workers, Leaves(w) \/ Finish(w)
  PROVE  Placed' /\ Working' /\ Balanced'
<1>0. /\ Labelled /\ Placed /\ Working /\ Balanced /\ w \in Threads
      /\ status \in [Tasks -> Statuses] /\ pending \in Nat
      /\ task \in [Workers -> Tasks \cup {NoTask}]
  BY InvParts, ThreadFacts
<1>1. PICK x : x = task[w]
  OBVIOUS
<1>2. /\ pc[w] \in {"run", "graph_notify", "finish"} /\ UNCHANGED <<global, deque, item>>
      /\ status' = [status EXCEPT ![x] = IF pc[w] = "finish" THEN "retired" ELSE "finished"]
      /\ pc[w] # "finish" => Leaves(w)
      /\ pc[w] = "finish" => Finish(w)
  BY <1>1 DEF Leaves, BodyReturns, Finish, At, Mark, queues, locals
<1>3. PICK l \in {"finish", "notify_done", "pop"} :
        /\ Goto(w, l) /\ l \in Labels(w)
        /\ pc[w] # "finish" <=> l = "finish"
  BY <1>2 DEF Leaves, BodyReturns, Finish, Labels, WorkerLabels
<1>4. /\ x \in Tasks /\ Executing(w)
      /\ status[x] = IF pc[w] = "finish" THEN "finished" ELSE "running"
  BY <1>0, <1>1, <1>2 DEF Working, Executing
<1>5. /\ pc'[w] = l /\ \A q \in Threads \ {w} : pc'[q] = pc[q]
      /\ \A v \in Workers \ {w} : Executing(v)' <=> Executing(v)
  BY <1>0, <1>3, GotoOthers
<1>6. \A v \in Workers \ {w} : task'[v] = task[v]
  BY <1>0, <1>2 DEF Leaves, BodyReturns, Finish, locals
<1>7. Placed'
  <2>1. /\ \A q \in Threads \ {w} : Content(Hand(q))' = Content(Hand(q))
        /\ \A v \in Workers \ {w} : Content(TakenBox(v))' = Content(TakenBox(v))
        /\ Content(Hand(w))' = Content(Hand(w))
        /\ Content(TakenBox(w))' = Content(TakenBox(w))
    <3>1. pc[w] \notin {"push", "taken"} /\ l \notin {"push", "taken"}
      BY <1>2
    <3>. QED
      BY <1>0, <1>2, <1>3, <1>6, <3>1, OwnStep
  <2>2. /\ \A v \in Workers : Content(OwnDeque(v))' = Content(OwnDeque(v))
        /\ Content(GlobalBox)' = Content(GlobalBox)
    BY <1>2, ContentIs
  <2>3. \A b \in Boxes : Content(b)' = Content(b)
    BY <2>1, <2>2, BoxesAre
  <2>4. Submitted' = Submitted
    BY <1>0, <1>2, <1>4 DEF Submitted
  <2>. QED
    BY <1>0, <1>2, <2>3, <2>4, PlacedKept
<1>8. Working'
  <2>1. ASSUME NEW v \in Workers \ {w}, Executing(v)
        PROVE  /\ task'[v] = task[v] /\ task[v] \in Tasks /\ task[v] # x
               /\ status'[task[v]] = IF pc'[v] = "finish" THEN "finished" ELSE "running"
    <3>1. task'[v] = task[v] /\ pc'[v] = pc[v]
      BY <1>5, <1>6, ThreadFacts
    <3>2. task[v] \in Tasks /\ task[v] # x
      BY <1>0, <1>1, <1>4, <2>1 DEF Working
    <3>3. status'[task[v]] = status[task[v]]
      BY <1>0, <1>2, <3>2
    <3>. QED
      BY <1>0, <2>1, <3>1, <3>2, <3>3 DEF Working
  <2>2. CASE pc[w] # "finish"
    <3>1. task'[w] = x /\ pc'[w] = "finish" /\ status'[x] = "finished"
      BY <1>0, <1>1, <1>2, <1>3, <1>4, <1>5, <2>2 DEF Leaves, BodyReturns, locals
    <3>. QED
      BY <1>0, <1>4, <1>5, <2>1, <3>1 DEF Working
  <2>3. CASE pc[w] = "finish"
    <3>1. ~Executing(w)'
      BY <1>3, <1>5, <2>3 DEF Executing
    <3>2. \A v \in Workers : Executing(v)' => v # w /\ Executing(v)
      BY <1>5, <3>1
    <3>. QED
      BY <1>0, <2>1, <3>2 DEF Working
  <2>. QED
    BY <2>2, <2>3
<1>9. Balanced'
  <2>1. CASE pc[w] # "finish"
    <3>1. Unfinished' = Unfinished /\ pending' = pending
      BY <1>0, <1>2, <1>4, <2>1 DEF Unfinished, Leaves, BodyReturns
    <3>. QED
      BY <1>0, <3>1 DEF Balanced
  <2>2. CASE pc[w] = "finish"
    <3>1. pending' = pending - 1
      BY <1>2, <2>2 DEF Finish
    <3>2. Unfinished' = Unfinished \ {x} /\ x \in Unfinished
      BY <1>0, <1>2, <1>4, <2>2 DEF Unfinished, Statuses
    <3>. QED
      BY <1>0, <3>1, <3>2, FS_RemoveElement DEF Balanced
  <2>. QED
    BY <2>1, <2>2
<1>. QED
  BY <1>7, <1>8, <1>9

-----------------------------------------------------------------------------
(* The invariant of the pool holds.                                        *)

LEMMA InitPool == Init => PoolInv
<1>. SUFFICES ASSUME Init PROVE PoolInv
  OBVIOUS
<1>1. \A p \in Threads : pc[p] \in {"pop", "idle"}
  BY DEF Init
<1>2. Labelled
  BY DEF Init, Labelled, Labels, WorkerLabels, ClientLabels
<1>3. DataTyped
  BY ThreadFacts DEF Init, DataTyped, Statuses
<1>4. TypeOK
  BY <1>3, TypeParts DEF Init
<1>5. \A b \in Boxes : Content(b) = {}
  <2>1. Elements(global) = {} /\ \A w \in Workers : Elements(deque[w]) = {}
    BY DEF Init, Elements
  <2>2. \A p \in Threads : Content(Hand(p)) = {}
    BY <1>1, ContentIs
  <2>3. Content(GlobalBox) = {} /\ \A w \in Workers : Content(OwnDeque(w)) = {}
    BY <2>1, ContentIs
  <2>4. \A w \in Workers : Content(TakenBox(w)) = {}
    <3>1. \A w \in Workers : pc[w] # "taken"
      BY <1>1, ThreadFacts
    <3>. QED
      BY <3>1, ContentIs
  <2>5. \A b \in Boxes : \/ b = GlobalBox
                         \/ \E p \in Threads : b = Hand(p)
                         \/ \E w \in Workers : b \in {OwnDeque(w), TakenBox(w)}
    BY BoxesAre
  <2>. QED
    BY <2>2, <2>3, <2>4, <2>5
<1>6. Placed
  <2>1. Disjoint /\ Contents = {}
    BY <1>5 DEF Disjoint, Contents
  <2>2. Submitted = {}
    BY DEF Init, Submitted
  <2>3. Unrepeated
    BY DEF Init, Unrepeated, Injective
  <2>. QED
    BY <2>1, <2>2, <2>3 DEF Placed
<1>7. Working
  BY <1>1, ThreadFacts DEF Working, Executing
<1>8. Balanced
  <2>1. Unfinished = {}
    BY DEF Init, Unfinished
  <2>. QED
    BY <2>1, FS_EmptySet DEF Init, Balanced
<1>. QED
  BY <1>2, <1>4, <1>6, <1>7, <1>8 DEF PoolInv

LEMMA PoolStepInv ==
  ASSUME PoolInv, PoolMoves
  PROVE  PoolInv'
<1>1. DataTyped' /\ Labelled'
  BY DataStep, LabelStep, InvParts
<1>2. TypeOK'
  BY <1>1 DEF TypeOK, DataTyped, Labelled, Statuses
<1>3. Quiet => TasksInv'
  BY QuietInv DEF TasksInv
<1>4. ASSUME NEW w \in Workers, WorkerMoves(w) PROVE TasksInv'
  <2>1. Find(w) => TasksInv'
    BY <1>3, TakeInv, FindNothing DEF Find, TasksInv
  <2>2. Start(w) \/ Leaves(w) \/ Finish(w) => TasksInv'
    BY StartInv, EndInv DEF TasksInv
  <2>3. Idle(w) \/ SpuriousWakeup(w) \/ Rings(w) => TasksInv'
    BY <1>3, ControlQuiet
  <2>4. Notify(w) \/ NotifyDone(w) => TasksInv'
    BY <1>3, NotifyQuiet, ThreadFacts
  <2>5. PushOwn(w) => TasksInv'
    BY PushInv, ThreadFacts DEF TasksInv
  <2>. QED
    BY <1>4, <2>1, <2>2, <2>3, <2>4, <2>5 DEF WorkerMoves, Loop
<1>5. (\E p \in Threads : Enqueues(p)) => TasksInv'
  BY EnqueuesInv DEF TasksInv
<1>6. PushGlobal(Main) \/ Notify(Main) => TasksInv'
  BY <1>3, PushInv, NotifyQuiet, ThreadFacts DEF TasksInv
<1>7. WaitAll \/ Destroy \/ Shutdown => TasksInv'
  <2>1. Shutdown => At(Main, "join") \/ At(Main, "stop_notify")
    BY DEF Shutdown
  <2>. QED
    BY <1>3, <2>1, ControlQuiet, NotifyQuiet
<1>8. TasksInv'
  BY <1>4, <1>5, <1>6, <1>7 DEF PoolMoves
<1>. QED
  BY <1>1, <1>2, <1>8 DEF PoolInv, TasksInv

LEMMA NextPool == PoolInv /\ [Next]_system => PoolInv'
<1>. SUFFICES ASSUME PoolInv, [Next]_system PROVE PoolInv'
  OBVIOUS
<1>1. PoolMoves => PoolInv'
  BY PoolStepInv
<1>2. ASSUME UNCHANGED vars PROVE PoolInv'
  <2>1. UNCHANGED <<pending, stop, global, deque, top, item, task, scan, victim, seen, status, pc>>
    BY <1>2 DEF vars, data, queues, locals
  <2>2. TypeOK' /\ Labelled'
    BY <2>1, InvParts DEF TypeOK, Labelled
  <2>3. Quiet
    BY <2>1 DEF Quiet, Same, Executing
  <2>. QED
    BY <2>2, <2>3, QuietInv DEF PoolInv
<1>. QED
  BY <1>1, <1>2, StepMoves

\* The inductive invariant of the pool, in every state of the composition: each
\* task has one status, waits in one place or is executed by one worker, and is
\* counted in pending_ until it is retired.
THEOREM PoolInductive == Spec => []PoolInv
<1>1. SystemInit => PoolInv
  BY InitPool DEF SystemInit
<1>. QED
  BY <1>1, NextPool, PTL DEF Spec

\* The types of the baseline pool: an enqueued, stolen or executed item is a
\* task, and pending_ never goes below 0.
THEOREM BaselineTyped == Spec => []TypeOK
<1>1. PoolInv => TypeOK
  BY InvParts
<1>. QED
  BY <1>1, PoolInductive, PTL

-----------------------------------------------------------------------------
(* Who sleeps and who has left.                                            *)

\* A worker that has seen the global queue empty keeps global_mutex_ until it
\* blocks or leaves.
Convinced(w) == pc[w] \in {"pred_bottom", "pred_top", "block"}
SeenEmpty == \A w \in Workers : Convinced(w) => global = <<>>

\* Once stop_ is set Main submits nothing any more.
Stopping == pc[Main] \in {"stop_notify", "join", "destroyed"}
Left == \A w \in Workers : At(w, "exited") => stop /\ global = <<>> /\ deque[w] = <<>>

SleepInv == SeenEmpty /\ (stop => Stopping) /\ Left /\ GlobalAttended

\* The steps of a worker that leave the queues it must not forget as they are.
LEMMA WorkerSleep ==
  ASSUME Labelled, SleepInv, NEW w \in Workers, NEW l \in Labels(w), Goto(w, l), stop' = stop,
         pc[w] # "exited", pc[w] \notin {"block", "asleep"} => l # "asleep",
         l \in {"pred_bottom", "pred_top", "block"} => global' = <<>>,
         l = "exited" => stop /\ global' = <<>> /\ deque'[w] = <<>>,
         global' = global \/ (GlobalFree /\ l # "asleep" /\ global # <<>>),
         \A v \in Workers \ {w} : deque[v] = <<>> => deque'[v] = <<>>
  PROVE  SleepInv'
<1>1. /\ pc'[w] = l /\ \A q \in Workers \ {w} : pc'[q] = pc[q]
      /\ pc'[Main] = pc[Main]
  BY GotoLabel, ThreadFacts
<1>2. GlobalFree => \A v \in Workers : ~Convinced(v)
  BY DEF GlobalFree, HoldsGlobalMutex, Convinced
<1>3. SeenEmpty'
  BY <1>1, <1>2 DEF SleepInv, SeenEmpty, Convinced
<1>4. (stop => Stopping)'
  BY <1>1 DEF SleepInv, Stopping
<1>5. Left'
  <2>1. \A v \in Workers : At(v, "exited") => global' = <<>>
    BY DEF SleepInv, Left
  <2>. QED
    BY <1>1, <2>1 DEF SleepInv, Left, At
<1>6. GlobalAttended'
  <2>1. CASE global' = <<>>
    BY <2>1 DEF GlobalAttended
  <2>2. CASE global' # <<>> /\ pc'[w] \notin {"block", "asleep", "exited"}
    BY <2>2 DEF GlobalAttended
  <2>3. CASE global' # <<>> /\ l = "asleep"
    <3>1. global' = global /\ pc[w] \in {"block", "asleep"}
      BY <2>3
    <3>2. CASE \E v \in Workers : pc[v] \notin {"block", "asleep", "exited"}
      BY <1>1, <3>1, <3>2 DEF GlobalAttended
    <3>3. CASE \E c \in Clients : At(c, "notify")
      BY <1>1, <3>3, ThreadFacts DEF GlobalAttended, At
    <3>. QED
      BY <2>3, <3>1, <3>2, <3>3 DEF SleepInv, GlobalAttended
  <2>. QED
    BY <1>1, <2>1, <2>2, <2>3
<1>. QED
  BY <1>3, <1>4, <1>5, <1>6 DEF SleepInv

\* The steps that wake sleepers or move Main only.
LEMMA OthersSleep ==
  ASSUME SleepInv,
         \A q \in Workers : \/ pc'[q] = pc[q]
                            \/ pc[q] # "exited" /\ pc'[q] \in {"lock", "pop", "run"},
         stop' => pc'[Main] \in {"stop_notify", "join", "destroyed"}, stop => stop',
         deque' = deque,
         global' = global \/ (GlobalFree /\ pc'[Main] = "notify" /\ ~stop),
         \/ pc[Main] # "notify"
         \/ \E q \in Workers : pc'[q] = "lock"
         \/ ~stop /\ \A q \in Workers : pc[q] # "asleep"
         \/ pc'[Main] = "notify"
  PROVE  SleepInv'
<1>1. GlobalFree => \A v \in Workers : ~Convinced(v)
  BY DEF GlobalFree, HoldsGlobalMutex, Convinced
<1>2. SeenEmpty'
  BY <1>1 DEF SleepInv, SeenEmpty, Convinced
<1>3. (stop => Stopping)'
  BY DEF Stopping
<1>4. Left'
  <2>1. \A q \in Workers : At(q, "exited")' => At(q, "exited")
    BY DEF At
  <2>. QED
    BY <2>1 DEF SleepInv, Left
<1>5. GlobalAttended'
  <2>1. CASE pc'[Main] = "notify"
    BY <2>1, ThreadFacts DEF GlobalAttended, At
  <2>2. CASE pc'[Main] # "notify" /\ global # <<>>
    <3>1. CASE \E v \in Workers : pc[v] \notin {"block", "asleep", "exited"}
      BY <3>1 DEF GlobalAttended
    <3>2. CASE /\ \A v \in Workers : pc[v] \in {"block", "asleep", "exited"}
               /\ \E q \in Workers : pc'[q] = "lock"
      BY <3>2 DEF GlobalAttended
    <3>3. CASE /\ \A v \in Workers : pc[v] \in {"block", "asleep", "exited"}
               /\ ~\E q \in Workers : pc'[q] = "lock"
      <4>1. pc[Main] = "notify"
        BY <2>2, <3>3, ThreadFacts DEF SleepInv, GlobalAttended, At
      <4>2. ~stop /\ pc[0] # "asleep" /\ 0 \in Workers
        BY <2>2, <3>3, <4>1, ThreadFacts
      <4>3. pc[0] # "block" /\ pc[0] # "exited"
        BY <2>2, <4>2 DEF SleepInv, SeenEmpty, Convinced, Left, At
      <4>. QED
        BY <3>3, <4>2, <4>3
    <3>. QED
      BY <3>1, <3>2, <3>3
  <2>3. CASE pc'[Main] # "notify" /\ global = <<>>
    BY <2>3 DEF GlobalAttended
  <2>. QED
    BY <2>1, <2>2, <2>3
<1>. QED
  BY <1>2, <1>3, <1>4, <1>5 DEF SleepInv

LEMMA FindSleep ==
  ASSUME PoolInv, SleepInv, NEW w \in Workers, Find(w)
  PROVE  SleepInv'
<1>0. /\ Labelled /\ w \in Threads /\ deque \in [Workers -> Seq(Tasks)] /\ global \in Seq(Tasks)
      /\ DataTyped
  BY InvParts, ThreadFacts
<1>1. stop' = stop
  BY DEF Find, PopOwn, PopGlobal, StealLook, StealCas, StealGiveUp, data
<1>2. ASSUME NEW l \in {"taken", "global", "steal", "steal_cas", "lock"}, Goto(w, l),
             pc[w] \in {"pop", "global", "steal", "steal_cas"},
             global' = global \/ (GlobalFree /\ global # <<>>),
             \A v \in Workers : deque[v] = <<>> => deque'[v] = <<>>
      PROVE  SleepInv'
  <2>1. l \in Labels(w)
    BY DEF Labels, WorkerLabels
  <2>. QED
    BY <1>0, <1>1, <1>2, <2>1, WorkerSleep
<1>3. CASE PopOwn(w)
  <2>1. pc[w] = "pop" /\ global' = global /\ (Goto(w, "taken") \/ Goto(w, "global"))
    BY <1>3 DEF PopOwn, At, Got
  <2>2. \A v \in Workers : deque[v] = <<>> => deque'[v] = <<>>
    BY <1>0, <1>3 DEF PopOwn
  <2>. QED
    BY <1>2, <2>1, <2>2
<1>4. CASE PopGlobal(w)
  <2>1. pc[w] = "global" /\ deque' = deque /\ (Goto(w, "taken") \/ Goto(w, "steal"))
    BY <1>4 DEF PopGlobal, At, Got
  <2>2. global' = global \/ (GlobalFree /\ global # <<>>)
    BY <1>4 DEF PopGlobal
  <2>. QED
    BY <1>2, <2>1, <2>2
<1>5. CASE StealLook(w)
  <2>1. pc[w] = "steal" /\ deque' = deque /\ global' = global
    BY <1>5 DEF StealLook, At, queues
  <2>2. Goto(w, "steal_cas") \/ pc' = pc
    BY <1>5 DEF StealLook
  <2>3. pc' = pc => Goto(w, "steal")
    BY <1>0, <2>1 DEF Goto, Labelled
  <2>. QED
    BY <1>2, <2>1, <2>2, <2>3
<1>6. CASE StealCas(w)
  <2>1. PICK v \in Workers : v = victim[w]
    BY <1>0 DEF DataTyped
  <2>2. pc[w] = "steal_cas" /\ global' = global /\ (Goto(w, "taken") \/ Goto(w, "steal"))
    BY <1>6 DEF StealCas, At, Got
  <2>3. deque' = deque \/ (deque[v] # <<>> /\ deque' = [deque EXCEPT ![v] = Tail(deque[v])])
    BY <1>6, <2>1 DEF StealCas, OnTop
  <2>4. \A u \in Workers : deque[u] = <<>> => deque'[u] = <<>>
    BY <1>0, <2>3
  <2>. QED
    BY <1>2, <2>2, <2>4
<1>7. CASE StealGiveUp(w)
  BY <1>2, <1>7 DEF StealGiveUp, At, data, queues
<1>. QED
  BY <1>3, <1>4, <1>5, <1>6, <1>7 DEF Find

LEMMA IdleSleep ==
  ASSUME PoolInv, SleepInv, NEW w \in Workers, Idle(w) \/ SpuriousWakeup(w)
  PROVE  SleepInv'
<1>0. Labelled /\ w \in Threads
  BY InvParts, ThreadFacts
<1>1. UNCHANGED <<stop, global, deque>>
  BY DEF Idle, Lock, Pred, PredBottom, PredTop, Block, ExitCheck, SpuriousWakeup, data, queues
<1>2. ASSUME NEW l \in WorkerLabels, Goto(w, l),
             pc[w] \in {"lock", "pred", "pred_bottom", "pred_top", "block", "asleep", "exit_check"},
             l = "asleep" => pc[w] = "block",
             l \in {"pred_bottom", "pred_top", "block"} => global = <<>>,
             l = "exited" => MayExit(w)
      PROVE  SleepInv'
  <2>1. l \in Labels(w)
    BY DEF Labels
  <2>2. l = "exited" => stop /\ global' = <<>> /\ deque'[w] = <<>>
    BY <1>1, <1>2 DEF MayExit
  <2>3. l \in {"pred_bottom", "pred_top", "block"} => global' = <<>>
    BY <1>1, <1>2
  <2>4. pc[w] # "exited" /\ (pc[w] \notin {"block", "asleep"} => l # "asleep")
    BY <1>2
  <2>. QED
    BY <1>0, <1>1, <1>2, <2>1, <2>2, <2>3, <2>4, WorkerSleep
<1>3. Convinced(w) => global = <<>>
  BY DEF SleepInv, SeenEmpty
<1>4. CASE Lock(w) \/ SpuriousWakeup(w) \/ Block(w)
  BY <1>2, <1>4 DEF Lock, SpuriousWakeup, Block, At, WorkerLabels
<1>5. CASE Pred(w)
  <2>1. pc[w] = "pred" /\ (Goto(w, "exit_check") \/ (Goto(w, "pred_bottom") /\ global = <<>>))
    BY <1>5 DEF Pred, At
  <2>. QED
    BY <1>2, <2>1 DEF WorkerLabels
<1>6. CASE PredBottom(w) \/ PredTop(w)
  <2>1. pc[w] \in {"pred_bottom", "pred_top"} /\ global = <<>>
    BY <1>3, <1>6 DEF PredBottom, PredTop, At, Convinced
  <2>2. \E l \in {"pred_top", "pred_bottom", "exit_check", "block"} : Goto(w, l)
    BY <1>6 DEF PredBottom, PredTop
  <2>. QED
    BY <1>2, <2>1, <2>2 DEF WorkerLabels
<1>7. CASE ExitCheck(w)
  <2>1. pc[w] = "exit_check" /\ (Goto(w, "pop") \/ (Goto(w, "exited") /\ MayExit(w)))
    BY <1>7 DEF ExitCheck, At
  <2>. QED
    BY <1>2, <2>1 DEF WorkerLabels
<1>. QED
  BY <1>4, <1>5, <1>6, <1>7 DEF Idle

LEMMA ExecuteSleep ==
  ASSUME PoolInv, SleepInv, NEW w \in Workers,
         \/ Start(w) \/ Rings(w) \/ Leaves(w) \/ Finish(w) \/ PushOwn(w) \/ Enqueues(w)
  PROVE  SleepInv'
<1>0. Labelled /\ w \in Threads /\ deque \in [Workers -> Seq(Tasks)]
  BY InvParts, ThreadFacts
<1>1. stop' = stop /\ global' = global
  BY DEF Start, Rings, Leaves, BodyReturns, Finish, PushOwn, Enqueues, Begin, data, queues
<1>2. \A v \in Workers \ {w} : deque'[v] = deque[v]
  BY <1>0 DEF Start, Rings, Leaves, BodyReturns, Finish, PushOwn, Enqueues, Begin, data, queues
<1>3. \E l \in {"run", "graph_notify", "finish", "notify_done", "pop", "notify", "push"} : Goto(w, l)
  BY DEF Start, Rings, Leaves, BodyReturns, Finish, PushOwn, Enqueues, Begin
<1>4. pc[w] \in {"taken", "run", "graph_notify", "finish", "push"}
  BY DEF Start, Rings, Leaves, BodyReturns, Finish, PushOwn, Enqueues, At
<1>5. PICK l \in {"run", "graph_notify", "finish", "notify_done", "pop", "notify", "push"} : Goto(w, l)
  BY <1>3
<1>6. l \in Labels(w)
  BY DEF Labels, WorkerLabels
<1>. QED
  BY <1>0, <1>1, <1>2, <1>4, <1>5, <1>6, WorkerSleep

LEMMA MainSleep ==
  ASSUME PoolInv, SleepInv,
         \/ Enqueues(Main) \/ PushGlobal(Main) \/ WaitAll \/ Destroy \/ Shutdown
         \/ \E p \in Threads : Notify(p)
         \/ \E w \in Workers : NotifyDone(w)
  PROVE  SleepInv'
<1>0. /\ Labelled /\ Main \in Threads /\ Main \in Clients /\ Main \notin Workers
      /\ \A p \in Threads : p = Main \/ p \in Workers
  BY InvParts, ThreadFacts
<1>1. ASSUME NEW l \in Labels(Main), Goto(Main, l), deque' = deque, pc[Main] # "notify",
             stop' => l \in {"stop_notify", "join", "destroyed"}, stop => stop',
             global' = global \/ (GlobalFree /\ l = "notify" /\ ~stop)
      PROVE  SleepInv'
  <2>1. pc'[Main] = l /\ \A q \in Workers : pc'[q] = pc[q]
    BY <1>0, <1>1, GotoLabel, ThreadFacts
  <2>. QED
    BY <1>1, <2>1, OthersSleep
<1>2. stop => pc[Main] \in {"stop_notify", "join", "destroyed"}
  BY DEF SleepInv, Stopping
<1>3. CASE Enqueues(Main)
  <2>1. pc[Main] = "idle" /\ Goto(Main, "push") /\ UNCHANGED <<stop, global, deque>>
    BY <1>0, <1>3 DEF Enqueues, Begin, At, queues
  <2>. QED
    BY <1>0, <1>1, <1>2, <2>1 DEF Labels, ClientLabels
<1>4. CASE PushGlobal(Main)
  <2>1. pc[Main] = "push" /\ Goto(Main, "notify") /\ UNCHANGED <<stop, deque>> /\ GlobalFree
    BY <1>4 DEF PushGlobal, At
  <2>. QED
    BY <1>0, <1>1, <1>2, <2>1 DEF Labels, ClientLabels
<1>5. CASE WaitAll
  <2>1. /\ pc[Main] \in {"idle", "wait_pred", "wait_block", "wait_asleep"}
        /\ UNCHANGED <<stop, global, deque>>
    BY <1>5 DEF WaitAll, At, data, queues
  <2>2. PICK l \in {"wait_pred", "idle", "wait_block", "wait_asleep"} : Goto(Main, l)
    BY <1>5 DEF WaitAll
  <2>3. l \in Labels(Main)
    BY <1>0 DEF Labels, ClientLabels
  <2>. QED
    BY <1>1, <1>2, <2>1, <2>2, <2>3
<1>6. CASE Destroy
  <2>1. pc[Main] = "idle" /\ Goto(Main, "stop_notify") /\ UNCHANGED <<global, deque>> /\ stop' = TRUE
    BY <1>0, <1>6 DEF Destroy, At, queues
  <2>. QED
    BY <1>0, <1>1, <1>2, <2>1 DEF Labels, ClientLabels
<1>7. CASE Shutdown /\ At(Main, "join")
  <2>1. pc[Main] = "join" /\ Goto(Main, "destroyed") /\ UNCHANGED <<stop, global, deque>>
    BY <1>7 DEF Shutdown, At, data, queues
  <2>. QED
    BY <1>0, <1>1, <1>2, <2>1 DEF Labels, ClientLabels
<1>8. CASE Shutdown /\ At(Main, "stop_notify")
  <2>1. /\ pc'[Main] = "join" /\ pc[Main] = "stop_notify"
        /\ \A q \in Workers : IF pc[q] = "asleep" THEN pc'[q] = "lock" ELSE pc'[q] = pc[q]
    BY <1>0, <1>8, StopGoes DEF At
  <2>2. UNCHANGED <<stop, global, deque>>
    BY <1>8 DEF Shutdown, data, queues
  <2>3. \A q \in Workers : pc'[q] = pc[q] \/ (pc[q] # "exited" /\ pc'[q] = "lock")
    BY <2>1
  <2>. QED
    BY <2>1, <2>2, <2>3, OthersSleep
<1>9. ASSUME NEW p \in Threads, Notify(p) PROVE SleepInv'
  <2>1. /\ pc[p] = "notify" /\ pc'[p] = IF p \in Workers THEN "run" ELSE "idle"
        /\ \A q \in Threads \ {p} : \/ pc'[q] = pc[q]
                                    \/ q \in Workers /\ pc[q] = "asleep" /\ pc'[q] = "lock"
        /\ Sleepers # {} => \E q \in Workers : pc[q] = "asleep" /\ pc'[q] = "lock"
    BY <1>0, <1>9, NotifyGoes
  <2>2. UNCHANGED <<stop, global, deque>>
    BY <1>9 DEF Notify, data, queues
  <2>3. \A q \in Workers : pc'[q] = pc[q] \/ (pc[q] # "exited" /\ pc'[q] \in {"lock", "run"})
    BY <1>0, <2>1, ThreadFacts
  <2>4. Sleepers = {} => \A q \in Workers : pc[q] # "asleep"
    BY DEF Sleepers, At
  <2>5. CASE p = Main
    <3>1. ~stop
      BY <1>2, <2>1, <2>5
    <3>. QED
      BY <2>1, <2>2, <2>3, <2>4, <3>1, OthersSleep
  <2>6. CASE p # Main
    <3>1. pc'[Main] = pc[Main]
      BY <1>0, <2>1, <2>6
    <3>. QED
      BY <1>2, <2>2, <2>3, <3>1, OthersSleep
  <2>. QED
    BY <2>5, <2>6
<1>10. ASSUME NEW w \in Workers, NotifyDone(w) PROVE SleepInv'
  <2>1. /\ pc[w] = "notify_done" /\ pc'[w] = "pop"
        /\ pc'[Main] = IF pc[Main] = "wait_asleep" THEN "wait_pred" ELSE pc[Main]
        /\ \A q \in Workers \ {w} : pc'[q] = pc[q]
    BY <1>0, <1>10, DoneGoes
  <2>2. UNCHANGED <<stop, global, deque>>
    BY <1>10 DEF NotifyDone, data, queues
  <2>3. \A q \in Workers : pc'[q] = pc[q] \/ (pc[q] # "exited" /\ pc'[q] = "pop")
    BY <2>1
  <2>4. pc[Main] = "notify" => pc'[Main] = "notify"
    BY <2>1
  <2>5. stop' => pc'[Main] \in {"stop_notify", "join", "destroyed"}
    BY <1>2, <2>1, <2>2
  <2>. QED
    BY <2>2, <2>3, <2>4, <2>5, OthersSleep
<1>. QED
  BY <1>3, <1>4, <1>5, <1>6, <1>7, <1>8, <1>9, <1>10 DEF Shutdown

LEMMA SleepStep ==
  ASSUME PoolInv, SleepInv, [Next]_system
  PROVE  SleepInv'
<1>1. ASSUME UNCHANGED vars PROVE SleepInv'
  BY <1>1 DEF vars, data, queues, SleepInv, SeenEmpty, Convinced, Stopping, Left, GlobalAttended, At
<1>2. ASSUME NEW w \in Workers, WorkerMoves(w) PROVE SleepInv'
  BY <1>2, FindSleep, IdleSleep, ExecuteSleep, MainSleep, ThreadFacts DEF WorkerMoves, Loop
<1>3. ASSUME NEW p \in Threads, Enqueues(p) PROVE SleepInv'
  BY <1>3, ExecuteSleep, MainSleep, ThreadFacts
<1>4. PushGlobal(Main) \/ Notify(Main) \/ WaitAll \/ Destroy \/ Shutdown => SleepInv'
  BY MainSleep, ThreadFacts
<1>. QED
  BY <1>1, <1>2, <1>3, <1>4, StepMoves DEF PoolMoves

LEMMA InitSleep == Init => SleepInv
<1>. SUFFICES ASSUME Init PROVE SleepInv
  OBVIOUS
<1>1. \A w \in Workers : pc[w] = "pop"
  BY ThreadFacts DEF Init
<1>. QED
  BY <1>1 DEF Init, SleepInv, SeenEmpty, Convinced, Left, GlobalAttended, At

\* While a worker goes from the predicate to its blocking the global queue stays
\* as empty as it found it, one that left left its deque and the global queue
\* empty for good, and a task in the global queue has a worker awake for it.
THEOREM SleepInductive == Spec => []SleepInv
<1>1. SystemInit => SleepInv
  BY InitSleep DEF SystemInit
<1>2. PoolInv /\ SleepInv /\ [Next]_system => SleepInv'
  BY SleepStep
<1>. QED
  BY <1>1, <1>2, PoolInductive, PTL DEF Spec

\* While the global queue holds a task, some worker is awake and will look at
\* it, or Main has still to notify: what the predicate under global_mutex_ buys,
\* and the pool that replaced this one gave up.
THEOREM BaselineAttended == Spec => []GlobalAttended
<1>1. SleepInv => GlobalAttended
  BY DEF SleepInv
<1>. QED
  BY <1>1, SleepInductive, PTL

\* A worker that has left worker_loop() left no task behind, in its deque or in
\* the global queue: the exit test's promise, for any number of workers.
THEOREM BaselineDrained == Spec => []ExitedDrained
<1>1. SleepInv => ExitedDrained
  BY DEF SleepInv, Left, ExitedDrained
<1>. QED
  BY <1>1, SleepInductive, PTL

-----------------------------------------------------------------------------
(* The pool implements Executor.                                           *)

StageOf(s) ==
  CASE s = "new" -> "new"
    [] s = "submitted" -> "queued"
    [] s = "running" -> "running"
    [] OTHER -> "done"

LEMMA StageIs ==
  /\ Stage = [x \in Tasks |-> StageOf(status[x])]
  /\ Stage' = [x \in Tasks |-> StageOf(status'[x])]
BY DEF Stage, StageOf

LEMMA StagesAre ==
  /\ StageOf("new") = "new" /\ StageOf("submitted") = "queued"
  /\ StageOf("running") = "running"
  /\ StageOf("finished") = "done" /\ StageOf("retired") = "done"
BY DEF StageOf

\* When a task's status moves, so does its stage, and no other.
LEMMA StageMoves ==
  ASSUME status \in [Tasks -> Statuses], NEW x \in Tasks, NEW s,
         status' = [status EXCEPT ![x] = s]
  PROVE  Stage' = [Stage EXCEPT ![x] = StageOf(s)] /\ Stage[x] = StageOf(status[x])
<1>1. status'[x] = s /\ \A y \in Tasks : y # x => status'[y] = status[y]
  OBVIOUS
<1>. QED
  BY <1>1, StageIs

\* Only wait_all() itself changes whether Main is inside it.
LEMMA WaitingKept ==
  ASSUME Labelled, PoolMoves, ~WaitAll
  PROVE  Waiting' = Waiting
<1>0. Main \in Threads /\ Main \notin Workers /\ \A w \in Workers : w \in Threads
  BY ThreadFacts
<1>1. pc'[Main] = pc[Main] => Waiting' = Waiting
  BY DEF Waiting
<1>2. ASSUME NEW w \in Workers, WorkerMoves(w) \/ Enqueues(w) PROVE Waiting' = Waiting
  <2>1. CASE NotifyDone(w)
    <3>1. pc'[Main] = IF pc[Main] = "wait_asleep" THEN "wait_pred" ELSE pc[Main]
      BY <2>1, DoneGoes
    <3>. QED
      BY <3>1 DEF Waiting
  <2>2. CASE Notify(w)
    <3>1. pc'[Main] = pc[Main]
      BY <1>0, <2>2, NotifyGoes
    <3>. QED
      BY <1>1, <3>1
  <2>3. CASE ~NotifyDone(w) /\ ~Notify(w)
    <3>1. pc' = pc \/ \E l \in Labels(w) : Goto(w, l)
      BY <1>2, <2>3, WorkerGoes DEF WorkerMoves, Loop
    <3>2. pc'[Main] = pc[Main]
      BY <1>0, <3>1, GotoLabel
    <3>. QED
      BY <1>1, <3>2
  <2>. QED
    BY <2>1, <2>2, <2>3
<1>3. ASSUME NEW l \in Labels(Main), Goto(Main, l),
             pc[Main] \notin {"wait_pred", "wait_block", "wait_asleep"},
             l \notin {"wait_pred", "wait_block", "wait_asleep"}
      PROVE  Waiting' = Waiting
  <2>1. pc'[Main] = l
    BY <1>0, <1>3, GotoLabel
  <2>. QED
    BY <1>3, <2>1 DEF Waiting
<1>4. CASE Enqueues(Main) \/ PushGlobal(Main) \/ Destroy \/ (Shutdown /\ At(Main, "join"))
  <2>1. pc[Main] \in {"idle", "push", "join"}
    BY <1>0, <1>4, ThreadFacts DEF Enqueues, PushGlobal, Destroy, At
  <2>2. \E l \in {"push", "notify", "stop_notify", "destroyed"} : Goto(Main, l)
    BY <1>4 DEF Enqueues, Begin, PushGlobal, Destroy, Shutdown, At
  <2>. QED
    BY <1>0, <1>3, <2>1, <2>2 DEF Labels, ClientLabels
<1>5. CASE Notify(Main)
  <2>1. pc[Main] = "notify" /\ pc'[Main] = "idle"
    BY <1>0, <1>5, NotifyGoes
  <2>. QED
    BY <2>1 DEF Waiting
<1>6. CASE Shutdown /\ At(Main, "stop_notify")
  <2>1. pc[Main] = "stop_notify" /\ pc'[Main] = "join"
    BY <1>6, StopGoes DEF At
  <2>. QED
    BY <2>1 DEF Waiting
<1>7. \A p \in Threads : p = Main \/ p \in Workers
  BY ThreadFacts
<1>. QED
  BY <1>2, <1>4, <1>5, <1>6, <1>7 DEF PoolMoves, Shutdown

\* wait_all() returns only with pending_ = 0, that is with nothing unfinished.
LEMMA WaitAllStep ==
  ASSUME PoolInv, WaitAll
  PROVE  E!Wait \/ E!Return \/ UNCHANGED <<Stage, Waiting>>
<1>0. Labelled /\ Balanced /\ Main \in Threads /\ Main \notin Workers /\ status \in [Tasks -> Statuses]
  BY InvParts, ThreadFacts
<1>1. Stage' = Stage
  BY DEF WaitAll, data, Stage
<1>2. ASSUME NEW l \in {"idle", "wait_pred", "wait_block", "wait_asleep"}, Goto(Main, l)
      PROVE  pc'[Main] = l
  <2>1. l \in Labels(Main)
    BY <1>0 DEF Labels, ClientLabels
  <2>. QED
    BY <1>0, <1>2, <2>1, GotoLabel
<1>3. CASE At(Main, "idle") /\ Goto(Main, "wait_pred")
  <2>1. ~Waiting /\ Waiting' = TRUE
    BY <1>2, <1>3 DEF At, Waiting
  <2>. QED
    BY <1>1, <2>1 DEF E!Wait
<1>4. CASE At(Main, "wait_pred") /\ Goto(Main, "idle") /\ AllDone
  <2>1. Waiting /\ Waiting' = FALSE
    BY <1>2, <1>4 DEF At, Waiting
  <2>2. Unfinished = {}
    BY <1>0, <1>4, FS_EmptySet DEF Balanced, AllDone
  <2>3. \A x \in Tasks : status[x] \in {"new", "retired"}
    BY <1>0, <2>2 DEF Unfinished, Statuses
  <2>4. \A x \in Tasks : Stage[x] \in {"new", "done"}
    BY <2>3, StageIs, StagesAre
  <2>. QED
    BY <1>1, <2>1, <2>4 DEF E!Return
<1>5. CASE \/ At(Main, "wait_pred") /\ Goto(Main, "wait_block")
           \/ At(Main, "wait_block") /\ Goto(Main, "wait_asleep")
           \/ At(Main, "wait_asleep") /\ Goto(Main, "wait_pred")
  <2>1. Waiting' = Waiting
    BY <1>2, <1>5 DEF At, Waiting
  <2>. QED
    BY <1>1, <2>1
<1>. QED
  BY <1>3, <1>4, <1>5 DEF WaitAll

\* The steps that move a task from one stage to the next.
LEMMA TaskStep ==
  ASSUME PoolInv, Waiting' = Waiting,
         \/ \E p \in Threads : Enqueues(p)
         \/ \E w \in Workers : Start(w) \/ Leaves(w) \/ Finish(w)
  PROVE  (\E x \in Tasks : E!Submit(x) \/ E!Start(x) \/ E!Finish(x)) \/ UNCHANGED <<Stage, Waiting>>
<1>0. status \in [Tasks -> Statuses] /\ Working
  BY InvParts
<1>1. ASSUME NEW x \in Tasks, NEW s, status' = [status EXCEPT ![x] = s]
      PROVE  Stage[x] = StageOf(status[x]) /\ Stage' = [Stage EXCEPT ![x] = StageOf(s)]
  BY <1>0, <1>1, StageMoves
<1>2. ASSUME NEW p \in Threads, Enqueues(p) PROVE \E x \in Tasks : E!Submit(x)
  <2>1. PICK x \in Tasks : Begin(p, x)
    BY <1>2 DEF Enqueues
  <2>2. status[x] = "new" /\ status' = [status EXCEPT ![x] = "submitted"]
    BY <2>1 DEF Begin, Mark
  <2>3. Stage[x] = "new" /\ Stage' = [Stage EXCEPT ![x] = "queued"]
    BY <1>1, <2>2, StagesAre
  <2>. QED
    BY <2>3 DEF E!Submit, E!Move
<1>3. ASSUME NEW w \in Workers, Start(w) PROVE \E x \in Tasks : E!Start(x)
  <2>1. PICK x : x = task[w]
    OBVIOUS
  <2>2. x \in Tasks /\ status[x] = "submitted"
    BY <1>3, <2>1, StartPlaced DEF Submitted
  <2>3. status' = [status EXCEPT ![x] = "running"]
    BY <1>3, <2>1 DEF Start, Mark
  <2>4. Stage[x] = "queued" /\ Stage' = [Stage EXCEPT ![x] = "running"]
    <3>1. Stage[x] = StageOf("submitted") /\ Stage' = [Stage EXCEPT ![x] = StageOf("running")]
      BY <1>1, <2>2, <2>3
    <3>. QED
      BY <3>1, StagesAre
  <2>. QED
    BY <2>2, <2>4 DEF E!Start, E!Move
<1>4. ASSUME NEW w \in Workers, Leaves(w) PROVE \E x \in Tasks : E!Finish(x)
  <2>1. PICK x : x = task[w]
    OBVIOUS
  <2>2. x \in Tasks /\ status[x] = "running"
    BY <1>0, <1>4, <2>1 DEF Leaves, Working, Executing
  <2>3. status' = [status EXCEPT ![x] = "finished"]
    BY <1>4, <2>1 DEF Leaves, BodyReturns, Mark
  <2>4. Stage[x] = "running" /\ Stage' = [Stage EXCEPT ![x] = "done"]
    <3>1. Stage[x] = StageOf("running") /\ Stage' = [Stage EXCEPT ![x] = StageOf("finished")]
      BY <1>1, <2>2, <2>3
    <3>. QED
      BY <3>1, StagesAre
  <2>. QED
    BY <2>2, <2>4 DEF E!Finish, E!Move
<1>5. ASSUME NEW w \in Workers, Finish(w) PROVE Stage' = Stage
  <2>1. PICK x : x = task[w]
    OBVIOUS
  <2>2. x \in Tasks /\ status[x] = "finished"
    BY <1>0, <1>5, <2>1 DEF Finish, At, Working, Executing
  <2>3. status' = [status EXCEPT ![x] = "retired"]
    BY <1>5, <2>1 DEF Finish, Mark
  <2>4. Stage[x] = StageOf("finished") /\ Stage' = [Stage EXCEPT ![x] = StageOf("retired")]
    BY <1>1, <2>2, <2>3
  <2>5. Stage = [y \in Tasks |-> StageOf(status[y])]
    BY StageIs
  <2>. QED
    BY <2>2, <2>4, <2>5, StagesAre
<1>. QED
  BY <1>2, <1>3, <1>4, <1>5

LEMMA NextExecutor == PoolInv /\ [Next]_system => [E!Next]_(<<Stage, Waiting>>)
<1>. SUFFICES ASSUME PoolInv, PoolMoves \/ UNCHANGED vars
              PROVE  E!Next \/ UNCHANGED <<Stage, Waiting>>
  BY StepMoves
<1>1. CASE UNCHANGED vars
  BY <1>1 DEF vars, data, Stage, Waiting
<1>2. CASE WaitAll
  BY <1>2, WaitAllStep DEF E!Next
<1>3. CASE PoolMoves /\ ~WaitAll
  <2>0. Waiting' = Waiting
    BY <1>3, InvParts, WaitingKept
  <2>1. status' = status => UNCHANGED <<Stage, Waiting>>
    BY <2>0 DEF Stage
  <2>2. ASSUME NEW w \in Workers, WorkerMoves(w)
        PROVE  E!Next \/ UNCHANGED <<Stage, Waiting>>
    <3>1. CASE Start(w) \/ Leaves(w) \/ Finish(w)
      BY <2>0, <3>1, TaskStep DEF E!Next
    <3>2. CASE Find(w) \/ NotifyDone(w) \/ PushOwn(w) \/ Notify(w)
      BY <2>1, <3>2 DEF Find, PopOwn, PopGlobal, StealLook, StealCas, StealGiveUp,
         NotifyDone, PushOwn, Notify, data
    <3>3. CASE Idle(w) \/ SpuriousWakeup(w) \/ Rings(w)
      BY <2>1, <3>3 DEF Idle, Lock, Pred, PredBottom, PredTop, Block, ExitCheck,
         SpuriousWakeup, Rings, data
    <3>. QED
      BY <2>2, <3>1, <3>2, <3>3 DEF WorkerMoves, Loop
  <2>3. CASE \E p \in Threads : Enqueues(p)
    BY <2>0, <2>3, TaskStep DEF E!Next
  <2>4. CASE PushGlobal(Main) \/ Notify(Main) \/ Destroy \/ Shutdown
    BY <2>1, <2>4 DEF PushGlobal, Notify, Destroy, Shutdown, data
  <2>. QED
    BY <1>3, <2>2, <2>3, <2>4 DEF PoolMoves
<1>. QED
  BY <1>1, <1>2, <1>3

LEMMA InitExecutor == Init => E!Init
<1>. SUFFICES ASSUME Init PROVE E!Init
  OBVIOUS
<1>1. \A x \in Tasks : StageOf(status[x]) = "new"
  BY DEF Init, StageOf
<1>2. Stage = [x \in Tasks |-> "new"]
  BY <1>1, StageIs
<1>3. Waiting = FALSE
  BY ThreadFacts DEF Init, Waiting
<1>. QED
  BY <1>2, <1>3 DEF E!Init

\* The baseline pool implements Executor as the new one does: under the graph
\* that submits from inside tasks, every task starts at most once and after it
\* was submitted, and wait_all() returns only when nothing is unfinished.
THEOREM BaselineIsExecutor == Spec => IsExecutor
<1>1. SystemInit => E!Init
  BY InitExecutor DEF SystemInit
<1>2. PoolInv /\ [Next]_system => [E!Next]_(E!executorVars)
  BY NextExecutor DEF E!executorVars
<1>. QED
  BY PoolInductive, <1>1, <1>2, PTL DEF Spec, IsExecutor, E!Spec

-----------------------------------------------------------------------------
(* The graph on the pool: what TaskGraph sees of a state.                  *)

Ids == 1..MaxNodes

RunsView     == IF main = "build" THEN 0 ELSE 1
JobsView     == [v \in Ids |-> Copied(v, {"submitted"})]
BegunView    == [v \in Ids |-> Copied(v, {"running", "finished", "retired"})]
FinishedView == [v \in Ids |-> Returned(v)]
StepView     == [w \in Workers |-> GraphStep(w)]
NodeAt(w)    == IF InBody(w) THEN NodeOf(w) ELSE 0
EdgeAt(w)    == IF InBody(w) /\ edge[w] > 0 THEN edge[w] ELSE 1
NodeView     == [w \in Workers |-> NodeAt(w)]
EdgeView     == [w \in Workers |-> EdgeAt(w)]

\* The caller's variables, the workers', and the history.
WorkersView == <<StepView, NodeView, EdgeView>>
CountsView  == <<JobsView, BegunView, FinishedView>>

\* The tasks that exist, and the workers between a node's fn and its end.
Used == {x \in Tasks : status[x] # "new"}
Insiders(v) == {w \in Workers : edge[w] > 0 /\ NodeOf(w) = v}

\* A worker has a position in its node's successors only inside the body of a
\* task, and every task that exists is one of a node of the graph.
GraphInv ==
  /\ successors \in Graphs
  /\ edge \in [Workers -> Nat]
  /\ \A w \in Workers : edge[w] > 0 => InBody(w) \/ At(w, "graph_notify")
  /\ \A w \in Workers : At(w, "graph_notify") => edge[w] > 0
  /\ \A x \in Used : x[1] \in Nodes
  /\ IsFiniteSet(Used)
  /\ main \in {"build", "dispatch", "ran", "wait_pred", "wait_block", "wait_asleep", "waited"}
  /\ loop \in Nat \ {0}
  /\ main = "build" => loop = 1 /\ Used = {}

LEMMA GraphFacts ==
  ASSUME successors \in Graphs
  PROVE  /\ Nodes = 1..Len(successors) /\ Len(successors) \in Nat /\ Nodes \subseteq Ids
         /\ \A u \in Nodes : /\ successors[u] \in Seq(Nodes) /\ Len(successors[u]) \in Nat
                             /\ DOMAIN successors[u] = 1..Len(successors[u])
                             /\ \A i \in 1..Len(successors[u]) : successors[u][i] \in Nodes
         /\ ~Cyclic(successors)
<1>1. /\ successors \in Seq(Seq(Nodes)) /\ Len(successors) <= MaxNodes /\ ~Cyclic(successors)
      /\ MaxNodes \in Nat
  BY GraphsAssumption DEF Nodes
<1>2. Nodes = 1..Len(successors) /\ Len(successors) \in Nat
  BY <1>1, LenProperties DEF Nodes
<1>3. Nodes \subseteq Ids
  BY <1>1, <1>2 DEF Ids
<1>4. ASSUME NEW u \in Nodes
      PROVE  /\ successors[u] \in Seq(Nodes) /\ Len(successors[u]) \in Nat
             /\ DOMAIN successors[u] = 1..Len(successors[u])
             /\ \A i \in 1..Len(successors[u]) : successors[u][i] \in Nodes
  <2>1. successors[u] \in Seq(Nodes)
    BY <1>1, <1>2, ElementOfSeq
  <2>. QED
    BY <2>1, LenProperties, ElementOfSeq
<1>. QED
  BY <1>1, <1>2, <1>3, <1>4

LEMMA TaskNode == \A x \in Tasks : x[1] \in Ids
BY GraphsAssumption DEF Ids

-----------------------------------------------------------------------------
(* Counting copies.                                                        *)

LEMMA CopiesFinite ==
  ASSUME IsFiniteSet(Used), NEW v, NEW S, "new" \notin S
  PROVE  IsFiniteSet({x \in Copies(v) : status[x] \in S}) /\ Copied(v, S) \in Nat
<1>1. {x \in Copies(v) : status[x] \in S} \subseteq Used
  BY DEF Copies, Used
<1>2. IsFiniteSet({x \in Copies(v) : status[x] \in S})
  BY <1>1, FS_Subset
<1>. QED
  BY <1>2, FS_CardinalityType DEF Copied

LEMMA CopiedKept ==
  ASSUME NEW v, NEW S, \A x \in Copies(v) : status'[x] \in S <=> status[x] \in S
  PROVE  Copied(v, S)' = Copied(v, S)
<1>1. {x \in Copies(v) : status[x] \in S}' = {x \in Copies(v) : status[x] \in S}
  BY DEF Copies
<1>. QED
  BY <1>1 DEF Copied

\* One task moves, a copy of v: the counts of v's copies follow, no other does.
Moves(x, a, b) == x \in Tasks /\ status[x] = a /\ status' = [status EXCEPT ![x] = b]

LEMMA CopyMoves ==
  ASSUME IsFiniteSet(Used), status \in [Tasks -> Statuses],
         NEW x, NEW a, NEW s, Moves(x, a, s), NEW v, v = x[1], NEW S, "new" \notin S
  PROVE  /\ \A u : u # v => Copied(u, S)' = Copied(u, S)
         /\ (a \in S <=> s \in S) => Copied(v, S)' = Copied(v, S)
         /\ a \notin S /\ s \in S => Copied(v, S)' = Copied(v, S) + 1
         /\ a \in S /\ s \notin S => Copied(v, S)' = Copied(v, S) - 1 /\ Copied(v, S) > 0
<1>. DEFINE C == {y \in Copies(v) : status[y] \in S}
            D == {y \in Copies(v) : status'[y] \in S}
<1>1. x \in Tasks /\ status[x] = a /\ status'[x] = s /\ \A y \in Tasks : y # x => status'[y] = status[y]
  BY DEF Moves
<1>2. ASSUME NEW u, u # v PROVE Copied(u, S)' = Copied(u, S)
  <2>1. \A y \in Copies(u) : status'[y] = status[y]
    BY <1>1, <1>2 DEF Copies
  <2>. QED
    BY <2>1, CopiedKept
<1>3. (a \in S <=> s \in S) => Copied(v, S)' = Copied(v, S)
  <2>1. (a \in S <=> s \in S) => \A y \in Copies(v) : status'[y] \in S <=> status[y] \in S
    BY <1>1 DEF Copies
  <2>. QED
    BY <2>1, CopiedKept
<1>4. IsFiniteSet(C) /\ Cardinality(C) \in Nat
  BY CopiesFinite, FS_CardinalityType
<1>5. Copied(v, S) = Cardinality(C) /\ Copied(v, S)' = Cardinality(D)
  BY DEF Copied, Copies
<1>6. x \in Copies(v) /\ (x \in C <=> a \in S) /\ (x \in D <=> s \in S)
  BY <1>1 DEF Copies
<1>7. \A y : y # x => (y \in C <=> y \in D)
  BY <1>1 DEF Copies
<1>. HIDE DEF C, D
<1>8. ASSUME a \notin S, s \in S PROVE Cardinality(D) = Cardinality(C) + 1
  <2>1. D = C \cup {x} /\ x \notin C
    BY <1>6, <1>7, <1>8
  <2>. QED
    BY <1>4, <2>1, FS_AddElement
<1>9. ASSUME a \in S, s \notin S
      PROVE  Cardinality(D) = Cardinality(C) - 1 /\ Cardinality(C) > 0
  <2>1. D = C \ {x} /\ x \in C
    BY <1>6, <1>7, <1>9
  <2>2. Cardinality(D) = Cardinality(C) - 1
    BY <1>4, <2>1, FS_RemoveElement
  <2>3. Cardinality(C) # 0
    BY <1>4, <2>1, FS_EmptySet
  <2>. QED
    BY <1>4, <2>2, <2>3
<1>. QED
  BY <1>2, <1>3, <1>5, <1>8, <1>9

LEMMA InsidersFinite ==
  ASSUME NEW v
  PROVE  IsFiniteSet(Insiders(v)) /\ Cardinality(Insiders(v)) \in Nat
<1>1. IsFiniteSet(Workers)
  BY FS_Interval, BaselineAssumption DEF Workers
<1>2. Insiders(v) \subseteq Workers
  BY DEF Insiders
<1>. QED
  BY <1>1, <1>2, FS_Subset, FS_CardinalityType

LEMMA ReturnedIs ==
  ASSUME NEW v
  PROVE  /\ Returned(v) = Copied(v, {"finished", "retired"}) + Cardinality(Insiders(v))
         /\ Returned(v)' = Copied(v, {"finished", "retired"})' + Cardinality(Insiders(v)')
BY DEF Returned, Insiders

\* A worker enters or leaves the insiders of its node, the others stay.
LEMMA InsidersMove ==
  ASSUME NEW w \in Workers, NEW v, NodeOf(w) = v, task' = task,
         \A u \in Workers \ {w} : edge'[u] = edge[u]
  PROVE  /\ \A u : u # v => Insiders(u)' = Insiders(u)
         /\ (edge'[w] > 0 <=> edge[w] > 0) => Insiders(v)' = Insiders(v)
         /\ ~(edge[w] > 0) /\ edge'[w] > 0 =>
              Cardinality(Insiders(v)') = Cardinality(Insiders(v)) + 1
         /\ edge[w] > 0 /\ ~(edge'[w] > 0) =>
              /\ Cardinality(Insiders(v)') = Cardinality(Insiders(v)) - 1
              /\ Cardinality(Insiders(v)) > 0
<1>1. \A u \in Workers : NodeOf(u)' = NodeOf(u)
  BY DEF NodeOf
<1>2. \A u : u # v => Insiders(u)' = Insiders(u)
  BY <1>1 DEF Insiders
<1>3. (edge'[w] > 0 <=> edge[w] > 0) => Insiders(v)' = Insiders(v)
  BY <1>1 DEF Insiders
<1>4. IsFiniteSet(Insiders(v)) /\ Cardinality(Insiders(v)) \in Nat
  BY InsidersFinite
<1>5. ASSUME ~(edge[w] > 0), edge'[w] > 0
      PROVE  Cardinality(Insiders(v)') = Cardinality(Insiders(v)) + 1
  <2>1. w \notin Insiders(v) /\ Insiders(v)' = Insiders(v) \cup {w}
    BY <1>1, <1>5 DEF Insiders
  <2>. QED
    BY <1>4, <2>1, FS_AddElement
<1>6. ASSUME edge[w] > 0, ~(edge'[w] > 0)
      PROVE  /\ Cardinality(Insiders(v)') = Cardinality(Insiders(v)) - 1
             /\ Cardinality(Insiders(v)) > 0
  <2>1. w \in Insiders(v) /\ Insiders(v)' = Insiders(v) \ {w}
    BY <1>1, <1>6 DEF Insiders
  <2>2. Cardinality(Insiders(v)') = Cardinality(Insiders(v)) - 1
    BY <1>4, <2>1, FS_RemoveElement
  <2>3. Cardinality(Insiders(v)) # 0
    BY <1>4, <2>1, FS_EmptySet
  <2>. QED
    BY <1>4, <2>2, <2>3
<1>. QED
  BY <1>2, <1>3, <1>5, <1>6

-----------------------------------------------------------------------------
(* How steps of the pool look in the graph.                                *)

LEMMA SeenFrom ==
  ASSUME NEW w \in Workers
  PROVE  /\ StepView[w] = GraphStep(w) /\ NodeView[w] = NodeAt(w) /\ EdgeView[w] = EdgeAt(w)
         /\ pc[w] = "graph_notify" => GraphStep(w) = "notify"
         /\ pc[w] \in {"run", "push", "notify"} =>
              GraphStep(w) = IF edge[w] = 0 THEN "fn" ELSE "release"
         /\ pc[w] \notin {"run", "push", "notify", "graph_notify"} => GraphStep(w) = "idle"
BY DEF StepView, NodeView, EdgeView, GraphStep, InBody

\* A worker that is in no body has no position in successors.
LEMMA OutsideBody ==
  ASSUME GraphInv, NEW w \in Workers
  PROVE  /\ edge[w] \in Nat
         /\ pc[w] \notin {"run", "push", "notify", "graph_notify"} => edge[w] = 0
BY DEF GraphInv, InBody, At

\* The graph sees nothing of a step that moves no worker in or out of a body,
\* and no task but from finished to retired.
Offstage ==
  /\ UNCHANGED graph
  /\ \A w \in Workers :
       /\ InBody(w)' <=> InBody(w)
       /\ At(w, "graph_notify")' <=> At(w, "graph_notify")
       /\ InBody(w) \/ At(w, "graph_notify") => task'[w] = task[w]
  /\ \A x \in Tasks : status'[x] = status[x] \/ (status[x] = "finished" /\ status'[x] = "retired")

LEMMA OffstageInv ==
  ASSUME GraphInv, Offstage
  PROVE  GraphInv'
<1>1. UNCHANGED <<successors, main, loop, edge>>
  BY DEF Offstage, graph, shape
<1>2. Used' = Used
  BY DEF Offstage, Used
<1>. QED
  BY <1>1, <1>2 DEF GraphInv, Offstage, Nodes

LEMMA OffstageCounts ==
  ASSUME GraphInv, Offstage
  PROVE  CountsView' = CountsView
<1>0. edge' = edge
  BY DEF Offstage, graph
<1>1. ASSUME NEW v, NEW S, "finished" \in S <=> "retired" \in S PROVE Copied(v, S)' = Copied(v, S)
  <2>1. \A x \in Copies(v) : status'[x] \in S <=> status[x] \in S
    BY <1>1 DEF Offstage, Copies
  <2>. QED
    BY <2>1, CopiedKept
<1>2. \A v : Insiders(v)' = Insiders(v)
  BY <1>0 DEF Insiders, Offstage, GraphInv, NodeOf
<1>3. \A v : /\ Copied(v, {"submitted"})' = Copied(v, {"submitted"})
             /\ Copied(v, {"running", "finished", "retired"})' =
                  Copied(v, {"running", "finished", "retired"})
             /\ Copied(v, {"finished", "retired"})' = Copied(v, {"finished", "retired"})
  BY <1>1
<1>4. \A v : Returned(v)' = Returned(v)
  BY <1>2, <1>3, ReturnedIs
<1>. QED
  BY <1>3, <1>4 DEF CountsView, JobsView, BegunView, FinishedView

LEMMA OffstageWorkers ==
  ASSUME GraphInv, Offstage
  PROVE  WorkersView' = WorkersView
<1>0. edge' = edge
  BY DEF Offstage, graph
<1>1. \A w \in Workers : /\ (InBody(w))' <=> InBody(w)
                         /\ pc'[w] = "graph_notify" <=> pc[w] = "graph_notify"
                         /\ InBody(w) => NodeOf(w)' = NodeOf(w)
  BY DEF Offstage, At, NodeOf
<1>2. \A w \in Workers : GraphStep(w)' = GraphStep(w)
  BY <1>0, <1>1 DEF GraphStep
<1>3. \A w \in Workers : NodeAt(w)' = NodeAt(w) /\ EdgeAt(w)' = EdgeAt(w)
  BY <1>0, <1>1 DEF NodeAt, EdgeAt
<1>. QED
  BY <1>2, <1>3 DEF WorkersView, StepView, NodeView, EdgeView

\* A worker moves that is in no body before and after.
LEMMA OffstageGoto ==
  ASSUME PoolInv, UNCHANGED graph, NEW p \in Threads, NEW l \in Labels(p), Goto(p, l),
         p \in Workers =>
           \/ /\ pc[p] \notin {"run", "push", "notify", "graph_notify"}
              /\ l \notin {"run", "push", "notify", "graph_notify"}
           \/ /\ pc[p] \in {"run", "push", "notify"} /\ l \in {"run", "push", "notify"}
              /\ task' = task,
         \A w \in Workers \ {p} : task'[w] = task[w],
         \A x \in Tasks : status'[x] = status[x] \/ (status[x] = "finished" /\ status'[x] = "retired")
  PROVE  Offstage
<1>1. pc'[p] = l /\ \A q \in Threads \ {p} : pc'[q] = pc[q]
  BY GotoLabel, InvParts
<1>2. ASSUME NEW w \in Workers
      PROVE  /\ InBody(w)' <=> InBody(w)
             /\ At(w, "graph_notify")' <=> At(w, "graph_notify")
             /\ InBody(w) \/ At(w, "graph_notify") => task'[w] = task[w]
  <2>1. CASE w # p
    <3>1. pc'[w] = pc[w] /\ task'[w] = task[w]
      BY <1>1, <2>1, ThreadFacts
    <3>. QED
      BY <3>1 DEF InBody, At
  <2>2. CASE w = p
    BY <1>1, <2>2 DEF InBody, At
  <2>. QED
    BY <2>1, <2>2
<1>. QED
  BY <1>2 DEF Offstage

LEMMA FindOffstage ==
  ASSUME PoolInv, UNCHANGED graph, NEW w \in Workers,
         Find(w) \/ Idle(w) \/ SpuriousWakeup(w) \/ Finish(w)
  PROVE  Offstage
<1>0. /\ Labelled /\ w \in Threads /\ Working
      /\ task \in [Workers -> Tasks \cup {NoTask}] /\ status \in [Tasks -> Statuses]
  BY InvParts, ThreadFacts
<1>1. pc[w] \notin {"run", "push", "notify", "graph_notify"}
  BY DEF Find, Idle, PopOwn, PopGlobal, StealLook, StealCas, StealGiveUp, Lock, Pred, PredBottom,
     PredTop, Block, ExitCheck, SpuriousWakeup, Finish, At
<1>2. \A v \in Workers \ {w} : task'[v] = task[v]
  BY <1>0 DEF Find, Idle, PopOwn, PopGlobal, StealLook, StealCas, StealGiveUp, Lock, Pred, PredBottom,
     PredTop, Block, ExitCheck, SpuriousWakeup, Finish, Got, data, locals
<1>3. \A x \in Tasks : status'[x] = status[x] \/ (status[x] = "finished" /\ status'[x] = "retired")
  <2>1. CASE Finish(w)
    <3>1. status' = [status EXCEPT ![task[w]] = "retired"]
      BY <2>1 DEF Finish, Mark
    <3>2. task[w] \in Tasks /\ status[task[w]] = "finished"
      BY <1>0, <2>1 DEF Finish, At, Working, Executing
    <3>. QED
      BY <1>0, <3>1, <3>2
  <2>2. CASE Find(w) \/ Idle(w) \/ SpuriousWakeup(w)
    BY <2>2 DEF Find, Idle, PopOwn, PopGlobal, StealLook, StealCas, StealGiveUp, Lock, Pred,
       PredBottom, PredTop, Block, ExitCheck, SpuriousWakeup, data
  <2>. QED
    BY <2>1, <2>2
<1>4. pc' = pc \/ \E l \in Labels(w) : Goto(w, l) /\ l \notin {"run", "push", "notify", "graph_notify"}
  <2>1. CASE Find(w)
    BY <2>1 DEF Find, PopOwn, PopGlobal, StealLook, StealCas, StealGiveUp, Got, Labels, WorkerLabels
  <2>2. CASE Idle(w) \/ SpuriousWakeup(w)
    BY <2>2 DEF Idle, Lock, Pred, PredBottom, PredTop, Block, ExitCheck, SpuriousWakeup,
       Labels, WorkerLabels
  <2>3. CASE Finish(w)
    BY <2>3 DEF Finish, Labels, WorkerLabels
  <2>. QED
    BY <2>1, <2>2, <2>3
<1>5. pc' = pc => \E l \in Labels(w) : Goto(w, l) /\ l \notin {"run", "push", "notify", "graph_notify"}
  <2>1. pc[w] \in Labels(w)
    BY <1>0 DEF Labelled
  <2>2. pc' = pc => Goto(w, pc[w])
    BY <1>0 DEF Labelled, Goto
  <2>. QED
    BY <1>1, <2>1, <2>2
<1>6. PICK l \in Labels(w) : Goto(w, l) /\ l \notin {"run", "push", "notify", "graph_notify"}
  BY <1>4, <1>5
<1>. QED
  BY <1>0, <1>1, <1>2, <1>3, <1>6, OffstageGoto

LEMMA PushOffstage ==
  ASSUME PoolInv, UNCHANGED graph,
         \/ \E w \in Workers : PushOwn(w) \/ Notify(w) \/ NotifyDone(w)
         \/ PushGlobal(Main) \/ Notify(Main) \/ WaitAll \/ Destroy \/ Shutdown
  PROVE  Offstage
<1>0. /\ Labelled /\ Main \in Threads /\ Main \notin Workers /\ \A w \in Workers : w \in Threads
  BY InvParts, ThreadFacts
<1>1. UNCHANGED <<task, status>>
  BY DEF PushOwn, Notify, NotifyDone, PushGlobal, WaitAll, Destroy, Shutdown, data, locals
<1>2. ASSUME \A w \in Workers : \/ pc'[w] = pc[w]
                                \/ /\ pc[w] \notin {"run", "push", "notify", "graph_notify"}
                                   /\ pc'[w] \notin {"run", "push", "notify", "graph_notify"}
                                \/ pc[w] = "notify" /\ pc'[w] = "run"
      PROVE  Offstage
  BY <1>1, <1>2 DEF Offstage, InBody, At
<1>3. ASSUME NEW l \in Labels(Main), Goto(Main, l) PROVE Offstage
  BY <1>0, <1>1, <1>3, OffstageGoto
<1>4. ASSUME NEW w \in Workers, PushOwn(w) PROVE Offstage
  <2>1. pc[w] = "push" /\ Goto(w, "notify") /\ "notify" \in Labels(w)
    BY <1>4 DEF PushOwn, At, Labels, WorkerLabels
  <2>. QED
    BY <1>0, <1>1, <2>1, OffstageGoto
<1>5. ASSUME NEW p \in Threads, Notify(p) PROVE Offstage
  <2>1. /\ pc[p] = "notify" /\ pc'[p] = IF p \in Workers THEN "run" ELSE "idle"
        /\ \A q \in Threads \ {p} : \/ pc'[q] = pc[q]
                                    \/ q \in Workers /\ pc[q] = "asleep" /\ pc'[q] = "lock"
    BY <1>0, <1>5, NotifyGoes
  <2>2. ASSUME NEW w \in Workers
        PROVE  \/ pc'[w] = pc[w]
               \/ /\ pc[w] \notin {"run", "push", "notify", "graph_notify"}
                  /\ pc'[w] \notin {"run", "push", "notify", "graph_notify"}
               \/ pc[w] = "notify" /\ pc'[w] = "run"
    BY <1>0, <2>1
  <2>. QED
    BY <1>2, <2>2
<1>6. ASSUME NEW w \in Workers, NotifyDone(w) PROVE Offstage
  <2>1. /\ pc[w] = "notify_done" /\ pc'[w] = "pop"
        /\ \A q \in Workers \ {w} : pc'[q] = pc[q]
    BY <1>0, <1>6, DoneGoes
  <2>. QED
    BY <1>2, <2>1
<1>7. CASE Shutdown /\ At(Main, "stop_notify")
  <2>1. \A q \in Workers : IF pc[q] = "asleep" THEN pc'[q] = "lock" ELSE pc'[q] = pc[q]
    BY <1>0, <1>7, StopGoes
  <2>. QED
    BY <1>2, <2>1
<1>8. CASE PushGlobal(Main) \/ WaitAll \/ Destroy \/ (Shutdown /\ At(Main, "join"))
  BY <1>3, <1>8, MainGoes
<1>. QED
  BY <1>0, <1>4, <1>5, <1>6, <1>7, <1>8 DEF Shutdown

-----------------------------------------------------------------------------
(* How the steps of a task look in the graph.                              *)

LEMMA WorkersMove ==
  ASSUME NEW w \in Workers,
         \A u \in Workers \ {w} : pc'[u] = pc[u] /\ edge'[u] = edge[u] /\ task'[u] = task[u]
  PROVE  /\ StepView' = [StepView EXCEPT ![w] = GraphStep(w)']
         /\ NodeView' = [NodeView EXCEPT ![w] = NodeAt(w)']
         /\ EdgeView' = [EdgeView EXCEPT ![w] = EdgeAt(w)']
<1>1. \A u \in Workers \ {w} : /\ GraphStep(u)' = GraphStep(u)
                               /\ NodeAt(u)' = NodeAt(u) /\ EdgeAt(u)' = EdgeAt(u)
  BY DEF GraphStep, NodeAt, EdgeAt, InBody, NodeOf
<1>. QED
  BY <1>1 DEF StepView, NodeView, EdgeView

Ended == {"finished", "retired"}

\* dispatch() makes a copy of a node, a worker starts it and ends it.
LEMMA Submits ==
  ASSUME PoolInv, GraphInv, NEW x, NEW v, v = x[1], Moves(x, "new", "submitted")
  PROVE  /\ v \in Ids
         /\ JobsView' = [JobsView EXCEPT ![v] = JobsView[v] + 1] /\ BegunView' = BegunView
         /\ \A u : Copied(u, Ended)' = Copied(u, Ended)
         /\ Used' = Used \cup {x}
<1>0. status \in [Tasks -> Statuses] /\ IsFiniteSet(Used) /\ v \in Ids
  BY InvParts, TaskNode DEF GraphInv, Moves
<1>m. ASSUME NEW S, "new" \notin S
      PROVE  /\ \A u : u # v => Copied(u, S)' = Copied(u, S)
             /\ ("new" \in S <=> "submitted" \in S) => Copied(v, S)' = Copied(v, S)
             /\ "new" \notin S /\ "submitted" \in S => Copied(v, S)' = Copied(v, S) + 1
             /\ "new" \in S /\ "submitted" \notin S =>
                  Copied(v, S)' = Copied(v, S) - 1 /\ Copied(v, S) > 0
  BY <1>0, <1>m, CopyMoves
<1>1. /\ \A u : u # v => Copied(u, {"submitted"})' = Copied(u, {"submitted"})
      /\ Copied(v, {"submitted"})' = Copied(v, {"submitted"}) + 1
  BY <1>m
<1>2. \A u : Copied(u, {"running", "finished", "retired"})' = Copied(u, {"running", "finished", "retired"})
  BY <1>m
<1>3. \A u : Copied(u, Ended)' = Copied(u, Ended)
  BY <1>m DEF Ended
<1>4. Used' = Used \cup {x}
  BY <1>0 DEF Used, Moves
<1>. QED
  BY <1>0, <1>1, <1>2, <1>3, <1>4 DEF JobsView, BegunView

LEMMA Starts ==
  ASSUME PoolInv, GraphInv, NEW x, NEW v, v = x[1], Moves(x, "submitted", "running")
  PROVE  /\ v \in Ids /\ JobsView[v] > 0
         /\ JobsView' = [JobsView EXCEPT ![v] = JobsView[v] - 1]
         /\ BegunView' = [BegunView EXCEPT ![v] = BegunView[v] + 1]
         /\ \A u : Copied(u, Ended)' = Copied(u, Ended)
         /\ Used' = Used
<1>0. status \in [Tasks -> Statuses] /\ IsFiniteSet(Used) /\ v \in Ids
  BY InvParts, TaskNode DEF GraphInv, Moves
<1>m. ASSUME NEW S, "new" \notin S
      PROVE  /\ \A u : u # v => Copied(u, S)' = Copied(u, S)
             /\ ("submitted" \in S <=> "running" \in S) => Copied(v, S)' = Copied(v, S)
             /\ "submitted" \notin S /\ "running" \in S => Copied(v, S)' = Copied(v, S) + 1
             /\ "submitted" \in S /\ "running" \notin S =>
                  Copied(v, S)' = Copied(v, S) - 1 /\ Copied(v, S) > 0
  BY <1>0, <1>m, CopyMoves
<1>1. /\ \A u : u # v => Copied(u, {"submitted"})' = Copied(u, {"submitted"})
      /\ Copied(v, {"submitted"})' = Copied(v, {"submitted"}) - 1
      /\ Copied(v, {"submitted"}) > 0
  BY <1>m
<1>2. /\ \A u : u # v => Copied(u, {"running", "finished", "retired"})' =
                           Copied(u, {"running", "finished", "retired"})
      /\ Copied(v, {"running", "finished", "retired"})' =
           Copied(v, {"running", "finished", "retired"}) + 1
  BY <1>m
<1>3. \A u : Copied(u, Ended)' = Copied(u, Ended)
  BY <1>m DEF Ended
<1>4. Used' = Used
  BY <1>0 DEF Used, Moves
<1>. QED
  BY <1>0, <1>1, <1>2, <1>3, <1>4 DEF JobsView, BegunView

LEMMA Ends ==
  ASSUME PoolInv, GraphInv, NEW x, NEW v, v = x[1], Moves(x, "running", "finished")
  PROVE  /\ JobsView' = JobsView /\ BegunView' = BegunView
         /\ \A u : u # v => Copied(u, Ended)' = Copied(u, Ended)
         /\ Copied(v, Ended)' = Copied(v, Ended) + 1 /\ Copied(v, Ended) \in Nat
         /\ Used' = Used
<1>0. status \in [Tasks -> Statuses] /\ IsFiniteSet(Used)
  BY InvParts DEF GraphInv
<1>m. ASSUME NEW S, "new" \notin S
      PROVE  /\ \A u : u # v => Copied(u, S)' = Copied(u, S)
             /\ ("running" \in S <=> "finished" \in S) => Copied(v, S)' = Copied(v, S)
             /\ "running" \notin S /\ "finished" \in S => Copied(v, S)' = Copied(v, S) + 1
             /\ "running" \in S /\ "finished" \notin S =>
                  Copied(v, S)' = Copied(v, S) - 1 /\ Copied(v, S) > 0
  BY <1>0, <1>m, CopyMoves
<1>1. \A u : Copied(u, {"submitted"})' = Copied(u, {"submitted"})
  BY <1>m
<1>2. \A u : Copied(u, {"running", "finished", "retired"})' = Copied(u, {"running", "finished", "retired"})
  BY <1>m
<1>3. /\ \A u : u # v => Copied(u, Ended)' = Copied(u, Ended)
      /\ Copied(v, Ended)' = Copied(v, Ended) + 1 /\ Copied(v, Ended) \in Nat
  BY <1>0, <1>m, CopiesFinite DEF Ended
<1>4. Used' = Used
  BY <1>0 DEF Used, Moves
<1>. QED
  BY <1>1, <1>2, <1>3, <1>4 DEF JobsView, BegunView

\* finished counts the copies that ended and the workers past fn.
LEMMA FinishedMoves ==
  ASSUME NEW v \in Ids, NEW n,
         \A u : u # v => Returned(u)' = Returned(u), Returned(v)' = n
  PROVE  FinishedView' = [FinishedView EXCEPT ![v] = n]
BY DEF FinishedView

LEMMA FinishedKept ==
  ASSUME \A u : Copied(u, Ended)' = Copied(u, Ended), \A u : Insiders(u)' = Insiders(u)
  PROVE  FinishedView' = FinishedView
<1>1. \A u : Returned(u)' = Returned(u)
  BY ReturnedIs DEF Ended
<1>. QED
  BY <1>1 DEF FinishedView

LEMMA InsidersKept ==
  ASSUME \A w \in Workers : (edge'[w] > 0 <=> edge[w] > 0) /\ (edge[w] > 0 => task'[w] = task[w])
  PROVE  \A u : Insiders(u)' = Insiders(u)
BY DEF Insiders, NodeOf

\* What a worker inside a body has: a running task of a node of the graph.
LEMMA InsideBody ==
  ASSUME PoolInv, GraphInv, NEW w \in Workers,
         pc[w] \in {"run", "push", "notify", "graph_notify"}
  PROVE  /\ task[w] \in Tasks /\ status[task[w]] = "running"
         /\ NodeOf(w) = task[w][1] /\ NodeOf(w) \in Nodes /\ NodeOf(w) \in Ids
<1>1. task[w] \in Tasks /\ status[task[w]] = "running"
  BY InvParts DEF Working, Executing
<1>2. NodeOf(w) = task[w][1] /\ NodeOf(w) \in Nodes
  BY <1>1 DEF GraphInv, Used, NodeOf
<1>. QED
  BY <1>1, <1>2, GraphFacts DEF GraphInv

GraphMoves ==
  \/ G!Run \/ G!Wait \/ G!SpuriousWakeup
  \/ \E w \in Workers : G!Work(w)

LEMMA GraphMovesAre == GraphMoves => G!Next
BY DEF GraphMoves, G!Next

\* A worker starts a copy of a node.
LEMMA StartMaps ==
  ASSUME PoolInv, GraphInv, NEW w \in Workers, Start(w), UNCHANGED graph
  PROVE  GraphInv' /\ G!Start(w)
<1>1. PICK x : x = task[w]
  OBVIOUS
<1>2. x \in Tasks /\ status[x] = "submitted" /\ Moves(x, "submitted", "running")
  BY <1>1, StartPlaced DEF Start, Mark, Submitted, Moves
<1>3. PICK v : v = x[1]
  OBVIOUS
<1>4. v \in Nodes
  BY <1>2, <1>3 DEF GraphInv, Used
<1>5. /\ pc[w] = "taken" /\ pc'[w] = "run" /\ \A q \in Workers \ {w} : pc'[q] = pc[q]
      /\ task' = task
  <2>1. Goto(w, "run") /\ "run" \in Labels(w) /\ pc[w] = "taken" /\ task' = task
    BY DEF Start, At, Labels, WorkerLabels, locals
  <2>. QED
    BY <2>1, GotoLabel, InvParts, ThreadFacts
<1>6. UNCHANGED <<successors, pendingDeps, remaining, main, loop, edge>>
  BY DEF graph, shape
<1>7. edge[w] = 0
  BY <1>5, OutsideBody
<1>8. /\ JobsView[v] > 0
      /\ JobsView' = [JobsView EXCEPT ![v] = JobsView[v] - 1]
      /\ BegunView' = [BegunView EXCEPT ![v] = BegunView[v] + 1]
      /\ \A u : Copied(u, Ended)' = Copied(u, Ended)
      /\ Used' = Used
  BY <1>2, <1>3, Starts
<1>9. FinishedView' = FinishedView
  BY <1>5, <1>6, <1>8, FinishedKept, InsidersKept
<1>10. /\ GraphStep(w) = "idle" /\ GraphStep(w)' = "fn" /\ NodeAt(w)' = v
       /\ EdgeAt(w)' = EdgeAt(w)
  BY <1>1, <1>3, <1>5, <1>6, <1>7 DEF GraphStep, NodeAt, EdgeAt, InBody, NodeOf
<1>11. /\ StepView[w] = "idle" /\ StepView' = [StepView EXCEPT ![w] = "fn"]
       /\ NodeView' = [NodeView EXCEPT ![w] = v] /\ EdgeView' = EdgeView
  <2>1. /\ StepView' = [StepView EXCEPT ![w] = GraphStep(w)']
        /\ NodeView' = [NodeView EXCEPT ![w] = NodeAt(w)']
        /\ EdgeView' = [EdgeView EXCEPT ![w] = EdgeAt(w)']
    BY <1>5, <1>6, WorkersMove
  <2>2. EdgeView' = EdgeView
    BY <1>10, <2>1 DEF EdgeView
  <2>. QED
    BY <1>10, <2>1, <2>2 DEF StepView
<1>12. RunsView' = RunsView
  BY <1>6 DEF RunsView
<1>13. G!Start(w)
  BY <1>4, <1>6, <1>8, <1>9, <1>11, <1>12
     DEF G!Start, G!Nodes, G!build, G!callerVars, Nodes, Ids, RunsView, JobsView, BegunView,
         FinishedView, StepView, NodeView, EdgeView, NodeAt, EdgeAt
<1>14. GraphInv'
  <2>1. \A q \in Workers : /\ edge'[q] > 0 => InBody(q)' \/ At(q, "graph_notify")'
                           /\ At(q, "graph_notify")' => edge'[q] > 0
    BY <1>5, <1>6, <1>7 DEF GraphInv, InBody, At
  <2>. QED
    BY <1>6, <1>8, <2>1 DEF GraphInv, Nodes
<1>. QED
  BY <1>13, <1>14

\* fn returns: its worker joins the insiders of the node.
LEMMA FnReturnsMaps ==
  ASSUME PoolInv, GraphInv, NEW w \in Workers, FnReturns(w)
  PROVE  GraphInv' /\ G!FnReturns(w)
<1>1. /\ pc[w] = "run" /\ edge[w] = 0 /\ edge' = [edge EXCEPT ![w] = 1]
      /\ UNCHANGED <<vars, successors, pendingDeps, remaining, main, loop>>
  BY DEF FnReturns, At, shape
<1>2. UNCHANGED <<pc, task, status>>
  BY <1>1 DEF vars, data, locals
<1>3. PICK v : v = NodeOf(w)
  OBVIOUS
<1>4. v \in Nodes /\ v \in Ids
  BY <1>1, <1>3, InsideBody
<1>5. edge \in [Workers -> Nat] /\ edge'[w] = 1 /\ \A u \in Workers \ {w} : edge'[u] = edge[u]
  BY <1>1 DEF GraphInv
<1>6. \A u : \A S : Copied(u, S)' = Copied(u, S)
  BY <1>2, CopiedKept
<1>7. /\ \A u : u # v => Insiders(u)' = Insiders(u)
      /\ Cardinality(Insiders(v)') = Cardinality(Insiders(v)) + 1
      /\ Cardinality(Insiders(v)) \in Nat
  BY <1>1, <1>2, <1>3, <1>5, InsidersMove, InsidersFinite
<1>8. Copied(v, Ended) \in Nat
  BY CopiesFinite DEF GraphInv, Ended
<1>9. (\A u : u # v => Returned(u)' = Returned(u)) /\ Returned(v)' = Returned(v) + 1
  BY <1>6, <1>7, <1>8, ReturnedIs DEF Ended
<1>10. FinishedView' = [FinishedView EXCEPT ![v] = FinishedView[v] + 1]
  <2>1. FinishedView[v] = Returned(v)
    BY <1>4 DEF FinishedView
  <2>. QED
    BY <1>4, <1>9, <2>1, FinishedMoves
<1>11. JobsView' = JobsView /\ BegunView' = BegunView /\ RunsView' = RunsView
  BY <1>1, <1>6 DEF JobsView, BegunView, RunsView
<1>12. /\ GraphStep(w) = "fn" /\ GraphStep(w)' = "release" /\ NodeAt(w) = v /\ NodeAt(w)' = v
       /\ EdgeAt(w)' = 1
  BY <1>1, <1>2, <1>3, <1>5 DEF GraphStep, NodeAt, EdgeAt, InBody, NodeOf
<1>13. /\ StepView[w] = "fn" /\ StepView' = [StepView EXCEPT ![w] = "release"]
       /\ NodeView[w] = v /\ NodeView' = NodeView /\ EdgeView' = [EdgeView EXCEPT ![w] = 1]
  <2>1. /\ StepView' = [StepView EXCEPT ![w] = GraphStep(w)']
        /\ NodeView' = [NodeView EXCEPT ![w] = NodeAt(w)']
        /\ EdgeView' = [EdgeView EXCEPT ![w] = EdgeAt(w)']
    BY <1>2, <1>5, WorkersMove
  <2>2. NodeView' = NodeView
    BY <1>12, <2>1 DEF NodeView
  <2>. QED
    BY <1>12, <2>1, <2>2, SeenFrom
<1>14. G!FnReturns(w)
  BY <1>1, <1>10, <1>11, <1>13
     DEF G!FnReturns, G!FirstEdge, G!build, G!callerVars, Ids, RunsView, JobsView, BegunView,
         FinishedView, StepView, NodeView, EdgeView, NodeAt, EdgeAt
<1>15. GraphInv'
  <2>1. \A q \in Workers : /\ edge'[q] > 0 => InBody(q)' \/ At(q, "graph_notify")'
                           /\ At(q, "graph_notify")' => edge'[q] > 0
    BY <1>1, <1>2, <1>5 DEF GraphInv, InBody, At
  <2>2. Used' = Used /\ edge' \in [Workers -> Nat]
    BY <1>1, <1>2, <1>5 DEF Used
  <2>. QED
    BY <1>1, <2>1, <2>2 DEF GraphInv, Nodes
<1>. QED
  BY <1>14, <1>15

\* dispatch() inside the step of a thread: a new copy of v, in the hand of p.
LEMMA DispatchMaps ==
  ASSUME PoolInv, GraphInv, NEW p \in Threads, NEW v \in Nodes, Dispatch(p, v)
  PROVE  /\ JobsView' = [JobsView EXCEPT ![v] = JobsView[v] + 1] /\ BegunView' = BegunView
         /\ \A u : Copied(u, Ended)' = Copied(u, Ended)
         /\ task' = task /\ pc'[p] = "push" /\ \A q \in Threads \ {p} : pc'[q] = pc[q]
         /\ IsFiniteSet(Used') /\ \E x \in Tasks : x[1] = v /\ Used' = Used \cup {x}
<1>1. PICK x \in Tasks : x[1] = v /\ Begin(p, x)
  BY DEF Dispatch
<1>2. Moves(x, "new", "submitted")
  BY <1>1 DEF Begin, Mark, Moves
<1>3. /\ task' = task /\ Goto(p, "push") /\ "push" \in Labels(p)
  BY <1>1 DEF Begin, Labels, WorkerLabels, ClientLabels
<1>4. pc'[p] = "push" /\ \A q \in Threads \ {p} : pc'[q] = pc[q]
  BY <1>3, InvParts, GotoLabel
<1>5. /\ JobsView' = [JobsView EXCEPT ![v] = JobsView[v] + 1] /\ BegunView' = BegunView
      /\ \A u : Copied(u, Ended)' = Copied(u, Ended)
      /\ Used' = Used \cup {x}
  BY <1>1, <1>2, Submits
<1>6. IsFiniteSet(Used')
  BY <1>5, FS_AddElement DEF GraphInv
<1>. QED
  BY <1>1, <1>3, <1>4, <1>5, <1>6

\* on_node_complete() tells the next successor, and dispatches it or not.
LEMMA ReleaseMaps ==
  ASSUME PoolInv, GraphInv, NEW w \in Workers, Release(w)
  PROVE  GraphInv' /\ G!Release(w)
<1>1. /\ pc[w] = "run" /\ edge[w] > 0 /\ edge' = [edge EXCEPT ![w] = edge[w] + 1]
      /\ edge[w] <= Len(successors[NodeOf(w)])
      /\ UNCHANGED <<successors, remaining, main, loop>>
  BY DEF Release, Releasing, At, shape
<1>2. PICK u : u = NodeOf(w)
  OBVIOUS
<1>3. u \in Nodes
  BY <1>1, <1>2, InsideBody
<1>4. PICK i : i = edge[w]
  OBVIOUS
<1>5. /\ edge \in [Workers -> Nat] /\ i \in Nat /\ edge'[w] = i + 1 /\ edge'[w] \in Nat
      /\ \A q \in Workers \ {w} : edge'[q] = edge[q]
  BY <1>1, <1>4 DEF GraphInv
<1>6. PICK sid : sid = successors[u][i]
  OBVIOUS
<1>7. sid \in Nodes
  BY <1>1, <1>2, <1>3, <1>4, <1>5, <1>6, GraphFacts DEF GraphInv
<1>8. /\ pendingDeps' = [pendingDeps EXCEPT ![sid] = pendingDeps[sid] - 1]
      /\ IF pendingDeps[sid] = 1 THEN Dispatch(w, sid) ELSE UNCHANGED vars
  BY <1>2, <1>4, <1>6 DEF Release, LastDep
<1>9. /\ IF pendingDeps[sid] = 1 THEN JobsView' = [JobsView EXCEPT ![sid] = JobsView[sid] + 1]
                                 ELSE JobsView' = JobsView
      /\ BegunView' = BegunView /\ \A n : Copied(n, Ended)' = Copied(n, Ended)
      /\ task' = task /\ pc'[w] \in {"run", "push"} /\ \A q \in Workers \ {w} : pc'[q] = pc[q]
      /\ IsFiniteSet(Used') /\ \A x \in Used' : x[1] \in Nodes
  <2>1. CASE pendingDeps[sid] = 1
    <3>1. Dispatch(w, sid) /\ w \in Threads /\ Workers \subseteq Threads
      BY <1>8, <2>1, ThreadFacts
    <3>2. \A x \in Used' : x[1] \in Nodes
      BY <1>7, <3>1, DispatchMaps DEF GraphInv
    <3>. QED
      BY <1>7, <2>1, <3>1, <3>2, DispatchMaps
  <2>2. CASE pendingDeps[sid] # 1
    <3>1. UNCHANGED <<pc, task, status>>
      BY <1>8, <2>2 DEF vars, data, locals
    <3>2. \A n : \A S : Copied(n, S)' = Copied(n, S)
      BY <3>1, CopiedKept
    <3>3. Used' = Used
      BY <3>1 DEF Used
    <3>. QED
      BY <1>1, <2>2, <3>1, <3>2, <3>3 DEF JobsView, BegunView, GraphInv
  <2>. QED
    BY <2>1, <2>2
<1>10. FinishedView' = FinishedView
  <2>1. \A q \in Workers : (edge'[q] > 0 <=> edge[q] > 0) /\ task'[q] = task[q]
    BY <1>1, <1>4, <1>5, <1>9
  <2>. QED
    BY <1>9, <2>1, InsidersKept, FinishedKept
<1>11. /\ GraphStep(w) = "release" /\ GraphStep(w)' = "release" /\ NodeAt(w) = u /\ NodeAt(w)' = u
       /\ EdgeAt(w) = i /\ EdgeAt(w)' = i + 1
  BY <1>1, <1>2, <1>4, <1>5, <1>9 DEF GraphStep, NodeAt, EdgeAt, InBody, NodeOf
<1>12. /\ StepView[w] = "release" /\ StepView' = StepView
       /\ NodeView[w] = u /\ NodeView' = NodeView
       /\ EdgeView[w] = i /\ EdgeView' = [EdgeView EXCEPT ![w] = i + 1]
  <2>1. /\ StepView' = [StepView EXCEPT ![w] = GraphStep(w)']
        /\ NodeView' = [NodeView EXCEPT ![w] = NodeAt(w)']
        /\ EdgeView' = [EdgeView EXCEPT ![w] = EdgeAt(w)']
    BY <1>5, <1>9, WorkersMove
  <2>2. StepView' = StepView
    BY <1>11, <2>1 DEF StepView
  <2>3. NodeView' = NodeView
    BY <1>11, <2>1 DEF NodeView
  <2>. QED
    BY <1>11, <2>1, <2>2, <2>3, SeenFrom
<1>13. RunsView' = RunsView
  BY <1>1 DEF RunsView
<1>14. G!Release(w)
  <2>1. i <= Len(successors[u])
    BY <1>1, <1>2, <1>4
  <2>2. IF pendingDeps[sid] = 1 THEN JobsView' = [JobsView EXCEPT ![sid] = JobsView[sid] + 1]
                                ELSE JobsView' = JobsView
    BY <1>9
  <2>. QED
    BY <1>1, <1>6, <1>8, <1>9, <1>10, <1>12, <1>13, <2>1, <2>2
       DEF G!Release, G!LastDep, G!Submitted, G!build, G!callerVars, G!history, Ids, RunsView,
           JobsView, BegunView, FinishedView, StepView, NodeView, EdgeView, NodeAt, EdgeAt
<1>15. GraphInv'
  <2>1. \A q \in Workers : /\ edge'[q] > 0 => InBody(q)' \/ At(q, "graph_notify")'
                           /\ At(q, "graph_notify")' => edge'[q] > 0
    BY <1>1, <1>5, <1>9 DEF GraphInv, InBody, At
  <2>2. edge' \in [Workers -> Nat]
    BY <1>1, <1>4, <1>5
  <2>3. main # "build"
    <3>1. task[w] \in Used
      BY <1>1, InsideBody DEF Used
    <3>. QED
      BY <3>1 DEF GraphInv
  <2>. QED
    BY <1>1, <1>9, <2>1, <2>2, <2>3 DEF GraphInv, Nodes
<1>. QED
  BY <1>14, <1>15

\* A worker leaves the body of its task: a copy of its node has ended, and it is
\* no insider any more, so that finished stays as it is.
LEMMA LeavesMaps ==
  ASSUME PoolInv, GraphInv, NEW w \in Workers, LeaveBody(w),
         pc[w] \in {"run", "graph_notify"}, edge[w] > 0, UNCHANGED <<successors, loop>>,
         main' = main \/ (main = "wait_asleep" /\ main' = "wait_pred")
  PROVE  /\ GraphInv' /\ CountsView' = CountsView /\ RunsView' = RunsView
         /\ StepView' = [StepView EXCEPT ![w] = "idle"]
         /\ NodeView' = [NodeView EXCEPT ![w] = 0] /\ EdgeView' = [EdgeView EXCEPT ![w] = 1]
<1>1. PICK x : x = task[w]
  OBVIOUS
<1>2. PICK v : v = x[1]
  OBVIOUS
<1>3. /\ x \in Tasks /\ status[x] = "running" /\ NodeOf(w) = v /\ v \in Nodes /\ v \in Ids
  BY <1>1, <1>2, InsideBody
<1>4. /\ Goto(w, "finish") /\ task' = task /\ status' = [status EXCEPT ![x] = "finished"]
      /\ edge' = [edge EXCEPT ![w] = 0] /\ "finish" \in Labels(w)
  BY <1>1 DEF LeaveBody, BodyReturns, Mark, locals, Labels, WorkerLabels
<1>5. pc'[w] = "finish" /\ \A q \in Workers \ {w} : pc'[q] = pc[q]
  BY <1>4, GotoLabel, InvParts, ThreadFacts
<1>6. edge \in [Workers -> Nat] /\ edge'[w] = 0 /\ \A q \in Workers \ {w} : edge'[q] = edge[q]
  BY <1>4 DEF GraphInv
<1>7. Moves(x, "running", "finished")
  BY <1>3, <1>4 DEF Moves
<1>8. /\ JobsView' = JobsView /\ BegunView' = BegunView
      /\ \A u : u # v => Copied(u, Ended)' = Copied(u, Ended)
      /\ Copied(v, Ended)' = Copied(v, Ended) + 1 /\ Copied(v, Ended) \in Nat
      /\ Used' = Used
  BY <1>2, <1>7, Ends
<1>9. /\ \A u : u # v => Insiders(u)' = Insiders(u)
      /\ Cardinality(Insiders(v)') = Cardinality(Insiders(v)) - 1
      /\ Cardinality(Insiders(v)) \in Nat
  BY <1>3, <1>4, <1>6, InsidersMove, InsidersFinite
<1>10. \A u : Returned(u)' = Returned(u)
  BY <1>8, <1>9, ReturnedIs DEF Ended
<1>11. CountsView' = CountsView
  BY <1>8, <1>10 DEF CountsView, FinishedView
<1>12. GraphStep(w)' = "idle" /\ NodeAt(w)' = 0 /\ EdgeAt(w)' = 1
  BY <1>5, <1>6 DEF GraphStep, NodeAt, EdgeAt, InBody
<1>13. /\ StepView' = [StepView EXCEPT ![w] = "idle"]
       /\ NodeView' = [NodeView EXCEPT ![w] = 0] /\ EdgeView' = [EdgeView EXCEPT ![w] = 1]
  BY <1>4, <1>5, <1>6, <1>12, WorkersMove
<1>14. main # "build"
  BY <1>3, <1>1 DEF GraphInv, Used
<1>15. RunsView' = RunsView
  BY <1>14 DEF RunsView
<1>16. GraphInv'
  <2>1. \A q \in Workers : /\ edge'[q] > 0 => InBody(q)' \/ At(q, "graph_notify")'
                           /\ At(q, "graph_notify")' => edge'[q] > 0
    BY <1>5, <1>6 DEF GraphInv, InBody, At
  <2>2. edge' \in [Workers -> Nat]
    BY <1>4, <1>6
  <2>3. /\ main' \in {"build", "dispatch", "ran", "wait_pred", "wait_block", "wait_asleep", "waited"}
        /\ main' # "build"
    BY <1>14 DEF GraphInv
  <2>. QED
    BY <1>8, <2>1, <2>2, <2>3 DEF GraphInv, Nodes
<1>. QED
  BY <1>11, <1>13, <1>15, <1>16

LEMMA CompleteMaps ==
  ASSUME PoolInv, GraphInv, NEW w \in Workers, Complete(w)
  PROVE  GraphInv' /\ G!Complete(w)
<1>1. /\ pc[w] = "run" /\ edge[w] > 0 /\ edge[w] > Len(successors[NodeOf(w)])
      /\ remaining' = remaining - 1 /\ UNCHANGED <<pendingDeps, successors, main, loop>>
      /\ IF remaining = 1 THEN Goto(w, "graph_notify") /\ UNCHANGED <<data, edge>> ELSE LeaveBody(w)
  BY DEF Complete, Releasing, At, shape
<1>2. PICK u : u = NodeOf(w)
  OBVIOUS
<1>3. u \in Nodes /\ edge \in [Workers -> Nat] /\ w \in Threads
  BY <1>1, <1>2, InsideBody, ThreadFacts DEF GraphInv
<1>4. PICK i : i = edge[w]
  OBVIOUS
<1>5. PICK s : s = IF remaining = 1 THEN "notify" ELSE "idle"
  OBVIOUS
<1>6. StepView[w] = "release" /\ NodeView[w] = u /\ EdgeView[w] = i
  <2>1. GraphStep(w) = "release" /\ NodeAt(w) = u /\ EdgeAt(w) = i
    BY <1>1, <1>2, <1>4 DEF GraphStep, NodeAt, EdgeAt, InBody
  <2>. QED
    BY <2>1, SeenFrom
<1>7. /\ GraphInv' /\ CountsView' = CountsView /\ RunsView' = RunsView
      /\ StepView' = [StepView EXCEPT ![w] = s]
      /\ NodeView' = [NodeView EXCEPT ![w] = 0] /\ EdgeView' = [EdgeView EXCEPT ![w] = 1]
  <2>1. CASE remaining # 1
    BY <1>1, <1>5, <2>1, LeavesMaps
  <2>2. CASE remaining = 1
    <3>1. /\ "graph_notify" \in Labels(w) /\ Goto(w, "graph_notify")
          /\ UNCHANGED <<task, status, edge>>
      BY <1>1, <2>2 DEF data, locals, Labels, WorkerLabels
    <3>2. pc'[w] = "graph_notify" /\ \A q \in Workers \ {w} : pc'[q] = pc[q]
      BY <1>3, <3>1, GotoLabel, InvParts, ThreadFacts
    <3>3. /\ \A v : \A S : Copied(v, S)' = Copied(v, S)
          /\ \A v : Insiders(v)' = Insiders(v)
      BY <3>1, CopiedKept, InsidersKept
    <3>4. CountsView' = CountsView
      BY <3>3, FinishedKept DEF CountsView, JobsView, BegunView
    <3>5. GraphStep(w)' = "notify" /\ NodeAt(w)' = 0 /\ EdgeAt(w)' = 1
      BY <3>2 DEF GraphStep, NodeAt, EdgeAt, InBody
    <3>6. /\ StepView' = [StepView EXCEPT ![w] = s]
          /\ NodeView' = [NodeView EXCEPT ![w] = 0] /\ EdgeView' = [EdgeView EXCEPT ![w] = 1]
      BY <1>5, <2>2, <3>1, <3>2, <3>5, WorkersMove
    <3>7. GraphInv'
      <4>1. \A q \in Workers : /\ edge'[q] > 0 => InBody(q)' \/ At(q, "graph_notify")'
                               /\ At(q, "graph_notify")' => edge'[q] > 0
        BY <1>1, <3>1, <3>2 DEF GraphInv, InBody, At
      <4>2. Used' = Used
        BY <3>1 DEF Used
      <4>. QED
        BY <1>1, <3>1, <4>1, <4>2 DEF GraphInv, Nodes
    <3>. QED
      BY <1>1, <3>4, <3>6, <3>7 DEF RunsView
  <2>. QED
    BY <2>1, <2>2
<1>8. i > Len(successors[u])
  BY <1>1, <1>2, <1>4
<1>9. G!Complete(w)
  BY <1>1, <1>5, <1>6, <1>7, <1>8
     DEF G!Complete, G!build, G!callerVars, G!history, Ids, RunsView, CountsView,
         JobsView, BegunView, FinishedView, StepView, NodeView, EdgeView, NodeAt, EdgeAt
<1>. QED
  BY <1>7, <1>9

LEMMA GraphNotifyMaps ==
  ASSUME PoolInv, GraphInv, NEW w \in Workers, GraphNotify(w)
  PROVE  GraphInv' /\ G!NotifyDone(w)
<1>1. /\ pc[w] = "graph_notify" /\ LeaveBody(w)
      /\ main' = IF main = "wait_asleep" THEN "wait_pred" ELSE main
      /\ UNCHANGED <<pendingDeps, remaining, successors, loop>>
  BY DEF GraphNotify, At
<1>2. edge[w] > 0
  BY <1>1 DEF GraphInv, At
<1>3. /\ GraphInv' /\ CountsView' = CountsView /\ RunsView' = RunsView
      /\ StepView' = [StepView EXCEPT ![w] = "idle"]
      /\ NodeView' = [NodeView EXCEPT ![w] = 0] /\ EdgeView' = [EdgeView EXCEPT ![w] = 1]
  BY <1>1, <1>2, LeavesMaps
<1>4. StepView[w] = "notify" /\ NodeView[w] = 0 /\ EdgeView[w] = 1
  <2>1. GraphStep(w) = "notify" /\ NodeAt(w) = 0 /\ EdgeAt(w) = 1
    BY <1>1 DEF GraphStep, NodeAt, EdgeAt, InBody
  <2>. QED
    BY <2>1, SeenFrom
<1>5. NodeView' = NodeView /\ EdgeView' = EdgeView
  BY <1>3, <1>4 DEF NodeView, EdgeView
<1>6. G!NotifyDone(w)
  BY <1>1, <1>3, <1>4, <1>5
     DEF G!NotifyDone, G!build, G!history, Ids, RunsView, CountsView,
         JobsView, BegunView, FinishedView, StepView, NodeView, EdgeView, NodeAt, EdgeAt
<1>. QED
  BY <1>3, <1>6

\* What a step of the caller leaves alone.
LEMMA CallerKeeps ==
  ASSUME UNCHANGED <<vars, edge>>
  PROVE  UNCHANGED <<CountsView, WorkersView, Used>>
<1>1. UNCHANGED <<pc, task, status, edge>>
  BY DEF vars, data, locals
<1>2. \A v : \A S : Copied(v, S)' = Copied(v, S)
  BY <1>1, CopiedKept
<1>3. \A v : Insiders(v)' = Insiders(v)
  BY <1>1, InsidersKept
<1>4. CountsView' = CountsView
  BY <1>2, <1>3, FinishedKept DEF CountsView, JobsView, BegunView
<1>5. WorkersView' = WorkersView
  BY <1>1 DEF WorkersView, StepView, NodeView, EdgeView, GraphStep, NodeAt, EdgeAt, InBody, NodeOf
<1>6. Used' = Used
  BY <1>1 DEF Used
<1>. QED
  BY <1>4, <1>5, <1>6

\* The body invariant of a step that moves no worker.
LEMMA CallerInv ==
  ASSUME GraphInv, UNCHANGED <<vars, edge, successors>>,
         main' \in {"dispatch", "ran", "wait_pred", "wait_block", "wait_asleep", "waited"},
         loop' \in Nat \ {0}
  PROVE  GraphInv'
<1>1. Used' = Used /\ pc' = pc
  BY CallerKeeps DEF vars
<1>. QED
  BY <1>1 DEF GraphInv, InBody, At, Nodes

\* Before the first dispatch() the graph has seen nothing.
LEMMA NothingUsed ==
  ASSUME PoolInv, GraphInv, Used = {}
  PROVE  /\ \A v \in Ids : JobsView[v] = 0 /\ BegunView[v] = 0 /\ FinishedView[v] = 0
         /\ \A w \in Workers : /\ edge[w] = 0 /\ StepView[w] = "idle"
                               /\ pc[w] \notin {"run", "push", "notify", "graph_notify"}
<1>1. ASSUME NEW v, NEW S, "new" \notin S PROVE Copied(v, S) = 0
  <2>1. {x \in Copies(v) : status[x] \in S} \subseteq Used
    BY <1>1 DEF Copies, Used
  <2>. QED
    BY <2>1, FS_EmptySet DEF Copied
<1>2. \A w \in Workers : pc[w] \notin {"run", "push", "notify", "graph_notify"}
  BY InsideBody DEF Used
<1>3. \A w \in Workers : edge[w] = 0
  BY <1>2, OutsideBody
<1>4. \A v : Insiders(v) = {}
  BY <1>3 DEF Insiders
<1>5. \A v : Returned(v) = 0
  BY <1>1, <1>4, ReturnedIs, FS_EmptySet
<1>6. \A w \in Workers : StepView[w] = "idle"
  BY <1>2, SeenFrom
<1>7. \A v : Copied(v, {"submitted"}) = 0 /\ Copied(v, {"running", "finished", "retired"}) = 0
  BY <1>1
<1>. QED
  BY <1>2, <1>3, <1>5, <1>6, <1>7 DEF JobsView, BegunView, FinishedView

\* run() starts, once, for a graph without cycles.
LEMMA RunStartsMaps ==
  ASSUME PoolInv, GraphInv, RunStarts
  PROVE  GraphInv' /\ G!RunStarts
<1>1. /\ main = "build" /\ main' = "dispatch" /\ remaining' = Len(successors)
      /\ UNCHANGED <<vars, pendingDeps, successors, loop, edge>>
  BY DEF RunStarts, Calls
<1>2. loop = 1 /\ Used = {} /\ ~Cyclic(successors)
  BY <1>1, GraphFacts DEF GraphInv
<1>3. UNCHANGED <<CountsView, WorkersView, Used>>
  BY <1>1, CallerKeeps
<1>4. BegunView = [v \in Ids |-> 0] /\ FinishedView = [v \in Ids |-> 0]
  BY <1>2, NothingUsed DEF BegunView, FinishedView
<1>5. GraphInv'
  BY <1>1, <1>2, CallerInv
<1>6. RunsView = 0 /\ RunsView' = 1
  BY <1>1 DEF RunsView
<1>7. RunsView < 1 /\ RunsView' = RunsView + 1
  BY <1>6
<1>8. BegunView' = [v \in Ids |-> 0] /\ FinishedView' = [v \in Ids |-> 0]
  BY <1>3, <1>4 DEF CountsView
<1>9. ~G!Refused
  BY <1>2 DEF G!Refused, G!Cyclic, G!Edge, Cyclic, Edge
<1>10. G!RunStarts
  BY <1>1, <1>2, <1>3, <1>7, <1>8, <1>9
     DEF G!RunStarts, G!MayRun, G!AllNodes, G!None, G!Ids, G!workers, Ids, RunsView,
         CountsView, WorkersView, JobsView, BegunView, FinishedView, StepView, NodeView, EdgeView,
         NodeAt, EdgeAt
<1>. QED
  BY <1>5, <1>10

\* run()'s loop dispatches the nodes without pending dependencies, or passes on.
LEMMA RunLoopMaps ==
  ASSUME PoolInv, GraphInv, RunLoop
  PROVE  GraphInv' /\ G!RunLoop
<1>1. /\ main = "dispatch" /\ pc[Main] = "idle" /\ loop <= Len(successors) /\ loop' = loop + 1
      /\ IF pendingDeps[loop] = 0 THEN Dispatch(Main, loop) ELSE UNCHANGED vars
      /\ UNCHANGED <<pendingDeps, remaining, successors, main, edge>>
  BY DEF RunLoop, Calls, At
<1>2. loop \in Nat \ {0} /\ loop' \in Nat \ {0}
  BY <1>1 DEF GraphInv
<1>3. PICK v : v = loop
  OBVIOUS
<1>4. v \in Nodes
  BY <1>1, <1>2, <1>3, GraphFacts DEF GraphInv
<1>5. RunsView' = RunsView
  BY <1>1 DEF RunsView
<1>6. CASE pendingDeps[v] = 0
  <2>1. Dispatch(Main, v) /\ Main \in Threads /\ Main \notin Workers /\ Workers \subseteq Threads
    BY <1>1, <1>3, <1>6, ThreadFacts
  <2>2. /\ JobsView' = [JobsView EXCEPT ![v] = JobsView[v] + 1] /\ BegunView' = BegunView
        /\ \A u : Copied(u, Ended)' = Copied(u, Ended)
        /\ task' = task /\ \A q \in Workers : pc'[q] = pc[q]
        /\ IsFiniteSet(Used') /\ \E x \in Tasks : x[1] = v /\ Used' = Used \cup {x}
    BY <1>4, <2>1, DispatchMaps
  <2>3. FinishedView' = FinishedView
    BY <1>1, <2>2, InsidersKept, FinishedKept
  <2>4. WorkersView' = WorkersView
    BY <1>1, <2>2 DEF WorkersView, StepView, NodeView, EdgeView, GraphStep, NodeAt, EdgeAt, InBody, NodeOf
  <2>5. G!RunLoop
    BY <1>1, <1>3, <1>5, <1>6, <2>2, <2>3, <2>4
       DEF G!RunLoop, G!NoDeps, G!Submitted, G!build, G!workers, G!history, Ids, RunsView,
           WorkersView, JobsView, BegunView, FinishedView, StepView, NodeView, EdgeView, NodeAt, EdgeAt
  <2>6. GraphInv'
    <3>1. \A x \in Used' : x[1] \in Nodes
      BY <1>4, <2>2 DEF GraphInv
    <3>2. \A q \in Workers : /\ edge'[q] > 0 => InBody(q)' \/ At(q, "graph_notify")'
                             /\ At(q, "graph_notify")' => edge'[q] > 0
      BY <1>1, <2>2 DEF GraphInv, InBody, At
    <3>. QED
      BY <1>1, <1>2, <2>2, <3>1, <3>2 DEF GraphInv, Nodes
  <2>. QED
    BY <2>5, <2>6
<1>7. CASE pendingDeps[v] # 0
  <2>1. UNCHANGED <<vars, edge, successors>>
    BY <1>1, <1>3, <1>7
  <2>2. UNCHANGED <<CountsView, WorkersView>>
    BY <2>1, CallerKeeps
  <2>3. G!RunLoop
    BY <1>1, <1>3, <1>5, <1>7, <2>2
       DEF G!RunLoop, G!NoDeps, G!build, G!workers, G!history, Ids, RunsView,
           CountsView, WorkersView, JobsView, BegunView, FinishedView, StepView, NodeView, EdgeView,
           NodeAt, EdgeAt
  <2>4. GraphInv'
    BY <1>1, <1>2, <2>1, CallerInv
  <2>. QED
    BY <2>3, <2>4
<1>. QED
  BY <1>6, <1>7

\* run() returns, and the calls of wait().
LEMMA CallerMaps ==
  ASSUME PoolInv, GraphInv, RunReturns \/ Wait
  PROVE  GraphInv' /\ (G!RunReturns \/ G!Wait \/ G!SpuriousWakeup)
<1>1. UNCHANGED <<vars, pendingDeps, remaining, successors, loop, edge>>
  BY DEF RunReturns, Wait
<1>2. UNCHANGED <<CountsView, WorkersView>>
  BY <1>1, CallerKeeps
<1>3. main # "build" /\ main' \in {"ran", "wait_pred", "wait_block", "wait_asleep", "waited"}
  BY DEF RunReturns, Wait, Calls
<1>4. RunsView' = RunsView
  BY <1>3 DEF RunsView
<1>5. GraphInv'
  <2>1. loop' \in Nat \ {0}
    BY <1>1 DEF GraphInv
  <2>. QED
    BY <1>1, <1>3, <2>1, CallerInv
<1>6. CASE RunReturns
  <2>1. main = "dispatch" /\ loop > Len(successors) /\ main' = "ran"
    BY <1>6 DEF RunReturns, Calls
  <2>2. G!RunReturns
    BY <1>1, <1>2, <1>4, <2>1
       DEF G!RunReturns, G!build, G!workers, G!history, Ids, RunsView,
           CountsView, WorkersView, JobsView, BegunView, FinishedView, StepView, NodeView, EdgeView,
           NodeAt, EdgeAt
  <2>. QED
    BY <1>5, <2>2
<1>7. CASE Wait
  <2>1. \/ main = "ran" /\ main' = "wait_pred"
        \/ main = "wait_pred" /\ main' = IF remaining = 0 THEN "waited" ELSE "wait_block"
        \/ main = "wait_block" /\ main' = "wait_asleep"
        \/ main = "wait_asleep" /\ main' = "wait_pred"
    BY <1>7 DEF Wait, Calls
  <2>2. G!Wait \/ G!SpuriousWakeup
    BY <1>1, <1>2, <1>4, <2>1
       DEF G!Wait, G!SpuriousWakeup, G!build, G!workers, G!history, Ids, RunsView,
           CountsView, WorkersView, JobsView, BegunView, FinishedView, StepView, NodeView, EdgeView,
           NodeAt, EdgeAt
  <2>. QED
    BY <1>5, <2>2
<1>. QED
  BY <1>6, <1>7

-----------------------------------------------------------------------------
(* The composition implements TaskGraph.                                   *)


LEMMA OffstageMaps ==
  ASSUME GraphInv, Offstage
  PROVE  GraphInv' /\ UNCHANGED G!vars
<1>1. GraphInv' /\ CountsView' = CountsView /\ WorkersView' = WorkersView
  BY OffstageInv, OffstageCounts, OffstageWorkers
<1>2. UNCHANGED <<successors, pendingDeps, remaining, main, loop>>
  BY DEF Offstage, graph, shape
<1>3. RunsView' = RunsView
  BY <1>2 DEF RunsView
<1>. QED
  BY <1>1, <1>2, <1>3
     DEF G!vars, G!build, G!callerVars, G!workers, G!history, Ids, RunsView, CountsView, WorkersView,
         JobsView, BegunView, FinishedView, StepView, NodeView, EdgeView, NodeAt, EdgeAt

LEMMA GraphStepMaps ==
  ASSUME PoolInv, GraphInv, [Next]_system
  PROVE  GraphInv' /\ (GraphMoves \/ UNCHANGED G!vars)
<1>1. ASSUME NEW w \in Workers, Worker(w) \/ PoolStep(SpuriousWakeup(w))
      PROVE  GraphInv' /\ (GraphMoves \/ UNCHANGED G!vars)
  <2>1. CASE PoolStep(Start(w) \/ Loop(w)) \/ PoolStep(SpuriousWakeup(w))
    <3>1. UNCHANGED graph /\ (Start(w) \/ Loop(w) \/ SpuriousWakeup(w))
      BY <2>1 DEF PoolStep
    <3>2. CASE Start(w)
      BY <3>1, <3>2, StartMaps DEF GraphMoves, G!Work
    <3>3. CASE Loop(w) \/ SpuriousWakeup(w)
      <4>1. Offstage
        BY <3>1, <3>3, FindOffstage, PushOffstage DEF Loop
      <4>. QED
        BY <4>1, OffstageMaps
    <3>. QED
      BY <3>1, <3>2, <3>3
  <2>2. CASE FnReturns(w)
    BY <2>2, FnReturnsMaps DEF GraphMoves, G!Work
  <2>3. CASE Release(w)
    BY <2>3, ReleaseMaps DEF GraphMoves, G!Work
  <2>4. CASE Complete(w)
    BY <2>4, CompleteMaps DEF GraphMoves, G!Work
  <2>5. CASE GraphNotify(w)
    BY <2>5, GraphNotifyMaps DEF GraphMoves, G!Work
  <2>. QED
    BY <1>1, <2>1, <2>2, <2>3, <2>4, <2>5 DEF Worker, Body
<1>2. CASE Run
  BY <1>2, RunStartsMaps, RunLoopMaps, CallerMaps DEF Run, GraphMoves, G!Run
<1>3. CASE Wait
  BY <1>3, CallerMaps DEF GraphMoves, G!Run
<1>4. CASE Push \/ UsePool \/ PoolStep(Shutdown)
  <2>1. /\ UNCHANGED graph
        /\ PushGlobal(Main) \/ Notify(Main) \/ WaitAll \/ Destroy \/ Shutdown
    BY <1>4 DEF Push, UsePool, PoolStep
  <2>2. Offstage
    BY <2>1, PushOffstage
  <2>. QED
    BY <2>2, OffstageMaps
<1>5. CASE UNCHANGED system
  <2>1. UNCHANGED <<graph, pc, task, status>>
    BY <1>5 DEF system, vars, data, locals
  <2>2. Offstage
    BY <2>1 DEF Offstage, InBody, At
  <2>. QED
    BY <2>2, OffstageMaps
<1>. QED
  BY <1>1, <1>2, <1>3, <1>4, <1>5 DEF Next

LEMMA InitGraph == SystemInit => GraphInv
<1>. SUFFICES ASSUME SystemInit PROVE GraphInv
  OBVIOUS
<1>1. Used = {} /\ IsFiniteSet(Used)
  <2>1. Used = {}
    BY DEF SystemInit, Init, Used
  <2>. QED
    BY <2>1, FS_EmptySet
<1>2. \A w \in Workers : pc[w] = "pop"
  BY ThreadFacts DEF SystemInit, Init
<1>. QED
  BY <1>1, <1>2 DEF SystemInit, GraphInv, At

\* What the composition adds to the pool: where Main, its loop and a worker in
\* on_node_complete() can be, and that only dispatched nodes are in the pool.
THEOREM GraphInductive == Spec => []GraphInv
<1>1. PoolInv /\ GraphInv /\ [Next]_system => GraphInv'
  BY GraphStepMaps
<1>. QED
  BY PoolInductive, InitGraph, <1>1, PTL DEF Spec

\* The composition implements TaskGraph: the executor that TaskGraph takes for
\* granted may be this pool, with its queues, its stealing and its sleepers.
THEOREM CompositionImplementsGraph == Spec => ImplementsGraph
<1>1. PoolInv /\ GraphInv /\ [Next]_system => [G!Next]_(G!vars)
  BY GraphStepMaps, GraphMovesAre
<1>. QED
  BY PoolInductive, GraphInductive, <1>1, PTL DEF Spec, ImplementsGraph

-----------------------------------------------------------------------------
(* What is proved of TaskGraph holds of the composition.                   *)

\* TaskGraphProofs, about the same view of the state as G.
P == INSTANCE TaskGraphProofs WITH
       MaxTasks <- MaxNodes, MaxDeps <- 0, MaxRuns <- 1,
       runs <- IF main = "build" THEN 0 ELSE 1,
       jobs <- [v \in 1..MaxNodes |-> Copied(v, {"submitted"})],
       pc <- [w \in Workers |-> GraphStep(w)],
       node <- [w \in Workers |-> IF InBody(w) THEN NodeOf(w) ELSE 0],
       edge <- [w \in Workers |-> IF InBody(w) /\ edge[w] > 0 THEN edge[w] ELSE 1],
       begun <- [v \in 1..MaxNodes |-> Copied(v, {"running", "finished", "retired"})],
       finished <- [v \in 1..MaxNodes |-> Returned(v)]

LEMMA SameWork == \A w : G!Work(w) => P!Work(w)
<1>1. \A w : G!Start(w) => P!Start(w)
  BY DEF G!Start, P!Start, G!build, P!build, G!callerVars, P!callerVars, G!Nodes, P!Nodes
<1>2. \A w : G!FnReturns(w) => P!FnReturns(w)
  BY DEF G!FnReturns, P!FnReturns, G!FirstEdge, P!FirstEdge, G!build, P!build,
         G!callerVars, P!callerVars
<1>3. \A w : G!Release(w) => P!Release(w)
  BY DEF G!Release, P!Release, G!LastDep, P!LastDep, G!Submitted, P!Submitted,
         G!build, P!build, G!callerVars, P!callerVars, G!history, P!history
<1>4. \A w : G!Complete(w) => P!Complete(w)
  BY DEF G!Complete, P!Complete, G!build, P!build, G!callerVars, P!callerVars, G!history, P!history
<1>5. \A w : G!NotifyDone(w) => P!NotifyDone(w)
  BY DEF G!NotifyDone, P!NotifyDone, G!build, P!build, G!history, P!history
<1>. QED
  BY <1>1, <1>2, <1>3, <1>4, <1>5 DEF G!Work, P!Work

LEMMA SameRun == G!Run => P!Run
<1>1. G!Refused <=> P!Refused
  BY DEF G!Refused, P!Refused, G!Cyclic, P!Cyclic, G!Edge, P!Edge
<1>2. G!RunStarts => P!RunStarts
  BY <1>1 DEF G!RunStarts, P!RunStarts, G!MayRun, P!MayRun, G!AllNodes, P!AllNodes,
         G!None, P!None, G!Ids, P!Ids, G!workers, P!workers
<1>3. G!RunRefuses => P!RunRefuses
  BY <1>1 DEF G!RunRefuses, P!RunRefuses, G!MayRun, P!MayRun, G!build, P!build,
         G!workers, P!workers, G!history, P!history
<1>4. G!RunLoop => P!RunLoop
  BY DEF G!RunLoop, P!RunLoop, G!NoDeps, P!NoDeps, G!Submitted, P!Submitted, G!build, P!build,
         G!workers, P!workers, G!history, P!history
<1>5. G!RunReturns => P!RunReturns
  BY DEF G!RunReturns, P!RunReturns, G!build, P!build, G!workers, P!workers, G!history, P!history
<1>. QED
  BY <1>2, <1>3, <1>4, <1>5 DEF G!Run, P!Run

LEMMA SameMoves == GraphMoves => P!Next
<1>1. G!Wait \/ G!SpuriousWakeup => P!Wait \/ P!SpuriousWakeup
  BY DEF G!Wait, P!Wait, G!SpuriousWakeup, P!SpuriousWakeup, G!build, P!build,
         G!workers, P!workers, G!history, P!history
<1>. QED
  BY <1>1, SameWork, SameRun DEF GraphMoves, P!Next

LEMMA SameVars == UNCHANGED G!vars => UNCHANGED P!vars
BY DEF G!vars, P!vars, G!build, P!build, G!callerVars, P!callerVars, G!workers, P!workers,
       G!history, P!history

LEMMA SameCardinality == \A S : P!Cardinality(S) = Cardinality(S) /\ (P!IsFiniteSet(S) <=> IsFiniteSet(S))
BY DEF P!Cardinality, Cardinality, P!IsFiniteSet, IsFiniteSet

LEMMA ViewBounds == P!Inv /\ [P!Next]_(P!vars) => P!Inv'
BY P!NextInv, GraphsAssumption

\* The edges into v, as InDegree counts them, are finitely many.
EdgesTo(u, v) == {i \in DOMAIN successors[u] : successors[u][i] = v}
EdgesInto(v) == UNION {{u} \X EdgesTo(u, v) : u \in Nodes}

LEMMA DegreeIs == \A v : InDegree(successors, v) = Cardinality(EdgesInto(v))
BY DEF InDegree, EdgesInto, EdgesTo, Nodes

LEMMA DegreeFinite ==
  ASSUME successors \in Graphs, NEW v
  PROVE  IsFiniteSet(EdgesInto(v)) /\ InDegree(successors, v) \in Nat
<1>. DEFINE f == [u \in Nodes |-> EdgesTo(u, v)]
<1>1. IsFiniteSet(Nodes)
  BY GraphFacts, FS_Interval
<1>2. \A u \in Nodes : IsFiniteSet(f[u])
  <2>. TAKE u \in Nodes
  <2>1. DOMAIN successors[u] = 1..Len(successors[u]) /\ Len(successors[u]) \in Nat
    BY GraphFacts
  <2>2. IsFiniteSet(DOMAIN successors[u])
    BY <2>1, FS_Interval
  <2>3. f[u] \subseteq DOMAIN successors[u]
    BY DEF EdgesTo
  <2>. QED
    BY <2>2, <2>3, FS_Subset
<1>3. EdgesInto(v) = UNION {{u} \X f[u] : u \in Nodes}
  BY DEF EdgesInto
<1>. HIDE DEF f
<1>4. P!IsFiniteSet(UNION {{u} \X f[u] : u \in Nodes})
  BY <1>1, <1>2, P!FinitePairs, SameCardinality, GraphsAssumption
<1>. QED
  BY <1>3, <1>4, SameCardinality, DegreeIs, FS_CardinalityType

LEMMA FunctionIsSeq ==
  ASSUME NEW S, NEW n \in Nat, NEW f \in [1..n -> S]
  PROVE  f \in Seq(S) /\ Len(f) = n
<1>1. f \in Seq(S)
  BY SMT
<1>2. Len(f) \in Nat /\ DOMAIN f = 1..Len(f) /\ DOMAIN f = 1..n
  BY <1>1
<1>. QED
  BY <1>1, <1>2

\* What SystemInit leaves to TaskGraph: a graph that nobody has run.
LEMMA InitView ==
  ASSUME SystemInit
  PROVE  P!Inv
<1>0. PoolInv /\ GraphInv
  BY InitGraph, InitPool DEF SystemInit
<1>1. /\ main = "build" /\ loop = 1 /\ remaining = 0 /\ successors \in Graphs
      /\ pendingDeps = [v \in Nodes |-> InDegree(successors, v)]
  BY DEF SystemInit
<1>2. /\ \A v \in Ids : JobsView[v] = 0 /\ BegunView[v] = 0 /\ FinishedView[v] = 0
      /\ \A w \in Workers : StepView[w] = "idle"
      /\ \A w \in Workers : pc[w] \notin {"run", "push", "notify", "graph_notify"}
  BY <1>0, <1>1, NothingUsed DEF GraphInv
<1>3. /\ JobsView = [v \in Ids |-> 0] /\ BegunView = [v \in Ids |-> 0]
      /\ FinishedView = [v \in Ids |-> 0] /\ StepView = [w \in Workers |-> "idle"]
  BY <1>2 DEF JobsView, BegunView, FinishedView, StepView
<1>4. NodeView = [w \in Workers |-> 0] /\ EdgeView = [w \in Workers |-> 1]
  BY <1>2 DEF NodeView, EdgeView, NodeAt, EdgeAt, InBody
<1>5. RunsView = 0 /\ MaxNodes \in Nat
  BY <1>1, GraphsAssumption DEF RunsView
<1>6. /\ successors \in Seq(Seq(Ids)) /\ Len(successors) <= MaxNodes
      /\ \A u \in Nodes : \A i \in DOMAIN successors[u] : successors[u][i] \in Nodes
      /\ Nodes = 1..Len(successors) /\ Len(successors) \in Nat
  <2>1. successors \in Seq(Seq(Nodes)) /\ Len(successors) <= MaxNodes
    BY <1>1, GraphsAssumption DEF Nodes
  <2>2. Nodes \subseteq Ids
    BY <1>1, GraphFacts
  <2>3. Seq(Seq(Nodes)) \subseteq Seq(Seq(Ids))
    BY <2>2
  <2>. QED
    BY <1>1, <2>1, <2>3, GraphFacts
<1>7. pendingDeps \in Seq(Int) /\ Len(pendingDeps) = Len(successors)
  <2>1. \A v \in Nodes : InDegree(successors, v) \in Int
    BY <1>1, DegreeFinite
  <2>2. pendingDeps \in [1..Len(successors) -> Int] /\ DOMAIN pendingDeps = 1..Len(successors)
    BY <1>1, <1>6, <2>1
  <2>. QED
    BY <1>6, <2>2, FunctionIsSeq
<1>8. P!TypeOK
  <2>1. /\ JobsView \in [Ids -> Nat] /\ BegunView \in [Ids -> Nat] /\ FinishedView \in [Ids -> Nat]
        /\ StepView \in [Workers -> {"idle", "fn", "release", "notify"}]
        /\ NodeView \in [Workers -> Nodes \cup {0}] /\ EdgeView \in [Workers -> Nat \ {0}]
        /\ \A w \in Workers : StepView[w] \in {"fn", "release"} => NodeView[w] \in Nodes
    BY <1>3, <1>4
  <2>2. RunsView \in 0..1 /\ loop \in 1..(MaxNodes + 1)
    BY <1>1, <1>5
  <2>. QED
    BY <1>1, <1>6, <1>7, <2>1, <2>2
       DEF P!TypeOK, P!Ids, P!Nodes, Ids, Nodes, RunsView, JobsView, BegunView, FinishedView,
           StepView, NodeView, EdgeView, NodeAt, EdgeAt
<1>9. P!DepsExact
  <2>1. \A u \in Nodes : FinishedView[u] = 0
    BY <1>1, <1>3, GraphFacts
  <2>2. \A u \in Nodes : \A i : P!Open(u, i)
    BY <2>1 DEF P!Open, FinishedView, Ids
  <2>3. \A v : \A u \in Nodes : P!OpenTo(v, u) = EdgesTo(u, v)
    BY <2>2 DEF P!OpenTo, EdgesTo
  <2>4. \A v : P!Unreleased(v) = EdgesInto(v)
    BY <2>3 DEF P!Unreleased, EdgesInto, P!Nodes, Nodes
  <2>5. \A v \in Nodes : pendingDeps[v] = P!Cardinality(P!Unreleased(v))
    BY <1>1, <2>4, DegreeIs, SameCardinality
  <2>. QED
    BY <2>5 DEF P!DepsExact, P!Nodes, Nodes
<1>10. P!Fresh
  BY <1>1, <1>2, <1>3, <1>9 DEF P!Fresh, P!None, P!Ids, Ids, JobsView, BegunView, FinishedView, StepView
<1>. QED
  BY <1>1, <1>8, <1>10 DEF P!Inv

\* The invariant TaskGraphProofs proves of a graph over an abstract executor
\* holds of the graph over this pool: exact counters, a first run that forgets
\* and repeats nothing where the graph is shielded.
THEOREM ViewInductive == Spec => []P!Inv
<1>1. PoolInv /\ GraphInv /\ [Next]_system => [P!Next]_(P!vars)
  BY GraphStepMaps, SameMoves, SameVars
<1>2. PoolInv /\ GraphInv /\ P!Inv /\ [Next]_system => P!Inv'
  BY <1>1, ViewBounds
<1>. QED
  BY PoolInductive, GraphInductive, InitView, <1>2, PTL DEF Spec

LEMMA PoolIdleHolds ==
  ASSUME PoolInv, GraphInv, P!Inv
  PROVE  PoolIdleMeansGraphDone
<1>. SUFFICES ASSUME main \notin {"build", "dispatch"}, pending = 0
              PROVE  /\ \A v \in Nodes : Executed(v)
                     /\ \A w \in Workers : edge[w] = 0
  BY DEF PoolIdleMeansGraphDone
<1>1. \A x \in Tasks : status[x] \notin {"submitted", "running", "finished"}
  BY InvParts, FS_EmptySet DEF Balanced, Unfinished
<1>2. \A w \in Workers : ~Executing(w)
  BY <1>1, InvParts DEF Working
<1>3. \A w \in Workers : edge[w] = 0 /\ StepView[w] = "idle"
  <2>1. \A w \in Workers : pc[w] \notin {"run", "push", "notify", "graph_notify"}
    BY <1>2 DEF Executing
  <2>. QED
    BY <2>1, OutsideBody, SeenFrom
<1>4. \A v \in Nodes : JobsView[v] = 0
  <2>. SUFFICES ASSUME NEW v \in Nodes PROVE JobsView[v] = 0
    OBVIOUS
  <2>1. {x \in Copies(v) : status[x] \in {"submitted"}} = {}
    BY <1>1 DEF Copies
  <2>2. Copied(v, {"submitted"}) = 0
    BY <2>1, FS_EmptySet DEF Copied
  <2>. QED
    BY <2>2, GraphFacts DEF JobsView, GraphInv
<1>5. main \in {"ran", "wait_pred", "wait_block", "wait_asleep", "waited"}
  BY DEF GraphInv
<1>6. P!Quiescent
  BY <1>3, <1>4, <1>5 DEF P!Quiescent, P!Nodes, Nodes, StepView, JobsView, Ids
<1>7. RunsView <= 1
  BY DEF RunsView
<1>8. P!NothingForgotten
  BY <1>7, P!NothingForgottenHolds, GraphsAssumption DEF RunsView
<1>9. ASSUME NEW v \in Nodes PROVE Executed(v)
  <2>1. v \in Ids /\ IsFiniteSet(Used)
    BY GraphFacts DEF GraphInv
  <2>2. FinishedView[v] > 0
    BY <1>6, <1>8 DEF P!NothingForgotten, P!Nodes, Nodes, FinishedView, Ids
  <2>3. FinishedView[v] = Copied(v, Ended) + Cardinality(Insiders(v))
    BY <2>1, ReturnedIs DEF FinishedView, Ended
  <2>4. Insiders(v) = {}
    BY <1>3 DEF Insiders
  <2>5. Copied(v, Ended) \in Nat /\ Cardinality(Insiders(v)) = 0
    BY <2>1, <2>4, CopiesFinite, FS_EmptySet DEF Ended
  <2>. QED
    BY <2>2, <2>3, <2>5 DEF Executed, Ended
<1>. QED
  BY <1>3, <1>9

\* When run() has returned and pending_ is 0 the whole graph has been executed
\* and no worker is inside on_node_complete() any more, for any graph and any
\* number of workers: wait_all() after run() waits for the graph.
THEOREM PoolIdleGraphDone == Spec => []PoolIdleMeansGraphDone
<1>1. PoolInv /\ GraphInv /\ P!Inv => PoolIdleMeansGraphDone
  BY PoolIdleHolds
<1>. QED
  BY PoolInductive, GraphInductive, ViewInductive, <1>1, PTL

LEMMA SameProperties ==
  /\ P!ShieldedInOrder => G!ShieldedInOrder
  /\ P!ShieldedOnceEach => G!ShieldedOnceEach
  /\ P!ShieldedWaitSound => G!ShieldedWaitSound
<1>0. \A v : P!Preds(v) = G!Preds(v)
  <2>. SUFFICES ASSUME NEW v PROVE P!Preds(v) = G!Preds(v)
    OBVIOUS
  <2>1. \A u : P!Edge(successors, u, v) <=> G!Edge(successors, u, v)
    BY DEF P!Edge, G!Edge
  <2>. QED
    BY <2>1 DEF P!Preds, G!Preds, P!Predecessors, G!Predecessors
<1>1. P!Shielded <=> G!Shielded
  BY <1>0 DEF P!Shielded, G!Shielded, P!Nodes, G!Nodes
<1>2. P!InOrder <=> G!InOrder
  BY <1>0 DEF P!InOrder, G!InOrder, P!Nodes, G!Nodes, P!Dispatched, G!Dispatched
<1>3. P!OnceEach <=> G!OnceEach
  BY DEF P!OnceEach, G!OnceEach, P!Nodes, G!Nodes
<1>4. P!WaitSound <=> G!WaitSound
  BY DEF P!WaitSound, G!WaitSound, P!Nodes, G!Nodes
<1>. QED
  BY <1>1, <1>2, <1>3, <1>4
     DEF P!ShieldedInOrder, P!ShieldedOnceEach, P!ShieldedWaitSound,
         G!ShieldedInOrder, G!ShieldedOnceEach, G!ShieldedWaitSound

\* A graph in which every node with predecessors has one that was added after it
\* is executed over the pool as its interface promises: each node once, after
\* all its predecessors, and wait() returns only when all have returned.
THEOREM ShieldedOverPool ==
  Spec => [](G!ShieldedInOrder /\ G!ShieldedOnceEach /\ G!ShieldedWaitSound)
<1>1. ASSUME P!Inv
      PROVE  G!ShieldedInOrder /\ G!ShieldedOnceEach /\ G!ShieldedWaitSound
  <2>1. RunsView <= 1
    BY DEF RunsView
  <2>. QED
    BY <1>1, <2>1, P!InOrderHolds, P!OnceEachHolds, P!WaitSoundHolds, SameProperties,
       GraphsAssumption DEF RunsView
<1>. QED
  BY ViewInductive, <1>1, PTL
=============================================================================

-------------------------- MODULE ThreadPoolProofs --------------------------
(***************************************************************************)
(* Proofs about ThreadPool for any number of workers, clients and tasks    *)
(* and any nesting of tasks.  As in ThreadPool the deques are perfect      *)
(* sequences: of the code this speaks in the first round of each deque     *)
(* (WorkStealingQueueRefinement!QueueIsDeque).                             *)
(***************************************************************************)
EXTENDS ThreadPool, FiniteSetTheorems, SequenceTheorems, TLAPS

-----------------------------------------------------------------------------
(* The inductive invariant.                                                *)

\* The places a submitted task can wait in, as boxes with contents: the hand of
\* a thread that enqueues, the inboxes, the deques, the workers that took one.
Boxes == ({"hand"} \X Threads) \cup ({"inbox", "deque", "taken"} \X Workers)

Elements(s) == {s[i] : i \in DOMAIN s}
Content(b) ==
  CASE b[1] = "hand"  -> IF pc[b[2]] = "push" THEN {item[b[2]]} ELSE {}
    [] b[1] = "inbox" -> Elements(inbox[b[2]])
    [] b[1] = "deque" -> Elements(deque[b[2]])
    [] b[1] = "taken" -> IF pc[b[2]] = "taken" THEN {task[b[2]]} ELSE {}

Contents == UNION {Content(b) : b \in Boxes}
Disjoint == \A b, c \in Boxes : b # c => Content(b) \cap Content(c) = {}
Submitted == {x \in Tasks : status[x] = "submitted"}

Injective(s) == \A i, j \in DOMAIN s : s[i] = s[j] => i = j
Unrepeated ==
  \A w \in Workers : Injective(inbox[w]) /\ Injective(deque[w])

\* The submitted tasks are the contents of the boxes, each in one of them, once.
Placed == Disjoint /\ Unrepeated /\ Contents = Submitted

\* A worker inside execute() has a task of its own, running or just finished.
Executing(w) == pc[w] \in {"run", "push", "count", "notify", "finish"}
Working ==
  /\ \A w \in Workers : Executing(w) =>
       /\ task[w] \in Tasks
       /\ status[task[w]] = IF pc[w] = "finish" THEN "finished" ELSE "running"
  /\ \A v, w \in Workers :
       Executing(v) /\ Executing(w) /\ task[v] = task[w] => v = w

Balanced == IsFiniteSet(Unfinished) /\ PendingBalance

\* A worker that has found its deque empty does not push until it has a task.
Searched(w) ==
  pc[w] \in {"inbox", "steal", "steal_cas", "lock", "pred_stop", "pred_queued",
             "block", "asleep", "exit_check", "exited"}
SearchedEmpty == \A w \in Workers : Searched(w) => deque[w] = <<>>

Inv == TypeOK /\ Placed /\ Working /\ Balanced /\ SearchedEmpty

\* The slots and the threads that queued_ counts are finitely many.
SlotsFinite ==
  /\ IsFiniteSet(Slots(inbox)) /\ IsFiniteSet(Slots(deque))
  /\ IsFiniteSet(Counting) /\ IsFiniteSet(Taking)

-----------------------------------------------------------------------------
(* Types.                                                                  *)

\* Workers are numbered, the round-robin counter picks one, Main is no worker.
LEMMA ThreadFacts ==
  /\ 0 \in Workers /\ Workers \subseteq Threads /\ Clients \subseteq Threads
  /\ \A i \in Nat : i % N \in Workers
  /\ Main \in Threads /\ Main \in Clients /\ Main \notin Workers
  /\ \A p \in Threads : p \in Clients <=> p \notin Workers
BY PoolAssumption DEF Workers, Threads

Labels(p) == IF p \in Workers THEN WorkerLabels ELSE ClientLabels
\* A label may be given to a thread of its kind.
LEMMA GotoType ==
  ASSUME TypeOK, NEW p \in Threads, NEW l \in Labels(p), Goto(p, l)
  PROVE  /\ pc' \in [Threads -> WorkerLabels \cup ClientLabels]
         /\ \A q \in Threads : pc'[q] \in Labels(q)
         /\ pc'[p] = l /\ \A q \in Threads \ {p} : pc'[q] = pc[q]
<1>1. /\ pc \in [Threads -> WorkerLabels \cup ClientLabels]
      /\ \A q \in Threads : pc[q] \in Labels(q)
  BY DEF TypeOK, Labels
<1>2. pc' = [pc EXCEPT ![p] = l]
  BY DEF Goto
<1>3. l \in WorkerLabels \cup ClientLabels
  BY DEF Labels
<1>. QED
  BY <1>1, <1>2, <1>3

\* Waking sleepers moves workers only, from cv_ back to its predicate.
LEMMA WakeType ==
  ASSUME TypeOK, NEW S \in SUBSET Sleepers, NEW p \in Threads, NEW l \in Labels(p),
         p \notin S, pc' = [WakeAll(S) EXCEPT ![p] = l]
  PROVE  /\ pc' \in [Threads -> WorkerLabels \cup ClientLabels]
         /\ \A q \in Threads : pc'[q] \in Labels(q)
         /\ pc'[p] = l
         /\ \A q \in Threads \ {p} :
              \/ pc'[q] = pc[q]
              \/ q \in Workers /\ pc[q] = "asleep" /\ pc'[q] = "lock"
<1>1. /\ pc \in [Threads -> WorkerLabels \cup ClientLabels]
      /\ \A q \in Threads : pc[q] \in Labels(q)
  BY DEF TypeOK, Labels
<1>2. \A q \in S : q \in Workers /\ pc[q] = "asleep"
  BY DEF Sleepers, At
<1>3. /\ pc' \in [Threads -> WorkerLabels \cup ClientLabels]
      /\ pc'[p] = l
      /\ \A q \in Threads \ {p} : pc'[q] = IF q \in S THEN "lock" ELSE pc[q]
  <2>1. l \in WorkerLabels \cup ClientLabels
    BY DEF Labels
  <2>2. WakeAll(S) \in [Threads -> WorkerLabels \cup ClientLabels]
    BY <1>1 DEF WakeAll, WorkerLabels
  <2>3. \A q \in Threads : WakeAll(S)[q] = IF q \in S THEN "lock" ELSE pc[q]
    BY DEF WakeAll
  <2>. QED
    BY <2>1, <2>2, <2>3
<1>4. \A q \in Workers : "lock" \in Labels(q)
  BY DEF Labels, WorkerLabels
<1>. QED
  BY <1>1, <1>2, <1>3, <1>4

\* A worker that is about to decrement pending_ still has an unfinished task.
LEMMA PendingPositive ==
  ASSUME TypeOK, Working, Balanced, NEW w \in Workers, pc[w] = "finish"
  PROVE  task[w] \in Unfinished /\ pending - 1 \in Nat
<1>1. task[w] \in Unfinished
  BY DEF Working, Executing, Unfinished
<1>2. pending \in Nat /\ pending # 0
  BY <1>1, FS_EmptySet, FS_CardinalityType DEF Balanced, PendingBalance
<1>. QED
  BY <1>1, <1>2

DataTyped ==
  /\ pending \in Nat /\ queued \in Int /\ stop \in BOOLEAN /\ rr \in Nat
  /\ inbox \in [Workers -> Seq(Tasks)] /\ deque \in [Workers -> Seq(Tasks)]
  /\ item \in [Threads -> Tasks \cup {NoTask}]
  /\ target \in [Threads -> Workers]
  /\ task \in [Workers -> Tasks \cup {NoTask}]
  /\ scan \in [Workers -> SUBSET Workers]
  /\ status \in [Tasks -> {"new", "submitted", "running", "finished", "retired"}]
PcTyped ==
  /\ pc \in [Threads -> WorkerLabels \cup ClientLabels]
  /\ \A p \in Threads : pc[p] \in Labels(p)

LEMMA TypeParts == TypeOK <=> DataTyped /\ PcTyped
BY DEF TypeOK, DataTyped, PcTyped, Labels

\* The part of enqueue() that is the same for workers and clients.
LEMMA BeginType ==
  ASSUME DataTyped, NEW p \in Threads, NEW x \in Tasks, Begin(p, x)
  PROVE  /\ pending' \in Nat
         /\ item' \in [Threads -> Tasks \cup {NoTask}]
         /\ status' \in [Tasks -> {"new", "submitted", "running", "finished", "retired"}]
<1>1. item' = [item EXCEPT ![p] = x] /\ item \in [Threads -> Tasks \cup {NoTask}]
  BY DEF Begin, DataTyped
<1>2. /\ status' = [status EXCEPT ![x] = "submitted"]
      /\ status \in [Tasks -> {"new", "submitted", "running", "finished", "retired"}]
  BY DEF Begin, DataTyped, Mark
<1>3. pending' \in Nat
  BY DEF Begin, DataTyped, Counted
<1>4. item' \in [Threads -> Tasks \cup {NoTask}]
  BY <1>1
<1>5. status' \in [Tasks -> {"new", "submitted", "running", "finished", "retired"}]
  BY <1>2
<1>. QED
  BY <1>3, <1>4, <1>5

\* The locals of enqueue() and try_steal() go back to their initial values.
LEMMA DropType ==
  ASSUME DataTyped, NEW p \in Threads, Drop(p)
  PROVE  /\ item' \in [Threads -> Tasks \cup {NoTask}]
         /\ target' \in [Threads -> Workers]
BY ThreadFacts DEF DataTyped, Drop

\* A thread that enqueues has a task in hand.
LEMMA HandTyped ==
  ASSUME Placed, NEW p \in Threads, pc[p] = "push"
  PROVE  item[p] \in Tasks /\ status[item[p]] = "submitted"
<1>1. <<"hand", p>> \in Boxes /\ item[p] \in Content(<<"hand", p>>)
  BY DEF Boxes, Content
<1>. QED
  BY <1>1 DEF Placed, Contents, Submitted

\* enqueue() keeps the types.
LEMMA SubmitType ==
  ASSUME Inv, NEW p \in Threads,
         (p \in Clients /\ SubmitOutside(p)) \/ (p \in Workers /\ SubmitInside(p))
  PROVE  TypeOK'
<1>. SUFFICES DataTyped' /\ PcTyped'
  BY DEF TypeOK, DataTyped, PcTyped, Labels
<1>0. DataTyped /\ PcTyped /\ TypeOK
  BY TypeParts DEF Inv
<1>1. CASE p \in Clients /\ SubmitOutside(p)
  <2>1. PICK x \in Tasks : Begin(p, x)
    BY <1>1 DEF SubmitOutside, Roots
  <2>2. /\ rr' = rr + 1 /\ target' = [target EXCEPT ![p] = rr % N]
        /\ queued' = queued /\ stop' = stop /\ inbox' = inbox /\ deque' = deque
        /\ task' = task /\ scan' = scan
    BY <1>1 DEF SubmitOutside, queues
  <2>3. rr' \in Nat /\ target' \in [Threads -> Workers]
    BY <1>0, <2>2, ThreadFacts DEF DataTyped
  <2>4. DataTyped'
    BY <1>0, <2>1, <2>2, <2>3, BeginType DEF DataTyped
  <2>5. "push" \in Labels(p)
    BY <1>1, ThreadFacts DEF Labels, ClientLabels
  <2>6. PcTyped'
    BY <1>0, <2>1, <2>5, GotoType DEF PcTyped, Begin
  <2>. QED
    BY <2>4, <2>6
<1>2. CASE p \in Workers /\ SubmitInside(p)
  <2>1. task[p] \in Tasks
    BY <1>2 DEF Inv, Working, Executing, SubmitInside, At
  <2>2. PICK x \in Tasks : Begin(p, x)
    BY <1>2, <2>1, PoolAssumption DEF SubmitInside
  <2>3. /\ rr' = rr /\ target' = target
        /\ queued' = queued /\ stop' = stop /\ inbox' = inbox /\ deque' = deque
        /\ task' = task /\ scan' = scan
    BY <1>2 DEF SubmitInside, queues
  <2>4. DataTyped'
    BY <1>0, <2>2, <2>3, BeginType DEF DataTyped
  <2>5. "push" \in Labels(p)
    BY <1>2 DEF Labels, WorkerLabels
  <2>6. PcTyped'
    BY <1>0, <2>2, <2>5, GotoType DEF PcTyped, Begin
  <2>. QED
    BY <2>4, <2>6
<1>. QED
  BY <1>1, <1>2

LEMMA EnqueueType ==
  ASSUME Inv, NEW p \in Threads, Enqueue(p)
  PROVE  TypeOK'
<1>. SUFFICES DataTyped' /\ PcTyped'
  BY DEF TypeOK, DataTyped, PcTyped, Labels
<1>0. DataTyped /\ PcTyped /\ TypeOK
  BY TypeParts DEF Inv
<1>a. {"push", "count", "notify"} \subseteq Labels(p)
      /\ (IF p \in Workers THEN "run" ELSE "idle") \in Labels(p)
  BY DEF Labels, WorkerLabels, ClientLabels
<1>1. CASE Push(p)
  <2>1. item[p] \in Tasks
    BY <1>1, HandTyped DEF Push, At, Inv
  <2>2. \A q \in Seq(Tasks) : Append(q, item[p]) \in Seq(Tasks)
    BY <2>1
  <2>3. inbox' \in [Workers -> Seq(Tasks)] /\ deque' \in [Workers -> Seq(Tasks)]
    <3>1. CASE p \in Workers
      <4>1. deque' = [deque EXCEPT ![p] = Append(deque[p], item[p])] /\ inbox' = inbox
        BY <1>1, <3>1 DEF Push, Queued
      <4>. QED
        BY <1>0, <2>2, <3>1, <4>1 DEF DataTyped
    <3>2. CASE p \notin Workers
      <4>1. /\ inbox' = [inbox EXCEPT ![target[p]] = Append(inbox[target[p]], item[p])]
            /\ deque' = deque
        BY <1>1, <3>2 DEF Push, Queued
      <4>2. target[p] \in Workers
        BY <1>0 DEF DataTyped
      <4>. QED
        BY <1>0, <2>2, <4>1, <4>2 DEF DataTyped
    <3>. QED
      BY <3>1, <3>2
  <2>4. /\ pending' = pending /\ queued' = queued /\ stop' = stop /\ rr' = rr
        /\ task' = task /\ scan' = scan /\ status' = status
    BY <1>1 DEF Push, counters
  <2>5. DataTyped'
    BY <1>0, <1>1, <2>3, <2>4, DropType DEF DataTyped, Push
  <2>6. PcTyped'
    BY <1>0, <1>1, <1>a, GotoType DEF PcTyped, Push
  <2>. QED
    BY <2>5, <2>6
<1>2. CASE Count(p)
  <2>1. queued' \in Int
    BY <1>0, <1>2 DEF DataTyped, Count, OneMore
  <2>2. UNCHANGED <<pending, stop, rr, inbox, deque, item, target, task, scan, status>>
    BY <1>2 DEF Count, queues, locals
  <2>3. DataTyped'
    BY <1>0, <2>1, <2>2 DEF DataTyped
  <2>4. PcTyped'
    BY <1>0, <1>2, <1>a, GotoType DEF PcTyped, Count
  <2>. QED
    BY <2>3, <2>4
<1>3. CASE Notify(p)
  <2>1. DataTyped'
    BY <1>0, <1>3 DEF DataTyped, Notify, data, counters, queues, locals
  <2>2. PICK S \in SUBSET Sleepers :
          pc' = [WakeAll(S) EXCEPT ![p] = IF p \in Workers THEN "run" ELSE "idle"]
    BY <1>3 DEF Notify, Wakes, OneSleeper, Sleepers
  <2>3. p \notin S
    BY <1>3, <2>2 DEF Notify, At, Sleepers
  <2>4. PcTyped'
    BY <1>0, <1>a, <2>2, <2>3, WakeType DEF PcTyped
  <2>. QED
    BY <2>1, <2>4
<1>. QED
  BY <1>1, <1>2, <1>3 DEF Enqueue

LEMMA DataKept == DataTyped /\ UNCHANGED data => DataTyped'
BY DEF DataTyped, data, counters, queues, locals

\* Taking a task from a sequence: what is left and what was taken.
LEMMA Taken ==
  ASSUME NEW S, NEW q \in Seq(S), q # <<>>
  PROVE  /\ Len(q) \in Nat \ {0} /\ q[Len(q)] \in S /\ Head(q) \in S /\ Head(q) = q[1]
         /\ SubSeq(q, 1, Len(q) - 1) \in Seq(S) /\ Tail(q) \in Seq(S)
         /\ SubSeq(q, 2, Len(q)) = Tail(q)
<1>1. Len(q) \in Nat \ {0}
  BY EmptySeq
<1>2. q[Len(q)] \in S /\ q[1] \in S
  BY <1>1, ElementOfSeq
<1>3. SubSeq(q, 1, Len(q) - 1) \in Seq(S)
  BY <1>1, <1>2, SubSeqProperties, ElementOfSeq
<1>4. Head(q) = q[1] /\ Tail(q) \in Seq(S)
  BY HeadTailProperties
<1>5. SubSeq(q, 2, Len(q)) = Tail(q)
  BY TailIsSubSeq
<1>. QED
  BY <1>1, <1>2, <1>3, <1>4, <1>5

\* Finding a task keeps the types.
LEMMA FindType ==
  ASSUME Inv, NEW w \in Workers, Find(w)
  PROVE  TypeOK'
<1>. SUFFICES DataTyped' /\ PcTyped'
  BY DEF TypeOK, DataTyped, PcTyped, Labels
<1>0. DataTyped /\ PcTyped /\ TypeOK /\ w \in Threads
  BY TypeParts, ThreadFacts DEF Inv
<1>a. {"taken", "inbox", "steal", "steal_cas", "lock"} \subseteq Labels(w)
  BY DEF Labels, WorkerLabels
<1>b. inbox[w] \in Seq(Tasks) /\ deque[w] \in Seq(Tasks)
  BY <1>0 DEF DataTyped
<1>1. CASE PopOwn(w)
  <2>1. UNCHANGED <<counters, inbox, item, target, scan, status>>
    BY <1>1 DEF PopOwn
  <2>2. CASE /\ deque[w] # <<>> /\ Got(w, deque[w][Len(deque[w])])
             /\ deque' = [deque EXCEPT ![w] = SubSeq(deque[w], 1, Len(deque[w]) - 1)]
    <3>1. task' \in [Workers -> Tasks \cup {NoTask}]
      BY <1>0, <1>b, <2>2, Taken DEF DataTyped, Got
    <3>2. deque' \in [Workers -> Seq(Tasks)]
      BY <1>0, <1>b, <2>2, Taken DEF DataTyped
    <3>3. DataTyped'
      BY <1>0, <2>1, <3>1, <3>2 DEF DataTyped, counters
    <3>4. PcTyped'
      BY <1>0, <1>a, <2>2, GotoType DEF PcTyped, Got
    <3>. QED
      BY <3>3, <3>4
  <2>3. CASE Goto(w, "inbox") /\ UNCHANGED <<task, deque>>
    <3>1. DataTyped'
      BY <1>0, <2>1, <2>3 DEF DataTyped, counters
    <3>2. PcTyped'
      BY <1>0, <1>a, <2>3, GotoType DEF PcTyped
    <3>. QED
      BY <3>1, <3>2
  <2>. QED
    BY <1>1, <2>2, <2>3 DEF PopOwn
<1>2. CASE PopInbox(w)
  <2>1. UNCHANGED <<counters, deque, item, target, status>>
    BY <1>2 DEF PopInbox
  <2>2. CASE /\ inbox[w] # <<>> /\ Got(w, Head(inbox[w]))
             /\ inbox' = [inbox EXCEPT ![w] = Tail(inbox[w])] /\ UNCHANGED scan
    <3>1. task' \in [Workers -> Tasks \cup {NoTask}]
      BY <1>0, <1>b, <2>2, Taken DEF DataTyped, Got
    <3>2. inbox' \in [Workers -> Seq(Tasks)]
      BY <1>0, <1>b, <2>2, Taken DEF DataTyped
    <3>3. DataTyped'
      BY <1>0, <2>1, <2>2, <3>1, <3>2 DEF DataTyped, counters
    <3>4. PcTyped'
      BY <1>0, <1>a, <2>2, GotoType DEF PcTyped, Got
    <3>. QED
      BY <3>3, <3>4
  <2>3. CASE /\ scan' = [scan EXCEPT ![w] = Workers \ {w}]
             /\ Goto(w, "steal") /\ UNCHANGED <<task, inbox>>
    <3>1. scan' \in [Workers -> SUBSET Workers]
      BY <1>0, <2>3 DEF DataTyped
    <3>2. DataTyped'
      BY <1>0, <2>1, <2>3, <3>1 DEF DataTyped, counters
    <3>3. PcTyped'
      BY <1>0, <1>a, <2>3, GotoType DEF PcTyped
    <3>. QED
      BY <3>2, <3>3
  <2>. QED
    BY <1>2, <2>2, <2>3 DEF PopInbox
<1>3. CASE StealLook(w)
  <2>1. UNCHANGED <<counters, queues, task, status>>
    BY <1>3 DEF StealLook
  <2>2. PICK v \in scan[w] :
          /\ scan' = [scan EXCEPT ![w] = scan[w] \ {v}]
          /\ \/ /\ deque[v] # <<>>
                /\ item' = [item EXCEPT ![w] = Head(deque[v])]
                /\ target' = [target EXCEPT ![w] = v]
                /\ Goto(w, "steal_cas")
             \/ UNCHANGED <<item, target, pc>>
    BY <1>3 DEF StealLook
  <2>3. v \in Workers /\ deque[v] \in Seq(Tasks) /\ scan[w] \subseteq Workers
    BY <1>0 DEF DataTyped
  <2>4. scan' \in [Workers -> SUBSET Workers]
    BY <1>0, <2>2, <2>3 DEF DataTyped
  <2>5. item' \in [Threads -> Tasks \cup {NoTask}] /\ target' \in [Threads -> Workers]
    <3>1. deque[v] # <<>> => Head(deque[v]) \in Tasks
      BY <2>3, Taken
    <3>. QED
      BY <1>0, <2>2, <2>3, <3>1 DEF DataTyped
  <2>6. DataTyped'
    BY <1>0, <2>1, <2>4, <2>5 DEF DataTyped, counters, queues
  <2>7. PcTyped'
    <3>1. CASE Goto(w, "steal_cas")
      BY <1>0, <1>a, <3>1, GotoType DEF PcTyped
    <3>2. CASE UNCHANGED pc
      BY <1>0, <3>2 DEF PcTyped
    <3>. QED
      BY <2>2, <3>1, <3>2
  <2>. QED
    BY <2>6, <2>7
<1>4. CASE StealCas(w)
  <2>1. UNCHANGED <<counters, inbox, status>> /\ Drop(w)
    BY <1>4 DEF StealCas
  <2>. DEFINE v == target[w]
  <2>2. v \in Workers /\ deque[v] \in Seq(Tasks)
    BY <1>0 DEF DataTyped
  <2>3. CASE /\ OnTop(v, item[w]) /\ Got(w, item[w])
             /\ deque' = [deque EXCEPT ![v] = SubSeq(deque[v], 2, Len(deque[v]))]
             /\ scan' = [scan EXCEPT ![w] = {}]
    <3>1. task' \in [Workers -> Tasks \cup {NoTask}]
      BY <1>0, <2>3 DEF DataTyped, Got
    <3>2. deque' \in [Workers -> Seq(Tasks)]
      BY <1>0, <2>2, <2>3, Taken DEF DataTyped, OnTop
    <3>3. scan' \in [Workers -> SUBSET Workers]
      BY <1>0, <2>3 DEF DataTyped
    <3>4. DataTyped'
      BY <1>0, <2>1, <3>1, <3>2, <3>3, DropType DEF DataTyped, counters
    <3>5. PcTyped'
      BY <1>0, <1>a, <2>3, GotoType DEF PcTyped, Got
    <3>. QED
      BY <3>4, <3>5
  <2>4. CASE Goto(w, "steal") /\ UNCHANGED <<task, deque, scan>>
    <3>1. DataTyped'
      BY <1>0, <2>1, <2>4, DropType DEF DataTyped, counters
    <3>2. PcTyped'
      BY <1>0, <1>a, <2>4, GotoType DEF PcTyped
    <3>. QED
      BY <3>1, <3>2
  <2>. QED
    BY <1>4, <2>3, <2>4 DEF StealCas
<1>5. CASE StealGiveUp(w)
  <2>1. DataTyped'
    BY <1>0, <1>5, DataKept DEF StealGiveUp
  <2>2. PcTyped'
    BY <1>0, <1>a, <1>5, GotoType DEF PcTyped, StealGiveUp
  <2>. QED
    BY <2>1, <2>2
<1>. QED
  BY <1>1, <1>2, <1>3, <1>4, <1>5 DEF Find

\* Executing a task keeps the types.
LEMMA ExecuteType ==
  ASSUME Inv, NEW w \in Workers, Uncount(w) \/ BodyReturns(w) \/ Finish(w) \/ NotifyDone(w)
  PROVE  TypeOK'
<1>. SUFFICES DataTyped' /\ PcTyped'
  BY DEF TypeOK, DataTyped, PcTyped, Labels
<1>0. DataTyped /\ PcTyped /\ TypeOK /\ w \in Threads
  BY TypeParts, ThreadFacts DEF Inv
<1>a. {"run", "finish", "notify_done", "pop"} \subseteq Labels(w)
  BY DEF Labels, WorkerLabels
<1>b. ASSUME NEW x, NEW l \in {"running", "finished", "retired"}, Mark(x, l)
      PROVE  status' \in [Tasks -> {"new", "submitted", "running", "finished", "retired"}]
  BY <1>0, <1>b DEF DataTyped, Mark
<1>1. CASE Uncount(w)
  <2>1. queued' \in Int
    BY <1>0, <1>1 DEF DataTyped, Uncount
  <2>2. DataTyped'
    BY <1>0, <1>1, <1>b, <2>1 DEF DataTyped, Uncount, queues, locals
  <2>3. PcTyped'
    BY <1>0, <1>a, <1>1, GotoType DEF PcTyped, Uncount
  <2>. QED
    BY <2>2, <2>3
<1>2. CASE BodyReturns(w)
  <2>1. DataTyped'
    BY <1>0, <1>2, <1>b DEF DataTyped, BodyReturns, counters, queues, locals
  <2>2. PcTyped'
    BY <1>0, <1>a, <1>2, GotoType DEF PcTyped, BodyReturns
  <2>. QED
    BY <2>1, <2>2
<1>3. CASE Finish(w)
  <2>1. pending' \in Nat
    BY <1>3, PendingPositive DEF Finish, At, Inv
  <2>2. task' \in [Workers -> Tasks \cup {NoTask}]
    BY <1>0, <1>3 DEF DataTyped, Finish
  <2>3. DataTyped'
    BY <1>0, <1>3, <1>b, <2>1, <2>2 DEF DataTyped, Finish, queues
  <2>4. AfterTask \in Labels(w)
    BY <1>a DEF AfterTask
  <2>5. PcTyped'
    BY <1>0, <1>3, <2>4, GotoType DEF PcTyped, Finish
  <2>. QED
    BY <2>3, <2>5
<1>4. CASE NotifyDone(w)
  <2>1. DataTyped'
    BY <1>0, <1>4, DataKept DEF NotifyDone
  <2>2. PcTyped'
    BY <1>0, <1>a, <1>4, ThreadFacts DEF PcTyped, NotifyDone, Unblocked, Labels, ClientLabels
  <2>. QED
    BY <2>1, <2>2
<1>. QED
  BY <1>1, <1>2, <1>3, <1>4

\* Sleeping, waking, waiting and shutting down change program counters and stop_.
LEMMA ControlType ==
  ASSUME Inv,
         \/ \E w \in Workers : Idle(w) \/ SpuriousWakeup(w)
         \/ WaitAll \/ SpuriousDone \/ Destroy \/ Shutdown
  PROVE  TypeOK'
<1>. SUFFICES DataTyped' /\ PcTyped'
  BY DEF TypeOK, DataTyped, PcTyped, Labels
<1>0. DataTyped /\ PcTyped /\ TypeOK
  BY TypeParts DEF Inv
<1>1. ASSUME NEW w \in Workers, Idle(w) \/ SpuriousWakeup(w)
      PROVE  DataTyped' /\ PcTyped'
  <2>1. UNCHANGED data
    BY <1>1 DEF Idle, Lock, PredStop, PredQueued, Block, ExitCheck, SpuriousWakeup
  <2>2. PICK l \in WorkerLabels : Goto(w, l)
    BY <1>1 DEF Idle, Lock, PredStop, PredQueued, Block, ExitCheck, SpuriousWakeup, WorkerLabels
  <2>3. w \in Threads /\ l \in Labels(w)
    BY ThreadFacts DEF Labels
  <2>. QED
    BY <1>0, <2>1, <2>2, <2>3, GotoType, DataKept DEF PcTyped
<1>2. CASE WaitAll \/ SpuriousDone \/ Destroy \/ Join
  <2>1. UNCHANGED data \/ (Destroy /\ stop' = TRUE)
    BY <1>2 DEF WaitAll, SpuriousDone, Destroy, Join
  <2>2. PICK l \in ClientLabels : Goto(Main, l)
    BY <1>2 DEF WaitAll, SpuriousDone, Destroy, Join, ClientLabels
  <2>3. Main \in Threads /\ l \in Labels(Main)
    BY ThreadFacts DEF Labels
  <2>4. DataTyped'
    BY <1>0, <2>1, DataKept DEF DataTyped, Destroy, queues, locals
  <2>. QED
    BY <1>0, <2>2, <2>3, <2>4, GotoType DEF PcTyped
<1>3. CASE NotifyStop
  <2>1. DataTyped'
    BY <1>0, <1>3, DataKept DEF NotifyStop
  <2>2. PICK S \in SUBSET Sleepers : pc' = [WakeAll(S) EXCEPT ![Main] = "join"]
    BY <1>3 DEF NotifyStop, StopWakes, Sleepers
  <2>3. Main \in Threads /\ Main \notin S /\ "join" \in Labels(Main)
    BY <2>2, ThreadFacts DEF Sleepers, Labels, ClientLabels
  <2>4. PcTyped'
    BY <1>0, <2>2, <2>3, WakeType DEF PcTyped
  <2>. QED
    BY <2>1, <2>4
<1>. QED
  BY <1>1, <1>2, <1>3 DEF Shutdown

\* Every step of the pool keeps the types.
LEMMA TypeStep == Inv /\ [Next]_vars => TypeOK'
<1>. SUFFICES ASSUME Inv, [Next]_vars PROVE TypeOK'
  OBVIOUS
<1>1. CASE \E w \in Workers : Worker(w) \/ SpuriousWakeup(w)
  <2>1. PICK w \in Workers : Worker(w) \/ SpuriousWakeup(w)
    BY <1>1
  <2>2. w \in Threads
    BY ThreadFacts
  <2>. QED
    BY <2>1, <2>2, EnqueueType, SubmitType, FindType, ExecuteType, ControlType
       DEF Worker, Execute
<1>2. CASE \E c \in Clients : SubmitOutside(c) \/ Enqueue(c)
  BY <1>2, ThreadFacts, EnqueueType, SubmitType
<1>3. CASE WaitAll \/ SpuriousDone \/ Destroy \/ Shutdown
  BY <1>3, ControlType
<1>4. CASE UNCHANGED vars
  BY <1>4 DEF Inv, TypeOK, vars, data, counters, queues, locals
<1>. QED
  BY <1>1, <1>2, <1>3, <1>4 DEF Next

-----------------------------------------------------------------------------
(* Tasks move between boxes.                                               *)

Hand(p)     == <<"hand", p>>
Inbox(w)    == <<"inbox", w>>
OwnDeque(w) == <<"deque", w>>
TakenBox(w) == <<"taken", w>>

LEMMA BoxesAre ==
  /\ \A p \in Threads : Hand(p) \in Boxes
  /\ \A w \in Workers : Inbox(w) \in Boxes /\ OwnDeque(w) \in Boxes /\ TakenBox(w) \in Boxes
  /\ \A b \in Boxes : \/ \E p \in Threads : b = Hand(p)
                      \/ \E w \in Workers : b \in {Inbox(w), OwnDeque(w), TakenBox(w)}
  /\ \A p, q : Hand(p) \notin {Inbox(q), OwnDeque(q), TakenBox(q)}
  /\ \A p, q : Inbox(p) \notin {OwnDeque(q), TakenBox(q)} /\ OwnDeque(p) # TakenBox(q)
  /\ \A p, q : p # q => /\ Hand(p) # Hand(q) /\ Inbox(p) # Inbox(q)
                        /\ OwnDeque(p) # OwnDeque(q) /\ TakenBox(p) # TakenBox(q)
BY DEF Boxes, Hand, Inbox, OwnDeque, TakenBox

LEMMA ContentIs ==
  ASSUME NEW p
  PROVE  /\ Content(Hand(p)) = IF pc[p] = "push" THEN {item[p]} ELSE {}
         /\ Content(Inbox(p)) = Elements(inbox[p])
         /\ Content(OwnDeque(p)) = Elements(deque[p])
         /\ Content(TakenBox(p)) = IF pc[p] = "taken" THEN {task[p]} ELSE {}
         /\ Content(Hand(p))' = IF pc'[p] = "push" THEN {item'[p]} ELSE {}
         /\ Content(Inbox(p))' = Elements(inbox'[p])
         /\ Content(OwnDeque(p))' = Elements(deque'[p])
         /\ Content(TakenBox(p))' = IF pc'[p] = "taken" THEN {task'[p]} ELSE {}
<1>1. /\ Content(Hand(p)) = IF pc[p] = "push" THEN {item[p]} ELSE {}
      /\ Content(Hand(p))' = IF pc'[p] = "push" THEN {item'[p]} ELSE {}
  BY DEF Content, Hand
<1>2. /\ Content(Inbox(p)) = Elements(inbox[p])
      /\ Content(Inbox(p))' = Elements(inbox'[p])
  BY DEF Content, Inbox, Elements
<1>3. /\ Content(OwnDeque(p)) = Elements(deque[p])
      /\ Content(OwnDeque(p))' = Elements(deque'[p])
  BY DEF Content, OwnDeque, Elements
<1>4. /\ Content(TakenBox(p)) = IF pc[p] = "taken" THEN {task[p]} ELSE {}
      /\ Content(TakenBox(p))' = IF pc'[p] = "taken" THEN {task'[p]} ELSE {}
  BY DEF Content, TakenBox
<1>. QED
  BY <1>1, <1>2, <1>3, <1>4

\* A task that moves from one box to another stays in one box.
LEMMA Moved ==
  ASSUME Disjoint, NEW from \in Boxes, NEW to \in Boxes, NEW x, from # to,
         x \in Content(from), Content(from)' = Content(from) \ {x},
         Content(to)' = Content(to) \cup {x},
         \A b \in Boxes \ {from, to} : Content(b)' = Content(b)
  PROVE  Disjoint' /\ Contents' = Contents
<1>1. \A b \in Boxes : x \in Content(b) => b = from
  BY DEF Disjoint
<1>2. \A b \in Boxes : \A y : y \in Content(b)' <=>
        \/ y = x /\ b = to
        \/ y # x /\ y \in Content(b)
  BY <1>1
<1>3. Disjoint'
  BY <1>2 DEF Disjoint
<1>4. Contents' = Contents
  BY <1>2 DEF Contents
<1>. QED
  BY <1>3, <1>4

\* A new task goes to one box.
LEMMA Added ==
  ASSUME Disjoint, NEW to \in Boxes, NEW x, x \notin Contents,
         Content(to)' = Content(to) \cup {x},
         \A b \in Boxes \ {to} : Content(b)' = Content(b)
  PROVE  Disjoint' /\ Contents' = Contents \cup {x}
<1>1. \A b \in Boxes : x \notin Content(b)
  BY DEF Contents
<1>2. \A b \in Boxes : \A y : y \in Content(b)' <=>
        (y = x /\ b = to) \/ (y # x /\ y \in Content(b))
  BY <1>1
<1>3. Disjoint'
  BY <1>2 DEF Disjoint
<1>4. Contents' = Contents \cup {x}
  BY <1>2 DEF Contents
<1>. QED
  BY <1>3, <1>4

\* A task that leaves its box is in none.
LEMMA Removed ==
  ASSUME Disjoint, NEW from \in Boxes, NEW x, x \in Content(from),
         Content(from)' = Content(from) \ {x},
         \A b \in Boxes \ {from} : Content(b)' = Content(b)
  PROVE  Disjoint' /\ Contents' = Contents \ {x}
<1>1. \A b \in Boxes : x \in Content(b) => b = from
  BY DEF Disjoint
<1>2. \A b \in Boxes : \A y : y \in Content(b)' <=> (y # x /\ y \in Content(b))
  BY <1>1
<1>3. Disjoint'
  BY <1>2 DEF Disjoint
<1>4. Contents' = Contents \ {x}
  BY <1>2 DEF Contents
<1>. QED
  BY <1>3, <1>4

\* What the three operations do to a sequence without repetitions.
LEMMA PushEnd ==
  ASSUME NEW S, NEW q \in Seq(S), NEW x \in S, Injective(q), x \notin Elements(q)
  PROVE  Injective(Append(q, x)) /\ Elements(Append(q, x)) = Elements(q) \cup {x}
<1>. DEFINE r == Append(q, x)
<1>1. /\ r \in Seq(S) /\ Len(r) = Len(q) + 1 /\ Len(q) \in Nat
      /\ DOMAIN q = 1..Len(q) /\ DOMAIN r = 1..(Len(q) + 1)
      /\ \A i \in 1..Len(q) : r[i] = q[i]
      /\ r[Len(q) + 1] = x
  BY AppendProperties, LenProperties
<1>. HIDE DEF r
<1>2. \A i : i \in DOMAIN r <=> i \in DOMAIN q \/ i = Len(q) + 1
  BY <1>1
<1>3. \A i \in DOMAIN q : r[i] = q[i] /\ q[i] # x
  BY <1>1 DEF Elements
<1>4. Injective(r)
  BY <1>1, <1>2, <1>3 DEF Injective
<1>5. Elements(r) = Elements(q) \cup {x}
  BY <1>1, <1>2, <1>3 DEF Elements
<1>. QED
  BY <1>4, <1>5 DEF r

LEMMA PopEnd ==
  ASSUME NEW S, NEW q \in Seq(S), q # <<>>, Injective(q)
  PROVE  LET r == SubSeq(q, 1, Len(q) - 1)
         IN  /\ Injective(r) /\ Elements(r) = Elements(q) \ {q[Len(q)]}
             /\ q[Len(q)] \in Elements(q)
             /\ DOMAIN q = 1..Len(q) /\ Len(q) \in DOMAIN q /\ DOMAIN r = DOMAIN q \ {Len(q)}
<1>. DEFINE r == SubSeq(q, 1, Len(q) - 1)
<1>1. Len(q) \in Nat \ {0} /\ DOMAIN q = 1..Len(q) /\ \A i \in 1..Len(q) : q[i] \in S
  BY EmptySeq, ElementOfSeq
<1>2. /\ r \in Seq(S) /\ Len(r) = Len(q) - 1
      /\ \A i \in 1..(Len(q) - 1) : r[i] = q[i]
  BY <1>1, SubSeqProperties
<1>3. DOMAIN r = 1..(Len(q) - 1)
  BY <1>2
<1>. HIDE DEF r
<1>4. DOMAIN r = DOMAIN q \ {Len(q)} /\ Len(q) \in DOMAIN q
  BY <1>1, <1>3
<1>5. \A i \in DOMAIN r : i \in DOMAIN q /\ r[i] = q[i]
  BY <1>2, <1>3, <1>4
<1>6. \A i \in DOMAIN r : r[i] # q[Len(q)]
  BY <1>4, <1>5 DEF Injective
<1>7. Injective(r)
  BY <1>5 DEF Injective
<1>8. Elements(r) = Elements(q) \ {q[Len(q)]} /\ q[Len(q)] \in Elements(q)
  <2>1. \A y \in Elements(r) : y \in Elements(q) /\ y # q[Len(q)]
    BY <1>5, <1>6 DEF Elements
  <2>2. \A y \in Elements(q) : y # q[Len(q)] => y \in Elements(r)
    BY <1>4, <1>5 DEF Elements
  <2>3. q[Len(q)] \in Elements(q)
    BY <1>4 DEF Elements
  <2>. QED
    BY <2>1, <2>2, <2>3
<1>. QED
  BY <1>1, <1>4, <1>7, <1>8 DEF r

LEMMA PopFront ==
  ASSUME NEW S, NEW q \in Seq(S), q # <<>>, Injective(q)
  PROVE  /\ Injective(Tail(q)) /\ Elements(Tail(q)) = Elements(q) \ {Head(q)}
         /\ Head(q) \in Elements(q)
         /\ DOMAIN q = 1..Len(q) /\ Len(q) \in DOMAIN q
         /\ DOMAIN Tail(q) = DOMAIN q \ {Len(q)}
<1>. DEFINE r == Tail(q)
<1>1. Len(q) \in Nat \ {0} /\ DOMAIN q = 1..Len(q) /\ Head(q) = q[1]
  BY EmptySeq, Taken
<1>2. /\ r \in Seq(S) /\ Len(r) = Len(q) - 1
      /\ \A i \in 1..Len(r) : r[i] = q[i + 1]
  BY HeadTailProperties
<1>3. DOMAIN r = 1..(Len(q) - 1)
  BY <1>2
<1>. HIDE DEF r
<1>4. \A i \in DOMAIN r : i + 1 \in DOMAIN q /\ i + 1 # 1 /\ r[i] = q[i + 1]
  BY <1>1, <1>2, <1>3
<1>5. \A i \in DOMAIN q : i # 1 => i - 1 \in DOMAIN r /\ r[i - 1] = q[i]
  <2>. TAKE i \in DOMAIN q
  <2>1. i # 1 => i - 1 \in DOMAIN r /\ (i - 1) + 1 = i
    BY <1>1, <1>3
  <2>. QED
    BY <1>4, <2>1
<1>6. 1 \in DOMAIN q /\ Len(q) \in DOMAIN q /\ DOMAIN r = DOMAIN q \ {Len(q)}
  BY <1>1, <1>3
<1>7. Injective(r)
  <2>. SUFFICES ASSUME NEW i \in DOMAIN r, NEW j \in DOMAIN r, r[i] = r[j] PROVE i = j
    BY DEF Injective
  <2>1. i + 1 = j + 1
    BY <1>4 DEF Injective
  <2>. QED
    BY <1>1, <1>3, <2>1
<1>8. Elements(r) = Elements(q) \ {q[1]} /\ q[1] \in Elements(q)
  <2>1. \A y \in Elements(r) : y \in Elements(q) /\ y # q[1]
    BY <1>4, <1>6 DEF Elements, Injective
  <2>2. \A y \in Elements(q) : y # q[1] => y \in Elements(r)
    BY <1>5 DEF Elements
  <2>3. q[1] \in Elements(q)
    BY <1>6 DEF Elements
  <2>. QED
    BY <2>1, <2>2, <2>3
<1>. QED
  BY <1>1, <1>6, <1>7, <1>8 DEF r

\* Which boxes a step of p leaves alone: those of the others, and its own hand
\* and its own "taken" when it neither comes from nor goes to those labels.
LEMMA OwnStep ==
  ASSUME TypeOK, NEW p \in Threads, NEW l \in Labels(p), Goto(p, l),
         \A q \in Threads \ {p} : item'[q] = item[q],
         \A w \in Workers \ {p} : task'[w] = task[w]
  PROVE  /\ \A q \in Threads \ {p} : Content(Hand(q))' = Content(Hand(q))
         /\ \A w \in Workers \ {p} : Content(TakenBox(w))' = Content(TakenBox(w))
         /\ pc[p] # "push" /\ l # "push" => Content(Hand(p))' = Content(Hand(p))
         /\ pc[p] # "taken" /\ l # "taken" => Content(TakenBox(p))' = Content(TakenBox(p))
<1>1. pc'[p] = l /\ \A q \in Threads \ {p} : pc'[q] = pc[q]
  BY GotoType
<1>. QED
  BY <1>1, ContentIs, ThreadFacts

\* Steps after which every box has what it had.
LEMMA PlacedKept ==
  ASSUME Placed, \A b \in Boxes : Content(b)' = Content(b),
         UNCHANGED <<inbox, deque>>, Submitted' = Submitted
  PROVE  Placed'
<1>1. Disjoint' /\ Contents' = Contents
  BY DEF Placed, Disjoint, Contents
<1>2. Unrepeated'
  BY DEF Placed, Unrepeated
<1>. QED
  BY <1>1, <1>2 DEF Placed

\* A client or a worker takes up a task that nobody has submitted before.
LEMMA BeginPlaced ==
  ASSUME Inv, NEW p \in Threads, NEW x \in Tasks, Begin(p, x),
         pc[p] # "push", pc[p] # "taken", UNCHANGED <<inbox, deque, task>>
  PROVE  Placed'
<1>1. /\ TypeOK /\ Placed /\ DataTyped
      /\ item \in [Threads -> Tasks \cup {NoTask}]
      /\ status \in [Tasks -> {"new", "submitted", "running", "finished", "retired"}]
  BY TypeParts DEF Inv, DataTyped
<1>2. "push" \in Labels(p)
  BY DEF Labels, WorkerLabels, ClientLabels
<1>3. item'[p] = x /\ \A q \in Threads \ {p} : item'[q] = item[q]
  BY <1>1 DEF Begin
<1>4. Goto(p, "push") /\ pc'[p] = "push"
  BY <1>1, <1>2, GotoType DEF Begin
<1>5. Content(Hand(p)) = {} /\ Content(Hand(p))' = Content(Hand(p)) \cup {x}
  BY <1>3, <1>4, ContentIs
<1>6. /\ \A q \in Threads \ {p} : Content(Hand(q))' = Content(Hand(q))
      /\ \A w \in Workers : Content(TakenBox(w))' = Content(TakenBox(w))
  BY <1>1, <1>2, <1>3, <1>4, OwnStep, ThreadFacts
<1>7. \A w \in Workers : /\ Content(Inbox(w))' = Content(Inbox(w))
                         /\ Content(OwnDeque(w))' = Content(OwnDeque(w))
  BY ContentIs
<1>8. \A b \in Boxes \ {Hand(p)} : Content(b)' = Content(b)
  BY <1>6, <1>7, BoxesAre
<1>9. x \notin Contents
  BY <1>1 DEF Begin, Placed, Submitted
<1>10. Disjoint' /\ Contents' = Contents \cup {x}
  BY <1>1, <1>5, <1>8, <1>9, BoxesAre, Added DEF Placed
<1>11. Submitted' = Submitted \cup {x}
  BY <1>1 DEF Begin, Mark, Submitted
<1>12. Unrepeated'
  BY <1>1 DEF Placed, Unrepeated
<1>. QED
  BY <1>1, <1>10, <1>11, <1>12 DEF Placed

\* Push moves the task from the hand to the end of a queue.
LEMMA PushPlaced ==
  ASSUME Inv, NEW p \in Threads, Push(p)
  PROVE  Placed'
<1>. DEFINE x == item[p]
<1>1. /\ TypeOK /\ Placed /\ pc[p] = "push" /\ x \in Tasks
      /\ inbox \in [Workers -> Seq(Tasks)] /\ deque \in [Workers -> Seq(Tasks)]
      /\ item \in [Threads -> Tasks \cup {NoTask}] /\ target[p] \in Workers
  BY HandTyped DEF Inv, Push, At, TypeOK
<1>2. "count" \in Labels(p) /\ Goto(p, "count") /\ pc'[p] = "count"
  BY <1>1, GotoType DEF Labels, WorkerLabels, ClientLabels, Push
<1>3. /\ \A q \in Threads \ {p} : item'[q] = item[q]
      /\ task' = task /\ status' = status
  BY <1>1 DEF Push, Drop
<1>4. Content(Hand(p)) = {x} /\ Content(Hand(p))' = Content(Hand(p)) \ {x}
  BY <1>1, <1>2, ContentIs
<1>5. /\ \A q \in Threads \ {p} : Content(Hand(q))' = Content(Hand(q))
      /\ \A w \in Workers : Content(TakenBox(w))' = Content(TakenBox(w))
  BY <1>1, <1>2, <1>3, OwnStep, ThreadFacts
<1>6. Submitted' = Submitted
  BY <1>3 DEF Submitted
<1>7. \A b \in Boxes \ {Hand(p)} : x \notin Content(b)
  BY <1>1, <1>4, BoxesAre DEF Placed, Disjoint
<1>. HIDE DEF x
<1>8. CASE p \in Workers
  <2>1. inbox' = inbox /\ deque' = [deque EXCEPT ![p] = Append(deque[p], x)]
    BY <1>8 DEF Push, Queued, x
  <2>2. Injective(deque[p]) /\ x \notin Elements(deque[p]) /\ deque[p] \in Seq(Tasks)
    BY <1>1, <1>7, <1>8, BoxesAre, ContentIs DEF Placed, Unrepeated
  <2>3. deque'[p] = Append(deque[p], x) /\ \A w \in Workers \ {p} : deque'[w] = deque[w]
    BY <1>1, <1>8, <2>1
  <2>4. Injective(deque'[p]) /\ Elements(deque'[p]) = Elements(deque[p]) \cup {x}
    BY <1>1, <2>2, <2>3, PushEnd
  <2>5. /\ Content(OwnDeque(p))' = Content(OwnDeque(p)) \cup {x}
        /\ \A w \in Workers \ {p} : Content(OwnDeque(w))' = Content(OwnDeque(w))
        /\ \A w \in Workers : Content(Inbox(w))' = Content(Inbox(w))
    BY <2>1, <2>3, <2>4, ContentIs
  <2>6. \A b \in Boxes \ {Hand(p), OwnDeque(p)} : Content(b)' = Content(b)
    BY <1>5, <2>5, BoxesAre
  <2>7. Disjoint' /\ Contents' = Contents
    BY <1>1, <1>4, <1>8, <2>5, <2>6, BoxesAre, Moved DEF Placed
  <2>8. Unrepeated'
    BY <1>1, <2>1, <2>3, <2>4 DEF Placed, Unrepeated
  <2>. QED
    BY <1>1, <1>6, <2>7, <2>8 DEF Placed
<1>9. CASE p \notin Workers
  <2>0. PICK t \in Workers : t = target[p]
    BY <1>1
  <2>1. deque' = deque /\ inbox' = [inbox EXCEPT ![t] = Append(inbox[t], x)]
    BY <1>9, <2>0 DEF Push, Queued, x
  <2>2. Injective(inbox[t]) /\ x \notin Elements(inbox[t]) /\ inbox[t] \in Seq(Tasks)
    BY <1>1, <1>7, BoxesAre, ContentIs DEF Placed, Unrepeated
  <2>3. inbox'[t] = Append(inbox[t], x) /\ \A w \in Workers \ {t} : inbox'[w] = inbox[w]
    BY <1>1, <2>1
  <2>4. Injective(inbox'[t]) /\ Elements(inbox'[t]) = Elements(inbox[t]) \cup {x}
    BY <1>1, <2>2, <2>3, PushEnd
  <2>5. /\ Content(Inbox(t))' = Content(Inbox(t)) \cup {x}
        /\ \A w \in Workers \ {t} : Content(Inbox(w))' = Content(Inbox(w))
        /\ \A w \in Workers : Content(OwnDeque(w))' = Content(OwnDeque(w))
    BY <2>1, <2>3, <2>4, ContentIs
  <2>6. \A b \in Boxes \ {Hand(p), Inbox(t)} : Content(b)' = Content(b)
    BY <1>5, <2>5, BoxesAre
  <2>7. Disjoint' /\ Contents' = Contents
    BY <1>1, <1>4, <2>5, <2>6, BoxesAre, Moved DEF Placed
  <2>8. Unrepeated'
    BY <1>1, <2>1, <2>3, <2>4 DEF Placed, Unrepeated
  <2>. QED
    BY <1>1, <1>6, <2>7, <2>8 DEF Placed
<1>. QED
  BY <1>8, <1>9

\* A worker takes a task out of a box that is a queue.
LEMMA GotPlaced ==
  ASSUME Inv, NEW w \in Workers, NEW x \in Tasks, Got(w, x),
         pc[w] # "push", pc[w] # "taken",
         NEW from \in Boxes, NEW u \in Workers, from \in {Inbox(u), OwnDeque(u)},
         x \in Content(from), Content(from)' = Content(from) \ {x},
         \A v \in Workers :
           /\ Inbox(v) # from => Content(Inbox(v))' = Content(Inbox(v))
           /\ OwnDeque(v) # from => Content(OwnDeque(v))' = Content(OwnDeque(v)),
         \A q \in Threads \ {w} : item'[q] = item[q],
         Unrepeated', status' = status
  PROVE  Placed'
<1>1. TypeOK /\ Placed /\ w \in Threads /\ task \in [Workers -> Tasks \cup {NoTask}]
  BY ThreadFacts DEF Inv, TypeOK
<1>2. "taken" \in Labels(w) /\ Goto(w, "taken") /\ pc'[w] = "taken"
  BY <1>1, GotoType DEF Got, Labels, WorkerLabels
<1>3. task'[w] = x /\ \A v \in Workers \ {w} : task'[v] = task[v]
  BY <1>1 DEF Got
<1>4. /\ \A q \in Threads : Content(Hand(q))' = Content(Hand(q))
      /\ \A v \in Workers \ {w} : Content(TakenBox(v))' = Content(TakenBox(v))
  BY <1>1, <1>2, <1>3, OwnStep
<1>5. Content(TakenBox(w))' = Content(TakenBox(w)) \cup {x}
  BY <1>2, <1>3, ContentIs
<1>6. from # TakenBox(w) /\ TakenBox(w) \in Boxes
  BY BoxesAre
<1>7. \A b \in Boxes \ {from, TakenBox(w)} : Content(b)' = Content(b)
  BY <1>4, BoxesAre
<1>8. Disjoint' /\ Contents' = Contents
  BY <1>1, <1>5, <1>6, <1>7, Moved DEF Placed
<1>9. Submitted' = Submitted
  BY DEF Submitted
<1>. QED
  BY <1>1, <1>8, <1>9 DEF Placed

\* pop() moves the last task of the own deque to the worker.
LEMMA PopOwnPlaced ==
  ASSUME Inv, NEW w \in Workers, PopOwn(w), deque[w] # <<>>
  PROVE  Placed'
<1>1. PICK x : x = deque[w][Len(deque[w])]
  OBVIOUS
<1>2. /\ Got(w, x) /\ deque' = [deque EXCEPT ![w] = SubSeq(deque[w], 1, Len(deque[w]) - 1)]
      /\ inbox' = inbox /\ item' = item /\ status' = status /\ pc[w] = "pop"
  BY <1>1 DEF PopOwn, At
<1>3. /\ deque \in [Workers -> Seq(Tasks)] /\ deque[w] \in Seq(Tasks)
      /\ Injective(deque[w]) /\ Unrepeated
  BY DEF Inv, TypeOK, Placed, Unrepeated
<1>4. x \in Tasks
  BY <1>1, <1>3, Taken
<1>5. /\ Injective(deque'[w]) /\ x \in Elements(deque[w])
      /\ Elements(deque'[w]) = Elements(deque[w]) \ {x}
  BY <1>1, <1>2, <1>3, PopEnd
<1>6. \A v \in Workers \ {w} : deque'[v] = deque[v]
  BY <1>2, <1>3
<1>7. Unrepeated'
  BY <1>2, <1>3, <1>5, <1>6 DEF Unrepeated
<1>8. x \in Content(OwnDeque(w)) /\ Content(OwnDeque(w))' = Content(OwnDeque(w)) \ {x}
  BY <1>5, ContentIs
<1>9. \A v \in Workers :
        /\ Content(Inbox(v))' = Content(Inbox(v))
        /\ OwnDeque(v) # OwnDeque(w) => Content(OwnDeque(v))' = Content(OwnDeque(v))
  BY <1>2, <1>6, ContentIs
<1>. QED
  BY <1>2, <1>4, <1>7, <1>8, <1>9, BoxesAre, GotPlaced

\* The worker takes the front of its inbox.
LEMMA PopInboxPlaced ==
  ASSUME Inv, NEW w \in Workers, PopInbox(w), inbox[w] # <<>>
  PROVE  Placed'
<1>1. PICK x : x = Head(inbox[w])
  OBVIOUS
<1>2. /\ Got(w, x) /\ inbox' = [inbox EXCEPT ![w] = Tail(inbox[w])]
      /\ deque' = deque /\ item' = item /\ status' = status /\ pc[w] = "inbox"
  BY <1>1 DEF PopInbox, At
<1>3. /\ inbox \in [Workers -> Seq(Tasks)] /\ inbox[w] \in Seq(Tasks)
      /\ Injective(inbox[w]) /\ Unrepeated
  BY DEF Inv, TypeOK, Placed, Unrepeated
<1>4. x \in Tasks
  BY <1>1, <1>2, <1>3, Taken
<1>5. /\ Injective(inbox'[w]) /\ x \in Elements(inbox[w])
      /\ Elements(inbox'[w]) = Elements(inbox[w]) \ {x}
  BY <1>1, <1>2, <1>3, PopFront
<1>6. \A v \in Workers \ {w} : inbox'[v] = inbox[v]
  BY <1>2, <1>3
<1>7. Unrepeated'
  BY <1>2, <1>3, <1>5, <1>6 DEF Unrepeated
<1>8. x \in Content(Inbox(w)) /\ Content(Inbox(w))' = Content(Inbox(w)) \ {x}
  BY <1>5, ContentIs
<1>9. \A v \in Workers :
        /\ Content(OwnDeque(v))' = Content(OwnDeque(v))
        /\ Inbox(v) # Inbox(w) => Content(Inbox(v))' = Content(Inbox(v))
  BY <1>2, <1>6, ContentIs
<1>. QED
  BY <1>2, <1>4, <1>7, <1>8, <1>9, BoxesAre, GotPlaced

\* A successful CAS moves the victim's first task to the thief, whatever
\* happened since the thief read it.
LEMMA StealCasPlaced ==
  ASSUME Inv, NEW w \in Workers, StealCas(w), OnTop(target[w], item[w])
  PROVE  Placed'
<1>1. PICK u \in Workers : u = target[w]
  BY ThreadFacts DEF Inv, TypeOK
<1>2. PICK x : x = item[w]
  OBVIOUS
<1>3. /\ Got(w, x) /\ deque' = [deque EXCEPT ![u] = SubSeq(deque[u], 2, Len(deque[u]))]
      /\ inbox' = inbox /\ status' = status /\ pc[w] = "steal_cas"
      /\ deque[u] # <<>> /\ x = Head(deque[u])
  BY <1>1, <1>2 DEF StealCas, At, OnTop
<1>4. /\ deque \in [Workers -> Seq(Tasks)] /\ deque[u] \in Seq(Tasks)
      /\ Injective(deque[u]) /\ Unrepeated
      /\ item \in [Threads -> Tasks \cup {NoTask}]
  BY DEF Inv, TypeOK, Placed, Unrepeated
<1>5. x \in Tasks /\ deque'[u] = Tail(deque[u])
  BY <1>3, <1>4, Taken
<1>6. /\ Injective(deque'[u]) /\ x \in Elements(deque[u])
      /\ Elements(deque'[u]) = Elements(deque[u]) \ {x}
  BY <1>3, <1>4, <1>5, PopFront
<1>7. \A v \in Workers \ {u} : deque'[v] = deque[v]
  BY <1>3, <1>4
<1>8. Unrepeated'
  BY <1>3, <1>4, <1>6, <1>7 DEF Unrepeated
<1>9. x \in Content(OwnDeque(u)) /\ Content(OwnDeque(u))' = Content(OwnDeque(u)) \ {x}
  BY <1>6, ContentIs
<1>10. \A v \in Workers :
         /\ Content(Inbox(v))' = Content(Inbox(v))
         /\ OwnDeque(v) # OwnDeque(u) => Content(OwnDeque(v))' = Content(OwnDeque(v))
  BY <1>3, <1>7, ContentIs
<1>11. \A q \in Threads \ {w} : item'[q] = item[q]
  BY <1>4 DEF StealCas, Drop
<1>. QED
  BY <1>3, <1>5, <1>8, <1>9, <1>10, <1>11, BoxesAre, GotPlaced

\* The task a worker has taken leaves the boxes when it starts.
LEMMA UncountPlaced ==
  ASSUME Inv, NEW w \in Workers, Uncount(w)
  PROVE  Placed' /\ task[w] \in Submitted
<1>1. /\ TypeOK /\ Placed /\ w \in Threads
      /\ status \in [Tasks -> {"new", "submitted", "running", "finished", "retired"}]
  BY ThreadFacts DEF Inv, TypeOK
<1>2. PICK x : x = task[w]
  OBVIOUS
<1>3. /\ pc[w] = "taken" /\ Goto(w, "run") /\ "run" \in Labels(w)
      /\ UNCHANGED <<inbox, deque, item, task>> /\ status' = [status EXCEPT ![x] = "running"]
  BY <1>2 DEF Uncount, At, Mark, queues, locals, Labels, WorkerLabels
<1>4. pc'[w] = "run"
  BY <1>1, <1>3, GotoType
<1>5. Content(TakenBox(w)) = {x} /\ Content(TakenBox(w))' = Content(TakenBox(w)) \ {x}
  BY <1>2, <1>3, <1>4, ContentIs
<1>6. /\ \A q \in Threads : Content(Hand(q))' = Content(Hand(q))
      /\ \A v \in Workers \ {w} : Content(TakenBox(v))' = Content(TakenBox(v))
  BY <1>1, <1>3, OwnStep
<1>7. \A v \in Workers : /\ Content(Inbox(v))' = Content(Inbox(v))
                         /\ Content(OwnDeque(v))' = Content(OwnDeque(v))
  BY <1>3, ContentIs
<1>8. \A b \in Boxes \ {TakenBox(w)} : Content(b)' = Content(b)
  BY <1>6, <1>7, BoxesAre
<1>9. Disjoint' /\ Contents' = Contents \ {x}
  BY <1>1, <1>5, <1>8, BoxesAre, Removed DEF Placed
<1>10. x \in Submitted
  BY <1>1, <1>5, BoxesAre DEF Contents, Placed
<1>11. Submitted' = Submitted \ {x}
  BY <1>1, <1>3, <1>10 DEF Submitted
<1>12. Unrepeated'
  BY <1>1, <1>3 DEF Placed, Unrepeated
<1>. QED
  BY <1>1, <1>2, <1>9, <1>10, <1>11, <1>12 DEF Placed

-----------------------------------------------------------------------------
(* Most steps move no task and no count.                                   *)

Same(p, l) == pc'[p] = l <=> pc[p] = l
Quiet ==
  /\ UNCHANGED <<pending, queued, inbox, deque, task, status>>
  /\ \A p \in Threads :
       /\ Same(p, "push") /\ Same(p, "count") /\ Same(p, "taken") /\ Same(p, "finish")
       /\ pc[p] = "push" => item'[p] = item[p]
  /\ \A w \in Workers : Executing(w)' <=> Executing(w)

\* They keep what the invariant says of tasks and counts.
LEMMA QuietInv ==
  ASSUME Inv, Quiet
  PROVE  Placed' /\ Working' /\ Balanced'
<1>1. Placed'
  <2>1. /\ \A q \in Threads : Content(Hand(q))' = Content(Hand(q))
        /\ \A w \in Workers : /\ Content(TakenBox(w))' = Content(TakenBox(w))
                              /\ Content(Inbox(w))' = Content(Inbox(w))
                              /\ Content(OwnDeque(w))' = Content(OwnDeque(w))
    <3>1. ASSUME NEW q \in Threads PROVE Content(Hand(q))' = Content(Hand(q))
      BY ContentIs DEF Quiet, Same
    <3>2. ASSUME NEW w \in Workers
          PROVE  /\ Content(TakenBox(w))' = Content(TakenBox(w))
                 /\ Content(Inbox(w))' = Content(Inbox(w))
                 /\ Content(OwnDeque(w))' = Content(OwnDeque(w))
      <4>1. w \in Threads
        BY ThreadFacts
      <4>2. /\ pc'[w] = "taken" <=> pc[w] = "taken"
            /\ task'[w] = task[w] /\ inbox'[w] = inbox[w] /\ deque'[w] = deque[w]
        BY <4>1 DEF Quiet, Same
      <4>. QED
        BY <4>2, ContentIs
    <3>. QED
      BY <3>1, <3>2
  <2>2. \A b \in Boxes : Content(b)' = Content(b)
    BY <2>1, BoxesAre
  <2>. QED
    BY <2>2, PlacedKept DEF Inv, Quiet, Submitted
<1>2. Working'
  BY ThreadFacts DEF Inv, Quiet, Same, Working
<1>3. Balanced'
  BY DEF Inv, Quiet, Balanced, PendingBalance, Unfinished
<1>. QED
  BY <1>1, <1>2, <1>3

Busy == {"push", "count", "taken", "run", "notify", "finish"}
SearchLabels ==
  {"inbox", "steal", "steal_cas", "lock", "pred_stop", "pred_queued",
   "block", "asleep", "exit_check", "exited"}

\* A thread that goes from a label to another, neither of which has to do with
\* a task; it looks for nothing any more only when its deque is empty.
LEMMA QuietGoto ==
  ASSUME Inv, NEW p \in Threads, NEW l \in Labels(p), Goto(p, l),
         pc[p] \notin Busy, l \notin Busy,
         p \in Workers /\ l \in SearchLabels => deque[p] = <<>>,
         UNCHANGED <<pending, queued, inbox, deque, task, status>>,
         \A q \in Threads \ {p} : item'[q] = item[q]
  PROVE  Quiet /\ SearchedEmpty'
<1>1. pc'[p] = l /\ \A q \in Threads \ {p} : pc'[q] = pc[q]
  BY GotoType DEF Inv
<1>2. Quiet
  <2>1. \A q \in Threads \ {p} :
          /\ Same(q, "push") /\ Same(q, "count") /\ Same(q, "taken") /\ Same(q, "finish")
          /\ q \in Workers => (Executing(q)' <=> Executing(q))
    BY <1>1 DEF Same, Executing
  <2>2. /\ Same(p, "push") /\ Same(p, "count") /\ Same(p, "taken") /\ Same(p, "finish")
        /\ Executing(p)' <=> Executing(p)
        /\ pc[p] # "push"
    BY <1>1 DEF Same, Executing, Busy
  <2>. QED
    BY <2>1, <2>2, ThreadFacts DEF Quiet
<1>3. SearchedEmpty'
  <2>. SUFFICES ASSUME NEW w \in Workers, Searched(w)' PROVE deque[w] = <<>>
    BY DEF SearchedEmpty
  <2>1. CASE w = p
    BY <1>1, <2>1 DEF Searched, SearchLabels
  <2>2. CASE w # p
    <3>1. Searched(w)
      BY <1>1, <2>2, ThreadFacts DEF Searched
    <3>. QED
      BY <3>1 DEF Inv, SearchedEmpty
  <2>. QED
    BY <2>1, <2>2
<1>. QED
  BY <1>2, <1>3

\* So are a failed search, the way to sleep and back, wait_all() and shutdown.
LEMMA FindNothing ==
  ASSUME Inv, NEW w \in Workers,
         \/ PopOwn(w) /\ deque[w] = <<>>
         \/ PopInbox(w) /\ inbox[w] = <<>>
         \/ StealLook(w)
         \/ StealCas(w) /\ ~OnTop(target[w], item[w])
         \/ StealGiveUp(w)
  PROVE  Quiet /\ SearchedEmpty'
<1>0. /\ TypeOK /\ SearchedEmpty /\ w \in Threads
      /\ item \in [Threads -> Tasks \cup {NoTask}]
  BY ThreadFacts DEF Inv, TypeOK
<1>a. SearchLabels \subseteq Labels(w) /\ "pop" \notin Busy /\ SearchLabels \cap Busy = {}
  BY DEF Labels, WorkerLabels, SearchLabels, Busy
<1>1. CASE PopOwn(w) /\ deque[w] = <<>>
  <2>1. /\ pc[w] = "pop" /\ Goto(w, "inbox") /\ "inbox" \in SearchLabels
        /\ UNCHANGED <<pending, queued, inbox, deque, task, status, item>>
    BY <1>1 DEF PopOwn, At, counters, SearchLabels
  <2>. QED
    BY <1>0, <1>1, <1>a, <2>1, QuietGoto
<1>2. CASE PopInbox(w) /\ inbox[w] = <<>>
  <2>1. /\ pc[w] = "inbox" /\ Goto(w, "steal") /\ {"inbox", "steal"} \subseteq SearchLabels
        /\ UNCHANGED <<pending, queued, inbox, deque, task, status, item>>
    BY <1>2 DEF PopInbox, At, counters, SearchLabels
  <2>2. deque[w] = <<>>
    BY <1>0, <2>1 DEF SearchedEmpty, Searched
  <2>. QED
    BY <1>0, <1>a, <2>1, <2>2, QuietGoto
<1>3. CASE StealLook(w)
  <2>1. /\ pc[w] = "steal" /\ {"steal", "steal_cas"} \subseteq SearchLabels
        /\ UNCHANGED <<pending, queued, inbox, deque, task, status>>
        /\ \A q \in Threads \ {w} : item'[q] = item[q]
    BY <1>0, <1>3 DEF StealLook, At, counters, queues, SearchLabels
  <2>2. deque[w] = <<>>
    BY <1>0, <2>1 DEF SearchedEmpty, Searched
  <2>3. Goto(w, "steal_cas") \/ UNCHANGED <<item, pc>>
    BY <1>3 DEF StealLook
  <2>4. CASE Goto(w, "steal_cas")
    BY <1>0, <1>a, <2>1, <2>2, <2>4, QuietGoto
  <2>5. CASE UNCHANGED <<item, pc>>
    BY <1>0, <2>1, <2>5 DEF Quiet, Same, Executing, SearchedEmpty, Searched
  <2>. QED
    BY <2>3, <2>4, <2>5
<1>4. CASE StealCas(w) /\ ~OnTop(target[w], item[w])
  <2>1. /\ pc[w] = "steal_cas" /\ Goto(w, "steal")
        /\ {"steal", "steal_cas"} \subseteq SearchLabels
        /\ UNCHANGED <<pending, queued, inbox, deque, task, status>>
        /\ \A q \in Threads \ {w} : item'[q] = item[q]
    BY <1>0, <1>4 DEF StealCas, At, counters, Drop, SearchLabels
  <2>2. deque[w] = <<>>
    BY <1>0, <2>1 DEF SearchedEmpty, Searched
  <2>. QED
    BY <1>0, <1>a, <2>1, <2>2, QuietGoto
<1>5. CASE StealGiveUp(w)
  <2>1. /\ pc[w] = "steal" /\ Goto(w, "lock") /\ {"steal", "lock"} \subseteq SearchLabels
        /\ UNCHANGED <<pending, queued, inbox, deque, task, status, item>>
    BY <1>5 DEF StealGiveUp, At, data, counters, queues, locals, SearchLabels
  <2>2. deque[w] = <<>>
    BY <1>0, <2>1 DEF SearchedEmpty, Searched
  <2>. QED
    BY <1>0, <1>a, <2>1, <2>2, QuietGoto
<1>. QED
  BY <1>1, <1>2, <1>3, <1>4, <1>5

LEMMA ControlQuiet ==
  ASSUME Inv,
         \/ \E w \in Workers : Idle(w) \/ SpuriousWakeup(w)
         \/ WaitAll \/ SpuriousDone \/ Destroy \/ Join
  PROVE  Quiet /\ SearchedEmpty'
<1>0. TypeOK /\ SearchedEmpty
  BY DEF Inv
<1>1. ASSUME NEW w \in Workers, Idle(w) \/ SpuriousWakeup(w)
      PROVE  Quiet /\ SearchedEmpty'
  <2>1. UNCHANGED <<pending, queued, inbox, deque, task, status, item>>
    BY <1>1 DEF Idle, Lock, PredStop, PredQueued, Block, ExitCheck, SpuriousWakeup,
       data, counters, queues, locals
  <2>2. PICK l \in SearchLabels \cup {"pop"} : Goto(w, l)
    BY <1>1 DEF Idle, Lock, PredStop, PredQueued, Block, ExitCheck, SpuriousWakeup, SearchLabels
  <2>3. pc[w] \in SearchLabels
    BY <1>1 DEF Idle, Lock, PredStop, PredQueued, Block, ExitCheck, SpuriousWakeup, SearchLabels, At
  <2>4. deque[w] = <<>>
    BY <1>0, <2>3 DEF SearchedEmpty, Searched, SearchLabels
  <2>5. w \in Threads /\ l \in Labels(w) /\ l \notin Busy /\ pc[w] \notin Busy
    BY <2>2, <2>3, ThreadFacts DEF Labels, WorkerLabels, SearchLabels, Busy
  <2>. QED
    BY <2>1, <2>2, <2>4, <2>5, QuietGoto
<1>2. CASE WaitAll \/ SpuriousDone \/ Destroy \/ Join
  <2>1. UNCHANGED <<pending, queued, inbox, deque, task, status, item>>
    BY <1>2 DEF WaitAll, SpuriousDone, Destroy, Join, data, counters, queues, locals
  <2>2. PICK l \in ClientLabels \ Busy : Goto(Main, l)
    BY <1>2 DEF WaitAll, SpuriousDone, Destroy, Join, ClientLabels, Busy
  <2>3. pc[Main] \notin Busy
    BY <1>2 DEF WaitAll, SpuriousDone, Destroy, Join, At, Busy
  <2>4. Main \in Threads /\ l \in Labels(Main) /\ Main \notin Workers
    BY ThreadFacts DEF Labels
  <2>. QED
    BY <2>1, <2>2, <2>3, <2>4, QuietGoto
<1>. QED
  BY <1>1, <1>2

\* And the three notifications, which move sleepers to their predicate.
LEMMA NotifyQuiet ==
  ASSUME Inv,
         \/ \E p \in Threads : Notify(p)
         \/ \E w \in Workers : NotifyDone(w)
         \/ NotifyStop
  PROVE  Quiet /\ SearchedEmpty'
<1>0. TypeOK /\ SearchedEmpty /\ DataTyped /\ PcTyped
  BY TypeParts DEF Inv
<1>1. UNCHANGED <<pending, queued, inbox, deque, task, status, item>>
  BY DEF Notify, NotifyDone, NotifyStop, data, counters, queues, locals
<1>. SUFFICES
       /\ \A p \in Threads :
            /\ Same(p, "push") /\ Same(p, "count") /\ Same(p, "taken") /\ Same(p, "finish")
       /\ \A w \in Workers : Executing(w)' <=> Executing(w)
       /\ \A w \in Workers : Searched(w)' => Searched(w)
  BY <1>0, <1>1 DEF Quiet, SearchedEmpty
<1>2. ASSUME NEW p \in Threads, NEW S \in SUBSET Sleepers, p \notin S, NEW l \in Labels(p),
             pc' = [WakeAll(S) EXCEPT ![p] = l],
             \/ p \in Workers /\ pc[p] = "notify" /\ l = "run"
             \/ p \notin Workers /\ {pc[p], l} \subseteq {"notify", "idle", "stop_notify", "join"}
      PROVE  /\ \A q \in Threads :
                  /\ Same(q, "push") /\ Same(q, "count") /\ Same(q, "taken") /\ Same(q, "finish")
             /\ \A w \in Workers : Executing(w)' <=> Executing(w)
             /\ \A w \in Workers : Searched(w)' => Searched(w)
  <2>1. /\ pc'[p] = l
        /\ \A q \in Threads \ {p} :
             pc'[q] = pc[q] \/ (q \in Workers /\ pc[q] = "asleep" /\ pc'[q] = "lock")
    BY <1>0, <1>2, WakeType
  <2>. QED
    BY <1>2, <2>1, ThreadFacts DEF Same, Executing, Searched
<1>3. ASSUME NEW p \in Threads, Notify(p)
      PROVE  /\ \A q \in Threads :
                  /\ Same(q, "push") /\ Same(q, "count") /\ Same(q, "taken") /\ Same(q, "finish")
             /\ \A w \in Workers : Executing(w)' <=> Executing(w)
             /\ \A w \in Workers : Searched(w)' => Searched(w)
  <2>1. PICK l : l = IF p \in Workers THEN "run" ELSE "idle"
    OBVIOUS
  <2>2. PICK S \in SUBSET Sleepers : pc' = [WakeAll(S) EXCEPT ![p] = l]
    BY <1>3, <2>1 DEF Notify, Wakes, OneSleeper, Sleepers
  <2>3. p \notin S /\ pc[p] = "notify" /\ l \in Labels(p)
    BY <1>3, <2>1, <2>2 DEF Notify, At, Sleepers, Labels, WorkerLabels, ClientLabels
  <2>. QED
    BY <1>2, <2>1, <2>2, <2>3
<1>4. ASSUME NotifyStop
      PROVE  /\ \A q \in Threads :
                  /\ Same(q, "push") /\ Same(q, "count") /\ Same(q, "taken") /\ Same(q, "finish")
             /\ \A w \in Workers : Executing(w)' <=> Executing(w)
             /\ \A w \in Workers : Searched(w)' => Searched(w)
  <2>1. PICK S \in SUBSET Sleepers : pc' = [WakeAll(S) EXCEPT ![Main] = "join"]
    BY <1>4 DEF NotifyStop, StopWakes, Sleepers
  <2>2. Main \notin S /\ pc[Main] = "stop_notify" /\ "join" \in Labels(Main)
    BY <1>4, <2>1, ThreadFacts DEF NotifyStop, At, Sleepers, Labels, ClientLabels
  <2>. QED
    BY <1>2, <2>1, <2>2, ThreadFacts
<1>5. ASSUME NEW w \in Workers, NotifyDone(w)
      PROVE  /\ \A q \in Threads :
                  /\ Same(q, "push") /\ Same(q, "count") /\ Same(q, "taken") /\ Same(q, "finish")
             /\ \A u \in Workers : Executing(u)' <=> Executing(u)
             /\ \A u \in Workers : Searched(u)' => Searched(u)
  <2>1. /\ pc[w] = "notify_done" /\ pc'[w] = "pop" /\ w # Main
        /\ pc'[Main] = pc[Main] \/ (pc[Main] = "wait_asleep" /\ pc'[Main] = "wait_pred")
        /\ \A q \in Threads \ {w, Main} : pc'[q] = pc[q]
    BY <1>0, <1>5, ThreadFacts DEF NotifyDone, At, Unblocked, PcTyped
  <2>. QED
    BY <2>1, ThreadFacts DEF Same, Executing, Searched
<1>. QED
  BY <1>3, <1>4, <1>5

-----------------------------------------------------------------------------
(* The steps that move a task.                                             *)

Statuses == {"new", "submitted", "running", "finished", "retired"}

LEMMA GotoOthers ==
  ASSUME Inv, NEW p \in Threads, NEW l \in Labels(p), Goto(p, l)
  PROVE  /\ pc'[p] = l /\ \A q \in Threads \ {p} : pc'[q] = pc[q]
         /\ \A w \in Workers \ {p} :
              (Executing(w)' <=> Executing(w)) /\ (Searched(w)' <=> Searched(w))
<1>1. pc'[p] = l /\ \A q \in Threads \ {p} : pc'[q] = pc[q]
  BY GotoType DEF Inv
<1>. QED
  BY <1>1, ThreadFacts DEF Executing, Searched

\* Submitting: pending_ is incremented and one more task is unfinished.
LEMMA SubmitInv ==
  ASSUME Inv, NEW p \in Threads,
         (p \in Clients /\ SubmitOutside(p)) \/ (p \in Workers /\ SubmitInside(p))
  PROVE  Inv'
<1>0. /\ TypeOK /\ Placed /\ Working /\ Balanced /\ SearchedEmpty
      /\ status \in [Tasks -> Statuses] /\ pending \in Nat
  BY DEF Inv, TypeOK, Statuses
<1>1. /\ UNCHANGED <<inbox, deque, task>>
      /\ pc[p] = IF p \in Workers THEN "run" ELSE "idle"
      /\ \E x \in Tasks : Begin(p, x)
  <2>1. CASE p \in Clients /\ SubmitOutside(p)
    BY <2>1, ThreadFacts DEF SubmitOutside, Roots, queues, At
  <2>2. CASE p \in Workers /\ SubmitInside(p)
    <3>1. task[p] \in Tasks
      BY <1>0, <2>2 DEF Working, Executing, SubmitInside, At
    <3>. QED
      BY <2>2, <3>1, PoolAssumption DEF SubmitInside, queues, At
  <2>. QED
    BY <2>1, <2>2
<1>2. PICK x \in Tasks : Begin(p, x)
  BY <1>1
<1>3. /\ status[x] = "new" /\ status' = [status EXCEPT ![x] = "submitted"]
      /\ pending' = pending + 1 /\ Goto(p, "push") /\ "push" \in Labels(p)
  BY <1>2 DEF Begin, Mark, Counted, Labels, WorkerLabels, ClientLabels
<1>4. TypeOK'
  BY SubmitType
<1>5. Placed'
  BY <1>1, <1>2, BeginPlaced
<1>6. /\ pc'[p] = "push" /\ \A q \in Threads \ {p} : pc'[q] = pc[q]
      /\ \A w \in Workers \ {p} :
           (Executing(w)' <=> Executing(w)) /\ (Searched(w)' <=> Searched(w))
  BY <1>3, GotoOthers
<1>7. Working'
  <2>1. \A w \in Workers : Executing(w)' => Executing(w)
    BY <1>1, <1>6 DEF Executing
  <2>2. ASSUME NEW w \in Workers, Executing(w)'
        PROVE  /\ task[w] \in Tasks
               /\ status'[task[w]] = IF pc'[w] = "finish" THEN "finished" ELSE "running"
    <3>1. /\ Executing(w) /\ task[w] \in Tasks
          /\ status[task[w]] = IF pc[w] = "finish" THEN "finished" ELSE "running"
      BY <1>0, <2>1, <2>2 DEF Working
    <3>2. status'[task[w]] = status[task[w]]
      BY <1>0, <1>3, <3>1
    <3>3. pc'[w] = "finish" <=> pc[w] = "finish"
      BY <1>1, <1>6, <2>2, ThreadFacts
    <3>. QED
      BY <3>1, <3>2, <3>3
  <2>. QED
    BY <1>0, <1>1, <2>1, <2>2 DEF Working
<1>8. Balanced'
  <2>1. Unfinished' = Unfinished \cup {x} /\ x \notin Unfinished
    BY <1>0, <1>3 DEF Unfinished, Statuses
  <2>. QED
    BY <1>0, <1>3, <2>1, FS_AddElement DEF Balanced, PendingBalance
<1>9. SearchedEmpty'
  BY <1>0, <1>1, <1>6 DEF SearchedEmpty, Searched
<1>. QED
  BY <1>4, <1>5, <1>7, <1>8, <1>9 DEF Inv

\* Handing the task over and counting it.
LEMMA HandOverInv ==
  ASSUME Inv, NEW p \in Threads, Push(p) \/ Count(p)
  PROVE  Inv'
<1>0. TypeOK /\ Placed /\ Working /\ Balanced /\ SearchedEmpty
  BY DEF Inv
<1>1. /\ UNCHANGED <<pending, task, status>>
      /\ \/ pc[p] = "push" /\ Goto(p, "count")
         \/ pc[p] = "count" /\ Goto(p, "notify") /\ UNCHANGED <<inbox, deque, item>>
      /\ {"count", "notify"} \subseteq Labels(p)
  BY DEF Push, Count, At, counters, queues, locals, Labels, WorkerLabels, ClientLabels
<1>2. /\ pc'[p] \in {"count", "notify"} /\ \A q \in Threads \ {p} : pc'[q] = pc[q]
      /\ \A w \in Workers \ {p} :
           (Executing(w)' <=> Executing(w)) /\ (Searched(w)' <=> Searched(w))
  BY <1>1, GotoOthers
<1>3. TypeOK'
  BY EnqueueType DEF Enqueue
<1>4. Placed'
  <2>1. CASE Push(p)
    BY <2>1, PushPlaced
  <2>2. CASE Count(p)
    <3>1. /\ pc[p] = "count" /\ Goto(p, "notify") /\ UNCHANGED <<inbox, deque, item, task, status>>
          /\ "notify" \in Labels(p)
      BY <2>2, <1>1 DEF Count, At, queues, locals
    <3>2. /\ \A q \in Threads : Content(Hand(q))' = Content(Hand(q))
          /\ \A w \in Workers : Content(TakenBox(w))' = Content(TakenBox(w))
      BY <1>0, <3>1, OwnStep, ThreadFacts
    <3>3. \A w \in Workers : /\ Content(Inbox(w))' = Content(Inbox(w))
                             /\ Content(OwnDeque(w))' = Content(OwnDeque(w))
      BY <3>1, ContentIs
    <3>4. \A b \in Boxes : Content(b)' = Content(b)
      BY <3>2, <3>3, BoxesAre
    <3>. QED
      BY <1>0, <3>1, <3>4, PlacedKept DEF Submitted
  <2>. QED
    BY <2>1, <2>2
<1>5. Working'
  BY <1>0, <1>1, <1>2, ThreadFacts DEF Working, Executing
<1>6. Balanced'
  BY <1>0, <1>1 DEF Balanced, PendingBalance, Unfinished
<1>7. SearchedEmpty'
  <2>1. \A w \in Workers \ {p} : deque'[w] = deque[w]
    BY <1>0 DEF Push, Queued, Count, queues, TypeOK
  <2>2. ~Searched(p)'
    BY <1>2 DEF Searched
  <2>. QED
    BY <1>0, <1>2, <2>1, <2>2 DEF SearchedEmpty
<1>. QED
  BY <1>3, <1>4, <1>5, <1>6, <1>7 DEF Inv

\* Taking a task from the own deque, the own inbox or another deque.
LEMMA TakeInv ==
  ASSUME Inv, NEW w \in Workers,
         \/ PopOwn(w) /\ deque[w] # <<>>
         \/ PopInbox(w) /\ inbox[w] # <<>>
         \/ StealCas(w) /\ OnTop(target[w], item[w])
  PROVE  Inv'
<1>0. /\ TypeOK /\ Placed /\ Working /\ Balanced /\ SearchedEmpty /\ w \in Threads
      /\ task \in [Workers -> Tasks \cup {NoTask}] /\ deque \in [Workers -> Seq(Tasks)]
  BY ThreadFacts DEF Inv, TypeOK
<1>1. TypeOK'
  BY FindType DEF Find
<1>2. Placed'
  BY PopOwnPlaced, PopInboxPlaced, StealCasPlaced
<1>3. /\ UNCHANGED <<pending, status>> /\ pc[w] \in {"pop", "inbox", "steal_cas"}
      /\ Goto(w, "taken") /\ "taken" \in Labels(w)
      /\ \A v \in Workers \ {w} : task'[v] = task[v]
  BY <1>0 DEF PopOwn, PopInbox, StealCas, Got, At, counters, Labels, WorkerLabels
<1>4. /\ pc'[w] = "taken" /\ \A q \in Threads \ {w} : pc'[q] = pc[q]
      /\ \A v \in Workers \ {w} :
           (Executing(v)' <=> Executing(v)) /\ (Searched(v)' <=> Searched(v))
  BY <1>0, <1>3, GotoOthers
<1>5. Working'
  <2>1. ~Executing(w)'
    BY <1>4 DEF Executing
  <2>2. \A v \in Workers : Executing(v)' =>
          Executing(v) /\ task'[v] = task[v] /\ pc'[v] = pc[v]
    BY <1>3, <1>4, <2>1, ThreadFacts
  <2>. QED
    BY <1>0, <1>3, <2>2 DEF Working
<1>6. Balanced'
  BY <1>0, <1>3 DEF Balanced, PendingBalance, Unfinished
<1>7. SearchedEmpty'
  <2>1. ASSUME NEW v \in Workers, v # w, deque[v] = <<>>
        PROVE  deque'[v] = <<>>
    <3>1. deque'[v] = deque[v] \/ (target[w] = v /\ OnTop(target[w], item[w]))
      BY <1>0, <2>1 DEF PopOwn, PopInbox, StealCas
    <3>. QED
      BY <2>1, <3>1 DEF OnTop
  <2>2. ~Searched(w)'
    BY <1>4 DEF Searched
  <2>. QED
    BY <1>0, <1>4, <2>1, <2>2 DEF SearchedEmpty
<1>. QED
  BY <1>1, <1>2, <1>5, <1>6, <1>7 DEF Inv

\* The task a worker has taken starts: no other worker runs it.
LEMMA UncountInv ==
  ASSUME Inv, NEW w \in Workers, Uncount(w)
  PROVE  Inv'
<1>0. /\ TypeOK /\ Placed /\ Working /\ Balanced /\ SearchedEmpty /\ w \in Threads
      /\ status \in [Tasks -> Statuses]
  BY ThreadFacts DEF Inv, TypeOK, Statuses
<1>1. PICK x : x = task[w]
  OBVIOUS
<1>2. /\ UNCHANGED <<pending, task, deque>> /\ status' = [status EXCEPT ![x] = "running"]
      /\ Goto(w, "run") /\ "run" \in Labels(w)
  BY <1>1 DEF Uncount, Mark, queues, locals, Labels, WorkerLabels
<1>3. x \in Tasks /\ status[x] = "submitted"
  BY <1>1, UncountPlaced DEF Submitted
<1>4. /\ pc'[w] = "run" /\ \A q \in Threads \ {w} : pc'[q] = pc[q]
      /\ \A v \in Workers \ {w} :
           (Executing(v)' <=> Executing(v)) /\ (Searched(v)' <=> Searched(v))
  BY <1>0, <1>2, GotoOthers
<1>5. TypeOK'
  BY ExecuteType
<1>6. Placed'
  BY UncountPlaced
<1>7. Working'
  <2>1. ASSUME NEW v \in Workers \ {w}, Executing(v)
        PROVE  /\ task[v] \in Tasks /\ task[v] # x
               /\ status'[task[v]] = IF pc'[v] = "finish" THEN "finished" ELSE "running"
    BY <1>0, <1>2, <1>3, <1>4, <2>1, ThreadFacts DEF Working
  <2>2. status'[x] = "running"
    BY <1>0, <1>2, <1>3
  <2>. QED
    BY <1>0, <1>1, <1>2, <1>3, <1>4, <2>1, <2>2 DEF Working
<1>8. Balanced'
  <2>1. Unfinished' = Unfinished
    BY <1>0, <1>2, <1>3 DEF Unfinished
  <2>. QED
    BY <1>0, <1>2, <2>1 DEF Balanced, PendingBalance
<1>9. SearchedEmpty'
  <2>1. ~Searched(w)'
    BY <1>4 DEF Searched
  <2>. QED
    BY <1>0, <1>2, <1>4, <2>1 DEF SearchedEmpty
<1>. QED
  BY <1>5, <1>6, <1>7, <1>8, <1>9 DEF Inv

\* The body of a task returns, and the worker comes back from it.
LEMMA EndInv ==
  ASSUME Inv, NEW w \in Workers, BodyReturns(w) \/ Finish(w)
  PROVE  Inv'
<1>0. /\ TypeOK /\ Placed /\ Working /\ Balanced /\ SearchedEmpty /\ w \in Threads
      /\ status \in [Tasks -> Statuses] /\ pending \in Nat
      /\ task \in [Workers -> Tasks \cup {NoTask}]
  BY ThreadFacts DEF Inv, TypeOK, Statuses
<1>1. PICK x : x = task[w]
  OBVIOUS
<1>2. /\ pc[w] \in {"run", "finish"} /\ UNCHANGED <<inbox, deque, item>>
      /\ status' = [status EXCEPT ![x] = IF pc[w] = "run" THEN "finished" ELSE "retired"]
      /\ pc[w] = "run" => BodyReturns(w)
      /\ pc[w] = "finish" => Finish(w)
  BY <1>1 DEF BodyReturns, Finish, At, Mark, queues, locals
<1>3. PICK l \in {"finish", "notify_done", "pop"} :
        /\ Goto(w, l) /\ l \in Labels(w)
        /\ pc[w] = "run" <=> l = "finish"
  BY <1>2 DEF BodyReturns, Finish, AfterTask, Labels, WorkerLabels
<1>4. /\ x \in Tasks /\ Executing(w)
      /\ status[x] = IF pc[w] = "finish" THEN "finished" ELSE "running"
  BY <1>0, <1>1, <1>2 DEF Working, Executing
<1>5. /\ pc'[w] = l /\ \A q \in Threads \ {w} : pc'[q] = pc[q]
      /\ \A v \in Workers \ {w} :
           (Executing(v)' <=> Executing(v)) /\ (Searched(v)' <=> Searched(v))
  BY <1>0, <1>3, GotoOthers
<1>6. TypeOK'
  BY ExecuteType
<1>7. \A v \in Workers \ {w} : task'[v] = task[v]
  BY <1>0, <1>2 DEF BodyReturns, Finish, locals
<1>8. Placed'
  <2>1. /\ \A q \in Threads \ {w} : Content(Hand(q))' = Content(Hand(q))
        /\ \A v \in Workers \ {w} : Content(TakenBox(v))' = Content(TakenBox(v))
        /\ Content(Hand(w))' = Content(Hand(w))
        /\ Content(TakenBox(w))' = Content(TakenBox(w))
    <3>1. pc[w] \notin {"push", "taken"} /\ l \notin {"push", "taken"}
      BY <1>2
    <3>. QED
      BY <1>0, <1>2, <1>3, <1>7, <3>1, OwnStep
  <2>2. \A v \in Workers : /\ Content(Inbox(v))' = Content(Inbox(v))
                           /\ Content(OwnDeque(v))' = Content(OwnDeque(v))
    BY <1>2, ContentIs
  <2>3. \A b \in Boxes : Content(b)' = Content(b)
    BY <2>1, <2>2, BoxesAre
  <2>4. Submitted' = Submitted
    BY <1>0, <1>2, <1>4 DEF Submitted
  <2>. QED
    BY <1>0, <1>2, <2>3, <2>4, PlacedKept
<1>9. Working'
  <2>1. ASSUME NEW v \in Workers \ {w}, Executing(v)
        PROVE  /\ task'[v] = task[v] /\ task[v] \in Tasks /\ task[v] # x
               /\ status'[task[v]] = IF pc'[v] = "finish" THEN "finished" ELSE "running"
    <3>1. task'[v] = task[v] /\ pc'[v] = pc[v]
      BY <1>5, <1>7, ThreadFacts
    <3>2. task[v] \in Tasks /\ task[v] # x
      BY <1>0, <1>1, <1>4, <2>1 DEF Working
    <3>3. status'[task[v]] = status[task[v]]
      BY <1>0, <1>2, <3>2
    <3>. QED
      BY <1>0, <2>1, <3>1, <3>2, <3>3 DEF Working
  <2>2. CASE pc[w] = "run"
    <3>1. task'[w] = x /\ pc'[w] = "finish" /\ status'[x] = "finished"
      BY <1>0, <1>1, <1>2, <1>3, <1>4, <1>5, <2>2 DEF BodyReturns, locals
    <3>. QED
      BY <1>0, <1>4, <1>5, <2>1, <3>1 DEF Working
  <2>3. CASE pc[w] = "finish"
    <3>1. ~Executing(w)'
      BY <1>3, <1>5, <2>3 DEF Executing
    <3>2. \A v \in Workers : Executing(v)' => v # w /\ Executing(v)
      BY <1>5, <3>1
    <3>. QED
      BY <1>0, <2>1, <3>2 DEF Working
  <2>. QED
    BY <1>2, <2>2, <2>3
<1>10. Balanced'
  <2>1. CASE pc[w] = "run"
    <3>1. Unfinished' = Unfinished /\ pending' = pending
      BY <1>0, <1>2, <1>4, <2>1 DEF Unfinished, BodyReturns, counters
    <3>. QED
      BY <1>0, <3>1 DEF Balanced, PendingBalance
  <2>2. CASE pc[w] = "finish"
    <3>1. pending' = pending - 1
      BY <1>2, <2>2 DEF Finish
    <3>2. Unfinished' = Unfinished \ {x} /\ x \in Unfinished
      BY <1>0, <1>2, <1>4, <2>2 DEF Unfinished, Statuses
    <3>. QED
      BY <1>0, <3>1, <3>2, FS_RemoveElement DEF Balanced, PendingBalance
  <2>. QED
    BY <1>2, <2>1, <2>2
<1>11. SearchedEmpty'
  <2>1. ~Searched(w)'
    BY <1>5 DEF Searched
  <2>. QED
    BY <1>0, <1>2, <1>5, <2>1 DEF SearchedEmpty
<1>. QED
  BY <1>6, <1>8, <1>9, <1>10, <1>11 DEF Inv

-----------------------------------------------------------------------------
(* The invariant holds.                                                    *)

LEMMA InitInv == Init => Inv
<1>. SUFFICES ASSUME Init PROVE Inv
  OBVIOUS
<1>1. \A p \in Threads : pc[p] \in {"pop", "idle"}
  BY DEF Init
<1>2. TypeOK
  <2>1. DataTyped
    BY ThreadFacts DEF Init, DataTyped
  <2>2. PcTyped
    BY ThreadFacts DEF Init, PcTyped, Labels, WorkerLabels, ClientLabels
  <2>. QED
    BY <2>1, <2>2, TypeParts
<1>3. \A b \in Boxes : Content(b) = {}
  <2>1. \A w \in Workers : Elements(inbox[w]) = {} /\ Elements(deque[w]) = {}
    BY DEF Init, Elements
  <2>2. \A p \in Threads : Content(Hand(p)) = {}
    BY <1>1, ContentIs
  <2>3. \A w \in Workers : Content(Inbox(w)) = {} /\ Content(OwnDeque(w)) = {}
    BY <2>1, ContentIs
  <2>4. \A w \in Workers : Content(TakenBox(w)) = {}
    <3>1. \A w \in Workers : pc[w] # "taken"
      BY <1>1, ThreadFacts
    <3>. QED
      BY <3>1, ContentIs
  <2>5. \A b \in Boxes : \/ \E p \in Threads : b = Hand(p)
                         \/ \E w \in Workers : b \in {Inbox(w), OwnDeque(w), TakenBox(w)}
    BY BoxesAre
  <2>. QED
    BY <2>2, <2>3, <2>4, <2>5
<1>4. Placed
  <2>1. Disjoint /\ Contents = {}
    BY <1>3 DEF Disjoint, Contents
  <2>2. Submitted = {}
    BY DEF Init, Submitted
  <2>3. Unrepeated
    BY DEF Init, Unrepeated, Injective
  <2>. QED
    BY <2>1, <2>2, <2>3 DEF Placed
<1>5. Working /\ SearchedEmpty
  BY <1>1, ThreadFacts DEF Working, Executing, SearchedEmpty, Searched
<1>6. Balanced
  <2>1. Unfinished = {}
    BY DEF Init, Unfinished
  <2>. QED
    BY <2>1, FS_EmptySet DEF Init, Balanced, PendingBalance
<1>. QED
  BY <1>2, <1>4, <1>5, <1>6 DEF Inv

LEMMA NextInv == Inv /\ [Next]_vars => Inv'
<1>. SUFFICES ASSUME Inv, [Next]_vars PROVE Inv'
  OBVIOUS
<1>1. TypeOK'
  BY TypeStep
<1>2. ASSUME Quiet, SearchedEmpty' PROVE Inv'
  BY <1>1, <1>2, QuietInv DEF Inv
<1>3. ASSUME NEW p \in Threads, Enqueue(p) PROVE Inv'
  BY <1>2, <1>3, HandOverInv, NotifyQuiet DEF Enqueue
<1>4. ASSUME NEW w \in Workers, Find(w) PROVE Inv'
  BY <1>2, <1>4, TakeInv, FindNothing DEF Find
<1>5. ASSUME NEW w \in Workers, Execute(w) PROVE Inv'
  BY <1>2, <1>5, UncountInv, SubmitInv, EndInv, NotifyQuiet, ThreadFacts DEF Execute
<1>6. ASSUME NEW w \in Workers, Idle(w) \/ SpuriousWakeup(w) PROVE Inv'
  BY <1>2, <1>6, ControlQuiet
<1>7. CASE WaitAll \/ SpuriousDone \/ Destroy \/ Shutdown
  BY <1>2, <1>7, ControlQuiet, NotifyQuiet DEF Shutdown
<1>8. CASE \E c \in Clients : SubmitOutside(c) \/ Enqueue(c)
  BY <1>3, <1>8, SubmitInv, ThreadFacts
<1>9. CASE UNCHANGED vars
  <2>1. Quiet /\ SearchedEmpty'
    BY <1>9 DEF Inv, Quiet, Same, Executing, SearchedEmpty, Searched,
       vars, data, counters, queues, locals
  <2>. QED
    BY <1>2, <2>1
<1>10. CASE \E w \in Workers : Worker(w) \/ SpuriousWakeup(w)
  BY <1>3, <1>4, <1>5, <1>6, <1>10, ThreadFacts DEF Worker
<1>. QED
  BY <1>7, <1>8, <1>9, <1>10 DEF Next

\* The invariant of the pool, whatever is submitted from wherever.
THEOREM PoolInductive == Spec => []Inv
BY InitInv, NextInv, PTL DEF Spec

\* Every variable of the pool keeps its type; in particular pending_, a size_t,
\* is never decremented below 0.
THEOREM PoolTyped == Spec => []TypeOK
<1>1. Inv => TypeOK
  BY DEF Inv
<1>. QED
  BY <1>1, PoolInductive, PTL

\* pending_ is the number of tasks submitted and not come back from.
THEOREM PendingCounts == Spec => []PendingBalance
<1>1. Inv => PendingBalance
  BY DEF Inv, Balanced
<1>. QED
  BY <1>1, PoolInductive, PTL

\* A worker that sleeps or has left has an empty deque.
THEOREM RestingEmpty == Spec => []RestingDequeEmpty
<1>1. Inv => RestingDequeEmpty
  BY DEF Inv, SearchedEmpty, Searched, RestingDequeEmpty, Resting
<1>. QED
  BY <1>1, PoolInductive, PTL

-----------------------------------------------------------------------------
(* From boxes to numbers.                                                  *)

LEMMA AtMostOne ==
  ASSUME NEW S, \A a, b \in S : a = b
  PROVE  IsFiniteSet(S) /\ Cardinality(S) = IF S = {} THEN 0 ELSE 1
<1>1. CASE S = {}
  BY <1>1, FS_EmptySet
<1>2. CASE S # {}
  <2>1. PICK a : S = {a}
    BY <1>2
  <2>. QED
    BY <1>2, <2>1, FS_Singleton
<1>. QED
  BY <1>1, <1>2

\* In terms of boxes, the four sets that OnePlace counts.
LEMMA PlacesAre ==
  ASSUME Inv, NEW x \in Tasks
  PROVE  /\ InHand(x) # {} <=> \E p \in Threads : x \in Content(Hand(p))
         /\ InInbox(x) # {} <=> \E w \in Workers : x \in Content(Inbox(w))
         /\ InDeque(x) # {} <=> \E w \in Workers : x \in Content(OwnDeque(w))
         /\ TakenBy(x) # {} <=> \E w \in Workers : x \in Content(TakenBox(w))
         /\ \A a, b \in InHand(x) : a = b
         /\ \A a, b \in InInbox(x) : a = b
         /\ \A a, b \in InDeque(x) : a = b
         /\ \A a, b \in TakenBy(x) : a = b
<1>0. Disjoint /\ Unrepeated
  BY DEF Inv, Placed
<1>1. \A p \in Threads : p \in InHand(x) <=> x \in Content(Hand(p))
  BY ContentIs DEF InHand, At
<1>2. \A w \in Workers : w \in TakenBy(x) <=> x \in Content(TakenBox(w))
  BY ContentIs DEF TakenBy, At
<1>3. /\ InHand(x) \subseteq Threads /\ TakenBy(x) \subseteq Workers
  BY DEF InHand, TakenBy
<1>4. \A s \in InInbox(x) : /\ s = <<s[1], s[2]>> /\ s[1] \in Workers
                            /\ s[2] \in DOMAIN inbox[s[1]] /\ inbox[s[1]][s[2]] = x
                            /\ x \in Content(Inbox(s[1]))
  BY ContentIs DEF InInbox, Slots, Elements
<1>5. \A s \in InDeque(x) : /\ s = <<s[1], s[2]>> /\ s[1] \in Workers
                            /\ s[2] \in DOMAIN deque[s[1]] /\ deque[s[1]][s[2]] = x
                            /\ x \in Content(OwnDeque(s[1]))
  BY ContentIs DEF InDeque, Slots, Elements
<1>6. ASSUME NEW w \in Workers, x \in Content(Inbox(w)) PROVE InInbox(x) # {}
  <2>1. PICK i \in DOMAIN inbox[w] : inbox[w][i] = x
    BY <1>6, ContentIs DEF Elements
  <2>2. <<w, i>> \in InInbox(x)
    BY <2>1 DEF InInbox, Slots
  <2>. QED
    BY <2>2
<1>7. ASSUME NEW w \in Workers, x \in Content(OwnDeque(w)) PROVE InDeque(x) # {}
  <2>1. PICK i \in DOMAIN deque[w] : deque[w][i] = x
    BY <1>7, ContentIs DEF Elements
  <2>2. <<w, i>> \in InDeque(x)
    BY <2>1 DEF InDeque, Slots
  <2>. QED
    BY <2>2
<1>8. \A b, c \in Boxes : x \in Content(b) /\ x \in Content(c) => b = c
  BY <1>0 DEF Disjoint
<1>9. \A a, b \in InHand(x) : a = b
  BY <1>1, <1>3, <1>8, BoxesAre
<1>10. \A a, b \in TakenBy(x) : a = b
  <2>. TAKE a, b \in TakenBy(x)
  <2>1. a \in Workers /\ b \in Workers
    BY <1>3
  <2>2. TakenBox(a) = TakenBox(b)
    BY <1>2, <1>8, <2>1, BoxesAre
  <2>. QED
    BY <2>2, BoxesAre
<1>11. \A a, b \in InInbox(x) : a = b
  <2>. TAKE a, b \in InInbox(x)
  <2>1. a[1] = b[1]
    BY <1>4, <1>8, BoxesAre
  <2>2. a[2] = b[2]
    BY <1>0, <1>4, <2>1 DEF Unrepeated, Injective
  <2>. QED
    BY <1>4, <2>1, <2>2
<1>12. \A a, b \in InDeque(x) : a = b
  <2>. TAKE a, b \in InDeque(x)
  <2>1. a[1] = b[1]
    BY <1>5, <1>8, BoxesAre
  <2>2. a[2] = b[2]
    BY <1>0, <1>5, <2>1 DEF Unrepeated, Injective
  <2>. QED
    BY <1>5, <2>1, <2>2
<1>. QED
  BY <1>1, <1>2, <1>3, <1>4, <1>5, <1>6, <1>7, <1>9, <1>10, <1>11, <1>12

\* A task that waits to start is in exactly one place, one that started is in
\* none: pushing, popping, stealing and draining an inbox neither lose nor copy.
THEOREM TasksInOnePlace == Spec => []OnePlace
<1>1. Inv => OnePlace
  <2>. SUFFICES ASSUME Inv, NEW x \in Tasks
                PROVE  Cardinality(InHand(x)) + Cardinality(InInbox(x))
                         + Cardinality(InDeque(x)) + Cardinality(TakenBy(x))
                       = IF status[x] = "submitted" THEN 1 ELSE 0
    BY DEF OnePlace
  <2>1. \A b, c \in Boxes : x \in Content(b) /\ x \in Content(c) => b = c
    BY DEF Inv, Placed, Disjoint
  <2>2. status[x] = "submitted" <=> \E b \in Boxes : x \in Content(b)
    BY DEF Inv, Placed, Contents, Submitted
  <2>3. /\ Cardinality(InHand(x)) = IF InHand(x) = {} THEN 0 ELSE 1
        /\ Cardinality(InInbox(x)) = IF InInbox(x) = {} THEN 0 ELSE 1
        /\ Cardinality(InDeque(x)) = IF InDeque(x) = {} THEN 0 ELSE 1
        /\ Cardinality(TakenBy(x)) = IF TakenBy(x) = {} THEN 0 ELSE 1
    BY PlacesAre, AtMostOne
  <2>4. /\ InHand(x) # {} => InInbox(x) = {} /\ InDeque(x) = {} /\ TakenBy(x) = {}
        /\ InInbox(x) # {} => InDeque(x) = {} /\ TakenBy(x) = {}
        /\ InDeque(x) # {} => TakenBy(x) = {}
    BY <2>1, PlacesAre, BoxesAre
  <2>5. status[x] = "submitted" <=>
          InHand(x) # {} \/ InInbox(x) # {} \/ InDeque(x) # {} \/ TakenBy(x) # {}
    BY <2>2, PlacesAre, BoxesAre
  <2>. QED
    BY <2>3, <2>4, <2>5
<1>. QED
  BY <1>1, PoolInductive, PTL

-----------------------------------------------------------------------------
(* queued_ and the queues.                                                 *)

QueuedInv == SlotsFinite /\ QueuedBalance

LEMMA CountsAreNat ==
  /\ SlotsFinite =>
       /\ Cardinality(Counting) \in Nat /\ Cardinality(Taking) \in Nat
       /\ Cardinality(Slots(inbox)) \in Nat /\ Cardinality(Slots(deque)) \in Nat
  /\ SlotsFinite' =>
       /\ Cardinality(Counting') \in Nat /\ Cardinality(Taking') \in Nat
       /\ Cardinality(Slots(inbox')) \in Nat /\ Cardinality(Slots(deque')) \in Nat
BY FS_CardinalityType DEF SlotsFinite, Slots

\* One member more or less changes the number by one.
LEMMA OneMember ==
  ASSUME NEW S, NEW T, NEW x, x \notin S, T = S \cup {x},
         IsFiniteSet(S) \/ IsFiniteSet(T)
  PROVE  /\ IsFiniteSet(S) /\ IsFiniteSet(T) /\ Cardinality(S) \in Nat
         /\ Cardinality(T) = Cardinality(S) + 1
<1>1. IsFiniteSet(S)
  BY FS_Subset
<1>. QED
  BY <1>1, FS_AddElement, FS_CardinalityType

LEMMA OneSlotMore ==
  ASSUME NEW q, NEW r, NEW w \in Workers, NEW n,
         n \notin DOMAIN q[w], DOMAIN r[w] = DOMAIN q[w] \cup {n},
         \A v \in Workers \ {w} : r[v] = q[v],
         IsFiniteSet(Slots(q)) \/ IsFiniteSet(Slots(r))
  PROVE  /\ IsFiniteSet(Slots(q)) /\ IsFiniteSet(Slots(r)) /\ Cardinality(Slots(q)) \in Nat
         /\ Cardinality(Slots(r)) = Cardinality(Slots(q)) + 1
<1>1. /\ \A s : s \in Slots(q) <=> \E v \in Workers : \E i \in DOMAIN q[v] : s = <<v, i>>
      /\ \A s : s \in Slots(r) <=> \E v \in Workers : \E i \in DOMAIN r[v] : s = <<v, i>>
  BY DEF Slots
<1>2. <<w, n>> \notin Slots(q)
  BY <1>1
<1>3. Slots(r) = Slots(q) \cup {<<w, n>>}
  <2>1. \A s \in Slots(q) : s \in Slots(r)
    BY <1>1
  <2>2. <<w, n>> \in Slots(r)
    BY <1>1
  <2>3. \A s \in Slots(r) : s \in Slots(q) \/ s = <<w, n>>
    BY <1>1
  <2>. QED
    BY <2>1, <2>2, <2>3
<1>. QED
  BY <1>2, <1>3, OneMember

\* Steps that change no queue, no count of queued_ and nobody between the two.
LEMMA QueuedKept ==
  ASSUME QueuedInv, UNCHANGED <<inbox, deque, queued>>,
         \A p \in Threads : Same(p, "count"),
         \A w \in Workers : Same(w, "taken")
  PROVE  QueuedInv'
<1>1. /\ Slots(inbox)' = Slots(inbox) /\ Slots(deque)' = Slots(deque)
      /\ Counting' = Counting /\ Taking' = Taking
  BY DEF Slots, Counting, Taking, At, Same
<1>. QED
  BY <1>1 DEF QueuedInv, SlotsFinite, QueuedBalance, Items

LEMMA AppendSlot ==
  ASSUME NEW S, NEW q \in Seq(S), NEW x \in S
  PROVE  DOMAIN Append(q, x) = DOMAIN q \cup {Len(q) + 1} /\ Len(q) + 1 \notin DOMAIN q
<1>1. /\ Append(q, x) \in Seq(S) /\ Len(Append(q, x)) = Len(q) + 1
      /\ Len(q) \in Nat /\ DOMAIN q = 1..Len(q)
  BY AppendProperties, LenProperties
<1>2. DOMAIN Append(q, x) = 1..(Len(q) + 1)
  BY <1>1, LenProperties
<1>. QED
  BY <1>1, <1>2

\* A push adds an item that queued_ does not count yet.
LEMMA PushQueued ==
  ASSUME Inv, QueuedInv, NEW p \in Threads, Push(p)
  PROVE  QueuedInv'
<1>0. /\ TypeOK /\ SlotsFinite /\ QueuedBalance
      /\ inbox \in [Workers -> Seq(Tasks)] /\ deque \in [Workers -> Seq(Tasks)]
      /\ target[p] \in Workers /\ pc[p] = "push" /\ queued \in Int
  BY DEF Inv, TypeOK, QueuedInv, Push, At
<1>1. item[p] \in Tasks
  BY <1>0, HandTyped DEF Inv
<1>2. /\ Goto(p, "count") /\ "count" \in Labels(p) /\ queued' = queued
  BY DEF Push, Labels, WorkerLabels, ClientLabels, counters
<1>3. pc'[p] = "count" /\ \A q \in Threads \ {p} : pc'[q] = pc[q]
  BY <1>0, <1>2, GotoType
<1>4. Counting' = Counting \cup {p} /\ p \notin Counting
  BY <1>0, <1>3 DEF Counting, At
<1>5. Taking' = Taking
  BY <1>0, <1>3, ThreadFacts DEF Taking, At
<1>6. IsFiniteSet(Counting') /\ Cardinality(Counting') = Cardinality(Counting) + 1
  BY <1>0, <1>4, OneMember DEF SlotsFinite
<1>7. \/ /\ IsFiniteSet(Slots(inbox')) /\ deque' = deque
         /\ Cardinality(Slots(inbox')) = Cardinality(Slots(inbox)) + 1
      \/ /\ IsFiniteSet(Slots(deque')) /\ inbox' = inbox
         /\ Cardinality(Slots(deque')) = Cardinality(Slots(deque)) + 1
  <2>1. CASE p \in Workers
    <3>1. inbox' = inbox /\ deque' = [deque EXCEPT ![p] = Append(deque[p], item[p])]
      BY <2>1 DEF Push, Queued
    <3>2. PICK n : n = Len(deque[p]) + 1
      OBVIOUS
    <3>3. /\ DOMAIN deque'[p] = DOMAIN deque[p] \cup {n} /\ n \notin DOMAIN deque[p]
          /\ \A w \in Workers \ {p} : deque'[w] = deque[w]
      BY <1>0, <1>1, <2>1, <3>1, <3>2, AppendSlot
    <3>. QED
      BY <1>0, <2>1, <3>1, <3>3, OneSlotMore DEF SlotsFinite
  <2>2. CASE p \notin Workers
    <3>0. PICK t \in Workers : t = target[p]
      BY <1>0
    <3>1. deque' = deque /\ inbox' = [inbox EXCEPT ![t] = Append(inbox[t], item[p])]
      BY <2>2, <3>0 DEF Push, Queued
    <3>2. PICK n : n = Len(inbox[t]) + 1
      OBVIOUS
    <3>3. /\ DOMAIN inbox'[t] = DOMAIN inbox[t] \cup {n} /\ n \notin DOMAIN inbox[t]
          /\ \A w \in Workers \ {t} : inbox'[w] = inbox[w]
      BY <1>0, <1>1, <3>1, <3>2, AppendSlot
    <3>. QED
      BY <1>0, <3>1, <3>3, OneSlotMore DEF SlotsFinite
  <2>. QED
    BY <2>1, <2>2
<1>8. /\ Slots(inbox)' = Slots(inbox') /\ Slots(deque)' = Slots(deque')
  BY DEF Slots
<1>9. SlotsFinite' /\ Items' = Items + 1
  <2>1. /\ Cardinality(Slots(inbox)) \in Nat /\ Cardinality(Slots(deque)) \in Nat
    BY <1>0, CountsAreNat
  <2>. QED
    BY <1>0, <1>5, <1>6, <1>7, <1>8, <2>1 DEF SlotsFinite, Items
<1>. QED
  BY <1>0, <1>2, <1>5, <1>6, <1>9, CountsAreNat DEF QueuedInv, QueuedBalance, Items

\* Taking an item: its queue has one less, and one worker more has to uncount.
LEMMA TakeQueued ==
  ASSUME Inv, QueuedInv, NEW w \in Workers,
         \/ PopOwn(w) /\ deque[w] # <<>>
         \/ PopInbox(w) /\ inbox[w] # <<>>
         \/ StealCas(w) /\ OnTop(target[w], item[w])
  PROVE  QueuedInv'
<1>0. /\ TypeOK /\ SlotsFinite /\ QueuedBalance /\ Unrepeated
      /\ inbox \in [Workers -> Seq(Tasks)] /\ deque \in [Workers -> Seq(Tasks)]
      /\ target[w] \in Workers /\ queued \in Int /\ w \in Threads
  BY ThreadFacts DEF Inv, Placed, TypeOK, QueuedInv
<1>1. /\ queued' = queued /\ pc[w] \in {"pop", "inbox", "steal_cas"}
      /\ Goto(w, "taken") /\ "taken" \in Labels(w)
  BY <1>0 DEF PopOwn, PopInbox, StealCas, Got, At, counters, Labels, WorkerLabels
<1>2. pc'[w] = "taken" /\ \A q \in Threads \ {w} : pc'[q] = pc[q]
  BY <1>0, <1>1, GotoType
<1>3. Taking' = Taking \cup {w} /\ w \notin Taking
  BY <1>1, <1>2, ThreadFacts DEF Taking, At
<1>4. Counting' = Counting
  BY <1>1, <1>2 DEF Counting, At
<1>5. IsFiniteSet(Taking') /\ Cardinality(Taking') = Cardinality(Taking) + 1
  BY <1>0, <1>3, OneMember DEF SlotsFinite
<1>6. \A q \in Seq(Tasks) : q # <<>> /\ Injective(q) =>
        /\ Len(q) \in DOMAIN q
        /\ DOMAIN SubSeq(q, 1, Len(q) - 1) = DOMAIN q \ {Len(q)}
        /\ DOMAIN Tail(q) = DOMAIN q \ {Len(q)} /\ SubSeq(q, 2, Len(q)) = Tail(q)
  BY PopEnd, PopFront, Taken
<1>7. \/ \E v \in Workers : \E n :
           /\ deque' = deque /\ n \in DOMAIN inbox[v] /\ DOMAIN inbox'[v] = DOMAIN inbox[v] \ {n}
           /\ \A u \in Workers \ {v} : inbox'[u] = inbox[u]
      \/ \E v \in Workers : \E n :
           /\ inbox' = inbox /\ n \in DOMAIN deque[v] /\ DOMAIN deque'[v] = DOMAIN deque[v] \ {n}
           /\ \A u \in Workers \ {v} : deque'[u] = deque[u]
  <2>1. CASE PopOwn(w) /\ deque[w] # <<>>
    <3>1. /\ deque' = [deque EXCEPT ![w] = SubSeq(deque[w], 1, Len(deque[w]) - 1)]
          /\ inbox' = inbox /\ Injective(deque[w])
      BY <1>0, <2>1 DEF PopOwn, Unrepeated
    <3>2. /\ Len(deque[w]) \in DOMAIN deque[w]
          /\ DOMAIN deque'[w] = DOMAIN deque[w] \ {Len(deque[w])}
          /\ \A u \in Workers \ {w} : deque'[u] = deque[u]
      BY <1>0, <1>6, <2>1, <3>1
    <3>. QED
      BY <3>1, <3>2
  <2>2. CASE PopInbox(w) /\ inbox[w] # <<>>
    <3>1. /\ inbox' = [inbox EXCEPT ![w] = Tail(inbox[w])]
          /\ deque' = deque /\ Injective(inbox[w])
      BY <1>0, <2>2 DEF PopInbox, Unrepeated
    <3>2. /\ Len(inbox[w]) \in DOMAIN inbox[w]
          /\ DOMAIN inbox'[w] = DOMAIN inbox[w] \ {Len(inbox[w])}
          /\ \A u \in Workers \ {w} : inbox'[u] = inbox[u]
      BY <1>0, <1>6, <2>2, <3>1
    <3>. QED
      BY <3>1, <3>2
  <2>3. CASE StealCas(w) /\ OnTop(target[w], item[w])
    <3>0. PICK v \in Workers : v = target[w]
      BY <1>0
    <3>1. /\ deque' = [deque EXCEPT ![v] = SubSeq(deque[v], 2, Len(deque[v]))]
          /\ inbox' = inbox /\ Injective(deque[v]) /\ deque[v] # <<>>
      BY <1>0, <2>3, <3>0 DEF StealCas, OnTop, Unrepeated
    <3>2. /\ Len(deque[v]) \in DOMAIN deque[v]
          /\ DOMAIN deque'[v] = DOMAIN deque[v] \ {Len(deque[v])}
          /\ \A u \in Workers \ {v} : deque'[u] = deque[u]
      BY <1>0, <1>6, <3>1
    <3>. QED
      BY <3>1, <3>2
  <2>. QED
    BY <2>1, <2>2, <2>3
<1>8. \/ /\ IsFiniteSet(Slots(inbox')) /\ deque' = deque
         /\ Cardinality(Slots(inbox)) = Cardinality(Slots(inbox')) + 1
      \/ /\ IsFiniteSet(Slots(deque')) /\ inbox' = inbox
         /\ Cardinality(Slots(deque)) = Cardinality(Slots(deque')) + 1
  <2>1. ASSUME NEW v \in Workers, NEW n, NEW q, NEW r, IsFiniteSet(Slots(q)),
               n \in DOMAIN q[v], DOMAIN r[v] = DOMAIN q[v] \ {n},
               \A u \in Workers \ {v} : r[u] = q[u]
        PROVE  IsFiniteSet(Slots(r)) /\ Cardinality(Slots(q)) = Cardinality(Slots(r)) + 1
    <3>1. /\ n \notin DOMAIN r[v] /\ DOMAIN q[v] = DOMAIN r[v] \cup {n}
          /\ \A u \in Workers \ {v} : q[u] = r[u]
      BY <2>1
    <3>. QED
      BY <2>1, <3>1, OneSlotMore
  <2>2. IsFiniteSet(Slots(inbox)) /\ IsFiniteSet(Slots(deque))
    BY <1>0 DEF SlotsFinite
  <2>. QED
    BY <1>7, <2>1, <2>2
<1>9. /\ Slots(inbox)' = Slots(inbox') /\ Slots(deque)' = Slots(deque')
  BY DEF Slots
<1>10. SlotsFinite'
  BY <1>0, <1>4, <1>5, <1>8, <1>9 DEF SlotsFinite
<1>11. Items = Items' + 1 /\ Items' \in Nat
  BY <1>8, <1>9, <1>10, CountsAreNat DEF Items
<1>. QED
  BY <1>0, <1>1, <1>4, <1>5, <1>10, <1>11, CountsAreNat DEF QueuedInv, QueuedBalance

\* The two steps that move queued_ itself.
LEMMA CountQueued ==
  ASSUME Inv, QueuedInv, NEW p \in Threads,
         Count(p) \/ (p \in Workers /\ Uncount(p))
  PROVE  QueuedInv'
<1>0. TypeOK /\ SlotsFinite /\ QueuedBalance /\ queued \in Int
  BY DEF Inv, TypeOK, QueuedInv
<1>1. PICK l \in {"notify", "run"} :
        /\ Goto(p, l) /\ l \in Labels(p) /\ UNCHANGED <<inbox, deque>>
        /\ \/ l = "notify" /\ pc[p] = "count" /\ queued' = queued + 1
           \/ l = "run" /\ pc[p] = "taken" /\ queued' = queued - 1 /\ p \in Workers
  BY DEF Count, OneMore, Uncount, At, queues, Labels, WorkerLabels, ClientLabels
<1>2. pc'[p] = l /\ \A q \in Threads \ {p} : pc'[q] = pc[q]
  BY <1>0, <1>1, GotoType
<1>3. Slots(inbox)' = Slots(inbox) /\ Slots(deque)' = Slots(deque) /\ Items' = Items
  BY <1>1 DEF Slots, Items
<1>4. CASE pc[p] = "count"
  <2>1. Counting = Counting' \cup {p} /\ p \notin Counting'
    BY <1>1, <1>2, <1>4 DEF Counting, At
  <2>2. Taking' = Taking
    BY <1>1, <1>2, <1>4, ThreadFacts DEF Taking, At
  <2>3. IsFiniteSet(Counting') /\ Cardinality(Counting) = Cardinality(Counting') + 1
    BY <1>0, <2>1, OneMember DEF SlotsFinite
  <2>4. SlotsFinite'
    BY <1>0, <1>3, <2>2, <2>3 DEF SlotsFinite
  <2>5. queued' = queued + 1
    BY <1>1, <1>4
  <2>. QED
    BY <1>0, <1>3, <2>2, <2>3, <2>4, <2>5, CountsAreNat DEF QueuedInv, QueuedBalance, Items
<1>5. CASE pc[p] = "taken"
  <2>1. Taking = Taking' \cup {p} /\ p \notin Taking'
    BY <1>1, <1>2, <1>5, ThreadFacts DEF Taking, At
  <2>2. Counting' = Counting
    BY <1>1, <1>2, <1>5 DEF Counting, At
  <2>3. IsFiniteSet(Taking') /\ Cardinality(Taking) = Cardinality(Taking') + 1
    BY <1>0, <2>1, OneMember DEF SlotsFinite
  <2>4. SlotsFinite'
    BY <1>0, <1>3, <2>2, <2>3 DEF SlotsFinite
  <2>5. queued' = queued - 1
    BY <1>1, <1>5
  <2>. QED
    BY <1>0, <1>3, <2>2, <2>3, <2>4, <2>5, CountsAreNat DEF QueuedInv, QueuedBalance, Items
<1>. QED
  BY <1>1, <1>4, <1>5

\* Submitting, a body that returns and a retired task change none of this.
LEMMA OthersQueued ==
  ASSUME Inv, QueuedInv, NEW p \in Threads,
         \/ p \in Clients /\ SubmitOutside(p)
         \/ p \in Workers /\ (SubmitInside(p) \/ BodyReturns(p) \/ Finish(p))
  PROVE  QueuedInv'
<1>1. PICK l \in {"push", "finish", "notify_done", "pop"} : Goto(p, l) /\ l \in Labels(p)
  BY ThreadFacts DEF SubmitOutside, SubmitInside, Begin, BodyReturns, Finish, AfterTask,
     Labels, WorkerLabels, ClientLabels
<1>2. pc[p] \notin {"count", "taken"} /\ UNCHANGED <<inbox, deque, queued>>
  BY DEF SubmitOutside, SubmitInside, BodyReturns, Finish, At, queues, counters
<1>3. pc'[p] = l /\ \A q \in Threads \ {p} : pc'[q] = pc[q]
  BY <1>1, GotoType DEF Inv
<1>4. /\ \A q \in Threads : Same(q, "count")
      /\ \A w \in Workers : Same(w, "taken")
  BY <1>2, <1>3, ThreadFacts DEF Same
<1>. QED
  BY <1>2, <1>4, QueuedKept

LEMMA InitQueued == Init => QueuedInv
<1>. SUFFICES ASSUME Init PROVE QueuedInv
  OBVIOUS
<1>1. \A w \in Workers : DOMAIN inbox[w] = {} /\ DOMAIN deque[w] = {}
  BY DEF Init
<1>2. Slots(inbox) = {} /\ Slots(deque) = {}
  BY <1>1 DEF Slots
<1>3. Counting = {} /\ Taking = {}
  BY ThreadFacts DEF Init, Counting, Taking, At
<1>4. queued = 0
  BY DEF Init
<1>5. SlotsFinite
  BY <1>2, <1>3, FS_EmptySet DEF SlotsFinite
<1>6. Items = 0 /\ Cardinality(Counting) = 0 /\ Cardinality(Taking) = 0
  BY <1>2, <1>3, FS_EmptySet DEF Items
<1>. QED
  BY <1>4, <1>5, <1>6 DEF QueuedInv, QueuedBalance

LEMMA NextQueued == Inv /\ QueuedInv /\ [Next]_vars => QueuedInv'
<1>. SUFFICES ASSUME Inv, QueuedInv, [Next]_vars PROVE QueuedInv'
  OBVIOUS
<1>1. ASSUME Quiet PROVE QueuedInv'
  BY <1>1, QueuedKept, ThreadFacts DEF Quiet
<1>2. ASSUME NEW p \in Threads, Enqueue(p) PROVE QueuedInv'
  BY <1>1, <1>2, PushQueued, CountQueued, NotifyQuiet DEF Enqueue
<1>3. ASSUME NEW w \in Workers, Find(w) PROVE QueuedInv'
  BY <1>1, <1>3, TakeQueued, FindNothing DEF Find
<1>4. ASSUME NEW w \in Workers, Execute(w) PROVE QueuedInv'
  BY <1>1, <1>4, CountQueued, OthersQueued, NotifyQuiet, ThreadFacts DEF Execute
<1>5. CASE \E w \in Workers : Worker(w) \/ SpuriousWakeup(w)
  BY <1>1, <1>2, <1>3, <1>4, <1>5, ControlQuiet, ThreadFacts DEF Worker
<1>6. CASE \E c \in Clients : SubmitOutside(c) \/ Enqueue(c)
  BY <1>2, <1>6, OthersQueued, ThreadFacts
<1>7. CASE WaitAll \/ SpuriousDone \/ Destroy \/ Shutdown
  BY <1>1, <1>7, ControlQuiet, NotifyQuiet DEF Shutdown
<1>8. CASE UNCHANGED vars
  BY <1>8, QueuedKept DEF Same, vars, data, counters, queues
<1>. QED
  BY <1>5, <1>6, <1>7, <1>8 DEF Next

\* queued_ is the number of items in all queues, up to the threads between a
\* push and its count or a take and its uncount.
THEOREM QueuedExact == Spec => []QueuedBalance
<1>1. Inv /\ QueuedInv /\ [Next]_vars => (Inv /\ QueuedInv)'
  BY NextInv, NextQueued
<1>2. QueuedInv => QueuedBalance
  BY DEF QueuedInv
<1>. QED
  BY InitInv, InitQueued, <1>1, <1>2, PTL DEF Spec

-----------------------------------------------------------------------------
(* Shutdown abandons nothing, except while a worker stands between the     *)
(* push and the count of a nested submission.                              *)

\* The window of thread_pool.cpp:31: a task is in a deque and not yet counted,
\* so that queued_ may be 0 with tasks in the inboxes.
NoneCounting == \A v \in Workers : ~At(v, "count")

\* No client enqueues once stop_ is set, and no worker leaves before.
Settled ==
  /\ stop => /\ \A x \in Roots : status[x] # "new"
             /\ \A c \in Clients : pc[c] \notin {"push", "count"}
  /\ \A w \in Workers : At(w, "exited") => stop

\* What a step other than the exit test does: Settled stays, and nothing comes
\* into the inbox of a worker that has left.
Drained == \A w \in Workers : At(w, "exited") => inbox[w] = <<>>
DrainKept == Settled' /\ (Drained => Drained')

PcHarmless ==
  /\ \A c \in Clients : pc'[c] \in {"push", "count"} => pc[c] \in {"push", "count"}
  /\ \A w \in Workers : pc'[w] = "exited" => pc[w] = "exited"
DataHarmless ==
  /\ stop' = stop
  /\ \A x \in Roots : status[x] # "new" => status'[x] # "new"
  /\ \A v \in Workers : inbox[v] = <<>> => inbox'[v] = <<>>

LEMMA HarmlessKeeps == Settled /\ PcHarmless /\ DataHarmless => DrainKept
BY DEF Settled, Drained, DrainKept, PcHarmless, DataHarmless, At, Roots

\* Before the destructor nobody has left.
LEMMA RunningKeeps ==
  ASSUME Settled, stop # TRUE, stop' = stop,
         \A w \in Workers : pc'[w] = "exited" => pc[w] = "exited"
  PROVE  DrainKept
BY DEF Settled, Drained, DrainKept, At

LEMMA GotoHarmless ==
  ASSUME TypeOK, NEW p \in Threads, NEW l \in Labels(p), Goto(p, l), l # "exited",
         p \in Clients /\ l \in {"push", "count"} => pc[p] \in {"push", "count"}
  PROVE  PcHarmless
<1>1. pc'[p] = l /\ \A q \in Threads \ {p} : pc'[q] = pc[q]
  BY GotoType
<1>. QED
  BY <1>1, ThreadFacts DEF PcHarmless

LEMMA WakeHarmless ==
  ASSUME TypeOK, NEW S \in SUBSET Sleepers, NEW p \in Threads, NEW l \in Labels(p),
         p \notin S, pc' = [WakeAll(S) EXCEPT ![p] = l], l \notin {"exited", "push", "count"}
  PROVE  PcHarmless
<1>1. /\ pc'[p] = l
      /\ \A q \in Threads \ {p} :
           pc'[q] = pc[q] \/ (q \in Workers /\ pc[q] = "asleep" /\ pc'[q] = "lock")
  BY WakeType
<1>. QED
  BY <1>1, ThreadFacts DEF PcHarmless

LEMMA EnqueueDrain ==
  ASSUME TypeOK, Settled, NEW p \in Threads, Enqueue(p)
  PROVE  DrainKept
<1>1. CASE Push(p) \/ Count(p)
  <2>1. PICK l \in {"count", "notify"} : Goto(p, l) /\ l \in Labels(p) /\ pc[p] \in {"push", "count"}
    BY <1>1 DEF Push, Count, At, Labels, WorkerLabels, ClientLabels
  <2>2. PcHarmless
    BY <2>1, GotoHarmless
  <2>3. stop' = stop /\ status' = status
    BY <1>1 DEF Push, Count, counters
  <2>4. CASE p \in Workers
    <3>1. inbox' = inbox
      BY <1>1, <2>4 DEF Push, Queued, Count, queues
    <3>. QED
      BY <2>2, <2>3, <3>1, HarmlessKeeps DEF DataHarmless
  <2>5. CASE p \notin Workers
    <3>1. stop # TRUE
      BY <2>1, <2>5, ThreadFacts DEF Settled
    <3>. QED
      BY <2>2, <2>3, <3>1, RunningKeeps DEF PcHarmless
  <2>. QED
    BY <2>4, <2>5
<1>2. CASE Notify(p)
  <2>1. PICK l : l = IF p \in Workers THEN "run" ELSE "idle"
    OBVIOUS
  <2>2. PICK S \in SUBSET Sleepers : pc' = [WakeAll(S) EXCEPT ![p] = l]
    BY <1>2, <2>1 DEF Notify, Wakes, OneSleeper, Sleepers
  <2>3. p \notin S /\ l \in Labels(p) /\ l \notin {"exited", "push", "count"}
    BY <1>2, <2>1, <2>2 DEF Notify, At, Sleepers, Labels, WorkerLabels, ClientLabels
  <2>4. PcHarmless
    BY <2>2, <2>3, WakeHarmless
  <2>. QED
    BY <1>2, <2>4, HarmlessKeeps DEF Notify, DataHarmless, data, counters, queues
<1>. QED
  BY <1>1, <1>2 DEF Enqueue

LEMMA WorkDrain ==
  ASSUME TypeOK, Settled, NEW w \in Workers, Find(w) \/ Execute(w)
  PROVE  DrainKept
<1>0. w \in Threads /\ w \notin Clients
  BY ThreadFacts
<1>1. CASE Find(w) \/ Uncount(w) \/ SubmitInside(w) \/ BodyReturns(w) \/ Finish(w)
  <2>1. PICK l \in WorkerLabels : l # "exited" /\ (Goto(w, l) \/ pc' = pc)
    BY <1>1 DEF Find, PopOwn, PopInbox, StealLook, StealCas, StealGiveUp, Uncount, SubmitInside,
       Begin, BodyReturns, Finish, AfterTask, Got, WorkerLabels
  <2>2. l \in Labels(w)
    BY DEF Labels
  <2>3. PcHarmless
    BY <1>0, <2>1, <2>2, GotoHarmless DEF PcHarmless
  <2>4. stop' = stop
    BY <1>1 DEF Find, PopOwn, PopInbox, StealLook, StealCas, StealGiveUp, Uncount, SubmitInside,
       Begin, BodyReturns, Finish, counters, data
  <2>5. \/ status' = status
        \/ \E x : \E s \in {"submitted", "running", "finished", "retired"} : Mark(x, s)
    <3>1. CASE Find(w)
      BY <3>1 DEF Find, PopOwn, PopInbox, StealLook, StealCas, StealGiveUp, data
    <3>2. CASE Uncount(w) \/ SubmitInside(w) \/ BodyReturns(w) \/ Finish(w)
      BY <3>2 DEF Uncount, SubmitInside, Begin, BodyReturns, Finish
    <3>. QED
      BY <1>1, <3>1, <3>2
  <2>6. \A x \in Roots : status[x] # "new" => status'[x] # "new"
    BY <2>5 DEF TypeOK, Roots, Mark
  <2>7. \A v \in Workers : inbox[v] = <<>> => inbox'[v] = <<>>
    BY <1>1 DEF Find, PopOwn, PopInbox, StealLook, StealCas, StealGiveUp, Uncount, SubmitInside,
       BodyReturns, Finish, data, queues, TypeOK
  <2>. QED
    BY <2>3, <2>4, <2>6, <2>7, HarmlessKeeps DEF DataHarmless
<1>2. CASE NotifyDone(w)
  <2>1. /\ pc'[w] = "pop" /\ pc'[Main] \in {pc[Main], "wait_pred"}
        /\ \A q \in Threads \ {w, Main} : pc'[q] = pc[q]
    BY <1>0, <1>2, ThreadFacts DEF NotifyDone, Unblocked, TypeOK
  <2>2. PcHarmless
    BY <2>1, ThreadFacts DEF PcHarmless
  <2>. QED
    BY <1>2, <2>2, HarmlessKeeps DEF NotifyDone, DataHarmless, data, counters, queues
<1>. QED
  BY <1>1, <1>2 DEF Execute

\* The exit test: when all items are counted, queued_ = 0 means that there are none.
LEMMA NoneQueued ==
  ASSUME QueuedInv, queued = 0, Counting = {}
  PROVE  \A v \in Workers : DOMAIN inbox[v] = {}
<1>1. Cardinality(Counting) = 0
  BY FS_EmptySet
<1>2. Cardinality(Slots(inbox)) = 0
  <2>1. /\ Cardinality(Taking) \in Nat
        /\ Cardinality(Slots(inbox)) \in Nat /\ Cardinality(Slots(deque)) \in Nat
    BY CountsAreNat DEF QueuedInv
  <2>2. queued = Items - Cardinality(Counting) + Cardinality(Taking)
    BY DEF QueuedInv, QueuedBalance
  <2>3. 0 = (Cardinality(Slots(inbox)) + Cardinality(Slots(deque))) - 0 + Cardinality(Taking)
    BY ONLY <1>1, <2>2, queued = 0 DEF Items
  <2>. QED
    BY ONLY <2>1, <2>3
<1>3. Slots(inbox) = {}
  BY <1>2, FS_EmptySet DEF QueuedInv, SlotsFinite
<1>. SUFFICES ASSUME NEW v \in Workers, NEW i \in DOMAIN inbox[v] PROVE FALSE
  OBVIOUS
<1>4. <<v, i>> \in Slots(inbox)
  BY DEF Slots
<1>. QED
  BY <1>3, <1>4

LEMMA ExitDrain ==
  ASSUME TypeOK, QueuedInv, Settled, NEW w \in Workers, ExitCheck(w)
  PROVE  Settled' /\ (NoneCounting /\ Drained => Drained')
<1>1. PICK l \in {"exited", "pop"} : Goto(w, l) /\ (l = "exited" <=> MayExit)
  BY DEF ExitCheck
<1>2. l \in Labels(w) /\ w \in Threads
  BY ThreadFacts DEF Labels, WorkerLabels
<1>3. pc'[w] = l /\ \A q \in Threads \ {w} : pc'[q] = pc[q]
  BY <1>1, <1>2, GotoType
<1>4. UNCHANGED <<stop, status, inbox>>
  BY DEF ExitCheck, data, counters, queues
<1>5. l = "exited" => stop
  BY <1>1 DEF MayExit
<1>6. Settled'
  BY <1>1, <1>3, <1>4, <1>5, ThreadFacts DEF Settled, At
<1>7. ASSUME l = "exited", NoneCounting PROVE inbox[w] = <<>>
  <2>1. stop /\ queued = 0
    BY <1>1, <1>7 DEF MayExit
  <2>2. \A p \in Threads : pc[p] # "count"
    BY <1>7, <2>1, ThreadFacts DEF Settled, NoneCounting, At
  <2>3. Counting = {}
    BY <2>2 DEF Counting, At
  <2>4. DOMAIN inbox[w] = {}
    BY <2>1, <2>3, NoneQueued
  <2>5. inbox[w] \in Seq(Tasks)
    BY DEF TypeOK
  <2>6. inbox[w] # <<>> => 1 \in DOMAIN inbox[w]
    BY <2>5, Taken
  <2>. QED
    BY <2>4, <2>6
<1>8. NoneCounting /\ Drained => Drained'
  BY <1>3, <1>4, <1>7, ThreadFacts DEF Drained, At
<1>. QED
  BY <1>6, <1>8

LEMMA ControlDrain ==
  ASSUME TypeOK, Settled,
         \/ \E w \in Workers : Lock(w) \/ PredStop(w) \/ PredQueued(w) \/ Block(w) \/ SpuriousWakeup(w)
         \/ WaitAll \/ SpuriousDone \/ Shutdown
  PROVE  DrainKept
<1>1. UNCHANGED data
  BY DEF Lock, PredStop, PredQueued, Block, SpuriousWakeup, WaitAll, SpuriousDone, Shutdown,
     NotifyStop, Join
<1>2. DataHarmless
  BY <1>1 DEF DataHarmless, data, counters, queues
<1>3. ASSUME NEW w \in Workers,
             Lock(w) \/ PredStop(w) \/ PredQueued(w) \/ Block(w) \/ SpuriousWakeup(w)
      PROVE  PcHarmless
  <2>1. PICK l \in WorkerLabels : Goto(w, l) /\ l # "exited"
    BY <1>3 DEF Lock, PredStop, PredQueued, Block, SpuriousWakeup, WorkerLabels
  <2>. QED
    BY <2>1, GotoHarmless, ThreadFacts DEF Labels
<1>4. CASE WaitAll \/ SpuriousDone \/ Join
  <2>1. PICK l \in ClientLabels : Goto(Main, l) /\ l \notin {"exited", "push", "count"}
    BY <1>4 DEF WaitAll, SpuriousDone, Join, ClientLabels
  <2>. QED
    BY <2>1, GotoHarmless, ThreadFacts, <1>2, HarmlessKeeps DEF Labels
<1>5. CASE NotifyStop
  <2>1. PICK S \in SUBSET Sleepers : pc' = [WakeAll(S) EXCEPT ![Main] = "join"]
    BY <1>5 DEF NotifyStop, StopWakes, Sleepers
  <2>2. Main \in Threads /\ Main \notin S /\ "join" \in Labels(Main)
    BY <2>1, ThreadFacts DEF Sleepers, Labels, ClientLabels
  <2>3. PcHarmless
    BY <2>1, <2>2, WakeHarmless
  <2>. QED
    BY <2>3, <1>2, HarmlessKeeps
<1>. QED
  BY <1>2, <1>3, <1>4, <1>5, HarmlessKeeps DEF Shutdown

LEMMA ClientDrain ==
  ASSUME TypeOK, Settled, Destroy \/ \E c \in Clients : SubmitOutside(c)
  PROVE  DrainKept
<1>1. CASE Destroy
  <2>1. Goto(Main, "stop_notify") /\ "stop_notify" \in Labels(Main) /\ Main \in Threads
    BY <1>1, ThreadFacts DEF Destroy, Labels, ClientLabels
  <2>2. pc'[Main] = "stop_notify" /\ \A q \in Threads \ {Main} : pc'[q] = pc[q]
    BY <2>1, GotoType
  <2>3. stop' = TRUE /\ UNCHANGED <<status, inbox>>
    BY <1>1 DEF Destroy, queues
  <2>4. /\ \A x \in Roots : status[x] # "new"
        /\ \A c \in Clients : pc[c] = "idle"
    BY <1>1 DEF Destroy, At
  <2>. QED
    BY <2>2, <2>3, <2>4, ThreadFacts DEF Settled, Drained, DrainKept, At
<1>2. ASSUME NEW c \in Clients, SubmitOutside(c) PROVE DrainKept
  <2>1. stop # TRUE
    BY <1>2 DEF SubmitOutside, Begin, Settled
  <2>2. Goto(c, "push") /\ "push" \in Labels(c) /\ c \in Threads
    BY <1>2, ThreadFacts DEF SubmitOutside, Begin, Labels, ClientLabels
  <2>3. pc'[c] = "push" /\ \A q \in Threads \ {c} : pc'[q] = pc[q]
    BY <2>2, GotoType
  <2>4. stop' = stop
    BY <1>2 DEF SubmitOutside
  <2>. QED
    BY <2>1, <2>3, <2>4, RunningKeeps, ThreadFacts
<1>. QED
  BY <1>1, <1>2

LEMMA OtherStepsDrain ==
  ASSUME Inv, Settled, [Next]_vars, \A w \in Workers : ~ExitCheck(w)
  PROVE  DrainKept
<1>0. TypeOK
  BY DEF Inv
<1>1. ASSUME NEW w \in Workers, Worker(w) \/ SpuriousWakeup(w) PROVE DrainKept
  BY <1>0, <1>1, EnqueueDrain, WorkDrain, ControlDrain, ThreadFacts DEF Worker, Idle
<1>2. ASSUME NEW c \in Clients, SubmitOutside(c) \/ Enqueue(c) PROVE DrainKept
  BY <1>0, <1>2, EnqueueDrain, ClientDrain, ThreadFacts
<1>3. CASE WaitAll \/ SpuriousDone \/ Destroy \/ Shutdown
  BY <1>0, <1>3, ControlDrain, ClientDrain
<1>4. CASE UNCHANGED vars
  BY <1>4 DEF Settled, Drained, DrainKept, vars, data, counters, queues, At
<1>. QED
  BY <1>1, <1>2, <1>3, <1>4 DEF Next

LEMMA NextDrain ==
  ASSUME Inv, QueuedInv, Settled, [Next]_vars
  PROVE  Settled' /\ (NoneCounting /\ Drained => Drained')
<1>1. ASSUME NEW w \in Workers, ExitCheck(w) PROVE Settled' /\ (NoneCounting /\ Drained => Drained')
  BY <1>1, ExitDrain DEF Inv
<1>2. CASE \A w \in Workers : ~ExitCheck(w)
  BY <1>2, OtherStepsDrain DEF DrainKept
<1>. QED
  BY <1>1, <1>2

LEMMA InitDrain == Init => Settled /\ Drained
BY ThreadFacts DEF Init, Settled, Drained, At

LEMMA DrainedIs == Inv => (Drained <=> ExitedDrained)
BY DEF Inv, SearchedEmpty, Searched, Drained, ExitedDrained, At

\* A worker that leaves abandons a task in its inbox only while another stands
\* between the push and the count of a nested submission, whatever workers,
\* clients and destructor do otherwise (lines 31-32, 96-102).
THEOREM AbandonsOnlyThere == Spec => AbandonsOnlyInWindow
<1>1. Inv /\ QueuedInv /\ Settled /\ [Next]_vars => (Inv /\ QueuedInv /\ Settled)'
  BY NextInv, NextQueued, NextDrain
<1>2. Inv /\ Inv' /\ QueuedInv /\ Settled /\ [Next]_vars
        => [ExitedDrained /\ (\A v \in Workers : ~At(v, "count")) => ExitedDrained']_vars
  <2>. SUFFICES ASSUME Inv, Inv', QueuedInv, Settled, [Next]_vars, ExitedDrained, NoneCounting
                PROVE  ExitedDrained'
    BY DEF NoneCounting
  <2>1. Drained
    BY DrainedIs
  <2>2. Drained'
    BY <2>1, NextDrain
  <2>. QED
    BY <2>2 DEF Inv, SearchedEmpty, Searched, Drained, ExitedDrained, At
<1>. QED
  BY InitInv, InitQueued, InitDrain, <1>1, <1>2, PTL DEF Spec, AbandonsOnlyInWindow

\* So nothing is abandoned in a run in which no worker stands there when another
\* makes the exit test: the early exit of PoolEarlyExit needs this window.
CountedAtExit == (\E w \in Workers : At(w, "exit_check")) => NoneCounting

THEOREM DrainedOutsideWindow == Spec /\ []CountedAtExit => []ExitedDrained
<1>1. Inv /\ QueuedInv /\ Settled /\ Drained /\ CountedAtExit /\ [Next]_vars
        => (Inv /\ QueuedInv /\ Settled /\ Drained)'
  <2>. SUFFICES ASSUME Inv, QueuedInv, Settled, Drained, CountedAtExit, [Next]_vars
                PROVE  Drained'
    BY NextInv, NextQueued, NextDrain
  <2>1. CASE NoneCounting
    BY <2>1, NextDrain
  <2>2. CASE ~NoneCounting
    <3>1. \A w \in Workers : ~ExitCheck(w)
      BY <2>2 DEF CountedAtExit, ExitCheck
    <3>. QED
      BY <3>1, OtherStepsDrain DEF DrainKept
  <2>. QED
    BY <2>1, <2>2
<1>. QED
  BY InitInv, InitQueued, InitDrain, DrainedIs, <1>1, PTL DEF Spec

\* Nobody's task submits tasks to the pool.
Flat == \A x \in Tasks : Children[x] = {}
NeverCounting == \A w \in Workers : pc[w] \notin {"push", "count", "notify"}

LEMMA FlatStep ==
  ASSUME Flat, Inv, NeverCounting, [Next]_vars
  PROVE  NeverCounting'
<1>1. ASSUME NEW w \in Workers PROVE ~Enqueue(w) /\ ~SubmitInside(w)
  <2>1. ~Enqueue(w)
    BY DEF NeverCounting, Enqueue, Push, Count, Notify, At
  <2>2. ASSUME SubmitInside(w) PROVE FALSE
    <3>1. Executing(w) /\ pc[w] = "run"
      BY <2>2 DEF SubmitInside, At, Executing
    <3>2. task[w] \in Tasks
      BY <3>1 DEF Inv, Working
    <3>. QED
      BY <2>2, <3>2 DEF SubmitInside, Flat
  <2>. QED
    BY <2>1, <2>2
<1>. SUFFICES ASSUME NEW w \in Workers
              PROVE  pc'[w] \notin {"push", "count", "notify"}
  BY DEF NeverCounting
<1>0. w \in Threads /\ TypeOK /\ pc[w] \notin {"push", "count", "notify"}
  BY ThreadFacts DEF Inv, NeverCounting
<1>2. ASSUME NEW p \in Threads, NEW l \in Labels(p), Goto(p, l),
             l \notin {"push", "count", "notify"} \/ p \in Clients
      PROVE  pc'[w] \notin {"push", "count", "notify"}
  BY <1>0, <1>2, GotoType, ThreadFacts
<1>3. ASSUME NEW p \in Threads, NEW S \in SUBSET Sleepers, p \notin S, NEW l \in Labels(p),
             p \in Clients, pc' = [WakeAll(S) EXCEPT ![p] = l]
      PROVE  pc'[w] \notin {"push", "count", "notify"}
  <2>1. p # w
    BY <1>3, ThreadFacts
  <2>2. pc'[w] = pc[w] \/ pc'[w] = "lock"
    BY <1>0, <1>3, <2>1, WakeType
  <2>. QED
    BY <1>0, <2>2
<1>4. ASSUME NEW v \in Workers, Worker(v) \/ SpuriousWakeup(v)
      PROVE  pc'[w] \notin {"push", "count", "notify"}
  <2>1. CASE NotifyDone(v)
    BY <1>0, <2>1, ThreadFacts DEF NotifyDone, Unblocked, TypeOK
  <2>2. CASE ~NotifyDone(v)
    <3>1. Find(v) \/ Uncount(v) \/ BodyReturns(v) \/ Finish(v) \/ Idle(v) \/ SpuriousWakeup(v)
      BY <1>1, <1>4, <2>2 DEF Worker, Execute
    <3>2. PICK l \in WorkerLabels :
            l \notin {"push", "count", "notify"} /\ (Goto(v, l) \/ pc' = pc)
      <4>1. CASE Find(v)
        BY <4>1 DEF Find, PopOwn, PopInbox, StealLook, StealCas, StealGiveUp, Got, WorkerLabels
      <4>2. CASE Uncount(v) \/ BodyReturns(v) \/ Finish(v)
        BY <4>2 DEF Uncount, BodyReturns, Finish, AfterTask, WorkerLabels
      <4>3. CASE Idle(v) \/ SpuriousWakeup(v)
        BY <4>3 DEF Idle, Lock, PredStop, PredQueued, Block, ExitCheck, SpuriousWakeup, WorkerLabels
      <4>. QED
        BY <3>1, <4>1, <4>2, <4>3
    <3>. QED
      BY <1>0, <1>2, <3>2, ThreadFacts DEF Labels
  <2>. QED
    BY <2>1, <2>2
<1>5. ASSUME NEW c \in Clients, SubmitOutside(c) \/ Push(c) \/ Count(c)
      PROVE  pc'[w] \notin {"push", "count", "notify"}
  <2>1. PICK l \in ClientLabels : Goto(c, l)
    BY <1>5 DEF SubmitOutside, Begin, Push, Count, ClientLabels
  <2>. QED
    BY <1>2, <2>1, ThreadFacts DEF Labels
<1>6. ASSUME NEW c \in Clients, Notify(c) PROVE pc'[w] \notin {"push", "count", "notify"}
  <2>1. c \in Threads /\ c \notin Workers /\ "idle" \in Labels(c)
    BY ThreadFacts DEF Labels, ClientLabels
  <2>2. PICK S \in SUBSET Sleepers : pc' = [WakeAll(S) EXCEPT ![c] = "idle"]
    BY <1>6, <2>1 DEF Notify, Wakes, Sleepers
  <2>3. c \notin S
    BY <2>1 DEF Sleepers
  <2>. QED
    BY <1>3, <2>1, <2>2, <2>3
<1>7. CASE WaitAll \/ SpuriousDone \/ Destroy \/ Join
  <2>1. PICK l \in ClientLabels : Goto(Main, l)
    BY <1>7 DEF WaitAll, SpuriousDone, Destroy, Join, ClientLabels
  <2>. QED
    BY <1>2, <2>1, ThreadFacts DEF Labels
<1>8. CASE NotifyStop
  <2>1. PICK S \in SUBSET Sleepers : pc' = [WakeAll(S) EXCEPT ![Main] = "join"]
    BY <1>8 DEF NotifyStop, StopWakes, Sleepers
  <2>2. Main \in Threads /\ Main \notin S /\ "join" \in Labels(Main)
    BY <2>1, ThreadFacts DEF Sleepers, Labels, ClientLabels
  <2>. QED
    BY <1>3, <2>1, <2>2, ThreadFacts
<1>9. CASE UNCHANGED vars
  BY <1>0, <1>9 DEF vars
<1>. QED
  BY <1>4, <1>5, <1>6, <1>7, <1>8, <1>9 DEF Next, Enqueue, Shutdown

LEMMA InitFlat == Init => NeverCounting
BY ThreadFacts DEF Init, NeverCounting

\* When no task submits tasks, shutdown abandons nothing: what is queued when
\* the destructor starts is run.
THEOREM FlatDrained == ASSUME Flat PROVE Spec => []ExitedDrained
<1>1. NeverCounting => CountedAtExit
  BY DEF NeverCounting, NoneCounting, CountedAtExit, At
<1>2. Inv /\ NeverCounting /\ [Next]_vars => NeverCounting'
  BY FlatStep
<1>. QED
  BY InitFlat, PoolInductive, DrainedOutsideWindow, <1>1, <1>2, PTL DEF Spec
=============================================================================

---------------------------- MODULE BaselinePool ----------------------------
(***************************************************************************)
(* The pool that ThreadPool replaced: include/thread_pool_baseline.hpp and *)
(* src/thread_pool_baseline.cpp.  Tasks from outside go to one queue under *)
(* global_mutex_, the mutex cv_ is used with; there is no item counter,    *)
(* the sleep predicate looks at every queue instead.                       *)
(*                                                                         *)
(* These are the steps of the pool; what submits to it, from outside and   *)
(* from inside tasks, is up to the modules that extend this one.           *)
(*                                                                         *)
(* Same grain as ThreadPool.  A deque is a perfect sequence (as there: the *)
(* code's is one in its first round) and its top_ index:                   *)
(* empty() loads bottom_ first and top_ later, so that it can report a     *)
(* deque empty that never was.                                             *)
(***************************************************************************)
EXTENDS Integers, Sequences, FiniteSets

CONSTANTS N, Clients, Main, Tasks, NoTask   \* as in ThreadPool

Workers == 0..(N - 1)
Threads == Workers \cup Clients

ASSUME BaselineAssumption ==
  /\ N \in Nat \ {0}
  /\ Main \in Clients /\ Clients \cap Workers = {}
  /\ NoTask \notin Tasks

VARIABLES pending, stop,
          global,    \* global_queue_, front first
          deque,     \* local_queues_[w], top first
          top,       \* local_queues_[w]->top_
          pc,
          item,      \* the task a thread is enqueueing, or wants to steal
          task,      \* the task a worker has taken
          scan,      \* victims still to try
          victim,    \* the deque a worker steals from or looks at in its predicate
          seen,      \* the bottom_ that empty() has loaded
          status     \* history: life cycle of each task

queues == <<global, deque, top>>
locals == <<item, task, scan, victim, seen>>
data == <<pending, stop, queues, locals, status>>
vars == <<data, pc>>

At(p, l) == pc[p] = l
Goto(p, l) == pc' = [pc EXCEPT ![p] = l]
Mark(x, s) == status' = [status EXCEPT ![x] = s]
Drop(p) == item' = [item EXCEPT ![p] = NoTask]   \* a local goes out of scope

Init ==
  /\ pending = 0 /\ stop = FALSE
  /\ global = <<>> /\ deque = [w \in Workers |-> <<>>] /\ top = [w \in Workers |-> 0]
  /\ pc = [p \in Threads |-> IF p \in Workers THEN "pop" ELSE "idle"]
  /\ item = [p \in Threads |-> NoTask] /\ task = [w \in Workers |-> NoTask]
  /\ scan = [w \in Workers |-> {}] /\ victim = [w \in Workers |-> 0]
  /\ seen = [w \in Workers |-> 0]
  /\ status = [x \in Tasks |-> "new"]

-----------------------------------------------------------------------------
(* global_mutex_ is held from the predicate to the block or the exit test. *)

HoldsGlobalMutex(w) == pc[w] \in {"pred", "pred_bottom", "pred_top", "block", "exit_check"}
GlobalFree == ~\E w \in Workers : HoldsGlobalMutex(w)

Sleepers == {w \in Workers : At(w, "asleep")}
WakeAll(S) == [p \in Threads |-> IF p \in S THEN "lock" ELSE pc[p]]

SpuriousWakeup(w) ==
  /\ At(w, "asleep") /\ Goto(w, "lock")
  /\ UNCHANGED data

-----------------------------------------------------------------------------
(* enqueue()                                                               *)

Counted_OutsideOnly(p) == IF p \in Clients THEN pending + 1 ELSE pending
Counted_Never(p) == pending
Counted(p) == pending + 1

\* p enters enqueue() with task x.
Begin(p, x) ==
  /\ status[x] = "new" /\ Mark(x, "submitted")
  /\ item' = [item EXCEPT ![p] = x]
  /\ pending' = Counted(p)
  /\ Goto(p, "push")
  /\ UNCHANGED <<stop, queues, task, scan, victim, seen>>

PushOwn(w) ==
  /\ At(w, "push")
  /\ deque' = [deque EXCEPT ![w] = Append(@, item[w])]
  /\ Drop(w)
  /\ Goto(w, "notify")
  /\ UNCHANGED <<pending, stop, global, top, task, scan, victim, seen, status>>

PushGlobal(c) ==
  /\ At(c, "push") /\ GlobalFree
  /\ global' = Append(global, item[c])
  /\ Drop(c)
  /\ Goto(c, "notify")
  /\ UNCHANGED <<pending, stop, deque, top, task, scan, victim, seen, status>>

\* notify_one() wakes one sleeper if there is one.
Notify(p) ==
  /\ At(p, "notify")
  /\ \E S \in IF Sleepers = {} THEN {{}} ELSE {{w} : w \in Sleepers} :
       pc' = [WakeAll(S) EXCEPT ![p] = IF p \in Workers THEN "run" ELSE "idle"]
  /\ UNCHANGED data

-----------------------------------------------------------------------------
(* worker_loop(): own deque, global queue, the other deques.               *)

Got(w, x) == task' = [task EXCEPT ![w] = x] /\ Goto(w, "taken")

\* pop() moves top_ when it takes the last task.
PopOwn(w) ==
  /\ At(w, "pop")
  /\ \/ /\ deque[w] # <<>>
        /\ Got(w, deque[w][Len(deque[w])])
        /\ deque' = [deque EXCEPT ![w] = SubSeq(@, 1, Len(@) - 1)]
        /\ top' = IF Len(deque[w]) = 1 THEN [top EXCEPT ![w] = @ + 1] ELSE top
     \/ /\ deque[w] = <<>>
        /\ Goto(w, "global") /\ UNCHANGED <<task, deque, top>>
  /\ UNCHANGED <<pending, stop, global, item, scan, victim, seen, status>>

PopGlobal(w) ==
  /\ At(w, "global") /\ GlobalFree
  /\ \/ /\ global # <<>>
        /\ Got(w, Head(global)) /\ global' = Tail(global) /\ UNCHANGED scan
     \/ /\ global = <<>>
        /\ scan' = [scan EXCEPT ![w] = Workers \ {w}]
        /\ Goto(w, "steal") /\ UNCHANGED <<task, global>>
  /\ UNCHANGED <<pending, stop, deque, top, item, victim, seen, status>>

\* try_steal(): the victims in any order, the look and the CAS apart.  While the
\* owner's pop() has lowered bottom_, a last task cannot be seen.
LooksEmpty(v) == deque[v] = <<>> \/ (At(v, "pop") /\ Len(deque[v]) = 1)

StealLook(w) ==
  /\ At(w, "steal")
  /\ \E v \in scan[w] :
       /\ scan' = [scan EXCEPT ![w] = @ \ {v}]
       /\ \/ /\ deque[v] # <<>>
             /\ item' = [item EXCEPT ![w] = Head(deque[v])]
             /\ victim' = [victim EXCEPT ![w] = v]
             /\ Goto(w, "steal_cas")
          \/ LooksEmpty(v) /\ UNCHANGED <<item, victim, pc>>
  /\ UNCHANGED <<pending, stop, queues, task, seen, status>>

OnTop(v, x) == deque[v] # <<>> /\ Head(deque[v]) = x

StealCas(w) ==
  /\ At(w, "steal_cas")
  /\ LET v == victim[w] IN
       \/ /\ OnTop(v, item[w])
          /\ Got(w, item[w])
          /\ deque' = [deque EXCEPT ![v] = Tail(@)]
          /\ top' = [top EXCEPT ![v] = @ + 1]
          /\ scan' = [scan EXCEPT ![w] = {}]
       \/ ~OnTop(v, item[w]) /\ Goto(w, "steal") /\ UNCHANGED <<task, deque, top, scan>>
  /\ Drop(w) /\ victim' = [victim EXCEPT ![w] = 0]
  /\ UNCHANGED <<pending, stop, global, seen, status>>

StealGiveUp(w) ==
  /\ At(w, "steal") /\ scan[w] = {}
  /\ Goto(w, "lock")
  /\ UNCHANGED data

-----------------------------------------------------------------------------
(* worker_loop(): execute.                                                 *)

Start(w) ==
  /\ At(w, "taken") /\ Goto(w, "run") /\ Mark(task[w], "running")
  /\ UNCHANGED <<pending, stop, queues, locals>>

BodyReturns(w) ==
  /\ Goto(w, "finish") /\ Mark(task[w], "finished")
  /\ UNCHANGED <<pending, stop, queues, locals>>

Finish(w) ==
  /\ At(w, "finish") /\ pending' = pending - 1 /\ Mark(task[w], "retired")
  /\ Goto(w, IF pending = 1 THEN "notify_done" ELSE "pop")
  /\ task' = [task EXCEPT ![w] = NoTask]
  /\ UNCHANGED <<stop, queues, item, scan, victim, seen>>

NotifyDone(w) ==
  /\ At(w, "notify_done")
  /\ pc' = [pc EXCEPT ![w] = "pop", ![Main] = IF @ = "wait_asleep" THEN "wait_pred" ELSE @]
  /\ UNCHANGED data

-----------------------------------------------------------------------------
(* worker_loop(): the predicate under global_mutex_, and the exit test.    *)

Lock(w) ==
  /\ At(w, "lock") /\ GlobalFree
  /\ Goto(w, "pred")
  /\ UNCHANGED data

Pred_DequesOnly(w) ==
  /\ At(w, "pred")
  /\ Goto(w, IF stop THEN "exit_check" ELSE "pred_bottom")
  /\ UNCHANGED data

Pred(w) ==
  /\ At(w, "pred")
  /\ Goto(w, IF stop \/ global # <<>> THEN "exit_check" ELSE "pred_bottom")
  /\ UNCHANGED data

\* The loop over local_queues_: empty() of each, two loads.  The first may see
\* the bottom_ that the owner's pop() has lowered, even below 0.
Bottoms(v) ==
  LET end == top[v] + Len(deque[v]) IN IF At(v, "pop") THEN {end - 1, end} ELSE {end}

PredBottom(w) ==
  /\ At(w, "pred_bottom")
  /\ \E b \in Bottoms(victim[w]) : seen' = [seen EXCEPT ![w] = b]
  /\ Goto(w, "pred_top")
  /\ UNCHANGED <<pending, stop, queues, item, task, scan, victim, status>>

PredTop(w) ==
  /\ At(w, "pred_top")
  /\ LET v == victim[w]
         more == seen[w] <= top[v] /\ v < N - 1
     IN /\ victim' = [victim EXCEPT ![w] = IF more THEN v + 1 ELSE 0]
        /\ \/ more /\ Goto(w, "pred_bottom")
           \/ ~more /\ Goto(w, IF seen[w] > top[v] THEN "exit_check" ELSE "block")
  /\ seen' = [seen EXCEPT ![w] = 0]
  /\ UNCHANGED <<pending, stop, queues, item, task, scan, status>>

Block(w) == At(w, "block") /\ Goto(w, "asleep") /\ UNCHANGED data

MayExit_StopOnly(w) == stop
MayExit(w) == stop /\ global = <<>> /\ deque[w] = <<>>

ExitCheck(w) ==
  /\ At(w, "exit_check")
  /\ Goto(w, IF MayExit(w) THEN "exited" ELSE "pop")
  /\ UNCHANGED data

-----------------------------------------------------------------------------
(* wait_all() and ~ThreadPool(), called by Main.                           *)

AllDone_Early == pending <= 1
AllDone == pending = 0

WaitAll ==
  /\ \/ At(Main, "idle") /\ Goto(Main, "wait_pred")
     \/ At(Main, "wait_pred") /\ Goto(Main, IF AllDone THEN "idle" ELSE "wait_block")
     \/ At(Main, "wait_block") /\ Goto(Main, "wait_asleep")
     \/ At(Main, "wait_asleep") /\ Goto(Main, "wait_pred")   \* for no reason
  /\ UNCHANGED data

Destroy ==
  /\ \A c \in Clients : At(c, "idle")
  /\ stop' = TRUE
  /\ Goto(Main, "stop_notify")
  /\ UNCHANGED <<pending, queues, locals, status>>

Shutdown ==
  /\ \/ At(Main, "stop_notify") /\ pc' = [WakeAll(Sleepers) EXCEPT ![Main] = "join"]
     \/ At(Main, "join") /\ (\A w \in Workers : At(w, "exited")) /\ Goto(Main, "destroyed")
  /\ UNCHANGED data

-----------------------------------------------------------------------------
Find(w) == PopOwn(w) \/ PopGlobal(w) \/ StealLook(w) \/ StealCas(w) \/ StealGiveUp(w)
Idle(w) == Lock(w) \/ Pred(w) \/ PredBottom(w) \/ PredTop(w) \/ Block(w) \/ ExitCheck(w)
Loop(w) == Find(w) \/ Finish(w) \/ NotifyDone(w) \/ Idle(w) \/ PushOwn(w) \/ Notify(w)

-----------------------------------------------------------------------------
(* Properties.                                                             *)

TypeOK ==
  /\ pending \in Nat /\ stop \in BOOLEAN
  /\ global \in Seq(Tasks) /\ deque \in [Workers -> Seq(Tasks)] /\ top \in [Workers -> Nat]
  /\ DOMAIN pc = Threads
  /\ item \in [Threads -> Tasks \cup {NoTask}] /\ task \in [Workers -> Tasks \cup {NoTask}]
  /\ scan \in [Workers -> SUBSET Workers]
  /\ victim \in [Workers -> Workers] /\ seen \in [Workers -> Int]
  /\ status \in [Tasks -> {"new", "submitted", "running", "finished", "retired"}]

\* What global_mutex_ buys: while the global queue holds a task, some worker is
\* not asleep and will look at it, or a client has still to notify.
GlobalAttended ==
  global # <<>> => \/ \E w \in Workers : pc[w] \notin {"block", "asleep", "exited"}
                   \/ \E c \in Clients : At(c, "notify")

\* A worker that left has an empty deque, and nothing is in the global queue.
ExitedDrained == \A w \in Workers : At(w, "exited") => global = <<>> /\ deque[w] = <<>>

\* Every task that is submitted runs, whoever sleeps when it is pushed: what
\* wait_all() waits for happens, once there are no more submissions.  This is
\* the promise the new pool's inboxes and unlocked notify gave up.
PoolDrains == (pending > 0) ~> (pending = 0)

Stage == [x \in Tasks |->
            CASE status[x] = "new" -> "new"
              [] status[x] = "submitted" -> "queued"
              [] status[x] = "running" -> "running"
              [] OTHER -> "done"]
Waiting == pc[Main] \in {"wait_pred", "wait_block", "wait_asleep"}

\* The baseline pool implements Executor like the new one.
E == INSTANCE Executor WITH status <- Stage, waiting <- Waiting
IsExecutor == E!Spec
=============================================================================

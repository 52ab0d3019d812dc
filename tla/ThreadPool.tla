----------------------------- MODULE ThreadPool -----------------------------
(***************************************************************************)
(* The pool of include/thread_pool.hpp and src/thread_pool.cpp: submit()   *)
(* from outside and from inside a task, the worker loop, the sleep/wake    *)
(* protocol, wait_all() and the destructor.                                *)
(*                                                                         *)
(* One step per access to an atomic, per mutex-protected section and per   *)
(* notify.  A worker's Chase-Lev deque is a perfect sequence here (top     *)
(* first), however many tasks are pushed.  WorkStealingQueue shows that    *)
(* the code's deque is one in its first round, before it grows or uses a   *)
(* slot twice (256 pushes per worker); what it loses after that            *)
(* (NeverEmptyTask) is not in this model.                                  *)
(*                                                                         *)
(* Condition variables follow the C++ rules: a notify reaches only the     *)
(* threads already asleep, and a sleeper may also wake for no reason.      *)
(***************************************************************************)
EXTENDS Integers, Sequences, FiniteSets

CONSTANTS N,          \* number of workers
          Clients,    \* external threads that submit
          Main,       \* the client that also waits and destroys the pool
          Tasks,
          Children,   \* Children[x]: the tasks x submits while it runs
          NoTask

Workers == 0..(N - 1)
Threads == Workers \cup Clients
Roots   == Tasks \ UNION {Children[x] : x \in Tasks}

ASSUME PoolAssumption ==
  /\ N \in Nat \ {0}
  /\ Main \in Clients
  /\ Clients \cap Workers = {}
  /\ NoTask \notin Tasks
  /\ Children \in [Tasks -> SUBSET Tasks]

VARIABLES pending, queued, stop, rr,   \* pending_, queued_, stop_, round_robin_idx_
          inbox,     \* inboxes_[w]->tasks, front first
          deque,     \* local_queues_[w], top first
          pc,
          item,      \* the task a thread is enqueueing, or looks at while stealing
          target,    \* the inbox a client has picked, the victim of a thief
          task,      \* the task a worker has taken
          scan,      \* the victims a thief has still to try
          status     \* history: life cycle of each task

counters == <<pending, queued, stop, rr>>
queues == <<inbox, deque>>
locals == <<item, target, task, scan>>
data == <<counters, queues, locals, status>>
vars == <<data, pc>>

At(p, l) == pc[p] = l
Goto(p, l) == pc' = [pc EXCEPT ![p] = l]
Mark(x, s) == status' = [status EXCEPT ![x] = s]
\* The locals of enqueue() and try_steal() go out of scope.
Drop(p) == item' = [item EXCEPT ![p] = NoTask] /\ target' = [target EXCEPT ![p] = 0]

Init ==
  /\ pending = 0 /\ queued = 0 /\ stop = FALSE /\ rr = 0
  /\ inbox = [w \in Workers |-> <<>>] /\ deque = [w \in Workers |-> <<>>]
  /\ pc = [p \in Threads |-> IF p \in Workers THEN "pop" ELSE "idle"]
  /\ item = [p \in Threads |-> NoTask] /\ target = [p \in Threads |-> 0]
  /\ task = [w \in Workers |-> NoTask]
  /\ scan = [w \in Workers |-> {}]
  /\ status = [x \in Tasks |-> "new"]

-----------------------------------------------------------------------------
(* cv_ and done_cv_: a notify moves sleepers back to their predicate.      *)

Sleepers == {w \in Workers : At(w, "asleep")}
WakeAll(S) == [p \in Threads |-> IF p \in S THEN "lock" ELSE pc[p]]

SpuriousWakeup(w) ==
  /\ At(w, "asleep") /\ Goto(w, "lock")
  /\ UNCHANGED data

-----------------------------------------------------------------------------
(* enqueue().  A worker pushes to its own deque, a client to the inbox the *)
(* round-robin counter picks (the two counters it bumps first are merged:  *)
(* nobody else reads round_robin_idx_).                                    *)

Counted_OutsideOnly(p) == IF p \in Clients THEN pending + 1 ELSE pending
Counted(p) == pending + 1

Begin(p, x) ==
  /\ status[x] = "new"
  /\ pending' = Counted(p)
  /\ item' = [item EXCEPT ![p] = x]
  /\ Mark(x, "submitted")
  /\ Goto(p, "push")

SubmitOutside(c) ==
  /\ At(c, "idle")
  /\ \E x \in Roots : Begin(c, x)
  /\ rr' = rr + 1
  /\ target' = [target EXCEPT ![c] = rr % N]
  /\ UNCHANGED <<queued, stop, queues, task, scan>>

SubmitInside(w) ==
  /\ At(w, "run")
  /\ \E x \in Children[task[w]] : Begin(w, x)
  /\ UNCHANGED <<queued, stop, rr, queues, target, task, scan>>

Queued_AtNeighbour(p) ==
  /\ inbox' = [inbox EXCEPT ![IF p \in Workers THEN (p + 1) % N ELSE target[p]] = Append(@, item[p])]
  /\ UNCHANGED deque
Queued(p) ==
  IF p \in Workers
  THEN deque' = [deque EXCEPT ![p] = Append(@, item[p])] /\ UNCHANGED inbox
  ELSE inbox' = [inbox EXCEPT ![target[p]] = Append(@, item[p])] /\ UNCHANGED deque

Push(p) ==
  /\ At(p, "push")
  /\ Goto(p, "count")
  /\ Queued(p)
  /\ Drop(p)
  /\ UNCHANGED <<counters, task, scan, status>>

OneMore_OutsideOnly(p) == IF p \in Clients THEN queued + 1 ELSE queued
OneMore(p) == queued + 1

Count(p) ==
  /\ At(p, "count")
  /\ queued' = OneMore(p)
  /\ Goto(p, "notify")
  /\ UNCHANGED <<pending, stop, rr, queues, locals, status>>

\* A worker wakes one sleeper if there is one, a client wakes all of them.
OneSleeper == IF Sleepers = {} THEN {{}} ELSE {{w} : w \in Sleepers}
Wakes_AlwaysOne(p) == OneSleeper
Wakes(p) == IF p \in Workers THEN OneSleeper ELSE {Sleepers}

Notify(p) ==
  /\ At(p, "notify")
  /\ \E S \in Wakes(p) :
       pc' = [WakeAll(S) EXCEPT ![p] = IF p \in Workers THEN "run" ELSE "idle"]
  /\ UNCHANGED data

-----------------------------------------------------------------------------
(* worker_loop(): own deque, own inbox, the other deques.                  *)

Got(w, x) == task' = [task EXCEPT ![w] = x] /\ Goto(w, "taken")

PopOwn(w) ==
  /\ At(w, "pop")
  /\ \/ /\ deque[w] # <<>>
        /\ Got(w, deque[w][Len(deque[w])])
        /\ deque' = [deque EXCEPT ![w] = SubSeq(@, 1, Len(@) - 1)]
     \/ /\ deque[w] = <<>>
        /\ Goto(w, "inbox") /\ UNCHANGED <<task, deque>>
  /\ UNCHANGED <<counters, inbox, item, target, scan, status>>

PopInbox(w) ==
  /\ At(w, "inbox")
  /\ \/ /\ inbox[w] # <<>>
        /\ Got(w, Head(inbox[w]))
        /\ inbox' = [inbox EXCEPT ![w] = Tail(@)] /\ UNCHANGED scan
     \/ /\ inbox[w] = <<>>
        /\ scan' = [scan EXCEPT ![w] = Workers \ {w}]
        /\ Goto(w, "steal") /\ UNCHANGED <<task, inbox>>
  /\ UNCHANGED <<counters, deque, item, target, status>>

\* try_steal() visits the victims in circular order from a random start: with
\* up to three workers, any order.  steal() sees a task at the top of the
\* victim's deque, or an empty one: also while the owner's pop() has lowered
\* bottom_ over the last task and not taken it yet.
LooksEmpty(v) == deque[v] = <<>> \/ (At(v, "pop") /\ Len(deque[v]) = 1)

StealLook(w) ==
  /\ At(w, "steal")
  /\ \E v \in scan[w] :
       /\ scan' = [scan EXCEPT ![w] = @ \ {v}]
       /\ \/ /\ deque[v] # <<>>
             /\ item' = [item EXCEPT ![w] = Head(deque[v])]
             /\ target' = [target EXCEPT ![w] = v]
             /\ Goto(w, "steal_cas")
          \/ LooksEmpty(v) /\ UNCHANGED <<item, target, pc>>
  /\ UNCHANGED <<counters, queues, task, status>>

OnTop_Unchecked(v, x) == TRUE
OnTop(v, x) == deque[v] # <<>> /\ Head(deque[v]) = x

\* The CAS succeeds if that task is still at the top.
StealCas(w) ==
  /\ At(w, "steal_cas")
  /\ LET v == target[w] IN
       \/ /\ OnTop(v, item[w])
          /\ Got(w, item[w])
          /\ deque' = [deque EXCEPT ![v] = SubSeq(@, 2, Len(@))]
          /\ scan' = [scan EXCEPT ![w] = {}]
       \/ /\ ~OnTop(v, item[w])
          /\ Goto(w, "steal") /\ UNCHANGED <<task, deque, scan>>
  /\ Drop(w)
  /\ UNCHANGED <<counters, inbox, status>>

StealGiveUp(w) ==
  /\ At(w, "steal") /\ scan[w] = {}
  /\ Goto(w, "lock")
  /\ UNCHANGED data

-----------------------------------------------------------------------------
(* worker_loop(): execute what was found.                                  *)

Uncount(w) ==
  /\ At(w, "taken")
  /\ queued' = queued - 1
  /\ Mark(task[w], "running")
  /\ Goto(w, "run")
  /\ UNCHANGED <<pending, stop, rr, queues, locals>>

\* The task's body returns: its future is ready.
BodyReturns(w) ==
  /\ At(w, "run")
  /\ \A x \in Children[task[w]] : status[x] # "new"
  /\ Mark(task[w], "finished")
  /\ Goto(w, "finish")
  /\ UNCHANGED <<counters, queues, locals>>

AfterTask_SkipsOwnDeque == IF pending = 1 THEN "notify_done" ELSE "inbox"
AfterTask == IF pending = 1 THEN "notify_done" ELSE "pop"

Finish(w) ==
  /\ At(w, "finish")
  /\ pending' = pending - 1
  /\ Goto(w, AfterTask)
  /\ Mark(task[w], "retired")
  /\ task' = [task EXCEPT ![w] = NoTask]
  /\ UNCHANGED <<queued, stop, rr, queues, item, target, scan>>

Unblocked_Never(l) == l
Unblocked(l) == IF l = "wait_asleep" THEN "wait_pred" ELSE l

NotifyDone(w) ==
  /\ At(w, "notify_done")
  /\ pc' = [pc EXCEPT ![w] = "pop", ![Main] = Unblocked(@)]
  /\ UNCHANGED data

-----------------------------------------------------------------------------
(* worker_loop(): sleep on cv_ under sleep_mutex_ until the predicate holds *)
(* (its two loads are two steps), then leave or look again.                *)

HoldsSleepMutex(w) == pc[w] \in {"pred_stop", "pred_queued", "block", "exit_check"}

Lock(w) ==
  /\ At(w, "lock")
  /\ ~\E v \in Workers : HoldsSleepMutex(v)
  /\ Goto(w, "pred_stop")
  /\ UNCHANGED data

PredStop(w) ==
  /\ At(w, "pred_stop")
  /\ Goto(w, IF stop THEN "exit_check" ELSE "pred_queued")
  /\ UNCHANGED data

PredQueued(w) ==
  /\ At(w, "pred_queued")
  /\ Goto(w, IF queued > 0 THEN "exit_check" ELSE "block")
  /\ UNCHANGED data

\* wait() releases the mutex and blocks in one step; a notify that came
\* between the predicate and this step woke nobody.
Block(w) ==
  /\ At(w, "block") /\ Goto(w, "asleep")
  /\ UNCHANGED data

\* stop_ is never reset, so the two loads of this test are one step.
MayExit_StopOnly == stop
MayExit == stop /\ queued = 0

ExitCheck(w) ==
  /\ At(w, "exit_check")
  /\ Goto(w, IF MayExit THEN "exited" ELSE "pop")
  /\ UNCHANGED data

-----------------------------------------------------------------------------
(* wait_all() and ~ThreadPool(), called by Main.                           *)

AllDone_Queued == queued = 0
AllDone == pending = 0

WaitAll ==
  /\ \/ At(Main, "idle") /\ Goto(Main, "wait_pred")
     \/ At(Main, "wait_pred") /\ Goto(Main, IF AllDone THEN "idle" ELSE "wait_block")
     \/ At(Main, "wait_block") /\ Goto(Main, "wait_asleep")
  /\ UNCHANGED data

SpuriousDone ==
  /\ At(Main, "wait_asleep") /\ Goto(Main, "wait_pred")
  /\ UNCHANGED data

\* Nobody else may be using the pool when its destructor runs.
Destroy ==
  /\ At(Main, "idle")
  /\ \A c \in Clients : At(c, "idle")
  /\ \A x \in Roots : status[x] # "new"
  /\ stop' = TRUE
  /\ Goto(Main, "stop_notify")
  /\ UNCHANGED <<pending, queued, rr, queues, locals, status>>

StopWakes_One == OneSleeper
StopWakes == {Sleepers}

NotifyStop ==
  /\ At(Main, "stop_notify")
  /\ \E S \in StopWakes : pc' = [WakeAll(S) EXCEPT ![Main] = "join"]
  /\ UNCHANGED data

Join ==
  /\ At(Main, "join")
  /\ \A w \in Workers : At(w, "exited")
  /\ Goto(Main, "destroyed")
  /\ UNCHANGED data

-----------------------------------------------------------------------------
Enqueue(p) == Push(p) \/ Count(p) \/ Notify(p)
Find(w) == PopOwn(w) \/ PopInbox(w) \/ StealLook(w) \/ StealCas(w) \/ StealGiveUp(w)
Execute(w) == Uncount(w) \/ SubmitInside(w) \/ BodyReturns(w) \/ Finish(w) \/ NotifyDone(w)
Idle(w) == Lock(w) \/ PredStop(w) \/ PredQueued(w) \/ Block(w) \/ ExitCheck(w)
Worker(w) == Enqueue(w) \/ Find(w) \/ Execute(w) \/ Idle(w)
Shutdown == NotifyStop \/ Join

Next ==
  \/ \E w \in Workers : Worker(w) \/ SpuriousWakeup(w)
  \/ \E c \in Clients : SubmitOutside(c) \/ Enqueue(c)
  \/ WaitAll \/ SpuriousDone \/ Destroy \/ Shutdown

Spec == Init /\ [][Next]_vars

\* Every runnable thread keeps running and a contended mutex is not denied to
\* a thread forever.  Nothing obliges a client to submit or a sleeper to wake.
Fairness ==
  /\ \A w \in Workers : WF_vars(Worker(w)) /\ SF_vars(Lock(w))
  /\ \A c \in Clients : WF_vars(Enqueue(c))
  /\ WF_vars(~At(Main, "idle") /\ WaitAll) /\ WF_vars(Shutdown)

FairSpec == Spec /\ Fairness

-----------------------------------------------------------------------------
(* Properties.                                                             *)

WorkerLabels ==
  {"push", "count", "notify", "pop", "inbox", "steal", "steal_cas", "taken", "run",
   "finish", "notify_done", "lock", "pred_stop", "pred_queued", "block", "asleep",
   "exit_check", "exited"}
ClientLabels ==
  {"idle", "push", "count", "notify", "wait_pred", "wait_block", "wait_asleep",
   "stop_notify", "join", "destroyed"}

TypeOK ==
  /\ pending \in Nat /\ queued \in Int /\ stop \in BOOLEAN /\ rr \in Nat
  /\ inbox \in [Workers -> Seq(Tasks)] /\ deque \in [Workers -> Seq(Tasks)]
  /\ pc \in [Threads -> WorkerLabels \cup ClientLabels]
  /\ \A p \in Threads : pc[p] \in IF p \in Workers THEN WorkerLabels ELSE ClientLabels
  /\ item \in [Threads -> Tasks \cup {NoTask}]
  /\ target \in [Threads -> Workers]
  /\ task \in [Workers -> Tasks \cup {NoTask}]
  /\ scan \in [Workers -> SUBSET Workers]
  /\ status \in [Tasks -> {"new", "submitted", "running", "finished", "retired"}]

\* Where a task that was submitted and has not started yet can be: with the
\* thread that pushes it, in an inbox, in a deque, with the worker that took it.
InHand(x)  == {p \in Threads : At(p, "push") /\ item[p] = x}
Slots(q)   == UNION {{w} \X DOMAIN q[w] : w \in Workers}
InInbox(x) == {s \in Slots(inbox) : inbox[s[1]][s[2]] = x}
InDeque(x) == {s \in Slots(deque) : deque[s[1]][s[2]] = x}
TakenBy(x) == {w \in Workers : At(w, "taken") /\ task[w] = x}

\* enqueue(), pop, the inbox and the thieves together neither lose nor copy a
\* task: whatever the owner and the thieves of a deque interleave, a task that
\* waits to start is in exactly one place and one that started is in none.
OnePlace ==
  \A x \in Tasks :
    Cardinality(InHand(x)) + Cardinality(InInbox(x)) + Cardinality(InDeque(x))
      + Cardinality(TakenBy(x)) = IF status[x] = "submitted" THEN 1 ELSE 0

Items == Cardinality(Slots(inbox)) + Cardinality(Slots(deque))
Counting == {p \in Threads : At(p, "count")}
Taking   == {w \in Workers : At(w, "taken")}

\* queued_ is the "total items across all queues" (thread_pool.hpp:94) up to
\* the threads between a push and its count or a take and its uncount, so it
\* is exact whenever there are none.
QueuedBalance == queued = Items - Cardinality(Counting) + Cardinality(Taking)

\* pending_ counts the tasks that were submitted and whose worker has not come
\* back from them: it reaches 0 only when every submitted task has run.
Unfinished == {x \in Tasks : status[x] \in {"submitted", "running", "finished"}}
PendingBalance == pending = Cardinality(Unfinished)

\* A worker that looks for nothing any more (it sleeps on cv_ or has left) has
\* an empty deque: what a task submits is never stranded by a lost notify.
Resting(w) == pc[w] \in {"lock", "pred_stop", "pred_queued", "block", "asleep", "exited"}
RestingDequeEmpty == \A w \in Workers : Resting(w) => deque[w] = <<>>

\* "break" (thread_pool.cpp:100-102) is taken only when nothing is left for
\* this worker to do: nobody else would drain its inbox.
ExitedDrained ==
  \A w \in Workers : At(w, "exited") => inbox[w] = <<>> /\ deque[w] = <<>>

\* It is not always so (PoolEarlyExit), but a worker abandons a task in one
\* window only: while another stands between the push and the count of a nested
\* submission (lines 31-32), so that queued_ can read 0 with tasks in an inbox.
\* At every other instant the exit test, the destructor and the clients together
\* leave nothing behind.
AbandonsOnlyInWindow ==
  [][ExitedDrained /\ (\A v \in Workers : ~At(v, "count")) => ExitedDrained']_vars

\* The pool implements Executor: a task starts at most once, only after it was
\* submitted, and wait_all() returns only when nothing submitted is unfinished.
Stage == [x \in Tasks |->
            CASE status[x] = "new" -> "new"
              [] status[x] = "submitted" -> "queued"
              [] status[x] = "running" -> "running"
              [] OTHER -> "done"]
Waiting == pc[Main] \in {"wait_pred", "wait_block", "wait_asleep"}
E == INSTANCE Executor WITH status <- Stage, waiting <- Waiting
IsExecutor == E!Spec

\* What a task submits to its own pool runs: no wakeup is needed for it,
\* because the worker that pushed it looks at its own deque before it sleeps.
NestedTaskRuns ==
  \A x \in Tasks \ Roots : (status[x] = "submitted") ~> (status[x] = "retired")

\* The half of "notify_all() ensures the target worker ... wakes up" that the
\* code does keep: a worker already blocked when the client is about to notify
\* comes back and empties its inbox.  Only for a lone task: with others around,
\* queued_ may dip to 0 just when the woken worker reads it.
NotifyReachesSleepers ==
  \A w \in Workers :
    (At(w, "asleep") /\ inbox[w] # <<>> /\ \E c \in Clients : At(c, "notify"))
      ~> (inbox[w] = <<>>)

\* The same of wait_all(): a caller that is already blocked when the last task
\* is about to notify done_cv_ returns, unless more is submitted.
NotifyReachesWaiter ==
  (At(Main, "wait_asleep") /\ pending = 0 /\ \E w \in Workers : At(w, "notify_done"))
    ~> (~Waiting \/ pending > 0)

\* And of the destructor: when no worker is between its predicate and its
\* blocking at the moment of the notify, join() comes to an end, also when tasks
\* are left in the inboxes of sleepers.
StopReachesSleepers ==
  (At(Main, "stop_notify") /\ \A w \in Workers : pc[w] \in {"asleep", "exited"})
    ~> At(Main, "destroyed")

\* "notify_all() ensures the target worker ... wakes up" (thread_pool.cpp:35):
\* every task that is submitted runs.
EveryTaskRuns == \A x \in Tasks : (status[x] = "submitted") ~> (status[x] = "retired")
=============================================================================

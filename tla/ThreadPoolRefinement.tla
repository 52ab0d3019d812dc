------------------------ MODULE ThreadPoolRefinement ------------------------
(***************************************************************************)
(* The pool implements Executor: every step of ThreadPool is a step of     *)
(* Executor, or changes nothing that Executor shows.  The deques are       *)
(* perfect sequences, which the code's are in their first round.           *)
(***************************************************************************)
EXTENDS ThreadPoolProofs

StageOf(s) ==
  CASE s = "new" -> "new"
    [] s = "submitted" -> "queued"
    [] s = "running" -> "running"
    [] OTHER -> "done"

LEMMA StageIs ==
  /\ Stage = [x \in Tasks |-> StageOf(status[x])]
  /\ Stage' = [x \in Tasks |-> StageOf(status'[x])]
BY DEF Stage, StageOf

LEMMA StagesAre ==
  /\ StageOf("new") = "new" /\ StageOf("submitted") = "queued"
  /\ StageOf("running") = "running"
  /\ StageOf("finished") = "done" /\ StageOf("retired") = "done"
BY DEF StageOf

\* When a task's status moves, so does its stage, and no other.
LEMMA StageMoves ==
  ASSUME TypeOK, NEW x \in Tasks, NEW s, status' = [status EXCEPT ![x] = s]
  PROVE  Stage' = [Stage EXCEPT ![x] = StageOf(s)] /\ Stage[x] = StageOf(status[x])
<1>1. status'[x] = s /\ \A y \in Tasks : y # x => status'[y] = status[y]
  BY DEF TypeOK
<1>. QED
  BY <1>1, StageIs

WaitLabels == {"wait_pred", "wait_block", "wait_asleep"}

\* A step of a thread does not change whether Main is inside wait_all().
LEMMA GotoWaiting ==
  ASSUME Inv, NEW p \in Threads, NEW l \in Labels(p), Goto(p, l),
         p = Main => (pc[p] \in WaitLabels <=> l \in WaitLabels)
  PROVE  Waiting' = Waiting
<1>1. pc'[p] = l /\ \A q \in Threads \ {p} : pc'[q] = pc[q]
  BY GotoType DEF Inv
<1>. QED
  BY <1>1, ThreadFacts DEF Waiting, WaitLabels

\* Only wait_all() itself does.
LEMMA WaitingKept ==
  ASSUME Inv, [Next]_vars, ~WaitAll
  PROVE  Waiting' = Waiting
<1>0. TypeOK /\ PcTyped
  BY TypeParts DEF Inv
<1>1. ASSUME NEW p \in Threads, Push(p) \/ Count(p) PROVE Waiting' = Waiting
  <2>1. PICK l \in {"count", "notify"} : Goto(p, l)
    BY <1>1 DEF Push, Count
  <2>2. l \in Labels(p) /\ l \notin WaitLabels /\ pc[p] \notin WaitLabels
    BY <1>1 DEF Push, Count, At, Labels, WorkerLabels, ClientLabels, WaitLabels
  <2>. QED
    BY <2>1, <2>2, GotoWaiting
<1>2. ASSUME NEW p \in Threads, Notify(p) PROVE Waiting' = Waiting
  <2>1. PICK l : l = IF p \in Workers THEN "run" ELSE "idle"
    OBVIOUS
  <2>2. PICK S \in SUBSET Sleepers : pc' = [WakeAll(S) EXCEPT ![p] = l]
    BY <1>2, <2>1 DEF Notify, Wakes, OneSleeper, Sleepers
  <2>3. p \notin S /\ pc[p] = "notify" /\ l \in Labels(p)
    BY <1>2, <2>1, <2>2 DEF Notify, At, Sleepers, Labels, WorkerLabels, ClientLabels
  <2>4. pc'[p] = l
    BY <1>0, <2>2, <2>3, WakeType, ZenonT(30)
  <2>5. \A q \in Threads \ {p} : pc'[q] = pc[q] \/ (q \in Workers /\ pc[q] = "asleep" /\ pc'[q] = "lock")
    BY <1>0, <2>2, <2>3, WakeType
  <2>. QED
    BY <2>1, <2>3, <2>4, <2>5, ThreadFacts DEF Waiting
<1>3. ASSUME NEW w \in Workers, Find(w) \/ Idle(w) \/ SpuriousWakeup(w)
             \/ Uncount(w) \/ SubmitInside(w) \/ BodyReturns(w) \/ Finish(w)
      PROVE  Waiting' = Waiting
  <2>1. w \in Threads /\ w # Main
    BY ThreadFacts
  <2>2. pc' = pc \/ \E l \in Labels(w) : Goto(w, l)
    <3>1. CASE Find(w)
      BY <3>1 DEF Find, PopOwn, PopInbox, StealLook, StealCas, StealGiveUp, Got,
         Labels, WorkerLabels
    <3>2. CASE Idle(w) \/ SpuriousWakeup(w)
      BY <3>2 DEF Idle, Lock, PredStop, PredQueued, Block, ExitCheck, SpuriousWakeup,
         Labels, WorkerLabels
    <3>3. CASE Uncount(w) \/ SubmitInside(w) \/ BodyReturns(w) \/ Finish(w)
      BY <3>3 DEF Uncount, SubmitInside, Begin, BodyReturns, Finish, AfterTask,
         Labels, WorkerLabels
    <3>. QED
      BY <1>3, <3>1, <3>2, <3>3
  <2>3. CASE pc' = pc
    BY <2>3 DEF Waiting
  <2>. QED
    BY <2>1, <2>2, <2>3, GotoWaiting
<1>4. ASSUME NEW w \in Workers, NotifyDone(w) PROVE Waiting' = Waiting
  <2>1. pc'[Main] = Unblocked(pc[Main])
    BY <1>0, <1>4, ThreadFacts DEF NotifyDone, PcTyped
  <2>. QED
    BY <2>1 DEF Unblocked, Waiting
<1>5. ASSUME NEW c \in Clients, SubmitOutside(c) PROVE Waiting' = Waiting
  <2>1. Goto(c, "push") /\ pc[c] = "idle"
    BY <1>5 DEF SubmitOutside, Begin, At
  <2>2. c \in Threads /\ "push" \in Labels(c)
    BY ThreadFacts DEF Labels, ClientLabels
  <2>. QED
    BY <2>1, <2>2, GotoWaiting DEF WaitLabels
<1>6. CASE SpuriousDone \/ Destroy \/ Join
  <2>1. PICK l \in {"wait_pred", "stop_notify", "destroyed"} :
          /\ Goto(Main, l) /\ (pc[Main] \in WaitLabels <=> l \in WaitLabels)
    BY <1>6 DEF SpuriousDone, Destroy, Join, At, WaitLabels
  <2>2. Main \in Threads /\ l \in Labels(Main)
    BY ThreadFacts DEF Labels, ClientLabels
  <2>. QED
    BY <2>1, <2>2, GotoWaiting
<1>7. CASE NotifyStop
  <2>1. PICK S \in SUBSET Sleepers : pc' = [WakeAll(S) EXCEPT ![Main] = "join"]
    BY <1>7 DEF NotifyStop, StopWakes, Sleepers
  <2>2. Main \notin S /\ pc[Main] = "stop_notify" /\ "join" \in Labels(Main)
    BY <1>7, <2>1, ThreadFacts DEF NotifyStop, At, Sleepers, Labels, ClientLabels
  <2>3. Main \in Threads
    BY ThreadFacts
  <2>4. pc'[Main] = "join"
    BY <1>0, <2>1, <2>2, <2>3, WakeType, ZenonT(30)
  <2>. QED
    BY <2>2, <2>4 DEF Waiting
<1>8. CASE UNCHANGED vars
  BY <1>8 DEF vars, Waiting
<1>9. ASSUME NEW w \in Workers, Worker(w) PROVE Waiting' = Waiting
  BY <1>1, <1>2, <1>3, <1>4, <1>9, ThreadFacts DEF Worker, Enqueue, Execute
<1>10. ASSUME NEW c \in Clients, SubmitOutside(c) \/ Enqueue(c) PROVE Waiting' = Waiting
  BY <1>1, <1>2, <1>5, <1>10, ThreadFacts DEF Enqueue
<1>. QED
  BY <1>3, <1>6, <1>7, <1>8, <1>9, <1>10 DEF Next, Shutdown

\* wait_all() returns only with pending_ = 0, that is with nothing unfinished.
LEMMA WaitAllStep ==
  ASSUME Inv, WaitAll
  PROVE  E!Wait \/ E!Return \/ UNCHANGED <<Stage, Waiting>>
<1>0. TypeOK /\ Balanced /\ Main \in Threads /\ Main \notin Workers
      /\ status \in [Tasks -> Statuses]
  BY ThreadFacts DEF Inv, TypeOK, Statuses
<1>1. Stage' = Stage
  BY DEF WaitAll, data, Stage
<1>2. ASSUME NEW l \in {"idle", "wait_pred", "wait_block", "wait_asleep"}, Goto(Main, l)
      PROVE  pc'[Main] = l
  <2>1. l \in Labels(Main)
    BY <1>0 DEF Labels, ClientLabels
  <2>. QED
    BY <1>0, <1>2, <2>1, GotoType
<1>3. CASE At(Main, "idle") /\ Goto(Main, "wait_pred")
  <2>1. ~Waiting /\ Waiting' = TRUE
    BY <1>2, <1>3 DEF At, Waiting
  <2>. QED
    BY <1>1, <2>1 DEF E!Wait
<1>4. CASE At(Main, "wait_pred") /\ Goto(Main, "idle") /\ AllDone
  <2>1. Waiting /\ Waiting' = FALSE
    BY <1>2, <1>4 DEF At, Waiting
  <2>2. Unfinished = {}
    BY <1>0, <1>4, FS_EmptySet DEF Balanced, PendingBalance, AllDone
  <2>3. \A x \in Tasks : status[x] \in {"new", "retired"}
    BY <1>0, <2>2 DEF Unfinished, Statuses
  <2>4. \A x \in Tasks : Stage[x] \in {"new", "done"}
    BY <2>3, StageIs, StagesAre
  <2>. QED
    BY <1>1, <2>1, <2>4 DEF E!Return
<1>5. CASE \/ At(Main, "wait_pred") /\ Goto(Main, "wait_block")
           \/ At(Main, "wait_block") /\ Goto(Main, "wait_asleep")
  <2>1. Waiting' = Waiting
    BY <1>2, <1>5 DEF At, Waiting
  <2>. QED
    BY <1>1, <2>1
<1>. QED
  BY <1>3, <1>4, <1>5 DEF WaitAll

\* The steps that move a task from one stage to the next.
LEMMA TaskStep ==
  ASSUME Inv, NEW p \in Threads, Waiting' = Waiting,
         \/ p \in Clients /\ SubmitOutside(p)
         \/ p \in Workers /\ (SubmitInside(p) \/ Uncount(p) \/ BodyReturns(p) \/ Finish(p))
  PROVE  E!Next \/ UNCHANGED <<Stage, Waiting>>
<1>0. TypeOK /\ Working
  BY DEF Inv
<1>1. ASSUME \/ p \in Clients /\ SubmitOutside(p)
             \/ p \in Workers /\ SubmitInside(p)
      PROVE  \E x \in Tasks : E!Submit(x)
  <2>1. PICK x \in Tasks : Begin(p, x)
    <3>1. CASE SubmitOutside(p)
      BY <3>1 DEF SubmitOutside, Roots
    <3>2. CASE p \in Workers /\ SubmitInside(p)
      <4>1. task[p] \in Tasks
        BY <1>0, <3>2 DEF Working, Executing, SubmitInside, At
      <4>. QED
        BY <3>2, <4>1, PoolAssumption DEF SubmitInside
    <3>. QED
      BY <1>1, <3>1, <3>2
  <2>2. status[x] = "new" /\ status' = [status EXCEPT ![x] = "submitted"]
    BY <2>1 DEF Begin, Mark
  <2>3. Stage[x] = "new" /\ Stage' = [Stage EXCEPT ![x] = "queued"]
    BY <1>0, <2>2, StageMoves, StagesAre
  <2>. QED
    BY <2>3 DEF E!Submit, E!Move
<1>2. ASSUME p \in Workers, Uncount(p) PROVE \E x \in Tasks : E!Start(x)
  <2>1. PICK x : x = task[p]
    OBVIOUS
  <2>2. x \in Tasks /\ status[x] = "submitted"
    BY <1>2, <2>1, UncountPlaced DEF Submitted
  <2>3. status' = [status EXCEPT ![x] = "running"]
    BY <1>2, <2>1 DEF Uncount, Mark
  <2>4. Stage[x] = "queued" /\ Stage' = [Stage EXCEPT ![x] = "running"]
    <3>1. Stage' = [Stage EXCEPT ![x] = StageOf("running")] /\ Stage[x] = StageOf(status[x])
      BY <1>0, <2>2, <2>3, StageMoves
    <3>. QED
      BY <2>2, <3>1, StagesAre
  <2>. QED
    BY <2>2, <2>4 DEF E!Start, E!Move
<1>3. ASSUME p \in Workers, BodyReturns(p) PROVE \E x \in Tasks : E!Finish(x)
  <2>1. PICK x : x = task[p]
    OBVIOUS
  <2>2. x \in Tasks /\ status[x] = "running"
    BY <1>0, <1>3, <2>1 DEF BodyReturns, At, Working, Executing
  <2>3. status' = [status EXCEPT ![x] = "finished"]
    BY <1>3, <2>1 DEF BodyReturns, Mark
  <2>4. Stage[x] = "running" /\ Stage' = [Stage EXCEPT ![x] = "done"]
    <3>1. Stage' = [Stage EXCEPT ![x] = StageOf("finished")] /\ Stage[x] = StageOf(status[x])
      BY <1>0, <2>2, <2>3, StageMoves
    <3>. QED
      BY <2>2, <3>1, StagesAre
  <2>. QED
    BY <2>2, <2>4 DEF E!Finish, E!Move
<1>4. ASSUME p \in Workers, Finish(p) PROVE Stage' = Stage
  <2>1. PICK x : x = task[p]
    OBVIOUS
  <2>2. x \in Tasks /\ status[x] = "finished"
    BY <1>0, <1>4, <2>1 DEF Finish, At, Working, Executing
  <2>3. status' = [status EXCEPT ![x] = "retired"]
    BY <1>4, <2>1 DEF Finish, Mark
  <2>4. /\ Stage[x] = StageOf(status[x])
        /\ Stage' = [Stage EXCEPT ![x] = StageOf("retired")]
    BY <1>0, <2>2, <2>3, StageMoves
  <2>5. Stage \in [Tasks -> {StageOf(s) : s \in Statuses}]
    BY StageIs, <1>0 DEF TypeOK, Statuses
  <2>. QED
    BY <2>2, <2>4, <2>5, StagesAre
<1>. QED
  BY <1>1, <1>2, <1>3, <1>4 DEF E!Next

LEMMA InitExecutor == Init => E!Init
<1>. SUFFICES ASSUME Init PROVE E!Init
  OBVIOUS
<1>1. \A x \in Tasks : StageOf(status[x]) = "new"
  BY DEF Init, StageOf
<1>2. Stage = [x \in Tasks |-> "new"]
  BY <1>1, StageIs
<1>3. Waiting = FALSE
  BY ThreadFacts DEF Init, Waiting
<1>. QED
  BY <1>2, <1>3 DEF E!Init

LEMMA NextExecutor == Inv /\ [Next]_vars => [E!Next]_(<<Stage, Waiting>>)
<1>. SUFFICES ASSUME Inv, [Next]_vars PROVE E!Next \/ UNCHANGED <<Stage, Waiting>>
  OBVIOUS
<1>1. CASE WaitAll
  BY <1>1, WaitAllStep DEF E!Next
<1>2. CASE ~WaitAll
  <2>0. Waiting' = Waiting
    BY <1>2, WaitingKept
  <2>1. ASSUME Quiet PROVE UNCHANGED <<Stage, Waiting>>
    BY <2>0, <2>1 DEF Quiet, Stage
  <2>2. ASSUME NEW p \in Threads, Enqueue(p) PROVE UNCHANGED <<Stage, Waiting>>
    BY <2>0, <2>2 DEF Enqueue, Push, Count, Notify, data, Stage
  <2>3. ASSUME NEW w \in Workers, Find(w) PROVE UNCHANGED <<Stage, Waiting>>
    BY <2>0, <2>3 DEF Find, PopOwn, PopInbox, StealLook, StealCas, StealGiveUp, data, Stage
  <2>4. ASSUME NEW w \in Workers, Execute(w)
        PROVE  E!Next \/ UNCHANGED <<Stage, Waiting>>
    BY <2>0, <2>1, <2>4, TaskStep, NotifyQuiet, ThreadFacts DEF Execute
  <2>5. CASE \E w \in Workers : Worker(w) \/ SpuriousWakeup(w)
    BY <2>1, <2>2, <2>3, <2>4, <2>5, ControlQuiet, ThreadFacts DEF Worker
  <2>6. CASE \E c \in Clients : SubmitOutside(c) \/ Enqueue(c)
    BY <2>0, <2>2, <2>6, TaskStep, ThreadFacts
  <2>7. CASE SpuriousDone \/ Destroy \/ Shutdown
    BY <2>1, <2>7, ControlQuiet, NotifyQuiet DEF Shutdown
  <2>8. CASE UNCHANGED vars
    BY <2>0, <2>8 DEF vars, data, Stage
  <2>. QED
    BY <1>2, <2>5, <2>6, <2>7, <2>8 DEF Next
<1>. QED
  BY <1>1, <1>2

\* The pool implements Executor: a task starts at most once and only after it
\* was submitted, it runs to its end, and wait_all() returns only at a moment
\* when nothing that was submitted is unfinished.
THEOREM PoolIsExecutor == Spec => IsExecutor
<1>1. Inv /\ [Next]_vars => [E!Next]_(E!executorVars)
  BY NextExecutor DEF E!executorVars
<1>. QED
  BY PoolInductive, InitExecutor, <1>1, PTL DEF Spec, IsExecutor, E!Spec
=============================================================================

------------------------------ MODULE Executor ------------------------------
(***************************************************************************)
(* What ThreadPool promises its users: a submitted task is started at most *)
(* once, runs to its end, and wait_all() returns only at a moment when     *)
(* nothing that was submitted is unfinished.                               *)
(***************************************************************************)
CONSTANT Tasks

VARIABLES status,    \* life cycle of each task
          waiting    \* is somebody inside wait_all()?

executorVars == <<status, waiting>>

Move(x, from, to) == status[x] = from /\ status' = [status EXCEPT ![x] = to]

Init == status = [x \in Tasks |-> "new"] /\ waiting = FALSE

Submit(x) == Move(x, "new", "queued") /\ UNCHANGED waiting
Start(x)  == Move(x, "queued", "running") /\ UNCHANGED waiting
Finish(x) == Move(x, "running", "done") /\ UNCHANGED waiting

Wait == ~waiting /\ waiting' = TRUE /\ UNCHANGED status

Return ==
  /\ waiting /\ waiting' = FALSE
  /\ \A x \in Tasks : status[x] \in {"new", "done"}
  /\ UNCHANGED status

Next ==
  \/ \E x \in Tasks : Submit(x) \/ Start(x) \/ Finish(x)
  \/ Wait \/ Return

Spec == Init /\ [][Next]_executorVars
=============================================================================

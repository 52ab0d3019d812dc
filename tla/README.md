# TaskScheduler: specification and verification

TLA+ models of the scheduler in this repository (Chase-Lev deques, the
work-stealing thread pool, the dependency graph on top of it), the TLC
configurations that check them, and TLAPS proofs about the deque, both pools, the
graph alone and over a pool, and the cycle check. Every module follows the code in
`include/` and `src/`; `PROJECT.json` gives the source lines of each definition.

## The system

| Part | State | Operations | Talks to |
|---|---|---|---|
| `WorkStealingQueue` (`include/work_stealing_queue.hpp`) | `top_`, `bottom_`, `buffer_` and its slots; grown buffers are never freed | owner: `push`, `pop`; thieves: `steal`; `grow` inside `push` | called by the pool: `push`/`pop` by the worker that owns it, `steal` by all others |
| `Task` (`include/task.hpp`) | one `unique_ptr`, null after a move | call, move | stored in slots and inboxes |
| `ThreadPool` (`src/thread_pool.cpp`) | per worker a deque and an inbox; `queued_`, `pending_`, `stop_`, `round_robin_idx_`; two condition variables | `submit`/`submit_task` (through `enqueue`), `worker_loop` with `try_steal`, `wait_all`, destructor | clients, and tasks that submit tasks; futures |
| `TaskGraph` (`src/task_graph.cpp`) | `nodes_` with `successors` and `pending_deps`; `remaining_` | `add_task`, `add_dependency`, `run`, `on_node_complete` (in a worker), `wait`, `reset` | submits each ready node to the pool |
| `check_for_cycles` (`src/task_graph.cpp`) | colours and an explicit stack | one search per `run` | throws out of `run` |
| baseline pool, deque and graph (`*_baseline.*`) | the same with one global queue and mutex, no `queued_` | the same | used only by the baseline benchmark |
| tests, example, benchmarks | none of the scheduler's | drive the public interface | |

What is hard here: everything is about the interleaving of threads. The deque
is lock-free and its slots are plain memory; the pool's counters and notifies
are not under the mutexes its condition variables use; the graph's caller still
looks for ready nodes while the workers already finish others; a counter that is
off for a moment can decide that a thread leaves. Nothing is persisted and no
message can be lost except a notify, so there are no crash or network hazards.
The full list, with lines, is under `hazards` in `PROJECT.json`.

What makes each part correct:

* deque: every pushed task is handed out once, LIFO to the owner, FIFO to
  thieves; an empty answer of `pop` is true;
* pool: a submitted task is in exactly one place until it starts and starts
  once; the counters say what their comments say; `wait_all` returns only when
  nothing is unfinished; a worker leaves only when nothing is left for it;
  a notify reaches the thread it is meant for;
* graph: a node starts after its predecessors, once; `wait` returns after the
  last one; no node is forgotten; `reset` restores the graph;
* cycle check: it rejects exactly the graphs with a cycle, and ends.

## Modules

| Module | Models |
|---|---|
| `Deque` | what the deque promises: three atomic operations on a sequence |
| `WorkStealingQueue` | the deque itself, one step per access to shared memory |
| `WorkStealingQueueProofs` | proofs: its indices, for ever |
| `WorkStealingQueueRefinement` | proofs: its slots: that it implements `Deque` in the first round, and what a reused slot can lose |
| `FencedQueue` | the deque with a store buffer: what its fences are for |
| `FencedQueueProofs` | proofs: that the fences are enough, before any growth |
| `Executor` | what the pool promises: a life cycle per task, and when `wait_all` may return |
| `ThreadPool` | the pool, one step per atomic access, mutex section or notify |
| `ThreadPoolProofs` | proofs: no task lost or doubled, what the counters count, when shutdown abandons nothing |
| `ThreadPoolRefinement` | proof: it implements `Executor` |
| `BaselinePool` | the steps of the pool that `ThreadPool` replaced, at the same grain |
| `BaselineGraph` | the graph composed with that pool, whole |
| `BaselineProofs` | proofs: that pool, that it implements `Executor`, and the whole `TaskGraph` |
| `Dependencies` | edges, predecessors and cycles of a successor list |
| `TaskGraph` | the graph over an executor that runs what it is given, in any order |
| `TaskGraphProofs` | proofs: its first run |
| `CycleCheck` | `check_for_cycles`, one step per turn of its loops |
| `CycleCheckProofs` | proofs: its verdict |
| `MC...` | instances for TLC |

Layers: `WorkStealingQueue` is shown to implement `Deque`, so is `FencedQueue`, and
`ThreadPool` uses a sequence with atomic operations where the code uses the deque (a
steal is two steps, the look and the CAS, because its failure matters, and the look
misses a last task that the owner's `pop` has already reserved). The pools' deques are
therefore *perfect* sequences, for any number of pushes, and every result about a pool
rests on that. The results about the deque justify it in the first round of each deque
(no growth, no slot used twice: up to 256 pushes per worker); afterwards a stalled thief
can lose a task (`QueueGrowthRace`, `OverwriteNeedsStall`), which the pool models leave
out. `ThreadPool`
is shown to implement `Executor`, and `TaskGraph` hands its nodes to an executor that
starts each submitted copy once. `BaselineGraph` has no such cut: there the graph's
caller, `on_node_complete` and the pool's workers take their steps in one state space,
and the whole is shown to implement both `Executor` and `TaskGraph`. `TaskGraph` uses
the definition of a cycle where the code calls `check_for_cycles`, and `CycleCheck`
shows they agree.

### WorkStealingQueue

`top`, `bottom`, `buffers[buffer]` are `top_`, `bottom_` and the live buffer;
`buffers` keeps the old ones, which a thief may still read. Each thread has a
label `pc`, the index it works on (`t`, `b` or the loop's `i`), the buffer it
loaded and the task it read. `push` is `PushFits` or `PushGrows`,
`MigrateCopy`/`MigrateClear` per slot, `PublishBuffer`, `PushStore`,
`PushPublish`; `pop` is `PopReserve`, `PopLoadTop`, `PopCas`, `PopRestore`;
`steal` is `StealTop`, `StealBottom`, `StealBuffer`, `StealCas`. Moving a `Task`
out of a slot reads the pointer and nulls the slot, so it is two steps
(`ReadSlot`, `ClearSlot`); `NoTask` is a moved-from `Task`. Owner accesses to
what only the owner writes are merged with its next step. Tasks are numbers in
push order; indices are mathematical integers (the code's are 64 bits wide).

Memory is sequentially consistent here; `FencedQueue` shows what justifies this
before the first growth.

### FencedQueue

`push`, `pop` and `steal` once more (the baseline's copy differs in alignment only, and
`map` names its lines), on a machine where the owner's stores wait in `writes` and
`Commit` moves them to memory one by one, in any order that keeps stores to one
location in order and does not pass a release fence. That is weaker than x86, where
no fence would be needed in `push`, and close to ARM. The owner sees its own stores
(`OwnerSees`, `own`). `PopLoadTop` waits until the buffer is empty: the `seq_cst` fence
of `pop`. The thieves' two loads stay in order, as acquire and their own fence demand,
and compare-exchange reads and writes memory. Loads of the owner are not delayed, which
only matters for `top_`, and `pop` loads that one after its fence. Fewer tasks are pushed than there are slots, so
an index is its slot and there is no `grow`; the relaxed store that publishes a grown
buffer is therefore outside this model. With the fence in `push` taken away a thief
gets an empty `Task`; with the one in `pop` taken away a task is returned twice (the
mutants of `PublishedTasksVisible` and `TakenOnce`).

### ThreadPool

Threads are the workers `0..N-1` and the clients; `Main` is the client that also
calls `wait_all` and destroys the pool. `Children[x]` are the tasks that `x`
submits while it runs. `inbox`, `deque`, `pending`, `queued`, `stop`, `rr` are the
fields; `item`, `target`, `task`, `scan` are locals; `status` is a history of each
task (`submitted` until its worker uncounts it, `running`, `finished` when its body
has returned, `retired` when `pending_` has been decremented). Condition
variables follow the C++ rules: the predicate is evaluated under the mutex,
`Block` releases it and sleeps in one step, a notify wakes only threads that are
asleep, and a sleeper may wake for no reason. `enqueue` is `SubmitOutside` or
`SubmitInside`, `Push`, `Count`, `Notify`; the worker loop is `PopOwn`,
`PopInbox`, `StealLook`/`StealCas`/`StealGiveUp`, then `Uncount`, `BodyReturns`,
`Finish`, `NotifyDone`, or `Lock`, `PredStop`, `PredQueued`, `Block`, `ExitCheck`.
`try_steal` visits victims in circular order from a random start, the model in
any order, which is the same up to three workers and more behaviours beyond.
The destructor runs when the clients are idle and have submitted all they will:
calling a member of an object under destruction is outside the language.

### BaselinePool

One queue for tasks from outside, under `global_mutex_`, which is also the mutex of
`cv_`; no `queued_`, the sleep predicate looks at the global queue and at every
deque. A worker holds `global_mutex_` from its predicate to `Block` or `ExitCheck`
(`HoldsGlobalMutex`), so `PushGlobal` cannot come in between; `PushOwn` can, it takes
no mutex. `empty()` of a deque is two loads, `PredBottom` and `PredTop`, for which
each deque has its `top_` index besides its sequence; the first may see the `bottom_`
that a `pop` under way has lowered (`Bottoms`). The deques are perfect sequences, as in
`ThreadPool`. Locals are reset when they
are dead. The labels, the life cycle of a task and the mapping to `Executor` are
those of `ThreadPool`. The module has no `Next`: which tasks are submitted, and what a
task's body does, is up to the module that extends it. `Begin` is the entry of
`enqueue`, for any thread.

### BaselineGraph

`task_graph_baseline.cpp` over that pool. (As the repository stands the file includes
`task_graph.hpp`, which includes `thread_pool.hpp`, and no target compiles it; it uses
of the pool only `submit_task`, which both pools have, and the model joins it to the
pool of its own generation.) `Main` is the only client: it starts with a built, acyclic
graph from `Graphs` (`main = "build"`), runs it, waits for it with `wait` or for the
pool with `wait_all`, and destroys the pool when it is through. A pool task is
`<<v, k>>`, the `k`-th `Task` that `dispatch` made for node `v`: an unshielded node
may be dispatched twice. `main` and `loop` say where `Main` is in the graph's code,
`pc[Main]` where it is in the pool's. A worker at `run` is inside the task's body:
`edge = 0` in `fn`, then the position in `successors`; when it dispatches, it goes
through `push` and `notify` of the pool and comes back. `remaining_` and `done_cv_` are the
graph's, `pending_` and the pool's `done_cv_` the pool's.

The mapping to `TaskGraph` (`G`): `jobs[v]` are the copies of `v` that were submitted
and not started, `begun` and `finished` count copies by their status, a worker is
`fn`, `release` or `notify` by its position in the body and `idle` otherwise. So all of
the pool's searching, stealing and sleeping is stuttering there. `ImplementsGraph` is about
the steps; the initial state is one that `TaskGraph` reaches by `AddTask` and
`AddDependency`.

`PoolIdleMeansGraphDone` is about a use the interface invites: `run`, then `wait_all`
on the pool. It is sound, and what is more, when it returns no worker is inside
`on_node_complete`, so that the graph may be destroyed. After the graph's own `wait` a
worker may still be about to notify `done_cv_`. Whether `wait` returns is not claimed:
its notify can be lost, as in the pool, and after a double dispatch
`remaining_` passes below 0, where the predicate (`== 0`) is false for ever.

### TaskGraph and CycleCheck

The caller follows the usage comment of the header: it builds any graph within
`MaxTasks` nodes and `MaxDeps` dependencies (self-loops and repetitions too),
runs it, waits, and may reset and run it again (`MaxRuns`). `RunLoop` is one turn
of `run`'s loop: it interleaves with the workers, as in the code. `jobs[v]`
counts the submitted, not yet started copies of `v`. `begun` and `finished` are
histories of the current run. Ids start at 1 here, at 0 in the code.

`CycleCheck` starts from every graph within its bounds.

## Runs

Twelve configurations; `CHECK_DEADLOCK FALSE` in all of them because the systems
stop when their clients have done all they do.

| Run | Instance | Shows |
|---|---|---|
| `QueueShared` | 2 thieves, 4 slots, 5 pushes | the inductive invariant `IInv` through growth and wrap-around: indices are claimed exclusively; an empty `pop` is true. With slots used again and no growth: a push overwrites a task only if a stalled thief has won an index of its slot. In the first round (no slot used twice, no growth): implements `Deque`, no thief gets an empty `Task` |
| `QueueGrowthRace` | 1 thief, 2 slots, 2 pushes | *violated*: a thief gets an empty `Task` after `grow` |
| `QueueFences` | 2 thieves, 4 pushes, store buffer | a task is in memory before a thief can see its index; no task is returned twice or empty; implements `Deque` |
| `PoolSafety` | 3 workers, 1 client, 4 tasks, two of them nested | every waiting task is in exactly one place, `queued_` and `pending_` count what they should, resting workers have empty deques, a worker that leaves abandons a task only while another is between the push and the count of a nested submission, implements `Executor` |
| `PoolProgress` | 3 workers, 1 client, a task that submits another | a nested task runs whatever wakeups are lost; a notify that finds its thread blocked has its effect, for a worker, `wait_all` and the destructor |
| `PoolLostTask` | 2 workers, 1 task | *violated*: a submitted task runs |
| `PoolEarlyExit` | 2 workers, 2 clients, 3 tasks | *violated*: a worker that left has an empty inbox |
| `BaselineGraph` | 2 workers; a node that releases two, and a chain of two whose second node may be dispatched twice | the baseline system: every node of a graph that is run is executed and the pool drains, its global queue is never left to sleepers, shutdown abandons nothing, `wait_all` waits for the graph, implements `TaskGraph` and `Executor`. What `PoolLostTask` and `PoolEarlyExit` refute of the new pool holds of the old one |
| `GraphFirstRun` | 2 workers, all graphs with 4 nodes and 3 dependencies | first run of a *shielded* graph: order, single execution, `wait`; of any graph: no node forgotten |
| `GraphDoubleDispatch` | 2 workers, 3 nodes, 2 dependencies | *violated*: each node is executed once |
| `GraphRerun` | 2 workers, 2 nodes, 1 dependency, 2 runs | *violated*: order after `reset` |
| `CycleVerdict` | all graphs of 3 nodes with up to 2 successors each | verdict, search invariant, termination |

Each property of a passing run has a mutant of the code's definition that breaks
it (`mutants` in `PROJECT.json`); the mutants stand just before the definition
they replace.

### What the violated runs show

* **`QueueGrowthRace`.** Claiming an index and reading its slot
  are two steps, and the owner's `grow` or a later `push` may come between them.
  With capacity 256 this needs a thief that is stopped for the time of many pushes,
  or a growth at the wrong moment. A push that goes round the buffer does the same
  to a slot that was won and not yet read. `FirstRoundNeverEmpty` and `IsDeque` are
  therefore about the first round only (`FirstRound`): no buffer outgrown, at most as
  many pushes as slots. `IInv` shows that it is only the slots: the indices are right.
  `OverwriteNeedsStall` says how far the reuse of slots is safe: as long as `grow` has
  not run, a push stores over a task only in the slot of an index that a thief has won
  and not emptied, be it rounds ago. The instance reaches such a store.
* **`PoolLostTask`.** `queued_` is raised and `cv_` notified without
  `sleep_mutex_`. A worker that has just read `queued_ = 0` under the mutex has not
  blocked yet, misses the notify, and sleeps on a full inbox which nobody else
  drains; `wait_all` then waits for ever. The same window exists for `stop_` and
  `cv_` (the destructor's `join`), for `pending_` and `done_cv_` (`wait_all`), and
  for the graph's `remaining_` and `done_cv_`. `NotifyReachesSleepers`,
  `NotifyReachesWaiter` and `StopReachesSleepers` state the half that holds. The first is stated for a
  lone outside task: with other submissions around, `queued_` can dip to 0 at the
  moment the woken worker reads it, and the worker sleeps again.
* **`PoolEarlyExit`.** A task is in a deque before `queued_` counts it. If a thief
  takes and uncounts it first, `queued_` is one too low, a worker that checks it
  with `stop_` set leaves, and a task in its inbox is never run. It needs a nested
  submission in flight at the exit test, and nothing else: `AbandonsOnlyInWindow`, which
  `PoolSafety` checks on an instance that does abandon tasks and which is proved for
  all, says that no step abandons a task while no worker is between push and count.
* **`GraphDoubleDispatch`.** When all predecessors of a node finish before
  `run`'s loop reaches that node, it is dispatched by them and by the loop. It runs
  twice; then `remaining_` and its successors' counters are decremented twice, so
  `wait` returns early and, with four nodes, a successor starts too soon. The graph
  of `test_dag_ordering` has this shape. `GraphFirstRun` shows when it cannot
  happen: if every node with dependencies has a predecessor that was added after
  it (`Shielded`). Its four nodes are needed: with three a double execution
  cannot yet break the order.
* **`GraphRerun`.** `reset` stores 0 instead of the in-degrees.

### Bounds

Deque: with one slot always left free, 4 slots grow when a push finds three tasks;
5 pushes give that growth, and, when thieves take meanwhile, wrap-around without
growth; two thieves are enough for every pair of competing threads. `QueueFences`:
each fence matters with one or two stores in the buffer, 4 pushes put several there. Pool: three workers are the least in which a thief loses its CAS
to another thief, and a notify can go to the wrong worker; two clients (`PoolEarlyExit`) the least whose
submissions overlap; two nested tasks the least for which the owner and a thief hold different ends of a deque.
`BaselineGraph`: the fork gives one worker two tasks in its deque, which it and a
thief take from different ends; the chain a double dispatch; a node has as many
copies in `Tasks` as it can be dispatched here (`Dispatch` has `Tasks` as its bound). Graph: four nodes and three dependencies are the least in which a doubly executed
node has a successor with another predecessor. Cycle check: three nodes with two
successors each contain shared successors, repeated edges, self-loops and cycles
that do not go through the first node. `rr` needs no bound of its own, the number
of tasks bounds it; nothing else counts without bound.

### Fairness

`FairSpec` of `ThreadPool`: weak fairness of each worker's own steps and of a
submission or a destructor that has begun, strong fairness of `Lock` (a thread
that waits for a mutex that is released again and again gets it). In `BaselineGraph`
three steps wait for `global_mutex_`: `Lock`, `PopGlobal`, `PushGlobal`; a call of
`run` that has begun goes on, and a node's `fn` returns. It is what a
preemptive scheduler and a mutex give. No client is obliged to submit, wait or
destroy, and no sleeper to wake spuriously. `CycleCheck` is one loop of one thread:
weak fairness of its next step. The other modules have no liveness properties;
`NothingForgotten` of `TaskGraph` is stated of the states in which the pool has
nothing left to do.

## Proofs

Each theorem is about the specification of its module (`Init /\ [][Next]_vars`) for
every value of the constants that the module's `ASSUME` admits, and each safety
theorem follows from an inductive invariant: `Init` implies it, every action keeps it
(one lemma per action or per group of actions that disturb the same parts), it
implies the property. TLC found the invariants to hold on small instances before
they were proved.

| Module | Theorems | For every |
|---|---|---|
| `WorkStealingQueueProofs` | `Invariance`, `TypeCorrect`, `ExclusiveClaims`, `HonestEmptyPop` | set of thieves, capacity, number of pushes |
| `WorkStealingQueueRefinement` | `RoundInductive`, `NeverEmptyFirstRound`, `QueueIsDeque`, `OverwritesNeedStall` | the same |
| `FencedQueueProofs` | `Inductive`, `TypeCorrect`, `PublishedVisible`, `NoTaskTwice`, `FencedIsDeque` | set of thieves, number of pushes |
| `ThreadPoolProofs` | `PoolInductive`, `PoolTyped`, `TasksInOnePlace`, `PendingCounts`, `QueuedExact`, `RestingEmpty`, `AbandonsOnlyThere`, `DrainedOutsideWindow`, `FlatDrained` | number of workers, set of clients and of tasks, nesting of submissions |
| `ThreadPoolRefinement` | `PoolIsExecutor` | the same |
| `BaselineProofs` | `PoolInductive`, `SleepInductive`, `BaselineTyped`, `BaselineAttended`, `BaselineDrained`, `BaselineIsExecutor`, `GraphInductive`, `CompositionImplementsGraph`, `ViewInductive`, `PoolIdleGraphDone`, `ShieldedOverPool` | number of workers, set of acyclic graphs and their size, bound on the dispatches |
| `TaskGraphProofs` | `GraphTyped`, `GraphInductive`, `FirstRunInOrder`, `FirstRunOnceEach`, `FirstWaitSound`, `FirstRunForgetsNothing` | number of nodes, dependencies and runs, set of workers |
| `CycleCheckProofs` | `SearchInductive`, `SearchTyped`, `SearchInvariant`, `VerdictCorrect` | number of nodes, number of successors of a node |

### The indices of the deque

`IInv` is `TypeOK`, what the owner knows of `top_` and `bottom_` at each label
(`OwnerIndices`), what a thief knows (`ThiefIndices`: if its CAS can still succeed, its
index is below the logical bottom, so `pop` reserved it later) and `ClaimsExclusive`.
The last is what we want; it is not inductive alone, because whether a CAS can win
an index the owner has taken without a CAS depends on when the thief read `bottom_`.
`TypeStep` has the types (the buffers change shape in `PushGrows`; `SlotInRange`,
`LoadType`, `StoredType` and `GrownType` are about slots), `IndexStep` the indices, one
case per action. This holds through growth and wrap-around. `QueueAssumption` is
enough, the power of two is not needed.

### The slots of the deque

What is in the slots holds until a buffer is outgrown or more tasks are pushed than
there are slots: `FirstRound`, a hypothesis that `QueueGrowthRace` shows to be needed,
and which an application of up to 256 pushes per worker meets. `RInv` adds to `IInv`

* `Bounds`: nobody works on an index at which nothing was stored, and `grow` works
  on a buffer other than the first. It makes "index `i` is slot `i + 1`" true
  (`SlotIs`) and shows that a first round follows only on a first round (`RoundsEnd`);
* in a first round `Filled`: what the deque holds, and what was handed out, are tasks
  that `push` has published, and the slot about to be published holds the next one.

Only one write can harm a slot: `StoreStep` and `ClearStep` show that the slot written
by `push` or emptied by a claim is no slot of the deque and of no other claim, because
indices are exclusive. Each step of the queue is then one of four outcomes
(`StepOutcome`): the deque stays, or a published task is pushed, or the bottom task is
popped (`OwnerTakes`, at the load of `top_`), or the top one leaves (`CasTakes`, by
whoever wins). That is `QueueIsDeque`; that no empty `Task` is returned follows from
`Filled`.

Beyond the first round, as long as `grow` has not run, `SlotsOwned`: every slot with a
task is the slot of an index in the deque or of one that was won and not emptied, and
`push` stores less than a round above `top_`. Two indices less than a round apart have
different slots (`SlotsApart`), so what a push overwrites is not in the deque, the owner
itself has nothing in hand, and a thief is left: `OverwritesNeedStall`. After a growth it
is false: `grow` copies what a thief has won meanwhile, and the copy belongs to nobody.

### The fences of the deque

`Inv` of `FencedQueueProofs` speaks of the stores in the buffer by their places:

* `Ordered` is what `push`'s release fence is for: a waiting store to the slot of an
  index that can still be taken has a fence between it and every waiting store of
  `bottom_` that shows the index, and a fence after it while the index is below the
  logical bottom, for the store that `pop` adds next. With the slot's store still
  waiting, `bottom_` in memory does not show the index. `PublishedVisible` and
  `SlotIsOut` (a thief that sees an index finds the task) follow;
* `Indices` has the part of `pop`'s seq_cst fence: at its compare-exchange nothing
  waits, and `top_` has come to the reserved index. Hence a thief whose
  compare-exchange can still win has an index below the logical bottom (`ThiefOK`);
* `Fresh`: the indices that can be taken (those in the deque and those a thief has won
  and not read) hold pushed tasks, different ones, none returned before. What an
  index holds is what the owner sees there: the last waiting store, or memory.

`Commit` is the hard action: `ShiftFacts` says what the removal of one store, and of
a fence that it brings to the head, leaves of the order of the rest, and `CommitSees`
that the owner does not notice. `FencedIsDeque` follows from the same invariant:
`push` takes effect at its stores, `pop` at the load of `top_` or at the
compare-exchange it wins, `steal` at its compare-exchange, `Commit` never.
The release fence is never overtaken, stores to one location keep their order,
and no slot is used twice: that is the model, not the invariant.

### The pool

The theorems about the pools take each deque for a perfect sequence. What is proved of
the deque makes it one in its first round (`QueueIsDeque`); that is the range in which
they speak about the code.

`Inv` of `ThreadPoolProofs`:

* `Placed`: the submitted tasks are the contents of boxes (the hand of a thread that
  enqueues, the inboxes, the deques, the hand of a worker that took one), each in one
  box and once. `OnePlace` counts places; the boxes are a form of it in which a step
  is "an element moves from one box to another" (`Moved`, `Added`, `Removed`);
* `Working`: each worker inside a task has one of its own, with the status that fits.
  Without it `Finish` could decrement `pending_` twice for one task;
* `Balanced`: `PendingBalance`, and that the unfinished tasks are finitely many, which
  the arithmetic of `Cardinality` needs;
* `SearchedEmpty`: a worker that found its deque empty has pushed nothing since. The
  property is about the labels at which it rests, the invariant about all labels from
  the failed `pop` on.

`QueuedBalance` has an invariant of its own (`QueuedInv`) on top of `Inv`: `queued_`
and the number of filled slots differ by the increments and decrements that threads
have still to make. `PoolIsExecutor` goes through the actions: a step either leaves the
stages of the tasks and whether `Main` waits as they are, or is the one step of
`Executor`. The interesting case is the return of `wait_all`: `pending_ = 0` was read,
so by `PendingBalance` no task is unfinished at that moment.

`ExitedDrained` is false in general (`PoolEarlyExit`); `AbandonsOnlyThere` says which
steps can make it false. `Settled`, an invariant: once `stop_` is set every root task was
submitted and no client enqueues, and nobody leaves before. So nothing comes into the
inbox of a worker that left (`OtherStepsDrain`; `SearchedEmpty` has its deque), and the
one step that needs an argument is the exit test: with nobody between push and count,
`QueuedBalance` makes `queued_ = 0` the number of items plus the number of tasks taken
and not uncounted, so both are 0. Hence `DrainedOutsideWindow`: nothing is ever abandoned
in a run in which nobody is there at an exit test (`CountedAtExit`); and `FlatDrained`:
that is so in pools whose tasks submit nothing, where no worker ever enqueues.

### The baseline pool, and the graph over it

`BaselineProofs` has three invariants, for the three layers of `BaselineGraph`.

* The pool. `PoolInv` is the invariant of `ThreadPoolProofs` with one global queue for the
  inboxes: `TypeOK`, labels that fit the thread (`Labelled`), `Placed`, `Working`, `Balanced`.
  Here the tasks are submitted by the graph, so the steps are first brought into the
  form "a step of the pool, or an enqueue, or a body that goes on" (`PoolMoves`), and
  what the graph adds to them plays no part in the pool's proof. `SleepInv` is about
  `global_mutex_`: between the predicate and the blocking, or the leaving, nothing comes into
  the global queue (`SeenEmpty`); `stop_` is set only while `Main` is in the
  destructor; a worker that left had an empty deque and nobody pushes to it after
  (`Left`); and `GlobalAttended` itself, whose hard step is the last awake worker going to
  sleep. This is what `PoolLostTask` and `PoolEarlyExit` show to be false of the new pool,
  which gave up the mutex.
* The graph. `GraphInv` says where `Main`, `run`'s loop and a worker's position in
  `on_node_complete` can be, and that only nodes of the graph are in the pool. With it each step
  is mapped to a step of `TaskGraph` or a stutter (`GraphStepMaps`): the counts `jobs`, `begun`
  and `finished` of the mapping are cardinalities of sets of copies and change by one
  where `TaskGraph` says so, which needs `Working` (a copy has one worker) and
  `Placed` (a copy that is taken was submitted).
* Both. `TaskGraphProofs` is instantiated with the mapping (`P`), so that its lemmas are lemmas
  about the composition. `SystemInit` satisfies its invariant (`InitView`: a built graph has
  exact counters), and by the refinement each step keeps it: `ViewInductive`. So what was
  proved of a first run over an abstract executor holds over this pool
  (`ShieldedOverPool`), and `PoolIdleGraphDone` joins the two: `pending_ = 0` and
  `Balanced` leave no task anywhere, which is `Quiescent` of `TaskGraph`, whence by
  `NothingForgottenHolds` every node was executed.

`GraphsAssumption` asks of the graphs what `SystemInit` starts with: successor lists of
nodes of the graph, no cycle, at most `MaxNodes` nodes.

### The graph

`Inv` of `TaskGraphProofs` has a part for any first run and one for shielded
graphs. `runs <= 1` in the theorems is not a restriction of the proof: after `reset`
they are false (`GraphRerun`). `Shielded` is part of the properties, as in the run.

* `Unreleased(v)` are the edges into `v` that `on_node_complete` has still to go over.
  Before the run `pendingDeps[v]` is their number (`DepsExact`).
* `Awaited`, any graph: the counter is never above that number, and a node whose
  counter is at 0 was dispatched or `run`'s loop will do it. `FirstRunForgetsNothing`
  follows: when nothing is left to do, each node that was not executed has a
  predecessor that was not either, and such a set of nodes is what `Dependencies`
  calls a cycle, unless it is empty. It holds until the caller resets (`UntilReset`), also
  after a `wait` that returned.
* `Orderly`, shielded graphs: the counters stay exact, each node is dispatched once, no
  two workers are in the same node, what was dispatched has no dependencies left, and
  the loop is ahead of every node that was not dispatched by it (`LoopAhead`). The
  last is the one that fails without `Shielded`: a node is released by a worker before
  the loop has reached it. `RemainingExact` says that `remaining_` counts the nodes that
  are not through `on_node_complete`; with `Over` it gives `FirstWaitSound`.

`GraphTyped` and the inductive invariant itself are about any number of runs.

### The cycle check

`IInv` is `TypeOK` and `SearchInv`, which `CycleVerdict` checks. It is the textbook
argument of the depth-first search with three colours in a form which needs no
induction over the graph: the grey nodes are those of the stack, the stack is a path,
what a node of it leads to includes the nodes above it (`PathReaches`), the successors
passed by are black, black nodes lead to black ones, and every set of black nodes has
a member that no other member leads to (`BlackSorted`). When the search meets a grey
successor, `PathReaches` makes it a cycle; when all nodes are black, `BlackSorted`
says that there is none.

### Only model-checked

All liveness (the temporal properties of `PoolProgress`, `BaselineGraph` and
`CycleVerdict`): fairness and `ENABLED` are beyond the prover. Every invariant, action
property and refinement that a passing run checks is a theorem, for all values of the
constants.

## Not modelled

Weak memory beyond `FencedQueue`: the counters and flags of the pools (`stop_` is
relaxed), and a grown buffer, which is published by a relaxed store with no fence
before it although the repository's README says "published with `release`". Freed
memory and object lifetimes (the graph destroyed while the last worker is still to
notify, buffers leaked by design); a second pool whose workers submit to the first
(`worker_id_` is one `thread_local` for both); `wait_all` or `wait` called by a worker;
exceptions of a graph node (they end the process; those of a submitted callable go to
its future); calls of `TaskGraph` out of the documented order; `TaskGraph` over the new
pool in one state space (the two are joined through `Executor`: its safety follows, its
progress does not hold, see `PoolLostTask`); `reset` and the building of a graph in
`BaselineGraph`; benchmarks, example, tests, build.

## What is left

Two pools that submit to each other, which share `worker_id_`, and a model of growth
in `FencedQueue`, which would need buffers that become visible late. No further
invariant waits for a proof.

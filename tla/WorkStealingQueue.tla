------------------------- MODULE WorkStealingQueue -------------------------
(***************************************************************************)
(* The Chase-Lev work-stealing deque of include/work_stealing_queue.hpp.   *)
(*                                                                         *)
(* One step per access to shared memory: loads and stores of top_, bottom_ *)
(* and buffer_, and the two halves of a Task move (read the pointer, null  *)
(* the source), because the slots are plain memory that the owner and a    *)
(* thief may touch at the same time.  Accesses of the owner to what only   *)
(* the owner writes (bottom_, buffer_) are merged with its next step.      *)
(* Memory is sequentially consistent here.                                 *)
(*                                                                         *)
(* Tasks are the numbers 1..MaxPush in the order they are pushed; NoTask   *)
(* is a Task whose impl_ is null (default constructed or moved from).      *)
(***************************************************************************)
EXTENDS Integers, Sequences

CONSTANTS Owner,            \* the thread that may push and pop
          Thieves,          \* the threads that may steal
          InitialCapacity,  \* constructor argument, 256 in the pool
          MaxPush           \* bound: number of push() calls

ASSUME QueueAssumption ==
  /\ Owner \notin Thieves
  /\ InitialCapacity \in Nat \ {0}
  /\ MaxPush \in Nat

\* The constructor asserts a power of two; idx & mask_ is idx % capacity then.
ASSUME PowerOfTwo == \E k \in 0..InitialCapacity : InitialCapacity = 2^k

VARIABLES top, bottom,   \* top_ and bottom_
          buffers,       \* every Buffer allocated so far; none is ever freed
          buffer,        \* buffer_: position in buffers of the live one
          pc,            \* where each thread is in its operation
          idx,           \* the index each thread works on (t, b or i)
          buf,           \* the Buffer* each thread loaded
          got,           \* the task a thread has read out of its slot
          pushed,        \* number of tasks stored so far
          taken          \* history: how often each Task value was returned

vars == <<top, bottom, buffers, buffer, pc, idx, buf, got, pushed, taken>>

NoTask  == 0
Task    == 0..MaxPush
Threads == Thieves \cup {Owner}

Capacity(k) == Len(buffers[k])
Slot(k, i) == (i % Capacity(k)) + 1
Load(k, i) == buffers[k][Slot(k, i)]
Stored(k, i, x) == [buffers EXCEPT ![k][Slot(k, i)] = x]
Empty(cap) == [s \in 1..cap |-> NoTask]

At(p, l) == pc[p] = l
Goto(p, l) == pc' = [pc EXCEPT ![p] = l]

Init ==
  /\ top = 0 /\ bottom = 0
  /\ buffers = <<Empty(InitialCapacity)>> /\ buffer = 1
  /\ pc = [p \in Threads |-> "idle"]
  /\ idx = [p \in Threads |-> 0]
  /\ buf = [p \in Threads |-> 1]
  /\ got = [p \in Threads |-> NoTask]
  /\ pushed = 0
  /\ taken = [x \in Task |-> 0]

-----------------------------------------------------------------------------
(* push: load top_, grow if the buffer is nearly full, store, publish.     *)

Full_TooLate(t) == bottom - t > Capacity(buffer)
Full(t) == bottom - t >= Capacity(buffer) - 1

PushFits ==
  /\ At(Owner, "idle") /\ pushed < MaxPush
  /\ ~Full(top)
  /\ Goto(Owner, "store")
  /\ UNCHANGED <<top, bottom, buffers, buffer, idx, buf, got, pushed, taken>>

PushGrows ==
  /\ At(Owner, "idle") /\ pushed < MaxPush
  /\ Full(top)
  /\ buffers' = Append(buffers, Empty(2 * Capacity(buffer)))
  /\ idx' = [idx EXCEPT ![Owner] = top]
  /\ Goto(Owner, "migrate")
  /\ UNCHANGED <<top, bottom, buffer, buf, got, pushed, taken>>

\* grow() moves the tasks of [t, b) one by one; t is the value push loaded.
MigrateCopy ==
  /\ At(Owner, "migrate") /\ idx[Owner] < bottom
  /\ buffers' = Stored(Len(buffers), idx[Owner], Load(buffer, idx[Owner]))
  /\ Goto(Owner, "migrate_clear")
  /\ UNCHANGED <<top, bottom, buffer, idx, buf, got, pushed, taken>>

MigrateClear ==
  /\ At(Owner, "migrate_clear")
  /\ buffers' = Stored(buffer, idx[Owner], NoTask)
  /\ idx' = [idx EXCEPT ![Owner] = @ + 1]
  /\ Goto(Owner, "migrate")
  /\ UNCHANGED <<top, bottom, buffer, buf, got, pushed, taken>>

PublishBuffer ==
  /\ At(Owner, "migrate") /\ idx[Owner] >= bottom
  /\ buffer' = Len(buffers)
  /\ Goto(Owner, "store")
  /\ UNCHANGED <<top, bottom, buffers, idx, buf, got, pushed, taken>>

PushStore ==
  /\ At(Owner, "store")
  /\ pushed' = pushed + 1
  /\ buffers' = Stored(buffer, bottom, pushed')
  /\ Goto(Owner, "publish")
  /\ UNCHANGED <<top, bottom, buffer, idx, buf, got, taken>>

PushPublish ==
  /\ At(Owner, "publish")
  /\ bottom' = bottom + 1
  /\ Goto(Owner, "idle")
  /\ UNCHANGED <<top, buffers, buffer, idx, buf, got, pushed, taken>>

-----------------------------------------------------------------------------
(* pop: reserve the bottom slot, then compare with top_.                   *)

PopReserve ==
  /\ At(Owner, "idle")
  /\ bottom' = bottom - 1
  /\ idx' = [idx EXCEPT ![Owner] = bottom']
  /\ buf' = [buf EXCEPT ![Owner] = buffer]
  /\ Goto(Owner, "pop_top")
  /\ UNCHANGED <<top, buffers, buffer, got, pushed, taken>>

\* The label after t = top_.load(): nothing left, several left, or the last.
AfterTop_LastWithoutCas(t, b) == IF t > b THEN "restore_empty" ELSE "read"
AfterTop_LastIsEmpty(t, b) == IF t >= b THEN "restore_empty" ELSE "read"
AfterTop(t, b) ==
  IF t > b THEN "restore_empty" ELSE IF t < b THEN "read" ELSE "pop_cas"

PopLoadTop ==
  /\ At(Owner, "pop_top")
  /\ Goto(Owner, AfterTop(top, idx[Owner]))
  /\ UNCHANGED <<top, bottom, buffers, buffer, idx, buf, got, pushed, taken>>

PopCas ==
  /\ At(Owner, "pop_cas")
  /\ \/ /\ top = idx[Owner]
        /\ top' = top + 1
        /\ Goto(Owner, "restore_won")
     \/ /\ top # idx[Owner]
        /\ Goto(Owner, "restore_empty")
        /\ UNCHANGED top
  /\ UNCHANGED <<bottom, buffers, buffer, idx, buf, got, pushed, taken>>

PopRestore_NotWhenEmpty ==
  /\ \/ At(Owner, "restore_empty") /\ Goto(Owner, "idle") /\ UNCHANGED bottom
     \/ At(Owner, "restore_won") /\ Goto(Owner, "read") /\ bottom' = idx[Owner] + 1
  /\ UNCHANGED <<top, buffers, buffer, idx, buf, got, pushed, taken>>

PopRestore ==
  /\ \/ At(Owner, "restore_empty") /\ Goto(Owner, "idle")
     \/ At(Owner, "restore_won") /\ Goto(Owner, "read")
  /\ bottom' = idx[Owner] + 1
  /\ UNCHANGED <<top, buffers, buffer, idx, buf, got, pushed, taken>>

-----------------------------------------------------------------------------
(* steal: load top_, load bottom_, load buffer_, CAS top_.                 *)

StealTop(p) ==
  /\ At(p, "idle")
  /\ idx' = [idx EXCEPT ![p] = top]
  /\ Goto(p, "steal_bottom")
  /\ UNCHANGED <<top, bottom, buffers, buffer, buf, got, pushed, taken>>

NothingAt_OffByOne(i) == i > bottom
NothingAt(i) == i >= bottom

StealBottom(p) ==
  /\ At(p, "steal_bottom")
  /\ Goto(p, IF NothingAt(idx[p]) THEN "idle" ELSE "steal_buffer")
  /\ UNCHANGED <<top, bottom, buffers, buffer, idx, buf, got, pushed, taken>>

StealBuffer(p) ==
  /\ At(p, "steal_buffer")
  /\ buf' = [buf EXCEPT ![p] = buffer]
  /\ Goto(p, "steal_cas")
  /\ UNCHANGED <<top, bottom, buffers, buffer, idx, got, pushed, taken>>

StealCas(p) ==
  /\ At(p, "steal_cas")
  /\ \/ top = idx[p] /\ top' = top + 1 /\ Goto(p, "read")
     \/ top # idx[p] /\ UNCHANGED top /\ Goto(p, "idle")
  /\ UNCHANGED <<bottom, buffers, buffer, idx, buf, got, pushed, taken>>

-----------------------------------------------------------------------------
(* Buffer::load: the winner moves the Task out of the slot and returns it. *)

ReadSlot(p) ==
  /\ At(p, "read")
  /\ got' = [got EXCEPT ![p] = Load(buf[p], idx[p])]
  /\ Goto(p, "clear")
  /\ UNCHANGED <<top, bottom, buffers, buffer, idx, buf, pushed, taken>>

ClearSlot(p) ==
  /\ At(p, "clear")
  /\ buffers' = Stored(buf[p], idx[p], NoTask)
  /\ taken' = [taken EXCEPT ![got[p]] = @ + 1]
  /\ Goto(p, "idle")
  /\ UNCHANGED <<top, bottom, buffer, idx, buf, got, pushed>>

-----------------------------------------------------------------------------
Push == PushFits \/ PushGrows \/ MigrateCopy \/ MigrateClear \/ PublishBuffer
          \/ PushStore \/ PushPublish
Pop == PopReserve \/ PopLoadTop \/ PopCas \/ PopRestore
Steal(p) == StealTop(p) \/ StealBottom(p) \/ StealBuffer(p) \/ StealCas(p)
Take(p) == ReadSlot(p) \/ ClearSlot(p)

Next ==
  \/ Push \/ Pop \/ Take(Owner)
  \/ \E p \in Thieves : Steal(p) \/ Take(p)

Spec == Init /\ [][Next]_vars

-----------------------------------------------------------------------------
(* Properties.                                                             *)

Labels ==
  {"idle", "store", "migrate", "migrate_clear", "publish",
   "pop_top", "pop_cas", "restore_empty", "restore_won",
   "steal_bottom", "steal_buffer", "steal_cas", "read", "clear"}

BuffersOK ==
  /\ buffers \in Seq(Seq(Task))
  /\ \A k \in DOMAIN buffers : Capacity(k) > 0

TypeOK ==
  /\ top \in Nat /\ bottom \in Nat \cup {-1}
  /\ BuffersOK
  /\ buffer \in DOMAIN buffers
  /\ pc \in [Threads -> Labels]
  /\ idx \in [Threads -> Int]
  /\ buf \in [Threads -> DOMAIN buffers]
  /\ got \in [Threads -> Task]
  /\ pushed \in 0..MaxPush
  /\ taken \in [Task -> Nat]

\* Between its store of bottom_ and its last one, pop() shows the thieves a
\* bottom_ that is one below the end of the deque.
LogicalBottom ==
  IF pc[Owner] \in {"pop_top", "pop_cas", "restore_empty", "restore_won"}
  THEN bottom + 1 ELSE bottom

\* p has won an index (by a CAS, or as the owner above top_) and has not
\* returned its Task yet.
Claimed(p) == pc[p] \in {"restore_won", "read", "clear"}

\* "slot t is exclusively ours now" (line 106) for indices: two operations
\* never win the same index, whatever the owner and the thieves interleave,
\* and an index that was won is no longer in the range others can win.
ClaimsExclusive ==
  \A p \in Threads : Claimed(p) =>
    /\ \A q \in Threads \ {p} : Claimed(q) => idx[p] # idx[q]
    /\ idx[p] < top \/ idx[p] >= LogicalBottom

\* pop() gives up only when every task has been claimed: a worker that finds
\* its own deque empty leaves nothing in it.
EmptyPopHonest == At(Owner, "restore_empty") => top >= LogicalBottom

\* The facts about indices that make ClaimsExclusive inductive: what the owner
\* knows of top_ at each point of pop(), and that a thief whose CAS can still
\* succeed read top_ before pop() reserved that index.
OwnerIndices ==
  /\ top <= LogicalBottom
  /\ pc[Owner] \in {"pop_top", "pop_cas", "restore_empty", "restore_won"} => idx[Owner] = bottom
  /\ At(Owner, "pop_cas") => top >= bottom
  /\ pc[Owner] \in {"restore_empty", "restore_won"} => top = bottom + 1
  /\ pc[Owner] \in {"read", "clear"} =>
       idx[Owner] = bottom \/ (idx[Owner] = bottom - 1 /\ top = bottom)
  /\ pc[Owner] \in {"store", "migrate", "migrate_clear"} => pushed < MaxPush
  /\ pc[Owner] \notin {"steal_bottom", "steal_buffer", "steal_cas"}

ThiefIndices(p) ==
  /\ pc[p] \in {"idle", "steal_bottom", "steal_buffer", "steal_cas", "read", "clear"}
  /\ pc[p] \in {"steal_bottom", "steal_buffer", "steal_cas"} => idx[p] <= top
  /\ pc[p] \in {"steal_buffer", "steal_cas"} /\ idx[p] = top => top < LogicalBottom
  /\ pc[p] \in {"read", "clear"} => idx[p] < top

IInv == TypeOK /\ OwnerIndices /\ (\A p \in Thieves : ThiefIndices(p)) /\ ClaimsExclusive

\* A won slot holds a Task that can be invoked: neither pop() nor steal()
\* returns a moved-from Task ("safe: we won", line 87; "exclusively ours",
\* line 106; "the pointer stays valid", lines 98-99).  grow() breaks it.
NeverEmptyTask == taken[NoTask] = 0

\* No buffer has been outgrown and no slot used twice.
FirstRound == Len(buffers) = 1 /\ pushed <= InitialCapacity

\* NeverEmptyTask as long as each index has a slot of its own.
FirstRoundNeverEmpty == FirstRound => NeverEmptyTask

\* Slots are used again and again.  As long as grow() has not run, push() stores
\* over a task only when a thief has won an index of that slot and not emptied
\* it since (between lines 102 and 107), however many rounds later: a task still
\* in the deque is never overwritten, and neither is one pop() is taking.
OverwriteNeedsStall ==
  At(Owner, "store") /\ Len(buffers) = 1 /\ Load(buffer, bottom) # NoTask =>
    \E p \in Thieves : Claimed(p) /\ Slot(buffer, idx[p]) = Slot(buffer, bottom)

\* While grow() runs, the indices it has moved live in the new buffer.
Home(i) ==
  IF pc[Owner] \in {"migrate", "migrate_clear"} /\ i < idx[Owner]
  THEN Len(buffers) ELSE buffer

Contents == [n \in 1..(LogicalBottom - top) |-> Load(Home(top + n - 1), top + n - 1)]

InHand(p) == IF At(p, "clear") THEN got[p] ELSE Load(buf[p], idx[p])

HandedOut == {x \in Task : taken[x] > 0} \cup {InHand(p) : p \in {q \in Threads : Claimed(q)}}

\* The operations take effect at one instant each: push at its store of
\* bottom_, pop at its load of top_ or its CAS, steal at its CAS.  LIFO at the
\* bottom, FIFO at the top, no task lost, duplicated or invented.  In the first
\* round, again.
D == INSTANCE Deque WITH Tasks <- 1..MaxPush, items <- Contents, removed <- HandedOut
IsDeque == D!Init /\ [][FirstRound' => D!Next]_(D!dequeVars)
=============================================================================

---------------------------- MODULE FencedQueue ----------------------------
(***************************************************************************)
(* The deque of include/work_stealing_queue.hpp (the baseline's copy       *)
(* differs in alignment only) on a machine that delays the owner's stores  *)
(* and lets them overtake each other: what its two kinds of fences are     *)
(* for.                                                                    *)
(*                                                                         *)
(* The owner's stores enter a buffer and reach memory in any order, except *)
(* that stores to one location keep theirs and that a release fence is     *)
(* never overtaken.  A seq_cst fence waits for the buffer to drain.  The   *)
(* owner sees its own stores at once.  The thieves' loads stay in order    *)
(* (acquire loads and a fence between them), compare-exchange acts on      *)
(* memory.  Fewer tasks are pushed than there are slots: no grow(), and an *)
(* index is its slot.                                                      *)
(***************************************************************************)
EXTENDS Integers, Sequences, SequencesExt

CONSTANTS Owner, Thieves,
          MaxPush           \* bound: number of push() calls

ASSUME FencedAssumption == Owner \notin Thieves /\ MaxPush \in Nat

VARIABLES top, bottom, slots,   \* top_, bottom_ and the buffer, in memory
          writes,   \* the owner's stores that have not reached memory, oldest first
          own,      \* bottom_ as the owner stored it last
          pc, idx,  \* each thread's step, and the index a thief works on
          pushed,   \* number of push() calls
          taken     \* history: how often each Task value was returned

memory == <<top, bottom, slots>>
stores == <<writes, own, pushed>>
vars == <<memory, stores, pc, idx, taken>>

NoTask  == 0
Task    == 0..MaxPush
Index   == 0..(MaxPush - 1)
Threads == Thieves \cup {Owner}

At(p, l) == pc[p] = l
Goto(p, l) == pc' = [pc EXCEPT ![p] = l]
Return(x) == taken' = [taken EXCEPT ![x] = @ + 1]

Init ==
  /\ top = 0 /\ bottom = 0 /\ slots = [i \in Index |-> NoTask]
  /\ writes = <<>> /\ own = 0 /\ pushed = 0
  /\ pc = [p \in Threads |-> "idle"] /\ idx = [p \in Thieves |-> 0]
  /\ taken = [x \in Task |-> 0]

-----------------------------------------------------------------------------
(* The owner's store buffer.                                               *)

SlotStore(i, x) == [kind |-> "slot", at |-> i, val |-> x]
BottomStore(b) == [kind |-> "bottom", at |-> 0, val |-> b]
Fence == [kind |-> "fence", at |-> 0, val |-> 0]

ReleaseFence_None == <<>>
ReleaseFence == <<Fence>>

MayCommit(k) ==
  /\ writes[k].kind # "fence"
  /\ \A j \in 1..(k - 1) :
       /\ writes[j].kind # "fence"
       /\ writes[j].kind # writes[k].kind \/ writes[j].at # writes[k].at

PastFence(s) == IF s # <<>> /\ Head(s) = Fence THEN Tail(s) ELSE s

Commit ==
  /\ \E k \in DOMAIN writes :
       /\ MayCommit(k)
       /\ writes' = PastFence(RemoveAt(writes, k))
       /\ LET w == writes[k] IN
            \/ w.kind = "bottom" /\ bottom' = w.val /\ UNCHANGED slots
            \/ w.kind = "slot" /\ slots' = [slots EXCEPT ![w.at] = w.val] /\ UNCHANGED bottom
  /\ UNCHANGED <<top, own, pushed, pc, idx, taken>>

\* What a load of slot i gives the owner.
OwnerSees(i) ==
  LET pending == {k \in DOMAIN writes : writes[k].kind = "slot" /\ writes[k].at = i}
  IN IF pending = {} THEN slots[i] ELSE writes[Max(pending)].val

Drained_Ignored == TRUE
Drained == writes = <<>>

-----------------------------------------------------------------------------
(* push() and pop().                                                       *)

Push ==
  /\ At(Owner, "idle") /\ pushed < MaxPush
  /\ pushed' = pushed + 1
  /\ writes' = writes \o <<SlotStore(own, pushed')>> \o ReleaseFence \o <<BottomStore(own + 1)>>
  /\ own' = own + 1
  /\ UNCHANGED <<memory, pc, idx, taken>>

PopReserve ==
  /\ At(Owner, "idle")
  /\ own' = own - 1
  /\ writes' = Append(writes, BottomStore(own'))
  /\ Goto(Owner, "pop_top")
  /\ UNCHANGED <<memory, pushed, idx, taken>>

Restore_Forgotten == Goto(Owner, "idle") /\ UNCHANGED own
Restore == own' = own + 1 /\ Goto(Owner, "idle")

\* The seq_cst fence, the load of top_, and what it decides.
PopLoadTop ==
  /\ At(Owner, "pop_top") /\ Drained
  /\ \/ /\ top > own
        /\ Restore /\ writes' = Append(writes, BottomStore(own + 1)) /\ UNCHANGED taken
     \/ /\ top < own
        /\ Return(OwnerSees(own)) /\ writes' = Append(writes, SlotStore(own, NoTask))
        /\ Goto(Owner, "idle") /\ UNCHANGED own
     \/ top = own /\ Goto(Owner, "pop_cas") /\ UNCHANGED <<writes, own, taken>>
  /\ UNCHANGED <<memory, pushed, idx>>

WinsLast_NoCas == TRUE
WinsLast == top = own

PopCas ==
  /\ At(Owner, "pop_cas")
  /\ \/ /\ WinsLast /\ top' = own + 1
        /\ Return(OwnerSees(own))
        /\ writes' = writes \o <<BottomStore(own + 1), SlotStore(own, NoTask)>>
     \/ /\ ~WinsLast /\ UNCHANGED <<top, taken>>
        /\ writes' = Append(writes, BottomStore(own + 1))
  /\ Restore
  /\ UNCHANGED <<bottom, slots, pushed, idx>>

-----------------------------------------------------------------------------
(* steal().                                                                *)

StealTop(p) ==
  /\ At(p, "idle")
  /\ idx' = [idx EXCEPT ![p] = top]
  /\ Goto(p, "steal_bottom")
  /\ UNCHANGED <<memory, stores, taken>>

StealBottom(p) ==
  /\ At(p, "steal_bottom")
  /\ Goto(p, IF idx[p] >= bottom THEN "idle" ELSE "steal_cas")
  /\ UNCHANGED <<memory, stores, idx, taken>>

StealCas(p) ==
  /\ At(p, "steal_cas")
  /\ \/ top = idx[p] /\ top' = top + 1 /\ Goto(p, "read")
     \/ top # idx[p] /\ UNCHANGED top /\ Goto(p, "idle")
  /\ UNCHANGED <<bottom, slots, stores, idx, taken>>

StealRead(p) ==
  /\ At(p, "read")
  /\ Return(slots[idx[p]])
  /\ slots' = [slots EXCEPT ![idx[p]] = NoTask]
  /\ Goto(p, "idle")
  /\ UNCHANGED <<top, bottom, stores, idx>>

-----------------------------------------------------------------------------
Pop == PopReserve \/ PopLoadTop \/ PopCas
Steal(p) == StealTop(p) \/ StealBottom(p) \/ StealCas(p) \/ StealRead(p)

Next == Commit \/ Push \/ Pop \/ \E p \in Thieves : Steal(p)

Spec == Init /\ [][Next]_vars

-----------------------------------------------------------------------------
(* Properties.                                                             *)

TypeOK ==
  /\ top \in Nat /\ bottom \in Nat \cup {-1} /\ own \in Nat \cup {-1}
  /\ slots \in [Index -> Task] /\ pushed \in 0..MaxPush /\ taken \in [Task -> Nat]
  /\ writes \in Seq([kind : {"slot", "bottom", "fence"}, at : Nat, val : Int])
  /\ pc \in [Threads -> {"idle", "pop_top", "pop_cas", "steal_bottom", "steal_cas", "read"}]
  /\ idx \in [Thieves -> Nat]

\* The release fence of push(): when a thief can see that an index is in the
\* deque, its task has reached memory.
PublishedTasksVisible == \A i \in top..(bottom - 1) : slots[i] # NoTask

\* The seq_cst fence of pop(): the owner and the thieves never both take a
\* task, and none takes an empty one, although neither sees at once what the
\* other has stored.
TakenOnce == taken[NoTask] = 0 /\ \A x \in Task : taken[x] <= 1

\* The operations are those of Deque here too.  The owner's stores take effect
\* when it makes them, whenever the thieves get to see them.
LogicalBottom == IF At(Owner, "idle") THEN own ELSE own + 1
Contents == [n \in 1..(LogicalBottom - top) |-> OwnerSees(top + n - 1)]
HandedOut == {x \in Task : taken[x] > 0} \cup {OwnerSees(idx[p]) : p \in {q \in Thieves : At(q, "read")}}
D == INSTANCE Deque WITH Tasks <- 1..MaxPush, items <- Contents, removed <- HandedOut
IsDeque == D!Spec
=============================================================================

------------------------------- MODULE Deque -------------------------------
(***************************************************************************)
(* What WorkStealingQueue promises its users: a double-ended queue whose   *)
(* three operations take effect at one instant each.  The owner pushes and *)
(* pops at the bottom (LIFO), thieves take from the top (FIFO), and a task *)
(* that has been removed is never handed out again.  An operation that     *)
(* returns nothing is a stuttering step of this specification.             *)
(***************************************************************************)
EXTENDS Naturals, Sequences

CONSTANT Tasks       \* the tasks that may be pushed, each at most once

VARIABLES items,     \* tasks in the deque, from the top to the bottom
          removed    \* tasks handed out so far

dequeVars == <<items, removed>>

Known == removed \cup {items[i] : i \in DOMAIN items}

Init == items = <<>> /\ removed = {}

\* push(): a task that was never in the deque goes to the bottom.
PushBottom ==
  /\ \E x \in Tasks \ Known : items' = Append(items, x)
  /\ UNCHANGED removed

\* pop(): the most recently pushed task leaves the deque.
PopBottom ==
  /\ items # <<>>
  /\ items' = SubSeq(items, 1, Len(items) - 1)
  /\ removed' = removed \cup {items[Len(items)]}

\* steal(): the oldest task leaves the deque.
StealTop ==
  /\ items # <<>>
  /\ items' = Tail(items)
  /\ removed' = removed \cup {Head(items)}

Next == PushBottom \/ PopBottom \/ StealTop

Spec == Init /\ [][Next]_dequeVars
=============================================================================

----------------------- MODULE WorkStealingQueueProofs -----------------------
(***************************************************************************)
(* Proofs about WorkStealingQueue for any set of thieves, any capacity and *)
(* any number of pushes, growth and wrap-around included.                  *)
(***************************************************************************)
EXTENDS WorkStealingQueue, SequenceTheorems, TLAPS

\* Buffer indexing stays inside the vector: idx & mask_ is a slot of it.
LEMMA SlotInRange ==
  ASSUME BuffersOK, NEW k \in DOMAIN buffers, NEW i \in Int
  PROVE  Slot(k, i) \in 1..Len(buffers[k])
<1>1. Capacity(k) \in Nat \ {0}
  BY DEF BuffersOK, Capacity
<1>2. i % Capacity(k) \in 0..(Capacity(k) - 1)
  BY <1>1
<1>. QED
  BY <1>1, <1>2 DEF Slot, Capacity

\* Reading a slot yields a Task, possibly the empty one.
LEMMA LoadType ==
  ASSUME BuffersOK, NEW k \in DOMAIN buffers, NEW i \in Int
  PROVE  Load(k, i) \in Task
<1>1. buffers[k] \in Seq(Task)
  BY DEF BuffersOK
<1>. QED
  BY <1>1, SlotInRange, ElementOfSeq DEF Load

\* Writing a slot keeps the number of buffers and their types.
LEMMA StoredType ==
  ASSUME BuffersOK, NEW k \in DOMAIN buffers, NEW i \in Int, NEW x \in Task,
         buffers' = Stored(k, i, x)
  PROVE  BuffersOK' /\ DOMAIN buffers' = DOMAIN buffers
<1>. DEFINE nb == [buffers[k] EXCEPT ![Slot(k, i)] = x]
<1>1. buffers \in Seq(Seq(Task)) /\ buffers[k] \in Seq(Task) /\ k \in 1..Len(buffers)
  BY DEF BuffersOK
<1>2. nb \in Seq(Task) /\ Len(nb) = Len(buffers[k])
  BY <1>1, SlotInRange, ExceptSeq
<1>3. buffers' = [buffers EXCEPT ![k] = nb]
  BY DEF Stored
<1>4. \A j \in DOMAIN buffers : Len(buffers[j]) > 0
  BY DEF BuffersOK, Capacity
<1>. HIDE DEF nb
<1>5. /\ buffers' \in Seq(Seq(Task))
      /\ Len(buffers') = Len(buffers)
      /\ \A j \in 1..Len(buffers) : buffers'[j] = IF j = k THEN nb ELSE buffers[j]
  BY <1>1, <1>2, <1>3, ExceptSeq
<1>6. DOMAIN buffers' = DOMAIN buffers /\ DOMAIN buffers = 1..Len(buffers)
  BY <1>1, <1>5
<1>7. \A j \in DOMAIN buffers' : Len(buffers'[j]) > 0
  BY <1>2, <1>4, <1>5, <1>6
<1>. QED
  BY <1>5, <1>6, <1>7 DEF BuffersOK, Capacity

\* Allocating the doubled buffer appends one more non-empty buffer.
LEMMA GrownType ==
  ASSUME BuffersOK, buffer \in DOMAIN buffers,
         buffers' = Append(buffers, Empty(2 * Capacity(buffer)))
  PROVE  BuffersOK' /\ DOMAIN buffers \subseteq DOMAIN buffers'
<1>. DEFINE cap == 2 * Capacity(buffer)
<1>1. cap \in Nat /\ cap > 0
  BY DEF BuffersOK, Capacity
<1>2. NoTask \in Task
  BY QueueAssumption DEF NoTask, Task
<1>. HIDE DEF cap
<1>3. Empty(cap) \in Seq(Task) /\ Len(Empty(cap)) = cap
  BY <1>1, <1>2 DEF Empty
<1>4. buffers \in Seq(Seq(Task)) /\ \A j \in DOMAIN buffers : Len(buffers[j]) > 0
  BY DEF BuffersOK, Capacity
<1>5. buffers' = Append(buffers, Empty(cap))
  BY DEF cap
<1>6. /\ buffers' \in Seq(Seq(Task))
      /\ Len(buffers') = Len(buffers) + 1
      /\ \A j \in 1..Len(buffers) : buffers'[j] = buffers[j]
      /\ buffers'[Len(buffers) + 1] = Empty(cap)
  BY <1>3, <1>4, <1>5, AppendProperties
<1>7. DOMAIN buffers = 1..Len(buffers) /\ DOMAIN buffers' = 1..(Len(buffers) + 1)
  BY <1>4, <1>6
<1>8. \A j \in DOMAIN buffers' : Len(buffers'[j]) > 0
  <2>. TAKE j \in DOMAIN buffers'
  <2>1. CASE j \in 1..Len(buffers)
    BY <1>4, <1>6, <1>7, <2>1
  <2>2. CASE j = Len(buffers) + 1
    BY <1>1, <1>3, <1>6, <2>2
  <2>. QED
    BY <1>4, <1>7, <2>1, <2>2
<1>9. DOMAIN buffers \subseteq DOMAIN buffers'
  BY <1>4, <1>7
<1>. QED
  BY <1>6, <1>7, <1>8, <1>9 DEF BuffersOK, Capacity

-----------------------------------------------------------------------------
LEMMA InitIInv == Init => IInv
<1>. SUFFICES ASSUME Init PROVE IInv
  OBVIOUS
<1>1. NoTask \in Task
  BY QueueAssumption DEF NoTask, Task
<1>2. /\ Empty(InitialCapacity) \in Seq(Task)
      /\ Len(Empty(InitialCapacity)) = InitialCapacity
  BY <1>1, QueueAssumption DEF Empty
<1>3. BuffersOK /\ 1 \in DOMAIN buffers
  <2>1. /\ buffers = <<Empty(InitialCapacity)>>
        /\ DOMAIN buffers = {1} /\ buffers[1] = Empty(InitialCapacity)
    BY DEF Init
  <2>. QED
    BY <1>2, <2>1, QueueAssumption DEF BuffersOK, Capacity
<1>4. TypeOK
  BY <1>1, <1>3, QueueAssumption DEF Init, TypeOK, Threads, Labels
<1>. QED
  BY <1>4 DEF Init, IInv, OwnerIndices, ThiefIndices, ClaimsExclusive, Claimed, At,
              LogicalBottom, Threads

LEMMA TypeStep == IInv /\ [Next]_vars => TypeOK'
<1>. SUFFICES ASSUME IInv, [Next]_vars PROVE TypeOK'
  OBVIOUS
<1>. USE QueueAssumption DEF At, Goto, Threads, Labels
<1>0. TypeOK /\ OwnerIndices
  BY DEF IInv
<1>1. buffer \in DOMAIN buffers /\ Len(buffers) \in DOMAIN buffers
  BY <1>0 DEF TypeOK, BuffersOK
<1>a. \A p \in Threads : buf[p] \in DOMAIN buffers /\ idx[p] \in Int
  BY <1>0 DEF TypeOK
<1>b. NoTask \in Task /\ \A k \in DOMAIN buffers, i \in Int : Load(k, i) \in Task
  BY <1>0, LoadType DEF TypeOK, NoTask, Task
<1>c. UNCHANGED buffers => UNCHANGED <<BuffersOK, DOMAIN buffers>>
  BY DEF BuffersOK, Capacity
<1>2. CASE PushFits
  BY <1>0, <1>c, <1>2 DEF PushFits, TypeOK
<1>3. CASE PushGrows
  BY <1>0, <1>3, GrownType DEF PushGrows, TypeOK
<1>4. CASE MigrateCopy
  <2>1. BuffersOK' /\ DOMAIN buffers' = DOMAIN buffers
    BY <1>0, <1>1, <1>a, <1>b, <1>4, StoredType DEF MigrateCopy, TypeOK
  <2>. QED
    BY <1>0, <1>4, <2>1 DEF MigrateCopy, TypeOK
<1>5. CASE MigrateClear
  <2>1. BuffersOK' /\ DOMAIN buffers' = DOMAIN buffers
    BY <1>0, <1>1, <1>a, <1>b, <1>5, StoredType DEF MigrateClear, TypeOK
  <2>. QED
    BY <1>0, <1>5, <2>1 DEF MigrateClear, TypeOK
<1>6. CASE PublishBuffer
  BY <1>0, <1>1, <1>c, <1>6 DEF PublishBuffer, TypeOK
<1>7. CASE PushStore
  <2>1. BuffersOK /\ bottom \in Int /\ pushed' \in Task /\ pushed' \in 0..MaxPush
    BY <1>0, <1>7 DEF PushStore, OwnerIndices, TypeOK, Task
  <2>2. BuffersOK' /\ DOMAIN buffers' = DOMAIN buffers
    BY <1>1, <1>7, <2>1, StoredType DEF PushStore
  <2>. QED
    BY <1>0, <1>7, <2>1, <2>2 DEF PushStore, TypeOK
<1>8. CASE PushPublish
  BY <1>0, <1>c, <1>8 DEF PushPublish, TypeOK
<1>9. CASE Pop
  <2>1. CASE PopReserve
    BY <1>0, <1>c, <2>1 DEF PopReserve, OwnerIndices, LogicalBottom, TypeOK
  <2>2. CASE PopLoadTop
    BY <1>0, <1>c, <2>2 DEF PopLoadTop, AfterTop, TypeOK
  <2>3. CASE PopCas
    BY <1>0, <1>c, <2>3 DEF PopCas, TypeOK
  <2>4. CASE PopRestore
    BY <1>0, <1>c, <2>4 DEF PopRestore, OwnerIndices, TypeOK
  <2>. QED
    BY <1>9, <2>1, <2>2, <2>3, <2>4 DEF Pop
<1>10. ASSUME NEW p \in Thieves, Steal(p) PROVE TypeOK'
  <2>1. CASE StealTop(p)
    BY <1>0, <1>c, <2>1 DEF StealTop, TypeOK
  <2>2. CASE StealBottom(p)
    BY <1>0, <1>c, <2>2 DEF StealBottom, TypeOK
  <2>3. CASE StealBuffer(p)
    BY <1>0, <1>c, <2>3 DEF StealBuffer, TypeOK
  <2>4. CASE StealCas(p)
    BY <1>0, <1>c, <2>4 DEF StealCas, TypeOK
  <2>. QED
    BY <1>10, <2>1, <2>2, <2>3, <2>4 DEF Steal
<1>11. ASSUME NEW p \in Threads, ReadSlot(p) PROVE TypeOK'
  BY <1>0, <1>a, <1>b, <1>c, <1>11 DEF ReadSlot, TypeOK
<1>12. ASSUME NEW p \in Threads, ClearSlot(p) PROVE TypeOK'
  <2>1. BuffersOK' /\ DOMAIN buffers' = DOMAIN buffers
    BY <1>0, <1>a, <1>b, <1>12, StoredType DEF ClearSlot, TypeOK
  <2>. QED
    BY <1>0, <1>12, <2>1 DEF ClearSlot, TypeOK
<1>13. CASE UNCHANGED vars
  BY <1>0, <1>c, <1>13 DEF vars, TypeOK
<1>. QED
  BY <1>2, <1>3, <1>4, <1>5, <1>6, <1>7, <1>8, <1>9, <1>10, <1>11, <1>12, <1>13
     DEF Next, Push, Take

-----------------------------------------------------------------------------
(* The indices: no step lets two operations win the same one.              *)

Indices == OwnerIndices /\ (\A p \in Thieves : ThiefIndices(p)) /\ ClaimsExclusive

LEMMA IndexStep == IInv /\ [Next]_vars => Indices'
<1>. SUFFICES ASSUME IInv, [Next]_vars PROVE Indices'
  OBVIOUS
<1>. USE QueueAssumption DEF At, Goto, Threads, Labels, Claimed, LogicalBottom,
       Indices, OwnerIndices, ThiefIndices, ClaimsExclusive
<1>0. /\ Indices
      /\ top \in Nat /\ bottom \in Int /\ pushed \in Int
      /\ pc \in [Threads -> Labels] /\ idx \in [Threads -> Int]
  BY DEF IInv, TypeOK
<1>2. CASE PushFits \/ PushGrows \/ MigrateCopy \/ MigrateClear \/ PublishBuffer
  BY <1>0, <1>2 DEF PushFits, PushGrows, MigrateCopy, MigrateClear, PublishBuffer
<1>3. CASE PushStore \/ PushPublish
  BY <1>0, <1>3 DEF PushStore, PushPublish
<1>4. CASE PopReserve
  BY <1>0, <1>4 DEF PopReserve
<1>5. CASE PopLoadTop
  BY <1>0, <1>5 DEF PopLoadTop, AfterTop
<1>6. CASE PopCas
  BY <1>0, <1>6 DEF PopCas
<1>7. CASE PopRestore
  BY <1>0, <1>7 DEF PopRestore
<1>8. ASSUME NEW p \in Thieves, StealTop(p) \/ StealBottom(p) \/ StealBuffer(p) PROVE Indices'
  BY <1>0, <1>8 DEF StealTop, StealBottom, NothingAt, StealBuffer
<1>9. ASSUME NEW p \in Thieves, StealCas(p) PROVE Indices'
  BY <1>0, <1>9 DEF StealCas
<1>10. ASSUME NEW p \in Threads, ReadSlot(p) \/ ClearSlot(p) PROVE Indices'
  BY <1>0, <1>10 DEF ReadSlot, ClearSlot
<1>11. CASE UNCHANGED vars
  BY <1>0, <1>11 DEF vars
<1>. QED
  BY <1>2, <1>3, <1>4, <1>5, <1>6, <1>7, <1>8, <1>9, <1>10, <1>11
     DEF Next, Push, Pop, Steal, Take

-----------------------------------------------------------------------------
\* The inductive invariant holds of every execution.
THEOREM Invariance == Spec => []IInv
<1>1. IInv /\ [Next]_vars => IInv'
  BY TypeStep, IndexStep DEF IInv, Indices
<1>. QED
  BY InitIInv, <1>1, PTL DEF Spec

\* Every access stays inside a buffer, a slot always holds a Task, and
\* bottom_ is never more than one below zero.
THEOREM TypeCorrect == Spec => []TypeOK
<1>1. IInv => TypeOK
  BY DEF IInv
<1>. QED
  BY Invariance, <1>1, PTL

\* Chase-Lev's central claim: for any number of thieves, with growth and
\* wrap-around, two operations never win the same index.
THEOREM ExclusiveClaims == Spec => []ClaimsExclusive
<1>1. IInv => ClaimsExclusive
  BY DEF IInv
<1>. QED
  BY Invariance, <1>1, PTL

\* pop() returns nothing only when every task has been claimed.
THEOREM HonestEmptyPop == Spec => []EmptyPopHonest
<1>1. IInv => EmptyPopHonest
  BY DEF IInv, TypeOK, OwnerIndices, EmptyPopHonest, At, LogicalBottom
<1>. QED
  BY Invariance, <1>1, PTL
=============================================================================

--------------------- MODULE WorkStealingQueueRefinement ---------------------
(***************************************************************************)
(* Proofs about the slots of WorkStealingQueue, for any set of thieves,    *)
(* any capacity and any number of pushes: what holds until a buffer is     *)
(* outgrown or a slot used twice, and at the end what holds when slots are *)
(* used again as long as the first buffer lasts.                           *)
(***************************************************************************)
EXTENDS WorkStealingQueueProofs

-----------------------------------------------------------------------------
(* The inductive invariant.                                                *)

\* Nobody works on an index nothing was stored at, and a grown buffer is another
\* one than the first.
Bounds ==
  /\ LogicalBottom <= pushed
  /\ At(Owner, "publish") => bottom < pushed
  /\ \A p \in Threads : Claimed(p) => idx[p] \in 0..(pushed - 1)
  /\ \A p \in Thieves : idx[p] \in Nat
  /\ Len(buffers[1]) = InitialCapacity
  /\ pc[Owner] \in {"migrate", "migrate_clear"} => Len(buffers) > 1

\* The tasks that push() has published by its store of bottom_ are 1..Published.
Published == IF At(Owner, "publish") THEN pushed - 1 ELSE pushed

\* What is in the deque or was handed out are published tasks, and the slot that
\* push() is about to publish holds the next one.
Filled ==
  /\ \A n \in DOMAIN Contents : Contents[n] \in 1..Published
  /\ HandedOut \subseteq 1..Published
  /\ At(Owner, "publish") => Load(1, bottom) = pushed

RInv == IInv /\ Bounds /\ (FirstRound => Filled)

-----------------------------------------------------------------------------
(* Slots of the first buffer.                                              *)

LEMMA SmallModulo == ASSUME NEW c \in Nat \ {0}, NEW i \in 0..(c - 1) PROVE i % c = i
OBVIOUS

\* Writing a slot changes the length of no buffer.
LEMMA StoredLen ==
  ASSUME BuffersOK, NEW k \in DOMAIN buffers, NEW i \in Int, NEW x \in Task,
         buffers' = Stored(k, i, x)
  PROVE  Len(buffers') = Len(buffers) /\ \A j \in DOMAIN buffers : Len(buffers'[j]) = Len(buffers[j])
<1>. DEFINE nb == [buffers[k] EXCEPT ![Slot(k, i)] = x]
<1>1. buffers \in Seq(Seq(Task)) /\ buffers[k] \in Seq(Task) /\ DOMAIN buffers = 1..Len(buffers)
  BY DEF BuffersOK
<1>2. Len(nb) = Len(buffers[k]) /\ nb \in Seq(Task)
  BY <1>1, SlotInRange, ExceptSeq
<1>3. buffers' = [buffers EXCEPT ![k] = nb]
  BY DEF Stored
<1>. HIDE DEF nb
<1>. QED
  BY <1>1, <1>2, <1>3, ExceptSeq

LEMMA FirstBuffer ==
  ASSUME IInv, Len(buffers) = 1
  PROVE  /\ DOMAIN buffers = {1} /\ buffer = 1 /\ \A p \in Threads : buf[p] = 1
         /\ BuffersOK /\ buffers[1] \in Seq(Task) /\ buffers \in Seq(Seq(Task))
<1>1. TypeOK
  BY DEF IInv
<1>2. buffers \in Seq(Seq(Task)) /\ DOMAIN buffers = 1..Len(buffers)
  BY <1>1 DEF TypeOK, BuffersOK
<1>3. DOMAIN buffers = {1}
  BY <1>2
<1>4. \A p \in Threads : buf[p] \in DOMAIN buffers
  BY <1>1 DEF TypeOK
<1>5. BuffersOK /\ buffer \in DOMAIN buffers
  BY <1>1 DEF TypeOK
<1>6. buffers[1] \in Seq(Task)
  BY <1>2
<1>. QED
  BY <1>2, <1>3, <1>4, <1>5, <1>6

LEMMA SlotIs ==
  ASSUME IInv, Bounds, NEW i \in 0..(InitialCapacity - 1)
  PROVE  Slot(1, i) = i + 1 /\ Load(1, i) = buffers[1][i + 1]
BY SmallModulo, QueueAssumption DEF Bounds, Slot, Capacity, Load

\* Writing the slot of one index leaves the others' alone.
LEMMA StoredLoad ==
  ASSUME IInv, Bounds, Len(buffers) = 1, NEW i \in 0..(InitialCapacity - 1), NEW x \in Task,
         buffers' = Stored(1, i, x)
  PROVE  \A j \in 0..(InitialCapacity - 1) : Load(1, j)' = IF j = i THEN x ELSE Load(1, j)
<1>. SUFFICES ASSUME NEW j \in 0..(InitialCapacity - 1)
              PROVE  Load(1, j)' = IF j = i THEN x ELSE Load(1, j)
  OBVIOUS
<1>1. /\ DOMAIN buffers = {1} /\ BuffersOK /\ buffers[1] \in Seq(Task)
      /\ Len(buffers[1]) = InitialCapacity
  BY FirstBuffer DEF Bounds
<1>2. Slot(1, i) = i + 1 /\ Slot(1, j) = j + 1 /\ Load(1, j) = buffers[1][j + 1]
  BY SlotIs
<1>3. Len(buffers'[1]) = InitialCapacity
  BY <1>1, StoredLen
<1>4. Slot(1, j)' = j + 1
  BY <1>3, SmallModulo, QueueAssumption DEF Slot, Capacity
<1>5. buffers'[1] = [buffers[1] EXCEPT ![i + 1] = x]
  BY <1>1, <1>2 DEF Stored
<1>6. j + 1 \in DOMAIN buffers[1]
  BY <1>1
<1>. QED
  BY <1>2, <1>4, <1>5, <1>6 DEF Load

LEMMA EmptyType == \A cap \in Nat : Empty(cap) \in Seq(Task)
<1>1. NoTask \in Task
  BY QueueAssumption DEF NoTask, Task
<1>. QED
  BY <1>1 DEF Empty

-----------------------------------------------------------------------------
LEMMA BoundsStep == IInv /\ Bounds /\ [Next]_vars => Bounds'
<1>. SUFFICES ASSUME IInv, Bounds, [Next]_vars PROVE Bounds'
  OBVIOUS
<1>. DEFINE Numbers == /\ LogicalBottom <= pushed
                       /\ At(Owner, "publish") => bottom < pushed
                       /\ \A p \in Threads : Claimed(p) => idx[p] \in 0..(pushed - 1)
                       /\ \A p \in Thieves : idx[p] \in Nat
            Shape == /\ Len(buffers[1]) = InitialCapacity
                     /\ pc[Owner] \in {"migrate", "migrate_clear"} => Len(buffers) > 1
<1>1. Numbers'
  <2>. USE QueueAssumption DEF At, Goto, Threads, Labels, Claimed, LogicalBottom,
         OwnerIndices, ThiefIndices
  <2>0. /\ OwnerIndices /\ \A p \in Thieves : ThiefIndices(p)
        /\ top \in Nat /\ bottom \in Int /\ pushed \in Nat
        /\ pc \in [Threads -> Labels] /\ idx \in [Threads -> Int]
    BY DEF IInv, TypeOK
  <2>1. Numbers
    BY DEF Bounds
  <2>2. CASE PushFits \/ PushGrows \/ MigrateCopy \/ MigrateClear \/ PublishBuffer
    BY <2>0, <2>1, <2>2 DEF PushFits, PushGrows, MigrateCopy, MigrateClear, PublishBuffer
  <2>3. CASE PushStore \/ PushPublish
    BY <2>0, <2>1, <2>3 DEF PushStore, PushPublish
  <2>4. CASE PopReserve
    BY <2>0, <2>1, <2>4 DEF PopReserve
  <2>5. CASE PopLoadTop
    BY <2>0, <2>1, <2>5 DEF PopLoadTop, AfterTop
  <2>6. CASE PopCas
    BY <2>0, <2>1, <2>6 DEF PopCas
  <2>7. CASE PopRestore
    BY <2>0, <2>1, <2>7 DEF PopRestore
  <2>8. ASSUME NEW p \in Thieves, StealTop(p) \/ StealBottom(p) \/ StealBuffer(p) PROVE Numbers'
    BY <2>0, <2>1, <2>8 DEF StealTop, StealBottom, NothingAt, StealBuffer
  <2>9. ASSUME NEW p \in Thieves, StealCas(p) PROVE Numbers'
    BY <2>0, <2>1, <2>9 DEF StealCas
  <2>10. ASSUME NEW p \in Threads, ReadSlot(p) \/ ClearSlot(p) PROVE Numbers'
    BY <2>0, <2>1, <2>10 DEF ReadSlot, ClearSlot
  <2>11. CASE UNCHANGED vars
    BY <2>1, <2>11 DEF vars
  <2>. QED
    BY <2>2, <2>3, <2>4, <2>5, <2>6, <2>7, <2>8, <2>9, <2>10, <2>11
       DEF Next, Push, Pop, Steal, Take
<1>2. Shape'
  <2>0. Shape /\ TypeOK /\ TypeOK'
    BY TypeStep DEF Bounds, IInv
  <2>1. /\ BuffersOK /\ buffer \in DOMAIN buffers /\ Len(buffers) \in DOMAIN buffers
        /\ 1 \in DOMAIN buffers /\ DOMAIN buffers = 1..Len(buffers)
        /\ \A p \in Threads : buf[p] \in DOMAIN buffers /\ idx[p] \in Int /\ got[p] \in Task
        /\ Owner \in Threads /\ pc \in [Threads -> Labels] /\ NoTask \in Task
        /\ \A p \in Thieves : p \in Threads /\ p # Owner
    <3>1. /\ BuffersOK /\ buffer \in DOMAIN buffers
          /\ buffers \in Seq(Seq(Task)) /\ DOMAIN buffers = 1..Len(buffers) /\ Len(buffers) \in Nat
      BY <2>0 DEF TypeOK, BuffersOK
    <3>2. Len(buffers) \in DOMAIN buffers /\ 1 \in DOMAIN buffers
      BY <3>1
    <3>3. /\ \A p \in Threads : buf[p] \in DOMAIN buffers /\ idx[p] \in Int /\ got[p] \in Task
          /\ pc \in [Threads -> Labels]
      BY <2>0 DEF TypeOK
    <3>. QED
      BY <3>1, <3>2, <3>3, QueueAssumption DEF Threads, NoTask, Task
  <2>2. \A k \in DOMAIN buffers, i \in Int : Load(k, i) \in Task
    BY <2>1, LoadType
  <2>3. ASSUME NEW k \in DOMAIN buffers, NEW i \in Int, NEW x \in Task,
               buffers' = Stored(k, i, x)
        PROVE  Len(buffers'[1]) = Len(buffers[1]) /\ Len(buffers') = Len(buffers)
    BY <2>1, <2>3, StoredLen
  <2>4. CASE PushGrows
    <3>1. Empty(2 * Capacity(buffer)) \in Seq(Task)
      <4>1. 2 * Capacity(buffer) \in Nat
        BY <2>1 DEF BuffersOK, Capacity
      <4>. QED
        BY <4>1, EmptyType
    <3>2. Len(buffers') = Len(buffers) + 1 /\ buffers'[1] = buffers[1]
      BY <2>1, <2>4, <3>1, AppendProperties DEF PushGrows, BuffersOK
    <3>. QED
      BY <2>0, <2>1, <3>2
  <2>5. CASE MigrateCopy
    BY <2>0, <2>1, <2>2, <2>3, <2>5 DEF MigrateCopy, Goto, At
  <2>6. CASE MigrateClear
    BY <2>0, <2>1, <2>3, <2>6 DEF MigrateClear, Goto, At
  <2>7. CASE PushStore
    <3>1. pushed' \in Task /\ bottom \in Int
      BY <2>0, <2>7 DEF TypeOK, PushStore, Task
    <3>2. pc'[Owner] = "publish"
      BY <2>1, <2>7 DEF PushStore, Goto
    <3>. QED
      BY <2>0, <2>1, <2>3, <2>7, <3>1, <3>2 DEF PushStore
  <2>8. ASSUME NEW p \in Threads, ClearSlot(p) PROVE Shape'
    BY <2>0, <2>1, <2>3, <2>8 DEF ClearSlot, Goto
  <2>9. CASE PushFits \/ PublishBuffer \/ PushPublish \/ Pop
    BY <2>0, <2>1, <2>9 DEF PushFits, PublishBuffer, PushPublish, Pop, PopReserve, PopLoadTop,
         AfterTop, PopCas, PopRestore, Goto
  <2>10. ASSUME NEW p \in Thieves, Steal(p) PROVE Shape'
    BY <2>0, <2>1, <2>10 DEF Steal, StealTop, StealBottom, StealBuffer, StealCas, Goto
  <2>11. ASSUME NEW p \in Threads, ReadSlot(p) PROVE Shape'
    BY <2>0, <2>1, <2>11 DEF ReadSlot, Goto
  <2>12. CASE UNCHANGED vars
    BY <2>0, <2>12 DEF vars
  <2>. QED
    BY <2>1, <2>4, <2>5, <2>6, <2>7, <2>8, <2>9, <2>10, <2>11, <2>12 DEF Next, Push, Take
<1>. QED
  BY <1>1, <1>2 DEF Bounds

-----------------------------------------------------------------------------
(* What the abstract deque holds, seen from the first buffer.              *)

\* push() that grows adds a buffer, and no other step adds one or takes one away.
LEMMA GrowsOn ==
  ASSUME IInv, PushGrows
  PROVE  Len(buffers') = Len(buffers) + 1
<1>1. /\ BuffersOK /\ buffers \in Seq(Seq(Task)) /\ buffer \in DOMAIN buffers
      /\ Len(buffers) \in Nat
  BY DEF IInv, TypeOK, BuffersOK
<1>2. 2 * Capacity(buffer) \in Nat
  BY <1>1 DEF BuffersOK, Capacity
<1>3. Empty(2 * Capacity(buffer)) \in Seq(Task)
  BY <1>2, EmptyType
<1>. QED
  BY <1>1, <1>3, AppendProperties DEF PushGrows

LEMMA OneStays == IInv /\ Bounds /\ [Next]_vars /\ Len(buffers') = 1 => Len(buffers) = 1
<1>. SUFFICES ASSUME IInv, Bounds, [Next]_vars, Len(buffers') = 1 PROVE Len(buffers) = 1
  OBVIOUS
<1>0. TypeOK /\ BuffersOK /\ buffers \in Seq(Seq(Task)) /\ Len(buffers) >= 1 /\ Len(buffers) \in Nat
  <2>1. TypeOK /\ buffers \in Seq(Seq(Task)) /\ buffer \in DOMAIN buffers
    BY DEF IInv, TypeOK, BuffersOK
  <2>2. DOMAIN buffers = 1..Len(buffers) /\ Len(buffers) \in Nat
    BY <2>1
  <2>. QED
    BY <2>1, <2>2 DEF TypeOK
<1>1. CASE PushGrows
  <2>1. PICK n \in Nat : n >= 1 /\ Len(buffers') = n + 1
    BY <1>0, <1>1, GrowsOn
  <2>. QED
    BY <2>1
<1>2. CASE ~PushGrows
  <2>1. \/ buffers' = buffers
        \/ \E k \in 1..Len(buffers) : \E i, x : buffers' = Stored(k, i, x)
    <3>1. \A p \in Threads : buf[p] \in 1..Len(buffers)
      BY <1>0 DEF TypeOK
    <3>2. buffer \in 1..Len(buffers) /\ Len(buffers) \in 1..Len(buffers) /\ Owner \in Threads
          /\ Thieves \subseteq Threads
      BY <1>0 DEF TypeOK, Threads
    <3>. QED
      BY <1>2, <3>1, <3>2 DEF Next, Push, Pop, Take, Steal, PushFits, MigrateCopy,
         MigrateClear, PublishBuffer, PushStore, PushPublish, PopReserve, PopLoadTop, PopCas,
         PopRestore, StealTop, StealBottom, StealBuffer, StealCas, ReadSlot, ClearSlot, vars
  <2>2. Len(buffers') = Len(buffers)
    BY <1>0, <2>1 DEF Stored
  <2>. QED
    BY <2>2
<1>. QED
  BY <1>1, <1>2

\* A first round comes only after a first round.
LEMMA RoundsEnd == IInv /\ Bounds /\ [Next]_vars /\ FirstRound' => FirstRound
<1>. SUFFICES ASSUME IInv, Bounds, [Next]_vars, FirstRound' PROVE FirstRound
  OBVIOUS
<1>1. Len(buffers) = 1
  BY OneStays DEF FirstRound
<1>2. pushed <= pushed' /\ pushed \in Nat
  BY DEF Next, Push, Pop, Take, Steal, PushFits, PushGrows, MigrateCopy,
     MigrateClear, PublishBuffer, PushStore, PushPublish, PopReserve, PopLoadTop, PopCas,
     PopRestore, StealTop, StealBottom, StealBuffer, StealCas, ReadSlot, ClearSlot, vars, IInv, TypeOK
<1>3. pushed' \in Nat
  BY TypeStep DEF TypeOK
<1>. QED
  BY <1>1, <1>2, <1>3, QueueAssumption DEF FirstRound

\* Contents and InHand as the first buffer has them.
Held(p) == IF At(p, "clear") THEN got[p] ELSE Load(1, idx[p])
View ==
  /\ Contents = [n \in 1..(LogicalBottom - top) |-> Load(1, top + n - 1)]
  /\ HandedOut = {x \in Task : taken[x] > 0} \cup {Held(p) : p \in {q \in Threads : Claimed(q)}}
  /\ \A p \in Threads : InHand(p) = Held(p)

LEMMA FirstView == IInv /\ FirstRound => View
<1>. SUFFICES ASSUME IInv, FirstRound PROVE View
  OBVIOUS
<1>1. buffer = 1 /\ Len(buffers) = 1 /\ \A p \in Threads : buf[p] = 1
  BY FirstBuffer DEF FirstRound
<1>2. \A p \in Threads : InHand(p) = Held(p)
  BY <1>1 DEF InHand, Held
<1>3. \A i : Home(i) = 1
  BY <1>1 DEF Home
<1>. QED
  BY <1>2, <1>3 DEF View, Contents, HandedOut

\* The indices that matter have slots of their own.
IndexFacts ==
  /\ LogicalBottom \in Int /\ top \in Nat /\ top <= LogicalBottom
  /\ \A n \in 1..(LogicalBottom - top) : top + n - 1 \in 0..(InitialCapacity - 1)
  /\ \A p \in Threads : Claimed(p) => idx[p] \in 0..(InitialCapacity - 1)
  /\ \A p \in Threads : Claimed(p) => idx[p] < top \/ idx[p] >= LogicalBottom
  /\ \A p, q \in Threads : Claimed(p) /\ Claimed(q) /\ p # q => idx[p] # idx[q]
  /\ pushed \in 0..InitialCapacity /\ Owner \in Threads /\ bottom \in Int

LEMMA FirstIndices == IInv /\ Bounds /\ FirstRound => IndexFacts
<1>. SUFFICES ASSUME IInv, Bounds, FirstRound PROVE IndexFacts
  OBVIOUS
<1>1. /\ top \in Nat /\ bottom \in Int /\ pushed \in Nat /\ pushed <= InitialCapacity
      /\ LogicalBottom <= pushed /\ top <= LogicalBottom
      /\ \A p \in Threads : Claimed(p) => idx[p] \in 0..(pushed - 1)
  BY DEF IInv, TypeOK, OwnerIndices, Bounds, FirstRound
<1>2. LogicalBottom \in Int
  BY <1>1 DEF LogicalBottom
<1>3. ClaimsExclusive
  BY DEF IInv
<1>. QED
  BY <1>1, <1>2, <1>3, QueueAssumption DEF ClaimsExclusive, Threads, IndexFacts

\* A step that leaves the deque, the claims and what they hold as they are.
LEMMA Unnoticed ==
  ASSUME View, View',
         UNCHANGED <<top, taken>>, LogicalBottom' = LogicalBottom,
         \A n \in 1..(LogicalBottom - top) : Load(1, top + n - 1)' = Load(1, top + n - 1),
         \A p \in Threads : (Claimed(p)' <=> Claimed(p)) /\ (Claimed(p) => Held(p)' = Held(p))
  PROVE  Contents' = Contents /\ HandedOut' = HandedOut
<1>1. Contents' = Contents
  BY DEF View
<1>2. \A p \in Threads : (Claimed(p)' <=> Claimed(p)) /\ (Claimed(p) => Held(p)' = Held(p))
  OBVIOUS
<1>3. {Held(p) : p \in {q \in Threads : Claimed(q)}}'
        = {Held(p) : p \in {q \in Threads : Claimed(q)}}
  BY <1>2
<1>. QED
  BY <1>1, <1>3 DEF View

\* A step in which q claims what it has in hand, or returns it.
LEMMA Claims ==
  ASSUME View, View', UNCHANGED taken, NEW q \in Threads,
         \A p \in Threads : Claimed(p)' <=> Claimed(p) \/ p = q,
         \A p \in Threads : Claimed(p) => Held(p)' = Held(p)
  PROVE  HandedOut' = HandedOut \cup {Held(q)'}
<1>1. {Held(p) : p \in {r \in Threads : Claimed(r)}}'
        = {Held(p) : p \in {r \in Threads : Claimed(r)}} \cup {Held(q)'}
  OBVIOUS
<1>. QED
  BY <1>1 DEF View

LEMMA Returns ==
  ASSUME View, View', taken \in [Task -> Nat], NEW q \in Threads, Claimed(q), Held(q) \in Task,
         taken' = [taken EXCEPT ![Held(q)] = @ + 1],
         \A p \in Threads : Claimed(p)' <=> Claimed(p) /\ p # q,
         \A p \in Threads \ {q} : Claimed(p) => Held(p)' = Held(p)
  PROVE  HandedOut' = HandedOut
<1>1. {x \in Task : taken'[x] > 0} = {x \in Task : taken[x] > 0} \cup {Held(q)}
  <2>1. \A x \in Task : taken'[x] > 0 <=> taken[x] > 0 \/ x = Held(q)
    OBVIOUS
  <2>. QED
    BY <2>1
<1>2. {Held(p) : p \in {r \in Threads : Claimed(r)}}
        = {Held(p) : p \in {r \in Threads : Claimed(r)}}' \cup {Held(q)}
  OBVIOUS
<1>. QED
  BY <1>1, <1>2 DEF View

\* The deque as a sequence.
ContentsFacts ==
  /\ Contents \in Seq(Task) /\ Len(Contents) = LogicalBottom - top
  /\ DOMAIN Contents = 1..(LogicalBottom - top)
  /\ \A n \in 1..(LogicalBottom - top) : Contents[n] = Load(1, top + n - 1)

LEMMA ContentsAre == IInv /\ Bounds /\ FirstRound => ContentsFacts
<1>. SUFFICES ASSUME IInv, Bounds, FirstRound PROVE ContentsFacts
  OBVIOUS
<1>1. LogicalBottom - top \in Nat /\ top \in Nat
  BY FirstIndices DEF IndexFacts
<1>2. \A n \in 1..(LogicalBottom - top) : Load(1, top + n - 1) \in Task
  <2>1. BuffersOK /\ 1 \in DOMAIN buffers
    BY FirstBuffer DEF FirstRound
  <2>. QED
    BY <1>1, <2>1, LoadType
<1>3. Contents = [n \in 1..(LogicalBottom - top) |-> Load(1, top + n - 1)]
  BY FirstView DEF View
<1>4. PICK m \in Nat : m = LogicalBottom - top
  BY <1>1
<1>. QED
  BY <1>2, <1>3, <1>4 DEF ContentsFacts

LEMMA SeqPops ==
  ASSUME NEW X, NEW S \in Seq(X), NEW T \in Seq(X), Len(S) # 0, Len(T) = Len(S) - 1
  PROVE  /\ S # <<>>
         /\ (\A n \in 1..Len(T) : T[n] = S[n]) => T = SubSeq(S, 1, Len(S) - 1)
         /\ (\A n \in 1..Len(T) : T[n] = S[n + 1]) => T = Tail(S)
<1>1. Len(S) \in Nat /\ Len(T) \in Nat
  OBVIOUS
<1>2. ASSUME \A n \in 1..Len(T) : T[n] = S[n] PROVE T = SubSeq(S, 1, Len(S) - 1)
  <2>1. PICK U : U = SubSeq(S, 1, Len(S) - 1)
    OBVIOUS
  <2>2. U \in Seq(X) /\ Len(U) = Len(T) /\ \A n \in 1..Len(U) : U[n] = S[n]
    BY <1>1, <2>1, SubSeqProperties
  <2>. QED
    BY <1>2, <2>1, <2>2, SeqEqual
<1>3. ASSUME \A n \in 1..Len(T) : T[n] = S[n + 1] PROVE T = Tail(S)
  <2>1. S # <<>>
    OBVIOUS
  <2>2. Tail(S) \in Seq(X) /\ Len(Tail(S)) = Len(T) /\ \A n \in 1..Len(Tail(S)) : Tail(S)[n] = S[n + 1]
    BY <2>1, HeadTailProperties
  <2>. QED
    BY <1>3, <2>2, SeqEqual
<1>. QED
  BY <1>2, <1>3

-----------------------------------------------------------------------------
(* Each step of the queue in the first round is one of the deque, or none. *)

FirstFacts == IInv /\ Bounds /\ FirstRound /\ View /\ IndexFacts /\ ContentsFacts

LEMMA FactsHold ==
  /\ IInv /\ Bounds /\ FirstRound => FirstFacts
  /\ IInv' /\ Bounds' /\ FirstRound' => FirstFacts'
<1>1. IInv /\ Bounds /\ FirstRound => FirstFacts
  BY FirstView, FirstIndices, ContentsAre DEF FirstFacts
<1>. QED
  BY <1>1, PTL

Publishing == At(Owner, "publish") => Load(1, bottom) = pushed
Stays == UNCHANGED <<Contents, HandedOut, Published>>
Pushes == /\ Contents' = Append(Contents, pushed) /\ HandedOut' = HandedOut
          /\ Published = pushed - 1 /\ Published' = pushed /\ pushed \in 1..MaxPush
Pops == D!PopBottom /\ Published' = Published
Steals == D!StealTop /\ Published' = Published
Outcome == (Stays \/ Pushes \/ Pops \/ Steals) /\ Publishing'

\* Steps that write no slot and claim nothing.
LEMMA QuietStep ==
  ASSUME FirstFacts, FirstFacts', Publishing, UNCHANGED <<top, buffers, taken, pushed>>,
         LogicalBottom' = LogicalBottom,
         At(Owner, "publish")' <=> At(Owner, "publish"),
         At(Owner, "publish") => bottom' = bottom,
         \A p \in Threads : (Claimed(p)' <=> Claimed(p)) /\ (Claimed(p) => Held(p)' = Held(p))
  PROVE  Outcome
<1>1. View /\ View'
  BY DEF FirstFacts
<1>2. \A i : Load(1, i)' = Load(1, i)
  BY DEF Load, Slot, Capacity
<1>3. Contents' = Contents /\ HandedOut' = HandedOut
  BY <1>1, <1>2, Unnoticed
<1>4. Published' = Published
  BY DEF Published
<1>5. Publishing'
  BY <1>2 DEF Publishing
<1>. QED
  BY <1>3, <1>4, <1>5 DEF Outcome, Stays

\* The owner takes the bottom task without a CAS.
LEMMA OwnerTakes ==
  ASSUME FirstFacts, FirstFacts', UNCHANGED <<top, buffers, taken, pushed, idx, got, bottom>>,
         LogicalBottom' = LogicalBottom - 1, idx[Owner] = LogicalBottom - 1, top < LogicalBottom,
         pc[Owner] = "pop_top", pc' = [pc EXCEPT ![Owner] = "read"]
  PROVE  Outcome
<1>0. /\ View /\ View' /\ IndexFacts /\ IndexFacts' /\ ContentsFacts /\ ContentsFacts'
      /\ pc \in [Threads -> Labels]
  BY DEF FirstFacts, IInv, TypeOK
<1>1. \A i : Load(1, i)' = Load(1, i)
  BY DEF Load, Slot, Capacity
<1>2. /\ Owner \in Threads /\ pc'[Owner] = "read"
      /\ \A p \in Threads \ {Owner} : pc'[p] = pc[p]
  BY <1>0 DEF IndexFacts
<1>3. /\ \A p \in Threads : Claimed(p)' <=> Claimed(p) \/ p = Owner
      /\ \A p \in Threads : Claimed(p) => Held(p)' = Held(p)
      /\ Held(Owner)' = Load(1, LogicalBottom - 1)
  BY <1>1, <1>2 DEF Claimed, Held, At
<1>4. HandedOut' = HandedOut \cup {Load(1, LogicalBottom - 1)}
  BY <1>0, <1>2, <1>3, Claims
<1>5. PICK m \in Nat \ {0} : m = LogicalBottom - top
  BY <1>0 DEF IndexFacts
<1>6. /\ Contents \in Seq(Task) /\ Contents' \in Seq(Task)
      /\ Len(Contents) = m /\ Len(Contents') = m - 1
      /\ \A n \in 1..m : Contents[n] = Load(1, top + n - 1)
      /\ \A n \in 1..(m - 1) : Contents'[n] = Load(1, top + n - 1)
  BY <1>0, <1>1, <1>5 DEF ContentsFacts, IndexFacts
<1>7. Contents # <<>> /\ Contents' = SubSeq(Contents, 1, Len(Contents) - 1)
  <2>1. Len(Contents) # 0 /\ Len(Contents') = Len(Contents) - 1
    BY <1>6
  <2>2. \A n \in 1..Len(Contents') : Contents'[n] = Contents[n]
    BY <1>6
  <2>. QED
    BY <1>6, <2>1, <2>2, SeqPops
<1>8. Contents[Len(Contents)] = Load(1, LogicalBottom - 1)
  BY <1>0, <1>5, <1>6 DEF IndexFacts
<1>9. Published' = Published /\ Publishing'
  BY <1>2 DEF Published, Publishing, At
<1>. QED
  BY <1>4, <1>7, <1>8, <1>9 DEF Outcome, Pops, D!PopBottom

\* Whoever wins the CAS takes the top task.
LEMMA CasTakes ==
  ASSUME FirstFacts, FirstFacts', Publishing, NEW q \in Threads,
         UNCHANGED <<buffers, taken, pushed, idx, got, bottom>>,
         LogicalBottom' = LogicalBottom, top' = top + 1, idx[q] = top, top < LogicalBottom,
         pc[q] \in {"pop_cas", "steal_cas"}, NEW l \in {"restore_won", "read"},
         pc' = [pc EXCEPT ![q] = l]
  PROVE  Outcome
<1>0. /\ View /\ View' /\ IndexFacts /\ IndexFacts' /\ ContentsFacts /\ ContentsFacts'
      /\ pc \in [Threads -> Labels]
  BY DEF FirstFacts, IInv, TypeOK
<1>1. \A i : Load(1, i)' = Load(1, i)
  BY DEF Load, Slot, Capacity
<1>2. /\ pc'[q] = l
      /\ \A p \in Threads \ {q} : pc'[p] = pc[p]
  BY <1>0
<1>3. /\ \A p \in Threads : Claimed(p)' <=> Claimed(p) \/ p = q
      /\ \A p \in Threads : Claimed(p) => Held(p)' = Held(p)
      /\ Held(q)' = Load(1, top)
  BY <1>1, <1>2 DEF Claimed, Held, At
<1>4. HandedOut' = HandedOut \cup {Load(1, top)}
  BY <1>0, <1>3, Claims
<1>5. PICK m \in Nat \ {0} : m = LogicalBottom - top
  BY <1>0 DEF IndexFacts
<1>6. /\ Contents \in Seq(Task) /\ Contents' \in Seq(Task)
      /\ Len(Contents) = m /\ Len(Contents') = m - 1
      /\ \A n \in 1..m : Contents[n] = Load(1, top + n - 1)
      /\ \A n \in 1..(m - 1) : Contents'[n] = Load(1, (top + 1) + n - 1)
  <2>1. LogicalBottom' - top' = m - 1
    BY <1>0, <1>5 DEF IndexFacts
  <2>. QED
    BY <1>0, <1>1, <1>5, <2>1 DEF ContentsFacts
<1>7. \A n \in 1..(m - 1) : Contents'[n] = Contents[n + 1]
  <2>. TAKE n \in 1..(m - 1)
  <2>1. n + 1 \in 1..m /\ (top + 1) + n - 1 = top + (n + 1) - 1
    BY <1>0 DEF IndexFacts
  <2>. QED
    BY <1>6, <2>1
<1>8. Contents # <<>> /\ Contents' = Tail(Contents)
  <2>1. Len(Contents) # 0 /\ Len(Contents') = Len(Contents) - 1
    BY <1>6
  <2>2. \A n \in 1..Len(Contents') : Contents'[n] = Contents[n + 1]
    BY <1>6, <1>7
  <2>. QED
    BY <1>6, <2>1, <2>2, SeqPops
<1>9. Head(Contents) = Load(1, top)
  <2>1. Head(Contents) = Contents[1] /\ top + 1 - 1 = top
    BY <1>0, <1>6, <1>8 DEF IndexFacts
  <2>. QED
    BY <1>6, <2>1
<1>10. Published' = Published /\ Publishing'
  BY <1>0, <1>1, <1>2 DEF Published, Publishing, At, IndexFacts
<1>. QED
  BY <1>4, <1>8, <1>9, <1>10 DEF Outcome, Steals, D!StealTop

\* The slot that push() writes belongs to no task of the deque and no claim.
LEMMA StoreStep ==
  ASSUME FirstFacts, FirstFacts', PushStore
  PROVE  Outcome
<1>0. /\ View /\ View' /\ IndexFacts /\ IndexFacts' /\ IInv /\ Bounds /\ Len(buffers) = 1
      /\ pc \in [Threads -> Labels] /\ buffer = 1
  BY FirstBuffer DEF FirstFacts, IInv, TypeOK, FirstRound
<1>1. /\ UNCHANGED <<top, bottom, idx, got, taken>> /\ pc[Owner] = "store"
      /\ pushed' = pushed + 1 /\ buffers' = Stored(1, bottom, pushed + 1)
      /\ pc' = [pc EXCEPT ![Owner] = "publish"]
  BY <1>0 DEF PushStore, At, Goto
<1>2. LogicalBottom = bottom /\ LogicalBottom' = bottom /\ Owner \in Threads
  BY <1>0, <1>1 DEF LogicalBottom, IndexFacts
<1>3. bottom \in 0..(InitialCapacity - 1) /\ pushed + 1 \in Task
  <2>1. bottom <= pushed /\ pushed + 1 <= InitialCapacity /\ 0 <= bottom /\ pushed < MaxPush
    BY <1>0, <1>1, <1>2 DEF Bounds, IndexFacts, IInv, OwnerIndices
  <2>. QED
    BY <1>0, <2>1, QueueAssumption DEF IndexFacts, Task
<1>4. \A j \in 0..(InitialCapacity - 1) : Load(1, j)' = IF j = bottom THEN pushed + 1 ELSE Load(1, j)
  <2>1. PICK i \in 0..(InitialCapacity - 1) : i = bottom
    BY <1>3
  <2>2. PICK x \in Task : x = pushed + 1
    BY <1>3
  <2>3. IInv /\ Bounds /\ Len(buffers) = 1 /\ buffers' = Stored(1, i, x)
    BY <1>0, <1>1, <2>1, <2>2
  <2>4. \A j \in 0..(InitialCapacity - 1) : Load(1, j)' = IF j = i THEN x ELSE Load(1, j)
    BY <2>3, StoredLoad
  <2>. QED
    BY <2>1, <2>2, <2>4
<1>5. \A n \in 1..(LogicalBottom - top) : Load(1, top + n - 1)' = Load(1, top + n - 1)
  <2>. SUFFICES ASSUME NEW n \in 1..(LogicalBottom - top)
                PROVE  Load(1, top + n - 1)' = Load(1, top + n - 1)
    OBVIOUS
  <2>1. PICK j : j = top + n - 1
    OBVIOUS
  <2>2. j \in 0..(InitialCapacity - 1) /\ j # bottom
    <3>1. top \in Nat /\ bottom \in Int /\ n \in 1..(bottom - top)
      BY <1>0, <1>2 DEF IndexFacts
    <3>2. j # bottom
      BY <2>1, <3>1
    <3>. QED
      BY <1>0, <2>1, <3>2 DEF IndexFacts
  <2>3. Load(1, j)' = Load(1, j)
    BY <1>4, <2>2
  <2>. QED
    BY <1>1, <2>1, <2>3
<1>6. \A p \in Threads : Claimed(p)' <=> Claimed(p)
  BY <1>0, <1>1, <1>2 DEF Claimed
<1>7. ASSUME NEW p \in Threads, Claimed(p) PROVE Held(p)' = Held(p)
  <2>1. p # Owner /\ idx[p] < bottom /\ idx[p] \in 0..(InitialCapacity - 1)
    <3>1. p # Owner
      BY <1>1, <1>7 DEF Claimed
    <3>2. idx[p] < top
      BY <1>0, <1>7, <3>1 DEF IInv, ThiefIndices, Claimed, Threads
    <3>. QED
      BY <1>0, <1>2, <1>7, <3>1, <3>2 DEF IndexFacts
  <2>2. pc'[p] = pc[p]
    BY <1>0, <1>1, <2>1
  <2>. QED
    BY <1>1, <1>4, <2>1, <2>2 DEF Held, At
<1>8. Contents' = Contents /\ HandedOut' = HandedOut
  BY <1>0, <1>1, <1>2, <1>5, <1>6, <1>7, Unnoticed
<1>9. Published' = Published /\ Publishing'
  BY <1>0, <1>1, <1>2, <1>3, <1>4 DEF Published, Publishing, At, IndexFacts
<1>. QED
  BY <1>8, <1>9 DEF Outcome, Stays

\* The store of bottom_ is the moment of push().
LEMMA PublishStep ==
  ASSUME FirstFacts, FirstFacts', Publishing, PushPublish
  PROVE  Outcome
<1>0. /\ View /\ View' /\ IndexFacts /\ IndexFacts' /\ ContentsFacts /\ ContentsFacts' /\ IInv
      /\ pc \in [Threads -> Labels]
  BY DEF FirstFacts, IInv, TypeOK
<1>1. /\ UNCHANGED <<top, buffers, idx, got, taken, pushed>> /\ pc[Owner] = "publish"
      /\ bottom' = bottom + 1 /\ pc' = [pc EXCEPT ![Owner] = "idle"]
  BY DEF PushPublish, At, Goto
<1>2. /\ Owner \in Threads /\ pc'[Owner] = "idle"
      /\ \A p \in Threads \ {Owner} : pc'[p] = pc[p]
      /\ LogicalBottom = bottom /\ LogicalBottom' = bottom + 1
  BY <1>0, <1>1 DEF LogicalBottom, IndexFacts
<1>3. \A i : Load(1, i)' = Load(1, i)
  BY <1>1 DEF Load, Slot, Capacity
<1>4. \A p \in Threads : (Claimed(p)' <=> Claimed(p)) /\ Held(p)' = Held(p)
  BY <1>1, <1>2, <1>3 DEF Claimed, Held, At
<1>5. HandedOut' = HandedOut
  <2>1. {Held(p) : p \in {r \in Threads : Claimed(r)}}' = {Held(p) : p \in {r \in Threads : Claimed(r)}}
    BY <1>4
  <2>. QED
    BY <1>0, <1>1, <2>1 DEF View
<1>6. Load(1, bottom) = pushed /\ pushed \in Task /\ pushed \in Nat
  BY <1>0, <1>1, QueueAssumption DEF Publishing, At, IInv, TypeOK, Task
<1>7. PICK m \in Nat : m = LogicalBottom - top
  BY <1>0 DEF IndexFacts
<1>8. /\ Contents \in Seq(Task) /\ Contents' \in Seq(Task)
      /\ Len(Contents) = m /\ Len(Contents') = m + 1
      /\ \A n \in 1..m : Contents[n] = Load(1, top + n - 1)
      /\ \A n \in 1..(m + 1) : Contents'[n] = Load(1, top + n - 1)
  <2>1. LogicalBottom' - top' = m + 1
    BY <1>0, <1>1, <1>2, <1>7 DEF IndexFacts
  <2>. QED
    BY <1>0, <1>1, <1>3, <1>7, <2>1 DEF ContentsFacts
<1>9. Contents'[m + 1] = pushed
  <2>1. top + (m + 1) - 1 = bottom
    BY <1>0, <1>2, <1>7 DEF IndexFacts
  <2>. QED
    BY <1>6, <1>8, <2>1
<1>10. Contents' = Append(Contents, pushed)
  <2>1. PICK T : T = Append(Contents, pushed)
    OBVIOUS
  <2>2. /\ T \in Seq(Task) /\ Len(T) = m + 1 /\ T[m + 1] = pushed
        /\ \A n \in 1..m : T[n] = Contents[n]
    BY <1>6, <1>8, <2>1, AppendProperties
  <2>3. \A n \in 1..(m + 1) : Contents'[n] = T[n]
    BY <1>8, <1>9, <2>2
  <2>. QED
    BY <1>8, <2>1, <2>2, <2>3, SeqEqual
<1>11. Published = pushed - 1 /\ Published' = pushed /\ Publishing'
  BY <1>1, <1>2 DEF Published, Publishing, At
<1>12. pushed \in 1..MaxPush
  <2>1. bottom < pushed /\ 0 <= bottom /\ bottom \in Int
    BY <1>0, <1>1, <1>2 DEF FirstFacts, Bounds, IndexFacts, At
  <2>. QED
    BY <1>6, <2>1, QueueAssumption DEF Task
<1>. QED
  BY <1>5, <1>10, <1>11, <1>12 DEF Outcome, Pushes

\* The slot that is emptied belongs to the claim alone.
LEMMA ClearStep ==
  ASSUME FirstFacts, FirstFacts', Publishing, NEW q \in Threads, ClearSlot(q)
  PROVE  Outcome
<1>0. /\ View /\ View' /\ IndexFacts /\ IndexFacts' /\ IInv /\ Bounds /\ Len(buffers) = 1
      /\ pc \in [Threads -> Labels] /\ buf[q] = 1 /\ taken \in [Task -> Nat] /\ got[q] \in Task
  BY FirstBuffer DEF FirstFacts, IInv, TypeOK, FirstRound
<1>1. /\ UNCHANGED <<top, bottom, idx, got, pushed>> /\ pc[q] = "clear"
      /\ buffers' = Stored(1, idx[q], NoTask) /\ pc' = [pc EXCEPT ![q] = "idle"]
      /\ taken' = [taken EXCEPT ![got[q]] = @ + 1]
  BY <1>0 DEF ClearSlot, At, Goto
<1>2. /\ Claimed(q) /\ Held(q) = got[q] /\ idx[q] \in 0..(InitialCapacity - 1)
      /\ idx[q] < top \/ idx[q] >= LogicalBottom
  BY <1>0, <1>1 DEF Claimed, Held, At, IndexFacts
<1>3. pc'[q] = "idle" /\ \A p \in Threads \ {q} : pc'[p] = pc[p]
  BY <1>0, <1>1
<1>4. /\ LogicalBottom' = LogicalBottom /\ (At(Owner, "publish")' <=> At(Owner, "publish"))
      /\ Owner \in Threads
  BY <1>0, <1>1, <1>3 DEF LogicalBottom, At, IndexFacts
<1>5. \A j \in 0..(InitialCapacity - 1) : Load(1, j)' = IF j = idx[q] THEN NoTask ELSE Load(1, j)
  <2>1. PICK i \in 0..(InitialCapacity - 1) : i = idx[q]
    BY <1>2
  <2>2. PICK x \in Task : x = NoTask
    BY QueueAssumption DEF NoTask, Task
  <2>3. IInv /\ Bounds /\ Len(buffers) = 1 /\ buffers' = Stored(1, i, x)
    BY <1>0, <1>1, <2>1, <2>2
  <2>4. \A j \in 0..(InitialCapacity - 1) : Load(1, j)' = IF j = i THEN x ELSE Load(1, j)
    BY <2>3, StoredLoad
  <2>. QED
    BY <2>1, <2>2, <2>4
<1>6. \A n \in 1..(LogicalBottom - top) : Load(1, top + n - 1)' = Load(1, top + n - 1)
  BY <1>0, <1>1, <1>2, <1>5 DEF IndexFacts
<1>7. Contents' = Contents
  BY <1>0, <1>1, <1>4, <1>6 DEF View
<1>8. \A p \in Threads : Claimed(p)' <=> Claimed(p) /\ p # q
  BY <1>3 DEF Claimed
<1>9. ASSUME NEW p \in Threads \ {q}, Claimed(p) PROVE Held(p)' = Held(p)
  <2>1. idx[p] # idx[q] /\ idx[p] \in 0..(InitialCapacity - 1)
    BY <1>0, <1>2, <1>9 DEF IndexFacts
  <2>. QED
    BY <1>1, <1>3, <1>5, <2>1 DEF Held, At
<1>10. HandedOut' = HandedOut
  BY <1>0, <1>1, <1>2, <1>8, <1>9, Returns
<1>11. Published' = Published
  BY <1>1, <1>4 DEF Published
<1>12. Publishing'
  <2>. SUFFICES ASSUME At(Owner, "publish") PROVE Load(1, bottom)' = pushed
    BY <1>1, <1>4 DEF Publishing
  <2>1. q # Owner /\ LogicalBottom = bottom /\ bottom < pushed
    BY <1>0, <1>1 DEF LogicalBottom, At, Bounds
  <2>2. idx[q] < top
    BY <1>0, <1>1, <2>1 DEF IInv, ThiefIndices, Threads
  <2>3. idx[q] # bottom /\ bottom \in 0..(InitialCapacity - 1)
    BY <1>0, <1>2, <2>1, <2>2, QueueAssumption DEF IndexFacts
  <2>4. Load(1, bottom) = pushed
    BY DEF Publishing
  <2>5. PICK b : b = bottom /\ bottom' = b
    BY <1>1
  <2>6. Load(1, b)' = Load(1, b)
    BY <1>5, <2>3, <2>5
  <2>7. Load(1, bottom)' = Load(1, b)'
    BY <2>5 DEF Load, Slot
  <2>. QED
    BY <2>4, <2>5, <2>6, <2>7
<1>. QED
  BY <1>7, <1>10, <1>11, <1>12 DEF Outcome, Stays

\* A step of q that claims nothing, neither before nor after.
LEMMA QuietMove ==
  ASSUME FirstFacts, FirstFacts', Publishing, NEW q \in Threads, NEW l,
         UNCHANGED <<top, buffers, taken, pushed>>, pc' = [pc EXCEPT ![q] = l],
         ~Claimed(q), l \notin {"restore_won", "read", "clear"},
         \A p \in Threads \ {q} : idx'[p] = idx[p] /\ got'[p] = got[p],
         q # Owner => bottom' = bottom,
         q = Owner => l # "publish" /\ pc[Owner] # "publish" /\ LogicalBottom' = LogicalBottom
  PROVE  Outcome
<1>1. pc \in [Threads -> Labels] /\ Owner \in Threads
  BY DEF FirstFacts, IInv, TypeOK, IndexFacts
<1>2. pc'[q] = l /\ \A p \in Threads \ {q} : pc'[p] = pc[p]
  BY <1>1
<1>3. /\ LogicalBottom' = LogicalBottom
      /\ At(Owner, "publish")' <=> At(Owner, "publish")
      /\ At(Owner, "publish") => bottom' = bottom
  <2>1. CASE q = Owner
    BY <1>2, <2>1 DEF At
  <2>2. CASE q # Owner
    BY <1>1, <1>2, <2>2 DEF At, LogicalBottom
  <2>. QED
    BY <2>1, <2>2
<1>4. \A i : Load(1, i)' = Load(1, i)
  BY DEF Load, Slot, Capacity
<1>5. ASSUME NEW p \in Threads
      PROVE  (Claimed(p)' <=> Claimed(p)) /\ (Claimed(p) => Held(p)' = Held(p))
  <2>1. CASE p = q
    BY <1>2, <2>1 DEF Claimed
  <2>2. CASE p # q
    BY <1>2, <1>4, <2>2 DEF Claimed, Held, At
  <2>. QED
    BY <2>1, <2>2
<1>. QED
  BY <1>3, <1>5, QuietStep

\* push() without growth; a round in which it grows is not a first one.
LEMMA PushOutcome ==
  ASSUME FirstFacts, FirstFacts', Publishing, Push
  PROVE  Outcome
<1>0. /\ IInv /\ Bounds /\ Owner \in Threads /\ Len(buffers) = 1 /\ Len(buffers') = 1
      /\ pc \in [Threads -> Labels] /\ pc' \in [Threads -> Labels]
  BY DEF FirstFacts, IInv, TypeOK, IndexFacts, FirstRound
<1>1. ~At(Owner, "migrate") /\ ~At(Owner, "migrate_clear")
  BY <1>0 DEF Bounds, At
<1>2. ~At(Owner, "migrate")'
  BY <1>0 DEF FirstFacts, Bounds, At
<1>3. ~PushGrows
  BY <1>0, <1>2 DEF PushGrows, Goto, At
<1>4. CASE PushFits
  <2>1. /\ pc' = [pc EXCEPT ![Owner] = "store"] /\ pc[Owner] = "idle" /\ pc'[Owner] = "store"
        /\ UNCHANGED <<top, bottom, buffers, taken, pushed, idx, got>>
    BY <1>0, <1>4 DEF PushFits, At, Goto
  <2>2. ~Claimed(Owner) /\ LogicalBottom' = LogicalBottom
    BY <2>1 DEF Claimed, LogicalBottom
  <2>. QED
    BY <1>0, <2>1, <2>2, QuietMove
<1>5. CASE PushStore
  BY <1>5, StoreStep
<1>6. CASE PushPublish
  BY <1>6, PublishStep
<1>. QED
  BY <1>1, <1>3, <1>4, <1>5, <1>6 DEF Push, MigrateCopy, MigrateClear, PublishBuffer

LEMMA PopOutcome ==
  ASSUME FirstFacts, FirstFacts', Publishing, Pop
  PROVE  Outcome
<1>0. /\ OwnerIndices /\ Owner \in Threads /\ top \in Nat /\ bottom \in Int
      /\ pc \in [Threads -> Labels] /\ idx \in [Threads -> Int]
  BY DEF FirstFacts, IInv, TypeOK, IndexFacts
<1>1. CASE PopReserve
  <2>1. /\ pc' = [pc EXCEPT ![Owner] = "pop_top"] /\ pc[Owner] = "idle" /\ pc'[Owner] = "pop_top"
        /\ UNCHANGED <<top, buffers, taken, pushed, got>> /\ bottom' = bottom - 1
        /\ \A p \in Threads \ {Owner} : idx'[p] = idx[p]
    BY <1>0, <1>1 DEF PopReserve, At, Goto
  <2>2. ~Claimed(Owner) /\ LogicalBottom' = LogicalBottom
    BY <1>0, <2>1 DEF Claimed, LogicalBottom
  <2>. QED
    BY <1>0, <2>1, <2>2, QuietMove
<1>2. CASE PopLoadTop
  <2>1. /\ pc' = [pc EXCEPT ![Owner] = AfterTop(top, idx[Owner])] /\ pc[Owner] = "pop_top"
        /\ pc'[Owner] = AfterTop(top, idx[Owner])
        /\ UNCHANGED <<top, bottom, buffers, taken, pushed, idx, got>>
        /\ idx[Owner] = bottom /\ LogicalBottom = bottom + 1
    BY <1>0, <1>2 DEF PopLoadTop, At, Goto, OwnerIndices, LogicalBottom
  <2>2. CASE top < idx[Owner]
    <3>1. AfterTop(top, idx[Owner]) = "read"
      BY <1>0, <2>1, <2>2 DEF AfterTop
    <3>2. LogicalBottom' = bottom
      BY <2>1, <3>1 DEF LogicalBottom
    <3>3. LogicalBottom' = LogicalBottom - 1 /\ idx[Owner] = LogicalBottom - 1 /\ top < LogicalBottom
      BY <1>0, <2>1, <2>2, <3>2
    <3>. QED
      BY <2>1, <3>1, <3>3, OwnerTakes
  <2>3. CASE ~(top < idx[Owner])
    <3>1. PICK l \in {"restore_empty", "pop_cas"} : l = AfterTop(top, idx[Owner])
      BY <1>0, <2>1, <2>3 DEF AfterTop
    <3>2. ~Claimed(Owner) /\ LogicalBottom' = LogicalBottom
      BY <2>1, <3>1 DEF Claimed, LogicalBottom
    <3>. QED
      BY <1>0, <2>1, <3>1, <3>2, QuietMove
  <2>. QED
    BY <2>2, <2>3
<1>3. CASE PopCas
  <2>1. /\ pc[Owner] = "pop_cas" /\ UNCHANGED <<bottom, buffers, taken, pushed, idx, got>>
        /\ idx[Owner] = bottom /\ LogicalBottom = bottom + 1
    BY <1>0, <1>3 DEF PopCas, At, OwnerIndices, LogicalBottom
  <2>2. CASE top = idx[Owner]
    <3>1. pc' = [pc EXCEPT ![Owner] = "restore_won"] /\ top' = top + 1
      BY <1>3, <2>2 DEF PopCas, Goto
    <3>2. LogicalBottom' = LogicalBottom /\ top < LogicalBottom
      BY <1>0, <2>1, <2>2, <3>1 DEF LogicalBottom
    <3>. QED
      BY <1>0, <2>1, <2>2, <3>1, <3>2, CasTakes
  <2>3. CASE top # idx[Owner]
    <3>1. pc' = [pc EXCEPT ![Owner] = "restore_empty"] /\ top' = top
      BY <1>3, <2>3 DEF PopCas, Goto
    <3>2. LogicalBottom' = LogicalBottom /\ ~Claimed(Owner)
      BY <1>0, <2>1, <3>1 DEF LogicalBottom, Claimed
    <3>. QED
      BY <1>0, <2>1, <3>1, <3>2, QuietMove
  <2>. QED
    BY <2>2, <2>3
<1>4. CASE PopRestore
  <2>1. /\ UNCHANGED <<top, buffers, taken, pushed, idx, got>>
        /\ bottom' = bottom + 1 /\ LogicalBottom = bottom + 1
    BY <1>0, <1>4 DEF PopRestore, At, OwnerIndices, LogicalBottom
  <2>2. CASE At(Owner, "restore_empty")
    <3>1. pc' = [pc EXCEPT ![Owner] = "idle"] /\ pc[Owner] = "restore_empty"
      BY <1>4, <2>2 DEF PopRestore, Goto, At
    <3>2. LogicalBottom' = LogicalBottom /\ ~Claimed(Owner)
      BY <1>0, <2>1, <3>1 DEF LogicalBottom, Claimed
    <3>. QED
      BY <1>0, <2>1, <3>1, <3>2, QuietMove
  <2>3. CASE At(Owner, "restore_won")
    <3>1. pc' = [pc EXCEPT ![Owner] = "read"] /\ pc[Owner] = "restore_won" /\ pc'[Owner] = "read"
      BY <1>0, <1>4, <2>3 DEF PopRestore, Goto, At
    <3>2. LogicalBottom' = LogicalBottom
      BY <2>1, <3>1 DEF LogicalBottom
    <3>3. \A i : Load(1, i)' = Load(1, i)
      BY <2>1 DEF Load, Slot, Capacity
    <3>4. \A p \in Threads : (Claimed(p)' <=> Claimed(p)) /\ (Claimed(p) => Held(p)' = Held(p))
      <4>. SUFFICES ASSUME NEW p \in Threads
                    PROVE  (Claimed(p)' <=> Claimed(p)) /\ Held(p)' = Held(p)
        OBVIOUS
      <4>1. CASE p = Owner
        BY <2>1, <3>1, <3>3, <4>1 DEF Claimed, Held, At
      <4>2. CASE p # Owner
        BY <1>0, <2>1, <3>1, <3>3, <4>2 DEF Claimed, Held, At
      <4>. QED
        BY <4>1, <4>2
    <3>. QED
      BY <2>1, <3>1, <3>2, <3>4, QuietStep DEF At
  <2>. QED
    BY <1>4, <2>2, <2>3 DEF PopRestore
<1>. QED
  BY <1>1, <1>2, <1>3, <1>4 DEF Pop

LEMMA StealOutcome ==
  ASSUME FirstFacts, FirstFacts', Publishing, NEW q \in Thieves, Steal(q)
  PROVE  Outcome
<1>0. /\ ThiefIndices(q) /\ Owner \in Threads /\ q \in Threads /\ q # Owner
      /\ pc \in [Threads -> Labels] /\ idx \in [Threads -> Int]
  BY QueueAssumption DEF FirstFacts, IInv, TypeOK, IndexFacts, Threads
<1>1. CASE StealCas(q) /\ top = idx[q]
  <2>1. /\ pc[q] = "steal_cas" /\ UNCHANGED <<bottom, buffers, taken, pushed, idx, got>>
        /\ top' = top + 1 /\ pc' = [pc EXCEPT ![q] = "read"]
    BY <1>1 DEF StealCas, At, Goto
  <2>2. LogicalBottom' = LogicalBottom /\ top < LogicalBottom
    <3>1. top < LogicalBottom
      BY <1>0, <1>1, <2>1 DEF ThiefIndices
    <3>2. pc'[Owner] = pc[Owner]
      BY <1>0, <2>1
    <3>. QED
      BY <2>1, <3>1, <3>2 DEF LogicalBottom
  <2>. QED
    BY <1>0, <1>1, <2>1, <2>2, CasTakes
<1>2. CASE ~(StealCas(q) /\ top = idx[q])
  <2>1. /\ UNCHANGED <<top, bottom, buffers, taken, pushed, got>>
        /\ \A p \in Threads \ {q} : idx'[p] = idx[p]
        /\ pc[q] \in {"idle", "steal_bottom", "steal_buffer", "steal_cas"}
    BY <1>0, <1>2 DEF Steal, StealTop, StealBottom, StealBuffer, StealCas, At
  <2>2. PICK l \in {"idle", "steal_bottom", "steal_buffer", "steal_cas"} : pc' = [pc EXCEPT ![q] = l]
    BY <1>2 DEF Steal, StealTop, StealBottom, StealBuffer, StealCas, Goto
  <2>3. ~Claimed(q)
    BY <2>1 DEF Claimed
  <2>. QED
    BY <1>0, <2>1, <2>2, <2>3, QuietMove
<1>. QED
  BY <1>1, <1>2

LEMMA TakeOutcome ==
  ASSUME FirstFacts, FirstFacts', Publishing, NEW q \in Threads, Take(q)
  PROVE  Outcome
<1>0. /\ Owner \in Threads /\ buf[q] = 1
      /\ pc \in [Threads -> Labels] /\ got \in [Threads -> Task]
  BY FirstBuffer DEF FirstFacts, IInv, TypeOK, IndexFacts, FirstRound
<1>1. CASE ReadSlot(q)
  <2>1. /\ pc' = [pc EXCEPT ![q] = "clear"] /\ pc[q] = "read"
        /\ UNCHANGED <<top, bottom, buffers, taken, pushed, idx>>
        /\ got' = [got EXCEPT ![q] = Load(1, idx[q])]
    BY <1>0, <1>1 DEF ReadSlot, At, Goto
  <2>2. /\ pc'[q] = "clear" /\ got'[q] = Load(1, idx[q])
        /\ \A p \in Threads \ {q} : pc'[p] = pc[p] /\ got'[p] = got[p]
    BY <1>0, <2>1
  <2>3. LogicalBottom' = LogicalBottom /\ (At(Owner, "publish")' <=> At(Owner, "publish"))
    <3>1. CASE q = Owner
      BY <2>1, <2>2, <3>1 DEF LogicalBottom, At
    <3>2. CASE q # Owner
      BY <1>0, <2>1, <2>2, <3>2 DEF LogicalBottom, At
    <3>. QED
      BY <3>1, <3>2
  <2>4. \A i : Load(1, i)' = Load(1, i)
    BY <2>1 DEF Load, Slot, Capacity
  <2>5. \A p \in Threads : (Claimed(p)' <=> Claimed(p)) /\ (Claimed(p) => Held(p)' = Held(p))
    <3>. SUFFICES ASSUME NEW p \in Threads
                  PROVE  (Claimed(p)' <=> Claimed(p)) /\ Held(p)' = Held(p)
      OBVIOUS
    <3>1. CASE p = q
      BY <2>1, <2>2, <2>4, <3>1 DEF Claimed, Held, At
    <3>2. CASE p # q
      BY <2>1, <2>2, <2>4, <3>2 DEF Claimed, Held, At
    <3>. QED
      BY <3>1, <3>2
  <2>. QED
    BY <2>1, <2>3, <2>5, QuietStep
<1>2. CASE ClearSlot(q)
  BY <1>2, ClearStep
<1>. QED
  BY <1>1, <1>2 DEF Take

LEMMA StepOutcome ==
  ASSUME FirstFacts, FirstFacts', Publishing, [Next]_vars
  PROVE  Outcome
<1>1. CASE Push
  BY <1>1, PushOutcome
<1>2. CASE Pop
  BY <1>2, PopOutcome
<1>3. ASSUME NEW q \in Thieves, Steal(q) PROVE Outcome
  BY <1>3, StealOutcome
<1>4. ASSUME NEW q \in Threads, Take(q) PROVE Outcome
  BY <1>4, TakeOutcome
<1>5. CASE UNCHANGED vars
  <2>1. /\ UNCHANGED <<top, bottom, buffers, taken, pushed, pc, idx, got>>
        /\ \A i : Load(1, i)' = Load(1, i)
    BY <1>5 DEF vars, Load, Slot, Capacity
  <2>2. LogicalBottom' = LogicalBottom /\ (At(Owner, "publish")' <=> At(Owner, "publish"))
    BY <2>1 DEF LogicalBottom, At
  <2>3. \A p \in Threads : (Claimed(p)' <=> Claimed(p)) /\ (Claimed(p) => Held(p)' = Held(p))
    BY <2>1 DEF Claimed, Held, At
  <2>. QED
    BY <2>1, <2>2, <2>3, QuietStep
<1>. QED
  BY <1>1, <1>2, <1>3, <1>4, <1>5 DEF Next, Threads

-----------------------------------------------------------------------------
(* The invariant and what follows from it.                                 *)

LEMMA FilledStep ==
  ASSUME FirstFacts, FirstFacts', Filled, Outcome
  PROVE  Filled'
<1>. DEFINE Holds == \A n \in DOMAIN Contents : Contents[n] \in 1..Published
            Handed == HandedOut \subseteq 1..Published
<1>0. Holds /\ Handed /\ Publishing' /\ pushed \in Nat /\ Contents \in Seq(Task)
  BY DEF Filled, Outcome, FirstFacts, IInv, TypeOK, ContentsFacts
<1>1. DOMAIN Contents = 1..Len(Contents) /\ Len(Contents) \in Nat
  BY <1>0
<1>2. CASE Stays
  BY <1>0, <1>2 DEF Filled, Publishing, Stays
<1>3. CASE Pushes
  <2>1. /\ Contents' = Append(Contents, pushed) /\ HandedOut' = HandedOut
        /\ Published = pushed - 1 /\ Published' = pushed /\ pushed \in 1..MaxPush
    BY <1>3 DEF Pushes
  <2>2. pushed \in Task
    BY <2>1, QueueAssumption DEF Task
  <2>3. /\ DOMAIN Contents' = 1..(Len(Contents) + 1)
        /\ \A n \in 1..Len(Contents) : Contents'[n] = Contents[n]
        /\ Contents'[Len(Contents) + 1] = pushed
    BY <1>0, <1>1, <2>1, <2>2, AppendProperties
  <2>4. 1..Published \subseteq 1..pushed
    BY <1>0, <2>1
  <2>5. \A n \in DOMAIN Contents' : Contents'[n] \in 1..pushed
    <3>. TAKE n \in DOMAIN Contents'
    <3>1. CASE n \in 1..Len(Contents)
      BY <1>0, <1>1, <2>3, <2>4, <3>1
    <3>2. CASE n = Len(Contents) + 1
      BY <2>1, <2>3, <3>2
    <3>. QED
      BY <1>1, <2>3, <3>1, <3>2
  <2>. QED
    BY <1>0, <2>1, <2>4, <2>5 DEF Filled, Publishing
<1>4. CASE Pops
  <2>1. /\ Contents # <<>> /\ Contents' = SubSeq(Contents, 1, Len(Contents) - 1)
        /\ HandedOut' = HandedOut \cup {Contents[Len(Contents)]} /\ Published' = Published
    BY <1>4 DEF Pops, D!PopBottom
  <2>2. Len(Contents) \in DOMAIN Contents
    BY <1>0, <1>1, <2>1, EmptySeq
  <2>3. \A n \in DOMAIN Contents' : n \in DOMAIN Contents /\ Contents'[n] = Contents[n]
    <3>1. PICK T : T = SubSeq(Contents, 1, Len(Contents) - 1)
      OBVIOUS
    <3>2. DOMAIN T = 1..(Len(Contents) - 1) /\ \A n \in 1..(Len(Contents) - 1) : T[n] = Contents[n]
      BY <1>0, <1>1, <2>2, <3>1
    <3>. QED
      BY <1>1, <2>1, <3>1, <3>2
  <2>4. Holds'
    BY <1>0, <2>1, <2>3
  <2>5. Handed'
    BY <1>0, <2>1, <2>2
  <2>. QED
    BY <1>0, <2>4, <2>5 DEF Filled, Publishing
<1>5. CASE Steals
  <2>1. /\ Contents # <<>> /\ Contents' = Tail(Contents)
        /\ HandedOut' = HandedOut \cup {Head(Contents)} /\ Published' = Published
    BY <1>5 DEF Steals, D!StealTop
  <2>2. 1 \in DOMAIN Contents /\ Head(Contents) = Contents[1]
    BY <1>0, <1>1, <2>1, EmptySeq
  <2>3. \A n \in DOMAIN Contents' : n + 1 \in DOMAIN Contents /\ Contents'[n] = Contents[n + 1]
    <3>1. PICK T : T = Tail(Contents)
      OBVIOUS
    <3>2. DOMAIN T = 1..(Len(Contents) - 1) /\ \A n \in 1..(Len(Contents) - 1) : T[n] = Contents[n + 1]
      BY <1>0, <1>1, <2>2, <3>1
    <3>. QED
      BY <1>1, <2>1, <3>1, <3>2
  <2>4. Holds'
    BY <1>0, <2>1, <2>3
  <2>5. Handed'
    BY <1>0, <2>1, <2>2
  <2>. QED
    BY <1>0, <2>4, <2>5 DEF Filled, Publishing
<1>. QED
  BY <1>2, <1>3, <1>4, <1>5 DEF Outcome

LEMMA InitRInv == Init => RInv /\ D!Init
<1>. SUFFICES ASSUME Init PROVE RInv /\ D!Init
  OBVIOUS
<1>1. IInv
  BY InitIInv
<1>2. /\ Owner \in Threads /\ pc[Owner] = "idle" /\ LogicalBottom = 0 /\ top = 0 /\ pushed = 0
      /\ \A p \in Threads : ~Claimed(p)
  BY DEF Init, Threads, LogicalBottom, Claimed
<1>3. Len(buffers[1]) = InitialCapacity
  BY QueueAssumption DEF Init, Empty
<1>4. Bounds
  BY <1>2, <1>3, QueueAssumption DEF Bounds, Init, At, Threads
<1>5. Contents = <<>>
  <2>1. LogicalBottom - top = 0
    BY <1>2
  <2>2. 1..(LogicalBottom - top) = {}
    BY <2>1
  <2>. QED
    BY <2>2 DEF Contents
<1>6. HandedOut = {}
  BY <1>2 DEF HandedOut, Init
<1>7. Filled
  BY <1>2, <1>5, <1>6 DEF Filled, At
<1>. QED
  BY <1>1, <1>4, <1>5, <1>6, <1>7 DEF RInv, D!Init

\* What a step of a first round does, whichever invariant one starts from.
LEMMA RoundStep == RInv /\ [Next]_vars /\ IInv' => RInv' /\ (FirstRound' => FirstFacts /\ Filled /\ Outcome)
<1>. SUFFICES ASSUME RInv, [Next]_vars, IInv'
              PROVE  RInv' /\ (FirstRound' => FirstFacts /\ Filled /\ Outcome)
  OBVIOUS
<1>1. Bounds'
  BY BoundsStep DEF RInv
<1>2. ASSUME FirstRound' PROVE FirstFacts /\ Filled /\ Outcome /\ Filled'
  <2>1. IInv /\ Bounds /\ FirstRound
    BY <1>2, RoundsEnd DEF RInv
  <2>2. Filled /\ Publishing
    BY <2>1 DEF RInv, Filled, Publishing
  <2>3. FirstFacts /\ FirstFacts'
    BY <1>1, <1>2, <2>1, FactsHold
  <2>4. Outcome
    BY <2>2, <2>3, StepOutcome
  <2>. QED
    BY <2>2, <2>3, <2>4, FilledStep
<1>. QED
  BY <1>1, <1>2 DEF RInv

\* In the first round the deque and the hands of the threads hold published
\* tasks only, and push() publishes the task it has stored.
THEOREM RoundInductive == Spec => []RInv
<1>1. Init => RInv
  BY InitRInv
<1>2. Spec => []IInv
  BY Invariance
<1>3. RInv /\ [Next]_vars /\ IInv' => RInv'
  BY RoundStep
<1>. QED
  BY <1>1, <1>2, <1>3, PTL DEF Spec

\* While every index has a slot of its own, pop() and steal() return no
\* moved-from Task (lines 87, 106).
THEOREM NeverEmptyFirstRound == Spec => []FirstRoundNeverEmpty
<1>1. RInv => FirstRoundNeverEmpty
  <2>. SUFFICES ASSUME RInv, FirstRound PROVE taken[NoTask] = 0
    BY DEF FirstRoundNeverEmpty, NeverEmptyTask
  <2>1. HandedOut \subseteq 1..Published /\ taken \in [Task -> Nat] /\ NoTask \in Task
    BY QueueAssumption DEF RInv, Filled, IInv, TypeOK, Task, NoTask
  <2>2. NoTask \notin HandedOut
    BY <2>1 DEF NoTask
  <2>. QED
    BY <2>1, <2>2 DEF HandedOut
<1>. QED
  BY <1>1, RoundInductive, PTL

\* Until the first round ends the queue implements the abstract deque: nothing
\* is lost, duplicated or invented, LIFO at the bottom and FIFO at the top.
THEOREM QueueIsDeque == Spec => IsDeque
<1>1. Init => D!Init
  BY InitRInv
<1>2. RInv /\ [Next]_vars /\ IInv' => [FirstRound' => D!Next]_(D!dequeVars)
  <2>. SUFFICES ASSUME RInv, [Next]_vars, IInv', FirstRound'
                PROVE  D!Next \/ UNCHANGED D!dequeVars
    OBVIOUS
  <2>1. Filled /\ Outcome /\ pushed \in Nat
    BY RoundStep DEF RInv, IInv, TypeOK
  <2>2. CASE Stays
    BY <2>2 DEF Stays, D!dequeVars
  <2>3. CASE Pushes
    <3>1. D!Known \subseteq 1..(pushed - 1)
      BY <2>1, <2>3 DEF Pushes, Filled, D!Known
    <3>2. pushed \in (1..MaxPush) \ D!Known
      BY <2>1, <2>3, <3>1 DEF Pushes
    <3>. QED
      BY <2>3, <3>2 DEF Pushes, D!Next, D!PushBottom
  <2>4. CASE Pops \/ Steals
    BY <2>4 DEF Pops, Steals, D!Next
  <2>. QED
    BY <2>1, <2>2, <2>3, <2>4 DEF Outcome
<1>. QED
  BY <1>1, <1>2, RoundInductive, Invariance, PTL DEF Spec, IsDeque

-----------------------------------------------------------------------------
(* Slots used again, as long as the first buffer lasts.                    *)

\* The end of what has been stored: push() has filled the slot it will publish.
EndOfTasks == IF At(Owner, "publish") THEN bottom + 1 ELSE LogicalBottom

\* A slot belongs to an index still in the deque or to one that was won.
InDeque(s) == \E i \in top..(EndOfTasks - 1) : Slot(1, i) = s
InClaim(s) == \E p \in Threads : Claimed(p) /\ Slot(1, idx[p]) = s

\* What makes OverwriteNeedsStall inductive: every Task in the first buffer has
\* such an index, and push() stores fewer than a round above top_.
SlotsOwned ==
  Len(buffers) = 1 =>
    /\ \A s \in 1..InitialCapacity : buffers[1][s] # NoTask => InDeque(s) \/ InClaim(s)
    /\ At(Owner, "store") => bottom - top < InitialCapacity - 1

\* Indices less than a round apart have different slots.
LEMMA SlotsApart ==
  ASSUME NEW c \in Nat \ {0}, NEW i \in Int, NEW j \in Int, i < j, j - i < c
  PROVE  i % c # j % c
<1>. SUFFICES ASSUME i % c = j % c PROVE FALSE
  OBVIOUS
<1>1. \A k \in Int : k = c * (k \div c) + (k % c) /\ k % c \in Int /\ k \div c \in Int
  OBVIOUS
<1>2. PICK a \in Int : i = c * a + (i % c)
  BY <1>1
<1>3. PICK b \in Int : j = c * b + (j % c)
  BY <1>1
<1>4. PICK d \in Int : j - i = c * d
  <2>0. PICK r \in Int : i % c = r
    BY <1>1
  <2>1. i = c * a + r /\ j = c * b + r
    BY <1>2, <1>3, <2>0
  <2>2. j - i = c * (b - a) /\ b - a \in Int
    BY <2>1
  <2>. QED
    BY <2>2
<1>5. CASE d <= 0
  <2>1. c * d <= 0
    BY <1>5
  <2>. QED
    BY <1>4, <2>1
<1>6. CASE d >= 1
  <2>1. c * d >= c
    BY <1>6
  <2>. QED
    BY <1>4, <2>1
<1>. QED
  BY <1>5, <1>6

\* The first buffer as its slots: their number never changes, and the steps that
\* write one are the ones that store or clear.
LEMMA FirstSlots ==
  ASSUME IInv, Bounds, Bounds', IInv', Len(buffers) = 1
  PROVE  /\ Capacity(1) = InitialCapacity /\ Capacity(1)' = InitialCapacity
         /\ \A i \in Int : Slot(1, i) \in 1..InitialCapacity /\ Slot(1, i)' = Slot(1, i)
         /\ buffer = 1 /\ \A p \in Threads : buf[p] = 1
         /\ DOMAIN buffers = {1} /\ DOMAIN buffers[1] = 1..InitialCapacity
<1>1. Capacity(1) = InitialCapacity /\ Capacity(1)' = InitialCapacity
  BY DEF Bounds, Capacity
<1>2. \A i \in Int : Slot(1, i) \in 1..InitialCapacity /\ Slot(1, i)' = Slot(1, i)
  BY <1>1, QueueAssumption DEF Slot
<1>3. buffers[1] \in Seq(Task) /\ DOMAIN buffers = {1} /\ buffer = 1 /\ \A p \in Threads : buf[p] = 1
  BY FirstBuffer
<1>4. DOMAIN buffers[1] = 1..InitialCapacity
  BY <1>3 DEF Bounds
<1>. QED
  BY <1>1, <1>2, <1>3, <1>4

LEMMA SlotsStep == IInv /\ Bounds /\ SlotsOwned /\ [Next]_vars /\ IInv' /\ Bounds' => SlotsOwned'
<1>. SUFFICES ASSUME IInv, Bounds, SlotsOwned, [Next]_vars, IInv', Bounds', Len(buffers') = 1
              PROVE  /\ \A s \in 1..InitialCapacity :
                          buffers'[1][s] # NoTask => InDeque(s)' \/ InClaim(s)'
                     /\ At(Owner, "store")' => bottom' - top' < InitialCapacity - 1
  BY DEF SlotsOwned
<1>1. Len(buffers) = 1
  BY OneStays
<1>2. /\ Capacity(1) = InitialCapacity
      /\ \A i \in Int : Slot(1, i) \in 1..InitialCapacity /\ Slot(1, i)' = Slot(1, i)
      /\ buffer = 1 /\ \A p \in Threads : buf[p] = 1
      /\ DOMAIN buffers = {1} /\ DOMAIN buffers[1] = 1..InitialCapacity
  BY <1>1, FirstSlots
<1>3. /\ top \in Nat /\ bottom \in Int /\ idx \in [Threads -> Int] /\ pc \in [Threads -> Labels]
      /\ top' \in Nat /\ bottom' \in Int /\ idx' \in [Threads -> Int] /\ pc' \in [Threads -> Labels]
      /\ Owner \in Threads /\ Owner \notin Thieves /\ Thieves \subseteq Threads
      /\ OwnerIndices /\ \A p \in Thieves : ThiefIndices(p)
      /\ InitialCapacity \in Nat /\ pc[Owner] \notin {"migrate", "migrate_clear"}
  BY <1>1, QueueAssumption DEF IInv, TypeOK, Threads, Bounds
<1>4. /\ \A s \in 1..InitialCapacity : buffers[1][s] # NoTask => InDeque(s) \/ InClaim(s)
      /\ At(Owner, "store") => bottom - top < InitialCapacity - 1
  BY <1>1 DEF SlotsOwned
<1>. DEFINE Kept == \A s \in 1..InitialCapacity : buffers'[1][s] # NoTask => InDeque(s)' \/ InClaim(s)'
            Room == At(Owner, "store")' => bottom' - top' < InitialCapacity - 1
\* A step that writes no slot and gives up no index.
<1>5. ASSUME buffers' = buffers,
             \A i \in top..(EndOfTasks - 1) :
               i \in (top..(EndOfTasks - 1))' \/ \E p \in Threads : Claimed(p)' /\ idx'[p] = i,
             \A p \in Threads : Claimed(p) => Claimed(p)' /\ idx'[p] = idx[p]
      PROVE  Kept
  <2>. SUFFICES ASSUME NEW s \in 1..InitialCapacity, buffers[1][s] # NoTask
                PROVE  InDeque(s)' \/ InClaim(s)'
    BY <1>5
  <2>1. CASE InDeque(s)
    <3>1. PICK i \in top..(EndOfTasks - 1) : Slot(1, i) = s
      BY <2>1 DEF InDeque
    <3>2. i \in Int
      BY <1>3, <3>1
    <3>3. Slot(1, i)' = s
      BY <1>2, <3>1, <3>2
    <3>4. CASE i \in (top..(EndOfTasks - 1))'
      BY <3>3, <3>4 DEF InDeque
    <3>5. CASE \E p \in Threads : Claimed(p)' /\ idx'[p] = i
      BY <3>3, <3>5, <1>5 DEF InClaim, Slot, Capacity
    <3>. QED
      BY <1>5, <3>1, <3>4, <3>5
  <2>2. CASE InClaim(s)
    <3>1. PICK p \in Threads : Claimed(p) /\ Slot(1, idx[p]) = s
      BY <2>2 DEF InClaim
    <3>2. Claimed(p)' /\ Slot(1, idx[p])' = s
      BY <1>5, <3>1 DEF Slot, Capacity
    <3>. QED
      BY <3>2 DEF InClaim
  <2>. QED
    BY <1>4, <2>1, <2>2
<1>. USE DEF At, Goto, Claimed, EndOfTasks, LogicalBottom
<1>6. CASE PushFits
  <2>1. bottom - top < InitialCapacity - 1
    BY <1>2, <1>3, <1>6 DEF PushFits, Full
  <2>2. /\ buffers' = buffers /\ top' = top /\ EndOfTasks' = EndOfTasks
        /\ \A p \in Threads : Claimed(p) => Claimed(p)' /\ idx'[p] = idx[p]
    BY <1>3, <1>6 DEF PushFits
  <2>. QED
    BY <1>5, <1>6, <2>1, <2>2 DEF PushFits
<1>7. CASE PushStore
  <2>1. bottom \in Int /\ pushed' \in Task /\ top <= bottom
    BY <1>3, <1>7 DEF PushStore, OwnerIndices, IInv, TypeOK, Task
  <2>2. /\ bottom' = bottom /\ top' = top /\ EndOfTasks' = bottom + 1 /\ EndOfTasks = bottom
        /\ \A p \in Threads : Claimed(p) => Claimed(p)' /\ idx'[p] = idx[p]
        /\ pc'[Owner] = "publish"
    BY <1>3, <1>7 DEF PushStore
  <2>3. ASSUME NEW s \in 1..InitialCapacity, buffers'[1][s] # NoTask
        PROVE  InDeque(s)' \/ InClaim(s)'
    <3>1. CASE s = Slot(1, bottom)
      <4>1. Slot(1, bottom)' = s /\ bottom' \in (top..(EndOfTasks - 1))'
        BY <1>2, <2>1, <2>2, <3>1
      <4>. QED
        BY <2>2, <4>1 DEF InDeque
    <3>2. CASE s # Slot(1, bottom)
      <4>1. buffers'[1][s] = buffers[1][s]
        BY <1>2, <1>7, <2>1, <3>2 DEF PushStore, Stored
      <4>2. CASE InDeque(s)
        <5>1. PICK i \in top..(bottom - 1) : Slot(1, i) = s
          BY <2>2, <4>2 DEF InDeque
        <5>2. i \in Int /\ i \in (top..(EndOfTasks - 1))'
          BY <1>3, <2>2, <5>1
        <5>3. Slot(1, i)' = s
          BY <1>2, <5>1, <5>2
        <5>. QED
          BY <5>2, <5>3 DEF InDeque
      <4>3. CASE InClaim(s)
        <5>1. PICK p \in Threads : Claimed(p) /\ Slot(1, idx[p]) = s
          BY <4>3 DEF InClaim
        <5>2. Claimed(p)' /\ idx'[p] = idx[p] /\ idx[p] \in Int
          BY <1>3, <2>2, <5>1
        <5>3. Slot(1, idx[p])' = s
          BY <1>2, <5>1, <5>2 DEF Slot, Capacity
        <5>. QED
          BY <5>2, <5>3 DEF InClaim
      <4>. QED
        BY <1>4, <2>3, <4>1, <4>2, <4>3
    <3>. QED
      BY <3>1, <3>2
  <2>. QED
    BY <2>2, <2>3
<1>8. CASE PushPublish \/ PopReserve \/ PopLoadTop \/ PopCas \/ PopRestore
  <2>1. /\ buffers' = buffers /\ pc'[Owner] # "store"
        /\ \A p \in Threads : Claimed(p) => Claimed(p)' /\ idx'[p] = idx[p]
    BY <1>3, <1>8 DEF PushPublish, PopReserve, PopLoadTop, AfterTop, PopCas, PopRestore
  <2>2. \A i \in top..(EndOfTasks - 1) :
          i \in (top..(EndOfTasks - 1))' \/ \E p \in Threads : Claimed(p)' /\ idx'[p] = i
    <3>0. CASE PushPublish
      BY <1>3, <3>0 DEF PushPublish
    <3>1. CASE PopReserve
      <4>1. EndOfTasks' = EndOfTasks /\ top' = top
        BY <1>3, <3>1 DEF PopReserve
      <4>. QED
        BY <4>1
    <3>2. CASE PopLoadTop
      BY <1>3, <3>2 DEF PopLoadTop, AfterTop, OwnerIndices
    <3>3. CASE PopCas
      BY <1>3, <3>3 DEF PopCas, OwnerIndices
    <3>4. CASE PopRestore
      BY <1>3, <3>4 DEF PopRestore, OwnerIndices
    <3>. QED
      BY <1>8, <3>0, <3>1, <3>2, <3>3, <3>4
  <2>. QED
    BY <1>5, <2>1, <2>2
<1>9. ASSUME NEW p \in Thieves, Steal(p)
      PROVE  Kept /\ Room
  <2>1. /\ buffers' = buffers /\ bottom' = bottom /\ pc'[Owner] = pc[Owner] /\ top' >= top
        /\ p \in Threads /\ EndOfTasks' = EndOfTasks
        /\ \A q \in Threads : Claimed(q) => Claimed(q)' /\ idx'[q] = idx[q]
    <3>1. p \in Threads /\ p # Owner
      BY <1>3
    <3>2. /\ buffers' = buffers /\ bottom' = bottom /\ top' >= top
          /\ \E l \in Labels : pc' = [pc EXCEPT ![p] = l]
      BY <1>3, <1>9 DEF Steal, StealTop, StealBottom, StealBuffer, StealCas, NothingAt, Labels
    <3>3. pc'[Owner] = pc[Owner]
      BY <1>3, <3>1, <3>2
    <3>4. EndOfTasks' = EndOfTasks
      BY <3>2, <3>3
    <3>5. ~Claimed(p)
      BY <1>9 DEF Steal, StealTop, StealBottom, StealBuffer, StealCas
    <3>6. \A q \in Threads \ {p} : pc'[q] = pc[q] /\ idx'[q] = idx[q]
      BY <1>3, <1>9 DEF Steal, StealTop, StealBottom, StealBuffer, StealCas
    <3>. QED
      BY <3>1, <3>2, <3>3, <3>4, <3>5, <3>6
  <2>2. \A i \in top..(EndOfTasks - 1) :
          i \in (top..(EndOfTasks - 1))' \/ \E q \in Threads : Claimed(q)' /\ idx'[q] = i
    <3>1. CASE StealCas(p)
      BY <1>3, <2>1, <3>1 DEF StealCas
    <3>2. CASE StealTop(p) \/ StealBottom(p) \/ StealBuffer(p)
      <4>1. top' = top
        BY <3>2 DEF StealTop, StealBottom, StealBuffer
      <4>. QED
        BY <2>1, <4>1
    <3>. QED
      BY <1>9, <3>1, <3>2 DEF Steal
  <2>3. Room
    <3>1. At(Owner, "store")' <=> At(Owner, "store")
      BY <2>1
    <3>. QED
      BY <1>3, <1>4, <2>1, <3>1
  <2>. QED
    BY <1>5, <2>1, <2>2, <2>3
<1>10. ASSUME NEW p \in Threads, ReadSlot(p)
       PROVE  Kept /\ Room
  <2>1. /\ buffers' = buffers /\ bottom' = bottom /\ top' = top /\ idx' = idx
        /\ EndOfTasks' = EndOfTasks /\ (pc'[Owner] = "store" => pc[Owner] = "store")
        /\ \A q \in Threads : Claimed(q) => Claimed(q)'
    BY <1>3, <1>10 DEF ReadSlot
  <2>. QED
    BY <1>4, <1>5, <2>1
<1>11. ASSUME NEW p \in Threads, ClearSlot(p)
       PROVE  Kept /\ Room
  <2>1. /\ bottom' = bottom /\ top' = top /\ idx' = idx
        /\ EndOfTasks' = EndOfTasks /\ (pc'[Owner] = "store" => pc[Owner] = "store")
        /\ \A q \in Threads : Claimed(q) /\ q # p => Claimed(q)'
    BY <1>3, <1>11 DEF ClearSlot
  <2>2. ASSUME NEW s \in 1..InitialCapacity, buffers'[1][s] # NoTask
        PROVE  InDeque(s)' \/ InClaim(s)'
    <3>0. idx[p] \in Int /\ Slot(1, idx[p]) \in 1..InitialCapacity
      BY <1>2, <1>3
    <3>1. s # Slot(1, idx[p]) /\ buffers'[1][s] = buffers[1][s]
      BY <1>2, <1>11, <2>2, <3>0 DEF ClearSlot, Stored
    <3>2. CASE InDeque(s)
      <4>1. PICK i \in top..(EndOfTasks - 1) : Slot(1, i) = s
        BY <3>2 DEF InDeque
      <4>2. i \in Int
        BY <1>3, <4>1
      <4>3. i \in (top..(EndOfTasks - 1))'
        <5>. HIDE DEF EndOfTasks
        <5>. QED
          BY <2>1, <4>1
      <4>4. Slot(1, i)' = s
        BY <1>2, <4>1, <4>2
      <4>. QED
        BY <4>3, <4>4 DEF InDeque
    <3>3. CASE InClaim(s)
      <4>1. PICK q \in Threads : Claimed(q) /\ Slot(1, idx[q]) = s
        BY <3>3 DEF InClaim
      <4>2. Claimed(q)' /\ idx[q] \in Int /\ idx' = idx
        BY <1>3, <2>1, <3>1, <4>1
      <4>3. Slot(1, idx[q])' = s
        BY <1>2, <4>1, <4>2 DEF Slot, Capacity
      <4>. QED
        BY <4>2, <4>3 DEF InClaim
    <3>. QED
      BY <1>4, <2>2, <3>1, <3>2, <3>3
  <2>3. Room
    BY <1>4, <2>1
  <2>. QED
    BY <2>2, <2>3
<1>12. CASE UNCHANGED vars
  BY <1>4, <1>5, <1>12 DEF vars
<1>13. ~(PushGrows \/ MigrateCopy \/ MigrateClear \/ PublishBuffer)
  <2>1. ~PushGrows
    <3>. SUFFICES ASSUME PushGrows PROVE FALSE
      OBVIOUS
    <3>1. Len(buffers') = 2
      BY <1>1, GrowsOn
    <3>. QED
      BY <3>1
  <2>. QED
    BY <1>3, <2>1 DEF MigrateCopy, MigrateClear, PublishBuffer
<1>. QED
  BY <1>6, <1>7, <1>8, <1>9, <1>10, <1>11, <1>12, <1>13 DEF Next, Push, Pop, Take, Threads

\* As long as grow() has not run, push() stores over a task only when a stalled
\* thief has won an index of that slot and not emptied it: a task that is in the
\* deque, or that the owner is popping, is never overwritten, however often the
\* slots are used again (lines 57, 102-107).
THEOREM OverwritesNeedStall == Spec => []OverwriteNeedsStall
<1>. DEFINE Reuse == IInv /\ Bounds /\ SlotsOwned
<1>1. Init => Reuse
  <2>. SUFFICES ASSUME Init PROVE SlotsOwned
    BY InitRInv DEF RInv
  <2>1. buffers[1] = Empty(InitialCapacity) /\ pc[Owner] = "idle"
    BY DEF Init, Threads
  <2>. QED
    BY <2>1 DEF SlotsOwned, Empty, At
<1>2. Reuse /\ [Next]_vars /\ IInv' => Reuse'
  BY BoundsStep, SlotsStep
<1>3. Reuse => OverwriteNeedsStall
  <2>. SUFFICES ASSUME Reuse, At(Owner, "store"), Len(buffers) = 1, Load(buffer, bottom) # NoTask
                PROVE  \E p \in Thieves : Claimed(p) /\ Slot(buffer, idx[p]) = Slot(buffer, bottom)
    BY DEF OverwriteNeedsStall
  <2>1. /\ buffer = 1 /\ Capacity(1) = InitialCapacity /\ bottom \in Int /\ top \in Nat
        /\ InitialCapacity \in Nat \ {0}
    BY FirstBuffer, QueueAssumption DEF IInv, TypeOK, Bounds, Capacity
  <2>2. Slot(1, bottom) \in 1..InitialCapacity /\ buffers[1][Slot(1, bottom)] # NoTask
    BY <2>1 DEF Slot, Load
  <2>3. EndOfTasks = bottom /\ bottom - top < InitialCapacity - 1 /\ ~Claimed(Owner)
    BY DEF SlotsOwned, At, EndOfTasks, LogicalBottom, Claimed
  <2>4. ~InDeque(Slot(1, bottom))
    <3>. SUFFICES ASSUME NEW i \in top..(bottom - 1) PROVE Slot(1, i) # Slot(1, bottom)
      BY <2>3 DEF InDeque
    <3>1. i \in Int /\ i < bottom /\ bottom - i < InitialCapacity
      BY <2>1, <2>3
    <3>2. i % InitialCapacity # bottom % InitialCapacity
      BY <2>1, <3>1, SlotsApart
    <3>3. i % InitialCapacity \in Nat /\ bottom % InitialCapacity \in Nat
      BY <2>1, <3>1
    <3>. QED
      BY <2>1, <3>2, <3>3 DEF Slot
  <2>5. InClaim(Slot(1, bottom))
    BY <2>2, <2>4 DEF SlotsOwned
  <2>. QED
    BY <2>1, <2>3, <2>5 DEF InClaim, Threads
<1>. HIDE DEF Reuse
<1>4. Reuse => IInv
  BY DEF Reuse
<1>. QED
  BY <1>1, <1>2, <1>3, Invariance, PTL DEF Spec
=============================================================================

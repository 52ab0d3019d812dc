-------------------------- MODULE FencedQueueProofs --------------------------
(***************************************************************************)
(* Proofs about FencedQueue for any set of thieves and number of pushes:   *)
(* what the two fences of the deque give although the owner's stores reach *)
(* memory in another order than it made them.                              *)
(***************************************************************************)
EXTENDS FencedQueue, SequenceTheorems, TLAPS

-----------------------------------------------------------------------------
(* The inductive invariant.                                                *)

Store == [kind : {"slot", "bottom", "fence"}, at : Nat, val : Int]

\* The k-th waiting store goes to location (d, i); the last one does; none does.
To(k, d, i) == writes[k].kind = d /\ writes[k].at = i
Latest(k, d, i) == To(k, d, i) /\ \A j \in DOMAIN writes : To(j, d, i) => j <= k
None(d, i) == \A k \in DOMAIN writes : ~To(k, d, i)

FenceAfter(j) == \E f \in DOMAIN writes : j < f /\ writes[f].kind = "fence"
FenceBetween(j, k) == \E f \in DOMAIN writes : j < f /\ f < k /\ writes[f].kind = "fence"

Indices ==
  /\ top <= LogicalBottom /\ LogicalBottom <= pushed /\ bottom <= LogicalBottom
  /\ pc[Owner] \in {"idle", "pop_top", "pop_cas"}
  /\ At(Owner, "pop_cas") => writes = <<>> /\ top >= own

\* The owner's stores are such that it sees bottom_ as own, and of several to
\* one location there is a last one.
SlotTyped(k) == writes[k].kind = "slot" => writes[k].at \in Index /\ writes[k].val \in Task
BottomTyped(k) == writes[k].kind = "bottom" => writes[k].at = 0 /\ writes[k].val \in -1..LogicalBottom
StoresTyped == \A k \in DOMAIN writes : SlotTyped(k) /\ BottomTyped(k)
OwnBottom ==
  \/ None("bottom", 0) /\ bottom = own
  \/ \E k \in DOMAIN writes : Latest(k, "bottom", 0) /\ writes[k].val = own
SlotsHaveLatest ==
  \A i \in Index : None("slot", i) \/ \E k \in DOMAIN writes : Latest(k, "slot", i)

\* A store to the slot of an index that can still be taken reaches memory before
\* any bottom_ that shows the index: a fence lies between them.
Behind(j) ==
  /\ bottom <= writes[j].at
  /\ \A k \in DOMAIN writes :
       writes[k].kind = "bottom" /\ writes[j].at < writes[k].val => FenceBetween(j, k)
  /\ writes[j].at < LogicalBottom => FenceAfter(j)
Ordered == \A j \in DOMAIN writes : writes[j].kind = "slot" /\ top <= writes[j].at => Behind(j)

Reading(p) == At(p, "read")
ThiefOK(p) ==
  /\ pc[p] \in {"idle", "steal_bottom", "steal_cas", "read"}
  /\ pc[p] \in {"steal_bottom", "steal_cas"} => idx[p] <= top
  /\ At(p, "steal_cas") /\ idx[p] = top => top < LogicalBottom /\ None("slot", top)
  /\ Reading(p) => idx[p] < top /\ idx[p] \in Index /\ None("slot", idx[p])
ThievesOK == \A p \in Thieves : ThiefOK(p)
Apart == \A p, q \in Thieves : Reading(p) /\ Reading(q) /\ p # q => idx[p] # idx[q]

\* The indices whose task has not been returned: those in the deque and those
\* that a thief has won.  Each holds a task of its own.
Live == (top..(LogicalBottom - 1)) \cup {idx[p] : p \in {q \in Thieves : Reading(q)}}
LiveFresh == \A i \in Live : OwnerSees(i) \in 1..pushed /\ taken[OwnerSees(i)] = 0
LiveDistinct == \A i, j \in Live : i # j => OwnerSees(i) # OwnerSees(j)
TakenFew == \A x \in Task : taken[x] <= 1 /\ (x = NoTask \/ x > pushed => taken[x] = 0)
Fresh == LiveFresh /\ LiveDistinct /\ TakenFew

StoresOK == StoresTyped /\ OwnBottom /\ SlotsHaveLatest /\ Ordered
Inv == TypeOK /\ Indices /\ StoresOK /\ ThievesOK /\ Apart /\ Fresh

-----------------------------------------------------------------------------
(* What the owner sees.                                                    *)

LEMMA MaxIs == ASSUME NEW S \in SUBSET Nat, NEW k \in S, \A j \in S : j <= k PROVE Max(S) = k
<1>1. \A x \in S : (\A y \in S : x >= y) => x = k
  OBVIOUS
<1>. QED
  BY <1>1 DEF Max

SeesFacts ==
  \A i : /\ None("slot", i) => OwnerSees(i) = slots[i]
         /\ \A k \in DOMAIN writes : Latest(k, "slot", i) => OwnerSees(i) = writes[k].val

WritesTyped == writes \in Seq(Store)

LEMMA SeesAre == WritesTyped => SeesFacts
<1>. SUFFICES ASSUME writes \in Seq(Store), NEW i
              PROVE  /\ None("slot", i) => OwnerSees(i) = slots[i]
                     /\ \A k \in DOMAIN writes : Latest(k, "slot", i) => OwnerSees(i) = writes[k].val
  BY DEF SeesFacts, WritesTyped
<1>. DEFINE S == {k \in DOMAIN writes : writes[k].kind = "slot" /\ writes[k].at = i}
<1>1. S \in SUBSET Nat
  OBVIOUS
<1>2. OwnerSees(i) = IF S = {} THEN slots[i] ELSE writes[Max(S)].val
  BY DEF OwnerSees
<1>3. ASSUME NEW k \in DOMAIN writes, Latest(k, "slot", i) PROVE OwnerSees(i) = writes[k].val
  <2>1. k \in S /\ \A j \in S : j <= k
    BY <1>3 DEF Latest, To
  <2>. HIDE DEF S
  <2>2. Max(S) = k
    BY <1>1, <2>1, MaxIs
  <2>. QED
    BY <1>2, <2>1, <2>2
<1>4. ASSUME None("slot", i) PROVE OwnerSees(i) = slots[i]
  <2>1. S = {}
    BY <1>4 DEF None, To
  <2>. QED
    BY <1>2, <2>1
<1>. QED
  BY <1>3, <1>4

LEMMA SeesAreNext == WritesTyped' => SeesFacts'
BY SeesAre, PTL

LEMMA SameSees == UNCHANGED <<writes, slots>> => \A i : OwnerSees(i)' = OwnerSees(i)
BY DEF OwnerSees

-----------------------------------------------------------------------------
(* Sequences.                                                              *)

LEMMA RemovedIs ==
  ASSUME NEW X, NEW s \in Seq(X), NEW k \in 1..Len(s), NEW t, t = RemoveAt(s, k)
  PROVE  /\ t \in Seq(X) /\ Len(t) = Len(s) - 1
         /\ \A n \in 1..Len(t) : t[n] = s[IF n < k THEN n ELSE n + 1]
<1>1. Len(s) \in Nat /\ k \in Nat
  OBVIOUS
<1>2. PICK a : a = SubSeq(s, 1, k - 1)
  OBVIOUS
<1>3. PICK b : b = SubSeq(s, k + 1, Len(s))
  OBVIOUS
<1>4. a \in Seq(X) /\ Len(a) = k - 1 /\ \A n \in 1..(k - 1) : a[n] = s[n]
  BY <1>1, <1>2
<1>5. b \in Seq(X) /\ Len(b) = Len(s) - k /\ \A n \in 1..(Len(s) - k) : b[n] = s[n + k]
  BY <1>1, <1>3
<1>6. t = a \o b
  BY <1>2, <1>3 DEF RemoveAt
<1>7. t \in Seq(X) /\ Len(t) = Len(s) - 1
  BY <1>1, <1>4, <1>5, <1>6
<1>8. ASSUME NEW n \in 1..Len(t) PROVE t[n] = s[IF n < k THEN n ELSE n + 1]
  <2>1. CASE n < k
    <3>1. n \in 1..Len(a)
      BY <1>1, <1>4, <2>1
    <3>. QED
      BY <1>4, <1>5, <1>6, <2>1, <3>1
  <2>2. CASE ~(n < k)
    <3>1. n - (k - 1) \in 1..(Len(s) - k) /\ (n - (k - 1)) + k = n + 1
      BY <1>1, <1>7, <2>2
    <3>2. t[n] = b[n - (k - 1)]
      BY <1>1, <1>4, <1>5, <1>6, <1>7, <2>2
    <3>. QED
      BY <1>5, <2>2, <3>1, <3>2
  <2>. QED
    BY <2>1, <2>2
<1>. QED
  BY <1>7, <1>8

-----------------------------------------------------------------------------
(* A store reaches memory.                                                 *)

\* h gives each store that still waits the place it had: order is kept, and only
\* the k-th is missing, and a fence that had come to the head.
Shift(h, k) ==
  /\ writes' \in Seq(Store) /\ h \in [DOMAIN writes' -> DOMAIN writes]
  /\ \A n \in DOMAIN writes' : writes'[n] = writes[h[n]] /\ h[n] # k
  /\ \A m, n \in DOMAIN writes' : m < n <=> h[m] < h[n]
  /\ \A j \in DOMAIN writes : j # k =>
       \/ \E n \in DOMAIN writes' : h[n] = j
       \/ writes[j].kind = "fence" /\ \A i \in DOMAIN writes : i < j => i = k

LEMMA ShiftExists ==
  ASSUME writes \in Seq(Store), NEW k \in DOMAIN writes, MayCommit(k),
         writes' = PastFence(RemoveAt(writes, k))
  PROVE  \E h : Shift(h, k)
<1>1. PICK t : t = RemoveAt(writes, k)
  OBVIOUS
<1>2. /\ DOMAIN writes = 1..Len(writes) /\ Len(writes) \in Nat /\ k \in 1..Len(writes) /\ k \in Nat
  OBVIOUS
<1>3. /\ t \in Seq(Store) /\ Len(t) = Len(writes) - 1 /\ DOMAIN t = 1..Len(t) /\ Len(t) \in Nat
      /\ \A n \in 1..Len(t) : t[n] = writes[IF n < k THEN n ELSE n + 1]
  <2>1. /\ t \in Seq(Store) /\ Len(t) = Len(writes) - 1
        /\ \A n \in 1..Len(t) : t[n] = writes[IF n < k THEN n ELSE n + 1]
    <3>1. writes \in Seq(Store) /\ k \in 1..Len(writes)
      BY <1>2
    <3>. QED
      BY <1>1, <3>1, RemovedIs
  <2>2. DOMAIN t = 1..Len(t) /\ Len(t) \in Nat
    BY <2>1
  <2>. QED
    BY <2>1, <2>2
<1>4. CASE t # <<>> /\ Head(t) = Fence
  <2>1. t[1] = Fence /\ 1 \in 1..Len(t) /\ t[1].kind = "fence"
    BY <1>3, <1>4, EmptySeq DEF Fence
  <2>2. k = 1
    <3>. SUFFICES ASSUME 1 < k PROVE FALSE
      BY <1>2
    <3>1. writes[1].kind = "fence"
      BY <1>3, <2>1
    <3>. QED
      BY <1>2, <3>1 DEF MayCommit
  <2>3. PICK u : u = Tail(t)
    OBVIOUS
  <2>4. u \in Seq(Store) /\ Len(u) = Len(t) - 1 /\ \A n \in 1..Len(u) : u[n] = t[n + 1]
    BY <1>3, <1>4, <2>3, HeadTailProperties
  <2>5. writes' = u /\ DOMAIN u = 1..Len(u) /\ Len(u) = Len(writes) - 2 /\ Len(u) \in Nat
    <3>1. writes' = u
      BY <1>1, <1>4, <2>3 DEF PastFence
    <3>2. DOMAIN u = 1..Len(u) /\ Len(u) \in Nat
      BY <2>4
    <3>. QED
      BY <1>2, <1>3, <2>4, <3>1, <3>2
  <2>6. \A n \in 1..Len(u) : u[n] = writes[n + 2]
    BY <1>2, <1>3, <2>2, <2>4, <2>5
  <2>7. writes[2].kind = "fence"
    BY <1>3, <2>1, <2>2
  <2>8. PICK h : h = [n \in 1..Len(u) |-> n + 2]
    OBVIOUS
  <2>9. h \in [DOMAIN writes' -> DOMAIN writes]
    BY <1>2, <2>5, <2>8
  <2>10. \A n \in DOMAIN writes' : writes'[n] = writes[h[n]] /\ h[n] # k
    <3>. SUFFICES ASSUME NEW n \in DOMAIN writes' PROVE writes'[n] = writes[h[n]] /\ h[n] # k
      OBVIOUS
    <3>1. n \in 1..Len(u) /\ h[n] = n + 2 /\ n \in Nat
      BY <2>5, <2>8
    <3>. QED
      BY <2>2, <2>5, <2>6, <3>1
  <2>11. \A m, n \in DOMAIN writes' : m < n <=> h[m] < h[n]
    BY <2>5, <2>8
  <2>12. ASSUME NEW j \in DOMAIN writes, j # k
         PROVE  \/ \E n \in DOMAIN writes' : h[n] = j
                \/ writes[j].kind = "fence" /\ \A i \in DOMAIN writes : i < j => i = k
    <3>1. CASE j = 2
      BY <1>2, <2>2, <2>7, <3>1
    <3>2. CASE j # 2
      <4>1. j - 2 \in DOMAIN writes' /\ h[j - 2] = j
        BY <1>2, <2>2, <2>5, <2>8, <2>12, <3>2
      <4>. QED
        BY <4>1
    <3>. QED
      BY <3>1, <3>2
  <2>13. writes' \in Seq(Store)
    BY <2>4, <2>5
  <2>. QED
    BY <2>9, <2>10, <2>11, <2>12, <2>13 DEF Shift
<1>5. CASE ~(t # <<>> /\ Head(t) = Fence)
  <2>1. writes' = t
    BY <1>1, <1>5 DEF PastFence
  <2>2. PICK h : h = [n \in 1..Len(t) |-> IF n < k THEN n ELSE n + 1]
    OBVIOUS
  <2>3. h \in [DOMAIN writes' -> DOMAIN writes]
    BY <1>2, <1>3, <2>1, <2>2
  <2>4. \A n \in DOMAIN writes' : writes'[n] = writes[h[n]] /\ h[n] # k
    BY <1>2, <1>3, <2>1, <2>2
  <2>5. \A m, n \in DOMAIN writes' : m < n <=> h[m] < h[n]
    BY <1>2, <1>3, <2>1, <2>2
  <2>6. ASSUME NEW j \in DOMAIN writes, j # k PROVE \E n \in DOMAIN writes' : h[n] = j
    <3>1. CASE j < k
      <4>1. j \in DOMAIN writes' /\ h[j] = j
        BY <1>2, <1>3, <2>1, <2>2, <3>1
      <4>. QED
        BY <4>1
    <3>2. CASE ~(j < k)
      <4>1. j - 1 \in DOMAIN writes' /\ h[j - 1] = j
        BY <1>2, <1>3, <2>1, <2>2, <2>6, <3>2
      <4>. QED
        BY <4>1
    <3>. QED
      BY <3>1, <3>2
  <2>7. writes' \in Seq(Store)
    BY <1>3, <2>1
  <2>8. \A j \in DOMAIN writes : j # k =>
          \/ \E n \in DOMAIN writes' : h[n] = j
          \/ writes[j].kind = "fence" /\ \A i \in DOMAIN writes : i < j => i = k
    BY <2>6
  <2>. QED
    BY <2>3, <2>4, <2>5, <2>7, <2>8 DEF Shift
<1>. QED
  BY <1>4, <1>5

ShiftKeeps(h, k) ==
  /\ \A n \in DOMAIN writes' : h[n] \in DOMAIN writes
  /\ \A n \in DOMAIN writes' : \A d, i : To(n, d, i)' <=> To(h[n], d, i)
  /\ \A d, i : None(d, i) => None(d, i)'
  /\ \A d, i : d # "fence" /\ Latest(k, d, i) => None(d, i)'
  /\ \A j \in DOMAIN writes : \A d, i : d # "fence" /\ j # k /\ Latest(j, d, i) =>
       \E n \in DOMAIN writes' : h[n] = j /\ Latest(n, d, i)'
  /\ \A m, n \in DOMAIN writes' : FenceBetween(h[m], h[n]) => FenceBetween(m, n)'
  /\ \A m \in DOMAIN writes' : FenceAfter(h[m]) => FenceAfter(m)'

LEMMA ShiftFacts ==
  ASSUME writes \in Seq(Store), NEW k \in DOMAIN writes, MayCommit(k), NEW h, Shift(h, k)
  PROVE  ShiftKeeps(h, k)
<1>0. /\ DOMAIN writes \subseteq Nat /\ DOMAIN writes' \subseteq Nat
      /\ \A n \in DOMAIN writes' : h[n] \in DOMAIN writes /\ h[n] # k /\ writes'[n] = writes[h[n]]
      /\ \A m, n \in DOMAIN writes' : m < n <=> h[m] < h[n]
      /\ \A j \in DOMAIN writes : j # k =>
           \/ \E n \in DOMAIN writes' : h[n] = j
           \/ writes[j].kind = "fence" /\ \A i \in DOMAIN writes : i < j => i = k
  <2>1. writes' \in Seq(Store)
    BY DEF Shift
  <2>2. DOMAIN writes \subseteq Nat /\ DOMAIN writes' \subseteq Nat
    BY <2>1
  <2>. QED
    BY <2>2 DEF Shift
<1>1. \A n \in DOMAIN writes' : \A d, i : To(n, d, i)' <=> To(h[n], d, i)
  BY <1>0 DEF To
<1>2. \A d, i : None(d, i) => None(d, i)'
  BY <1>0, <1>1 DEF None
<1>3. ASSUME NEW d, NEW i, Latest(k, d, i) PROVE None(d, i)'
  <2>. SUFFICES ASSUME NEW n \in DOMAIN writes', To(n, d, i)' PROVE FALSE
    BY DEF None
  <2>1. To(h[n], d, i) /\ h[n] \in DOMAIN writes /\ h[n] # k
    BY <1>0, <1>1
  <2>2. h[n] <= k /\ h[n] \in Nat /\ k \in Nat
    BY <1>0, <1>3, <2>1 DEF Latest
  <2>3. h[n] \in 1..(k - 1)
    BY <2>1, <2>2
  <2>4. To(k, d, i)
    BY <1>3 DEF Latest
  <2>. QED
    BY <2>1, <2>3, <2>4 DEF MayCommit, To
<1>4. ASSUME NEW j \in DOMAIN writes, NEW d, NEW i, d # "fence", j # k, Latest(j, d, i)
      PROVE  \E n \in DOMAIN writes' : h[n] = j /\ Latest(n, d, i)'
  <2>1. To(j, d, i)
    BY <1>4 DEF Latest
  <2>2. PICK n \in DOMAIN writes' : h[n] = j
    BY <1>0, <1>4, <2>1 DEF To
  <2>3. To(n, d, i)'
    BY <1>1, <2>1, <2>2
  <2>4. ASSUME NEW m \in DOMAIN writes', To(m, d, i)' PROVE m <= n
    <3>1. To(h[m], d, i)
      BY <1>1, <2>4
    <3>2. ~(j < h[m])
      BY <1>0, <1>4, <3>1 DEF Latest
    <3>. QED
      BY <1>0, <2>2, <3>2
  <2>. QED
    BY <2>2, <2>3, <2>4 DEF Latest
<1>5. ASSUME NEW m \in DOMAIN writes', NEW f \in DOMAIN writes, writes[f].kind = "fence", h[m] < f
      PROVE  \E x \in DOMAIN writes' : h[x] = f
  <2>1. f # k
    BY <1>5 DEF MayCommit
  <2>. QED
    BY <1>0, <1>5, <2>1
<1>6. ASSUME NEW m \in DOMAIN writes', NEW n \in DOMAIN writes', FenceBetween(h[m], h[n])
      PROVE  FenceBetween(m, n)'
  <2>1. PICK f \in DOMAIN writes : h[m] < f /\ f < h[n] /\ writes[f].kind = "fence"
    BY <1>6 DEF FenceBetween
  <2>2. PICK x \in DOMAIN writes' : h[x] = f
    BY <1>5, <2>1
  <2>3. m < x /\ x < n /\ writes'[x].kind = "fence"
    BY <1>0, <2>1, <2>2
  <2>. QED
    BY <2>3 DEF FenceBetween
<1>7. ASSUME NEW m \in DOMAIN writes', FenceAfter(h[m]) PROVE FenceAfter(m)'
  <2>1. PICK f \in DOMAIN writes : h[m] < f /\ writes[f].kind = "fence"
    BY <1>7 DEF FenceAfter
  <2>2. PICK x \in DOMAIN writes' : h[x] = f
    BY <1>5, <2>1
  <2>3. m < x /\ writes'[x].kind = "fence"
    BY <1>0, <2>1, <2>2
  <2>. QED
    BY <2>3 DEF FenceAfter
<1>. QED
  BY <1>0, <1>1, <1>2, <1>3, <1>4, <1>6, <1>7 DEF ShiftKeeps

LEMMA BasicTypes ==
  ASSUME Inv
  PROVE  /\ writes \in Seq(Store) /\ Owner \in Threads /\ Owner \notin Thieves
         /\ top \in Nat /\ bottom \in Int /\ own \in Int /\ pushed \in Nat /\ LogicalBottom \in Int
         /\ top <= LogicalBottom /\ LogicalBottom <= pushed /\ pushed <= MaxPush
         /\ Thieves \subseteq Threads /\ MaxPush \in Nat
         /\ pc \in [Threads -> {"idle", "pop_top", "pop_cas", "steal_bottom", "steal_cas", "read"}]
BY FencedAssumption DEF Inv, TypeOK, Indices, LogicalBottom, Threads, Store

LEMMA LiveInIndex == ASSUME Inv PROVE Live \subseteq Index
<1>1. top..(LogicalBottom - 1) \subseteq Index
  BY BasicTypes DEF Index
<1>2. \A p \in Thieves : Reading(p) => idx[p] \in Index
  BY DEF Inv, ThievesOK, ThiefOK
<1>. QED
  BY <1>1, <1>2 DEF Live

LEMMA FreshKept ==
  ASSUME Fresh, Live' = Live, \A i \in Live : OwnerSees(i)' = OwnerSees(i), UNCHANGED <<taken, pushed>>
  PROVE  Fresh'
<1>1. LiveFresh'
  BY DEF Fresh, LiveFresh
<1>2. LiveDistinct'
  BY DEF Fresh, LiveDistinct
<1>3. TakenFew'
  BY DEF Fresh, TakenFew
<1>. QED
  BY <1>1, <1>2, <1>3 DEF Fresh

\* The store that reaches memory, and where it comes from.
Reaches(k) ==
  /\ MayCommit(k) /\ writes' = PastFence(RemoveAt(writes, k))
  /\ \/ writes[k].kind = "bottom" /\ bottom' = writes[k].val /\ UNCHANGED slots
     \/ /\ writes[k].kind = "slot" /\ slots' = [slots EXCEPT ![writes[k].at] = writes[k].val]
        /\ UNCHANGED bottom
  /\ UNCHANGED <<top, own, pushed, pc, idx, taken>>

LEMMA CommitIs ==
  ASSUME Inv, Commit
  PROVE  \E k \in DOMAIN writes : Reaches(k) /\ \E h : Shift(h, k) /\ ShiftKeeps(h, k)
<1>1. PICK k \in DOMAIN writes : Reaches(k)
  BY DEF Commit, Reaches
<1>2. MayCommit(k) /\ writes' = PastFence(RemoveAt(writes, k)) /\ writes \in Seq(Store)
  BY <1>1, BasicTypes DEF Reaches
<1>3. PICK h : Shift(h, k)
  BY <1>2, ShiftExists
<1>4. ShiftKeeps(h, k)
  BY <1>2, <1>3, ShiftFacts
<1>. QED
  BY <1>1, <1>3, <1>4

\* The owner does not notice.
LEMMA CommitSees ==
  ASSUME Inv, NEW k \in DOMAIN writes, Reaches(k), NEW h, Shift(h, k), ShiftKeeps(h, k)
  PROVE  \A i \in Index : OwnerSees(i)' = OwnerSees(i)
<1>. SUFFICES ASSUME NEW i \in Index PROVE OwnerSees(i)' = OwnerSees(i)
  OBVIOUS
<1>1. writes \in Seq(Store) /\ writes' \in Seq(Store)
  BY BasicTypes DEF Shift
<1>2. SeesFacts /\ SeesFacts'
  BY <1>1, SeesAre, SeesAreNext DEF WritesTyped
<1>3. slots \in [Index -> Task] /\ SlotsHaveLatest
  BY DEF Inv, TypeOK, StoresOK
<1>4. CASE None("slot", i)
  <2>1. None("slot", i)'
    BY <1>4 DEF ShiftKeeps
  <2>2. slots'[i] = slots[i]
    BY <1>3, <1>4 DEF Reaches, None, To
  <2>. QED
    BY <1>2, <1>4, <2>1, <2>2 DEF SeesFacts
<1>5. CASE Latest(k, "slot", i)
  <2>1. None("slot", i)'
    BY <1>5 DEF ShiftKeeps
  <2>2. slots'[i] = writes[k].val
    BY <1>3, <1>5 DEF Reaches, Latest, To
  <2>. QED
    BY <1>2, <1>5, <2>1, <2>2 DEF SeesFacts
<1>6. ASSUME NEW j \in DOMAIN writes, Latest(j, "slot", i), j # k PROVE OwnerSees(i)' = OwnerSees(i)
  <2>1. PICK n \in DOMAIN writes' : h[n] = j /\ Latest(n, "slot", i)'
    BY <1>6 DEF ShiftKeeps
  <2>2. writes'[n] = writes[j]
    BY <2>1 DEF Shift
  <2>. QED
    BY <1>2, <1>6, <2>1, <2>2 DEF SeesFacts
<1>. QED
  BY <1>3, <1>4, <1>5, <1>6 DEF SlotsHaveLatest

LEMMA CommitStores ==
  ASSUME Inv, NEW k \in DOMAIN writes, Reaches(k), NEW h, Shift(h, k), ShiftKeeps(h, k)
  PROVE  StoresOK'
<1>0. /\ LogicalBottom' = LogicalBottom /\ top' = top /\ own' = own
      /\ StoresTyped /\ OwnBottom /\ SlotsHaveLatest /\ Ordered
      /\ \A n \in DOMAIN writes' : h[n] \in DOMAIN writes /\ h[n] # k /\ writes'[n] = writes[h[n]]
      /\ top \in Nat /\ LogicalBottom \in Int /\ bottom \in Int
  BY BasicTypes DEF Reaches, LogicalBottom, At, Inv, StoresOK, Shift, ShiftKeeps
<1>1. StoresTyped'
  BY <1>0 DEF StoresTyped, SlotTyped, BottomTyped
<1>2. OwnBottom'
  <2>1. CASE None("bottom", 0)
    <3>1. None("bottom", 0)'
      BY <2>1 DEF ShiftKeeps
    <3>2. bottom = own
      BY <1>0, <2>1 DEF OwnBottom, None, Latest
    <3>3. writes[k].kind # "bottom"
      BY <1>0, <2>1 DEF None, To, StoresTyped, BottomTyped
    <3>. QED
      BY <1>0, <3>1, <3>2, <3>3 DEF OwnBottom, Reaches
  <2>2. CASE Latest(k, "bottom", 0) /\ writes[k].val = own
    <3>1. None("bottom", 0)'
      BY <2>2 DEF ShiftKeeps
    <3>2. bottom' = own
      BY <2>2 DEF Reaches, Latest, To
    <3>. QED
      BY <1>0, <3>1, <3>2 DEF OwnBottom
  <2>3. ASSUME NEW j \in DOMAIN writes, Latest(j, "bottom", 0), writes[j].val = own, j # k
        PROVE  OwnBottom'
    <3>1. PICK n \in DOMAIN writes' : h[n] = j /\ Latest(n, "bottom", 0)'
      BY <2>3 DEF ShiftKeeps
    <3>2. writes'[n].val = own
      BY <1>0, <2>3, <3>1
    <3>. QED
      BY <1>0, <3>1, <3>2 DEF OwnBottom
  <2>. QED
    BY <1>0, <2>1, <2>2, <2>3 DEF OwnBottom
<1>3. SlotsHaveLatest'
  <2>. SUFFICES ASSUME NEW i \in Index
                PROVE  None("slot", i)' \/ \E n \in DOMAIN writes' : Latest(n, "slot", i)'
    BY DEF SlotsHaveLatest
  <2>1. CASE None("slot", i)
    BY <2>1 DEF ShiftKeeps
  <2>2. CASE Latest(k, "slot", i)
    BY <2>2 DEF ShiftKeeps
  <2>3. ASSUME NEW j \in DOMAIN writes, Latest(j, "slot", i), j # k
        PROVE  \E n \in DOMAIN writes' : Latest(n, "slot", i)'
    BY <2>3 DEF ShiftKeeps
  <2>. QED
    BY <1>0, <2>1, <2>2, <2>3 DEF SlotsHaveLatest
<1>4. Ordered'
  <2>. SUFFICES ASSUME NEW n \in DOMAIN writes', writes'[n].kind = "slot", top' <= writes'[n].at
                PROVE  Behind(n)'
    BY DEF Ordered
  <2>1. h[n] \in DOMAIN writes /\ Behind(h[n]) /\ writes'[n] = writes[h[n]] /\ writes[h[n]].at \in Int
    BY <1>0 DEF Ordered, StoresTyped, SlotTyped, Index
  <2>2. bottom' <= writes'[n].at
    <3>1. CASE writes[k].kind = "bottom"
      <4>1. bottom' = writes[k].val /\ writes[k].val \in Int
        BY <1>0, <3>1 DEF Reaches, StoresTyped, BottomTyped
      <4>2. ~FenceBetween(h[n], k)
        <5>. SUFFICES ASSUME NEW f \in DOMAIN writes, f < k, writes[f].kind = "fence" PROVE FALSE
          BY DEF FenceBetween
        <5>1. f \in 1..(k - 1)
          <6>1. writes \in Seq(Store)
            BY BasicTypes
          <6>. QED
            BY <6>1
        <5>. QED
          BY <5>1 DEF Reaches, MayCommit
      <4>3. ~(writes[h[n]].at < writes[k].val)
        BY <2>1, <3>1, <4>2 DEF Behind
      <4>. QED
        BY <2>1, <4>1, <4>3
    <3>2. CASE writes[k].kind # "bottom"
      BY <2>1, <3>2 DEF Reaches, Behind
    <3>. QED
      BY <3>1, <3>2
  <2>3. ASSUME NEW m \in DOMAIN writes', writes'[m].kind = "bottom", writes'[n].at < writes'[m].val
        PROVE  FenceBetween(n, m)'
    <3>1. FenceBetween(h[n], h[m])
      BY <1>0, <2>1, <2>3 DEF Behind
    <3>. QED
      BY <3>1 DEF ShiftKeeps
  <2>4. writes'[n].at < LogicalBottom' => FenceAfter(n)'
    BY <1>0, <2>1 DEF Behind, ShiftKeeps
  <2>. QED
    BY <2>2, <2>3, <2>4 DEF Behind
<1>. QED
  BY <1>1, <1>2, <1>3, <1>4 DEF StoresOK

LEMMA CommitInv == ASSUME Inv, Commit PROVE Inv' /\ \A i \in Index : OwnerSees(i)' = OwnerSees(i)
<1>1. PICK k \in DOMAIN writes : Reaches(k) /\ \E h : Shift(h, k) /\ ShiftKeeps(h, k)
  BY CommitIs
<1>2. PICK h : Shift(h, k) /\ ShiftKeeps(h, k)
  BY <1>1
<1>3. \A i \in Index : OwnerSees(i)' = OwnerSees(i)
  BY <1>1, <1>2, CommitSees
<1>4. StoresOK'
  BY <1>1, <1>2, CommitStores
<1>5. /\ UNCHANGED <<top, own, pushed, pc, idx, taken>> /\ LogicalBottom' = LogicalBottom
      /\ \A d, i : None(d, i) => None(d, i)'
      /\ writes[k].kind = "slot" \/ writes[k].kind = "bottom"
      /\ SlotTyped(k) /\ BottomTyped(k)
  BY <1>1, <1>2 DEF Reaches, LogicalBottom, At, ShiftKeeps, Inv, StoresOK, StoresTyped
<1>6. TypeOK'
  <2>1. bottom' \in Nat \cup {-1}
    <3>1. bottom \in Nat \cup {-1} /\ LogicalBottom \in Int
      BY BasicTypes DEF Inv, TypeOK
    <3>2. writes[k].kind = "bottom" => writes[k].val \in Nat \cup {-1}
      BY <1>5, <3>1 DEF BottomTyped
    <3>. QED
      BY <1>1, <3>1, <3>2 DEF Reaches
  <2>2. slots' \in [Index -> Task]
    BY <1>1, <1>5 DEF Reaches, SlotTyped, Inv, TypeOK
  <2>3. writes' \in Seq(Store)
    BY <1>2 DEF Shift
  <2>. QED
    BY <1>5, <2>1, <2>2, <2>3 DEF TypeOK, Inv, Store
<1>7. Indices'
  <2>1. bottom' <= LogicalBottom
    BY <1>1, <1>5, BasicTypes DEF Reaches, BottomTyped, Inv, Indices
  <2>2. ~At(Owner, "pop_cas")
    BY EmptySeq DEF Inv, Indices
  <2>. QED
    BY <1>5, <2>1, <2>2 DEF Indices, Inv, At
<1>8. ThievesOK'
  BY <1>5 DEF ThievesOK, ThiefOK, Inv, At, Reading
<1>9. Apart'
  BY <1>5 DEF Apart, Inv, At, Reading
<1>10. Fresh'
  <2>1. Live' = Live
    BY <1>5 DEF Live, Reading, At
  <2>. QED
    BY <1>3, <1>5, <2>1, LiveInIndex, FreshKept DEF Inv
<1>. QED
  BY <1>3, <1>4, <1>6, <1>7, <1>8, <1>9, <1>10 DEF Inv

-----------------------------------------------------------------------------
(* push().                                                                 *)

\* Where push() puts its stores.
PushedStores ==
  LET n == Len(writes)
  IN  /\ writes' \in Seq(Store) /\ Len(writes') = n + 3
      /\ \A k \in 1..n : writes'[k] = writes[k]
      /\ writes'[n + 1] = SlotStore(own, pushed + 1)
      /\ writes'[n + 2] = Fence /\ writes'[n + 3] = BottomStore(own + 1)

LEMMA PushIs ==
  ASSUME Inv, Push
  PROVE  /\ PushedStores /\ own \in Index /\ LogicalBottom = own /\ LogicalBottom' = own + 1
         /\ pushed' = pushed + 1 /\ own' = own + 1 /\ pushed + 1 \in Task
         /\ UNCHANGED <<top, bottom, slots, pc, idx, taken>> /\ At(Owner, "idle")
<1>1. /\ At(Owner, "idle") /\ pushed < MaxPush /\ pushed' = pushed + 1 /\ own' = own + 1
      /\ UNCHANGED <<top, bottom, slots, pc, idx, taken>>
      /\ writes' = writes \o <<SlotStore(own, pushed + 1)>> \o <<Fence>> \o <<BottomStore(own + 1)>>
  BY DEF Push, ReleaseFence, memory
<1>2. LogicalBottom = own /\ LogicalBottom' = own + 1
  BY <1>1 DEF LogicalBottom, At
<1>3. own \in Index /\ pushed + 1 \in Task
  BY <1>1, <1>2, BasicTypes DEF Index, Task
<1>4. PICK a : a = SlotStore(own, pushed + 1)
  OBVIOUS
<1>5. PICK b : b = BottomStore(own + 1)
  OBVIOUS
<1>6. PICK f : f = Fence
  OBVIOUS
<1>7. a \in Store /\ b \in Store /\ f \in Store
  BY <1>3, <1>4, <1>5, <1>6, BasicTypes DEF SlotStore, BottomStore, Fence, Store, Index, Task
<1>8. writes' = Append(Append(Append(writes, a), f), b)
  <2>1. writes \in Seq(Store)
    BY BasicTypes
  <2>2. writes' = writes \o <<a>> \o <<f>> \o <<b>>
    BY <1>1, <1>4, <1>5, <1>6
  <2>. QED
    BY <1>7, <2>1, <2>2
<1>9. PICK n \in Nat : n = Len(writes)
  BY BasicTypes
<1>10. PICK s : s = Append(writes, a)
  OBVIOUS
<1>11. s \in Seq(Store) /\ Len(s) = n + 1 /\ s[n + 1] = a /\ \A k \in 1..n : s[k] = writes[k]
  BY <1>7, <1>9, <1>10, BasicTypes, AppendProperties
<1>12. PICK t : t = Append(s, f)
  OBVIOUS
<1>13. /\ t \in Seq(Store) /\ Len(t) = n + 2 /\ t[n + 1] = a /\ t[n + 2] = f
       /\ \A k \in 1..n : t[k] = writes[k]
  BY <1>7, <1>11, <1>12, AppendProperties
<1>14. writes' = Append(t, b)
  BY <1>8, <1>10, <1>12
<1>15. /\ writes' \in Seq(Store) /\ Len(writes') = n + 3
       /\ writes'[n + 1] = a /\ writes'[n + 2] = f /\ writes'[n + 3] = b
       /\ \A k \in 1..n : writes'[k] = writes[k]
  BY <1>7, <1>13, <1>14, AppendProperties
<1>. QED
  BY <1>1, <1>2, <1>3, <1>4, <1>5, <1>6, <1>9, <1>15 DEF PushedStores

\* What push() changes in the owner's buffer, slot by slot.
PushKeeps ==
  /\ \A i \in Index \ {own} : None("slot", i) => None("slot", i)'
  /\ \A i \in Index \ {own} : \A j \in DOMAIN writes :
       Latest(j, "slot", i) => j \in DOMAIN writes' /\ Latest(j, "slot", i)' /\ writes'[j] = writes[j]
  /\ \A i : i = own => \E j \in DOMAIN writes' : Latest(j, "slot", i)' /\ writes'[j].val = pushed + 1
  /\ \E j \in DOMAIN writes' : Latest(j, "bottom", 0)' /\ writes'[j].val = own + 1

LEMMA PushStores == ASSUME Inv, Push PROVE PushKeeps /\ StoresOK'
<1>0. /\ PushedStores /\ own \in Index /\ LogicalBottom = own /\ LogicalBottom' = own + 1
      /\ own' = own + 1 /\ pushed + 1 \in Task /\ UNCHANGED <<top, bottom>> /\ own \in Nat
      /\ writes \in Seq(Store) /\ top \in Nat /\ bottom \in Int /\ bottom <= own
  BY PushIs, BasicTypes DEF Inv, Indices, Index
<1>1. PICK n \in Nat : n = Len(writes)
  BY <1>0
<1>2. /\ DOMAIN writes = 1..n /\ DOMAIN writes' = 1..(n + 3)
      /\ \A k \in 1..n : writes'[k] = writes[k]
      /\ writes'[n + 1] = SlotStore(own, pushed + 1)
      /\ writes'[n + 2] = Fence /\ writes'[n + 3] = BottomStore(own + 1)
  <2>1. writes' \in Seq(Store) /\ Len(writes') = n + 3
    BY <1>0, <1>1 DEF PushedStores
  <2>2. DOMAIN writes = 1..n /\ DOMAIN writes' = 1..(n + 3)
    BY <1>0, <1>1, <2>1
  <2>. QED
    BY <1>0, <1>1, <2>2 DEF PushedStores
<1>3. /\ writes'[n + 1].kind = "slot" /\ writes'[n + 1].at = own /\ writes'[n + 1].val = pushed + 1
      /\ writes'[n + 2].kind = "fence"
      /\ writes'[n + 3].kind = "bottom" /\ writes'[n + 3].at = 0 /\ writes'[n + 3].val = own + 1
  BY <1>2 DEF SlotStore, Fence, BottomStore
<1>4. /\ \A k \in DOMAIN writes' : k \in 1..n \/ k = n + 1 \/ k = n + 2 \/ k = n + 3
      /\ n + 1 \in DOMAIN writes' /\ n + 2 \in DOMAIN writes' /\ n + 3 \in DOMAIN writes'
      /\ 1..n \subseteq DOMAIN writes'
  BY <1>2
<1>5. \A k \in 1..n : \A d, i : To(k, d, i)' <=> To(k, d, i)
  BY <1>2 DEF To
<1>6. /\ \A d, i : To(n + 1, d, i)' <=> d = "slot" /\ i = own
      /\ \A d, i : To(n + 3, d, i)' <=> d = "bottom" /\ i = 0
      /\ \A i : ~To(n + 2, "slot", i)' /\ ~To(n + 2, "bottom", i)'
  BY <1>3 DEF To
<1>7. \A i \in Index \ {own} : None("slot", i) => None("slot", i)'
  BY <1>2, <1>4, <1>5, <1>6 DEF None
<1>8. ASSUME NEW i \in Index \ {own}, NEW j \in DOMAIN writes, Latest(j, "slot", i)
      PROVE  j \in DOMAIN writes' /\ Latest(j, "slot", i)' /\ writes'[j] = writes[j]
  <2>1. To(j, "slot", i)' /\ \A k \in DOMAIN writes' : To(k, "slot", i)' => k \in 1..n /\ k <= j
    BY <1>2, <1>4, <1>5, <1>6, <1>8 DEF Latest
  <2>. QED
    BY <1>2, <1>4, <2>1 DEF Latest
<1>9. ASSUME NEW i, i = own PROVE Latest(n + 1, "slot", i)'
  <2>1. To(n + 1, "slot", i)'
    BY <1>6, <1>9
  <2>2. \A k \in DOMAIN writes' : To(k, "slot", i)' => k <= n + 1
    BY <1>1, <1>4, <1>6
  <2>. QED
    BY <2>1, <2>2 DEF Latest
<1>10. Latest(n + 3, "bottom", 0)'
  BY <1>1, <1>2, <1>6 DEF Latest
<1>11. PushKeeps
  BY <1>3, <1>4, <1>7, <1>8, <1>9, <1>10 DEF PushKeeps
<1>12. StoresTyped'
  <2>1. \A k \in 1..n : SlotTyped(k) /\ BottomTyped(k)
    BY <1>2 DEF Inv, StoresOK, StoresTyped
  <2>2. ASSUME NEW k \in DOMAIN writes' PROVE SlotTyped(k)' /\ BottomTyped(k)'
    <3>1. CASE k \in 1..n
      BY <1>0, <1>2, <2>1, <3>1 DEF SlotTyped, BottomTyped
    <3>2. CASE k \notin 1..n
      BY <1>0, <1>3, <1>4, <2>2, <3>2 DEF SlotTyped, BottomTyped
    <3>. QED
      BY <3>1, <3>2
  <2>. QED
    BY <2>2 DEF StoresTyped
<1>13. OwnBottom'
  BY <1>0, <1>3, <1>4, <1>10 DEF OwnBottom
<1>14. SlotsHaveLatest'
  <2>. SUFFICES ASSUME NEW i \in Index
                PROVE  None("slot", i)' \/ \E k \in DOMAIN writes' : Latest(k, "slot", i)'
    BY DEF SlotsHaveLatest
  <2>1. CASE i = own
    BY <1>4, <1>9, <2>1
  <2>2. CASE i # own
    BY <1>7, <1>8, <2>2 DEF Inv, StoresOK, SlotsHaveLatest
  <2>. QED
    BY <2>1, <2>2
<1>15. \A j \in 1..(n + 1) : FenceAfter(j)' /\ FenceBetween(j, n + 3)'
  <2>. TAKE j \in 1..(n + 1)
  <2>1. j < n + 2 /\ n + 2 < n + 3
    BY <1>1
  <2>. QED
    BY <1>3, <1>4, <2>1 DEF FenceAfter, FenceBetween
<1>16. Ordered'
  <2>. SUFFICES ASSUME NEW j \in DOMAIN writes', writes'[j].kind = "slot", top' <= writes'[j].at
                PROVE  Behind(j)'
    BY DEF Ordered
  <2>1. j \in 1..(n + 1)
    BY <1>1, <1>3, <1>4
  <2>2. CASE j \in 1..n
    <3>1. Behind(j) /\ writes'[j] = writes[j]
      BY <1>0, <1>2, <2>2 DEF Inv, StoresOK, Ordered
    <3>2. ASSUME NEW k \in DOMAIN writes', writes'[k].kind = "bottom", writes'[j].at < writes'[k].val
          PROVE  FenceBetween(j, k)'
      <4>1. CASE k \in 1..n
        <5>1. FenceBetween(j, k)
          BY <1>2, <3>1, <3>2, <4>1 DEF Behind
        <5>. QED
          BY <1>2, <1>4, <5>1 DEF FenceBetween
      <4>2. CASE k = n + 3
        BY <1>15, <2>1, <4>2
      <4>. QED
        BY <1>3, <1>4, <3>2, <4>1, <4>2
    <3>. QED
      BY <1>0, <1>15, <2>1, <3>1, <3>2 DEF Behind
  <2>3. CASE j = n + 1
    <3>1. ASSUME NEW k \in DOMAIN writes', writes'[k].kind = "bottom", own < writes'[k].val
          PROVE  FenceBetween(j, k)'
      <4>1. k \notin 1..n
        <5>1. k \in 1..n => BottomTyped(k)
          BY <1>2 DEF Inv, StoresOK, StoresTyped
        <5>. QED
          BY <1>0, <1>2, <3>1, <5>1 DEF BottomTyped
      <4>. QED
        BY <1>3, <1>4, <1>15, <2>1, <3>1, <4>1
    <3>. QED
      BY <1>0, <1>3, <1>15, <2>1, <2>3, <3>1 DEF Behind
  <2>. QED
    BY <1>1, <2>1, <2>2, <2>3
<1>. QED
  BY <1>11, <1>12, <1>13, <1>14, <1>16 DEF StoresOK

LEMMA PushSees ==
  ASSUME Inv, Push
  PROVE  /\ \A i \in Index \ {own} : OwnerSees(i)' = OwnerSees(i)
         /\ \A i : i = own => OwnerSees(i)' = pushed + 1
<1>1. PushKeeps /\ SlotsHaveLatest /\ own \in Index /\ UNCHANGED slots
  BY PushStores, PushIs DEF Inv, StoresOK
<1>2. WritesTyped /\ WritesTyped'
  BY PushIs, BasicTypes DEF PushedStores, WritesTyped
<1>3. SeesFacts /\ SeesFacts'
  BY <1>2, SeesAre, SeesAreNext
<1>4. ASSUME NEW i \in Index \ {own} PROVE OwnerSees(i)' = OwnerSees(i)
  <2>1. CASE None("slot", i)
    BY <1>1, <1>3, <1>4, <2>1 DEF SeesFacts, PushKeeps
  <2>2. ASSUME NEW j \in DOMAIN writes, Latest(j, "slot", i) PROVE OwnerSees(i)' = OwnerSees(i)
    BY <1>1, <1>3, <1>4, <2>2 DEF SeesFacts, PushKeeps
  <2>. QED
    BY <1>1, <1>4, <2>1, <2>2 DEF SlotsHaveLatest
<1>5. ASSUME NEW i, i = own PROVE OwnerSees(i)' = pushed + 1
  BY <1>1, <1>3, <1>5 DEF SeesFacts, PushKeeps
<1>. QED
  BY <1>4, <1>5

LEMMA PushInv == ASSUME Inv, Push PROVE Inv'
<1>0. /\ own \in Index /\ LogicalBottom = own /\ LogicalBottom' = own + 1 /\ At(Owner, "idle")
      /\ pushed' = pushed + 1 /\ own' = own + 1 /\ pushed + 1 \in Task /\ pushed \in Nat /\ own \in Nat
      /\ UNCHANGED <<top, bottom, slots, pc, idx, taken>> /\ PushKeeps
      /\ top \in Nat /\ bottom \in Int /\ top <= own /\ own <= pushed /\ bottom <= own
  BY PushIs, PushStores, BasicTypes DEF Inv, Indices, Index
<1>1. PICK o : o = own
  OBVIOUS
<1>2. StoresOK'
  BY PushStores
<1>3. TypeOK'
  <2>1. writes' \in Seq(Store)
    BY PushIs DEF PushedStores
  <2>2. pushed' \in 0..MaxPush /\ own' \in Nat \cup {-1}
    BY <1>0, FencedAssumption DEF Task
  <2>. QED
    BY <1>0, <2>1, <2>2 DEF Inv, TypeOK, Store
<1>4. Indices'
  BY <1>0 DEF Indices, Inv, At
<1>5. ThievesOK'
  <2>. SUFFICES ASSUME NEW p \in Thieves PROVE ThiefOK(p)'
    BY DEF ThievesOK
  <2>1. ThiefOK(p)
    BY DEF Inv, ThievesOK
  <2>2. ASSUME At(p, "steal_cas"), idx[p] = top PROVE top' < LogicalBottom' /\ None("slot", top)'
    <3>1. top < own /\ None("slot", top)
      BY <1>0, <2>1, <2>2 DEF ThiefOK
    <3>2. top \in Index
      BY <1>0, <3>1, FencedAssumption DEF Index
    <3>3. PICK t : t = top /\ t = top'
      BY <1>0
    <3>4. t \in Index \ {own} /\ None("slot", t)
      BY <1>0, <3>1, <3>2, <3>3
    <3>5. None("slot", t)'
      BY <1>0, <3>4 DEF PushKeeps
    <3>. QED
      BY <1>0, <3>1, <3>3, <3>5
  <2>3. ASSUME Reading(p) PROVE None("slot", idx[p])'
    <3>1. PICK t : t = idx[p] /\ t = idx'[p]
      BY <1>0
    <3>2. t \in Index /\ t < top /\ None("slot", t) /\ t # own
      BY <1>0, <2>1, <2>3, <3>1 DEF ThiefOK, Index
    <3>3. None("slot", t)'
      BY <1>0, <3>2 DEF PushKeeps
    <3>. QED
      BY <3>1, <3>3
  <2>. QED
    BY <1>0, <2>1, <2>2, <2>3 DEF ThiefOK, At, Reading
<1>6. Apart'
  BY <1>0 DEF Apart, Inv, At, Reading
<1>7. Live' = Live \cup {o} /\ o \notin Live /\ Live \subseteq Index \ {own}
  <2>1. (top..(LogicalBottom - 1))' = (top..(LogicalBottom - 1)) \cup {o}
    BY <1>0, <1>1
  <2>2. {idx[p] : p \in {q \in Thieves : Reading(q)}}' = {idx[p] : p \in {q \in Thieves : Reading(q)}}
    BY <1>0 DEF Reading, At
  <2>3. \A p \in Thieves : Reading(p) => idx[p] # own
    BY <1>0 DEF Inv, ThievesOK, ThiefOK, Index
  <2>4. o \notin Live
    BY <1>0, <1>1, <2>3 DEF Live
  <2>. QED
    BY <1>1, <2>1, <2>2, <2>4, LiveInIndex DEF Live
<1>8. /\ \A i \in Live : OwnerSees(i)' = OwnerSees(i) /\ OwnerSees(i) \in 1..pushed
      /\ OwnerSees(o)' = pushed + 1
  BY <1>1, <1>7, PushSees DEF Inv, Fresh, LiveFresh
<1>9. Fresh'
  <2>1. LiveFresh'
    <3>. SUFFICES ASSUME NEW i \in Live' PROVE OwnerSees(i)' \in 1..pushed' /\ taken'[OwnerSees(i)'] = 0
      BY DEF LiveFresh
    <3>1. CASE i \in Live
      BY <1>0, <1>8, <3>1 DEF Inv, Fresh, LiveFresh
    <3>2. CASE i = o
      <4>1. taken[pushed + 1] = 0
        BY <1>0 DEF Inv, Fresh, TakenFew
      <4>. QED
        BY <1>0, <1>8, <3>2, <4>1
    <3>. QED
      BY <1>7, <3>1, <3>2
  <2>2. LiveDistinct'
    <3>. SUFFICES ASSUME NEW i \in Live', NEW j \in Live', i # j PROVE OwnerSees(i)' # OwnerSees(j)'
      BY DEF LiveDistinct
    <3>1. CASE i \in Live /\ j \in Live
      BY <1>8, <3>1 DEF Inv, Fresh, LiveDistinct
    <3>2. CASE i = o /\ j \in Live
      BY <1>0, <1>8, <3>2
    <3>3. CASE i \in Live /\ j = o
      BY <1>0, <1>8, <3>3
    <3>. QED
      BY <1>7, <3>1, <3>2, <3>3
  <2>3. TakenFew'
    BY <1>0 DEF Inv, Fresh, TakenFew, Task
  <2>. QED
    BY <2>1, <2>2, <2>3 DEF Fresh
<1>. QED
  BY <1>2, <1>3, <1>4, <1>5, <1>6, <1>9 DEF Inv

-----------------------------------------------------------------------------
(* pop().                                                                  *)

\* pop() stores bottom_ without moving the end of the deque: its reservation,
\* and its restoration when another took the last task.
LEMMA BottomStored ==
  ASSUME Inv, own' \in -1..LogicalBottom, LogicalBottom' = LogicalBottom,
         writes' = Append(writes, BottomStore(own')), UNCHANGED <<top, bottom, slots>>
  PROVE  /\ StoresOK' /\ writes' \in Seq(Store)
         /\ \A i : None("slot", i) => None("slot", i)'
         /\ \A i \in Index : OwnerSees(i)' = OwnerSees(i)
<1>0. /\ writes \in Seq(Store) /\ StoresTyped /\ SlotsHaveLatest /\ Ordered
      /\ LogicalBottom \in Int /\ top \in Nat
  BY BasicTypes DEF Inv, StoresOK
<1>1. PICK n \in Nat : n = Len(writes)
  BY <1>0
<1>2. PICK b \in -1..LogicalBottom : b = own'
  OBVIOUS
<1>3. PICK x : x = BottomStore(b)
  OBVIOUS
<1>4. x \in Store /\ x.kind = "bottom" /\ x.at = 0 /\ x.val = b
  BY <1>0, <1>3 DEF BottomStore, Store
<1>5. /\ writes' \in Seq(Store) /\ Len(writes') = n + 1 /\ writes'[n + 1] = x
      /\ \A k \in 1..n : writes'[k] = writes[k]
  BY <1>0, <1>1, <1>2, <1>3, <1>4, AppendProperties
<1>6. DOMAIN writes = 1..n /\ DOMAIN writes' = 1..(n + 1)
  BY <1>0, <1>1, <1>5
<1>7. /\ \A k \in DOMAIN writes' : k \in 1..n \/ k = n + 1
      /\ n + 1 \in DOMAIN writes' /\ 1..n \subseteq DOMAIN writes' /\ n + 1 \notin 1..n
      /\ \A k \in 1..n : k < n + 1
  BY <1>6
<1>8. /\ \A k \in 1..n : \A d, i : To(k, d, i)' <=> To(k, d, i)
      /\ \A d, i : To(n + 1, d, i)' <=> d = "bottom" /\ i = 0
  BY <1>4, <1>5 DEF To
<1>9. \A i : None("slot", i) => None("slot", i)'
  BY <1>6, <1>7, <1>8 DEF None
<1>10. \A i : \A j \in DOMAIN writes : Latest(j, "slot", i) =>
          j \in DOMAIN writes' /\ Latest(j, "slot", i)' /\ writes'[j] = writes[j]
  BY <1>5, <1>6, <1>7, <1>8 DEF Latest
<1>11. StoresTyped'
  <2>. SUFFICES ASSUME NEW k \in DOMAIN writes' PROVE SlotTyped(k)' /\ BottomTyped(k)'
    BY DEF StoresTyped
  <2>1. CASE k \in 1..n
    BY <1>0, <1>5, <1>6, <2>1 DEF StoresTyped, SlotTyped, BottomTyped
  <2>2. CASE k = n + 1
    BY <1>4, <1>5, <2>2 DEF SlotTyped, BottomTyped
  <2>. QED
    BY <1>7, <2>1, <2>2
<1>12. OwnBottom'
  <2>1. Latest(n + 1, "bottom", 0)'
    BY <1>1, <1>6, <1>8 DEF Latest
  <2>. QED
    BY <1>2, <1>4, <1>5, <1>7, <2>1 DEF OwnBottom
<1>13. SlotsHaveLatest'
  BY <1>0, <1>9, <1>10 DEF SlotsHaveLatest
<1>14. Ordered'
  <2>. SUFFICES ASSUME NEW j \in DOMAIN writes', writes'[j].kind = "slot", top' <= writes'[j].at
                PROVE  Behind(j)'
    BY DEF Ordered
  <2>1. j \in 1..n /\ writes'[j] = writes[j] /\ Behind(j) /\ writes[j].at \in Int
    <3>1. j \in 1..n
      BY <1>4, <1>5, <1>7
    <3>2. writes'[j] = writes[j] /\ SlotTyped(j)
      BY <1>0, <1>5, <1>6, <3>1 DEF StoresTyped
    <3>. QED
      BY <1>0, <1>6, <3>1, <3>2 DEF Ordered, SlotTyped, Index
  <2>2. ASSUME NEW k \in DOMAIN writes', writes'[k].kind = "bottom", writes'[j].at < writes'[k].val
        PROVE  FenceBetween(j, k)'
    <3>1. CASE k \in 1..n
      <4>1. FenceBetween(j, k)
        BY <1>5, <1>6, <2>1, <2>2, <3>1 DEF Behind
      <4>. QED
        BY <1>5, <1>6, <1>7, <4>1 DEF FenceBetween
    <3>2. CASE k = n + 1
      <4>1. writes[j].at < LogicalBottom
        BY <1>0, <1>4, <1>5, <2>1, <2>2, <3>2
      <4>2. PICK f \in 1..n : j < f /\ writes[f].kind = "fence"
        BY <1>6, <2>1, <4>1 DEF Behind, FenceAfter
      <4>3. f \in DOMAIN writes' /\ writes'[f].kind = "fence" /\ f < k
        BY <1>5, <1>7, <3>2, <4>2
      <4>. QED
        BY <4>2, <4>3 DEF FenceBetween
    <3>. QED
      BY <1>7, <3>1, <3>2
  <2>3. ASSUME writes'[j].at < LogicalBottom' PROVE FenceAfter(j)'
    <3>1. FenceAfter(j)
      BY <2>1, <2>3 DEF Behind
    <3>. QED
      BY <1>5, <1>6, <1>7, <3>1 DEF FenceAfter
  <2>. QED
    BY <2>1, <2>2, <2>3 DEF Behind
<1>15. \A i \in Index : OwnerSees(i)' = OwnerSees(i)
  <2>1. SeesFacts /\ SeesFacts'
    BY <1>0, <1>5, SeesAre, SeesAreNext DEF WritesTyped
  <2>. QED
    BY <1>0, <1>9, <1>10, <2>1 DEF SeesFacts, SlotsHaveLatest
<1>. QED
  BY <1>5, <1>9, <1>11, <1>12, <1>13, <1>14, <1>15 DEF StoresOK

\* A step of the owner leaves the thieves where they are.
LEMMA OwnerGoes ==
  ASSUME Inv, NEW l, Goto(Owner, l)
  PROVE  /\ pc'[Owner] = l /\ \A p \in Thieves : pc'[p] = pc[p]
         /\ l \in {"idle", "pop_top", "pop_cas"} =>
              pc' \in [Threads -> {"idle", "pop_top", "pop_cas", "steal_bottom", "steal_cas", "read"}]
BY BasicTypes DEF Goto

\* A step of the owner that leaves what can be taken as it was.
LEMMA OwnerKeeps ==
  ASSUME Inv, NEW l \in {"idle", "pop_top", "pop_cas"}, Goto(Owner, l),
         l = "pop_cas" => writes' = <<>> /\ top' >= own',
         LogicalBottom' = LogicalBottom, own' \in Nat \cup {-1},
         UNCHANGED <<top, bottom, slots, pushed, idx, taken>>,
         StoresOK', writes' \in Seq(Store), \A i : None("slot", i) => None("slot", i)',
         \A i \in Index : OwnerSees(i)' = OwnerSees(i)
  PROVE  Inv'
<1>1. /\ pc'[Owner] = l /\ \A p \in Thieves : pc'[p] = pc[p]
      /\ pc' \in [Threads -> {"idle", "pop_top", "pop_cas", "steal_bottom", "steal_cas", "read"}]
  BY OwnerGoes
<1>2. TypeOK'
  BY <1>1 DEF Inv, TypeOK, Store
<1>3. Indices'
  BY <1>1 DEF Indices, Inv, At
<1>4. ThievesOK'
  BY <1>1 DEF ThievesOK, ThiefOK, Inv, At, Reading
<1>5. Apart'
  BY <1>1 DEF Apart, Inv, At, Reading
<1>6. Live' = Live
  BY <1>1 DEF Live, Reading, At
<1>7. Fresh'
  BY <1>6, LiveInIndex, FreshKept DEF Inv
<1>. QED
  BY <1>2, <1>3, <1>4, <1>5, <1>7 DEF Inv

LEMMA PopReserveInv ==
  ASSUME Inv, PopReserve
  PROVE  Inv' /\ (\A i \in Index : OwnerSees(i)' = OwnerSees(i)) /\ LogicalBottom' = LogicalBottom
<1>1. /\ At(Owner, "idle") /\ own' = own - 1 /\ Goto(Owner, "pop_top")
      /\ writes' = Append(writes, BottomStore(own')) /\ UNCHANGED <<top, bottom, slots, pushed, idx, taken>>
  BY DEF PopReserve, memory
<1>2. pc'[Owner] = "pop_top"
  BY <1>1, OwnerGoes
<1>3. LogicalBottom = own /\ LogicalBottom' = own /\ own \in Nat
  BY <1>1, <1>2, BasicTypes DEF LogicalBottom, At
<1>4. own' \in -1..LogicalBottom /\ own' \in Nat \cup {-1} /\ LogicalBottom' = LogicalBottom
  BY <1>1, <1>3
<1>5. /\ StoresOK' /\ writes' \in Seq(Store) /\ \A i : None("slot", i) => None("slot", i)'
      /\ \A i \in Index : OwnerSees(i)' = OwnerSees(i)
  BY <1>1, <1>4, BottomStored
<1>. QED
  BY <1>1, <1>4, <1>5, OwnerKeeps

\* The owner gives its reservation back.
LEMMA RestoreInv ==
  ASSUME Inv, ~At(Owner, "idle"), Restore, writes' = Append(writes, BottomStore(own + 1)),
         UNCHANGED <<top, bottom, slots, pushed, idx, taken>>
  PROVE  Inv' /\ (\A i \in Index : OwnerSees(i)' = OwnerSees(i)) /\ LogicalBottom' = LogicalBottom
<1>1. own' = own + 1 /\ Goto(Owner, "idle") /\ pc'[Owner] = "idle"
  BY OwnerGoes DEF Restore
<1>2. LogicalBottom = own + 1 /\ LogicalBottom' = own + 1 /\ own + 1 \in Nat
  BY <1>1, BasicTypes DEF LogicalBottom, At
<1>3. own' \in -1..LogicalBottom /\ own' \in Nat \cup {-1} /\ LogicalBottom' = LogicalBottom
  BY <1>1, <1>2
<1>4. /\ StoresOK' /\ writes' \in Seq(Store) /\ \A i : None("slot", i) => None("slot", i)'
      /\ \A i \in Index : OwnerSees(i)' = OwnerSees(i)
  BY <1>1, <1>3, BottomStored
<1>. QED
  BY <1>1, <1>3, <1>4, OwnerKeeps

\* A task of the deque, or one that a thief has won, is returned.
LEMMA FreshTaken ==
  ASSUME Inv, NEW o \in Live, Return(OwnerSees(o)), Live' = Live \ {o},
         \A i \in Live \ {o} : OwnerSees(i)' = OwnerSees(i), UNCHANGED pushed
  PROVE  Fresh'
<1>1. PICK v : v = OwnerSees(o)
  OBVIOUS
<1>2. /\ v \in 1..pushed /\ taken[v] = 0 /\ taken' = [taken EXCEPT ![v] = @ + 1] /\ v \in Task
      /\ taken \in [Task -> Nat] /\ v # NoTask /\ ~(v > pushed)
  BY <1>1, BasicTypes DEF Inv, Fresh, LiveFresh, Return, Task, NoTask, TypeOK
<1>3. \A i \in Live \ {o} : OwnerSees(i) \in 1..pushed /\ OwnerSees(i) \in Task
                            /\ taken[OwnerSees(i)] = 0 /\ OwnerSees(i) # v
  BY <1>1, BasicTypes DEF Inv, Fresh, LiveFresh, LiveDistinct, Task
<1>4. taken'[v] = 1 /\ \A x \in Task : x # v => taken'[x] = taken[x]
  BY <1>2
<1>5. LiveFresh'
  BY <1>3, <1>4 DEF LiveFresh
<1>6. LiveDistinct'
  BY DEF Inv, Fresh, LiveDistinct
<1>7. TakenFew'
  <2>. SUFFICES ASSUME NEW x \in Task
                PROVE  taken'[x] <= 1 /\ (x = NoTask \/ x > pushed => taken'[x] = 0)
    BY DEF TakenFew
  <2>1. taken[x] <= 1 /\ (x = NoTask \/ x > pushed => taken[x] = 0)
    BY DEF Inv, Fresh, TakenFew
  <2>2. CASE x = v
    BY <1>2, <1>4, <2>2
  <2>3. CASE x # v
    BY <1>4, <2>1, <2>3
  <2>. QED
    BY <2>2, <2>3
<1>. QED
  BY <1>5, <1>6, <1>7 DEF Fresh

\* pop() clears the slot it emptied, after a won compare-exchange behind the
\* restoration of bottom_.
Cleared(k) ==
  /\ writes' \in Seq(Store) /\ k \in DOMAIN writes' /\ writes'[k] = SlotStore(own, NoTask)
  /\ \A j \in DOMAIN writes' : j # k => writes'[j] = BottomStore(own + 1)

LEMMA ClearedSees ==
  ASSUME Inv, writes = <<>>, NEW k, Cleared(k), own \in Index, UNCHANGED slots
  PROVE  /\ \A i : i # own => None("slot", i)'
         /\ \A i \in Index \ {own} : OwnerSees(i)' = OwnerSees(i)
         /\ SlotsHaveLatest'
<1>1. PICK o : o = own
  OBVIOUS
<1>2. \A j \in DOMAIN writes' : writes'[j].kind = "slot" => j = k
  BY DEF Cleared, BottomStore
<1>3. /\ k \in DOMAIN writes' /\ writes'[k].kind = "slot" /\ writes'[k].at = o
      /\ DOMAIN writes' \subseteq Int
  <2>1. writes' \in Seq(Store)
    BY DEF Cleared
  <2>2. DOMAIN writes' \subseteq Int
    BY <2>1
  <2>. QED
    BY <1>1, <2>2 DEF Cleared, SlotStore
<1>4. \A i : i # o => None("slot", i)'
  BY <1>2, <1>3 DEF None, To
<1>5. Latest(k, "slot", o)'
  BY <1>2, <1>3 DEF Latest, To
<1>6. SlotsHaveLatest'
  BY <1>3, <1>4, <1>5 DEF SlotsHaveLatest
<1>7. \A i : None("slot", i)
  BY DEF None
<1>8. SeesFacts /\ SeesFacts'
  BY SeesAre, SeesAreNext, BasicTypes DEF WritesTyped, Cleared
<1>9. \A i \in Index \ {o} : OwnerSees(i)' = OwnerSees(i)
  BY <1>4, <1>7, <1>8 DEF SeesFacts
<1>. QED
  BY <1>1, <1>4, <1>6, <1>9

\* Nothing waits: what the owner stored last is what the thieves see.
LEMMA DrainedBottom == ASSUME Inv, writes = <<>> PROVE bottom = own
<1>1. DOMAIN writes = {}
  OBVIOUS
<1>. QED
  BY <1>1 DEF Inv, StoresOK, OwnBottom

LEMMA TakeStores ==
  ASSUME Inv, writes = <<>>, own \in Index, UNCHANGED <<own, top, bottom, slots>>,
         LogicalBottom' = own, writes' = <<SlotStore(own, NoTask)>>
  PROVE  StoresOK' /\ Cleared(1)
<1>1. PICK s : s = SlotStore(own, NoTask)
  OBVIOUS
<1>2. /\ s \in Store /\ s.kind = "slot" /\ s.at = own /\ s.val = NoTask /\ NoTask \in Task
      /\ own \in Nat
  BY <1>1, BasicTypes DEF SlotStore, Store, Index, NoTask, Task
<1>3. writes' \in Seq(Store) /\ DOMAIN writes' = {1} /\ writes'[1] = s
  BY <1>1, <1>2
<1>4. Cleared(1)
  BY <1>1, <1>3 DEF Cleared
<1>5. SlotsHaveLatest'
  BY <1>4, ClearedSees
<1>6. StoresTyped'
  BY <1>2, <1>3 DEF StoresTyped, SlotTyped, BottomTyped
<1>7. OwnBottom'
  BY <1>2, <1>3, DrainedBottom DEF OwnBottom, None, To
<1>8. Ordered'
  BY <1>2, <1>3, DrainedBottom DEF Ordered, Behind
<1>. QED
  BY <1>4, <1>5, <1>6, <1>7, <1>8 DEF StoresOK

LEMMA WinStores ==
  ASSUME Inv, writes = <<>>, own \in Index, own' = own + 1, top' = own + 1, UNCHANGED <<bottom, slots>>,
         LogicalBottom' = own + 1, writes' = <<BottomStore(own + 1), SlotStore(own, NoTask)>>
  PROVE  StoresOK' /\ Cleared(2)
<1>1. PICK s : s = SlotStore(own, NoTask)
  OBVIOUS
<1>2. PICK b : b = BottomStore(own + 1)
  OBVIOUS
<1>3. /\ s \in Store /\ s.kind = "slot" /\ s.at = own /\ s.val = NoTask /\ NoTask \in Task
      /\ own \in Nat
      /\ b \in Store /\ b.kind = "bottom" /\ b.at = 0 /\ b.val = own + 1
  BY <1>1, <1>2, BasicTypes DEF SlotStore, BottomStore, Store, Index, NoTask, Task
<1>4. writes' \in Seq(Store) /\ DOMAIN writes' = {1, 2} /\ writes'[1] = b /\ writes'[2] = s
  BY <1>1, <1>2, <1>3
<1>5. Cleared(2)
  BY <1>1, <1>2, <1>4 DEF Cleared
<1>6. SlotsHaveLatest'
  BY <1>5, ClearedSees
<1>7. StoresTyped'
  BY <1>3, <1>4 DEF StoresTyped, SlotTyped, BottomTyped
<1>8. OwnBottom'
  <2>1. Latest(1, "bottom", 0)'
    BY <1>3, <1>4 DEF Latest, To
  <2>. QED
    BY <1>3, <1>4, <2>1 DEF OwnBottom
<1>9. Ordered'
  BY <1>3, <1>4 DEF Ordered
<1>. QED
  BY <1>5, <1>6, <1>7, <1>8, <1>9 DEF StoresOK

\* pop() with more than one task: the last one is the owner's.
PopTake ==
  /\ At(Owner, "pop_top") /\ Drained /\ top < own
  /\ Return(OwnerSees(own)) /\ writes' = Append(writes, SlotStore(own, NoTask))
  /\ Goto(Owner, "idle") /\ UNCHANGED <<own, memory, pushed, idx>>

LEMMA PopTakeInv ==
  ASSUME Inv, PopTake
  PROVE  /\ Inv' /\ own \in Index /\ LogicalBottom = own + 1 /\ LogicalBottom' = own
         /\ \A i \in Index \ {own} : OwnerSees(i)' = OwnerSees(i)
<1>1. /\ At(Owner, "pop_top") /\ writes = <<>> /\ top < own /\ Goto(Owner, "idle")
      /\ UNCHANGED <<own, top, bottom, slots, pushed, idx>> /\ Return(OwnerSees(own))
      /\ writes' = Append(writes, SlotStore(own, NoTask))
  BY DEF PopTake, Drained, memory
<1>2. /\ pc'[Owner] = "idle" /\ \A p \in Thieves : pc'[p] = pc[p]
      /\ pc' \in [Threads -> {"idle", "pop_top", "pop_cas", "steal_bottom", "steal_cas", "read"}]
  BY <1>1, OwnerGoes
<1>3. LogicalBottom = own + 1 /\ LogicalBottom' = own
  BY <1>1, <1>2 DEF LogicalBottom, At
<1>4. own \in Index /\ own \in Nat /\ top \in Nat
  BY <1>1, <1>3, BasicTypes DEF Index
<1>5. writes' = <<SlotStore(own, NoTask)>>
  BY <1>1
<1>6. StoresOK' /\ Cleared(1)
  BY <1>1, <1>3, <1>4, <1>5, TakeStores
<1>7. /\ \A i : i # own => None("slot", i)'
      /\ \A i \in Index \ {own} : OwnerSees(i)' = OwnerSees(i)
  BY <1>1, <1>4, <1>6, ClearedSees
<1>8. PICK o : o = own
  OBVIOUS
<1>9. TypeOK'
  <2>1. OwnerSees(own) \in Task
    <3>1. own \in Live
      BY <1>1, <1>3, <1>4 DEF Live
    <3>. QED
      BY <3>1, BasicTypes DEF Inv, Fresh, LiveFresh, Task
  <2>2. taken' \in [Task -> Nat]
    BY <1>1, <2>1 DEF Return, Inv, TypeOK
  <2>. QED
    BY <1>1, <1>2, <1>6, <2>2 DEF Inv, TypeOK, Store, Cleared
<1>10. Indices'
  BY <1>1, <1>2, <1>3, <1>4, BasicTypes, DrainedBottom DEF Indices, At
<1>11. ThievesOK'
  <2>. SUFFICES ASSUME NEW p \in Thieves PROVE ThiefOK(p)'
    BY DEF ThievesOK
  <2>1. ThiefOK(p)
    BY DEF Inv, ThievesOK
  <2>2. idx[p] <= top => idx[p] # own
    BY <1>1, <1>4
  <2>3. (pc[p] = "steal_cas" /\ idx[p] = top) \/ pc[p] = "read" => idx[p] # own
    BY <1>1, <1>4, <2>1, <2>2 DEF ThiefOK, At, Reading, Index
  <2>4. PICK i : i = idx[p] /\ i = idx'[p]
    BY <1>1
  <2>5. i # own => None("slot", i)'
    BY <1>7
  <2>. QED
    BY <1>1, <1>2, <1>3, <2>1, <2>3, <2>4, <2>5 DEF ThiefOK, At, Reading
<1>12. Apart'
  BY <1>1, <1>2 DEF Apart, Inv, At, Reading
<1>13. o \in Live /\ Live' = Live \ {o}
  <2>1. (top..(LogicalBottom - 1))' = (top..(LogicalBottom - 1)) \ {o} /\ o \in top..(LogicalBottom - 1)
    BY <1>1, <1>3, <1>4, <1>8
  <2>2. {idx[p] : p \in {q \in Thieves : Reading(q)}}' = {idx[p] : p \in {q \in Thieves : Reading(q)}}
    BY <1>1, <1>2 DEF Reading, At
  <2>3. \A p \in Thieves : Reading(p) => idx[p] # o
    BY <1>1, <1>4, <1>8 DEF Inv, ThievesOK, ThiefOK, Index
  <2>. QED
    BY <2>1, <2>2, <2>3 DEF Live
<1>14. Fresh'
  <2>1. \A i \in Live \ {o} : OwnerSees(i)' = OwnerSees(i)
    BY <1>7, <1>8, LiveInIndex
  <2>. QED
    BY <1>1, <1>8, <1>13, <2>1, FreshTaken
<1>. QED
  BY <1>3, <1>4, <1>6, <1>7, <1>9, <1>10, <1>11, <1>12, <1>14 DEF Inv

\* pop() finds one task and goes to fight for it.
PopToCas ==
  /\ At(Owner, "pop_top") /\ Drained /\ top = own
  /\ Goto(Owner, "pop_cas") /\ UNCHANGED <<writes, own, taken, memory, pushed, idx>>

LEMMA PopToCasInv ==
  ASSUME Inv, PopToCas
  PROVE  Inv' /\ (\A i \in Index : OwnerSees(i)' = OwnerSees(i)) /\ LogicalBottom' = LogicalBottom
<1>1. /\ At(Owner, "pop_top") /\ writes = <<>> /\ top = own /\ Goto(Owner, "pop_cas")
      /\ UNCHANGED <<writes, own, taken, top, bottom, slots, pushed, idx>>
  BY DEF PopToCas, Drained, memory
<1>2. pc'[Owner] = "pop_cas"
  BY <1>1, OwnerGoes
<1>3. LogicalBottom' = LogicalBottom
  BY <1>1, <1>2 DEF LogicalBottom, At
<1>4. \A i : OwnerSees(i)' = OwnerSees(i)
  BY <1>1, SameSees
<1>5. StoresOK'
  BY <1>1, <1>3 DEF Inv, StoresOK, StoresTyped, SlotTyped, BottomTyped, OwnBottom, SlotsHaveLatest,
                    Ordered, Behind, FenceBetween, FenceAfter, None, Latest, To
<1>6. \A i : None("slot", i) => None("slot", i)'
  BY <1>1 DEF None, To
<1>7. own' \in Nat \cup {-1} /\ top' >= own' /\ writes' \in Seq(Store)
  BY <1>1, BasicTypes DEF Inv, TypeOK
<1>. QED
  BY <1>1, <1>3, <1>4, <1>5, <1>6, <1>7, OwnerKeeps

\* pop() wins the last task.
PopWin ==
  /\ At(Owner, "pop_cas") /\ WinsLast /\ top' = own + 1
  /\ Return(OwnerSees(own))
  /\ writes' = writes \o <<BottomStore(own + 1), SlotStore(own, NoTask)>>
  /\ Restore /\ UNCHANGED <<bottom, slots, pushed, idx>>

LEMMA PopWinInv ==
  ASSUME Inv, PopWin
  PROVE  /\ Inv' /\ top = own /\ LogicalBottom = own + 1 /\ LogicalBottom' = own + 1 /\ own \in Index
         /\ \A i \in Index \ {own} : OwnerSees(i)' = OwnerSees(i)
<1>1. /\ At(Owner, "pop_cas") /\ top = own /\ top' = own + 1 /\ Goto(Owner, "idle")
      /\ own' = own + 1 /\ UNCHANGED <<bottom, slots, pushed, idx>> /\ Return(OwnerSees(own))
      /\ writes' = writes \o <<BottomStore(own + 1), SlotStore(own, NoTask)>> /\ writes = <<>>
  BY DEF PopWin, WinsLast, Restore, Inv, Indices
<1>2. /\ pc'[Owner] = "idle" /\ \A p \in Thieves : pc'[p] = pc[p]
      /\ pc' \in [Threads -> {"idle", "pop_top", "pop_cas", "steal_bottom", "steal_cas", "read"}]
  BY <1>1, OwnerGoes
<1>3. LogicalBottom = own + 1 /\ LogicalBottom' = own + 1
  BY <1>1, <1>2 DEF LogicalBottom, At
<1>4. own \in Index /\ own \in Nat /\ top \in Nat
  BY <1>1, <1>3, BasicTypes DEF Index
<1>5. writes' = <<BottomStore(own + 1), SlotStore(own, NoTask)>>
  <2>1. <<BottomStore(own + 1), SlotStore(own, NoTask)>> \in Seq({BottomStore(own + 1), SlotStore(own, NoTask)})
    OBVIOUS
  <2>. QED
    BY <1>1, <2>1, ConcatEmptySeq
<1>6. StoresOK' /\ Cleared(2)
  BY <1>1, <1>3, <1>4, <1>5, WinStores
<1>7. /\ \A i : i # own => None("slot", i)'
      /\ \A i \in Index \ {own} : OwnerSees(i)' = OwnerSees(i)
  BY <1>1, <1>4, <1>6, ClearedSees
<1>8. PICK o : o = own
  OBVIOUS
<1>9. TypeOK'
  <2>1. OwnerSees(own) \in Task
    <3>1. own \in Live
      BY <1>1, <1>3, <1>4 DEF Live
    <3>. QED
      BY <3>1, BasicTypes DEF Inv, Fresh, LiveFresh, Task
  <2>2. taken' \in [Task -> Nat] /\ own' \in Nat /\ top' \in Nat
    BY <1>1, <1>4, <2>1 DEF Return, Inv, TypeOK
  <2>. QED
    BY <1>1, <1>2, <1>6, <2>2 DEF Inv, TypeOK, Store, Cleared
<1>10. Indices'
  BY <1>1, <1>2, <1>3, <1>4, BasicTypes, DrainedBottom DEF Indices, At
<1>11. ThievesOK'
  <2>. SUFFICES ASSUME NEW p \in Thieves PROVE ThiefOK(p)'
    BY DEF ThievesOK
  <2>1. ThiefOK(p)
    BY DEF Inv, ThievesOK
  <2>2. pc[p] \in {"steal_bottom", "steal_cas"} => idx[p] <= top' /\ idx[p] # top'
    BY <1>1, <1>4, <2>1 DEF ThiefOK, Inv, TypeOK
  <2>3. pc[p] = "read" => idx[p] # own /\ idx[p] < top'
    BY <1>1, <1>4, <2>1 DEF ThiefOK, At, Reading, Index
  <2>4. PICK i : i = idx[p] /\ i = idx'[p]
    BY <1>1
  <2>5. i # own => None("slot", i)'
    BY <1>7
  <2>. QED
    BY <1>1, <1>2, <1>3, <2>1, <2>2, <2>3, <2>4, <2>5 DEF ThiefOK, At, Reading
<1>12. Apart'
  BY <1>1, <1>2 DEF Apart, Inv, At, Reading
<1>13. o \in Live /\ Live' = Live \ {o}
  <2>1. (top..(LogicalBottom - 1))' = {} /\ top..(LogicalBottom - 1) = {o}
    BY <1>1, <1>3, <1>4, <1>8
  <2>2. {idx[p] : p \in {q \in Thieves : Reading(q)}}' = {idx[p] : p \in {q \in Thieves : Reading(q)}}
    BY <1>1, <1>2 DEF Reading, At
  <2>3. \A p \in Thieves : Reading(p) => idx[p] # o
    BY <1>1, <1>4, <1>8 DEF Inv, ThievesOK, ThiefOK, Index
  <2>. QED
    BY <2>1, <2>2, <2>3 DEF Live
<1>14. Fresh'
  <2>1. \A i \in Live \ {o} : OwnerSees(i)' = OwnerSees(i)
    BY <1>7, <1>8, LiveInIndex
  <2>. QED
    BY <1>1, <1>8, <1>13, <2>1, FreshTaken
<1>. QED
  BY <1>1, <1>3, <1>4, <1>6, <1>7, <1>9, <1>10, <1>11, <1>12, <1>14 DEF Inv

\* The owner's steps that take nothing.
PopBack == ~At(Owner, "idle") /\ Restore /\ writes' = Append(writes, BottomStore(own + 1))
           /\ UNCHANGED <<top, bottom, slots, pushed, idx, taken>>

LEMMA PopCases == Pop => PopReserve \/ PopTake \/ PopToCas \/ PopWin \/ PopBack
<1>1. PopLoadTop => PopTake \/ PopToCas \/ PopBack
  BY DEF PopLoadTop, PopTake, PopToCas, PopBack, memory, At
<1>2. PopCas => PopWin \/ PopBack
  BY DEF PopCas, PopWin, PopBack, At
<1>. QED
  BY <1>1, <1>2 DEF Pop

-----------------------------------------------------------------------------
(* steal().                                                                *)

Steps == {"idle", "pop_top", "pop_cas", "steal_bottom", "steal_cas", "read"}

\* A step of a thief leaves the others where they are, and the owner's stores.
LEMMA ThiefGoes ==
  ASSUME Inv, NEW p \in Thieves, NEW l \in {"idle", "steal_bottom", "steal_cas", "read"}, Goto(p, l),
         UNCHANGED <<writes, own>>
  PROVE  /\ pc'[p] = l /\ \A q \in Threads \ {p} : pc'[q] = pc[q]
         /\ pc' \in [Threads -> Steps] /\ LogicalBottom' = LogicalBottom
         /\ \A d, i : None(d, i)' <=> None(d, i)
<1>1. /\ pc'[p] = l /\ \A q \in Threads \ {p} : pc'[q] = pc[q]
      /\ pc' \in [Threads -> Steps]
  BY BasicTypes DEF Goto, Steps
<1>2. LogicalBottom' = LogicalBottom
  BY <1>1, BasicTypes DEF LogicalBottom, At
<1>3. \A d, i : None(d, i)' <=> None(d, i)
  BY DEF None, To
<1>. QED
  BY <1>1, <1>2, <1>3

LEMMA StoresKept ==
  ASSUME Inv, UNCHANGED <<writes, own, bottom>>, LogicalBottom' = LogicalBottom, top' \in Nat, top <= top'
  PROVE  StoresOK'
<1>1. StoresTyped' /\ OwnBottom' /\ SlotsHaveLatest'
  BY DEF Inv, StoresOK, StoresTyped, SlotTyped, BottomTyped, OwnBottom, SlotsHaveLatest, None, Latest, To
<1>2. ASSUME NEW j \in DOMAIN writes, writes[j].kind = "slot", top' <= writes[j].at PROVE Behind(j)'
  <2>1. writes[j].at \in Int
    BY <1>2 DEF Inv, StoresOK, StoresTyped, SlotTyped, Index
  <2>2. Behind(j)
    BY <1>2, <2>1, BasicTypes DEF Inv, StoresOK, Ordered
  <2>. QED
    BY <2>2 DEF Behind, FenceBetween, FenceAfter
<1>3. Ordered'
  BY <1>2 DEF Ordered
<1>. QED
  BY <1>1, <1>3 DEF StoresOK

LEMMA StealTopInv == ASSUME Inv, NEW p \in Thieves, StealTop(p)
                     PROVE Inv' /\ (\A i : OwnerSees(i)' = OwnerSees(i)) /\ LogicalBottom' = LogicalBottom
<1>1. /\ At(p, "idle") /\ idx' = [idx EXCEPT ![p] = top] /\ Goto(p, "steal_bottom")
      /\ UNCHANGED <<top, bottom, slots, writes, own, pushed, taken>>
  BY DEF StealTop, memory, stores
<1>2. /\ pc'[p] = "steal_bottom" /\ \A q \in Threads \ {p} : pc'[q] = pc[q]
      /\ pc' \in [Threads -> Steps] /\ LogicalBottom' = LogicalBottom
      /\ \A d, i : None(d, i)' <=> None(d, i)
  BY <1>1, ThiefGoes
<1>3. idx \in [Thieves -> Nat] /\ top \in Nat
  BY DEF Inv, TypeOK
<1>4. idx'[p] = top /\ idx' \in [Thieves -> Nat] /\ \A q \in Thieves \ {p} : idx'[q] = idx[q]
  BY <1>1, <1>3
<1>5. \A i : OwnerSees(i)' = OwnerSees(i)
  BY <1>1, SameSees
<1>6. StoresOK'
  BY <1>1, <1>2, <1>3, StoresKept
<1>7. TypeOK'
  BY <1>1, <1>2, <1>4 DEF Inv, TypeOK, Steps
<1>8. Indices'
  BY <1>1, <1>2, BasicTypes DEF Inv, Indices, At
<1>9. ThievesOK'
  <2>. SUFFICES ASSUME NEW q \in Thieves PROVE ThiefOK(q)'
    BY DEF ThievesOK
  <2>1. CASE q = p
    BY <1>1, <1>2, <1>3, <1>4, <2>1 DEF ThiefOK, At, Reading
  <2>2. CASE q # p
    <3>1. pc'[q] = pc[q] /\ idx'[q] = idx[q] /\ ThiefOK(q)
      BY <1>2, <1>4, <2>2, BasicTypes DEF Inv, ThievesOK
    <3>. QED
      BY <1>1, <1>2, <3>1 DEF ThiefOK, At, Reading
  <2>. QED
    BY <2>1, <2>2
<1>10. \A q \in Thieves : (Reading(q)' <=> Reading(q)) /\ (Reading(q) => idx'[q] = idx[q])
  BY <1>1, <1>2, <1>4, BasicTypes DEF Reading, At
<1>11. Apart'
  BY <1>10 DEF Inv, Apart
<1>12. Live' = Live
  <2>1. {idx[q] : q \in {r \in Thieves : Reading(r)}}' = {idx[q] : q \in {r \in Thieves : Reading(r)}}
    BY <1>10
  <2>. QED
    BY <1>1, <1>2, <2>1 DEF Live
<1>13. Fresh'
  BY <1>1, <1>5, <1>12, FreshKept DEF Inv
<1>. QED
  BY <1>2, <1>5, <1>6, <1>7, <1>8, <1>9, <1>11, <1>13 DEF Inv

\* A thief that sees an index in the deque sees the task that was put there: the
\* store of the slot is not behind the store of bottom_.
LEMMA SlotIsOut == ASSUME Inv, NEW i \in Nat, top <= i, i < bottom PROVE None("slot", i)
<1>. SUFFICES ASSUME NEW j \in DOMAIN writes, To(j, "slot", i) PROVE FALSE
  BY DEF None
<1>1. Behind(j) /\ writes[j].at = i
  BY DEF Inv, StoresOK, Ordered, To
<1>. QED
  BY <1>1, BasicTypes DEF Behind

LEMMA StealBottomInv == ASSUME Inv, NEW p \in Thieves, StealBottom(p)
                        PROVE Inv' /\ (\A i : OwnerSees(i)' = OwnerSees(i)) /\ LogicalBottom' = LogicalBottom
<1>1. /\ At(p, "steal_bottom") /\ UNCHANGED <<top, bottom, slots, writes, own, pushed, idx, taken>>
  BY DEF StealBottom, memory, stores
<1>2. PICK l \in {"idle", "steal_cas"} : Goto(p, l) /\ (l = "steal_cas" => ~(idx[p] >= bottom))
  BY DEF StealBottom
<1>3. /\ pc'[p] = l /\ \A q \in Threads \ {p} : pc'[q] = pc[q]
      /\ pc' \in [Threads -> Steps] /\ LogicalBottom' = LogicalBottom
      /\ \A d, i : None(d, i)' <=> None(d, i)
  BY <1>1, <1>2, ThiefGoes
<1>4. \A i : OwnerSees(i)' = OwnerSees(i)
  BY <1>1, SameSees
<1>5. StoresOK'
  BY <1>1, <1>3, BasicTypes, StoresKept
<1>6. TypeOK'
  BY <1>1, <1>3 DEF Inv, TypeOK, Steps
<1>7. Indices'
  BY <1>1, <1>3, BasicTypes DEF Inv, Indices, At
<1>8. ThievesOK'
  <2>. SUFFICES ASSUME NEW q \in Thieves PROVE ThiefOK(q)'
    BY DEF ThievesOK
  <2>1. ThiefOK(q)
    BY DEF Inv, ThievesOK
  <2>2. CASE q = p
    <3>1. idx[p] <= top
      BY <1>1, <2>1, <2>2 DEF ThiefOK, At
    <3>2. ASSUME l = "steal_cas", idx[p] = top PROVE top < LogicalBottom /\ None("slot", top)
      <4>1. top < bottom
        BY <1>2, <3>2, BasicTypes
      <4>2. None("slot", top)
        BY <4>1, SlotIsOut, BasicTypes
      <4>. QED
        BY <4>1, <4>2, BasicTypes DEF Inv, Indices
    <3>. QED
      BY <1>1, <1>3, <2>2, <3>1, <3>2 DEF ThiefOK, At, Reading
  <2>3. CASE q # p
    <3>1. pc'[q] = pc[q]
      BY <1>3, <2>3, BasicTypes
    <3>. QED
      BY <1>1, <1>3, <2>1, <3>1 DEF ThiefOK, At, Reading
  <2>. QED
    BY <2>2, <2>3
<1>9. \A q \in Thieves : (Reading(q)' <=> Reading(q))
  BY <1>1, <1>3, BasicTypes DEF Reading, At
<1>10. Apart'
  BY <1>1, <1>9 DEF Inv, Apart
<1>11. Live' = Live
  <2>1. {idx[q] : q \in {r \in Thieves : Reading(r)}}' = {idx[q] : q \in {r \in Thieves : Reading(r)}}
    BY <1>1, <1>9
  <2>. QED
    BY <1>1, <1>3, <2>1 DEF Live
<1>12. Fresh'
  BY <1>1, <1>4, <1>11, FreshKept DEF Inv
<1>. QED
  BY <1>3, <1>4, <1>5, <1>6, <1>7, <1>8, <1>10, <1>12 DEF Inv

StealLose(p) == At(p, "steal_cas") /\ Goto(p, "idle") /\ UNCHANGED <<top, bottom, slots, stores, idx, taken>>
StealWin(p) == At(p, "steal_cas") /\ top = idx[p] /\ top' = top + 1 /\ Goto(p, "read")
               /\ UNCHANGED <<bottom, slots, stores, idx, taken>>

LEMMA StealLoseInv == ASSUME Inv, NEW p \in Thieves, StealLose(p)
                      PROVE Inv' /\ (\A i : OwnerSees(i)' = OwnerSees(i)) /\ LogicalBottom' = LogicalBottom
<1>1. /\ At(p, "steal_cas") /\ Goto(p, "idle")
      /\ UNCHANGED <<top, bottom, slots, writes, own, pushed, idx, taken>>
  BY DEF StealLose, stores
<1>2. /\ pc'[p] = "idle" /\ \A q \in Threads \ {p} : pc'[q] = pc[q]
      /\ pc' \in [Threads -> Steps] /\ LogicalBottom' = LogicalBottom
      /\ \A d, i : None(d, i)' <=> None(d, i)
  BY <1>1, ThiefGoes
<1>3. \A i : OwnerSees(i)' = OwnerSees(i)
  BY <1>1, SameSees
<1>4. StoresOK'
  BY <1>1, <1>2, BasicTypes, StoresKept
<1>5. TypeOK'
  BY <1>1, <1>2 DEF Inv, TypeOK, Steps
<1>6. Indices'
  BY <1>1, <1>2, BasicTypes DEF Inv, Indices, At
<1>7. ThievesOK'
  <2>. SUFFICES ASSUME NEW q \in Thieves PROVE ThiefOK(q)'
    BY DEF ThievesOK
  <2>1. ThiefOK(q)
    BY DEF Inv, ThievesOK
  <2>2. CASE q = p
    BY <1>1, <1>2, <2>2 DEF ThiefOK, At, Reading
  <2>3. CASE q # p
    <3>1. pc'[q] = pc[q]
      BY <1>2, <2>3, BasicTypes
    <3>. QED
      BY <1>1, <1>2, <2>1, <3>1 DEF ThiefOK, At, Reading
  <2>. QED
    BY <2>2, <2>3
<1>8. \A q \in Thieves : (Reading(q)' <=> Reading(q))
  BY <1>1, <1>2, BasicTypes DEF Reading, At
<1>9. Apart'
  BY <1>1, <1>8 DEF Inv, Apart
<1>10. Live' = Live
  <2>1. {idx[q] : q \in {r \in Thieves : Reading(r)}}' = {idx[q] : q \in {r \in Thieves : Reading(r)}}
    BY <1>1, <1>8
  <2>. QED
    BY <1>1, <1>2, <2>1 DEF Live
<1>11. Fresh'
  BY <1>1, <1>3, <1>10, FreshKept DEF Inv
<1>. QED
  BY <1>2, <1>3, <1>4, <1>5, <1>6, <1>7, <1>9, <1>11 DEF Inv

\* The compare-exchange moves the task from the deque to the thief.
LEMMA StealWinInv ==
  ASSUME Inv, NEW p \in Thieves, StealWin(p)
  PROVE  /\ Inv' /\ (\A i : OwnerSees(i)' = OwnerSees(i)) /\ LogicalBottom' = LogicalBottom
         /\ top < LogicalBottom
<1>1. /\ At(p, "steal_cas") /\ top = idx[p] /\ top' = top + 1 /\ Goto(p, "read")
      /\ UNCHANGED <<bottom, slots, writes, own, pushed, idx, taken>>
  BY DEF StealWin, stores
<1>2. /\ pc'[p] = "read" /\ \A q \in Threads \ {p} : pc'[q] = pc[q]
      /\ pc' \in [Threads -> Steps] /\ LogicalBottom' = LogicalBottom
      /\ \A d, i : None(d, i)' <=> None(d, i)
  BY <1>1, ThiefGoes
<1>3. top < LogicalBottom /\ None("slot", top) /\ top \in Nat /\ top' \in Nat /\ top \in Index
  <2>1. top < LogicalBottom /\ None("slot", top)
    BY <1>1 DEF Inv, ThievesOK, ThiefOK
  <2>. QED
    BY <1>1, <2>1, BasicTypes DEF Index
<1>4. \A i : OwnerSees(i)' = OwnerSees(i)
  BY <1>1, SameSees
<1>5. StoresOK'
  BY <1>1, <1>2, <1>3, StoresKept
<1>6. TypeOK'
  BY <1>1, <1>2, <1>3 DEF Inv, TypeOK, Steps
<1>7. Indices'
  <2>1. top' <= LogicalBottom
    BY <1>1, <1>3, BasicTypes
  <2>2. pc'[Owner] = pc[Owner]
    BY <1>2, BasicTypes
  <2>3. At(Owner, "pop_cas") => top' >= own
    <3>1. At(Owner, "pop_cas") => top >= own
      BY DEF Inv, Indices
    <3>. QED
      BY <1>1, <3>1, BasicTypes
  <2>. QED
    BY <1>1, <1>2, <2>1, <2>2, <2>3 DEF Inv, Indices, At
<1>8. ThievesOK'
  <2>. SUFFICES ASSUME NEW q \in Thieves PROVE ThiefOK(q)'
    BY DEF ThievesOK
  <2>1. ThiefOK(q)
    BY DEF Inv, ThievesOK
  <2>2. CASE q = p
    <3>1. None("slot", idx[p])
      BY <1>1, <1>3
    <3>2. PICK i : i = idx[p] /\ i = idx'[p]
      BY <1>1
    <3>3. None("slot", i)'
      BY <1>2, <3>1, <3>2
    <3>. QED
      BY <1>1, <1>2, <1>3, <2>2, <3>2, <3>3 DEF ThiefOK, At, Reading
  <2>3. CASE q # p
    <3>1. pc'[q] = pc[q]
      BY <1>2, <2>3, BasicTypes
    <3>2. idx[q] \in Nat
      BY DEF Inv, TypeOK
    <3>3. pc[q] \in {"steal_bottom", "steal_cas"} => idx[q] <= top' /\ idx[q] # top'
      BY <1>1, <1>3, <2>1, <3>2 DEF ThiefOK
    <3>4. Reading(q) => idx[q] < top'
      BY <1>1, <1>3, <2>1, <3>2 DEF ThiefOK
    <3>5. PICK i : i = idx[q] /\ i = idx'[q]
      BY <1>1
    <3>6. None("slot", i)' <=> None("slot", i)
      BY <1>2
    <3>. QED
      BY <1>1, <2>1, <3>1, <3>3, <3>4, <3>5, <3>6 DEF ThiefOK, At, Reading
  <2>. QED
    BY <2>2, <2>3
<1>9. \A q \in Thieves : (Reading(q)' <=> Reading(q) \/ q = p)
  BY <1>1, <1>2, BasicTypes DEF Reading, At
<1>10. Apart'
  <2>1. \A q \in Thieves : Reading(q) => idx[q] # idx[p]
    BY <1>1, <1>3 DEF Inv, ThievesOK, ThiefOK, Index
  <2>. QED
    BY <1>1, <1>9, <2>1 DEF Inv, Apart
<1>11. Live' = Live
  <2>1. {idx[q] : q \in {r \in Thieves : Reading(r)}}'
          = {idx[q] : q \in {r \in Thieves : Reading(r)}} \cup {idx[p]}
    BY <1>1, <1>9
  <2>2. PICK t : t = top
    OBVIOUS
  <2>3. (top..(LogicalBottom - 1))' \cup {t} = top..(LogicalBottom - 1)
    <3>1. PICK e \in Int : e = LogicalBottom /\ e = LogicalBottom'
      BY <1>2, BasicTypes
    <3>2. t \in Nat /\ t < e /\ top' = t + 1
      BY <1>1, <1>3, <2>2, <3>1
    <3>3. ((t + 1)..(e - 1)) \cup {t} = t..(e - 1)
      BY <3>1, <3>2
    <3>. QED
      BY <2>2, <3>1, <3>2, <3>3
  <2>4. t = idx[p]
    BY <1>1, <2>2
  <2>. QED
    BY <2>1, <2>3, <2>4 DEF Live
<1>12. Fresh'
  BY <1>1, <1>4, <1>11, FreshKept DEF Inv
<1>. QED
  BY <1>2, <1>3, <1>4, <1>5, <1>6, <1>7, <1>8, <1>10, <1>12 DEF Inv

LEMMA StealCases == \A p \in Thieves : StealCas(p) => StealLose(p) \/ StealWin(p)
BY DEF StealCas, StealLose, StealWin

\* The thief takes what it has won.
LEMMA StealReadInv ==
  ASSUME Inv, NEW p \in Thieves, StealRead(p)
  PROVE  /\ Inv' /\ LogicalBottom' = LogicalBottom /\ idx[p] < top
         /\ \A i \in Index \ {idx[p]} : OwnerSees(i)' = OwnerSees(i)
         /\ Return(OwnerSees(idx[p]))
<1>1. /\ At(p, "read") /\ Goto(p, "idle") /\ Return(slots[idx[p]])
      /\ slots' = [slots EXCEPT ![idx[p]] = NoTask]
      /\ UNCHANGED <<top, bottom, writes, own, pushed, idx>>
  BY DEF StealRead, stores
<1>2. /\ pc'[p] = "idle" /\ \A q \in Threads \ {p} : pc'[q] = pc[q]
      /\ pc' \in [Threads -> Steps] /\ LogicalBottom' = LogicalBottom
      /\ \A d, i : None(d, i)' <=> None(d, i)
  BY <1>1, ThiefGoes
<1>3. PICK o \in Index : o = idx[p] /\ o < top /\ None("slot", o) /\ o \in Live
  BY <1>1 DEF Inv, ThievesOK, ThiefOK, Reading, Live
<1>4. /\ slots \in [Index -> Task] /\ NoTask \in Task /\ SlotsHaveLatest
      /\ slots' = [slots EXCEPT ![o] = NoTask]
  BY <1>1, <1>3, BasicTypes DEF Inv, TypeOK, NoTask, Task, StoresOK
<1>5. SeesFacts /\ SeesFacts'
  BY <1>1, SeesAre, SeesAreNext, BasicTypes DEF WritesTyped
<1>6. ASSUME NEW i \in Index \ {o} PROVE OwnerSees(i)' = OwnerSees(i)
  <2>1. CASE None("slot", i)
    <3>1. None("slot", i)' /\ slots'[i] = slots[i]
      BY <1>2, <1>4, <2>1
    <3>. QED
      BY <1>5, <2>1, <3>1 DEF SeesFacts
  <2>2. ASSUME NEW j \in DOMAIN writes, Latest(j, "slot", i) PROVE OwnerSees(i)' = OwnerSees(i)
    <3>1. Latest(j, "slot", i)' /\ writes'[j] = writes[j] /\ j \in DOMAIN writes'
      BY <1>1, <2>2 DEF Latest, To
    <3>. QED
      BY <1>5, <2>2, <3>1 DEF SeesFacts
  <2>. QED
    BY <1>4, <2>1, <2>2 DEF SlotsHaveLatest
<1>7. OwnerSees(o) = slots[o]
  BY <1>3, <1>5 DEF SeesFacts
<1>8. StoresOK'
  BY <1>1, <1>2, BasicTypes, StoresKept
<1>9. TypeOK'
  <2>1. slots[o] \in Task /\ slots' \in [Index -> Task]
    BY <1>4
  <2>2. taken' \in [Task -> Nat]
    BY <1>1, <1>3, <2>1 DEF Return, Inv, TypeOK
  <2>. QED
    BY <1>1, <1>2, <2>1, <2>2 DEF Inv, TypeOK, Steps
<1>10. Indices'
  BY <1>1, <1>2, BasicTypes DEF Inv, Indices, At
<1>11. ThievesOK'
  <2>. SUFFICES ASSUME NEW q \in Thieves PROVE ThiefOK(q)'
    BY DEF ThievesOK
  <2>1. ThiefOK(q)
    BY DEF Inv, ThievesOK
  <2>2. CASE q = p
    BY <1>1, <1>2, <2>2 DEF ThiefOK, At, Reading
  <2>3. CASE q # p
    <3>1. pc'[q] = pc[q]
      BY <1>2, <2>3, BasicTypes
    <3>. QED
      BY <1>1, <1>2, <2>1, <3>1 DEF ThiefOK, At, Reading
  <2>. QED
    BY <2>2, <2>3
<1>12. \A q \in Thieves : (Reading(q)' <=> Reading(q) /\ q # p)
  BY <1>1, <1>2, BasicTypes DEF Reading, At
<1>13. Apart'
  BY <1>1, <1>12 DEF Inv, Apart
<1>14. Live' = Live \ {o}
  <2>1. \A q \in Thieves : Reading(q) /\ q # p => idx[q] # o
    BY <1>1, <1>3 DEF Inv, Apart, Reading
  <2>2. {idx[q] : q \in {r \in Thieves : Reading(r)}}'
          = {idx[q] : q \in {r \in Thieves : Reading(r)}} \ {o}
    BY <1>1, <1>3, <1>12, <2>1
  <2>3. (top..(LogicalBottom - 1))' = top..(LogicalBottom - 1) /\ o \notin top..(LogicalBottom - 1)
    BY <1>1, <1>2, <1>3, BasicTypes DEF Index
  <2>. QED
    BY <2>2, <2>3 DEF Live
<1>15. Return(OwnerSees(o))
  BY <1>1, <1>3, <1>7
<1>16. Fresh'
  <2>1. \A i \in Live \ {o} : OwnerSees(i)' = OwnerSees(i)
    BY <1>6, LiveInIndex
  <2>. QED
    BY <1>1, <1>3, <1>14, <1>15, <2>1, FreshTaken
<1>. QED
  BY <1>2, <1>3, <1>6, <1>8, <1>9, <1>10, <1>11, <1>13, <1>15, <1>16 DEF Inv

-----------------------------------------------------------------------------
(* The theorems.                                                           *)

LEMMA InitInv == Init => Inv
<1>. SUFFICES ASSUME Init PROVE Inv
  OBVIOUS
<1>1. /\ top = 0 /\ bottom = 0 /\ slots = [i \in Index |-> NoTask] /\ writes = <<>> /\ own = 0
      /\ pushed = 0 /\ pc = [p \in Threads |-> "idle"] /\ idx = [p \in Thieves |-> 0]
      /\ taken = [x \in Task |-> 0] /\ MaxPush \in Nat /\ Owner \in Threads /\ Thieves \subseteq Threads
  BY FencedAssumption DEF Init, Threads
<1>2. LogicalBottom = 0 /\ DOMAIN writes = {} /\ writes \in Seq(Store)
  BY <1>1 DEF LogicalBottom, At
<1>3. TypeOK
  BY <1>1, <1>2 DEF TypeOK, Task, NoTask, Store
<1>4. Indices
  BY <1>1, <1>2 DEF Indices, At
<1>5. StoresOK
  BY <1>1, <1>2 DEF StoresOK, StoresTyped, OwnBottom, SlotsHaveLatest, Ordered, None
<1>6. ThievesOK
  BY <1>1, <1>2 DEF ThievesOK, ThiefOK, At, Reading
<1>7. Apart
  BY <1>1 DEF Apart, At, Reading
<1>8. Live = {}
  <2>1. top..(LogicalBottom - 1) = {}
    BY <1>1, <1>2
  <2>. QED
    BY <1>1, <2>1 DEF Live, At, Reading
<1>9. Fresh
  BY <1>1, <1>8 DEF Fresh, LiveFresh, LiveDistinct, TakenFew
<1>. QED
  BY <1>3, <1>4, <1>5, <1>6, <1>7, <1>9 DEF Inv

LEMMA StutterInv ==
  ASSUME Inv, UNCHANGED vars
  PROVE  Inv' /\ (\A i : OwnerSees(i)' = OwnerSees(i)) /\ LogicalBottom' = LogicalBottom
<1>1. UNCHANGED <<top, bottom, slots, writes, own, pushed, pc, idx, taken>>
  BY DEF vars, memory, stores
<1>2. LogicalBottom' = LogicalBottom /\ \A i : OwnerSees(i)' = OwnerSees(i)
  BY <1>1, SameSees DEF LogicalBottom, At
<1>3. StoresOK'
  BY <1>1, <1>2, BasicTypes, StoresKept
<1>4. TypeOK' /\ Indices'
  BY <1>1, <1>2 DEF Inv, TypeOK, Indices, At
<1>5. ThievesOK' /\ Apart'
  BY <1>1, <1>2 DEF Inv, ThievesOK, ThiefOK, Apart, At, Reading, None, To
<1>6. Live' = Live
  BY <1>1, <1>2 DEF Live, Reading, At
<1>7. Fresh'
  BY <1>1, <1>2, <1>6, FreshKept DEF Inv
<1>. QED
  BY <1>2, <1>3, <1>4, <1>5, <1>7 DEF Inv

LEMMA NextInv == Inv /\ [Next]_vars => Inv'
<1>. SUFFICES ASSUME Inv, [Next]_vars PROVE Inv'
  OBVIOUS
<1>1. CASE Commit
  BY <1>1, CommitInv
<1>2. CASE Push
  BY <1>2, PushInv
<1>3. CASE Pop
  <2>1. CASE PopReserve
    BY <2>1, PopReserveInv
  <2>2. CASE PopTake
    BY <2>2, PopTakeInv
  <2>3. CASE PopToCas
    BY <2>3, PopToCasInv
  <2>4. CASE PopWin
    BY <2>4, PopWinInv
  <2>5. CASE PopBack
    BY <2>5, RestoreInv DEF PopBack
  <2>. QED
    BY <1>3, <2>1, <2>2, <2>3, <2>4, <2>5, PopCases
<1>4. ASSUME NEW p \in Thieves, Steal(p) PROVE Inv'
  <2>1. CASE StealTop(p)
    BY <2>1, StealTopInv
  <2>2. CASE StealBottom(p)
    BY <2>2, StealBottomInv
  <2>3. CASE StealLose(p)
    BY <2>3, StealLoseInv
  <2>4. CASE StealWin(p)
    BY <2>4, StealWinInv
  <2>5. CASE StealRead(p)
    BY <2>5, StealReadInv
  <2>. QED
    BY <1>4, <2>1, <2>2, <2>3, <2>4, <2>5, StealCases DEF Steal
<1>5. CASE UNCHANGED vars
  BY <1>5, StutterInv
<1>. QED
  BY <1>1, <1>2, <1>3, <1>4, <1>5 DEF Next

\* The deque keeps its indices, its owner's stores and its thieves in the
\* relation that push(), pop() and steal() rely on, however the owner's stores
\* reach memory.
THEOREM Inductive == Spec => []Inv
BY InitInv, NextInv, PTL DEF Spec

\* The variables of the deque and of its owner's store buffer keep their types.
THEOREM TypeCorrect == Spec => []TypeOK
<1>1. Inv => TypeOK
  BY DEF Inv
<1>. QED
  BY <1>1, Inductive, PTL

\* The release fence of push(): when a thief can see that an index is in the
\* deque, the task stored there has reached memory.
THEOREM PublishedVisible == Spec => []PublishedTasksVisible
<1>1. Inv => PublishedTasksVisible
  <2>. SUFFICES ASSUME Inv, NEW i \in top..(bottom - 1) PROVE slots[i] # NoTask
    BY DEF PublishedTasksVisible
  <2>1. i \in Nat /\ top <= i /\ i < bottom /\ i \in Live
    BY BasicTypes DEF Live, Inv, Indices
  <2>2. None("slot", i)
    BY <2>1, SlotIsOut
  <2>3. OwnerSees(i) = slots[i]
    BY <2>2, SeesAre, BasicTypes DEF WritesTyped, SeesFacts
  <2>. QED
    BY <2>1, <2>3, BasicTypes DEF Inv, Fresh, LiveFresh, NoTask
<1>. QED
  BY <1>1, Inductive, PTL

\* The seq_cst fence of pop(): owner and thieves never both return a task, and
\* none returns an empty one.
THEOREM NoTaskTwice == Spec => []TakenOnce
<1>1. Inv => TakenOnce
  BY BasicTypes DEF Inv, Fresh, TakenFew, TakenOnce, Task, NoTask, TypeOK
<1>. QED
  BY <1>1, Inductive, PTL

-----------------------------------------------------------------------------
(* Each step is one of the deque, or none.                                 *)

Held(p) == OwnerSees(idx[p])
HeldTasks == {Held(p) : p \in {q \in Thieves : Reading(q)}}
TakenTasks == {x \in Task : taken[x] > 0}

TwoParts == HandedOut = TakenTasks \cup HeldTasks

LEMMA HandedOutIs == TwoParts
BY DEF TwoParts, HandedOut, TakenTasks, HeldTasks, Held, Reading

LEMMA HandedOutNext == TwoParts'
BY HandedOutIs, PTL

ContentsFacts ==
  /\ Contents \in Seq(Task) /\ Len(Contents) = LogicalBottom - top
  /\ DOMAIN Contents = 1..(LogicalBottom - top)
  /\ \A n \in 1..(LogicalBottom - top) : Contents[n] = OwnerSees(top + n - 1)
  /\ \A n \in 1..(LogicalBottom - top) : Contents[n] \in 1..pushed

LEMMA ContentsAre == Inv => ContentsFacts
<1>. SUFFICES ASSUME Inv PROVE ContentsFacts
  OBVIOUS
<1>1. PICK m \in Nat : m = LogicalBottom - top
  BY BasicTypes
<1>2. \A n \in 1..m : top + n - 1 \in Live
  BY <1>1, BasicTypes DEF Live
<1>3. \A n \in 1..m : OwnerSees(top + n - 1) \in 1..pushed
  BY <1>2 DEF Inv, Fresh, LiveFresh
<1>4. Contents = [n \in 1..m |-> OwnerSees(top + n - 1)]
  BY <1>1 DEF Contents
<1>5. Contents \in Seq(Task) /\ Len(Contents) = m /\ DOMAIN Contents = 1..m
  <2>1. \A n \in 1..m : OwnerSees(top + n - 1) \in Task
    BY <1>3, BasicTypes DEF Task
  <2>. QED
    BY <1>4, <2>1
<1>6. \A n \in 1..m : Contents[n] = OwnerSees(top + n - 1) /\ Contents[n] \in 1..pushed
  BY <1>3, <1>4
<1>. QED
  BY <1>1, <1>5, <1>6 DEF ContentsFacts

LEMMA ContentsNext == Inv' => ContentsFacts'
BY ContentsAre, PTL

\* What a thief holds, and the tasks in the deque, as long as the owner sees the same.
LEMMA HeldKept ==
  ASSUME NEW p \in Thieves, idx'[p] = idx[p], \A i : i = idx[p] => OwnerSees(i)' = OwnerSees(i)
  PROVE  Held(p)' = Held(p)
<1>1. PICK i : i = idx[p] /\ i = idx'[p]
  OBVIOUS
<1>2. OwnerSees(i)' = OwnerSees(i)
  BY <1>1
<1>. QED
  BY <1>1, <1>2 DEF Held

LEMMA Quiet ==
  ASSUME Inv, LogicalBottom' = LogicalBottom, UNCHANGED <<top, taken>>,
         \A i \in Index : OwnerSees(i)' = OwnerSees(i),
         \A p \in Thieves : (Reading(p)' <=> Reading(p)) /\ (Reading(p) => idx'[p] = idx[p])
  PROVE  UNCHANGED <<Contents, HandedOut>>
<1>1. ASSUME NEW p \in Thieves, Reading(p) PROVE Held(p)' = Held(p)
  <2>1. idx[p] \in Index
    BY <1>1 DEF Inv, ThievesOK, ThiefOK
  <2>. QED
    BY <1>1, <2>1, HeldKept
<1>2. HeldTasks' = HeldTasks
  BY <1>1 DEF HeldTasks
<1>3. HandedOut' = HandedOut
  BY <1>2, HandedOutIs, HandedOutNext DEF TwoParts, TakenTasks
<1>4. Contents' = Contents
  <2>1. \A n \in 1..(LogicalBottom - top) : top + n - 1 \in Index
    BY LiveInIndex, BasicTypes DEF Live
  <2>2. ASSUME NEW n \in 1..(LogicalBottom - top) PROVE OwnerSees(top + n - 1)' = OwnerSees(top + n - 1)
    <3>1. PICK i : i = top + n - 1 /\ i = top' + n - 1
      OBVIOUS
    <3>2. OwnerSees(i)' = OwnerSees(i)
      BY <2>1, <3>1
    <3>. QED
      BY <3>1, <3>2
  <2>. QED
    BY <2>2 DEF Contents
<1>. QED
  BY <1>3, <1>4

LEMMA QuietCommit == ASSUME Inv, Commit PROVE UNCHANGED <<Contents, HandedOut>>
<1>1. UNCHANGED <<top, own, pushed, pc, idx, taken>>
  BY DEF Commit
<1>2. LogicalBottom' = LogicalBottom
  BY <1>1 DEF LogicalBottom, At
<1>. QED
  BY <1>1, <1>2, CommitInv, Quiet DEF Reading, At

LEMMA QuietPop == ASSUME Inv, PopReserve \/ PopToCas \/ PopBack PROVE UNCHANGED <<Contents, HandedOut>>
<1>1. /\ LogicalBottom' = LogicalBottom /\ UNCHANGED <<top, idx, taken>>
      /\ \A i \in Index : OwnerSees(i)' = OwnerSees(i)
  BY PopReserveInv, PopToCasInv, RestoreInv DEF PopReserve, PopToCas, PopBack, memory
<1>2. \A p \in Thieves : pc'[p] = pc[p]
  BY OwnerGoes DEF PopReserve, PopToCas, PopBack, Restore
<1>. QED
  BY <1>1, <1>2, Quiet DEF Reading, At

LEMMA QuietSteal ==
  ASSUME Inv, NEW p \in Thieves, StealTop(p) \/ StealBottom(p) \/ StealLose(p)
  PROVE  UNCHANGED <<Contents, HandedOut>>
<1>1. /\ LogicalBottom' = LogicalBottom /\ UNCHANGED <<top, taken, writes, own>>
      /\ \A i : OwnerSees(i)' = OwnerSees(i)
  BY StealTopInv, StealBottomInv, StealLoseInv DEF StealTop, StealBottom, StealLose, memory, stores
<1>2. PICK l \in {"idle", "steal_bottom", "steal_cas"} : Goto(p, l)
  BY DEF StealTop, StealBottom, StealLose
<1>3. pc'[p] = l /\ \A q \in Threads \ {p} : pc'[q] = pc[q]
  BY <1>1, <1>2, ThiefGoes
<1>4. ~Reading(p)
  BY DEF StealTop, StealBottom, StealLose, Reading, At
<1>5. \A q \in Thieves \ {p} : idx'[q] = idx[q]
  BY DEF StealTop, StealBottom, StealLose, Inv, TypeOK
<1>. QED
  BY <1>1, <1>3, <1>4, <1>5, BasicTypes, Quiet DEF Reading, At

LEMMA SeqPops ==
  ASSUME NEW X, NEW S \in Seq(X), NEW T \in Seq(X), Len(S) # 0, Len(T) = Len(S) - 1
  PROVE  /\ S # <<>>
         /\ (\A n \in 1..Len(T) : T[n] = S[n]) => T = SubSeq(S, 1, Len(S) - 1)
         /\ (\A n \in 1..Len(T) : T[n] = S[n + 1]) => T = Tail(S)
<1>1. Len(S) \in Nat /\ Len(T) \in Nat
  OBVIOUS
<1>2. ASSUME \A n \in 1..Len(T) : T[n] = S[n] PROVE T = SubSeq(S, 1, Len(S) - 1)
  <2>1. PICK U : U = SubSeq(S, 1, Len(S) - 1)
    OBVIOUS
  <2>2. U \in Seq(X) /\ Len(U) = Len(T) /\ \A n \in 1..Len(U) : U[n] = S[n]
    BY <1>1, <2>1, SubSeqProperties
  <2>. QED
    BY <1>2, <2>1, <2>2, SeqEqual
<1>3. ASSUME \A n \in 1..Len(T) : T[n] = S[n + 1] PROVE T = Tail(S)
  <2>1. S # <<>>
    OBVIOUS
  <2>2. Tail(S) \in Seq(X) /\ Len(Tail(S)) = Len(T) /\ \A n \in 1..Len(Tail(S)) : Tail(S)[n] = S[n + 1]
    BY <2>1, HeadTailProperties
  <2>. QED
    BY <1>3, <2>2, SeqEqual
<1>. QED
  BY <1>2, <1>3

LEMMA ReturnAdds ==
  ASSUME Inv, NEW v \in Task, Return(v) PROVE TakenTasks' = TakenTasks \cup {v}
<1>1. taken \in [Task -> Nat] /\ taken' = [taken EXCEPT ![v] = @ + 1]
  BY DEF Inv, TypeOK, Return
<1>2. taken'[v] > 0 /\ \A x \in Task : x # v => taken'[x] = taken[x]
  BY <1>1
<1>. QED
  BY <1>2 DEF TakenTasks

\* The thief that wins the compare-exchange takes the oldest task at that moment.
LEMMA WinSteals == ASSUME Inv, NEW p \in Thieves, StealWin(p) PROVE D!StealTop
<1>1. /\ Inv' /\ LogicalBottom' = LogicalBottom /\ top < LogicalBottom /\ \A i : OwnerSees(i)' = OwnerSees(i)
  BY StealWinInv
<1>2. /\ At(p, "steal_cas") /\ top = idx[p] /\ top' = top + 1 /\ Goto(p, "read")
      /\ UNCHANGED <<writes, own, pushed, idx, taken>>
  BY DEF StealWin, stores
<1>3. pc'[p] = "read" /\ \A q \in Threads \ {p} : pc'[q] = pc[q]
  BY <1>2, ThiefGoes
<1>4. \A q \in Thieves : Reading(q)' <=> Reading(q) \/ q = p
  BY <1>2, <1>3, BasicTypes DEF Reading, At
<1>5. \A q \in Thieves : Held(q)' = Held(q)
  BY <1>1, <1>2, HeldKept
<1>6. HeldTasks' = HeldTasks \cup {Held(p)}
  BY <1>4, <1>5 DEF HeldTasks
<1>7. HandedOut' = HandedOut \cup {Held(p)}
  BY <1>2, <1>6, HandedOutIs, HandedOutNext DEF TwoParts, TakenTasks
<1>8. ContentsFacts /\ ContentsFacts'
  BY <1>1, ContentsAre, ContentsNext
<1>9. PICK m \in Nat \ {0} : m = LogicalBottom - top
  BY <1>1, BasicTypes
<1>10. PICK t \in Nat : t = top
  BY BasicTypes
<1>11. /\ Contents \in Seq(Task) /\ Contents' \in Seq(Task)
       /\ Len(Contents) = m /\ Len(Contents') = m - 1
       /\ \A n \in 1..m : Contents[n] = OwnerSees(t + n - 1)
       /\ \A n \in 1..(m - 1) : Contents'[n] = OwnerSees((t + 1) + n - 1)'
  <2>1. LogicalBottom' - top' = m - 1
    <3>1. LogicalBottom' = LogicalBottom /\ top' = top + 1
      BY <1>1, <1>2
    <3>. QED
      BY <1>9, <3>1, BasicTypes
  <2>2. \A n \in 1..(m - 1) : Contents'[n] = OwnerSees((t + 1) + n - 1)'
    <3>. TAKE n \in 1..(m - 1)
    <3>1. PICK j : j = (t + 1) + n - 1 /\ j = top' + n - 1
      BY <1>2, <1>10
    <3>2. Contents'[n] = OwnerSees(j)'
      BY <1>8, <2>1, <3>1 DEF ContentsFacts
    <3>. QED
      BY <3>1, <3>2
  <2>. QED
    BY <1>2, <1>8, <1>9, <1>10, <2>1, <2>2 DEF ContentsFacts
<1>12. \A n \in 1..(m - 1) : Contents'[n] = Contents[n + 1]
  <2>. TAKE n \in 1..(m - 1)
  <2>1. n + 1 \in 1..m /\ (t + 1) + n - 1 = t + (n + 1) - 1
    BY <1>9, <1>10
  <2>2. Contents[n + 1] = OwnerSees(t + (n + 1) - 1) /\ Contents'[n] = OwnerSees((t + 1) + n - 1)'
    BY <1>11, <2>1
  <2>. QED
    BY <1>1, <2>1, <2>2
<1>13. Contents # <<>> /\ Contents' = Tail(Contents)
  <2>1. Len(Contents) # 0 /\ Len(Contents') = Len(Contents) - 1
    BY <1>11
  <2>2. \A n \in 1..Len(Contents') : Contents'[n] = Contents[n + 1]
    BY <1>11, <1>12
  <2>3. Contents \in Seq(Task) /\ Contents' \in Seq(Task)
    BY <1>11
  <2>. QED
    BY <2>1, <2>2, <2>3, SeqPops
<1>14. Head(Contents) = Held(p)
  <2>1. Head(Contents) = Contents[1] /\ t + 1 - 1 = t /\ 1 \in 1..m
    BY <1>10, <1>11, <1>13
  <2>2. Contents[1] = OwnerSees(t)
    BY <1>11, <2>1
  <2>. QED
    BY <1>2, <1>10, <2>1, <2>2 DEF Held
<1>. QED
  BY <1>7, <1>13, <1>14 DEF D!StealTop

\* The owner that returns a task takes the last one at that moment: without a
\* compare-exchange, or by the one that it wins.
LEMMA OwnerPops ==
  ASSUME Inv, Inv', PopTake \/ PopWin, \A i \in Index \ {own} : OwnerSees(i)' = OwnerSees(i),
         own \in Index, LogicalBottom = own + 1, top <= own,
         LogicalBottom' - top' = LogicalBottom - top - 1, top' = top \/ top = own
  PROVE  D!PopBottom
<1>1. Return(OwnerSees(own)) /\ Goto(Owner, "idle") /\ UNCHANGED <<pushed, idx>>
  BY DEF PopTake, PopWin, Restore
<1>2. \A p \in Thieves : pc'[p] = pc[p]
  BY <1>1, OwnerGoes
<1>3. PICK o \in Index : o = own
  OBVIOUS
<1>4. ASSUME NEW p \in Thieves, Reading(p) PROVE Held(p)' = Held(p)
  <2>1. idx[p] \in Index \ {own}
    BY <1>4, BasicTypes DEF Inv, ThievesOK, ThiefOK, Index
  <2>. QED
    BY <1>1, <2>1, HeldKept
<1>5. HeldTasks' = HeldTasks
  BY <1>2, <1>4 DEF HeldTasks, Reading, At
<1>6. o \in Live /\ OwnerSees(o) \in Task
  <2>1. o \in Live
    BY <1>3, BasicTypes DEF Live, Index
  <2>. QED
    BY <2>1, BasicTypes DEF Inv, Fresh, LiveFresh, Task
<1>7. HandedOut' = HandedOut \cup {OwnerSees(o)}
  <2>1. TakenTasks' = TakenTasks \cup {OwnerSees(o)}
    BY <1>1, <1>3, <1>6, ReturnAdds
  <2>. QED
    BY <1>5, <2>1, HandedOutIs, HandedOutNext DEF TwoParts
<1>8. ContentsFacts /\ ContentsFacts'
  BY ContentsAre, ContentsNext
<1>9. PICK m \in Nat \ {0} : m = LogicalBottom - top
  BY BasicTypes
<1>10. PICK t \in Nat : t = top
  BY BasicTypes
<1>11. /\ Contents \in Seq(Task) /\ Contents' \in Seq(Task)
       /\ Len(Contents) = m /\ Len(Contents') = m - 1
       /\ \A n \in 1..m : Contents[n] = OwnerSees(t + n - 1)
  BY <1>1, <1>8, <1>9, <1>10 DEF ContentsFacts
<1>12. ASSUME NEW n \in 1..(m - 1) PROVE Contents'[n] = Contents[n]
  <2>1. top' = top
    BY <1>9, <1>12, BasicTypes
  <2>2. PICK j : j = t + n - 1 /\ j = top' + n - 1
    BY <1>10, <2>1
  <2>3. Contents'[n] = OwnerSees(j)'
    BY <1>8, <1>9, <1>12, <2>2 DEF ContentsFacts
  <2>4. j \in Index \ {own}
    BY <1>9, <1>10, <1>12, <2>2, BasicTypes DEF Index
  <2>5. Contents[n] = OwnerSees(j)
    BY <1>11, <1>12, <2>2
  <2>. QED
    BY <2>3, <2>4, <2>5
<1>13. Contents # <<>> /\ Contents' = SubSeq(Contents, 1, Len(Contents) - 1)
  <2>1. Len(Contents) # 0 /\ Len(Contents') = Len(Contents) - 1
    BY <1>11
  <2>2. \A n \in 1..Len(Contents') : Contents'[n] = Contents[n]
    BY <1>11, <1>12
  <2>3. Contents \in Seq(Task) /\ Contents' \in Seq(Task)
    BY <1>11
  <2>. QED
    BY <2>1, <2>2, <2>3, SeqPops
<1>14. Contents[Len(Contents)] = OwnerSees(o)
  <2>1. t + m - 1 = o /\ m \in 1..m
    BY <1>3, <1>9, <1>10, BasicTypes DEF Index
  <2>. QED
    BY <1>11, <2>1
<1>. QED
  BY <1>7, <1>13, <1>14 DEF D!PopBottom

LEMMA TakePops == ASSUME Inv, PopTake PROVE D!PopBottom
<1>1. /\ Inv' /\ own \in Index /\ LogicalBottom = own + 1 /\ LogicalBottom' = own
      /\ \A i \in Index \ {own} : OwnerSees(i)' = OwnerSees(i)
  BY PopTakeInv
<1>2. top' = top /\ top <= own
  BY <1>1, BasicTypes DEF PopTake, memory
<1>3. LogicalBottom' - top' = LogicalBottom - top - 1
  BY <1>1, <1>2, BasicTypes
<1>. QED
  BY <1>1, <1>2, <1>3, OwnerPops

LEMMA WinPops == ASSUME Inv, PopWin PROVE D!PopBottom
<1>1. /\ Inv' /\ top = own /\ own \in Index /\ LogicalBottom = own + 1 /\ LogicalBottom' = own + 1
      /\ \A i \in Index \ {own} : OwnerSees(i)' = OwnerSees(i)
  BY PopWinInv
<1>2. top' = own + 1 /\ top <= own
  BY <1>1, BasicTypes DEF PopWin
<1>3. LogicalBottom' - top' = LogicalBottom - top - 1
  BY <1>1, <1>2, BasicTypes
<1>. QED
  BY <1>1, <1>2, <1>3, OwnerPops

\* A thief reads a task that is no longer in the deque.
LEMMA QuietRead == ASSUME Inv, NEW p \in Thieves, StealRead(p) PROVE UNCHANGED <<Contents, HandedOut>>
<1>1. /\ LogicalBottom' = LogicalBottom /\ idx[p] < top /\ Return(OwnerSees(idx[p]))
      /\ \A i \in Index \ {idx[p]} : OwnerSees(i)' = OwnerSees(i)
  BY StealReadInv
<1>2. At(p, "read") /\ Goto(p, "idle") /\ UNCHANGED <<top, writes, own, pushed, idx>>
  BY DEF StealRead, stores
<1>3. pc'[p] = "idle" /\ \A q \in Threads \ {p} : pc'[q] = pc[q]
  BY <1>2, ThiefGoes
<1>4. \A q \in Thieves : Reading(q)' <=> Reading(q) /\ q # p
  BY <1>2, <1>3, BasicTypes DEF Reading, At
<1>5. ASSUME NEW q \in Thieves, q # p, Reading(q) PROVE Held(q)' = Held(q)
  <2>1. idx[q] \in Index \ {idx[p]}
    BY <1>2, <1>5 DEF Inv, ThievesOK, ThiefOK, Apart, Reading
  <2>. QED
    BY <1>1, <1>2, <2>1, HeldKept
<1>6. HeldTasks = HeldTasks' \cup {Held(p)}
  BY <1>2, <1>4, <1>5 DEF HeldTasks, Reading
<1>7. TakenTasks' = TakenTasks \cup {Held(p)}
  <2>1. Held(p) \in Task
    <3>1. idx[p] \in Live
      BY <1>2 DEF Live, Reading
    <3>. QED
      BY <3>1, BasicTypes DEF Held, Inv, Fresh, LiveFresh, Task
  <2>. QED
    BY <1>1, <2>1, ReturnAdds DEF Held
<1>8. HandedOut' = HandedOut
  BY <1>6, <1>7, HandedOutIs, HandedOutNext DEF TwoParts
<1>9. Contents' = Contents
  <2>1. \A n \in 1..(LogicalBottom - top) : top + n - 1 \in Index \ {idx[p]}
    <3>. TAKE n \in 1..(LogicalBottom - top)
    <3>1. top + n - 1 \in Index
      BY LiveInIndex, BasicTypes DEF Live
    <3>2. top + n - 1 # idx[p]
      BY <1>1, BasicTypes, <3>1 DEF Inv, TypeOK
    <3>. QED
      BY <3>1, <3>2
  <2>2. ASSUME NEW n \in 1..(LogicalBottom - top) PROVE OwnerSees(top + n - 1)' = OwnerSees(top + n - 1)
    <3>1. PICK i : i = top + n - 1 /\ i = top' + n - 1
      BY <1>2
    <3>2. OwnerSees(i)' = OwnerSees(i)
      BY <1>1, <2>1, <3>1
    <3>. QED
      BY <3>1, <3>2
  <2>. QED
    BY <1>1, <1>2, <2>2 DEF Contents
<1>. QED
  BY <1>8, <1>9

\* push() puts a task that was never there at the bottom when it makes its stores.
LEMMA PushPushes == ASSUME Inv, Push PROVE D!PushBottom
<1>1. /\ own \in Index /\ LogicalBottom = own /\ LogicalBottom' = own + 1 /\ pushed' = pushed + 1
      /\ pushed + 1 \in Task /\ UNCHANGED <<top, pc, idx, taken>>
  BY PushIs
<1>2. /\ \A i \in Index \ {own} : OwnerSees(i)' = OwnerSees(i)
      /\ \A i : i = own => OwnerSees(i)' = pushed + 1
  BY PushSees
<1>3. ContentsFacts /\ ContentsFacts' /\ top \in Nat /\ own \in Nat /\ pushed \in Nat /\ top <= own
  BY <1>1, PushInv, ContentsAre, ContentsNext, BasicTypes DEF Index
<1>4. ASSUME NEW p \in Thieves, Reading(p) PROVE Held(p)' = Held(p)
  <2>1. idx[p] \in Index \ {own}
    BY <1>3, <1>4, BasicTypes DEF Inv, ThievesOK, ThiefOK, Index
  <2>. QED
    BY <1>1, <1>2, <2>1, HeldKept
<1>5. HeldTasks' = HeldTasks
  BY <1>1, <1>4 DEF HeldTasks, Reading, At
<1>6. HandedOut' = HandedOut
  BY <1>1, <1>5, HandedOutIs, HandedOutNext DEF TwoParts, TakenTasks
<1>7. PICK m \in Nat : m = LogicalBottom - top
  BY BasicTypes
<1>8. PICK t \in Nat : t = top /\ t = top'
  BY <1>1, BasicTypes
<1>9. PICK x \in Task : x = pushed + 1
  BY <1>1
<1>10. /\ Contents \in Seq(Task) /\ Contents' \in Seq(Task)
       /\ Len(Contents) = m /\ Len(Contents') = m + 1
       /\ \A n \in 1..m : Contents[n] = OwnerSees(t + n - 1)
       /\ \A n \in 1..(m + 1) : Contents'[n] = OwnerSees(t + n - 1)'
  <2>1. LogicalBottom' - top' = m + 1
    BY <1>1, <1>3, <1>7
  <2>2. Contents \in Seq(Task) /\ Contents' \in Seq(Task)
    BY <1>1, <1>3 DEF ContentsFacts, Task
  <2>3. ASSUME NEW n \in 1..(m + 1) PROVE Contents'[n] = OwnerSees(t + n - 1)'
    <3>1. PICK j : j = t + n - 1 /\ j = top' + n - 1
      BY <1>8
    <3>2. Contents'[n] = OwnerSees(j)'
      BY <1>3, <2>1, <3>1 DEF ContentsFacts
    <3>. QED
      BY <3>1, <3>2
  <2>4. \A n \in 1..m : Contents[n] = OwnerSees(t + n - 1)
    BY <1>3, <1>7, <1>8 DEF ContentsFacts
  <2>. QED
    BY <1>3, <1>7, <2>1, <2>2, <2>3, <2>4 DEF ContentsFacts
<1>11. ASSUME NEW n \in 1..m PROVE Contents'[n] = Contents[n]
  <2>1. PICK j : j = t + n - 1
    OBVIOUS
  <2>2. j \in Index \ {own}
    BY <1>1, <1>3, <1>7, <1>8, <2>1, BasicTypes DEF Index
  <2>3. Contents[n] = OwnerSees(j) /\ Contents'[n] = OwnerSees(j)'
    BY <1>10, <2>1
  <2>. QED
    BY <1>2, <2>2, <2>3
<1>12. Contents'[m + 1] = x
  <2>1. PICK j : j = t + (m + 1) - 1
    OBVIOUS
  <2>2. j = own
    BY <1>1, <1>3, <1>7, <1>8, <2>1
  <2>3. Contents'[m + 1] = OwnerSees(j)'
    BY <1>10, <2>1
  <2>. QED
    BY <1>2, <1>9, <2>2, <2>3
<1>13. Contents' = Append(Contents, x)
  <2>1. PICK T : T = Append(Contents, x)
    OBVIOUS
  <2>2. /\ T \in Seq(Task) /\ Len(T) = m + 1 /\ T[m + 1] = x
        /\ \A n \in 1..m : T[n] = Contents[n]
    BY <1>9, <1>10, <2>1, AppendProperties
  <2>3. \A n \in 1..(m + 1) : Contents'[n] = T[n]
    BY <1>11, <1>12, <2>2
  <2>. QED
    BY <1>10, <2>1, <2>2, <2>3, SeqEqual
<1>14. x \in 1..MaxPush /\ x \notin HandedOut /\ \A n \in DOMAIN Contents : Contents[n] # x
  <2>1. x \in 1..MaxPush
    BY <1>3, <1>9 DEF Task
  <2>2. x \notin TakenTasks
    BY <1>3, <1>9 DEF TakenTasks, Inv, Fresh, TakenFew
  <2>3. x \notin HeldTasks
    <3>1. \A p \in Thieves : Reading(p) => Held(p) \in 1..pushed
      BY DEF Inv, Fresh, LiveFresh, Live, Held
    <3>. QED
      BY <1>3, <1>9, <3>1 DEF HeldTasks
  <2>4. \A n \in DOMAIN Contents : Contents[n] # x
    <3>1. \A n \in DOMAIN Contents : Contents[n] \in 1..pushed
      BY <1>3 DEF ContentsFacts
    <3>. QED
      BY <1>3, <1>9, <3>1
  <2>. QED
    BY <2>1, <2>2, <2>3, <2>4, HandedOutIs DEF TwoParts
<1>15. x \notin D!Known
  BY <1>14 DEF D!Known
<1>. QED
  BY <1>6, <1>13, <1>14, <1>15 DEF D!PushBottom

LEMMA StutterQuiet == ASSUME Inv, UNCHANGED vars PROVE UNCHANGED <<Contents, HandedOut>>
<1>1. UNCHANGED <<top, pc, idx, taken>>
  BY DEF vars, memory
<1>. QED
  BY <1>1, StutterInv, Quiet DEF Reading, At

LEMMA StepImplements == Inv /\ [Next]_vars => [D!Next]_(D!dequeVars)
<1>. SUFFICES ASSUME Inv, [Next]_vars, ~UNCHANGED <<Contents, HandedOut>> PROVE D!Next
  BY DEF D!dequeVars
<1>1. CASE Push
  BY <1>1, PushPushes DEF D!Next
<1>2. CASE Pop
  BY <1>2, PopCases, QuietPop, TakePops, WinPops DEF D!Next
<1>3. ASSUME NEW p \in Thieves, Steal(p) PROVE D!Next
  BY <1>3, StealCases, QuietSteal, QuietRead, WinSteals DEF Steal, D!Next
<1>. QED
  BY <1>1, <1>2, <1>3, QuietCommit, StutterQuiet DEF Next

LEMMA InitImplements == Init => D!Init
<1>. SUFFICES ASSUME Init PROVE D!Init
  OBVIOUS
<1>1. /\ top = 0 /\ own = 0 /\ taken = [x \in Task |-> 0] /\ \A p \in Threads : pc[p] = "idle"
      /\ Owner \in Threads /\ Thieves \subseteq Threads
  BY DEF Init, Threads
<1>2. Contents = <<>>
  <2>1. ContentsFacts
    BY InitInv, ContentsAre
  <2>2. LogicalBottom - top = 0
    BY <1>1 DEF LogicalBottom, At
  <2>. QED
    BY <2>1, <2>2 DEF ContentsFacts
<1>3. HandedOut = {}
  <2>1. TakenTasks = {}
    BY <1>1 DEF TakenTasks
  <2>2. HeldTasks = {}
    BY <1>1 DEF HeldTasks, Reading, At
  <2>. QED
    BY <2>1, <2>2, HandedOutIs DEF TwoParts
<1>. QED
  BY <1>2, <1>3 DEF D!Init

\* push(), pop() and steal() are those of Deque although the thieves see the
\* owner's stores late and in another order: each takes effect at one instant,
\* push() when the owner makes its stores, pop() when it loads top_ or wins its
\* compare-exchange, steal() when it wins its own.
THEOREM FencedIsDeque == Spec => IsDeque
<1>1. Inv /\ [Next]_vars => [D!Next]_(D!dequeVars)
  BY StepImplements
<1>. QED
  BY <1>1, InitImplements, Inductive, PTL DEF Spec, IsDeque, D!Spec
=============================================================================

--------------------------- MODULE SpscQueueProofs ---------------------------
(***************************************************************************)
(* SpscQueue for every capacity, every payload and every number of refused *)
(* pushes: no race on a cell, and the bounded queue it implements.         *)
(***************************************************************************)
EXTENDS SpscQueue, SequenceTheorems, TLAPS

\* What each thread may rely on between its load of the other's index and its
\* own store: the other's index may move on, but never onto the cell in use,
\* and nothing the other releases meanwhile is that cell.
Windows ==
  /\ ppc # "idle" => Succ(head) # tail
  /\ cpc # "idle" => tail # head
  /\ ppc # "idle" => head \notin released["consumer"]
  /\ cpc # "idle" => tail \notin released["producer"]

\* Only a thread between its access and its store has one that is not released.
Edges ==
  /\ dirty["producer"] \subseteq IF ppc = "store" THEN {head} ELSE {}
  /\ dirty["consumer"] \subseteq IF cpc = "store" THEN {tail} ELSE {}

\* The copy a thread has made is the one in the ring.
Copies ==
  /\ ppc # "idle" => item \in Items
  /\ ppc = "store" => buffer[head] = item
  /\ cpc = "store" => out = buffer[tail]

IInv == TypeOK /\ Windows /\ Edges /\ Copies

-------------------------------------------------------------------------------
\* The mask: an index below its capacity stands, one past it starts again.
LEMMA Wraps == /\ \A a \in 0 .. Capacity - 1 : a % Capacity = a
               /\ \A a \in Capacity .. 2 * Capacity - 1 : a % Capacity = a - Capacity
               /\ \A a \in 1 - Capacity .. -1 : a % Capacity = a + Capacity
<1>1. \A a \in 0 .. Capacity - 1 : a % Capacity = a
  BY CapacityAssumption
<1>2. \A a \in Capacity .. 2 * Capacity - 1 : a % Capacity = a - Capacity
  BY CapacityAssumption
<1>3. \A a \in 1 - Capacity .. -1 : a % Capacity = a + Capacity
  BY CapacityAssumption
<1> QED
  BY <1>1, <1>2, <1>3

\* The successor of a cell, without the mask.
LEMMA SuccIs ==
  \A i \in Cells : Succ(i) = IF i = Capacity - 1 THEN 0 ELSE i + 1
<1> SUFFICES ASSUME NEW i \in Cells
             PROVE  Succ(i) = IF i = Capacity - 1 THEN 0 ELSE i + 1
  OBVIOUS
<1>1. CASE i = Capacity - 1
  BY <1>1, Wraps, CapacityAssumption DEF Succ, Cells
<1>2. CASE i # Capacity - 1
  BY <1>2, Wraps, CapacityAssumption DEF Succ, Cells
<1> QED
  BY <1>1, <1>2

\* The indices stay in the ring, and two different ones stay different.
LEMMA SuccInRing == \A i, j \in Cells : /\ Succ(i) \in Cells
                                        /\ Succ(i) = Succ(j) => i = j
                                        /\ Succ(i) # i
BY SuccIs, CapacityAssumption DEF Cells

-------------------------------------------------------------------------------
\* An empty ring, and two threads outside push() and pop().
LEMMA InitInv == Init => IInv
<1> SUFFICES ASSUME Init PROVE IInv
  OBVIOUS
<1> USE DEF Init
<1>1. TypeOK
  <2>1. head \in Cells /\ tail \in Cells
    BY CapacityAssumption DEF Cells
  <2>2. dropped \in 0 .. MaxDropped
    BY MaxDroppedAssumption
  <2>3. buffer \in [Cells -> Items \cup {Blank}]
    OBVIOUS
  <2>4. dirty \in [Threads -> SUBSET Cells] /\ released \in [Threads -> SUBSET Cells]
    OBVIOUS
  <2> QED
    BY <2>1, <2>2, <2>3, <2>4 DEF TypeOK
<1>2. Windows /\ Edges /\ Copies
  BY DEF Windows, Edges, Copies, Threads
<1> QED
  BY <1>1, <1>2 DEF IInv

\* push() moves head_ only onto a cell the consumer is not at, since it looked
\* at tail_ after its last store.
LEMMA PushInv == IInv /\ Push => IInv'
<1> SUFFICES ASSUME IInv, Push PROVE IInv'
  OBVIOUS
<1> USE DEF IInv
<1>1. CASE PushFull
  <2> USE <1>1 DEF PushFull
  <2>1. TypeOK'
    BY MaxDroppedAssumption DEF TypeOK, LoadAcquire, Other, Threads
  <2>2. Windows' /\ Edges' /\ Copies'
    BY DEF TypeOK, Windows, Edges, Copies, LoadAcquire, Other, Threads
  <2> QED
    BY <2>1, <2>2
<1>2. CASE PushBegin
  <2> USE <1>2 DEF PushBegin
  <2>1. TypeOK'
    BY DEF TypeOK, LoadAcquire, Other, Threads
  <2>2. Windows'
    BY DEF TypeOK, Windows, LoadAcquire, Other, Threads
  <2>3. Edges' /\ Copies'
    BY DEF TypeOK, Edges, Copies, LoadAcquire, Other, Threads
  <2> QED
    BY <2>1, <2>2, <2>3
<1>3. CASE PushWrite
  <2> USE <1>3 DEF PushWrite
  <2>1. TypeOK'
    BY DEF TypeOK, Touch, Threads
  <2>2. Windows'
    BY DEF TypeOK, Windows, Touch, Threads
  <2>3. Edges'
    BY DEF TypeOK, Edges, Touch, Threads
  <2>4. Copies'
    BY DEF TypeOK, Windows, Copies
  <2> QED
    BY <2>1, <2>2, <2>3, <2>4
<1>4. CASE PushStore
  <2> USE <1>4 DEF PushStore
  <2>1. TypeOK'
    BY SuccInRing DEF TypeOK, StoreRelease, Threads
  <2>2. Windows'
    BY SuccInRing DEF TypeOK, Windows, Edges, StoreRelease, Threads
  <2>3. Edges'
    BY DEF TypeOK, Edges, StoreRelease, Threads
  <2>4. Copies'
    BY DEF Copies
  <2> QED
    BY <2>1, <2>2, <2>3, <2>4
<1> QED
  BY <1>1, <1>2, <1>3, <1>4 DEF Push

\* The same for pop() and tail_.
LEMMA PopInv == IInv /\ Pop => IInv'
<1> SUFFICES ASSUME IInv, Pop PROVE IInv'
  OBVIOUS
<1> USE DEF IInv
<1>1. CASE PopEmpty
  <2> USE <1>1 DEF PopEmpty
  <2>1. TypeOK'
    BY DEF TypeOK, LoadAcquire, Other, Threads
  <2>2. Windows' /\ Edges' /\ Copies'
    BY DEF TypeOK, Windows, Edges, Copies, LoadAcquire, Other, Threads
  <2> QED
    BY <2>1, <2>2
<1>2. CASE PopBegin
  <2> USE <1>2 DEF PopBegin
  <2>1. TypeOK'
    BY DEF TypeOK, LoadAcquire, Other, Threads
  <2>2. Windows'
    BY DEF TypeOK, Windows, LoadAcquire, Other, Threads
  <2>3. Edges' /\ Copies'
    BY DEF TypeOK, Edges, Copies, LoadAcquire, Other, Threads
  <2> QED
    BY <2>1, <2>2, <2>3
<1>3. CASE PopRead
  <2> USE <1>3 DEF PopRead
  <2>1. TypeOK'
    BY DEF TypeOK, Touch, Threads
  <2>2. Windows'
    BY DEF TypeOK, Windows, Touch, Threads
  <2>3. Edges' /\ Copies'
    BY DEF TypeOK, Edges, Copies, Touch, Threads
  <2> QED
    BY <2>1, <2>2, <2>3
<1>4. CASE PopStore
  <2> USE <1>4 DEF PopStore
  <2>1. TypeOK'
    BY SuccInRing DEF TypeOK, StoreRelease, Threads
  <2>2. Windows'
    BY SuccInRing DEF TypeOK, Windows, Edges, StoreRelease, Threads
  <2>3. Edges' /\ Copies'
    BY DEF TypeOK, Edges, Copies, StoreRelease, Threads
  <2> QED
    BY <2>1, <2>2, <2>3
<1> QED
  BY <1>1, <1>2, <1>3, <1>4 DEF Pop

\* Every step of the two threads keeps the invariant.
LEMMA StepInv == IInv /\ [Next]_vars => IInv'
<1> SUFFICES ASSUME IInv, [Next]_vars PROVE IInv'
  OBVIOUS
<1>1. CASE Next
  BY <1>1, PushInv, PopInv DEF Next
<1>2. CASE UNCHANGED vars
  BY <1>2 DEF vars, IInv, TypeOK, Windows, Edges, Copies
<1> QED
  BY <1>1, <1>2

\* The invariant holds in every reachable state.
THEOREM Invariant == Spec => []IInv
BY InitInv, StepInv, PTL DEF Spec

-------------------------------------------------------------------------------
\* Indices, counters and program counters keep their types.
THEOREM TypeCorrect == Spec => []TypeOK
<1>1. IInv => TypeOK
  BY DEF IInv
<1> QED
  BY <1>1, Invariant, PTL

\* Every access to a cell is ordered after the other thread's last access to
\* it, by the acquire and release pairs on head_ and tail_ alone.
THEOREM NoDataRace == Spec => []RaceFree
<1>1. IInv => RaceFree
  BY DEF IInv, TypeOK, Windows, Edges, RaceFree, Threads
<1> QED
  BY <1>1, Invariant, PTL

-------------------------------------------------------------------------------
\* The number of items between two indices, and the cell of the k-th of them,
\* without the mask.
Between(h, t) == IF h >= t THEN h - t ELSE h - t + Capacity
CellOf(t, k) == IF t + k - 1 < Capacity THEN t + k - 1 ELSE t + k - 1 - Capacity

\* size(): how far the head is from the tail, round the ring.
LEMMA CountIs == \A h, t \in Cells : /\ (h - t) % Capacity = Between(h, t)
                                    /\ Between(h, t) \in 0 .. Capacity - 1
<1> SUFFICES ASSUME NEW h \in Cells, NEW t \in Cells
             PROVE  /\ (h - t) % Capacity = Between(h, t)
                    /\ Between(h, t) \in 0 .. Capacity - 1
  OBVIOUS
<1>1. CASE h >= t
  BY <1>1, Wraps, CapacityAssumption DEF Between, Cells
<1>2. CASE h < t
  BY <1>2, Wraps, CapacityAssumption DEF Between, Cells
<1> QED
  BY <1>1, <1>2, CapacityAssumption DEF Cells

\* The k-th item from the tail, round the ring.
LEMMA CellIs == \A t \in Cells, k \in 1 .. Capacity - 1 :
                  /\ (t + k - 1) % Capacity = CellOf(t, k)
                  /\ CellOf(t, k) \in Cells
<1> SUFFICES ASSUME NEW t \in Cells, NEW k \in 1 .. Capacity - 1
             PROVE  /\ (t + k - 1) % Capacity = CellOf(t, k)
                    /\ CellOf(t, k) \in Cells
  OBVIOUS
<1>1. CASE t + k - 1 < Capacity
  BY <1>1, Wraps, CapacityAssumption DEF CellOf, Cells
<1>2. CASE t + k - 1 >= Capacity
  BY <1>2, Wraps, CapacityAssumption DEF CellOf, Cells
<1> QED
  BY <1>1, <1>2, CapacityAssumption DEF Cells

\* What a step of head_ or of tail_ does to both.
LEMMA Steps == \A h, t \in Cells :
  /\ Succ(h) # t => Between(Succ(h), t) = Between(h, t) + 1
  /\ h # t => /\ Between(h, t) >= 1
              /\ Between(h, Succ(t)) = Between(h, t) - 1
  /\ CellOf(t, 1) = t
  /\ CellOf(t, Between(h, t) + 1) = h
  /\ \A k \in 1 .. Capacity - 2 : CellOf(Succ(t), k) = CellOf(t, k + 1)
<1> SUFFICES ASSUME NEW h \in Cells, NEW t \in Cells
             PROVE  /\ Succ(h) # t => Between(Succ(h), t) = Between(h, t) + 1
                    /\ h # t => /\ Between(h, t) >= 1
                                /\ Between(h, Succ(t)) = Between(h, t) - 1
                    /\ CellOf(t, 1) = t
                    /\ CellOf(t, Between(h, t) + 1) = h
                    /\ \A k \in 1 .. Capacity - 2 : CellOf(Succ(t), k) = CellOf(t, k + 1)
  OBVIOUS
<1> USE CapacityAssumption DEF Cells
<1>1. Succ(h) # t => Between(Succ(h), t) = Between(h, t) + 1
  <2>1. CASE h = Capacity - 1
    BY <2>1, SuccIs DEF Between
  <2>2. CASE h # Capacity - 1
    BY <2>2, SuccIs DEF Between
  <2> QED
    BY <2>1, <2>2
<1>2. h # t => Between(h, t) >= 1 /\ Between(h, Succ(t)) = Between(h, t) - 1
  <2>1. CASE t = Capacity - 1
    BY <2>1, SuccIs DEF Between
  <2>2. CASE t # Capacity - 1
    BY <2>2, SuccIs DEF Between
  <2> QED
    BY <2>1, <2>2
<1>3. CellOf(t, 1) = t
  BY DEF CellOf
<1>4. CellOf(t, Between(h, t) + 1) = h
  BY DEF CellOf, Between
<1>5. \A k \in 1 .. Capacity - 2 : CellOf(Succ(t), k) = CellOf(t, k + 1)
  <2>1. CASE t = Capacity - 1
    BY <2>1, SuccIs DEF CellOf
  <2>2. CASE t # Capacity - 1
    BY <2>2, SuccIs DEF CellOf
  <2> QED
    BY <2>1, <2>2
<1> QED
  BY <1>1, <1>2, <1>3, <1>4, <1>5

\* What is inside, as a sequence.
Sequenced ==
  /\ Count = Between(head, tail)
  /\ Count \in 0 .. Capacity - 1
  /\ Contents \in Seq(Items \cup {Blank})
  /\ Len(Contents) = Count
  /\ \A k \in 1 .. Count : Contents[k] = buffer[CellOf(tail, k)]

\* The items inside are a sequence of items.
LEMMA Inside == TypeOK => Sequenced
<1> SUFFICES ASSUME TypeOK PROVE Sequenced
  OBVIOUS
<1>1. Count = Between(head, tail) /\ Count \in 0 .. Capacity - 1
  BY CountIs DEF TypeOK, Count
<1>2. \A k \in 1 .. Count : /\ (tail + k - 1) % Capacity = CellOf(tail, k)
                            /\ buffer[CellOf(tail, k)] \in Items \cup {Blank}
  BY <1>1, CellIs, CapacityAssumption DEF TypeOK
<1>3. Contents = [k \in 1 .. Count |-> buffer[CellOf(tail, k)]]
  BY <1>2 DEF Contents
<1>4. Contents \in Seq(Items \cup {Blank}) /\ Len(Contents) = Count
  BY <1>1, <1>2, <1>3
<1> QED
  BY <1>1, <1>3, <1>4 DEF Sequenced

\* After the step as well.
LEMMA InsideNext == TypeOK' => Sequenced'
  BY Inside, PTL

\* Nothing inside moves if no cell inside is written.
LEMMA SameInside ==
  ASSUME TypeOK, TypeOK', UNCHANGED <<head, tail>>,
         \A i \in Cells : i # head => buffer'[i] = buffer[i]
  PROVE  Contents' = Contents
<1>1. Count' = Count
  BY DEF Count
<1>2. \A k \in 1 .. Count : CellOf(tail, k) \in Cells /\ CellOf(tail, k) # head
  BY Inside, CellIs, CapacityAssumption DEF Sequenced, Between, CellOf, TypeOK, Cells
<1>3. \A k \in 1 .. Count : Contents'[k] = Contents[k]
  BY <1>1, <1>2, Inside, InsideNext DEF Sequenced
<1> QED
  BY <1>1, <1>3, Inside, InsideNext, SeqEqual DEF Sequenced

\* The store to head_ adds the item pushed at the end.
LEMMA PushAppends ==
  ASSUME IInv, TypeOK', PushStore
  PROVE  Fifo!Push(item)
<1> USE DEF IInv, PushStore
<1>1. Count' = Count + 1
  BY Steps, Inside, InsideNext DEF Sequenced, TypeOK, Windows
<1>2. \A k \in 1 .. Count : Contents'[k] = Contents[k]
  BY <1>1, Inside, InsideNext DEF Sequenced
<1>3. CellOf(tail, Count + 1) = head
  BY Steps, Inside DEF Sequenced, TypeOK
<1>4. Contents'[Count + 1] = item
  BY <1>1, <1>3, Inside, InsideNext DEF Sequenced, Copies
<1>5. item \in Items \cup {Blank}
  BY DEF TypeOK
<1>6. Contents' = Append(Contents, item)
  BY <1>1, <1>2, <1>4, <1>5, Inside, InsideNext, SeqEqual, AppendProperties DEF Sequenced
<1>7. Len(Contents) < Capacity - 1
  BY <1>1, Inside, InsideNext, CapacityAssumption DEF Sequenced
<1> QED
  BY <1>6, <1>7 DEF Fifo!Push

\* A push that finds the ring full finds Capacity - 1 items in it.
LEMMA FullRefuses ==
  ASSUME TypeOK, TypeOK', PushFull
  PROVE  Fifo!Drop
<1> USE DEF PushFull
<1>1. Count = Capacity - 1
  BY SuccIs, Inside, CapacityAssumption DEF Sequenced, Between, TypeOK, Cells
<1>2. Len(Contents) = Capacity - 1
  BY <1>1, Inside DEF Sequenced
<1>3. Contents' = Contents
  BY SameInside
<1> QED
  BY <1>2, <1>3 DEF Fifo!Drop

\* The store to tail_ takes the oldest item away, and it is the one copied.
LEMMA PopTakesOldest ==
  ASSUME IInv, TypeOK', PopStore
  PROVE  Fifo!Pop
<1> USE DEF IInv, PopStore
<1>1. Count >= 1 /\ Count' = Count - 1
  BY Steps, Inside, InsideNext DEF Sequenced, TypeOK, Windows
<1>2. Contents # <<>>
  BY <1>1, Inside DEF Sequenced
<1>3. CellOf(tail, 1) = tail
  BY Steps DEF TypeOK
<1>4. Head(Contents) = out
  BY <1>1, <1>2, <1>3, Inside DEF Sequenced, Copies
<1>5. \A k \in 1 .. Count' : CellOf(tail', k) = CellOf(tail, k + 1)
  BY <1>1, Steps, Inside, CapacityAssumption DEF Sequenced, TypeOK
<1>6. \A k \in 1 .. Count' : Contents'[k] = Contents[k + 1]
  BY <1>1, <1>5, Inside, InsideNext DEF Sequenced
<1>7. Contents' = Tail(Contents)
  BY <1>1, <1>2, <1>6, Inside, InsideNext, SeqEqual, HeadTailProperties DEF Sequenced
<1> QED
  BY <1>2, <1>4, <1>7 DEF Fifo!Pop

\* Every other access is invisible.
LEMMA StepRefines ==
  ASSUME IInv, IInv', [Next]_vars
  PROVE  [Fifo!Next]_Fifo!vars
<1> USE DEF Fifo!Next, Fifo!vars
<1>1. CASE PushFull
  BY <1>1, FullRefuses DEF IInv
<1>2. CASE PushBegin
  BY <1>2, SameInside DEF PushBegin, IInv
<1>3. CASE PushWrite
  BY <1>3, SameInside DEF PushWrite, IInv, TypeOK
<1>4. CASE PushStore
  BY <1>4, PushAppends DEF IInv, PushStore, Copies
<1>5. CASE PopEmpty
  BY <1>5, SameInside DEF PopEmpty, IInv
<1>6. CASE PopBegin
  BY <1>6, SameInside DEF PopBegin, IInv
<1>7. CASE PopRead
  BY <1>7, SameInside DEF PopRead, IInv
<1>8. CASE PopStore
  BY <1>8, PopTakesOldest DEF IInv
<1>9. CASE UNCHANGED vars
  BY <1>9, SameInside DEF vars, IInv
<1> QED
  BY <1>1, <1>2, <1>3, <1>4, <1>5, <1>6, <1>7, <1>8, <1>9 DEF Next, Push, Pop

\* The ring implements the bounded queue: every accepted item comes out once
\* and in order, and only a push into a full ring is refused, and counted.
THEOREM Refinement == Spec => FifoSpec
<1>1. Init => Fifo!Init
  <2> SUFFICES ASSUME Init PROVE Fifo!Init
    OBVIOUS
  <2>1. TypeOK
    BY InitInv DEF IInv
  <2>2. Count = 0
    BY <2>1, Inside DEF Init, Sequenced, Between
  <2>3. Contents = <<>>
    BY <2>1, <2>2, Inside, EmptySeq DEF Sequenced
  <2> QED
    BY <2>3 DEF Init, Fifo!Init
<1>2. IInv /\ IInv' /\ [Next]_vars => [Fifo!Next]_Fifo!vars
  BY StepRefines
<1> QED
  BY <1>1, <1>2, Invariant, PTL DEF Spec, FifoSpec, Fifo!Spec
===============================================================================

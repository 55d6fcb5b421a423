------------------------------ MODULE SpscQueue ------------------------------
(***************************************************************************)
(* sync/SpscQueue.hpp, one producer thread and one consumer thread, split  *)
(* at the accesses the other thread can observe.  In CommandQueue the      *)
(* producer is the render thread (InputTranslator) and the consumer the    *)
(* simulation thread, which drains the queue once per loop.                *)
(*                                                                         *)
(* The memory orders are modelled by the happens-before edges they make:   *)
(* dirty[t] are the cells t touched since its last release store,          *)
(* released[t] those released and not yet acquired by the other thread.    *)
(***************************************************************************)
EXTENDS Integers, Sequences

CONSTANTS Items,      (* what is pushed                   *)
          Blank,      (* T{}, the initial cell contents   *)
          Capacity,   (* template parameter               *)
          MaxDropped  (* bound: refused pushes counted    *)

ASSUME CapacityAssumption == Capacity \in Nat /\ Capacity >= 2
ASSUME MaxDroppedAssumption == MaxDropped \in Nat

VARIABLES buffer,     (* buffer_                                  *)
          head, tail, (* head_, tail_                             *)
          dropped,    (* dropped_                                 *)
          ppc, item,  (* push: next access, and its argument      *)
          cpc, out,   (* pop: next access, and the item copied    *)
          result,     (* the item the last successful pop returned *)
          dirty, released

vars == <<buffer, head, tail, dropped, ppc, item, cpc, out, result,
          dirty, released>>

Cells == 0 .. Capacity - 1
Threads == {"producer", "consumer"}
Other(t) == IF t = "producer" THEN "consumer" ELSE "producer"
Succ(i) == (i + 1) % Capacity                       (* (i + 1) & kMask *)

Init == /\ buffer = [i \in Cells |-> Blank]
        /\ head = 0
        /\ tail = 0
        /\ dropped = 0
        /\ ppc = "idle" /\ item = Blank
        /\ cpc = "idle" /\ out = Blank
        /\ result = Blank
        /\ dirty = [t \in Threads |-> {}]
        /\ released = [t \in Threads |-> {}]

-------------------------------------------------------------------------------
Touch(t, i) == /\ dirty' = [dirty EXCEPT ![t] = @ \cup {i}]
               /\ UNCHANGED released

LoadAcquire(t) == /\ released' = [released EXCEPT ![Other(t)] = {}]
                  /\ UNCHANGED dirty

\* Mutant: memory_order_relaxed.
StoreRelaxed(t) == UNCHANGED <<dirty, released>>

StoreRelease(t) == /\ released' = [released EXCEPT ![t] = @ \cup dirty[t]]
                   /\ dirty' = [dirty EXCEPT ![t] = {}]

-------------------------------------------------------------------------------
\* push: the loads of head_ and tail_.
PushFull ==
  /\ ppc = "idle"
  /\ Succ(head) = tail
  /\ dropped < MaxDropped
  /\ dropped' = dropped + 1
  /\ LoadAcquire("producer")
  /\ UNCHANGED <<buffer, head, tail, ppc, item, cpc, out, result>>

\* Mutant: the queue takes an item when it is full.
PushUnchecked == \E x \in Items :
  /\ ppc = "idle"
  /\ ppc' = "write"
  /\ item' = x
  /\ LoadAcquire("producer")
  /\ UNCHANGED <<buffer, head, tail, dropped, cpc, out, result>>

PushBegin == \E x \in Items :
  /\ ppc = "idle"
  /\ Succ(head) # tail
  /\ ppc' = "write"
  /\ item' = x
  /\ LoadAcquire("producer")
  /\ UNCHANGED <<buffer, head, tail, dropped, cpc, out, result>>

PushWrite ==
  /\ ppc = "write"
  /\ buffer' = [buffer EXCEPT ![head] = item]
  /\ ppc' = "store"
  /\ Touch("producer", head)
  /\ UNCHANGED <<head, tail, dropped, item, cpc, out, result>>

PushStore ==
  /\ ppc = "store"
  /\ head' = Succ(head)
  /\ ppc' = "idle"
  /\ StoreRelease("producer")
  /\ UNCHANGED <<buffer, tail, dropped, item, cpc, out, result>>

Push == PushFull \/ PushBegin \/ PushWrite \/ PushStore

\* pop: the loads of tail_ and head_.
PopEmpty ==
  /\ cpc = "idle"
  /\ tail = head
  /\ LoadAcquire("consumer")
  /\ UNCHANGED <<buffer, head, tail, dropped, ppc, item, cpc, out, result>>

PopBegin ==
  /\ cpc = "idle"
  /\ tail # head
  /\ cpc' = "read"
  /\ LoadAcquire("consumer")
  /\ UNCHANGED <<buffer, head, tail, dropped, ppc, item, out, result>>

PopRead ==
  /\ cpc = "read"
  /\ out' = buffer[tail]
  /\ cpc' = "store"
  /\ Touch("consumer", tail)
  /\ UNCHANGED <<buffer, head, tail, dropped, ppc, item, result>>

PopStore ==
  /\ cpc = "store"
  /\ tail' = Succ(tail)
  /\ result' = out
  /\ cpc' = "idle"
  /\ StoreRelease("consumer")
  /\ UNCHANGED <<buffer, head, dropped, ppc, item, out>>

Pop == PopEmpty \/ PopBegin \/ PopRead \/ PopStore

Next == Push \/ Pop
Spec == Init /\ [][Next]_vars

-------------------------------------------------------------------------------
TypeOK == /\ buffer \in [Cells -> Items \cup {Blank}]
          /\ head \in Cells
          /\ tail \in Cells
          /\ dropped \in 0 .. MaxDropped
          /\ ppc \in {"idle", "write", "store"}
          /\ cpc \in {"idle", "read", "store"}
          /\ {item, out, result} \subseteq Items \cup {Blank}
          /\ dirty \in [Threads -> SUBSET Cells]
          /\ released \in [Threads -> SUBSET Cells]

\* Neither thread's cell access is unordered with an access of the other:
\* the acquire and release pairs on head_ and tail_ are enough for a payload
\* that is no atomic.
RaceFree ==
  LET unordered(t) == dirty[t] \cup released[t]
  IN  /\ ppc = "write" => head \notin unordered("consumer")
      /\ cpc = "read" => tail \notin unordered("producer")

Count == (head - tail) % Capacity
Contents == [k \in 1 .. Count |-> buffer[(tail + k - 1) % Capacity]]

\* SpscQueue.hpp, above the class: every accepted item comes out once, in
\* order, although a push and a pop interleave at every access; only the
\* newest item is ever lost, only when Capacity - 1 items are inside, and it
\* is counted.
Fifo == INSTANCE BoundedFifo WITH q <- Contents, out <- result,
                                  Room <- Capacity - 1
FifoSpec == Fifo!Spec
===============================================================================

----------------------------- MODULE TripleBuffer -----------------------------
(***************************************************************************)
(* sync/TripleBuffer.hpp as the two threads use it: the simulation thread  *)
(* fills writeSlot() word by word and calls publish() (SimulationLoop.cpp, *)
(* publish); the render thread calls acquire() once per frame and reads    *)
(* the held slot by reference for the rest of the frame (app/main.cpp).    *)
(* One action per memory access that the other thread can observe.         *)
(*                                                                         *)
(* The memory orders are modelled by the happens-before edges they make:   *)
(* dirty[t] are the slots t touched since its last release, released[t]    *)
(* those it has released and the other thread has not yet acquired.        *)
(* Touching a slot in the other thread's dirty or released set is a data   *)
(* race in the sense of C++.                                               *)
(***************************************************************************)
EXTENDS Naturals

CONSTANTS Words,      (* the words of the payload T                        *)
          MaxVersion  (* bound: publishes in a behaviour                   *)

ASSUME WordsAssumption == Words # {}
ASSUME MaxVersionAssumption == MaxVersion \in Nat

VARIABLES slots,      (* slots_: the version in each word of each slot     *)
          write,      (* write_: the producer's slot                       *)
          read,       (* read_: the consumer's slot                        *)
          shared,     (* shared_: index bits and kFresh                    *)
          todo,       (* words of writeSlot() not yet filled               *)
          published,  (* publishes so far (history)                        *)
          pc,         (* where the consumer stands in its frame            *)
          got, seen,  (* acquire()'s result; versions read since (history) *)
          dirty, released

vars == <<slots, write, read, shared, todo, published, pc, got, seen,
          dirty, released>>

Slots   == 0 .. 2
Threads == {"sim", "render"}
Other(t) == IF t = "sim" THEN "render" ELSE "sim"

Init == /\ slots = [i \in Slots |-> [w \in Words |-> 0]]
        /\ write = 0
        /\ read = 1
        /\ shared = [slot |-> 2, fresh |-> FALSE]
        /\ todo = Words
        /\ published = 0
        /\ pc = "acquire"
        /\ got = FALSE
        /\ seen = {}
        /\ dirty = [t \in Threads |-> {}]
        /\ released = [t \in Threads |-> {}]

-------------------------------------------------------------------------------
Touch(t, i) == /\ dirty' = [dirty EXCEPT ![t] = @ \cup {i}]
               /\ UNCHANGED released

LoadAcquire(t) == /\ released' = [released EXCEPT ![Other(t)] = {}]
                  /\ UNCHANGED dirty

\* Mutant: memory_order_relaxed.
ExchangeRelaxed(t) == UNCHANGED <<dirty, released>>

\* exchange(..., memory_order_acq_rel): both edges at once.
ExchangeAcqRel(t) ==
  /\ released' = [u \in Threads |->
                    IF u = t THEN released[t] \cup dirty[t] ELSE {}]
  /\ dirty' = [dirty EXCEPT ![t] = {}]

-------------------------------------------------------------------------------
\* writeSlot(): the producer fills one more word of its slot.
WriteWord == \E w \in todo :
  /\ published < MaxVersion
  /\ slots' = [slots EXCEPT ![write][w] = published + 1]
  /\ todo' = todo \ {w}
  /\ Touch("sim", write)
  /\ UNCHANGED <<write, read, shared, published, pc, got, seen>>

\* Mutant: before the slot is filled.
PublishUnfilled ==
  /\ published < MaxVersion
  /\ shared' = [slot |-> write, fresh |-> TRUE]
  /\ write' = shared.slot
  /\ todo' = Words
  /\ published' = published + 1
  /\ ExchangeAcqRel("sim")
  /\ UNCHANGED <<slots, read, pc, got, seen>>

Publish ==
  /\ todo = {}
  /\ shared' = [slot |-> write, fresh |-> TRUE]
  /\ write' = shared.slot
  /\ todo' = Words
  /\ published' = published + 1
  /\ ExchangeAcqRel("sim")
  /\ UNCHANGED <<slots, read, pc, got, seen>>

\* Mutant: acquire() gives up whatever the bit says.
AcquireGivesUp ==
  /\ pc = "acquire"
  /\ pc' = "read"
  /\ got' = FALSE
  /\ seen' = {}
  /\ LoadAcquire("render")
  /\ UNCHANGED <<slots, write, read, shared, todo, published>>

\* acquire(), the load: no fresh bit, return false and keep the old slot.
AcquireNothing ==
  /\ pc = "acquire"
  /\ ~shared.fresh
  /\ pc' = "read"
  /\ got' = FALSE
  /\ seen' = {}
  /\ LoadAcquire("render")
  /\ UNCHANGED <<slots, write, read, shared, todo, published>>

AcquireSeesFresh ==
  /\ pc = "acquire"
  /\ shared.fresh
  /\ pc' = "exchange"
  /\ LoadAcquire("render")
  /\ UNCHANGED <<slots, write, read, shared, todo, published, got, seen>>

\* acquire(), the exchange: swap the held slot for the one in the middle.
AcquireExchange ==
  /\ pc = "exchange"
  /\ shared' = [slot |-> read, fresh |-> FALSE]
  /\ read' = shared.slot
  /\ pc' = "read"
  /\ got' = TRUE
  /\ seen' = {}
  /\ ExchangeAcqRel("render")
  /\ UNCHANGED <<slots, write, todo, published>>

ReadWord == \E w \in Words :
  /\ pc = "read"
  /\ seen' = seen \cup {slots[read][w]}
  /\ Touch("render", read)
  /\ UNCHANGED <<slots, write, read, shared, todo, published, pc, got>>

\* The frame is drawn; the next one starts with acquire().
EndFrame ==
  /\ pc = "read"
  /\ pc' = "acquire"
  /\ UNCHANGED <<slots, write, read, shared, todo, published, got, seen,
                 dirty, released>>

Producer == WriteWord \/ Publish
Acquire  == AcquireNothing \/ AcquireSeesFresh \/ AcquireExchange
Next == Producer \/ Acquire \/ ReadWord \/ EndFrame

Spec == Init /\ [][Next]_vars

-------------------------------------------------------------------------------
TypeOK == /\ slots \in [Slots -> [Words -> Nat]]
          /\ write \in Slots
          /\ read \in Slots
          /\ shared \in [slot : Slots, fresh : BOOLEAN]
          /\ todo \in SUBSET Words
          /\ published \in 0 .. MaxVersion
          /\ pc \in {"acquire", "exchange", "read"}
          /\ got \in BOOLEAN
          /\ seen \in SUBSET Nat
          /\ dirty \in [Threads -> SUBSET Slots]
          /\ released \in [Threads -> SUBSET Slots]

\* TripleBuffer.hpp, above the members: the producer's slot, the consumer's
\* slot and the one in the middle stay three different slots through every
\* pair of racing exchanges.
SlotsDistinct == /\ write # read
                 /\ shared.slot \notin {write, read}

\* The acquire and release edges order every access of one thread to a slot
\* before the other thread's next access to it: the payload, which is no
\* atomic, is never touched by both at once.
RaceFree == LET unordered(t) == dirty[t] \cup released[t]
            IN  /\ write \notin unordered("render")
                /\ pc = "read" => read \notin unordered("sim")

\* "Neither can observe a half-written value": all words a frame reads, at
\* whatever moment of the frame, come from the same publish.
NoTearing == \A a, b \in seen : a = b

HeldVersion == slots[read][CHOOSE w \in Words : TRUE]

\* TripleBuffer.hpp, above acquire(): the newest value is handed over, and
\* false means that nothing newer exists.  The two threads together behave as
\* the one-place mailbox.
Box == INSTANCE Mailbox WITH current <- published, held <- HeldVersion
MailboxSpec == Box!Spec
===============================================================================

----------------------------- MODULE RunLoopProofs -----------------------------
(***************************************************************************)
(* TripleBuffer for every payload and every number of publishes: slot      *)
(* ownership, absence of races and of tearing, and the mailbox refinement. *)
(* Then RunLoop for every cap, backlog and width of Tick: the rate that is *)
(* shown is the ticks that were stepped, and the loop is a producer of the *)
(* buffer, so that what is proved of the buffer holds in it.               *)
(***************************************************************************)
EXTENDS RunLoop, TLAPS

\* Who may still hold an unordered access to which slot.
Edges ==
  /\ dirty["sim"] \subseteq {write}
  /\ dirty["render"] \subseteq {read}
  /\ released["sim"] \subseteq {write, shared.slot}
  /\ released["render"] \subseteq {shared.slot}
  /\ shared.fresh => released["render"] = {}
  /\ pc = "exchange" => shared.fresh

\* What each of the three slots contains.
Contents ==
  /\ todo # Words => published < MaxVersion
  /\ \A w \in Words \ todo : slots[write][w] = published + 1
  /\ \A w \in Words : shared.fresh => /\ slots[shared.slot][w] = published
                                      /\ slots[read][w] < published
  /\ \A w \in Words : ~shared.fresh => slots[read][w] = published
  /\ \A v, w \in Words : slots[read][v] = slots[read][w]
  /\ \A a \in seen : \A w \in Words : a = slots[read][w]

IInv == TypeOK /\ SlotsDistinct /\ Edges /\ Contents

-------------------------------------------------------------------------------
\* The buffer starts with three different, empty slots.
LEMMA InitInv == Init => IInv
<1> SUFFICES ASSUME Init PROVE IInv
  OBVIOUS
<1> USE MaxVersionAssumption DEF Init, Slots, Threads
<1>1. TypeOK
  <2>1. slots \in [Slots -> [Words -> Nat]]
    OBVIOUS
  <2>2. dirty \in [Threads -> SUBSET Slots] /\ released \in [Threads -> SUBSET Slots]
    OBVIOUS
  <2>3. shared \in [slot : Slots, fresh : BOOLEAN] /\ seen \in SUBSET Nat
    OBVIOUS
  <2>4. published \in 0 .. MaxVersion
    OBVIOUS
  <2>5. todo \in SUBSET Words
    OBVIOUS
  <2>6. got \in BOOLEAN
    OBVIOUS
  <2> QED
    BY <2>1, <2>2, <2>3, <2>4, <2>5, <2>6 DEF TypeOK
<1>2. SlotsDistinct
  BY DEF SlotsDistinct
<1>3. Edges
  BY DEF Edges
<1>4. Contents
  BY DEF Contents
<1> QED
  BY <1>1, <1>2, <1>3, <1>4 DEF IInv

\* Filling a word of writeSlot() disturbs neither the middle slot nor the
\* consumer's.
LEMMA WriteWordInv == IInv /\ WriteWord => IInv'
<1> SUFFICES ASSUME IInv, WriteWord PROVE IInv'
  OBVIOUS
<1> USE MaxVersionAssumption
<1> PICK w \in todo : /\ published < MaxVersion
                      /\ slots' = [slots EXCEPT ![write][w] = published + 1]
                      /\ todo' = todo \ {w}
                      /\ Touch("sim", write)
                      /\ UNCHANGED <<write, read, shared, published, pc, got, seen>>
  BY DEF WriteWord
<1>1. TypeOK'
  BY DEF IInv, TypeOK, Touch, Slots, Threads
<1>2. SlotsDistinct'
  BY DEF IInv, SlotsDistinct
<1>3. Edges'
  BY DEF IInv, TypeOK, SlotsDistinct, Edges, Touch, Slots, Threads
<1>4. Contents'
  BY DEF IInv, TypeOK, SlotsDistinct, Contents, Slots
<1> QED
  BY <1>1, <1>2, <1>3, <1>4 DEF IInv

\* publish() gives away a filled slot and takes the middle one; the acquire
\* edge of its exchange orders the consumer's last accesses to that slot.
LEMMA PublishInv == IInv /\ Publish => IInv'
<1> SUFFICES ASSUME IInv, Publish PROVE IInv'
  OBVIOUS
<1> USE MaxVersionAssumption, WordsAssumption DEF Publish
<1>1. TypeOK'
  BY DEF IInv, TypeOK, Contents, ExchangeAcqRel, Slots, Threads
<1>2. SlotsDistinct'
  BY DEF IInv, TypeOK, SlotsDistinct
<1>3. Edges'
  BY DEF IInv, TypeOK, SlotsDistinct, Edges, ExchangeAcqRel, Slots, Threads
<1>4. Contents'
  BY DEF IInv, TypeOK, SlotsDistinct, Contents, Slots
<1> QED
  BY <1>1, <1>2, <1>3, <1>4 DEF IInv

\* acquire(), its load and its exchange.
LEMMA AcquireInv == IInv /\ Acquire => IInv'
<1> SUFFICES ASSUME IInv, Acquire PROVE IInv'
  OBVIOUS
<1>1. CASE AcquireNothing
  <2>1. TypeOK'
    BY <1>1 DEF AcquireNothing, LoadAcquire, Other, IInv, TypeOK, Slots, Threads
  <2>2. Edges'
    BY <1>1 DEF AcquireNothing, LoadAcquire, Other, IInv, TypeOK, Edges, Slots, Threads
  <2> QED
    BY <1>1, <2>1, <2>2 DEF AcquireNothing, IInv, TypeOK, SlotsDistinct, Contents
<1>2. CASE AcquireSeesFresh
  <2>1. TypeOK'
    BY <1>2 DEF AcquireSeesFresh, LoadAcquire, Other, IInv, TypeOK, Slots, Threads
  <2>2. Edges'
    BY <1>2 DEF AcquireSeesFresh, LoadAcquire, Other, IInv, TypeOK, Edges, Slots, Threads
  <2> QED
    BY <1>2, <2>1, <2>2 DEF AcquireSeesFresh, IInv, TypeOK, SlotsDistinct, Contents
<1>3. CASE AcquireExchange
  <2> USE <1>3 DEF AcquireExchange
  <2>1. TypeOK'
    BY DEF ExchangeAcqRel, IInv, TypeOK, Slots, Threads
  <2>2. SlotsDistinct'
    BY DEF IInv, TypeOK, SlotsDistinct
  <2>3. Edges'
    BY DEF ExchangeAcqRel, IInv, TypeOK, Edges, Slots, Threads
  <2>4. Contents'
    BY DEF IInv, TypeOK, SlotsDistinct, Edges, Contents, Slots
  <2> QED
    BY <2>1, <2>2, <2>3, <2>4 DEF IInv
<1> QED
  BY <1>1, <1>2, <1>3 DEF Acquire

\* Reading the held slot only adds its version to what was seen.
LEMMA ReadInv == IInv /\ (ReadWord \/ EndFrame) => IInv'
<1> SUFFICES ASSUME IInv, ReadWord \/ EndFrame PROVE IInv'
  OBVIOUS
<1>1. CASE ReadWord
  <2> USE <1>1 DEF ReadWord
  <2>1. TypeOK'
    <3>1. \A w \in Words : slots[read][w] \in Nat
      BY DEF IInv, TypeOK
    <3>2. seen' \in SUBSET Nat
      BY <3>1 DEF IInv, TypeOK
    <3> QED
      BY <3>2 DEF Touch, IInv, TypeOK, Slots, Threads
  <2>2. Edges'
    BY DEF Touch, IInv, TypeOK, Edges, Slots, Threads
  <2> QED
    BY <2>1, <2>2 DEF IInv, TypeOK, SlotsDistinct, Contents
<1>2. CASE EndFrame
  BY <1>2 DEF EndFrame, IInv, TypeOK, SlotsDistinct, Edges, Contents
<1> QED
  BY <1>1, <1>2

\* IInv is inductive.
LEMMA NextInv == IInv /\ [Next]_vars => IInv'
<1>1. IInv /\ UNCHANGED vars => IInv'
  BY DEF vars, IInv, TypeOK, SlotsDistinct, Edges, Contents
<1> QED
  BY <1>1, WriteWordInv, PublishInv, AcquireInv, ReadInv DEF Next, Producer

\* IInv is an invariant of the buffer.
THEOREM Invariance == Spec => []IInv
  BY InitInv, NextInv, PTL DEF Spec

\* The values the class's members can take, for any payload and any number
\* of publishes.
THEOREM TypeCorrect == Spec => []TypeOK
  BY Invariance, PTL DEF IInv

\* The three slots are distinct through every interleaving of publish() and
\* acquire().
THEOREM Ownership == Spec => []SlotsDistinct
  BY Invariance, PTL DEF IInv

\* No access to a slot is unordered with the other thread's accesses to it.
THEOREM NoDataRace == Spec => []RaceFree
<1>1. IInv => RaceFree
  BY DEF IInv, SlotsDistinct, Edges, RaceFree
<1> QED
  BY Invariance, <1>1, PTL

\* A frame never mixes the words of two publishes.
THEOREM Whole == Spec => []NoTearing
<1>1. IInv => NoTearing
  BY WordsAssumption DEF IInv, Contents, NoTearing
<1> QED
  BY Invariance, <1>1, PTL

-------------------------------------------------------------------------------
\* All words of the held slot have one version: the newest published exactly
\* when the middle slot is not fresh.
LEMMA HeldWord == ASSUME IInv
                  PROVE  /\ \A w \in Words : slots[read][w] = HeldVersion
                         /\ HeldVersion \in Nat
                         /\ shared.fresh => HeldVersion < published
                         /\ ~shared.fresh => HeldVersion = published
<1>1. PICK c \in Words : HeldVersion = slots[read][c]
  BY WordsAssumption DEF HeldVersion
<1>2. \A w \in Words : slots[read][w] = HeldVersion
  BY <1>1 DEF IInv, Contents
<1>3. HeldVersion \in Nat
  BY <1>1 DEF IInv, TypeOK
<1>4. shared.fresh => HeldVersion < published
  BY <1>1 DEF IInv, Contents
<1>5. ~shared.fresh => HeldVersion = published
  BY <1>1 DEF IInv, Contents
<1> QED
  BY <1>2, <1>3, <1>4, <1>5

\* The version held changes only with the slots or with read_.
LEMMA HeldUnchanged == ASSUME UNCHANGED <<slots, read>>
                       PROVE  HeldVersion' = HeldVersion
  BY DEF HeldVersion

\* Filling writeSlot() does not touch what the consumer holds.
LEMMA HeldWhileWriting == ASSUME IInv, WriteWord PROVE HeldVersion' = HeldVersion
  BY DEF IInv, TypeOK, SlotsDistinct, WriteWord, HeldVersion, Slots

\* The exchange in acquire() hands over the newest version.
LEMMA ExchangeTakesNewest ==
  ASSUME IInv, AcquireExchange
  PROVE  HeldVersion' = published /\ HeldVersion < published
<1>1. (CHOOSE w \in Words : TRUE) \in Words
  BY WordsAssumption
<1>2. shared.fresh
  BY DEF IInv, Edges, AcquireExchange
<1> QED
  BY <1>1, <1>2 DEF IInv, Contents, AcquireExchange, HeldVersion

\* Each step of the buffer is a step of the mailbox, or leaves it unchanged.
LEMMA StepRefines ==
  ASSUME IInv, IInv', [Next]_vars
  PROVE  [Box!Next]_Box!vars
<1> USE DEF Box!Next, Box!vars
<1>1. CASE WriteWord
  BY <1>1, HeldWhileWriting DEF WriteWord
<1>2. CASE Publish
  BY <1>2, HeldUnchanged DEF Publish, Box!Publish
<1>3. CASE AcquireNothing
  BY <1>3, HeldUnchanged, HeldWord DEF AcquireNothing, Box!Miss
<1>4. CASE AcquireSeesFresh
  BY <1>4, HeldUnchanged DEF AcquireSeesFresh
<1>5. CASE AcquireExchange
  BY <1>5, ExchangeTakesNewest DEF AcquireExchange, Box!Take
<1>6. CASE ReadWord
  BY <1>6, HeldUnchanged, HeldWord DEF ReadWord, Box!Read
<1>7. CASE EndFrame
  BY <1>7, HeldUnchanged DEF EndFrame
<1>8. CASE UNCHANGED vars
  BY <1>8, HeldUnchanged DEF vars
<1> QED
  BY <1>1, <1>2, <1>3, <1>4, <1>5, <1>6, <1>7, <1>8 DEF Next, Producer, Acquire

\* The buffer implements the one-place mailbox: acquire() returns the newest
\* value, or false when there is nothing newer.
THEOREM Refinement == Spec => MailboxSpec
<1>1. Init => Box!Init
  BY WordsAssumption DEF Init, Box!Init, HeldVersion, Slots
<1>2. IInv /\ IInv' /\ [Next]_vars => [Box!Next]_Box!vars
  BY StepRefines
<1> QED
  BY <1>1, <1>2, Invariance, PTL DEF Spec, MailboxSpec, Box!Spec

-------------------------------------------------------------------------------
\* The state of the loop itself.
PaceTypeOK ==
  /\ stage \in {"drain", "batch", "publish", "window"}
  /\ late \in 0 .. MaxLate
  /\ stepped \in 0 .. Cap
  /\ age \in 0 .. WindowAge
  /\ tick \in 0 .. Ticks - 1
  /\ windowTick0 \in 0 .. Ticks - 1
  /\ inWindow \in Nat
  /\ restarted \in BOOLEAN

\* A window sees fewer ticks than Tick has values: until it is old, a tick is due
\* only for a period that has passed in it or was owed when it was opened, and
\* after that it ends with the iteration, which has one batch.
WindowIsShort ==
  /\ ~WindowIsOld => inWindow + late <= MaxLate + age
  /\ WindowIsOld /\ stage = "drain" => inWindow <= MaxLate + WindowAge
  /\ WindowIsOld /\ stage # "drain" =>
       inWindow <= MaxLate + WindowAge + stepped

\* Tick has started over at most once since the window was opened.
TickIsAhead ==
  \/ restarted
  \/ tick = windowTick0 + inWindow
  \/ tick = windowTick0 + inWindow - Ticks

PaceInv == PaceTypeOK /\ WindowIsShort /\ TickIsAhead

-------------------------------------------------------------------------------
\* What an unsigned Tick does at its limit.
LEMMA TickWraps == /\ \A n \in 0 .. Ticks - 1 : n % Ticks = n
                   /\ \A n \in Ticks .. 2 * Ticks - 1 : n % Ticks = n - Ticks
<1>1. \A n \in 0 .. Ticks - 1 : n % Ticks = n
  BY TickAssumption
<1>2. \A n \in Ticks .. 2 * Ticks - 1 : n % Ticks = n - Ticks
  BY TickAssumption
<1> QED
  BY <1>1, <1>2

\* The window never sees as many ticks as there are values of Tick.
LEMMA FewerThanTicks == PaceTypeOK /\ WindowIsShort => inWindow < Ticks
<1> SUFFICES ASSUME PaceTypeOK, WindowIsShort
             PROVE  inWindow < Ticks
  OBVIOUS
<1>1. inWindow <= MaxLate + WindowAge + Cap
  BY PaceAssumption DEF PaceTypeOK, WindowIsShort, WindowIsOld
<1> QED
  BY <1>1, PaceAssumption, TickAssumption DEF PaceTypeOK

\* The loop starts one tick behind, in a window that has seen nothing.
LEMMA PaceInit == LoopInit => PaceInv
<1> SUFFICES ASSUME LoopInit
             PROVE  PaceInv
  OBVIOUS
<1>1. PaceTypeOK
  <2>1. 0 \in 0 .. Ticks - 1
    BY PaceAssumption, TickAssumption
  <2>2. 1 \in 0 .. MaxLate /\ 0 \in 0 .. Cap /\ 0 \in 0 .. WindowAge
    BY PaceAssumption
  <2> QED
    BY <2>1, <2>2 DEF LoopInit, PaceTypeOK
<1>2. WindowIsShort
  BY PaceAssumption DEF LoopInit, WindowIsShort, WindowIsOld
<1>3. TickIsAhead
  BY DEF LoopInit, TickIsAhead
<1> QED
  BY <1>1, <1>2, <1>3 DEF PaceInv

\* A deadline that is added makes the window older.
LEMMA ElapseInv == PaceInv /\ Elapse => PaceInv'
<1> SUFFICES ASSUME PaceInv, Elapse
             PROVE  PaceInv'
  OBVIOUS
<1>1. PaceTypeOK'
  BY PaceAssumption DEF PaceInv, PaceTypeOK, Elapse
<1>2. WindowIsShort'
  BY PaceAssumption DEF PaceInv, PaceTypeOK, WindowIsShort, WindowIsOld, Elapse
<1>3. TickIsAhead'
  BY DEF PaceInv, TickIsAhead, Elapse
<1> QED
  BY <1>1, <1>2, <1>3 DEF PaceInv

\* A world that starts over is the window's one exception.
LEMMA DrainInv == PaceInv /\ Drain => PaceInv'
<1> SUFFICES ASSUME PaceInv, Drain
             PROVE  PaceInv'
  OBVIOUS
<1>1. PaceTypeOK'
  <2>1. 0 \in 0 .. Ticks - 1 /\ 0 \in 0 .. Cap
    BY PaceAssumption, TickAssumption
  <2> QED
    BY <2>1 DEF PaceInv, PaceTypeOK, Drain
<1>2. WindowIsShort'
  BY PaceAssumption DEF PaceInv, PaceTypeOK, WindowIsShort, WindowIsOld, Drain
<1>3. TickIsAhead'
  BY DEF PaceInv, TickIsAhead, Drain
<1> QED
  BY <1>1, <1>2, <1>3 DEF PaceInv

\* A tick is one deadline less and one tick more; at its limit Tick is 0 again,
\* and it was not 0 again before in this window.
LEMMA TickInv == PaceInv /\ TickOnce => PaceInv'
<1> SUFFICES ASSUME PaceInv, TickOnce
             PROVE  PaceInv'
  OBVIOUS
<1> USE DEF PaceInv
<1>1. tick' = IF tick = Ticks - 1 THEN 0 ELSE tick + 1
  <2>1. CASE tick = Ticks - 1
    BY <2>1, TickWraps, TickAssumption DEF PaceTypeOK, TickOnce
  <2>2. CASE tick < Ticks - 1
    BY <2>2, TickWraps, TickAssumption DEF PaceTypeOK, TickOnce
  <2> QED
    BY <2>1, <2>2, TickAssumption DEF PaceTypeOK
<1>2. PaceTypeOK'
  BY <1>1, PaceAssumption, TickAssumption DEF PaceTypeOK, TickOnce
<1>3. WindowIsShort'
  BY PaceAssumption DEF PaceTypeOK, WindowIsShort, WindowIsOld, TickOnce
<1>4. inWindow < Ticks
  BY FewerThanTicks
<1>5. TickIsAhead'
  BY <1>1, <1>4, TickAssumption DEF PaceTypeOK, TickIsAhead, TickOnce
<1> QED
  BY <1>2, <1>3, <1>5

\* Giving up owes less than before: one deadline at most.
LEMMA EndBatchInv == PaceInv /\ EndBatch => PaceInv'
<1> SUFFICES ASSUME PaceInv, EndBatch
             PROVE  PaceInv'
  OBVIOUS
<1>1. PaceTypeOK'
  BY PaceAssumption DEF PaceInv, PaceTypeOK, EndBatch
<1>2. WindowIsShort'
  BY PaceAssumption DEF PaceInv, PaceTypeOK, WindowIsShort, WindowIsOld, EndBatch
<1>3. TickIsAhead'
  BY DEF PaceInv, TickIsAhead, EndBatch
<1> QED
  BY <1>1, <1>2, <1>3 DEF PaceInv

\* A publish is no tick.
LEMMA PublishSlotInv == PaceInv /\ PublishSlot => PaceInv'
<1> SUFFICES ASSUME PaceInv, PublishSlot
             PROVE  PaceInv'
  OBVIOUS
<1>1. PaceTypeOK'
  BY DEF PaceInv, PaceTypeOK, PublishSlot
<1>2. WindowIsShort'
  BY DEF PaceInv, WindowIsShort, WindowIsOld, PublishSlot
<1>3. TickIsAhead'
  BY DEF PaceInv, TickIsAhead, PublishSlot
<1> QED
  BY <1>1, <1>2, <1>3 DEF PaceInv

\* A window that is measured makes room for an empty one.
LEMMA WindowInv == PaceInv /\ Window => PaceInv'
<1> SUFFICES ASSUME PaceInv, Window
             PROVE  PaceInv'
  OBVIOUS
<1>1. PaceTypeOK'
  <2>1. CASE WindowIsOld
    <3>1. windowTick0' \in 0 .. Ticks - 1
      BY <2>1 DEF PaceInv, PaceTypeOK, Window
    <3>2. inWindow' \in Nat
      BY <2>1 DEF Window
    <3>3. age' \in 0 .. WindowAge
      BY <2>1, PaceAssumption DEF Window
    <3>4. restarted' \in BOOLEAN
      BY <2>1 DEF Window
    <3> QED
      BY <3>1, <3>2, <3>3, <3>4 DEF PaceInv, PaceTypeOK, Window
  <2>2. CASE ~WindowIsOld
    BY <2>2 DEF PaceInv, PaceTypeOK, Window
  <2> QED
    BY <2>1, <2>2
<1>2. WindowIsShort'
  BY PaceAssumption DEF PaceInv, PaceTypeOK, WindowIsShort, WindowIsOld, Window
<1>3. TickIsAhead'
  BY TickAssumption DEF PaceInv, PaceTypeOK, TickIsAhead, Window
<1> QED
  BY <1>1, <1>2, <1>3 DEF PaceInv

\* The accesses to the buffer are no matter of the pace.
LEMMA SamePace == PaceInv /\ UNCHANGED pace => PaceInv'
BY DEF pace, PaceInv, PaceTypeOK, WindowIsShort, WindowIsOld, TickIsAhead

\* Every step keeps the window short and its ticks measured.
LEMMA PaceNext == PaceInv /\ [LoopNext]_loopVars => PaceInv'
<1> SUFFICES ASSUME PaceInv, [LoopNext]_loopVars
             PROVE  PaceInv'
  OBVIOUS
<1>1. CASE Drain
  BY <1>1, DrainInv
<1>2. CASE TickOnce
  BY <1>2, TickInv
<1>3. CASE EndBatch
  BY <1>3, EndBatchInv
<1>4. CASE FillSlot
  BY <1>4, SamePace DEF FillSlot
<1>5. CASE PublishSlot
  BY <1>5, PublishSlotInv
<1>6. CASE Window
  BY <1>6, WindowInv
<1>7. CASE Elapse
  BY <1>7, ElapseInv
<1>8. CASE Render
  BY <1>8, SamePace DEF Render
<1>9. CASE UNCHANGED loopVars
  BY <1>9, SamePace DEF loopVars
<1> QED
  BY <1>1, <1>2, <1>3, <1>4, <1>5, <1>6, <1>7, <1>8, <1>9 DEF LoopNext, Iteration

\* The invariant, on the specification.
LEMMA PaceInvariance == LoopSpec => []PaceInv
BY PaceInit, PaceNext, PTL DEF LoopSpec

-------------------------------------------------------------------------------
\* What the loop measures when the window is old enough (SimulationLoop::run):
\* the unsigned difference, also over the limit of Tick.
LEMMA MeasuresTicks == PaceInv => RateIsMeasured
<1> SUFFICES ASSUME PaceInv, ~restarted
             PROVE  TickRate = inWindow
  BY DEF RateIsMeasured
<1>1. inWindow \in 0 .. Ticks - 1
  BY FewerThanTicks, TickAssumption DEF PaceInv, PaceTypeOK
<1>2. CASE tick = windowTick0 + inWindow
  <2>1. Ticks + tick - windowTick0 = Ticks + inWindow
    BY <1>1, <1>2, TickAssumption DEF PaceInv, PaceTypeOK
  <2>2. (Ticks + inWindow) % Ticks = inWindow
    BY <1>1, TickWraps, TickAssumption
  <2> QED
    BY <2>1, <2>2 DEF TickRate
<1>3. CASE tick = windowTick0 + inWindow - Ticks
  <2>1. Ticks + tick - windowTick0 = inWindow
    BY <1>1, <1>3, TickAssumption DEF PaceInv, PaceTypeOK
  <2> QED
    BY <1>1, <2>1, TickWraps DEF TickRate
<1> QED
  BY <1>2, <1>3 DEF PaceInv, TickIsAhead

\* SimStats::tickRate is the ticks stepped in the window for every backlog, cap
\* and width of Tick such that one window does not see all the values of Tick.
THEOREM RateIsRight == LoopSpec => []RateIsMeasured
BY PaceInvariance, MeasuresTicks, PTL

\* A step of the loop, the clock or the frame is one of the buffer, or none.
LEMMA LoopStep == [LoopNext]_loopVars => [Next]_vars
<1> SUFFICES ASSUME [LoopNext]_loopVars
             PROVE  [Next]_vars
  OBVIOUS
<1>1. CASE FillSlot
  BY <1>1 DEF FillSlot, Next, Producer
<1>2. CASE PublishSlot
  BY <1>2 DEF PublishSlot, Next, Producer
<1>3. CASE Render
  BY <1>3 DEF Render, Next
<1>4. CASE Drain \/ TickOnce \/ EndBatch \/ Window \/ Elapse
  BY <1>4 DEF Drain, TickOnce, EndBatch, Window, Elapse
<1>5. CASE UNCHANGED loopVars
  BY <1>5 DEF loopVars
<1> QED
  BY <1>1, <1>2, <1>3, <1>4, <1>5 DEF LoopNext, Iteration

\* Whatever the loop does, drains, gives up or sleeps, to the buffer it is the
\* producer of TripleBuffer, and the frame loop its consumer.
THEOREM LoopUsesBuffer == LoopSpec => Spec
<1>1. LoopInit => Init
  BY DEF LoopInit
<1> QED
  BY <1>1, LoopStep, PTL DEF LoopSpec, Spec

\* A frame that is drawn while the loop falls behind, gives up and publishes late
\* still holds the newest state there is when it takes one (acquire()), whole.
THEOREM ScreenIsMailbox == LoopSpec => MailboxSpec /\ []NoTearing
BY LoopUsesBuffer, Refinement, Whole, PTL
===============================================================================

-------------------------------- MODULE RunLoop --------------------------------
(***************************************************************************)
(* SimulationLoop::run(): the fixed-rate loop round the triple buffer.  An *)
(* iteration drains the commands, steps the world until the schedule is    *)
(* met or kMaxCatchUpTicks are done, gives the rest up if it is still      *)
(* behind, publishes if it stepped, closes the rate window and sleeps.     *)
(* The wall clock is an action of its own, Elapse: it moves between any    *)
(* two steps, also while a batch runs, as it does when a tick takes longer *)
(* than its period.                                                        *)
(***************************************************************************)
EXTENDS TripleBuffer

CONSTANTS Cap,      (* kMaxCatchUpTicks                                    *)
          MaxLate,  (* bound: periods the loop is behind at most           *)
          WindowAge,(* periods in the 250 ms of a rate window              *)
          TickBits  (* width of Tick                                       *)

Ticks == 2^TickBits       (* the values of a Tick *)

ASSUME PaceAssumption == /\ Cap \in Nat \ {0}
                         /\ MaxLate \in Nat \ {0}
                         /\ WindowAge \in Nat \ {0}
                         /\ TickBits \in Nat
ASSUME TickAssumption == Ticks \in Nat /\ MaxLate + WindowAge + Cap < Ticks

VARIABLES stage,       (* where the iteration stands                       *)
          late,        (* ticks owed: now >= nextTick iff late >= 1        *)
          stepped,     (* ticks of this batch                              *)
          age,         (* periods since the rate window was opened         *)
          tick,        (* World::tick()                                    *)
          windowTick0, (* its value when the window was opened             *)
          inWindow, restarted  (* ticks and restarts in it (history)       *)

pace == <<stage, late, stepped, age, tick, windowTick0, inWindow, restarted>>
loopVars == <<vars, pace>>

LoopInit == /\ Init
            /\ stage = "drain"
            /\ late = 1
            /\ stepped = 0
            /\ age = 0
            /\ tick = 0
            /\ windowTick0 = 0
            /\ inWindow = 0
            /\ restarted = FALSE

-------------------------------------------------------------------------------
\* The clock passes another period.
Elapse == /\ late < MaxLate
          /\ late' = late + 1
          /\ age' = IF age < WindowAge THEN age + 1 ELSE age
          /\ UNCHANGED <<vars, stage, stepped, tick, windowTick0,
                         inWindow, restarted>>

\* The commands: Reset and a change of vehicle start a world at tick 0.
Drain == /\ stage = "drain"
         /\ stage' = "batch"
         /\ stepped' = 0
         /\ \/ /\ tick' = 0
               /\ restarted' = TRUE
            \/ UNCHANGED <<tick, restarted>>
         /\ UNCHANGED <<vars, late, age, windowTick0, inWindow>>

\* Mutant: a batch that runs until the schedule is met (the counters, which
\* have no bound then, stay at what a full batch has counted).
TickUncapped ==
  /\ stage = "batch"
  /\ late >= 1
  /\ late' = late - 1
  /\ IF stepped < Cap
     THEN /\ stepped' = stepped + 1
          /\ tick' = (tick + 1) % Ticks
          /\ inWindow' = inWindow + 1
     ELSE UNCHANGED <<stepped, tick, inWindow>>
  /\ UNCHANGED <<vars, stage, age, windowTick0, restarted>>

TickOnce ==
  /\ stage = "batch"
  /\ stepped < Cap
  /\ late >= 1
  /\ late' = late - 1
  /\ stepped' = stepped + 1
  /\ tick' = (tick + 1) % Ticks
  /\ inWindow' = inWindow + 1
  /\ UNCHANGED <<vars, stage, age, windowTick0, restarted>>

\* The batch is over: after a full one that is still behind the deadline moves
\* to now, where one tick is due at once.
EndBatch ==
  /\ stage = "batch"
  /\ stepped = Cap \/ late = 0
  /\ late' = IF stepped = Cap /\ late >= 1 THEN 1 ELSE late
  /\ stage' = IF stepped > 0 THEN "publish" ELSE "window"
  /\ UNCHANGED <<vars, stepped, age, tick, windowTick0, inWindow,
                 restarted>>

FillSlot == /\ stage = "publish"
            /\ WriteWord
            /\ UNCHANGED pace

PublishSlot ==
  /\ stage = "publish"
  /\ Publish
  /\ stage' = "window"
  /\ UNCHANGED <<late, stepped, age, tick, windowTick0, inWindow,
                 restarted>>

\* stats.tickRate, in ticks a window: the difference of two unsigned Ticks.
TickRate == (Ticks + tick - windowTick0) % Ticks

\* windowAge >= 250 ms.
WindowIsOld == age = WindowAge

\* Mutant: the window starts over and keeps the tick it was opened at.
WindowKeepsTick ==
  /\ stage = "window"
  /\ stage' = "drain"
  /\ age' = IF WindowIsOld THEN 0 ELSE age
  /\ inWindow' = IF WindowIsOld THEN 0 ELSE inWindow
  /\ restarted' = (restarted /\ ~WindowIsOld)
  /\ UNCHANGED <<vars, late, stepped, tick, windowTick0>>

\* A window that is old enough is measured and a new one opened; then the loop
\* sleeps or yields and starts over, whether a tick is due or not.
Window ==
  /\ stage = "window"
  /\ stage' = "drain"
  /\ IF WindowIsOld
     THEN /\ age' = 0
          /\ windowTick0' = tick
          /\ inWindow' = 0
          /\ restarted' = FALSE
     ELSE UNCHANGED <<age, windowTick0, inWindow, restarted>>
  /\ UNCHANGED <<vars, late, stepped, tick>>

Render == /\ Acquire \/ ReadWord \/ EndFrame
          /\ UNCHANGED pace

Iteration == Drain \/ TickOnce \/ EndBatch \/ FillSlot \/ PublishSlot \/ Window
LoopNext == Iteration \/ Elapse \/ Render

\* Time passes, the loop runs, and the render loop reaches its next frame.
LoopSpec == /\ LoopInit
            /\ [][LoopNext]_loopVars
            /\ WF_loopVars(Elapse)
            /\ WF_loopVars(Iteration)
            /\ WF_loopVars(Acquire /\ UNCHANGED pace)
            /\ WF_loopVars(EndFrame /\ UNCHANGED pace)

-------------------------------------------------------------------------------
\* However late every tick is, the loop comes out of its batch, gives up what it
\* cannot catch up with and publishes, and the render thread gets to hold the
\* newest state and with it all earlier ones: the window never freezes on a
\* machine that is too slow.
ScreenKeepsUp == <>(HeldVersion = MaxVersion)

\* Snapshot.hpp, SimStats: the rate measured is the ticks stepped in the window.
\* Tick is unsigned and starts over with Reset and NextVehicle: a window with a
\* restart in it is the one exception, and the next is right again.
RateIsMeasured ==
  stage = "window" /\ WindowIsOld => (restarted \/ TickRate = inWindow)
===============================================================================

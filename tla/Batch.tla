--------------------------------- MODULE Batch ---------------------------------
(***************************************************************************)
(* eval/BatchRunner.cpp and eval/EpisodeRunner.cpp: a pool of threads that *)
(* take jobs from a shared counter, and the episode each flies in a world  *)
(* of its own.  The world is one thruster (module Actuator) and a body     *)
(* reduced to what that thruster has done to it.  A controller follows a   *)
(* script: a layered one, of what its fly-by-wire wants of the thruster    *)
(* (module Allocator), the others of the level they command.               *)
(***************************************************************************)
EXTENDS Allocator, Sequences, FiniteSets

CONSTANTS Threads,      (* the pool                                         *)
          Jobs,         (* the sequence of jobs: each names its controller  *)
          Controllers,  (* what ControllerRegistry can create               *)
          Layered,      (* those with an intent and a fly-by-wire           *)
          Asks,         (* what a controller may want of the thruster       *)
          ControlEvery, (* kControlEvery                                    *)
          MaxTicks,     (* scenario.maxTicks                                *)
          Bounds        (* cfg.boundsRadius, of the body                    *)

ASSUME EpisodeAssumption == /\ ControlEvery \in Nat \ {0}
                            /\ MaxTicks \in Nat
                            /\ Bounds \in Nat
                            /\ Asks \subseteq Int
                            /\ Layered \subseteq Controllers

\* runBatch returns at once when there are no jobs, and starts one thread or more.
ASSUME PoolAssumption == Threads # {} /\ Len(Jobs) \in Nat

VARIABLES script,   (* what each controller wants, evaluation by evaluation *)
          next,     (* the shared index                                     *)
          pc,       (* where each thread stands in worker                   *)
          job,      (* i, of each thread                                    *)
          episode,  (* the locals of runEpisode, of each thread             *)
          asking,   (* ticks for which thrust has been demanded (history)   *)
          results

vars == <<script, next, pc, job, episode, asking, results>>

Evaluations == 1 .. (MaxTicks + ControlEvery - 1) \div ControlEvery

\* EpisodeResult as it is constructed.
Pending == [controller |-> "none", ticks |-> 0, reason |-> "timeout",
            hash |-> <<>>]

\* A new World, and a controller after reset(): age counts its evaluations.
Start == [tick |-> 0, held |-> 0, age |-> 0, engine |-> Cold, body |-> 0]

\* IdleController, SpinBurnController: one command for the whole episode, a
\* level between 0 and 1.
OpenLoop == {s \in [Evaluations -> Asks] :
               \A m, n \in Evaluations : s[m] = s[n] /\ s[n] \in 0 .. MaxThrust}

Init == /\ script \in [Controllers -> [Evaluations -> Asks]]
        /\ \A c \in Controllers \ Layered : script[c] \in OpenLoop
        /\ next = 1
        /\ pc = [t \in Threads |-> "claim"]
        /\ job = [t \in Threads |-> 0]
        /\ episode = [t \in Threads |-> Start]
        /\ asking = [t \in Threads |-> 0]
        /\ results = [i \in 1 .. Len(Jobs) |-> Pending]

-------------------------------------------------------------------------------
\* Rocket::applyControls: what the engine does moves the body, not what was
\* asked of it.
Pushed(body, engine) == body + engine.thrust

\* controller.evaluate, the n-th time: a LayeredController's fly-by-wire works
\* out what it wants, and its allocator what to ask for.
Evaluated(c, n) ==
  IF c \in Layered THEN Allocated(script[c][n]) ELSE script[c][n]

\* controller.evaluate on a control tick, setControl, World::step: the engine
\* advances first, then pushes.
Flown(c, e) ==
  LET due    == e.tick % ControlEvery = 0
      held   == IF due THEN Evaluated(c, e.age + 1) ELSE e.held
      engine == StepActuator(e.engine, held)
  IN  [tick   |-> e.tick + 1,
       held   |-> held,
       age    |-> IF due THEN e.age + 1 ELSE e.age,
       engine |-> engine,
       body   |-> Pushed(e.body, engine)]

OutOfBounds(e) == e.body > Bounds
Over(e)        == e.tick = MaxTicks \/ OutOfBounds(e)

Result(c, e) == [controller |-> c, ticks |-> e.tick,
                 reason |-> IF OutOfBounds(e) THEN "out-of-bounds" ELSE "timeout",
                 hash |-> <<e.tick, e.engine.thrust, e.engine.timer, e.body>>]

\* No such controller: only the names are filled in.
Unknown == [Pending EXCEPT !.controller = "unknown"]

\* Mutant: the counter is read and not advanced.
ClaimWithout(t) ==
  /\ pc[t] = "claim" /\ next <= Len(Jobs) /\ Jobs[next] \in Controllers
  /\ job' = [job EXCEPT ![t] = next]
  /\ episode' = [episode EXCEPT ![t] = Start]
  /\ asking' = [asking EXCEPT ![t] = 0]
  /\ pc' = [pc EXCEPT ![t] = "fly"]
  /\ UNCHANGED <<script, next, results>>

\* next.fetch_add(1), and what the job asks for.
ClaimJob(t) ==
  /\ pc[t] = "claim" /\ next <= Len(Jobs) /\ Jobs[next] \in Controllers
  /\ next' = next + 1
  /\ job' = [job EXCEPT ![t] = next]
  /\ episode' = [episode EXCEPT ![t] = Start]
  /\ asking' = [asking EXCEPT ![t] = 0]
  /\ pc' = [pc EXCEPT ![t] = "fly"]
  /\ UNCHANGED <<script, results>>

ClaimUnknown(t) ==
  /\ pc[t] = "claim" /\ next <= Len(Jobs) /\ Jobs[next] \notin Controllers
  /\ next' = next + 1
  /\ results' = [results EXCEPT ![next] = Unknown]
  /\ UNCHANGED <<script, pc, job, episode, asking>>

\* i >= jobs.size()
Leave(t) ==
  /\ pc[t] = "claim" /\ next > Len(Jobs)
  /\ next' = next + 1
  /\ pc' = [pc EXCEPT ![t] = "gone"]
  /\ UNCHANGED <<script, job, episode, asking, results>>

Fly(t) ==
  /\ pc[t] = "fly" /\ ~Over(episode[t])
  /\ LET e == Flown(Jobs[job[t]], episode[t])
     IN  /\ episode' = [episode EXCEPT ![t] = e]
         /\ asking' = [asking EXCEPT ![t] =
                         IF DemandFor(e.held) > 0 THEN @ + 1 ELSE 0]
  /\ UNCHANGED <<script, next, pc, job, results>>

Record(t) ==
  /\ pc[t] = "fly" /\ Over(episode[t])
  /\ results' = [results EXCEPT ![job[t]] = Result(Jobs[job[t]], episode[t])]
  /\ pc' = [pc EXCEPT ![t] = "claim"]
  /\ UNCHANGED <<script, next, job, episode, asking>>

Next == \E t \in Threads :
          ClaimJob(t) \/ ClaimUnknown(t) \/ Leave(t) \/ Fly(t) \/ Record(t)
Spec == Init /\ [][Next]_vars
-------------------------------------------------------------------------------
Engines == [thrust : 0 .. MaxThrust, timer : 0 .. IgnitionTicks, lit : BOOLEAN]

TypeOK ==
  /\ next \in 1 .. Len(Jobs) + 1 + Cardinality(Threads)
  /\ pc \in [Threads -> {"claim", "fly", "gone"}]
  /\ job \in [Threads -> 0 .. Len(Jobs)]
  /\ \A t \in Threads : /\ episode[t].tick \in 0 .. MaxTicks
                        /\ episode[t].held \in 0 .. MaxThrust
                        /\ episode[t].engine \in Engines
                        /\ episode[t].body \in 0 .. Bounds + MaxThrust
                        /\ asking[t] \in 0 .. MaxTicks
  /\ DOMAIN results = 1 .. Len(Jobs)

\* runEpisode with nobody else about, tick by tick.
Flight(c) ==
  LET after[n \in 0 .. MaxTicks] ==
        IF n = 0 THEN Start
        ELSE IF Over(after[n - 1]) THEN after[n - 1] ELSE Flown(c, after[n - 1])
  IN  after

Alone(c) == Result(c, Flight(c)[MaxTicks])

\* "Running in parallel gives the same answers as running alone": no job is
\* flown twice or left out, and each result is what its job gives by itself,
\* whichever thread flew it, after whatever other job.
SameAsAlone ==
  /\ \A t, u \in Threads :
        pc[t] = "fly" /\ pc[u] = "fly" /\ job[t] = job[u] => t = u
  /\ (\A t \in Threads : pc[t] = "gone") =>
        \A i \in 1 .. Len(Jobs) :
          results[i] = IF Jobs[i] \in Controllers THEN Alone(Jobs[i]) ELSE Unknown

\* ThrustAllocator.cpp, in snapToThrustFloor: "Left alone, the simulation would
\* round it for us -- silently".  Whatever a fly-by-wire wants and however the
\* engine got where it is, it comes to rest at the thrust it was asked for and
\* at no other, so the rounding of the allocator and of the engine agree.
RestsAsAsked ==
  \A t \in Threads :
    LET e == episode[t]
    IN  pc[t] = "fly" /\ Jobs[job[t]] \in Layered
          /\ StepActuator(e.engine, e.held) = e.engine
        => e.engine.thrust = e.held

\* core/Thruster.hpp: a thruster "takes time to light, it cannot throttle below
\* a floor once burning, it ramps rather than jumps" -- under any sequence of
\* demands, cut off and taken up again at any time.
ActuatorLimits ==
  [][\A t \in Threads :
       LET old == episode[t].engine
           new == episode'[t].engine
       IN  pc[t] = "fly" =>
             /\ old.thrust = 0 /\ new.thrust > 0 => asking'[t] >= IgnitionTicks
             /\ new.lit => new.thrust \in MinThrust .. MaxThrust
             /\ RampUp > 0 => new.thrust <= Higher(old.thrust, MinThrust) + RampUp
             /\ RampDown > 0 /\ ~new.lit => new.thrust >= old.thrust - RampDown
    ]_vars
===============================================================================

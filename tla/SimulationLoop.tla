---------------------------- MODULE SimulationLoop ----------------------------
(***************************************************************************)
(* sim/SimulationLoop.cpp: the simulation thread between start() and       *)
(* join().  Each pass of run() drains the commands, steps the world a      *)
(* bounded number of ticks and publishes a snapshot; a command may refit   *)
(* the controllers, which loads and unloads submission libraries step by   *)
(* step.  Flight itself is left out: a control input is known by who       *)
(* computed it and for which ship and mode.                                *)
(***************************************************************************)
EXTENDS Integers, FiniteSets

CONSTANTS Vehicles,      (* the indices of roster_                          *)
          Submissions,   (* the entries of flyByWireRoster_ past the first  *)
          NextVehicle,   (* the successor in the roster, wrapping           *)
          NextFlyByWire,
          ControlEvery,  (* kControlEvery                                   *)
          MaxCatchUp,    (* kMaxCatchUpTicks                                *)
          MaxPending     (* bound: commands waiting                         *)

\* flyByWireRoster_: "there has to be a way back to something known to work".
FlyByWires == Submissions \cup {"built-in"}

ASSUME RosterAssumption ==
  /\ {"built-in", "none"} \cap Submissions = {}
  /\ NextVehicle \in [Vehicles -> Vehicles]
  /\ NextFlyByWire \in [FlyByWires -> FlyByWires]
ASSUME RateAssumption == ControlEvery \in Nat \ {0} /\ MaxCatchUp \in Nat \ {0}
ASSUME BacklogAssumption == MaxPending \in Nat

VARIABLES running,   (* running_                                            *)
          pending,   (* commands in the queue                               *)
          pc,        (* where the thread stands in run() or in a refit      *)
          stepped,   (* ticks of this batch                                 *)
          tick,      (* world_.tick() modulo kControlEvery                  *)
          vehicle,   (* current_                                            *)
          choice, failed,              (* flyByWireCurrent_, flyByWireFailed_ *)
          flyByWire, armed, velocity,  (* flyByWire_, benchmarkActive_,
                                          velocityMode_                     *)
          selected,  (* the fly-by-wire a refit has built, not yet installed *)
          pilot,     (* layered_ with human_                                *)
          direct,    (* the vehicle direct_ is fitted to                    *)
          bench,     (* bench_                                              *)
          held,      (* held_: who computed it, for what                    *)
          view,      (* the last snapshot published                         *)
          lib, call  (* the submission libraries                            *)

fitting  == <<vehicle, choice, failed, selected, pilot, direct, bench>>
switches == <<flyByWire, armed, velocity>>
world    == <<stepped, tick, held, view>>
vars == <<running, pending, pc, fitting, switches, world, lib, call>>

Abi == INSTANCE AbiFlyByWire

None    == "none"
Idle    == [by |-> None, fbw |-> None, vehicle |-> None, mode |-> None]
Mode    == IF velocity THEN "velocity" ELSE "acceleration"

\* Mutant: a new controller starts in the default mode.
FittedAnew(fbw, v, m) == [fbw |-> fbw, vehicle |-> v, mode |-> "acceleration"]

\* LayeredController with its source, as reset() leaves it.
Fitted(fbw, v, m) == [fbw |-> fbw, vehicle |-> v, mode |-> m]

\* The constructor has fitted the built-in; setWorldRoster and
\* setFlyByWireRoster pick any entry, and the refit for it is about to start.
Init == /\ running = TRUE /\ pending = 0
        /\ pc = "dropPilot"
        /\ stepped = 0 /\ tick = 0
        /\ vehicle \in Vehicles
        /\ choice \in FlyByWires
        /\ failed = FALSE
        /\ flyByWire = TRUE /\ armed = FALSE /\ velocity = FALSE
        /\ selected = None
        /\ pilot = Fitted("built-in", vehicle, "acceleration")
        /\ direct = vehicle
        /\ bench = Fitted("built-in", vehicle, "acceleration")
        /\ held = Idle
        /\ view = [name |-> None, loadFailed |-> FALSE, flown |-> None,
                   valid |-> FALSE]
        /\ Abi!LibInit

-------------------------------------------------------------------------------
\* Mutant: the new one is built before the old one is dropped.
KeepFlyByWire(fbw) == UNCHANGED <<lib, call>>

\* refitControllers, from the top.  Unloading and loading call into libraries,
\* so each of them is a step; the render thread runs meanwhile.
DestroyFlyByWire(fbw) == IF fbw \in Submissions THEN Abi!Destroy(fbw)
                                                ELSE UNCHANGED <<lib, call>>

\* layered_.reset()
DropPilot ==
  /\ pc = "dropPilot"
  /\ DestroyFlyByWire(pilot.fbw)
  /\ pilot' = [pilot EXCEPT !.fbw = None]
  /\ pc' = "dropBench"
  /\ UNCHANGED <<running, pending, vehicle, choice, failed, selected, direct,
                 bench, switches, world>>

\* bench_.reset(cfg, makeFlyByWire(spec))
DropBench ==
  /\ pc = "dropBench"
  /\ DestroyFlyByWire(bench.fbw)
  /\ bench' = Fitted("built-in", vehicle, bench.mode)
  /\ pc' = "select"
  /\ UNCHANGED <<running, pending, vehicle, choice, failed, selected, pilot,
                 direct, switches, world>>

\* buildSelectedFlyByWire and AbiFlyByWire::load.
Falls(to, fbw, fail) == /\ selected' = fbw
                        /\ failed' = fail
                        /\ pc' = to
                        /\ UNCHANGED <<running, pending, vehicle, choice, pilot,
                                       direct, bench, switches, world>>

SelectBuiltIn ==
  /\ pc = "select"
  /\ choice = "built-in"
  /\ Falls("install", "built-in", FALSE)
  /\ UNCHANGED <<lib, call>>

LoadOpen ==
  /\ pc = "select"
  /\ choice # "built-in"
  /\ \/ (Abi!OpenFails(choice) \/ Abi!OpenRefused(choice))
        /\ Falls("install", "built-in", TRUE)
     \/ Abi!OpenChecked(choice) /\ Falls("init", None, FALSE)

LoadInit ==
  /\ pc = "init"
  /\ \/ Abi!InitSucceeds(choice) /\ Falls("reset", None, FALSE)
     \/ Abi!InitDeclines(choice) /\ Falls("abandon", None, FALSE)

\* Mutants: the library that declined is flown; the fallback is not told.
AbandonFlies ==
  /\ pc = "abandon"
  /\ Abi!Destroy(choice)
  /\ Falls("install", choice, TRUE)

AbandonSilently ==
  /\ pc = "abandon"
  /\ Abi!Destroy(choice)
  /\ Falls("install", "built-in", FALSE)

LoadAbandon ==
  /\ pc = "abandon"
  /\ Abi!Destroy(choice)
  /\ Falls("install", "built-in", TRUE)

LoadReset ==
  /\ pc = "reset"
  /\ Abi!Reset(choice)
  /\ Falls("install", choice, FALSE)

\* The rest of refitControllers: the benchmark gets the selection while armed,
\* the pilot otherwise; all controllers are reset against the vehicle.
Install ==
  /\ pc = "install"
  /\ pilot' = Fitted(IF armed THEN "built-in" ELSE selected, vehicle, Mode)
  /\ bench' = IF armed THEN Fitted(selected, vehicle, bench.mode) ELSE bench
  /\ IF selected \in Submissions THEN Abi!Reset(selected)
                                 ELSE UNCHANGED <<lib, call>>
  /\ direct' = vehicle
  /\ held' = Idle
  /\ selected' = None
  /\ pc' = "drain"
  /\ UNCHANGED <<running, pending, vehicle, choice, failed, switches,
                 stepped, tick, view>>

Refit == \/ DropPilot \/ DropBench \/ SelectBuiltIn \/ LoadOpen \/ LoadInit
         \/ LoadAbandon \/ LoadReset \/ Install

-------------------------------------------------------------------------------
\* handleCommand, one pop of the drain loop.
Pop == pc = "drain" /\ pending > 0 /\ pending' = pending - 1

\* Reset: world_.reset() puts the tick back to 0.
HandleReset ==
  /\ Pop
  /\ tick' = 0
  /\ pc' = "dropPilot"
  /\ UNCHANGED <<running, fitting, switches, stepped, held, view, lib, call>>

CycleVehicle == \E v \in Vehicles :
  /\ Pop
  /\ v = NextVehicle[vehicle] \/ vehicle = NextVehicle[v]
  /\ IF Cardinality(Vehicles) < 2
     THEN UNCHANGED <<vehicle, tick, pc>>
     ELSE vehicle' = v /\ tick' = 0 /\ pc' = "dropPilot"
  /\ UNCHANGED <<running, choice, failed, selected, pilot, direct, bench,
                 switches, stepped, held, view, lib, call>>

CycleFlyByWire == \E f \in FlyByWires :
  /\ Pop
  /\ f = NextFlyByWire[choice] \/ choice = NextFlyByWire[f]
  /\ IF Cardinality(FlyByWires) < 2
     THEN UNCHANGED <<choice, pc>>
     ELSE choice' = f /\ pc' = "dropPilot"
  /\ UNCHANGED <<running, vehicle, failed, selected, pilot, direct, bench,
                 switches, world, lib, call>>

\* Mutant: the held control survives the toggle.
ToggleKeepsHeld ==
  /\ Pop
  /\ flyByWire' = ~flyByWire
  /\ UNCHANGED <<running, pc, fitting, armed, velocity, world, lib, call>>

ToggleDirect ==
  /\ Pop
  /\ flyByWire' = ~flyByWire
  /\ held' = Idle
  /\ UNCHANGED <<running, pc, fitting, armed, velocity, stepped, tick, view,
                 lib, call>>

\* setBenchmarkActive
ToggleBenchmark ==
  /\ Pop
  /\ armed' = ~armed
  /\ pc' = "dropPilot"
  /\ UNCHANGED <<running, fitting, flyByWire, velocity, world, lib, call>>

\* setVelocityMode: the pilot, the benchmark, and the control held.
ToggleVelocityMode ==
  /\ Pop
  /\ velocity' = ~velocity
  /\ LET m == IF velocity THEN "acceleration" ELSE "velocity"
     IN  /\ pilot' = [pilot EXCEPT !.mode = m]
         /\ bench' = [bench EXCEPT !.mode = m]
  /\ held' = Idle
  /\ UNCHANGED <<running, pc, vehicle, choice, failed, selected, direct,
                 flyByWire, armed, stepped, tick, view, lib, call>>

\* Every other command only moves the stick: see InputPath.
MoveStick ==
  /\ Pop
  /\ UNCHANGED <<running, pc, fitting, switches, world, lib, call>>

HandleCommand == \/ HandleReset \/ CycleVehicle \/ CycleFlyByWire \/ ToggleDirect
                 \/ ToggleBenchmark \/ ToggleVelocityMode \/ MoveStick

-------------------------------------------------------------------------------
\* activeController
Active == IF armed THEN "bench" ELSE IF flyByWire THEN "pilot" ELSE "direct"

FlyByWireOf(who) == CASE who = "pilot"  -> pilot.fbw
                      [] who = "bench"  -> bench.fbw
                      [] who = "direct" -> None
VehicleOf(who) == CASE who = "pilot"  -> pilot.vehicle
                    [] who = "bench"  -> bench.vehicle
                    [] who = "direct" -> direct

\* Mutant: running_ is not looked at again.
TopForever ==
  /\ pc = "top"
  /\ pc' = "drain"
  /\ UNCHANGED <<running, pending, fitting, switches, world, lib, call>>

\* run(): while (running_)
Top ==
  /\ pc = "top"
  /\ pc' = IF running THEN "drain" ELSE "stopped"
  /\ UNCHANGED <<running, pending, fitting, switches, world, lib, call>>

Drained ==
  /\ pc = "drain"
  /\ pending = 0
  /\ pc' = "tick"
  /\ stepped' = 0
  /\ UNCHANGED <<running, pending, fitting, switches, tick, held, view, lib, call>>

\* tickOnce.
Evaluate ==
  /\ held' = [by |-> Active, fbw |-> FlyByWireOf(Active),
              vehicle |-> VehicleOf(Active), mode |-> Mode]
  /\ IF FlyByWireOf(Active) \in Submissions THEN Abi!Resolve(FlyByWireOf(Active))
                                            ELSE UNCHANGED <<lib, call>>

\* Mutant: the control period is never over.
TickOn(t) == t + 1

NextTick(t) == (t + 1) % ControlEvery

Tick ==
  /\ pc = "tick"
  /\ stepped < MaxCatchUp
  /\ stepped' = stepped + 1
  /\ tick' = NextTick(tick)
  /\ IF tick = 0 THEN Evaluate ELSE UNCHANGED <<held, lib, call>>
  /\ UNCHANGED <<running, pending, pc, fitting, switches, view>>

\* The batch ends when the clock is caught up with; publish() if it stepped.
EndBatch ==
  /\ pc = "tick"
  /\ view' = IF stepped = 0 THEN view
             ELSE [name |-> choice, loadFailed |-> failed,
                   flown |-> FlyByWireOf(Active), valid |-> Active # "direct"]
  /\ pc' = "top"
  /\ UNCHANGED <<running, pending, fitting, switches, stepped, tick, held,
                 lib, call>>

\* The render thread: input arrives until stop(), which it calls before join().
Push == /\ running
        /\ pending < MaxPending
        /\ pending' = pending + 1
        /\ UNCHANGED <<running, pc, fitting, switches, world, lib, call>>

Stop == /\ running
        /\ running' = FALSE
        /\ UNCHANGED <<pending, pc, fitting, switches, world, lib, call>>

Loop == Refit \/ HandleCommand \/ Top \/ Drained \/ Tick \/ EndBatch
Next == Loop \/ Push \/ Stop
Spec == Init /\ [][Next]_vars

\* The thread is scheduled and the libraries it calls return.
FairSpec == Spec /\ WF_vars(Loop)
-------------------------------------------------------------------------------
Modes == {"acceleration", "velocity"}
Controllers == [fbw : FlyByWires \cup {None}, vehicle : Vehicles, mode : Modes]

TypeOK ==
  /\ running \in BOOLEAN /\ pending \in 0 .. MaxPending
  /\ pc \in {"dropPilot", "dropBench", "select", "init", "abandon", "reset",
             "install", "top", "drain", "tick", "stopped"}
  /\ stepped \in 0 .. MaxCatchUp /\ tick \in 0 .. ControlEvery - 1
  /\ vehicle \in Vehicles /\ direct \in Vehicles
  /\ choice \in FlyByWires /\ selected \in FlyByWires \cup {None}
  /\ {failed, flyByWire, armed, velocity} \subseteq BOOLEAN
  /\ {pilot, bench} \subseteq Controllers
  /\ held \in [by : {"pilot", "bench", "direct"}, fbw : FlyByWires \cup {None},
               vehicle : Vehicles, mode : Modes] \cup {Idle}
  /\ lib \in [Submissions -> Abi!Phases]
  /\ call \in (Submissions \X Abi!Calls) \cup {Abi!NoCall}

Flying == pc \in {"top", "drain", "tick", "stopped"}

\* SimulationLoop.hpp, above refitControllers: the C ABI is a singleton, so at
\* most one submission library is live, and one controller at most holds it --
\* in every step of a refit and whichever loads fail.
AtMostOneLive ==
  /\ Cardinality({l \in Submissions : lib[l] # "closed"}) <= 1
  /\ pilot.fbw \in Submissions => bench.fbw # pilot.fbw

\* A controller never holds a library that could not be called: what it holds
\* has been initialised for this vehicle and reset, and is not shut down.
HoldersReady ==
  Flying => \A ctl \in {pilot, bench} :
              /\ ctl.vehicle = vehicle
              /\ ctl.fbw \in Submissions => lib[ctl.fbw] = "ready"

\* buildSelectedFlyByWire: silently flying another fly-by-wire than the one on
\* screen is the one outcome worse than not flying it.  What a snapshot names
\* is what flew, or it says that the load failed and the built-in flew.
HonestView ==
  view.valid => view.flown = IF view.loadFailed THEN "built-in" ELSE view.name

\* What is flown between two control ticks was computed by the controller now
\* active, for this vehicle and in this mode: no command, refit or change of
\* vehicle lets an older answer reach World::setControl.
HeldIsCurrent ==
  pc = "tick" /\ held # Idle =>
    held = [by |-> Active, fbw |-> FlyByWireOf(Active), vehicle |-> vehicle,
            mode |-> Mode]

\* setVelocityMode: the mode belongs to the ship.  Pilot and benchmark mean the
\* same thing by a vector, however arming, refits and the toggle interleave.
ModesAgree == pilot.mode = Mode /\ bench.mode = Mode

\* After stop() the thread leaves run(), also from the middle of a refit and
\* with commands still queued, so main's join() returns.
StopIsJoined == ~running ~> pc = "stopped"

-------------------------------------------------------------------------------
\* ~AbiFlyByWire: a library that failed to load is closed without being told to
\* tear down state it never built.
ShutdownOnlyAfterInit ==
  [][call' # call /\ call'[2] = "rf_shutdown"
       => lib[call'[1]] \in {"initialised", "ready"}]_vars
===============================================================================

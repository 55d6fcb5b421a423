-------------------------- MODULE SimulationLoopProofs --------------------------
(***************************************************************************)
(* SimulationLoop for every roster, every set of submissions, control      *)
(* period, batch and backlog: which library is live, who holds it, what is *)
(* on screen and what is flown between two control ticks.                  *)
(***************************************************************************)
EXTENDS SimulationLoop, FiniteSetTheorems, TLAPS

\* One library is in this phase and every other one is closed.
Only(who, phase) == [l \in Submissions |-> IF l = who THEN phase ELSE "closed"]
OnlyLive(who, phase) == lib = Only(who, phase)

\* What a refit has come to: the fly-by-wire chosen, or the built-in instead.
Loaded == IF failed THEN "built-in" ELSE choice

\* Where a refit stands, by the libraries.
Libraries ==
  /\ pc = "dropPilot" \/ Flying =>
       \/ pilot.fbw = "built-in" /\ bench.fbw # None
          /\ OnlyLive(bench.fbw, "ready")
       \/ bench.fbw = "built-in" /\ pilot.fbw # None
          /\ OnlyLive(pilot.fbw, "ready")
  /\ pc = "dropBench" => pilot.fbw = None /\ OnlyLive(bench.fbw, "ready")
  /\ pc \in {"select", "init", "abandon", "reset", "install"} =>
       pilot.fbw = None /\ bench.fbw = "built-in"
  /\ pc = "select"  => OnlyLive(None, "closed")
  /\ pc = "init"    => OnlyLive(choice, "checked")
  /\ pc = "abandon" => OnlyLive(choice, "declined")
  /\ pc = "reset"   => OnlyLive(choice, "initialised")
  /\ pc = "install" => selected = Loaded /\ OnlyLive(selected, "ready")
  /\ pc \in {"init", "abandon", "reset"} => choice # "built-in"

\* What the last refit has left while the ship flies.
Fit ==
  /\ pc \notin {"dropPilot", "dropBench"} => bench.vehicle = vehicle
  /\ Flying => /\ pilot.vehicle = vehicle /\ direct = vehicle
               /\ pilot.fbw = IF armed THEN "built-in" ELSE Loaded
               /\ bench.fbw = IF armed THEN Loaded ELSE "built-in"

\* HeldIsCurrent, between any two commands.
HeldFits ==
  Flying /\ held # Idle =>
    held = [by |-> Active, fbw |-> FlyByWireOf(Active), vehicle |-> vehicle,
            mode |-> Mode]

IInv == TypeOK /\ Libraries /\ Fit /\ ModesAgree /\ HeldFits /\ HonestView

-------------------------------------------------------------------------------
\* What a call does to the libraries when one at most is live.
LEMMA Phases ==
  /\ \A w, v \in {"built-in", None} : \A p, q : Only(w, p) = Only(v, q)
  /\ \A l \in Submissions, w \in {"built-in", None} : \A p :
       Only(l, "closed") = Only(w, p)
  /\ \A l \in Submissions : \A p, q :
       [Only(l, p) EXCEPT ![l] = q] = Only(l, q)
BY RosterAssumption DEF Only, None

\* The loop starts in the invariant.
LEMMA Start == Init => IInv
<1> SUFFICES ASSUME Init
             PROVE  IInv
  OBVIOUS
<1>1. TypeOK
  <2>1. lib \in [Submissions -> Abi!Phases] /\ call = Abi!NoCall
    BY DEF Abi!LibInit, Abi!Phases, Init
  <2>2. Controllers =
          [fbw : FlyByWires \cup {None}, vehicle : Vehicles, mode : Modes]
    BY DEF Controllers
  <2>3. pilot \in Controllers /\ bench \in Controllers
    BY <2>2 DEF Fitted, FlyByWires, Modes, Init
  <2>4. tick \in 0 .. ControlEvery - 1 /\ stepped \in 0 .. MaxCatchUp
        /\ pending \in 0 .. MaxPending
    BY RateAssumption, BacklogAssumption DEF Init
  <2>5. held \in {Idle}
    BY DEF Init
  <2> QED
    BY <2>1, <2>3, <2>4 DEF TypeOK, Init
<1>2. Libraries
  BY RosterAssumption DEF Libraries, Only, OnlyLive, Fitted, None, Abi!LibInit,
     Init
<1>3. Fit /\ ModesAgree /\ HeldFits /\ HonestView
  BY DEF Fit, ModesAgree, HeldFits, HonestView, Fitted, Flying, Mode, Init
<1> QED
  BY <1>1, <1>2, <1>3 DEF IInv

\* layered_.reset(): the pilot lets go of its library, which closes.
LEMMA DropPilotInv == IInv /\ DropPilot => IInv'
<1> SUFFICES ASSUME IInv, DropPilot
             PROVE  IInv'
  OBVIOUS
<1>1. TypeOK'
  BY DEF TypeOK, Controllers, DestroyFlyByWire, Abi!Destroy, Abi!Moves,
     Abi!Phases, Abi!Calls, IInv, DropPilot, switches, world
<1>2. Libraries'
  <2>1. CASE pilot.fbw \in Submissions
    <3>1. lib' = Only(None, "closed")
      BY <2>1, Phases, RosterAssumption DEF Libraries, OnlyLive,
         DestroyFlyByWire, Abi!Destroy, Abi!Moves, IInv, DropPilot
    <3> QED
      BY <2>1, <3>1, Phases, RosterAssumption DEF Libraries, OnlyLive, Flying,
         IInv, DropPilot
  <2>2. CASE pilot.fbw \notin Submissions
    <3>1. lib' = lib
      BY <2>2 DEF DestroyFlyByWire, DropPilot
    <3> QED
      BY <2>2, <3>1 DEF TypeOK, Libraries, OnlyLive, Controllers, Flying,
         FlyByWires, IInv, DropPilot
  <2> QED
    BY <2>1, <2>2
<1>3. Fit'
  BY DEF Fit, Flying, DropPilot
<1>4. ModesAgree' /\ HeldFits' /\ HonestView'
  BY DEF ModesAgree, Mode, HeldFits, HonestView, Flying, IInv, DropPilot,
     switches, world
<1> QED
  BY <1>1, <1>2, <1>3, <1>4 DEF IInv

\* The benchmark is back on the built-in, for the new vehicle: nothing is live.
LEMMA DropBenchInv == IInv /\ DropBench => IInv'
<1> SUFFICES ASSUME IInv, DropBench
             PROVE  IInv'
  OBVIOUS
<1>1. TypeOK'
  BY DEF TypeOK, FlyByWires, Controllers, Fitted, DestroyFlyByWire, Abi!Destroy,
     Abi!Moves, Abi!Phases, Abi!Calls, IInv, DropBench, switches, world
<1>2. Libraries'
  <2>1. CASE bench.fbw \in Submissions
    <3>1. lib' = Only(None, "closed")
      BY <2>1, Phases DEF Libraries, OnlyLive, DestroyFlyByWire, Abi!Destroy,
         Abi!Moves, IInv, DropBench
    <3> QED
      BY <3>1 DEF Libraries, OnlyLive, Flying, Fitted, IInv, DropBench
  <2>2. CASE bench.fbw \notin Submissions
    <3>1. lib' = lib
      BY <2>2 DEF DestroyFlyByWire, DropBench
    <3> QED
      BY <2>2, <3>1, Phases DEF TypeOK, Libraries, OnlyLive, Controllers,
         Flying, Fitted, FlyByWires, IInv, DropBench
  <2> QED
    BY <2>1, <2>2
<1>3. Fit'
  BY DEF Fit, Flying, Fitted, DropBench
<1>4. ModesAgree' /\ HeldFits' /\ HonestView'
  BY DEF ModesAgree, Mode, Fitted, HeldFits, HonestView, Flying, IInv,
     DropBench, switches, world
<1> QED
  BY <1>1, <1>2, <1>3, <1>4 DEF IInv

\* Nothing is loaded.
LEMMA SelectBuiltInInv == IInv /\ SelectBuiltIn => IInv'
<1> SUFFICES ASSUME IInv, SelectBuiltIn
             PROVE  IInv'
  OBVIOUS
<1>1. TypeOK'
  BY DEF TypeOK, IInv, SelectBuiltIn, Falls, switches, world
<1>2. Libraries'
  BY Phases DEF Libraries, Loaded, OnlyLive, Flying, IInv, SelectBuiltIn, Falls
<1>3. Fit' /\ ModesAgree' /\ HeldFits' /\ HonestView'
  BY DEF Fit, ModesAgree, Mode, HeldFits, HonestView, Flying, IInv,
     SelectBuiltIn, Falls, switches, world
<1> QED
  BY <1>1, <1>2, <1>3 DEF IInv

\* A library that fails to open, or is refused, is closed again.
LEMMA LoadOpenInv == IInv /\ LoadOpen => IInv'
<1> SUFFICES ASSUME IInv, LoadOpen
             PROVE  IInv'
  OBVIOUS
<1>1. TypeOK'
  <2>1. choice \in Submissions
    BY DEF TypeOK, FlyByWires, IInv, LoadOpen
  <2>2. lib' \in [Submissions -> Abi!Phases]
    BY DEF TypeOK, Abi!Phases, Abi!OpenFails, Abi!OpenRefused, Abi!OpenChecked,
       Abi!Moves, IInv, LoadOpen
  <2>3. call' \in (Submissions \X Abi!Calls) \cup {Abi!NoCall}
    BY <2>1 DEF Abi!Calls, Abi!OpenFails, Abi!OpenRefused, Abi!OpenChecked,
       Abi!Moves, LoadOpen, Falls
  <2> QED
    BY <2>2, <2>3 DEF TypeOK, FlyByWires, IInv, LoadOpen, Falls, switches, world
<1>2. Libraries'
  BY Phases DEF TypeOK, Libraries, Loaded, FlyByWires, OnlyLive, Flying,
     Abi!OpenFails, Abi!OpenRefused, Abi!OpenChecked, Abi!Moves, IInv, LoadOpen,
     Falls
<1>3. Fit' /\ ModesAgree' /\ HeldFits' /\ HonestView'
  BY DEF Fit, ModesAgree, Mode, HeldFits, HonestView, Flying, IInv, LoadOpen,
     Falls, switches, world
<1> QED
  BY <1>1, <1>2, <1>3 DEF IInv

\* rf_init is asked of the one library that is open.
LEMMA LoadInitInv == IInv /\ LoadInit => IInv'
<1> SUFFICES ASSUME IInv, LoadInit
             PROVE  IInv'
  OBVIOUS
<1>1. TypeOK'
  <2>1. choice \in Submissions
    BY DEF TypeOK, Libraries, FlyByWires, IInv, LoadInit
  <2>2. lib' \in [Submissions -> Abi!Phases]
    BY DEF TypeOK, Abi!Phases, Abi!InitSucceeds, Abi!InitDeclines, Abi!Moves,
       IInv, LoadInit
  <2>3. call' \in (Submissions \X Abi!Calls) \cup {Abi!NoCall}
    BY <2>1 DEF Abi!Calls, Abi!InitSucceeds, Abi!InitDeclines, Abi!Moves,
       LoadInit, Falls
  <2> QED
    BY <2>2, <2>3 DEF TypeOK, IInv, LoadInit, Falls, switches, world
<1>2. Libraries'
  BY Phases DEF TypeOK, Libraries, FlyByWires, OnlyLive, Flying,
     Abi!InitSucceeds, Abi!InitDeclines, Abi!Moves, IInv, LoadInit, Falls
<1>3. Fit' /\ ModesAgree' /\ HeldFits' /\ HonestView'
  BY DEF Fit, ModesAgree, Mode, HeldFits, HonestView, Flying, IInv, LoadInit,
     Falls, switches, world
<1> QED
  BY <1>1, <1>2, <1>3 DEF IInv

\* The library that declined is closed, and the failure told.
LEMMA LoadAbandonInv == IInv /\ LoadAbandon => IInv'
<1> SUFFICES ASSUME IInv, LoadAbandon
             PROVE  IInv'
  OBVIOUS
<1>1. TypeOK'
  <2>1. choice \in Submissions
    BY DEF TypeOK, Libraries, FlyByWires, IInv, LoadAbandon
  <2>2. lib' \in [Submissions -> Abi!Phases]
    BY DEF TypeOK, Abi!Phases, Abi!Destroy, Abi!Moves, IInv, LoadAbandon
  <2>3. call' \in (Submissions \X Abi!Calls) \cup {Abi!NoCall}
    BY <2>1 DEF Abi!Calls, Abi!Destroy, Abi!Moves, LoadAbandon
  <2> QED
    BY <2>2, <2>3 DEF TypeOK, FlyByWires, IInv, LoadAbandon, Falls, switches,
       world
<1>2. Libraries'
  BY Phases DEF TypeOK, Libraries, Loaded, FlyByWires, OnlyLive, Flying,
     Abi!Destroy, Abi!Moves, IInv, LoadAbandon, Falls
<1>3. Fit' /\ ModesAgree' /\ HeldFits' /\ HonestView'
  BY DEF Fit, ModesAgree, Mode, HeldFits, HonestView, Flying, IInv, LoadAbandon,
     Falls, switches, world
<1> QED
  BY <1>1, <1>2, <1>3 DEF IInv

\* The library is ready before anyone gets it.
LEMMA LoadResetInv == IInv /\ LoadReset => IInv'
<1> SUFFICES ASSUME IInv, LoadReset
             PROVE  IInv'
  OBVIOUS
<1>1. TypeOK'
  <2>1. choice \in Submissions
    BY DEF TypeOK, Libraries, FlyByWires, IInv, LoadReset
  <2>2. lib' \in [Submissions -> Abi!Phases]
    BY DEF TypeOK, Abi!Phases, Abi!Reset, Abi!Moves, IInv, LoadReset
  <2>3. call' \in (Submissions \X Abi!Calls) \cup {Abi!NoCall}
    BY <2>1 DEF Abi!Calls, Abi!Reset, Abi!Moves, LoadReset
  <2> QED
    BY <2>2, <2>3 DEF TypeOK, IInv, LoadReset, Falls, switches, world
<1>2. Libraries'
  BY Phases DEF TypeOK, Libraries, Loaded, FlyByWires, OnlyLive, Flying,
     Abi!Reset, Abi!Moves, IInv, LoadReset, Falls
<1>3. Fit' /\ ModesAgree' /\ HeldFits' /\ HonestView'
  BY DEF Fit, ModesAgree, Mode, HeldFits, HonestView, Flying, IInv, LoadReset,
     Falls, switches, world
<1> QED
  BY <1>1, <1>2, <1>3 DEF IInv

\* One controller gets the selection; the other has the built-in.
LEMMA InstallInv == IInv /\ Install => IInv'
<1> SUFFICES ASSUME IInv, Install
             PROVE  IInv'
  OBVIOUS
<1>1. TypeOK'
  BY DEF TypeOK, FlyByWires, Controllers, Modes, Mode, Fitted, Abi!Reset,
     Abi!Moves, Abi!Phases, Abi!Calls, IInv, Install, switches
<1>2. Libraries'
  BY Phases DEF TypeOK, Libraries, Loaded, FlyByWires, OnlyLive, Fitted, None,
     Abi!Reset, Abi!Moves, IInv, Install
<1>3. Fit'
  BY DEF Libraries, Fit, Loaded, Fitted, IInv, Install, switches
<1>4. ModesAgree'
  BY DEF ModesAgree, Mode, Fitted, IInv, Install, switches
<1>5. HeldFits'
  BY DEF HeldFits, Install
<1>6. HonestView'
  BY DEF HonestView, IInv, Install
<1> QED
  BY <1>1, <1>2, <1>3, <1>4, <1>5, <1>6 DEF IInv

\* The commands that end in a refit leave the controllers to it.
LEMMA HandleResetInv == IInv /\ HandleReset => IInv'
<1> SUFFICES ASSUME IInv, HandleReset
             PROVE  IInv'
  OBVIOUS
<1>1. TypeOK'
  BY RateAssumption, BacklogAssumption DEF TypeOK, IInv, HandleReset, Pop,
     fitting, switches
<1>2. Libraries'
  BY DEF Libraries, OnlyLive, Flying, IInv, HandleReset, Pop, fitting
<1>3. Fit'
  BY DEF Fit, Flying, HandleReset
<1>4. ModesAgree' /\ HonestView'
  BY DEF ModesAgree, Mode, HonestView, IInv, HandleReset, fitting, switches
<1>5. HeldFits'
  BY DEF HeldFits, Flying, HandleReset
<1> QED
  BY <1>1, <1>2, <1>3, <1>4, <1>5 DEF IInv

\* cycleVehicle, from the first step to the last.
LEMMA CycleVehicleInv == IInv /\ CycleVehicle => IInv'
<1> SUFFICES ASSUME IInv, CycleVehicle
             PROVE  IInv'
  OBVIOUS
<1>1. TypeOK'
  BY RateAssumption, BacklogAssumption DEF TypeOK, IInv, CycleVehicle, Pop,
     switches
<1>2. Libraries'
  BY DEF Libraries, OnlyLive, Flying, IInv, CycleVehicle, Pop
<1>3. Fit'
  BY DEF Fit, Loaded, Flying, IInv, CycleVehicle, switches
<1>4. ModesAgree' /\ HonestView'
  BY DEF ModesAgree, Mode, HonestView, IInv, CycleVehicle, switches
<1>5. HeldFits'
  BY DEF HeldFits, Flying, Mode, Active, FlyByWireOf, IInv, CycleVehicle,
     switches
<1> QED
  BY <1>1, <1>2, <1>3, <1>4, <1>5 DEF IInv

\* cycleFlyByWire: the next of the catalogue, or the first again.
LEMMA CycleFlyByWireInv == IInv /\ CycleFlyByWire => IInv'
<1> SUFFICES ASSUME IInv, CycleFlyByWire
             PROVE  IInv'
  OBVIOUS
<1>1. TypeOK'
  BY BacklogAssumption DEF TypeOK, IInv, CycleFlyByWire, Pop, switches, world
<1>2. Libraries'
  BY DEF Libraries, OnlyLive, Flying, IInv, CycleFlyByWire, Pop
<1>3. Fit'
  BY DEF Fit, Loaded, Flying, IInv, CycleFlyByWire, switches
<1>4. ModesAgree' /\ HonestView'
  BY DEF ModesAgree, Mode, HonestView, IInv, CycleFlyByWire, switches, world
<1>5. HeldFits'
  BY DEF HeldFits, Flying, Mode, Active, FlyByWireOf, IInv, CycleFlyByWire,
     switches, world
<1> QED
  BY <1>1, <1>2, <1>3, <1>4, <1>5 DEF IInv

\* The commands that do not drop what was computed before them.
LEMMA ToggleDirectInv == IInv /\ ToggleDirect => IInv'
<1> SUFFICES ASSUME IInv, ToggleDirect
             PROVE  IInv'
  OBVIOUS
<1>1. TypeOK'
  BY BacklogAssumption DEF TypeOK, IInv, ToggleDirect, Pop, fitting
<1>2. Libraries'
  BY DEF Libraries, OnlyLive, Flying, IInv, ToggleDirect, Pop, fitting
<1>3. Fit'
  BY DEF Fit, Loaded, Flying, IInv, ToggleDirect, fitting
<1>4. ModesAgree'
  BY DEF ModesAgree, Mode, IInv, ToggleDirect, fitting
<1>5. HeldFits'
  BY DEF HeldFits, ToggleDirect
<1>6. HonestView'
  BY DEF HonestView, IInv, ToggleDirect
<1> QED
  BY <1>1, <1>2, <1>3, <1>4, <1>5, <1>6 DEF IInv

\* toggleBenchmark: the benchmark gets its controller, or loses it.
LEMMA ToggleBenchmarkInv == IInv /\ ToggleBenchmark => IInv'
<1> SUFFICES ASSUME IInv, ToggleBenchmark
             PROVE  IInv'
  OBVIOUS
<1>1. TypeOK'
  BY BacklogAssumption DEF TypeOK, IInv, ToggleBenchmark, Pop, fitting, world
<1>2. Libraries'
  BY DEF Libraries, OnlyLive, Flying, IInv, ToggleBenchmark, Pop, fitting
<1>3. Fit'
  BY DEF Fit, Flying, ToggleBenchmark
<1>4. ModesAgree' /\ HonestView'
  BY DEF ModesAgree, Mode, HonestView, IInv, ToggleBenchmark, fitting, world
<1>5. HeldFits'
  BY DEF HeldFits, Flying, ToggleBenchmark
<1> QED
  BY <1>1, <1>2, <1>3, <1>4, <1>5 DEF IInv

\* setVelocityMode: of both controllers, as of the library that is live.
LEMMA ToggleVelocityModeInv == IInv /\ ToggleVelocityMode => IInv'
<1> SUFFICES ASSUME IInv, ToggleVelocityMode
             PROVE  IInv'
  OBVIOUS
<1>1. TypeOK'
  BY BacklogAssumption DEF TypeOK, Controllers, Modes, IInv, ToggleVelocityMode,
     Pop
<1>2. Libraries'
  BY DEF Libraries, OnlyLive, Flying, IInv, ToggleVelocityMode, Pop
<1>3. Fit'
  BY DEF Fit, Loaded, Flying, IInv, ToggleVelocityMode
<1>4. ModesAgree'
  <2>1. CASE velocity
    BY DEF TypeOK, ModesAgree, Mode, Controllers, IInv, ToggleVelocityMode
  <2>2. CASE ~velocity
    BY DEF TypeOK, ModesAgree, Mode, Controllers, IInv, ToggleVelocityMode
  <2> QED
    BY <2>1, <2>2
<1>5. HeldFits'
  BY DEF HeldFits, ToggleVelocityMode
<1>6. HonestView'
  BY DEF HonestView, IInv, ToggleVelocityMode
<1> QED
  BY <1>1, <1>2, <1>3, <1>4, <1>5, <1>6 DEF IInv

\* Steps that change neither controllers nor libraries, nor what is held.
LEMMA QuietInv == IInv /\ (MoveStick \/ Top \/ Drained \/ Push \/ Stop) => IInv'
<1> SUFFICES ASSUME IInv, MoveStick \/ Top \/ Drained \/ Push \/ Stop
             PROVE  IInv'
  OBVIOUS
<1>1. TypeOK'
  <2>1. pending' \in 0 .. MaxPending
    BY BacklogAssumption DEF TypeOK, IInv, MoveStick, Pop, Top, Drained, Push,
       Stop
  <2>2. stepped' \in 0 .. MaxCatchUp
    BY RateAssumption DEF TypeOK, IInv, MoveStick, Top, Drained, Push, Stop,
       world
  <2>3. running' \in BOOLEAN
    BY DEF TypeOK, IInv, MoveStick, Top, Drained, Push, Stop
  <2> QED
    BY <2>3, RateAssumption, BacklogAssumption DEF TypeOK, IInv, MoveStick, Pop,
       Top, Drained, Push, Stop, fitting, switches, world
<1>2. Libraries' /\ Fit'
  BY DEF Libraries, Fit, Loaded, OnlyLive, Flying, IInv, MoveStick, Top,
     Drained, Push, Stop, fitting, switches
<1>3. ModesAgree' /\ HonestView'
  BY DEF ModesAgree, Mode, HonestView, IInv, MoveStick, Top, Drained, Push,
     Stop, fitting, switches, world
<1>4. HeldFits'
  BY DEF HeldFits, Flying, Mode, Active, FlyByWireOf, IInv, MoveStick, Top,
     Drained, Push, Stop, fitting, switches, world
<1> QED
  BY <1>1, <1>2, <1>3, <1>4 DEF IInv

\* What is computed at a control tick is held for the rest of the period.
LEMMA TickInv == IInv /\ Tick => IInv'
<1> SUFFICES ASSUME IInv, Tick
             PROVE  IInv'
  OBVIOUS
<1>1. TypeOK'
  BY RateAssumption DEF TypeOK, Controllers, Modes, Mode, Active, FlyByWireOf,
     VehicleOf, NextTick, Evaluate, Abi!Resolve, Abi!Calls, IInv, Tick, fitting,
     switches
<1>2. Libraries'
  BY DEF Libraries, OnlyLive, Flying, Evaluate, Abi!Resolve, IInv, Tick, fitting
<1>3. Fit'
  BY DEF Fit, Loaded, Flying, IInv, Tick, fitting, switches
<1>4. ModesAgree'
  BY DEF ModesAgree, Mode, IInv, Tick, fitting, switches
<1>5. HeldFits'
  BY DEF Fit, HeldFits, Flying, Mode, Active, FlyByWireOf, VehicleOf, Evaluate,
     IInv, Tick, fitting, switches
<1>6. HonestView'
  BY DEF HonestView, IInv, Tick
<1> QED
  BY <1>1, <1>2, <1>3, <1>4, <1>5, <1>6 DEF IInv

\* publish(): the snapshot tells what the active controller flies.
LEMMA EndBatchInv == IInv /\ EndBatch => IInv'
<1> SUFFICES ASSUME IInv, EndBatch
             PROVE  IInv'
  OBVIOUS
<1>1. TypeOK'
  BY DEF TypeOK, IInv, EndBatch, fitting, switches
<1>2. Libraries'
  BY DEF Libraries, OnlyLive, Flying, IInv, EndBatch, fitting
<1>3. Fit'
  BY DEF Fit, Loaded, Flying, IInv, EndBatch, fitting, switches
<1>4. ModesAgree'
  BY DEF ModesAgree, Mode, IInv, EndBatch, fitting, switches
<1>5. HeldFits'
  BY DEF HeldFits, Flying, Mode, Active, FlyByWireOf, IInv, EndBatch, fitting,
     switches
<1>6. HonestView'
  BY DEF Fit, Loaded, HonestView, Flying, Active, FlyByWireOf, IInv, EndBatch
<1> QED
  BY <1>1, <1>2, <1>3, <1>4, <1>5, <1>6 DEF IInv

\* Every step keeps the invariant.
LEMMA Step == IInv /\ [Next]_vars => IInv'
<1> SUFFICES ASSUME IInv, [Next]_vars
             PROVE  IInv'
  OBVIOUS
<1>1. CASE Refit
  BY <1>1, DropPilotInv, DropBenchInv, SelectBuiltInInv, LoadOpenInv,
     LoadInitInv, LoadAbandonInv, LoadResetInv, InstallInv DEF Refit
<1>2. CASE HandleCommand
  BY <1>2, HandleResetInv, CycleVehicleInv, CycleFlyByWireInv, ToggleDirectInv,
     ToggleBenchmarkInv, ToggleVelocityModeInv, QuietInv DEF HandleCommand
<1>3. CASE Top \/ Drained \/ Push \/ Stop
  BY <1>3, QuietInv
<1>4. CASE Tick
  BY <1>4, TickInv
<1>5. CASE EndBatch
  BY <1>5, EndBatchInv
<1>6. CASE UNCHANGED vars
  <2> USE <1>6 DEF vars, fitting, switches, world, IInv
  <2>1. TypeOK' /\ Libraries' /\ Fit'
    BY DEF TypeOK, Libraries, Fit, Loaded, OnlyLive, Flying
  <2>2. ModesAgree' /\ HonestView' /\ HeldFits'
    BY DEF ModesAgree, Mode, HonestView, HeldFits, Flying, Active, FlyByWireOf
  <2> QED
    BY <2>1, <2>2
<1> QED
  BY <1>1, <1>2, <1>3, <1>4, <1>5, <1>6 DEF Next, Loop

\* IInv holds initially and every step keeps it.
THEOREM Invariance == Spec => []IInv
BY Start, Step, PTL DEF Spec

-------------------------------------------------------------------------------
\* The members of SimulationLoop keep their types.
THEOREM TypeCorrect == Spec => []TypeOK
BY Invariance, PTL DEF IInv

\* Of libraries of which all but one are closed, one at most is not.
LEMMA OneAtMost ==
  ASSUME NEW who, NEW phase, OnlyLive(who, phase)
  PROVE  Cardinality({l \in Submissions : lib[l] # "closed"}) <= 1
<1> DEFINE Live == {l \in Submissions : lib[l] # "closed"}
<1>1. Live \subseteq {who}
  BY DEF OnlyLive, Only
<1>2. IsFiniteSet({who}) /\ Cardinality({who}) = 1
  BY FS_Singleton
<1> QED
  BY <1>1, <1>2, FS_Subset

\* refitControllers: whichever loads fail and whatever is cycled, armed or reset
\* in between, one submission library at most is between its opening and its
\* closing, and one controller holds it.
THEOREM OneLibrary == Spec => []AtMostOneLive
<1>1. IInv => AtMostOneLive
  <2> SUFFICES ASSUME IInv
               PROVE  AtMostOneLive
    OBVIOUS
  <2>1. \E who, phase : OnlyLive(who, phase)
    BY DEF IInv, TypeOK, Libraries, Flying
  <2>2. pilot.fbw \in Submissions => bench.fbw # pilot.fbw
    BY RosterAssumption DEF IInv, TypeOK, Libraries, Flying, None
  <2> QED
    BY <2>1, <2>2, OneAtMost DEF AtMostOneLive
<1> QED
  BY <1>1, Invariance, PTL

\* activeController and evaluate: whoever is asked for a control is fitted to this
\* vehicle, and its library has been initialised and reset and is open.
THEOREM ReadyWhenFlown == Spec => []HoldersReady
<1>1. IInv => HoldersReady
  <2> SUFFICES ASSUME IInv, Flying
               PROVE  \A ctl \in {pilot, bench} :
                        /\ ctl.vehicle = vehicle
                        /\ ctl.fbw \in Submissions => lib[ctl.fbw] = "ready"
    BY DEF HoldersReady
  <2>1. pilot.vehicle = vehicle /\ bench.vehicle = vehicle
    BY DEF IInv, Fit, Flying
  <2>2. /\ pilot.fbw \in Submissions => lib[pilot.fbw] = "ready"
        /\ bench.fbw \in Submissions => lib[bench.fbw] = "ready"
    BY RosterAssumption DEF IInv, Libraries, OnlyLive, Only
  <2> QED
    BY <2>1, <2>2
<1> QED
  BY <1>1, Invariance, PTL

\* buildSelectedFlyByWire: what a snapshot names is what flew, or the failure is
\* told and the built-in flew.
THEOREM ViewIsHonest == Spec => []HonestView
BY Invariance, PTL DEF IInv

\* held_: no command, refit or change of vehicle lets an older answer reach
\* World::setControl.
THEOREM NothingStaleFlown == Spec => []HeldIsCurrent
<1>1. IInv => HeldIsCurrent
  BY DEF IInv, HeldFits, HeldIsCurrent, Flying
<1> QED
  BY <1>1, Invariance, PTL

\* setVelocityMode: pilot and benchmark read a vector the same way, through every
\* refit.
THEOREM OneMode == Spec => []ModesAgree
BY Invariance, PTL DEF IInv
===============================================================================

------------------------------- MODULE Benchmark -------------------------------
(***************************************************************************)
(* control/Benchmark.cpp: the scripted pilot (BenchmarkIntentSource), the  *)
(* meter (BenchmarkMonitor) and the harness that joins them, driven tick   *)
(* by tick by eval/BenchmarkRunner.cpp (headless, ending in finish()) or   *)
(* by SimulationLoop::tickOnce (the game, which arms and refits it and     *)
(* toggles its mode between any two ticks).  Source and meter keep a clock *)
(* each.  A command is known by its index and mode; what the ship makes of *)
(* it is whether a tick ends within tolerance.                             *)
(***************************************************************************)
EXTENDS Integers, FiniteSetsExt

CONSTANTS ControlEvery,  (* kControlEvery                                   *)
          Holds,         (* control periods a command may be held           *)
          MaxCommands,   (* bound: commands in a script                     *)
          MaxTicks       (* spec.maxTicks; bound: ticks in the game         *)

ASSUME BenchmarkBounds == /\ {ControlEvery, MaxTicks} \subseteq Nat \ {0}
                          /\ Holds \subseteq Nat \ {0}
                          /\ MaxCommands \in Nat
                          /\ MaxCommands * ControlEvery > MaxTicks

VARIABLES headless,   (* run by runBenchmark                                *)
          script,     (* the hold of each command, drawn from the seed      *)
          ticks,      (* ticks so far                                       *)
          phase,      (* world.tick() modulo kControlEvery                  *)
          mode,       (* cfg_.mode                                          *)
          source,     (* commandIndex_, and periods until nextChange_       *)
          asked,      (* lastIntent_ of the controller                      *)
          meter,      (* the members of BenchmarkMonitor, in ticks          *)
          everWithin, (* a tick of this run ended within tolerance (history) *)
          done

vars == <<headless, script, ticks, phase, mode, source, asked, meter,
          everWithin, done>>

Modes == {"acceleration", "velocity"}
Commands == 1 .. MaxCommands
Default == [index |-> 0, mode |-> "acceleration"]      (* Intent{} *)

\* sample(): the next command, and how long it is held.
Drawn(k) == [index |-> k, left |-> script[k]]

\* BenchmarkMonitor::reset
Cleared == [started |-> FALSE, index |-> 0, elapsed |-> 0, excursion |-> 0,
            within |-> FALSE, settling |-> 0, worst |-> 0, steps |-> 0,
            settled |-> 0, seconds |-> 0]

Init == /\ headless \in BOOLEAN
        /\ script \in [Commands -> Holds]
        /\ ticks = 0
        /\ phase \in IF headless THEN {0} ELSE 0 .. ControlEvery - 1
        /\ mode \in Modes
        /\ source = Drawn(1)
        /\ asked = Default
        /\ meter = Cleared
        /\ everWithin = FALSE
        /\ done = FALSE

-------------------------------------------------------------------------------
\* Mutant: the change comes one period late.
HeldTooLong(s) == s.left < 0

\* time_ has reached nextChange_.
Over(s) == s.left = 0

\* BenchmarkIntentSource::intent: the source's own clock, one period a call.
Advanced(s) == LET held == IF Over(s) THEN Drawn(s.index + 1) ELSE s
               IN  [held EXCEPT !.left = @ - 1]

\* Mutant: a step that did not settle costs nothing.
CloseForFree(m) ==
  LET settling == IF m.within THEN m.excursion ELSE 0
  IN  [m EXCEPT !.settling = @ + settling, !.steps = @ + 1,
                !.settled = @ + (IF m.within THEN 1 ELSE 0),
                !.worst = Max({@, settling})]

\* closeStep: a step that has not settled is charged whole.
CloseStep(m) ==
  LET settling == IF m.within THEN m.excursion ELSE m.elapsed
  IN  [m EXCEPT !.settling = @ + settling, !.steps = @ + 1,
                !.settled = @ + (IF m.within THEN 1 ELSE 0),
                !.worst = Max({@, settling})]

\* sample(), the change of command.
OpenStep(m, k) == [m EXCEPT !.started = TRUE, !.index = k, !.elapsed = 0,
                            !.excursion = 0, !.within = FALSE]

\* sample(): one tick, charged to the command with index k.
Sampled(m, k, within) ==
  LET closed == IF m.started /\ k # m.index THEN CloseStep(m) ELSE m
      at == IF m.started /\ k = m.index THEN m ELSE OpenStep(closed, k)
  IN  [at EXCEPT !.seconds = @ + 1, !.elapsed = @ + 1, !.within = within,
                 !.excursion = IF within THEN @ ELSE at.elapsed + 1]

\* The loop body of runBenchmark; tickOnce with the benchmark armed.
Tick == \E within \in BOOLEAN :
  /\ ~done
  /\ ticks < MaxTicks
  /\ ticks' = ticks + 1
  /\ phase' = (phase + 1) % ControlEvery
  /\ source' = IF phase = 0 THEN Advanced(source) ELSE source
  /\ asked' = IF phase = 0 THEN [index |-> source'.index, mode |-> mode]
                           ELSE asked
  /\ meter' = Sampled(meter, source'.index, within)
  /\ everWithin' = (everWithin \/ within)
  /\ UNCHANGED <<headless, script, mode, done>>

\* Mutant: the last step is left open.
FinishOpen ==
  /\ headless /\ ~done
  /\ ticks = MaxTicks
  /\ done' = TRUE
  /\ meter' = [meter EXCEPT !.started = FALSE]
  /\ UNCHANGED <<headless, script, ticks, phase, mode, source, asked, everWithin>>

\* BenchmarkMonitor::finish, after the loop of runBenchmark.
Finish ==
  /\ headless /\ ~done
  /\ ticks = MaxTicks
  /\ done' = TRUE
  /\ meter' = [CloseStep(meter) EXCEPT !.started = FALSE]
  /\ UNCHANGED <<headless, script, ticks, phase, mode, source, asked, everWithin>>

\* The sequence from its start, nothing metered.
Restarted == /\ source' = Drawn(1)
             /\ meter' = Cleared
             /\ everWithin' = FALSE

\* BenchmarkHarness::setMode: the controller's last intent is left alone.
SetMode ==
  /\ ~headless
  /\ mode' \in Modes \ {mode}
  /\ Restarted
  /\ UNCHANGED <<headless, script, ticks, phase, asked, done>>

\* BenchmarkHarness::reset, in a refit: armed again, or on a world that was
\* reset or not.
Refit ==
  /\ ~headless
  /\ Restarted
  /\ asked' = Default
  /\ phase' \in {0, phase}
  /\ UNCHANGED <<headless, script, ticks, mode, done>>

Next == Tick \/ Finish \/ SetMode \/ Refit
Spec == Init /\ [][Next]_vars
-------------------------------------------------------------------------------
Meters == [started : BOOLEAN, index : Nat, elapsed : Nat, excursion : Nat,
           within : BOOLEAN, settling : Nat, worst : Nat, steps : Nat,
           settled : Nat, seconds : Nat]

TypeOK == /\ {headless, everWithin, done} \subseteq BOOLEAN
          /\ script \in [Commands -> Holds]
          /\ ticks \in 0 .. MaxTicks
          /\ phase \in 0 .. ControlEvery - 1
          /\ mode \in Modes
          /\ source \in [index : Commands, left : Nat]
          /\ source.left <= script[source.index]
          /\ asked \in [index : Commands, mode : Modes] \cup {Default}
          /\ meter \in Meters

Closing(m) == IF m.started THEN CloseStep(m) ELSE m

\* BenchmarkMonitor: every command the source has issued in this run is one
\* step of the score and is charged once, the last one included, although the
\* meter only watches an index change and the run ends in the middle of a hold.
EveryCommandCharged ==
  /\ meter.started => meter.index = source.index /\ meter.steps = source.index - 1
  /\ done => meter.steps = source.index

\* closeStep: a controller that never settles does not outscore one that does:
\* it is charged every tick there was, however the run was cut into commands.
NeverSettlingPaysAll ==
  LET m == Closing(meter)
  IN  ~everWithin => m.settling = m.seconds /\ m.settled = 0

\* intent(): a command changes hands after exactly the whole control periods
\* it was drawn for: the clock of the source and the one of the meter agree.
HoldIsWhole ==
  [][headless /\ meter.started /\ meter'.started /\ meter'.index # meter.index =>
       meter.elapsed = ControlEvery * script[meter.index]]_vars

-------------------------------------------------------------------------------
\* BenchmarkHarness::sample: the command is taken back out of the controller, so
\* that there is no second copy of what was asked for to fall out of step --
\* what a tick is metered against is the command, of the mode, it is charged to.
MeteredAsCommanded ==
  [][meter'.seconds > meter.seconds =>
       asked' = [index |-> meter'.index, mode |-> mode]]_vars
===============================================================================

-------------------------------- MODULE Actuator --------------------------------
(***************************************************************************)
(* core/Rocket.cpp: one thruster between what it is asked for and what it  *)
(* does.  Thrust is in whole units, time in ticks; the nozzle is left out. *)
(***************************************************************************)
EXTENDS Integers

CONSTANTS MinThrust, MaxThrust,
          IgnitionTicks,    (* ignitionTime / kTickDt                       *)
          RampUp, RampDown  (* thrust per tick; 0 is at once                *)

ASSUME ThrusterAssumption ==
  /\ {MinThrust, MaxThrust, IgnitionTicks, RampUp, RampDown} \subseteq Nat
  /\ MinThrust <= MaxThrust

Lower(a, b)  == IF a < b THEN a ELSE b
Higher(a, b) == IF a < b THEN b ELSE a

Cold == [thrust |-> 0, timer |-> 0, lit |-> FALSE]

\* slew
Slew(value, target, rate) ==
  IF rate = 0 THEN target
  ELSE IF target > value THEN Lower(target, value + rate)
  ELSE Higher(target, value - rate)

\* demandFor: below half the floor is off, below the floor is the floor.
DemandFor(asked) ==
  IF 2 * asked < MinThrust THEN 0
  ELSE Lower(Higher(asked, MinThrust), MaxThrust)

\* Commanded on and not lit: the ignition clock starts only from cold.
Igniting(a) ==
  LET left == (IF a.timer = 0 /\ a.thrust = 0 THEN IgnitionTicks ELSE a.timer) - 1
  IN  IF left <= 0
      THEN [thrust |-> Higher(a.thrust, MinThrust), timer |-> 0, lit |-> TRUE]
      ELSE [a EXCEPT !.timer = left]

Burning(a, demand) ==
  [a EXCEPT !.thrust = Higher(Slew(a.thrust, demand, RampUp),
                              Lower(MinThrust, demand))]

\* Mutant: shutting down leaves the ignition clock where it is.
ShutDownMidway(a) ==
  [thrust |-> Slew(a.thrust, 0, RampDown), timer |-> a.timer, lit |-> FALSE]

ShutDown(a) == [thrust |-> Slew(a.thrust, 0, RampDown), timer |-> 0, lit |-> FALSE]

\* stepActuators, for one thruster.
StepActuator(a, asked) ==
  LET demand == DemandFor(asked)
      on     == IF a.lit THEN a ELSE Igniting(a)
  IN  IF demand = 0 THEN ShutDown(a)
      ELSE IF on.lit THEN Burning(on, demand) ELSE on
===============================================================================

--------------------------------- MODULE Pilots ---------------------------------
(***************************************************************************)
(* control/HumanInput.cpp: the two pilots behind the InputState, along one *)
(* axis of the left stick: GamepadIntentSource, which says what the ship   *)
(* should do, and DirectHumanController, which opens thrusters.  They read *)
(* the positions the simulation believes in and keep no state.             *)
(***************************************************************************)
EXTENDS InputPath

CONSTANTS Deadzone,  (* kMoveDeadzone, in steps of the device               *)
          Arms       (* the attitude thrusters, by the sign of leverArm()   *)

\* kAxisEpsilon is 0.004, kMoveDeadzone 0.15.
ASSUME PilotAssumption == /\ Deadzone \in Nat
                          /\ Epsilon <= Deadzone
                          /\ Arms \subseteq {-1, 0, 1}
                          /\ "MoveX" \in Axes /\ "KillVelocity" \in Held

Magnitude(x) == IF x < 0 THEN -x ELSE x
Sign(x) == IF x < 0 THEN -1 ELSE IF x > 0 THEN 1 ELSE 0

\* Mutant: the stick is taken as it is.
StickAsRead(x) == x

\* applyDeadzone: what is past the rim counts from the rim.  The code takes the
\* length of the stick's two axes for Magnitude; this is one of them, with the
\* other at rest.
ApplyDeadzone(x) ==
  IF Magnitude(x) <= Deadzone THEN 0 ELSE Sign(x) * (Magnitude(x) - Deadzone)

\* GamepadIntentSource::intent: KillVelocity wins in either mode.
Intent(in, mode) ==
  IF in["KillVelocity"] = 1 THEN [mode |-> "velocity", vector |-> 0]
  ELSE [mode |-> mode, vector |-> ApplyDeadzone(in["MoveX"])]

\* DirectHumanController::evaluate: the thrusters that turn the ship the way the
\* stick points, right being a negative rate, as far open as the stick is over.
Level(in, arm) ==
  IF Sign(arm) = Sign(-in["MoveX"]) /\ in["MoveX"] # 0
  THEN Magnitude(in["MoveX"]) ELSE 0

-------------------------------------------------------------------------------
\* The translator has told all it is going to tell about the stick.
Settled == /\ queue = <<>> /\ dropped = 0
           /\ ~Changed("MoveX", reading["MoveX"])

\* A stick that was let go asks for nothing, although the translator keeps the
\* last of its travel to itself when the rest of the way is below its epsilon:
\* the deadzone of the fly-by-wire's pilot swallows that residue.  The direct
\* pilot has no deadzone; what it leaves open is below the epsilon.
LettingGoIsRest ==
  Settled /\ reading["MoveX"] = 0 =>
    /\ \A mode \in {"acceleration", "velocity"} : Intent(input, mode).vector = 0
    /\ \A arm \in Arms : Level(input, arm) < Epsilon
===============================================================================

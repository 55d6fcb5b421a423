------------------------------- MODULE Allocator -------------------------------
(***************************************************************************)
(* control/ThrustAllocator.cpp, for a ship with one thruster through its   *)
(* centre of mass: the built-in fly-by-wire's last step, from the thrust   *)
(* it wants to the one it asks for.  Levels are in units of thrust.  With  *)
(* one column the pseudo-inverse is exact but for its damping, so the      *)
(* passes of solve() end after the first.                                  *)
(***************************************************************************)
EXTENDS Actuator

\* A level is never below 0 nor above 1.
Clamped(wanted) == Lower(Higher(wanted, 0), MaxThrust)

\* Mutant: what is below the floor is asked for as it is.
Unsnapped(level) == level

\* snapToThrustFloor: off or the floor, whichever is nearer.
Snap(level) ==
  IF level <= 0 \/ level >= MinThrust THEN level
  ELSE IF 2 * level >= MinThrust THEN MinThrust ELSE 0

\* solve
Allocated(wanted) == Snap(Clamped(wanted))
================================================================================

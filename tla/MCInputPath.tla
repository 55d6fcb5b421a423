----------------------------- MODULE MCInputPath -----------------------------
(* One control of each kind.  Three changes and a queue with room for two    *)
(* make it overflow within one poll; positions 0, 1, 3 with Epsilon 2 hold   *)
(* changes worth telling, one that is noise, and a stick that is let go in   *)
(* two moves of which the second is not told.                                *)
EXTENDS Pilots

MCAxes == {"MoveX"}
MCHeld == {"KillVelocity"}
MCToggles == {"ToggleDirect"}
MCArms == {-1, 1}
MCPositions == {0, 1, 3}
===============================================================================

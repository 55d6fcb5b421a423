------------------------------ MODULE MCBenchmark ------------------------------
(* Control periods of two ticks, holds of one and two periods: a run of seven  *)
(* ticks sees two to four commands, and ends within a control period.  The     *)
(* rocket directory has up to two files: two vehicles, one of them with a      *)
(* floor above its ceiling and a name that is too long, and files that are     *)
(* refused for what they are, what they miss and what they say.                *)
EXTENDS BenchPrograms

MCHolds == {1, 2}

Jet(max) == [at |-> 0, max_thrust |-> max]
Hull == [mass |-> 1, length |-> 1, width |-> 1]
Classic == ("name" :> <<"a">>) @@ ("thrusters" :> <<Jet(2)>>) @@ Hull
Lander  == ("name" :> <<"b", "x">>) @@ Hull @@
           ("thrusters" :> <<("min_thrust" :> 3) @@ ("ramp_up" :> 1) @@ Jet(2)>>)
Refused == NoDefinition \cup {Hull, [Classic EXCEPT !.mass = 0],
            [Classic EXCEPT !.thrusters = <<>>],
            [Classic EXCEPT !.thrusters = <<Jet(1), Jet(1)>>],
            [Classic EXCEPT !.thrusters = <<Jet(0)>>]}

MCDirectories == UNION {[paths -> {Classic, Lander} \cup Refused] :
                          paths \in SUBSET (1 .. 2)}
Request(program, all, rocket) ==
  [program |-> program, all |-> all, rocket |-> rocket, seconds |-> MaxTicks]
MCRequests == {Request("bench", TRUE, <<>>), Request("bench", FALSE, <<>>),
               Request("bench", FALSE, <<"b">>), Request("runner", FALSE, <<"a">>),
               Request("runner", FALSE, <<"b", "x">>), Request("game", FALSE, <<"b">>),
               [Request("bench", TRUE, <<>>) EXCEPT !.seconds = 0]}
===============================================================================

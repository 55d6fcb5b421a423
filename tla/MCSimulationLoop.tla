--------------------------- MODULE MCSimulationLoop ---------------------------
(* Two vehicles, two submissions: every cycle meets a submission following a *)
(* submission.  A control period of three ticks and batches of at most two   *)
(* make the batch end, and commands arrive, in the middle of a period.       *)
EXTENDS SimulationLoop

MCVehicles == {"classic", "lander"}
MCSubmissions == {"one", "two"}
MCNextVehicle == [v \in MCVehicles |-> CHOOSE w \in MCVehicles : w # v]
MCNextFlyByWire ==
  [f \in MCSubmissions \cup {"built-in"} |-> 
     CASE f = "built-in" -> "one" [] f = "one" -> "two" [] f = "two" -> "built-in"]
===============================================================================

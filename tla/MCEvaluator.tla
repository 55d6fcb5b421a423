------------------------------ MODULE MCEvaluator ------------------------------
(* One vehicle, or none; two seeds, of which the first is flown again.  A     *)
(* process can write two blocks, one more than the cap, and a pipe holds both: *)
(* a report is whole or cut, and a read takes some or all of it.              *)
EXTENDS Evaluator

MCCatalogues == {<<>>, <<"lander">>}
MCModes      == <<"velocity">>
MCSeeds      == <<1, 2>>
MCRocketWeight == [r \in {"lander"} |-> 2]
MCModeWeight   == [m \in {"acceleration"} |-> 3]
MCScore      == [h \in {"a", "b"} |-> IF h = "a" THEN 1 ELSE 3]
================================================================================

-------------------------------- MODULE MCBatch --------------------------------
(* Two threads, two jobs for a layered controller, one for a scripted and one *)
(* for an unknown one: a thread flies several.  What is wanted can lie below  *)
(* the floor and above the limit.  Ignition takes longer than a control       *)
(* period, so the demand can be taken back while the engine is lighting;      *)
(* thrust decays more slowly than it builds up, so it can be taken up again   *)
(* while it decays.                                                           *)
EXTENDS Batch

MCJobs == <<"seek", "nobody", "spinburn", "seek">>
================================================================================

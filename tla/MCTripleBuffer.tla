---------------------------- MODULE MCTripleBuffer ----------------------------
(* A payload of two words, so that a frame can see half of it; four publishes, *)
(* which go round the three slots between a load and an exchange; a batch of   *)
(* two ticks on a clock that runs at most two periods ahead, so that batches   *)
(* are met in time, just filled, and given up; a rate window of two periods,   *)
(* which takes one batch or several; a tick of three bits, which wraps and is  *)
(* still more than a window sees.                                              *)
EXTENDS RunLoop

MCWords == {"lo", "hi"}
===============================================================================

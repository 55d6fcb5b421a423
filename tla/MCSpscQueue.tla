----------------------------- MODULE MCSpscQueue -----------------------------
(* Capacity 4 is the smallest power of two in which the queue is neither     *)
(* empty nor full for more than one length; the indices wrap without bound.  *)
EXTENDS SpscQueue
===============================================================================

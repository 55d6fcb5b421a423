------------------------------- MODULE Mailbox -------------------------------
(***************************************************************************)
(* What a TripleBuffer promises its two threads: a mailbox holding only    *)
(* the newest value.  A value is known by its version, the number of the   *)
(* publish that delivered it.                                              *)
(***************************************************************************)
EXTENDS Naturals

VARIABLES current,  (* version of the last value published                 *)
          held,     (* version of the value read() returns                 *)
          got,      (* what the last acquire() returned                    *)
          seen      (* versions the consumer met in the words it has read  *)
                    (* since that acquire()                                *)

vars == <<current, held, got, seen>>

Init == /\ current = 0
        /\ held = 0
        /\ got = FALSE
        /\ seen = {}

Publish == /\ current' = current + 1
           /\ UNCHANGED <<held, got, seen>>

\* acquire() hands over the newest value, never one in between ...
Take == /\ held < current
        /\ held' = current
        /\ got' = TRUE
        /\ seen' = {}
        /\ UNCHANGED current

\* ... and may say "nothing new" only when that is so.
Miss == /\ held = current
        /\ got' = FALSE
        /\ seen' = {}
        /\ UNCHANGED <<current, held>>

\* Every word of the value belongs to the version held.
Read == /\ seen' = seen \cup {held}
        /\ UNCHANGED <<current, held, got>>

Next == Publish \/ Take \/ Miss \/ Read

Spec == Init /\ [][Next]_vars
==============================================================================

----------------------------- MODULE BoundedFifo -----------------------------
(***************************************************************************)
(* What an SpscQueue promises: a first-in first-out queue of bounded       *)
(* length whose push refuses the newest item, and counts it, when full.    *)
(***************************************************************************)
EXTENDS Naturals, Sequences

CONSTANTS Items, Blank,  (* the items, and what out holds before any pop() *)
          Room           (* the most items that fit                       *)

VARIABLES q,        (* the items inside, oldest first   *)
          dropped,  (* pushes refused                   *)
          out       (* the item the last pop() returned *)

vars == <<q, dropped, out>>

Init == q = <<>> /\ dropped = 0 /\ out = Blank

Push(x) == /\ Len(q) < Room
           /\ q' = Append(q, x)
           /\ UNCHANGED <<dropped, out>>

Drop == /\ Len(q) = Room
        /\ dropped' = dropped + 1
        /\ UNCHANGED <<q, out>>

Pop == /\ q # <<>>
       /\ out' = Head(q)
       /\ q' = Tail(q)
       /\ UNCHANGED dropped

Next == (\E x \in Items : Push(x)) \/ Drop \/ Pop

Spec == Init /\ [][Next]_vars
===============================================================================

-------------------------------- MODULE Fifo ---------------------------------
(***************************************************************************)
(* What a queue promises: elements leave in the order in which they came,  *)
(* the oldest is at the front, the newest at the back, and an empty queue  *)
(* shows EMPTY at both ends.                                               *)
(***************************************************************************)
EXTENDS Sequences

CONSTANTS Values, EMPTY

VARIABLES
    items,              \* oldest first
    front, back         \* what QUEUE_FRONT and QUEUE_BACK return

vars == <<items, front, back>>

Shown(s) ==
    /\ front' = IF s = <<>> THEN EMPTY ELSE Head(s)
    /\ back' = IF s = <<>> THEN EMPTY ELSE s[Len(s)]

Init == items = <<>> /\ front = EMPTY /\ back = EMPTY

Enqueue == \E v \in Values : items' = Append(items, v) /\ Shown(items')

Dequeue == items # <<>> /\ items' = Tail(items) /\ Shown(items')

\* The queue is destroyed.
Clear == items' = <<>> /\ Shown(items')

Spec == Init /\ [][Enqueue \/ Dequeue \/ Clear]_vars
==============================================================================

----------------------------- MODULE Containers ------------------------------
(***************************************************************************)
(* The containers of src/lib/ds side by side: a map, whose buckets are     *)
(* vectors, a vector and a queue, each with a caller of its own.  They     *)
(* share nothing but the heap, so that one caller is at work at a time.    *)
(***************************************************************************)
EXTENDS Map

CONSTANTS Nodes, EMPTY, MayDrain

ASSUME ContainersAssumption ==
    NULL \notin Nodes /\ EMPTY \notin Values /\ MayDrain \in BOOLEAN

VARIABLES q, qmem, qlive        \* the queue, with the memory of its nodes

queue_vars == <<q, qmem, qlive>>

Q == INSTANCE Queue WITH mem <- qmem, live <- qlive

Init == MapInit /\ vec = NULL /\ Q!Init

Next ==
    \/ vec = NULL /\ Q!Init /\ MapNext /\ UNCHANGED <<vec, queue_vars>>
    \/ MapInit /\ Q!Init /\ VectorNext /\ UNCHANGED <<map_vars, queue_vars>>
    \/ MapInit /\ vec = NULL /\ Q!Next /\ UNCHANGED <<map_vars, vec>>

Spec == Init /\ [][Next]_<<map_vars, vec, queue_vars>>

-----------------------------------------------------------------------------

\* queue.c implements a first-in first-out queue, as long as callers keep one
\* element in it.
ImplementsFifo == Q!ImplementsFifo
==============================================================================

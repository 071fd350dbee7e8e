-------------------------------- MODULE Queue --------------------------------
(***************************************************************************)
(* The queue of src/lib/ds/queue.c: a doubly linked list of heap nodes,    *)
(* entered at head and left at tail.                                       *)
(*                                                                         *)
(* A node's address is taken from Nodes by kmalloc and given back by       *)
(* kfree; memory that was freed keeps its contents until it is allocated   *)
(* again.  Each node's data buffer is modelled by the value in it.         *)
(***************************************************************************)
EXTENDS Integers, Sequences, SequencesExt

CONSTANTS
    Nodes,              \* heap addresses of qnode_t's
    Values,             \* elements
    NULL,
    EMPTY,              \* "0 casted to whatever data type the queue holds"
    MayDrain            \* callers dequeue the last element too

VARIABLES
    q,                  \* the queue_t, or NULL
    mem,                \* the fields of the nodes
    live                \* the nodes that kmalloc returned and nobody freed

vars == <<q, mem, live>>

Init ==
    /\ q = NULL
    /\ mem = [n \in Nodes |-> [next |-> NULL, prev |-> NULL, data |-> EMPTY]]
    /\ live = {}

queue_create ==
    /\ q = NULL
    /\ q' = [head |-> NULL, tail |-> NULL, size |-> 0]
    /\ UNCHANGED <<mem, live>>

\* The first n nodes along the next pointers from q->head.
nodes(n) ==
    LET at[i \in 1 .. n] == IF i = 1 THEN q.head ELSE mem[at[i - 1]].next
    IN  [i \in 1 .. n |-> at[i]]


queue_destroy ==
    /\ q # NULL
    /\ live' = live \ ToSet(nodes(q.size))
    /\ q' = NULL
    /\ UNCHANGED mem

\* Pointers to the data of the node at each end; NULL if there is no node.
queue_front == q.tail
queue_back == q.head

\* The macros of queue.h; both test queue_front.
QUEUE_FRONT == IF queue_front = NULL THEN EMPTY ELSE mem[queue_front].data
QUEUE_BACK == IF queue_front = NULL THEN EMPTY ELSE mem[queue_back].data

\* Mutant: the tail follows next instead of prev.
dequeue_forward ==
    /\ q # NULL
    /\ q.tail # NULL
    /\ q' = [q EXCEPT !.tail = mem[q.tail].next, !.size = @ - 1]
    /\ live' = live \ {q.tail}
    /\ UNCHANGED mem

queue_dequeue ==
    /\ q # NULL
    /\ q.tail # NULL
    /\ LET prev == mem[q.tail].prev
       IN  /\ mem' = IF prev = NULL THEN mem ELSE [mem EXCEPT ![prev].next = NULL]
           /\ q' = [q EXCEPT !.tail = prev, !.size = @ - 1]
    /\ live' = live \ {q.tail}

\* queue_enqueue after its two kmallocs: q->head is written through whether
\* or not it is still allocated.
enqueue(node, data) ==
    LET new == [mem EXCEPT ![node] = [next |-> q.head, prev |-> NULL, data |-> data]]
    IN  IF q.head = NULL
        THEN mem' = new /\ q' = [head |-> node, tail |-> node, size |-> q.size + 1]
        ELSE /\ mem' = [new EXCEPT ![q.head].prev = node]
             /\ q' = [q EXCEPT !.head = node, !.size = @ + 1]

queue_enqueue(data) ==
    /\ q # NULL
    /\ \E node \in Nodes \ live :
          /\ enqueue(node, data)
          /\ live' = live \cup {node}

Next ==
    \/ queue_create
    \/ queue_destroy
    \/ (q # NULL => q.size > 1 \/ MayDrain) /\ queue_dequeue
    \/ \E data \in Values : queue_enqueue(data)

Spec == Init /\ [][Next]_vars

-----------------------------------------------------------------------------

items == IF q = NULL THEN <<>>
         ELSE LET list == nodes(q.size) IN Reverse([i \in 1 .. q.size |-> mem[list[i]].data])

F == INSTANCE Fifo WITH
        front <- IF q = NULL THEN EMPTY ELSE QUEUE_FRONT,
        back <- IF q = NULL THEN EMPTY ELSE QUEUE_BACK

\* queue.c implements a first-in first-out queue, as long as callers keep one
\* element in it.
ImplementsFifo == F!Spec
==============================================================================

-------------------------------- MODULE Vector -------------------------------
(***************************************************************************)
(* The vector of src/lib/ds/vector.c: size elements at the start of a heap *)
(* buffer of capacity elements, which krealloc doubles when it is full.    *)
(* A slot of the buffer holds one element; indices start at 0, as in C.    *)
(* The operations are functions of the vector_t; vec is one in use.        *)
(***************************************************************************)
EXTENDS Integers, Sequences

CONSTANTS
    JUNK,               \* what memory holds that nobody has written
    NULL,
    SplitBehind,        \* whether krealloc finds a free block larger than needed
                        \* behind the buffer
    Elements,           \* what is put into vec
    Capacities,         \* arguments of vector_create
    MaxCapacity         \* bound: callers stop before the buffer outgrows it

\* A capacity of 0 is never doubled to anything else.
ASSUME VectorAssumption ==
    /\ JUNK \notin Elements /\ NULL \notin Elements
    /\ Capacities \subseteq Nat \ {0}
    /\ MaxCapacity \in Nat
    /\ SplitBehind \in BOOLEAN

VARIABLE vec            \* the vector_t with its buffer, or NULL

vector_create(capacity) ==
    [buf |-> [i \in 0 .. capacity - 1 |-> JUNK], capacity |-> capacity, size |-> 0]

\* memcpy to or from get_elem_addr(vec, idx); what lies past the buffer is lost.
read(v, idx) == IF idx \in DOMAIN v.buf THEN v.buf[idx] ELSE JUNK
write(v, idx, data) == [v EXCEPT !.buf = [i \in DOMAIN @ |-> IF i = idx THEN data ELSE @[i]]]

vector_get(v, idx) == IF idx >= v.size THEN NULL ELSE read(v, idx)

vector_set(v, idx, data) == IF idx >= v.size THEN v ELSE write(v, idx, data)

\* krealloc keeps the contents when it moves the block or takes the whole block
\* behind it.  When it splits, it returns the remainder, which nobody has
\* written.
krealloc(buf, capacity) ==
    [i \in 0 .. capacity - 1 |-> IF i \in DOMAIN buf /\ ~ SplitBehind THEN buf[i] ELSE JUNK]

\* Mutant: the test comes one element late.
make_room_late(v) ==
    IF v.size = v.capacity + 1
    THEN [v EXCEPT !.capacity = 2 * @, !.buf = krealloc(@, 2 * v.capacity)]
    ELSE v

\* "capacity has been reached, double it"
make_room(v) ==
    IF v.size = v.capacity
    THEN [v EXCEPT !.capacity = 2 * @, !.buf = krealloc(@, 2 * v.capacity)]
    ELSE v

vector_add(v, data) == [write(make_room(v), v.size, data) EXCEPT !.size = @ + 1]

\* memmove copies to a buffer of its own first, so overlap does not matter.
memmove(v, dest, src, num) ==
    [v EXCEPT !.buf = [i \in DOMAIN @ |->
        IF i \in dest .. dest + num - 1 THEN read(v, i - dest + src) ELSE @[i]]]

vector_remove(v, idx) ==
    IF idx >= v.size THEN v
    ELSE [memmove(v, idx, idx + 1, v.size - idx - 1) EXCEPT !.size = @ - 1]

vector_insert(v, idx, data) ==
    IF idx > v.size THEN v
    ELSE [write(memmove(make_room(v), idx + 1, idx, v.size - idx), idx, data) EXCEPT !.size = @ + 1]

-----------------------------------------------------------------------------
\* The bound on the callers.
RoomInVec == vec.size < vec.capacity \/ 2 * vec.capacity <= MaxCapacity

\* Indices out of range included.
VectorNext ==
    \/ \E capacity \in Capacities : vec = NULL /\ vec' = vector_create(capacity)
    \/ vec # NULL /\ vec' = NULL
    \/ \E data \in Elements, idx \in 0 .. MaxCapacity :
          /\ vec # NULL
          /\ \/ vec' = vector_set(vec, idx, data)
             \/ RoomInVec /\ vec' = vector_insert(vec, idx, data)
    \/ \E data \in Elements : vec # NULL /\ RoomInVec /\ vec' = vector_add(vec, data)
    \/ \E idx \in 0 .. MaxCapacity : vec # NULL /\ vec' = vector_remove(vec, idx)

-----------------------------------------------------------------------------
\* The elements in order.
elements(v) == [i \in 1 .. v.size |-> vector_get(v, i - 1)]

S == INSTANCE Sequence WITH items <- IF vec = NULL THEN <<>> ELSE elements(vec)

\* Adding, inserting, removing and setting change the vector as they would a
\* sequence, also when the buffer is full and moves: no element is lost, copied
\* over by the shift of the others, written past the buffer or read from memory
\* that was never written.
ImplementsSequence == S!Spec
==============================================================================

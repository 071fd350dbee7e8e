--------------------------- MODULE FrameAllocator ---------------------------
(***************************************************************************)
(* What a page frame allocator promises its callers, with no bitmap, hint  *)
(* or counter: a request takes any run of available frames of its zone, a  *)
(* request fails only when the zone has no such run, and a release makes   *)
(* exactly the frames of that request available again.                     *)
(***************************************************************************)
EXTENDS Integers

CONSTANTS
    PAGE_SIZE,
    Zones,
    Lo, Hi,             \* zone z has the addresses from Lo[z] up to Hi[z]
    Sizes               \* page counts callers may ask for

VARIABLES
    avail,              \* addresses of the available frames
    held,               \* <<addr, pages>> of each request granted
    failed              \* a request could not be met

vars == <<avail, held, failed>>

Frames(addr, n) == {addr + PAGE_SIZE * k : k \in 0 .. n - 1}

\* The runs of n available frames in a zone, by their first address.
Runs(zone, n) ==
    {a \in avail : /\ Lo[zone] <= a
                   /\ a + PAGE_SIZE * n <= Hi[zone]
                   /\ Frames(a, n) \subseteq avail}

Init == held = {} /\ failed = FALSE

Alloc(zone, n) ==
    /\ ~ failed
    /\ \E a \in Runs(zone, n) :
          /\ avail' = avail \ Frames(a, n)
          /\ held' = held \cup {<<a, n>>}
    /\ UNCHANGED failed

Fail(zone, n) ==
    /\ ~ failed
    /\ Runs(zone, n) = {}
    /\ failed' = TRUE
    /\ UNCHANGED <<avail, held>>

Free(f) ==
    /\ ~ failed
    /\ avail' = avail \cup Frames(f[1], f[2])
    /\ held' = held \ {f}
    /\ UNCHANGED failed

Next ==
    \/ \E zone \in Zones, n \in Sizes : Alloc(zone, n) \/ Fail(zone, n)
    \/ \E f \in held : Free(f)

Spec == Init /\ [][Next]_vars
=============================================================================

----------------------------- MODULE Dictionary ------------------------------
(***************************************************************************)
(* What a map promises: a partial function from keys to values, in which   *)
(* an insertion, a removal or a lookup concerns one key only.              *)
(***************************************************************************)
EXTENDS Integers

CONSTANTS Keys, Values, NONE

VARIABLE get            \* what map_get returns for each key

Init == get = [k \in Keys |-> NONE]

Insert(key, val, replace) ==
    get' = IF replace \/ get[key] = NONE THEN [get EXCEPT ![key] = val] ELSE get

Remove(key) == get[key] # NONE /\ get' = [get EXCEPT ![key] = NONE]

Clear == get' = [key \in Keys |-> NONE]
==============================================================================

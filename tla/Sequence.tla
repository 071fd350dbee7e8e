------------------------------ MODULE Sequence -------------------------------
(***************************************************************************)
(* What a vector promises: a sequence that changes only where a call says. *)
(***************************************************************************)
EXTENDS Integers, Sequences, SequencesExt

CONSTANT Elements

VARIABLE items

Init == items = <<>>

\* Insertion anywhere, adding at the end included.
InsertAny == \E v \in Elements, i \in 1 .. Len(items) + 1 : items' = InsertAt(items, i, v)

RemoveAny == \E i \in DOMAIN items : items' = RemoveAt(items, i)

SetAny == \E v \in Elements, i \in DOMAIN items : items' = [items EXCEPT ![i] = v]

Clear == items' = <<>>

Spec == Init /\ [][InsertAny \/ RemoveAny \/ SetAny \/ Clear]_items
==============================================================================

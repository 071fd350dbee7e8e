-------------------------------- MODULE MCLog --------------------------------
(***************************************************************************)
(* An instance of Log with 8-bit and 12-bit numbers, and the arguments at  *)
(* which their number of digits or their sign changes.                     *)
(***************************************************************************)
EXTENDS Log

MCChars == {97, PERCENT} \cup { LETTER[f] : f \in DOMAIN LETTER }
MCStrings == {<<>>, <<97, PERCENT>>}
MCInts == {0, 9, 10, 99, 100, 127, 129, 156, 157, 246, 247, 255}
MCLongs == {0, 9, 10, 99, 100, 999, 1000, 2047, 2049, 3096, 3097, 4086, 4087, 4095}
==============================================================================

----------------------------- MODULE MCInterrupts ----------------------------
(***************************************************************************)
(* An instance of Interrupts: the boot processor is neither the first nor  *)
(* the last one in the bootloader's list.                                  *)
(***************************************************************************)
EXTENDS Interrupts

MCProcs == <<1, 0, 2>>
==============================================================================

------------------------------ MODULE MCInterrupts -----------------------------
(***************************************************************************)
(* The two lines the kernel serves and a third of lower priority that has  *)
(* no routine, as the BIOS may have left it unmasked.                      *)
(***************************************************************************)
EXTENDS Interrupts

MCLines == {0, 1, 6}
===============================================================================

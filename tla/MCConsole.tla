------------------------------- MODULE MCConsole -------------------------------
(***************************************************************************)
(* A screen of three rows and three columns, a line of two characters, a   *)
(* letter, a digit and two shift keys.                                     *)
(***************************************************************************)
EXTENDS Console, TLC

CONSTANTS a, one, lshift, rshift

MCLetters == {a}
MCKeys == {a, one}
MCShifts == {lshift, rshift}
MCSymmetry == Permutations(MCShifts)
===============================================================================

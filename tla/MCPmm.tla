--------------------------------- MODULE MCPmm --------------------------------
(***************************************************************************)
(* A 64-byte address space of 16 frames for TLC.  The memory maps have     *)
(* unaligned edges, holes, overlaps, entries out of order, a reserved      *)
(* entry, one that ends in the last frame of the address space and one     *)
(* that lies above it.                                                     *)
(***************************************************************************)
EXTENDS Pmm

Ram(lo, hi) == [addr |-> lo, len |-> hi - lo, available |-> TRUE]
Reserved(lo, hi) == [addr |-> lo, len |-> hi - lo, available |-> FALSE]
Mod(lo, hi) == [start |-> lo, end |-> hi]

MCMmaps == {
  <<Ram(0, 5), Reserved(5, 8), Ram(8, 50)>>,
  <<Ram(0, 4), Ram(6, 31), Ram(18, 41)>>,
  <<Ram(18, 60), Ram(0, 17), Reserved(60, 64)>>,
  <<Ram(0, 61)>>,
  <<Ram(0, 40), Ram(80, 96)>>,
  <<Reserved(0, 64)>> }

MCModuleLists == {
  <<>>,
  <<Mod(11, 15)>>,
  <<Mod(16, 23), Mod(30, 33)>> }

===============================================================================

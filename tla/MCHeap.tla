--------------------------------- MODULE MCHeap --------------------------------
(***************************************************************************)
(* A 64-byte address space of 16 pages with a five-page heap that starts   *)
(* off a page boundary.  The frame allocator holds frames under the heap   *)
(* and some others, fewer than the heap and the other users could take     *)
(* together, so that it runs dry.                                          *)
(***************************************************************************)
EXTENDS Heap

MCSizes == {0, 1, 6, 17}
MCHugeSizes == {1, 5, WordSize - 4}
MCAligns == {1, 8}
MCPmmFrames == {1, 2, 4, 8, 9}
===============================================================================

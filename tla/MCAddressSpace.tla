----------------------------- MODULE MCAddressSpace ----------------------------
(***************************************************************************)
(* Two shared directory entries of sixteen pages each and one private entry. *)
(* As in the repository, programs lie in the shared, identity-mapped part, *)
(* below the heap, and the stack above it (initrd/hello.ld links at 4 MiB, *)
(* the heap is at 8 MiB, the stack ends at 32 MiB); the frame allocator    *)
(* has the frames under programs and under the heap.                       *)
(***************************************************************************)
EXTENDS AddressSpace

CONSTANTS Absent

Segment(vaddr, filesz, memsz) ==
  [vaddr |-> vaddr, filesz |-> filesz, memsz |-> memsz, beyond |-> FALSE]
Beyond == [Segment(0, 0, 1) EXCEPT !.beyond = TRUE]

\* Pages are two bytes: a program of two pages; two segments that share one, with a third
\* of no memory; a page in the private part, off a boundary; headers or a segment beyond
\* the end of the file; more in the file than in memory; an end that wraps.
MCImages ==
  { <<Segment(24, 2, 3)>>,
    <<Segment(24, 3, 3), Segment(26, 0, 2), Segment(72, 2, 0)>>,
    <<Segment(25, 1, 1), Segment(65, 2, 2)>>,
    <<Beyond>>, <<Segment(24, 1, 2), Beyond>>, <<Segment(65, 2, 2), Beyond>>,
    <<Segment(25, 4, 1)>>,
    <<Segment(94, 1, 2)>> }
MCStackPages == <<31, 30>>
MCOwn == {0, 20}
===============================================================================

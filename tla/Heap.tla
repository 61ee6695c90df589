---------------------------------- MODULE Heap ---------------------------------
(***************************************************************************)
(* The kernel heap (src/kernel/arch/i386/mm/heap.c) on top of the frame    *)
(* allocator.  kmalloc_aligned is a bump allocator: it rounds the break    *)
(* up, and heap_ensure_backed takes one frame from the frame allocator per *)
(* page it is about to touch for the first time, whichever frame that is.  *)
(* kfree does nothing.  The other users of the frame allocator (kernel.c,  *)
(* paging.c, user_exec.c) are one actor.                                   *)
(*                                                                         *)
(* Addresses are words: arithmetic is modulo WordSize (2^32).              *)
(***************************************************************************)
EXTENDS Naturals, Sequences, FiniteSets

CONSTANTS
  PageSize,     \* 4096
  WordPages,    \* pages of the address space (2^20)
  HeapStart,    \* the first argument of heap_init
  HeapSize,     \* the second
  MinAlign,     \* the least alignment of a block (16)
  Sizes,        \* sizes callers ask for
  Aligns,       \* alignments callers ask for
  PmmFrames,    \* the frames the frame allocator was seeded with
  MaxBlocks     \* bound: blocks allocated in a behaviour

WordSize == WordPages * PageSize
Word == 0 .. WordSize - 1
AlignUp(x, a) == (((x + a - 1) % WordSize) \div a) * a

ASSUME HeapAssumption ==
  /\ PageSize \in Nat \ {0}
  /\ WordPages \in Nat \ {0}
  /\ MinAlign \in Nat \ {0}
  /\ HeapStart \in Nat /\ HeapSize \in Nat
  /\ Sizes \subseteq Word
  /\ Aligns \subseteq Nat \ {0}
  /\ PmmFrames \subseteq Nat
  /\ MaxBlocks \in Nat

\* heap_init: the bounds of the heap.
HeapBase == AlignUp(HeapStart, MinAlign)
HeapEnd == HeapBase + HeapSize

\* The heap ends below the last page of the address space.
ASSUME HeapPlacement == HeapEnd <= WordSize - PageSize

VARIABLES
  brk,         \* g_heap_brk
  mapped_end,  \* g_heap_mapped_end
  pc,          \* "idle", in kmalloc's loop ("backing"), or "halted" (OOM)
  call,        \* the block kmalloc is about to return: [base, size]
  blocks,      \* the blocks returned so far, in order
  pool,        \* the frame allocator's clear bits
  heapFrames,  \* frames heap_ensure_backed has taken
  otherFrames  \* frames other users hold

vars == <<brk, mapped_end, pc, call, blocks, pool, heapFrames, otherFrames>>

Pmm == INSTANCE FrameAllocator WITH
  usable <- PmmFrames, seeded <- TRUE, handed <- heapFrames \cup otherFrames

Block == [base : Word, size : Word]
NoCall == [base |-> 0, size |-> 0]

Init ==
  /\ brk = HeapBase
  /\ mapped_end = HeapBase
  /\ pc = "idle"
  /\ call = NoCall
  /\ blocks = <<>>
  /\ pool = PmmFrames
  /\ heapFrames = {}
  /\ otherFrames = {}

\* pmm_alloc_frame is first-fit.
Lowest(f) == \A g \in pool : f <= g

\* mutant: kmalloc_aligned rounding down.
BlockBaseDown(align) == (brk \div align) * align

\* kmalloc_aligned's rounding.
BlockBase(align) == AlignUp(brk, IF align < MinAlign THEN MinAlign ELSE align)
\* mutant: the new break counted from the old one, not from the rounded base.
NewBrkUnrounded(b) == (brk + b.size) % WordSize

NewBrk(b) == (b.base + b.size) % WordSize
\* mutant: heap_ensure_backed rounding down.
NeedFloor(b) == (NewBrk(b) \div PageSize) * PageSize

Need(b) == AlignUp(NewBrk(b), PageSize)

\* mutant: kmalloc_aligned without its test of the heap's end.
KmallocUnbounded(size, align) ==
  /\ pc = "idle"
  /\ Len(blocks) < MaxBlocks
  /\ call' = [base |-> BlockBase(align), size |-> size]
  /\ pc' = "backing"
  /\ UNCHANGED <<brk, mapped_end, blocks, pool, heapFrames, otherFrames>>

\* kmalloc_aligned up to the call of heap_ensure_backed.  A request that ends
\* above the heap gets 0 and changes nothing.
Kmalloc(size, align) ==
  /\ pc = "idle"
  /\ Len(blocks) < MaxBlocks
  /\ call' = [base |-> BlockBase(align), size |-> size]
  /\ NewBrk(call') <= HeapEnd
  /\ pc' = "backing"
  /\ UNCHANGED <<brk, mapped_end, blocks, pool, heapFrames, otherFrames>>

\* mutant: a page counted as backed by a frame left in the pool.
BackPageUntaken ==
  /\ pc = "backing"
  /\ mapped_end < Need(call)
  /\ \E f \in pool : Lowest(f) /\ heapFrames' = heapFrames \cup {f}
  /\ mapped_end' = mapped_end + PageSize
  /\ UNCHANGED <<brk, pc, call, blocks, pool, otherFrames>>

\* One iteration of heap_ensure_backed.
BackPage ==
  /\ pc = "backing"
  /\ mapped_end < Need(call)
  /\ \E f \in pool :
       /\ Lowest(f)
       /\ heapFrames' = heapFrames \cup {f}
       /\ UNCHANGED otherFrames
       /\ Pmm!Take(f)
  /\ mapped_end' = mapped_end + PageSize
  /\ UNCHANGED <<brk, pc, call, blocks>>

\* mutant: an empty pool tried again for ever.
OutOfMemoryRetries ==
  /\ pc = "backing"
  /\ mapped_end < Need(call)
  /\ pool = {}
  /\ UNCHANGED vars

\* Out of frames: "heap: OOM", and the machine halts with interrupts off.
OutOfMemory ==
  /\ pc = "backing"
  /\ mapped_end < Need(call)
  /\ pool = {}
  /\ pc' = "halted"
  /\ UNCHANGED <<brk, mapped_end, call, blocks, pool, heapFrames, otherFrames>>

\* The rest of kmalloc_aligned.
Return ==
  /\ pc = "backing"
  /\ mapped_end >= Need(call)
  /\ brk' = NewBrk(call)
  /\ blocks' = Append(blocks, call)
  /\ call' = NoCall
  /\ pc' = "idle"
  /\ UNCHANGED <<mapped_end, pool, heapFrames, otherFrames>>

\* Another user of the frame allocator takes a frame, or gives one back.
OtherTake ==
  /\ pc = "idle"
  /\ \E f \in pool :
       /\ Lowest(f)
       /\ otherFrames' = otherFrames \cup {f}
       /\ UNCHANGED heapFrames
       /\ Pmm!Take(f)
  /\ UNCHANGED <<brk, mapped_end, pc, call, blocks>>

OtherGive ==
  /\ pc = "idle"
  /\ \E f \in otherFrames :
       /\ otherFrames' = otherFrames \ {f}
       /\ UNCHANGED heapFrames
       /\ Pmm!Give(f)
  /\ UNCHANGED <<brk, mapped_end, pc, call, blocks>>

Next ==
  \/ \E size \in Sizes, align \in Aligns : Kmalloc(size, align)
  \/ BackPage
  \/ OutOfMemory
  \/ Return
  \/ OtherTake
  \/ OtherGive

\* A call that has started runs on: nothing else uses the processor but
\* interrupt handlers, which end.
Fairness == WF_vars(BackPage) /\ WF_vars(OutOfMemory) /\ WF_vars(Return)

Spec == Init /\ [][Next]_vars /\ Fairness

-------------------------------------------------------------------------------
\* No request is so large that the sum "p + size" exceeds a word.
NoWrap ==
  \A size \in Sizes, align \in Aligns \cup {MinAlign} :
    HeapEnd + align + size < WordSize

\* Types, and that a frame is in the pool, the heap's or another user's, and in
\* one of them only.
TypeOK ==
  /\ brk \in Word
  /\ mapped_end \in Nat
  /\ pc \in {"idle", "backing", "halted"}
  /\ call \in Block
  /\ blocks \in Seq(Block)
  /\ pool \cup heapFrames \cup otherFrames = PmmFrames
  /\ pool \cap (heapFrames \cup otherFrames) = {}
  /\ heapFrames \cap otherFrames = {}

\* No block reaches outside [g_heap_start, g_heap_end) ("max virtual address we
\* allow", heap.c:11).
BlocksInHeap ==
  \A k \in DOMAIN blocks :
    HeapBase <= blocks[k].base /\ blocks[k].base + blocks[k].size <= HeapEnd

\* Blocks follow one another: none overlaps an earlier one.
BlocksDisjoint ==
  \A j, k \in DOMAIN blocks :
    j < k => blocks[j].base + blocks[j].size <= blocks[k].base

\* The heap has paid for every page below the end of the last block: the bytes
\* it may touch are at most a frame's worth per frame it has taken.
BytesPaid ==
  /\ mapped_end = HeapBase + PageSize * Cardinality(heapFrames)
  /\ \A k \in DOMAIN blocks : blocks[k].base + blocks[k].size <= mapped_end

\* The break and the backed end never move down.
Monotone == [][brk' >= brk /\ mapped_end' >= mapped_end]_vars

\* Every call of kmalloc returns or halts.
KmallocEnds == (pc = "backing") ~> (pc # "backing")

\* The page numbers a block has bytes in.
Pages(b) ==
  {n \in 0 .. WordPages - 1 :
    /\ b.size > 0
    /\ n * PageSize < b.base + b.size
    /\ b.base < (n + 1) * PageSize}

\* heap.c:32: "identity-mapped world: just ensure we reserve physical frames for
\* pages we will touch".  The frame under a page has the page's number, and no
\* other user may hold it.
PagesReserved ==
  \A k \in DOMAIN blocks : Pages(blocks[k]) \cap otherFrames = {}
===============================================================================

---------------------------------- MODULE Pmm ---------------------------------
(***************************************************************************)
(* The physical memory manager (src/kernel/arch/i386/mm/pmm.c): pmm_init    *)
(* reads the multiboot memory map and builds a bitmap of used frames,       *)
(* pmm_alloc_frame hands out the lowest clear bit and pmm_free_frame clears *)
(* one.                                                                    *)
(*                                                                         *)
(* An address is a natural number; uintptr_t arithmetic is arithmetic      *)
(* modulo WordSize (2^32 in the code), the memory map's 64-bit fields are   *)
(* not reduced.  The bitmap is the set of frames whose bit is set.         *)
(***************************************************************************)
EXTENDS Naturals, Sequences, FiniteSets

CONSTANTS
  FrameSize,    \* bytes of a frame (4096)
  WordFrames,   \* frames of the address space (2^20)
  LowEnd,       \* first byte above the area kept for the BIOS (0x100000)
  KernelStart,  \* __kernel_start
  KernelEnd,    \* __kernel_end
  BitmapAlign,  \* alignment of the bitmap (16)
  BitsPerByte,  \* 8
  Mmaps,        \* the memory maps a boot loader may pass
  ModuleLists   \* the module lists it may pass

WordSize == WordFrames * FrameSize
Word == 0 .. WordSize - 1

Region == [addr : Nat, len : Nat, available : BOOLEAN]
Module == {m \in [start : Nat, end : Nat] : m.start <= m.end}

FrameDown(x) == x \div FrameSize
FrameUp(x) == ((x + FrameSize - 1) % WordSize) \div FrameSize

ASSUME SizeAssumption ==
  /\ FrameSize \in Nat \ {0, 1}
  /\ WordFrames \in Nat \ {0}
  /\ BitsPerByte \in Nat \ {0}
  /\ BitmapAlign \in Nat \ {0}
  /\ LowEnd \in Nat \ {0}
  /\ KernelStart \in Nat
  /\ KernelEnd \in Nat
  /\ KernelStart <= KernelEnd

\* The image, its bitmap and the low area end below the last frame of the
\* address space, so that rounding their ends up does not wrap.
ASSUME LayoutAssumption ==
  /\ LowEnd <= WordSize - FrameSize
  /\ KernelEnd + BitmapAlign + WordFrames + 1 <= WordSize - FrameSize

ASSUME InputAssumption ==
  /\ Mmaps \subseteq Seq(Region)
  /\ ModuleLists \subseteq Seq(Module)

\* One stage per loop or call of pmm_init, in the order of the code.
Stages == {"start", "scan", "regions", "low", "kernel", "bitmap", "modules", "ready", "panic"}

VARIABLES
  mmap,          \* the memory map passed by the boot loader
  hasMmap,       \* MULTIBOOT1_INFO_MMAP is set
  mods,          \* the module list
  stage,         \* how far pmm_init has come
  i,             \* index of the region or module being marked
  max_end,       \* detect_max_phys's highest end of available RAM so far
  total_frames,  \* g_total_frames
  used,          \* g_bitmap: the frames whose bit is set
  free_frames,   \* g_free_frames
  handed         \* frames returned by pmm_alloc_frame and not yet freed

boot == <<mmap, hasMmap, mods>>
vars == <<mmap, hasMmap, mods, stage, i, max_end, total_frames, used, free_frames, handed>>

Frames == 0 .. total_frames - 1
clear == Frames \ used

\* detect_max_phys clamps the highest end to a word.
MaxPhys == IF max_end > WordSize - 1 THEN WordSize - 1 ELSE max_end

BitmapBytes == (total_frames + BitsPerByte - 1) \div BitsPerByte
BitmapPhys == ((KernelEnd + BitmapAlign - 1) \div BitmapAlign) * BitmapAlign

\* mutant: mark_used_range rounding its end down.
UsedRangeFloor(addr, len) ==
  {f \in Frames : FrameDown(addr) <= f /\ f < FrameDown(addr + len)}

\* The frames the two marking loops walk over.
UsedRange(addr, len) == {f \in Frames : FrameDown(addr) <= f /\ f < FrameUp(addr + len)}
FreeRange(addr, len) ==
  LET start == addr % WordSize
  IN  {f \in Frames : FrameUp(start) <= f /\ f < FrameDown((start + len) % WordSize)}

MarkUsed(S) ==
  LET n == Cardinality(S \ used)
  IN  /\ used' = used \cup S
      /\ free_frames' = IF n <= free_frames THEN free_frames - n ELSE 0

\* mutant: mark_free_range without its bit_test.
MarkFreeUntested(S) ==
  /\ used' = used \ S
  /\ free_frames' = free_frames + Cardinality(S)

MarkFree(S) ==
  /\ used' = used \ S
  /\ free_frames' = free_frames + Cardinality(S \cap used)

\* Modules lie in RAM that the memory map lists (the boot loader put them there).
ModulesInRam ==
  \A k \in DOMAIN mods : \E j \in DOMAIN mmap :
    mmap[j].available /\ mods[k].end <= mmap[j].addr + mmap[j].len

Init ==
  /\ mmap \in Mmaps
  /\ hasMmap \in BOOLEAN
  /\ mods \in ModuleLists
  /\ ModulesInRam
  /\ stage = "start"
  /\ i = 1
  /\ max_end = 0
  /\ total_frames = 0
  /\ used = {}
  /\ free_frames = 0
  /\ handed = {}

\* Without a memory map pmm_init panics.
NoMmap ==
  /\ stage = "start"
  /\ ~hasMmap
  /\ stage' = "panic"
  /\ UNCHANGED <<boot, i, max_end, total_frames, used, free_frames, handed>>

StartScan ==
  /\ stage = "start"
  /\ hasMmap
  /\ stage' = "scan"
  /\ UNCHANGED <<boot, i, max_end, total_frames, used, free_frames, handed>>

\* One iteration of detect_max_phys.
ScanRegion ==
  /\ stage = "scan"
  /\ i \in DOMAIN mmap
  /\ LET r == mmap[i]
     IN  max_end' = IF r.available /\ r.addr + r.len > max_end
                      THEN r.addr + r.len ELSE max_end
  /\ i' = i + 1
  /\ UNCHANGED <<boot, stage, total_frames, used, free_frames, handed>>

\* The frame count, and a bitmap with every bit set.
SizeBitmap ==
  /\ stage = "scan"
  /\ i \notin DOMAIN mmap
  /\ total_frames' = FrameUp(MaxPhys)
  /\ used' = 0 .. total_frames' - 1
  /\ free_frames' = 0
  /\ stage' = "regions"
  /\ i' = 1
  /\ UNCHANGED <<boot, max_end, handed>>

\* One iteration of the loop over the memory map.
FreeRegion ==
  /\ stage = "regions"
  /\ i \in DOMAIN mmap
  /\ IF mmap[i].available
       THEN MarkFree(FreeRange(mmap[i].addr, mmap[i].len))
       ELSE UNCHANGED <<used, free_frames>>
  /\ i' = i + 1
  /\ UNCHANGED <<boot, stage, max_end, total_frames, handed>>

RegionsDone ==
  /\ stage = "regions"
  /\ i \notin DOMAIN mmap
  /\ stage' = "low"
  /\ i' = 1
  /\ UNCHANGED <<boot, max_end, total_frames, used, free_frames, handed>>

MarkLow ==
  /\ stage = "low"
  /\ MarkUsed(UsedRange(0, LowEnd))
  /\ stage' = "kernel"
  /\ UNCHANGED <<boot, i, max_end, total_frames, handed>>

MarkKernel ==
  /\ stage = "kernel"
  /\ MarkUsed(UsedRange(KernelStart, KernelEnd - KernelStart))
  /\ stage' = "bitmap"
  /\ UNCHANGED <<boot, i, max_end, total_frames, handed>>

MarkBitmap ==
  /\ stage = "bitmap"
  /\ MarkUsed(UsedRange(BitmapPhys, BitmapBytes))
  /\ stage' = "modules"
  /\ UNCHANGED <<boot, i, max_end, total_frames, handed>>

MarkModule ==
  /\ stage = "modules"
  /\ i \in DOMAIN mods
  /\ MarkUsed(UsedRange(mods[i].start, mods[i].end - mods[i].start))
  /\ i' = i + 1
  /\ UNCHANGED <<boot, stage, max_end, total_frames, handed>>

ModulesDone ==
  /\ stage = "modules"
  /\ i \notin DOMAIN mods
  /\ stage' = "ready"
  /\ UNCHANGED <<boot, i, max_end, total_frames, used, free_frames, handed>>

\* mutant: pmm_alloc_frame without its bit_set.
AllocFrameUnset ==
  /\ stage = "ready"
  /\ \E f \in clear :
       /\ \A g \in clear : f <= g
       /\ free_frames' = IF free_frames > 0 THEN free_frames - 1 ELSE 0
       /\ handed' = handed \cup {f}
  /\ UNCHANGED <<boot, stage, i, max_end, total_frames, used>>

\* pmm_alloc_frame: the lowest clear bit; with none the caller gets 0 and
\* nothing changes.
AllocFrame ==
  /\ stage = "ready"
  /\ \E f \in clear :
       /\ \A g \in clear : f <= g
       /\ used' = used \cup {f}
       /\ free_frames' = IF free_frames > 0 THEN free_frames - 1 ELSE 0
       /\ handed' = handed \cup {f}
  /\ UNCHANGED <<boot, stage, i, max_end, total_frames>>

\* mutant: pmm_free_frame without its bit_clear.
FreeFrameLeaks(paddr) ==
  /\ stage = "ready"
  /\ paddr % FrameSize = 0
  /\ FrameDown(paddr) \in handed
  /\ free_frames' = free_frames + 1
  /\ handed' = handed \ {FrameDown(paddr)}
  /\ UNCHANGED <<boot, stage, i, max_end, total_frames, used>>

\* pmm_free_frame on an address its caller holds (every caller passes back
\* what pmm_alloc_frame gave it, and only when that was not 0).
FreeFrame(paddr) ==
  /\ stage = "ready"
  /\ paddr % FrameSize = 0
  /\ FrameDown(paddr) \in handed
  /\ FrameDown(paddr) < total_frames
  /\ FrameDown(paddr) \in used
  /\ used' = used \ {FrameDown(paddr)}
  /\ free_frames' = free_frames + 1
  /\ handed' = handed \ {FrameDown(paddr)}
  /\ UNCHANGED <<boot, stage, i, max_end, total_frames>>

\* ... and on an address that is misaligned, out of range or not in use.
FreePanics(paddr) ==
  /\ stage = "ready"
  /\ \/ paddr % FrameSize # 0
     \/ FrameDown(paddr) >= total_frames
     \/ FrameDown(paddr) \notin used
  /\ stage' = "panic"
  /\ UNCHANGED <<boot, i, max_end, total_frames, used, free_frames, handed>>

Next ==
  \/ NoMmap
  \/ StartScan
  \/ ScanRegion
  \/ SizeBitmap
  \/ FreeRegion
  \/ RegionsDone
  \/ MarkLow
  \/ MarkKernel
  \/ MarkBitmap
  \/ MarkModule
  \/ ModulesDone
  \/ AllocFrame
  \/ \E paddr \in Word : FreeFrame(paddr) \/ FreePanics(paddr)

Spec == Init /\ [][Next]_vars

-------------------------------------------------------------------------------
\* What the memory map and the image say about a frame, in unreduced addresses.
Overlaps(f, lo, hi) == f * FrameSize < hi /\ lo < (f + 1) * FrameSize

InRam(f) ==
  \E k \in DOMAIN mmap :
    /\ mmap[k].available
    /\ mmap[k].addr <= f * FrameSize
    /\ (f + 1) * FrameSize <= mmap[k].addr + mmap[k].len

Critical(f) ==
  \/ Overlaps(f, 0, LowEnd)
  \/ Overlaps(f, KernelStart, KernelEnd)
  \/ Overlaps(f, BitmapPhys, BitmapPhys + BitmapBytes)
  \/ \E k \in DOMAIN mods : Overlaps(f, mods[k].start, mods[k].end)

\* Types, and that every frame a caller holds has its bit set.
TypeOK ==
  /\ mmap \in Mmaps
  /\ hasMmap \in BOOLEAN
  /\ mods \in ModuleLists
  /\ stage \in Stages
  /\ i \in Nat \ {0}
  /\ max_end \in Nat
  /\ total_frames \in 0 .. WordFrames
  /\ used \subseteq Frames
  /\ free_frames \in 0 .. total_frames
  /\ handed \subseteq used

\* The free counter kept by hand in four places is the number of clear bits,
\* so the "if (g_free_frames)" guards of the decrements never hide a miscount.
FreeCountExact == free_frames = Cardinality(clear)

\* Every frame a caller holds is whole RAM according to the memory map, and
\* holds no byte of the low area, the kernel image, the bitmap or a module.
HandedUsable == \A f \in handed : InRam(f) /\ ~Critical(f)

\* RAM that reaches past the 32-bit limit is clamped to it ("clamp to 32-bit
\* phys", pmm.c:97), not lost: there are frames to manage.
ClampKeepsRam ==
  stage = "ready" /\ (\E k \in DOMAIN mmap :
    mmap[k].available /\ mmap[k].addr + mmap[k].len > WordSize - 1)
    => total_frames > 0

\* Boot is over, well or badly: no more marking.
Settled == stage \in {"ready", "panic"}

\* The bitmap keeps the promise of FrameAllocator: the pool is the clear bits
\* once boot is over, and pmm_init as a whole is the one step that seeds it.
Promise == INSTANCE FrameAllocator WITH
  usable <- IF Settled THEN {f \in Frames : InRam(f) /\ ~Critical(f)} ELSE {},
  seeded <- Settled,
  pool <- IF Settled THEN clear ELSE {}

ImplementsFrameAllocator == Promise!Spec

===============================================================================

------------------------------- MODULE PmmProofs -------------------------------
(***************************************************************************)
(* Proofs about the physical memory manager, for every size of frame and   *)
(* address space, every memory map and every module list.                  *)
(*                                                                         *)
(* IInv says what each stage of pmm_init has established: the counter is   *)
(* the number of clear bits, the pool is whole RAM, and each critical      *)
(* range is out of the pool once its marking step has run.  That no region *)
(* was truncated to the word size follows from total_frames > 0            *)
(* (SizeInv), although the code truncates without testing.                 *)
(***************************************************************************)
EXTENDS Pmm, TLAPS, FiniteSetTheorems

\* Division with remainder, in the form the lemmas below use.
LEMMA DivMod ==
  ASSUME NEW x \in Nat, NEW d \in Nat \ {0}
  PROVE /\ x \div d \in Nat
        /\ x % d \in 0 .. d - 1
        /\ d * (x \div d) <= x
        /\ x < d * (x \div d) + d
  OBVIOUS

\* Multiplication is monotonic.
LEMMA MulMono ==
  ASSUME NEW a \in Nat, NEW b \in Nat, NEW c \in Nat, a <= b
  PROVE  /\ a * c <= b * c
         /\ c * a <= c * b
  OBVIOUS

\* The address space is a whole, positive number of frames.
LEMMA WordPositive == WordSize \in Nat \ {0} /\ WordSize = WordFrames * FrameSize
  BY SizeAssumption DEF WordSize

\* Rounding up modulo the word size names a frame of the address space.
LEMMA FrameUpType ==
  ASSUME NEW x \in Nat
  PROVE FrameUp(x) \in 0 .. WordFrames - 1
<1> DEFINE z == x + FrameSize - 1
<1> DEFINE y == z % WordSize
<1>0. FrameSize \in Nat \ {0} /\ WordFrames \in Nat \ {0} BY SizeAssumption
<1>1. z \in Nat BY <1>0
<1> HIDE DEF z
<1>2. y \in 0 .. WordSize - 1 BY <1>1, DivMod, WordPositive
<1> HIDE DEF y
<1>3. y \in Nat /\ y < WordFrames * FrameSize BY <1>2, WordPositive
<1>4. y \div FrameSize \in Nat /\ FrameSize * (y \div FrameSize) <= y BY <1>0, <1>3, DivMod
<1>5. ~(WordFrames <= y \div FrameSize)
  <2>1. SUFFICES ASSUME WordFrames <= y \div FrameSize PROVE FALSE OBVIOUS
  <2>2. FrameSize * WordFrames <= FrameSize * (y \div FrameSize) BY <2>1, <1>0, <1>4, MulMono
  <2> QED BY <1>0, <1>3, <1>4, <2>2
<1> QED BY <1>0, <1>4, <1>5 DEF FrameUp, y, z

\* The frame of a byte, as a bound on the byte.
LEMMA DownLe ==
  ASSUME NEW x \in Nat, NEW f \in Nat
  PROVE FrameDown(x) <= f <=> x < (f + 1) * FrameSize
<1> DEFINE q == x \div FrameSize
<1>0. FrameSize \in Nat \ {0} BY SizeAssumption
<1>1. q \in Nat /\ FrameSize * q <= x /\ x < FrameSize * q + FrameSize BY <1>0, DivMod
<1> HIDE DEF q
<1>2. ASSUME q <= f PROVE x < (f + 1) * FrameSize
  <2>1. FrameSize * q <= FrameSize * f BY <1>0, <1>1, <1>2, MulMono
  <2> QED BY <1>0, <1>1, <2>1
<1>3. ASSUME ~(q <= f) PROVE ~(x < (f + 1) * FrameSize)
  <2>1. FrameSize * (f + 1) <= FrameSize * q BY <1>0, <1>1, <1>3, MulMono
  <2> QED BY <1>0, <1>1, <2>1
<1> QED BY <1>2, <1>3 DEF FrameDown, q

\* The first frame at or above a byte, where rounding up does not wrap.
LEMMA UpLe ==
  ASSUME NEW x \in Nat, NEW f \in Nat, x <= WordSize - FrameSize
  PROVE FrameUp(x) <= f <=> x <= f * FrameSize
<1> DEFINE z == x + FrameSize - 1
<1> DEFINE q == z \div FrameSize
<1>0. FrameSize \in Nat \ {0} /\ WordSize \in Nat \ {0} BY SizeAssumption, WordPositive
<1>1. z \in 0 .. WordSize - 1 BY <1>0
<1>a. z = x + FrameSize - 1 OBVIOUS
<1>b. FrameUp(x) = (z % WordSize) \div FrameSize BY DEF FrameUp
<1> HIDE DEF z
<1>2. q \in Nat /\ FrameSize * q <= z /\ z < FrameSize * q + FrameSize BY <1>0, <1>1, DivMod
<1>3. z % WordSize = z BY <1>0, <1>1
<1>4. FrameUp(x) = q BY <1>3, <1>b
<1> HIDE DEF q
<1>5. ASSUME q <= f PROVE x <= f * FrameSize
  <2>1. FrameSize * q <= FrameSize * f BY <1>0, <1>2, <1>5, MulMono
  <2> QED BY <1>0, <1>2, <1>a, <2>1
<1>6. ASSUME ~(q <= f) PROVE ~(x <= f * FrameSize)
  <2>1. FrameSize * (f + 1) <= FrameSize * q BY <1>0, <1>2, <1>6, MulMono
  <2> QED BY <1>0, <1>2, <1>a, <2>1
<1> QED BY <1>4, <1>5, <1>6

\* The bitmap is stored below the last frame of the address space.
LEMMA BitmapEnd ==
  ASSUME NEW t \in 0 .. WordFrames, total_frames = t
  PROVE  /\ BitmapPhys \in Nat
         /\ BitmapBytes \in Nat
         /\ BitmapPhys + BitmapBytes <= WordSize - FrameSize
<1>0. /\ BitsPerByte \in Nat \ {0} /\ BitmapAlign \in Nat \ {0}
      /\ KernelEnd \in Nat /\ WordFrames \in Nat \ {0} /\ FrameSize \in Nat \ {0}
  BY SizeAssumption
<1> DEFINE a == KernelEnd + BitmapAlign - 1
<1> DEFINE b == t + BitsPerByte - 1
<1> DEFINE p == a \div BitmapAlign
<1> DEFINE q == b \div BitsPerByte
<1>1. a \in Nat /\ a = KernelEnd + BitmapAlign - 1 BY <1>0
<1>2. b \in Nat /\ b = t + BitsPerByte - 1 BY <1>0
<1>3. BitmapPhys = p * BitmapAlign /\ BitmapBytes = q BY DEF BitmapPhys, BitmapBytes
<1> HIDE DEF a, b
<1>4. p \in Nat /\ BitmapAlign * p <= a BY <1>0, <1>1, DivMod
<1>5. q \in Nat /\ BitsPerByte * q <= b BY <1>0, <1>2, DivMod
<1> HIDE DEF p, q
<1>6. q <= t
  <2>1. SUFFICES ASSUME t + 1 <= q PROVE FALSE BY <1>5
  <2>2. BitsPerByte * (t + 1) <= BitsPerByte * q BY <1>0, <1>5, <2>1, MulMono
  <2>3. 1 * t <= BitsPerByte * t BY <1>0, MulMono
  <2> QED BY <1>0, <1>2, <1>5, <2>2, <2>3
<1>7. BitmapPhys \in Nat /\ BitmapPhys <= KernelEnd + BitmapAlign
  BY <1>0, <1>1, <1>3, <1>4
<1>8. q <= WordFrames BY <1>0, <1>5, <1>6
<1>9. WordSize - FrameSize \in Int BY <1>0, WordPositive
<1> QED BY <1>0, <1>3, <1>5, <1>7, <1>8, <1>9, LayoutAssumption

-------------------------------------------------------------------------------
(* What the marking loops walk over.                                      *)

\* A range marked used covers every frame that holds one of its bytes.
LEMMA UsedRangeCovers ==
  ASSUME NEW addr \in Nat, NEW len \in Nat, addr + len <= WordSize - FrameSize,
         NEW f \in Frames, f \in Nat, Overlaps(f, addr, addr + len)
  PROVE  f \in UsedRange(addr, len)
<1>1. FrameDown(addr) <= f BY DownLe DEF Overlaps
<1>2. addr + len \in Nat OBVIOUS
<1>3. FrameUp(addr + len) \in Nat BY <1>2, FrameUpType
<1>4. f * FrameSize \in Nat BY SizeAssumption
<1>5. ~(FrameUp(addr + len) <= f) BY <1>2, <1>4, UpLe DEF Overlaps
<1> QED BY <1>1, <1>3, <1>5 DEF UsedRange

\* A range marked free holds only frames that lie wholly in it.
LEMMA FreeRangeInside ==
  ASSUME NEW addr \in Nat, NEW len \in Nat, addr + len <= WordSize - FrameSize,
         NEW f \in FreeRange(addr, len), f \in Nat
  PROVE  addr <= f * FrameSize /\ (f + 1) * FrameSize <= addr + len
<1>0. FrameSize \in Nat \ {0} /\ WordSize \in Nat \ {0} BY SizeAssumption, WordPositive
<1>1. addr + len \in 0 .. WordSize - 1 /\ addr \in 0 .. WordSize - 1 BY <1>0
<1>2. addr % WordSize = addr /\ (addr + len) % WordSize = addr + len BY <1>0, <1>1
<1>3. FrameUp(addr) <= f /\ f < FrameDown(addr + len) BY <1>2 DEF FreeRange
<1>4. addr <= f * FrameSize BY <1>0, <1>1, <1>3, UpLe
<1>5. FrameDown(addr + len) \in Nat
  <2>1. addr + len \in Nat OBVIOUS
  <2> QED BY <1>0, <2>1, DivMod DEF FrameDown
<1>6. ~(FrameDown(addr + len) <= f) BY <1>3, <1>5
<1>7. ~(addr + len < (f + 1) * FrameSize) BY <1>6, DownLe
<1>8. (f + 1) * FrameSize \in Nat BY <1>0
<1> QED BY <1>4, <1>7, <1>8

-------------------------------------------------------------------------------
(* What marking does to the pool of clear bits and to its counter. *)

Counted == total_frames \in Nat /\ used \subseteq Frames /\ free_frames = Cardinality(clear)

\* Sets of managed frames are finite and no larger than their number.
LEMMA ClearFinite ==
  ASSUME Counted
  PROVE  /\ IsFiniteSet(Frames) /\ Cardinality(Frames) = total_frames
         /\ \A S \in SUBSET Frames : IsFiniteSet(S) /\ Cardinality(S) \in 0 .. total_frames
         /\ clear \subseteq Frames
         /\ free_frames \in 0 .. total_frames
<1>1. total_frames \in Nat BY DEF Counted
<1>2. IsFiniteSet(Frames) /\ Cardinality(Frames) = total_frames
  <2>1. 0 \in Int /\ total_frames - 1 \in Int BY <1>1
  <2>2. IsFiniteSet(0 .. total_frames - 1)
        /\ Cardinality(0 .. total_frames - 1)
             = IF 0 > total_frames - 1 THEN 0 ELSE (total_frames - 1) - 0 + 1
    BY <2>1, FS_Interval
  <2>3. (IF 0 > total_frames - 1 THEN 0 ELSE (total_frames - 1) - 0 + 1) = total_frames
    BY <1>1
  <2> QED BY <2>2, <2>3 DEF Frames
<1>3. ASSUME NEW S \in SUBSET Frames
      PROVE  IsFiniteSet(S) /\ Cardinality(S) \in 0 .. total_frames
  <2>1. IsFiniteSet(S) /\ Cardinality(S) <= Cardinality(Frames) BY <1>2, FS_Subset
  <2>2. Cardinality(S) \in Nat BY <2>1, FS_CardinalityType
  <2> QED BY <1>1, <1>2, <2>1, <2>2
<1>4. clear \subseteq Frames BY DEF clear
<1> QED BY <1>2, <1>3, <1>4 DEF Counted

\* mark_used_range keeps the counter exact, its own guard included.
LEMMA MarkUsedEffect ==
  ASSUME Counted, NEW S \in SUBSET Frames, MarkUsed(S), total_frames' = total_frames
  PROVE  Counted' /\ clear' = clear \ S /\ Frames' = Frames
<1> DEFINE n == Cardinality(S \ used)
<1>1. Frames' = Frames BY DEF Frames
<1>2. used' = used \cup S BY DEF MarkUsed
<1>3. clear' = clear \ S BY <1>1, <1>2 DEF clear
<1>4. S \ used = clear \cap S BY DEF clear
<1>5. IsFiniteSet(clear) /\ IsFiniteSet(S) BY ClearFinite
<1>6. Cardinality(clear \ S) = Cardinality(clear) - Cardinality(clear \cap S)
  BY <1>5, FS_Difference
<1>7. clear \cap S \subseteq clear OBVIOUS
<1>8. n = Cardinality(clear \cap S) /\ n <= Cardinality(clear) /\ n \in Nat /\ Cardinality(clear) \in Nat
  BY <1>4, <1>5, <1>7, FS_Subset, FS_CardinalityType
<1>9. free_frames' = free_frames - n
  BY <1>8 DEF MarkUsed, Counted
<1>10. free_frames' = Cardinality(clear') BY <1>3, <1>6, <1>8, <1>9 DEF Counted
<1>11. used' \subseteq Frames' BY <1>1, <1>2 DEF Counted
<1> QED BY <1>1, <1>3, <1>10, <1>11 DEF Counted

\* mark_free_range keeps the counter exact: it counts only bits it clears.
LEMMA MarkFreeEffect ==
  ASSUME Counted, NEW S \in SUBSET Frames, MarkFree(S), total_frames' = total_frames
  PROVE  Counted' /\ clear' = clear \cup S /\ Frames' = Frames
<1> DEFINE T == S \cap used
<1>1. Frames' = Frames BY DEF Frames
<1>2. used' = used \ S BY DEF MarkFree
<1>3. clear' = clear \cup S BY <1>1, <1>2 DEF clear
<1>4. clear \cup S = clear \cup T /\ clear \cap T = {} BY DEF clear
<1>5. IsFiniteSet(clear) /\ IsFiniteSet(T) BY ClearFinite
<1> HIDE DEF T
<1>6. Cardinality(clear \cup T) = Cardinality(clear) + Cardinality(T) - Cardinality(clear \cap T)
  BY <1>5, FS_Union
<1>7. Cardinality(clear \cap T) = 0 BY <1>4, FS_EmptySet
<1>8. Cardinality(clear) \in Nat /\ Cardinality(T) \in Nat BY <1>5, FS_CardinalityType
<1>9. free_frames' = free_frames + Cardinality(T) BY DEF MarkFree, T
<1>10. free_frames' = Cardinality(clear')
  <2>1. clear' = clear \cup T BY <1>3, <1>4
  <2>2. Cardinality(clear') = Cardinality(clear) + Cardinality(T)
    BY <2>1, <1>6, <1>7, <1>8
  <2> QED BY <2>2, <1>9 DEF Counted
<1>11. used' \subseteq Frames' BY <1>1, <1>2 DEF Counted
<1> QED BY <1>1, <1>3, <1>10, <1>11 DEF Counted
-------------------------------------------------------------------------------
(* The inductive invariant: what each stage of pmm_init has established. *)

Untouched ==
  /\ stage \in {"start", "low", "kernel", "bitmap"} => i = 1
  /\ stage \in {"start", "scan"} => total_frames = 0
Unhanded == ~Settled => handed = {}

RegionEnd(k) == mmap[k].addr + mmap[k].len

Scanned ==
  stage = "scan" => \A k \in DOMAIN mmap :
    k < i /\ mmap[k].available => RegionEnd(k) <= max_end

\* With frames to manage, no region's end was cut off by the word size.
NoTruncation ==
  total_frames > 0 =>
    /\ max_end <= WordSize - FrameSize
    /\ \A k \in DOMAIN mmap : mmap[k].available => RegionEnd(k) <= max_end

PoolInRam == \A f \in clear : InRam(f)
PoolPastLow ==
  stage \in {"kernel", "bitmap", "modules", "ready", "panic"} =>
    \A f \in clear : ~Overlaps(f, 0, LowEnd)
PoolPastKernel ==
  stage \in {"bitmap", "modules", "ready", "panic"} =>
    \A f \in clear : ~Overlaps(f, KernelStart, KernelEnd)
PoolPastBitmap ==
  stage \in {"modules", "ready", "panic"} =>
    \A f \in clear : ~Overlaps(f, BitmapPhys, BitmapPhys + BitmapBytes)
PoolPastModules ==
  \A k \in DOMAIN mods :
    (stage = "modules" /\ k < i) \/ Settled =>
      \A f \in clear : ~Overlaps(f, mods[k].start, mods[k].end)

PoolInv ==
  PoolInRam /\ PoolPastLow /\ PoolPastKernel /\ PoolPastBitmap /\ PoolPastModules

IInv ==
  /\ TypeOK
  /\ FreeCountExact
  /\ ModulesInRam
  /\ Untouched
  /\ Unhanded
  /\ Scanned
  /\ NoTruncation
  /\ PoolInv
  /\ HandedUsable

\* The types of the inputs, from TypeOK.
LEMMA Typed ==
  ASSUME TypeOK, FreeCountExact
  PROVE  /\ Counted
         /\ Frames \subseteq Nat
         /\ \A k \in DOMAIN mmap : k \in Nat /\ mmap[k].addr \in Nat /\ mmap[k].len \in Nat
                                   /\ mmap[k].available \in BOOLEAN
         /\ \A k \in DOMAIN mods : /\ k \in Nat /\ mods[k].start \in Nat /\ mods[k].end \in Nat
                                   /\ mods[k].start <= mods[k].end
<1>1. total_frames \in Nat BY SizeAssumption DEF TypeOK
<1>2. Counted BY <1>1 DEF Counted, TypeOK, FreeCountExact
<1>3. Frames \subseteq Nat BY <1>1 DEF Frames
<1>4. mmap \in Seq(Region) BY InputAssumption DEF TypeOK
<1>5. mods \in Seq(Module) BY InputAssumption DEF TypeOK
<1>6. ASSUME NEW k \in DOMAIN mmap
      PROVE  k \in Nat /\ mmap[k].addr \in Nat /\ mmap[k].len \in Nat /\ mmap[k].available \in BOOLEAN
  <2>1. k \in 1 .. Len(mmap) /\ Len(mmap) \in Nat BY <1>4, <1>6
  <2>2. mmap[k] \in Region BY <1>4, <1>6
  <2> QED BY <2>1, <2>2 DEF Region
<1>7. ASSUME NEW k \in DOMAIN mods
      PROVE  k \in Nat /\ mods[k].start \in Nat /\ mods[k].end \in Nat /\ mods[k].start <= mods[k].end
  <2>1. k \in 1 .. Len(mods) /\ Len(mods) \in Nat BY <1>5, <1>7
  <2>2. mods[k] \in Module BY <1>5, <1>7
  <2> QED BY <2>1, <2>2 DEF Module
<1> QED BY <1>2, <1>3, <1>6, <1>7

\* Facts that depend only on variables the marking steps leave alone.
LEMMA SameInputs ==
  ASSUME UNCHANGED boot, total_frames' = total_frames
  PROVE  /\ Frames' = Frames
         /\ BitmapBytes' = BitmapBytes
         /\ ModulesInRam' <=> ModulesInRam
         /\ \A f \in Nat : InRam(f)' <=> InRam(f)
         /\ \A f \in Nat : Critical(f)' <=> Critical(f)
<1> QED BY DEF boot, Frames, BitmapBytes, ModulesInRam, InRam, Critical, Overlaps, BitmapPhys

\* A step that marks a range used, starting from the invariant.
LEMMA MarkUsedStep ==
  ASSUME IInv, NEW S \in SUBSET Frames, MarkUsed(S),
         UNCHANGED <<boot, max_end, total_frames, handed>>,
         i' \in Nat \ {0}, stage' \in Stages \ {"start", "scan"},
         stage' \in {"low", "kernel", "bitmap"} => i' = 1,
         ~Settled, ~Settled' \/ handed = {}
  PROVE  /\ TypeOK' /\ FreeCountExact' /\ ModulesInRam' /\ Untouched' /\ Unhanded'
         /\ Scanned' /\ NoTruncation' /\ PoolInRam' /\ HandedUsable'
         /\ clear' = clear \ S
<1>1. Counted /\ Frames \subseteq Nat BY Typed DEF IInv
<1>2. Counted' /\ clear' = clear \ S /\ Frames' = Frames BY <1>1, MarkUsedEffect
<1>3. FreeCountExact' BY <1>2 DEF Counted, FreeCountExact
<1>4. free_frames' \in 0 .. total_frames'
  <2>1. clear' \subseteq Frames' /\ IsFiniteSet(Frames) /\ Cardinality(Frames) = total_frames
    BY <1>1, <1>2, ClearFinite DEF clear
  <2>2. Cardinality(clear') <= total_frames /\ IsFiniteSet(clear') BY <1>2, <2>1, FS_Subset
  <2>3. Cardinality(clear') \in Nat BY <2>2, FS_CardinalityType
  <2> QED BY <1>1, <1>2, <2>2, <2>3 DEF Counted
<1>5. handed = {} BY DEF IInv, Unhanded
<1>6. TypeOK'
  <2>1. used' \subseteq Frames' BY <1>2 DEF Counted
  <2> QED BY <1>4, <1>5, <2>1 DEF IInv, TypeOK, boot
<1>7. ModulesInRam' BY SameInputs DEF IInv
<1>8. Untouched' /\ Scanned' BY DEF Untouched, Scanned
<1>9. Unhanded' BY <1>5 DEF Unhanded
<1>10. NoTruncation' BY DEF IInv, NoTruncation, RegionEnd, boot
<1>11. PoolInRam'
  <2>1. clear' \subseteq clear /\ clear \subseteq Nat BY <1>1, <1>2 DEF clear
  <2> QED BY <2>1, SameInputs DEF IInv, PoolInv, PoolInRam
<1>12. HandedUsable' BY <1>5 DEF HandedUsable
<1> QED BY <1>2, <1>3, <1>6, <1>7, <1>8, <1>9, <1>10, <1>11, <1>12
-------------------------------------------------------------------------------
(* The stages of pmm_init, one lemma each. *)

\* The invariant holds when the boot loader enters the kernel.
LEMMA InitInv == Init => IInv
<1> SUFFICES ASSUME Init PROVE IInv OBVIOUS
<1>1. Frames = {} /\ clear = {} BY DEF Init, Frames, clear
<1>2. FreeCountExact BY <1>1, FS_EmptySet DEF Init, FreeCountExact
<1>3. TypeOK BY SizeAssumption, <1>1 DEF Init, TypeOK, Stages
<1>4. PoolInv
  BY <1>1 DEF PoolInv, PoolInRam, PoolPastLow, PoolPastKernel, PoolPastBitmap, PoolPastModules
<1>5. Untouched /\ Unhanded /\ Scanned /\ NoTruncation /\ HandedUsable /\ ModulesInRam
  BY DEF Init, Untouched, Unhanded, Scanned, NoTruncation, HandedUsable
<1> QED BY <1>2, <1>3, <1>4, <1>5 DEF IInv

\* Before the bitmap exists the pool is empty and stays so.
LEMMA EarlyStep ==
  ASSUME IInv, stage \in {"start", "scan"},
         UNCHANGED <<boot, total_frames, used, free_frames, handed>>,
         i' \in Nat \ {0}, max_end' \in Nat, stage' \in Stages, Scanned',
         stage' \in {"scan", "panic"}
  PROVE  IInv'
<1>1. total_frames = 0 /\ total_frames' = 0 BY DEF IInv, Untouched
<1>2. Frames' = Frames /\ clear' = clear /\ clear = {} BY <1>1 DEF Frames, clear
<1>3. TypeOK' BY <1>2 DEF IInv, TypeOK, boot
<1>4. FreeCountExact' BY <1>2 DEF IInv, FreeCountExact
<1>5. ModulesInRam' BY SameInputs DEF IInv
<1>6. handed = {} BY DEF IInv, Unhanded, Settled
<1>7. Untouched' /\ Unhanded' /\ NoTruncation' /\ HandedUsable'
  BY <1>1, <1>6 DEF Untouched, Unhanded, NoTruncation, HandedUsable
<1>8. PoolInv'
  BY <1>2 DEF PoolInv, PoolInRam, PoolPastLow, PoolPastKernel, PoolPastBitmap, PoolPastModules
<1> QED BY <1>3, <1>4, <1>5, <1>7, <1>8 DEF IInv

\* Entering detect_max_phys, or the panic without a memory map.
LEMMA StartInv ==
  ASSUME IInv, NoMmap \/ StartScan
  PROVE  IInv'
<1>1. stage \in {"start", "scan"} /\ stage' \in Stages /\ stage' \in {"scan", "panic"}
  BY DEF NoMmap, StartScan, Stages
<1>2. UNCHANGED <<boot, total_frames, used, free_frames, handed>>
  BY DEF NoMmap, StartScan
<1>3. i' \in Nat \ {0} /\ max_end' \in Nat BY DEF NoMmap, StartScan, IInv, TypeOK
<1>4. Scanned'
  <2>1. SUFFICES ASSUME NEW k \in DOMAIN mmap, k < 1 PROVE FALSE
    BY DEF NoMmap, StartScan, IInv, Untouched, Scanned, boot
  <2>2. mmap \in Seq(Region) BY InputAssumption DEF IInv, TypeOK
  <2>3. k \in 1 .. Len(mmap) /\ Len(mmap) \in Nat BY <2>2
  <2> QED BY <2>1, <2>3
<1> QED BY <1>1, <1>2, <1>3, <1>4, EarlyStep

\* An iteration of detect_max_phys raises the maximum over its region.
LEMMA ScanInv ==
  ASSUME IInv, ScanRegion
  PROVE  IInv'
<1> DEFINE e == mmap[i].addr + mmap[i].len
<1>0. i \in DOMAIN mmap /\ e \in Nat /\ max_end \in Nat BY Typed DEF ScanRegion, IInv, TypeOK
<1>1. stage \in {"start", "scan"} /\ stage' = "scan" /\ stage' \in Stages
  BY DEF ScanRegion, Stages
<1>2. UNCHANGED <<boot, total_frames, used, free_frames, handed>> BY DEF ScanRegion
<1>3. max_end' = (IF mmap[i].available /\ e > max_end THEN e ELSE max_end)
  BY DEF ScanRegion
<1>4. i' = i + 1 /\ i \in Nat \ {0} BY DEF ScanRegion, IInv, TypeOK
<1>5. max_end' \in Nat /\ max_end <= max_end' /\ (mmap[i].available => e <= max_end')
  BY <1>0, <1>3
<1>6. Scanned'
  <2>1. SUFFICES ASSUME NEW k \in DOMAIN mmap, k < i + 1, mmap[k].available
                 PROVE  RegionEnd(k) <= max_end'
    BY <1>2, <1>4 DEF Scanned, RegionEnd, boot
  <2>2. k \in Nat /\ RegionEnd(k) \in Nat BY Typed DEF IInv, RegionEnd
  <2>3. CASE k = i BY <1>5, <2>1, <2>3 DEF RegionEnd
  <2>4. CASE k < i
    <3>1. RegionEnd(k) <= max_end BY <1>1, <2>1, <2>4 DEF IInv, Scanned, ScanRegion
    <3> QED BY <1>0, <1>5, <2>2, <3>1
  <2> QED BY <1>4, <2>1, <2>2, <2>3, <2>4
<1> QED BY <1>1, <1>2, <1>4, <1>5, <1>6, EarlyStep

\* If total_frames > 0 then rounding the clamped end up did not wrap.
LEMMA SizeInv ==
  ASSUME IInv, SizeBitmap
  PROVE  IInv'
<1>0. FrameSize \in Nat \ {0, 1} /\ WordFrames \in Nat \ {0} /\ WordSize \in Nat \ {0}
      /\ WordSize = WordFrames * FrameSize
  BY SizeAssumption, WordPositive
<1>1. max_end \in Nat BY DEF IInv, TypeOK
<1>2. MaxPhys \in 0 .. WordSize - 1 BY <1>0, <1>1 DEF MaxPhys
<1>3. total_frames' = FrameUp(MaxPhys) /\ total_frames' \in 0 .. WordFrames
  <2>1. FrameUp(MaxPhys) \in 0 .. WordFrames - 1 BY <1>0, <1>2, FrameUpType
  <2> QED BY <1>0, <2>1 DEF SizeBitmap
<1>4. used' = Frames' /\ clear' = {} BY DEF SizeBitmap, Frames, clear
<1>5. handed = {} /\ handed' = {} BY DEF IInv, Unhanded, Settled, SizeBitmap
<1>6. stage' = "regions" /\ i' = 1 /\ free_frames' = 0 /\ max_end' = max_end /\ UNCHANGED boot
  BY DEF SizeBitmap
<1>7. TypeOK' BY <1>3, <1>4, <1>5, <1>6 DEF IInv, TypeOK, Stages, boot
<1>8. FreeCountExact' BY <1>4, <1>6, FS_EmptySet DEF FreeCountExact
<1>9. ModulesInRam' BY <1>6 DEF IInv, ModulesInRam, boot
<1>10. Untouched' /\ Unhanded' /\ Scanned' /\ HandedUsable'
  BY <1>5, <1>6 DEF Untouched, Unhanded, Scanned, HandedUsable
<1>11. ASSUME total_frames' > 0 PROVE max_end <= WordSize - FrameSize
  <2>1. SUFFICES ASSUME max_end > WordSize - FrameSize PROVE FALSE BY <1>0, <1>1
  <2> DEFINE z == MaxPhys + FrameSize - 1
  <2>2. MaxPhys > WordSize - FrameSize BY <1>0, <1>1, <2>1 DEF MaxPhys
  <2>3. z \in Nat /\ z >= WordSize /\ z < WordSize + FrameSize /\ z - WordSize < FrameSize
    BY <1>0, <1>2, <2>2
  <2>a. FrameSize <= WordSize
    <3>1. 1 * FrameSize <= WordFrames * FrameSize BY <1>0, MulMono
    <3> QED BY <1>0, <3>1
  <2>b. FrameUp(MaxPhys) = (z % WordSize) \div FrameSize BY DEF FrameUp
  <2> HIDE DEF z
  <2>4. z % WordSize = z - WordSize
    <3>1. z - WordSize \in 0 .. WordSize - 1 BY <1>0, <2>3, <2>a
    <3> QED BY <1>0, <2>3, <3>1
  <2>5. z - WordSize \in 0 .. FrameSize - 1 BY <1>0, <2>3
  <2>6. (z - WordSize) \div FrameSize = 0 BY <1>0, <2>5
  <2> QED BY <1>3, <1>11, <2>4, <2>6, <2>b
<1>12. NoTruncation'
  <2>1. SUFFICES ASSUME total_frames' > 0
                 PROVE  /\ max_end <= WordSize - FrameSize
                        /\ \A k \in DOMAIN mmap : mmap[k].available => RegionEnd(k) <= max_end
    BY <1>6 DEF NoTruncation, RegionEnd, boot
  <2>2. \A k \in DOMAIN mmap : k < i
    <3>1. mmap \in Seq(Region) BY InputAssumption DEF IInv, TypeOK
    <3>2. DOMAIN mmap = 1 .. Len(mmap) /\ Len(mmap) \in Nat BY <3>1
    <3>3. i \in Nat \ {0} /\ i \notin DOMAIN mmap BY DEF IInv, TypeOK, SizeBitmap
    <3> QED BY <3>2, <3>3
  <2>3. \A k \in DOMAIN mmap : mmap[k].available => RegionEnd(k) <= max_end
    BY <2>2 DEF IInv, Scanned, SizeBitmap
  <2> QED BY <1>11, <2>1, <2>3
<1>13. PoolInv'
  BY <1>4 DEF PoolInv, PoolInRam, PoolPastLow, PoolPastKernel, PoolPastBitmap, PoolPastModules
<1> QED BY <1>7, <1>8, <1>9, <1>10, <1>12, <1>13 DEF IInv

\* An iteration of the freeing loop adds only whole RAM to the pool.
LEMMA FreeRegionInv ==
  ASSUME IInv, FreeRegion
  PROVE  IInv'
<1> DEFINE S == FreeRange(mmap[i].addr, mmap[i].len)
<1>0. /\ stage = "regions" /\ stage' = "regions" /\ i \in DOMAIN mmap /\ i' = i + 1
      /\ UNCHANGED <<boot, max_end, total_frames, handed>>
  BY DEF FreeRegion
<1>1. Counted /\ Frames \subseteq Nat /\ handed = {} BY Typed DEF IInv, Unhanded, Settled, FreeRegion
<1>2. S \in SUBSET Frames BY DEF FreeRange
<1>3. \A f \in S : mmap[i].available => InRam(f)
  <2>1. SUFFICES ASSUME NEW f \in S, mmap[i].available PROVE InRam(f) OBVIOUS
  <2>2. f \in Nat /\ total_frames > 0 BY <1>1, <1>2 DEF Frames, Counted
  <2>3. RegionEnd(i) <= max_end /\ max_end <= WordSize - FrameSize
    BY <1>0, <2>1, <2>2 DEF IInv, NoTruncation
  <2>4. mmap[i].addr \in Nat /\ mmap[i].len \in Nat BY <1>0, Typed DEF IInv
  <2>5. RegionEnd(i) <= WordSize - FrameSize
    BY <2>3, <2>4, SizeAssumption, WordPositive DEF RegionEnd, IInv, TypeOK
  <2> QED BY <1>0, <2>1, <2>2, <2>4, <2>5, FreeRangeInside DEF InRam, RegionEnd
<1> HIDE DEF S
<1>4. Counted' /\ clear' \subseteq Frames /\ (\A f \in clear' : InRam(f)) /\ Frames' = Frames
  <2>1. clear \subseteq Frames /\ \A f \in clear : InRam(f)
    BY DEF IInv, PoolInv, PoolInRam, clear
  <2>2. CASE mmap[i].available
    <3>1. MarkFree(S) BY <2>2 DEF FreeRegion, S
    <3>2. Counted' /\ clear' = clear \cup S /\ Frames' = Frames
      BY <1>0, <1>1, <1>2, <3>1, MarkFreeEffect
    <3> QED BY <1>2, <1>3, <2>1, <2>2, <3>2
  <2>3. CASE ~mmap[i].available
    <3>1. UNCHANGED <<used, free_frames, total_frames>> BY <2>3 DEF FreeRegion
    <3> QED BY <1>1, <2>1, <3>1 DEF Counted, clear, Frames
  <2> QED BY <2>2, <2>3
<1>5. TypeOK'
  <2>1. free_frames' \in 0 .. total_frames' /\ used' \subseteq Frames'
    <3>1. IsFiniteSet(Frames) /\ Cardinality(Frames) = total_frames BY <1>1, ClearFinite
    <3>2. IsFiniteSet(clear') /\ Cardinality(clear') <= total_frames BY <1>4, <3>1, FS_Subset
    <3>3. Cardinality(clear') \in Nat BY <3>2, FS_CardinalityType
    <3> QED BY <1>0, <1>1, <1>4, <3>2, <3>3 DEF Counted
  <2> QED BY <1>0, <1>1, <2>1 DEF IInv, TypeOK, boot
<1>6. FreeCountExact' BY <1>4 DEF Counted, FreeCountExact
<1>7. ModulesInRam' BY <1>0, SameInputs DEF IInv
<1>8. Untouched' /\ Unhanded' /\ Scanned' /\ NoTruncation' /\ HandedUsable'
  BY <1>0, <1>1
  DEF IInv, Untouched, Unhanded, Scanned, NoTruncation, HandedUsable, RegionEnd, boot
<1>9. PoolInv'
  <2>1. PoolInRam'
    BY <1>0, <1>1, <1>4, SameInputs DEF PoolInRam
  <2> QED
    BY <1>0, <2>1
    DEF PoolInv, PoolPastLow, PoolPastKernel, PoolPastBitmap, PoolPastModules, Settled
<1> QED BY <1>5, <1>6, <1>7, <1>8, <1>9 DEF IInv

\* The ends of the two loops of pmm_init change no frame.
LEMMA LoopEndInv ==
  ASSUME IInv, RegionsDone \/ ModulesDone
  PROVE  IInv'
<1>0. UNCHANGED <<boot, max_end, total_frames, used, free_frames, handed>>
  BY DEF RegionsDone, ModulesDone
<1>1. Frames' = Frames /\ clear' = clear BY <1>0 DEF Frames, clear
<1>2. TypeOK' BY <1>0, <1>1 DEF IInv, TypeOK, RegionsDone, ModulesDone, Stages, boot
<1>3. FreeCountExact' BY <1>0, <1>1 DEF IInv, FreeCountExact
<1>4. ModulesInRam' BY <1>0, SameInputs DEF IInv
<1>5. handed = {} BY DEF IInv, Unhanded, Settled, RegionsDone, ModulesDone
<1>6. Untouched' /\ Unhanded' /\ Scanned' /\ NoTruncation' /\ HandedUsable'
  BY <1>0, <1>5
  DEF IInv, Untouched, Unhanded, Scanned, NoTruncation, HandedUsable, RegionEnd, boot,
      RegionsDone, ModulesDone
<1>7. PoolInRam'
  <2>1. clear \subseteq Nat BY Typed DEF IInv, clear
  <2> QED BY <1>0, <1>1, <2>1, SameInputs DEF IInv, PoolInv, PoolInRam
<1>8. BitmapBytes' = BitmapBytes /\ BitmapPhys' = BitmapPhys
  BY <1>0, SameInputs DEF BitmapPhys
<1>9. CASE RegionsDone
  <2>1. PoolInv'
    BY <1>7, <1>9
    DEF PoolInv, PoolPastLow, PoolPastKernel, PoolPastBitmap, PoolPastModules, RegionsDone, Settled
  <2> QED BY <1>2, <1>3, <1>4, <1>6, <2>1 DEF IInv
<1>10. CASE ModulesDone
  <2>1. stage = "modules" /\ stage' = "ready" /\ i \notin DOMAIN mods /\ mods' = mods
    BY <1>10 DEF ModulesDone, boot
  <2>2. \A k \in DOMAIN mods : k < i
    <3>1. mods \in Seq(Module) BY InputAssumption DEF IInv, TypeOK
    <3>2. DOMAIN mods = 1 .. Len(mods) /\ Len(mods) \in Nat BY <3>1
    <3>3. i \in Nat \ {0} BY DEF IInv, TypeOK
    <3> QED BY <2>1, <3>2, <3>3
  <2>3. PoolPastLow' /\ PoolPastKernel'
    BY <1>1, <2>1 DEF IInv, PoolInv, PoolPastLow, PoolPastKernel, Overlaps
  <2>4. PoolPastBitmap'
    BY <1>1, <1>8, <2>1 DEF IInv, PoolInv, PoolPastBitmap, Overlaps
  <2>5. PoolPastModules'
    BY <1>1, <2>1, <2>2 DEF IInv, PoolInv, PoolPastModules, Overlaps
  <2>6. PoolInv' BY <1>7, <2>3, <2>4, <2>5 DEF PoolInv
  <2> QED BY <1>2, <1>3, <1>4, <1>6, <2>6 DEF IInv
<1> QED BY <1>9, <1>10

\* The four marking steps: each takes the range it covers out of the pool and
\* keeps out what was already out.
LEMMA MarkRangeInv ==
  ASSUME IInv, NEW addr \in Nat, NEW len \in Nat, MarkUsed(UsedRange(addr, len)),
         addr + len <= WordSize - FrameSize \/ total_frames = 0,
         UNCHANGED <<boot, max_end, total_frames, handed>>,
         ~Settled, ~Settled', i' \in Nat \ {0}, stage' \in Stages \ {"start", "scan"},
         stage' \in {"low", "kernel", "bitmap"} => i' = 1
  PROVE  /\ TypeOK' /\ FreeCountExact' /\ ModulesInRam' /\ Untouched' /\ Unhanded'
         /\ Scanned' /\ NoTruncation' /\ PoolInRam' /\ HandedUsable'
         /\ clear' \subseteq clear
         /\ \A f \in clear' : ~Overlaps(f, addr, addr + len)
         /\ BitmapBytes' = BitmapBytes
<1> DEFINE S == UsedRange(addr, len)
<1>1. S \in SUBSET Frames BY DEF UsedRange
<1>2. /\ TypeOK' /\ FreeCountExact' /\ ModulesInRam' /\ Untouched' /\ Unhanded'
      /\ Scanned' /\ NoTruncation' /\ PoolInRam' /\ HandedUsable'
      /\ clear' = clear \ S
  BY <1>1, MarkUsedStep
<1>3. ASSUME NEW f \in clear' PROVE ~Overlaps(f, addr, addr + len)
  <2>1. f \in Frames /\ f \in Nat /\ f \notin S BY <1>2, Typed DEF IInv, clear
  <2>2. total_frames # 0 BY <2>1 DEF Frames
  <2> QED BY <2>1, <2>2, UsedRangeCovers
<1>4. BitmapBytes' = BitmapBytes BY SameInputs
<1> QED BY <1>2, <1>3, <1>4

\* Each marking step establishes its own part of the invariant.
LEMMA MarkInv ==
  ASSUME IInv, MarkLow \/ MarkKernel \/ MarkBitmap \/ MarkModule
  PROVE  IInv'
<1>0. /\ UNCHANGED <<boot, max_end, total_frames, handed>>
      /\ ~Settled /\ ~Settled'
      /\ i' \in Nat \ {0}
      /\ stage' \in Stages \ {"start", "scan"} 
      /\ stage' \in {"low", "kernel", "bitmap"} => i' = 1
  BY DEF MarkLow, MarkKernel, MarkBitmap, MarkModule, Settled, Stages, IInv, TypeOK, Untouched
<1>1. WordSize - FrameSize \in Int /\ total_frames \in Nat
  BY SizeAssumption, WordPositive DEF IInv, TypeOK
<1>2. BitmapPhys' = BitmapPhys /\ mods' = mods BY <1>0 DEF BitmapPhys, boot
<1>3. CASE MarkLow
  <2>1. 0 \in Nat /\ LowEnd \in Nat /\ 0 + LowEnd = LowEnd /\ LowEnd <= WordSize - FrameSize
    BY SizeAssumption, LayoutAssumption
  <2>2. /\ TypeOK' /\ FreeCountExact' /\ ModulesInRam' /\ Untouched' /\ Unhanded'
        /\ Scanned' /\ NoTruncation' /\ PoolInRam' /\ HandedUsable'
        /\ \A f \in clear' : ~Overlaps(f, 0, LowEnd)
    BY <1>0, <1>3, <2>1, MarkRangeInv DEF MarkLow
  <2>3. PoolInv'
    BY <1>3, <2>2
    DEF PoolInv, PoolPastLow, PoolPastKernel, PoolPastBitmap, PoolPastModules, Overlaps, MarkLow, Settled
  <2> QED BY <2>2, <2>3 DEF IInv
<1>4. CASE MarkKernel
  <2> DEFINE len == KernelEnd - KernelStart
  <2>1. /\ KernelStart \in Nat /\ len \in Nat /\ KernelStart + len = KernelEnd
        /\ KernelStart + len <= WordSize - FrameSize
    BY <1>1, SizeAssumption, LayoutAssumption
  <2>2. MarkUsed(UsedRange(KernelStart, len)) BY <1>4 DEF MarkKernel
  <2> HIDE DEF len
  <2>3. /\ TypeOK' /\ FreeCountExact' /\ ModulesInRam' /\ Untouched' /\ Unhanded'
        /\ Scanned' /\ NoTruncation' /\ PoolInRam' /\ HandedUsable'
        /\ clear' \subseteq clear
        /\ \A f \in clear' : ~Overlaps(f, KernelStart, KernelStart + len)
    BY <1>0, <2>1, <2>2, MarkRangeInv
  <2>4. PoolInv'
    BY <1>4, <2>1, <2>3
    DEF IInv, PoolInv, PoolPastLow, PoolPastKernel, PoolPastBitmap, PoolPastModules, Overlaps, MarkKernel, Settled
  <2> QED BY <2>3, <2>4 DEF IInv
<1>5. CASE MarkBitmap
  <2>1. /\ BitmapPhys \in Nat /\ BitmapBytes \in Nat
        /\ BitmapPhys + BitmapBytes <= WordSize - FrameSize
    BY BitmapEnd DEF IInv, TypeOK
  <2>2. MarkUsed(UsedRange(BitmapPhys, BitmapBytes)) BY <1>5 DEF MarkBitmap
  <2>3. /\ TypeOK' /\ FreeCountExact' /\ ModulesInRam' /\ Untouched' /\ Unhanded'
        /\ Scanned' /\ NoTruncation' /\ PoolInRam' /\ HandedUsable'
        /\ clear' \subseteq clear /\ BitmapBytes' = BitmapBytes
        /\ \A f \in clear' : ~Overlaps(f, BitmapPhys, BitmapPhys + BitmapBytes)
    BY <1>0, <2>1, <2>2, MarkRangeInv
  <2>4. PoolPastLow' /\ PoolPastKernel'
    BY <1>5, <2>3 DEF IInv, PoolInv, PoolPastLow, PoolPastKernel, Overlaps, MarkBitmap
  <2>5. PoolPastBitmap' BY <1>2, <2>3 DEF PoolPastBitmap, Overlaps
  <2>6. PoolPastModules'
    <3>1. i = 1 BY <1>5 DEF IInv, Untouched, MarkBitmap
    <3>2. \A k \in DOMAIN mods : ~(k < 1)
      <4>1. mods \in Seq(Module) BY InputAssumption DEF IInv, TypeOK
      <4>2. DOMAIN mods = 1 .. Len(mods) /\ Len(mods) \in Nat BY <4>1
      <4> QED BY <4>2
    <3> QED BY <1>0, <1>2, <1>5, <3>1, <3>2 DEF PoolPastModules, MarkBitmap
  <2>7. PoolInv' BY <2>3, <2>4, <2>5, <2>6 DEF PoolInv
  <2> QED BY <2>3, <2>7 DEF IInv
<1>6. CASE MarkModule
  <2> DEFINE lo == mods[i].start
  <2> DEFINE len == mods[i].end - mods[i].start
  <2>0. i \in DOMAIN mods /\ stage = "modules" /\ stage' = "modules" /\ i' = i + 1
    BY <1>6 DEF MarkModule
  <2>1. lo \in Nat /\ len \in Nat /\ lo + len = mods[i].end BY <2>0, Typed DEF IInv
  <2>2. MarkUsed(UsedRange(lo, len)) BY <1>6 DEF MarkModule
  <2>3. lo + len <= WordSize - FrameSize \/ total_frames = 0
    <3>1. SUFFICES ASSUME total_frames > 0 PROVE lo + len <= WordSize - FrameSize BY <1>1
    <3>2. PICK j \in DOMAIN mmap : mmap[j].available /\ mods[i].end <= RegionEnd(j)
      BY <2>0 DEF IInv, ModulesInRam, RegionEnd
    <3>3. RegionEnd(j) <= max_end /\ max_end <= WordSize - FrameSize
      BY <3>1, <3>2 DEF IInv, NoTruncation
    <3>4. RegionEnd(j) \in Nat /\ max_end \in Nat BY Typed DEF IInv, TypeOK, RegionEnd
    <3> QED BY <1>1, <2>1, <3>2, <3>3, <3>4
  <2> HIDE DEF lo, len
  <2>4. /\ TypeOK' /\ FreeCountExact' /\ ModulesInRam' /\ Untouched' /\ Unhanded'
        /\ Scanned' /\ NoTruncation' /\ PoolInRam' /\ HandedUsable'
        /\ clear' \subseteq clear /\ BitmapBytes' = BitmapBytes
        /\ \A f \in clear' : ~Overlaps(f, lo, lo + len)
    BY <1>0, <2>1, <2>2, <2>3, MarkRangeInv
  <2>5. PoolPastLow' /\ PoolPastKernel'
    BY <2>0, <2>4 DEF IInv, PoolInv, PoolPastLow, PoolPastKernel, Overlaps
  <2>6. PoolPastBitmap'
    BY <1>2, <2>0, <2>4 DEF IInv, PoolInv, PoolPastBitmap, Overlaps
  <2>7. PoolPastModules'
    <3>1. SUFFICES ASSUME NEW k \in DOMAIN mods, k < i + 1, NEW f \in clear'
                   PROVE  ~Overlaps(f, mods[k].start, mods[k].end)
      BY <1>0, <1>2, <2>0 DEF PoolPastModules, Overlaps
    <3>2. k \in Nat /\ i \in Nat BY Typed DEF IInv, TypeOK
    <3>3. CASE k = i BY <2>1, <2>4, <3>3 DEF lo
    <3>4. CASE k < i BY <2>0, <2>4, <3>4 DEF IInv, PoolInv, PoolPastModules
    <3> QED BY <3>1, <3>2, <3>3, <3>4
  <2>8. PoolInv' BY <2>4, <2>5, <2>6, <2>7 DEF PoolInv
  <2> QED BY <2>4, <2>8 DEF IInv
<1> QED BY <1>3, <1>4, <1>5, <1>6
-------------------------------------------------------------------------------
(* After boot: allocation and freeing. *)

\* pmm_alloc_frame and pmm_free_frame are the marking of a one-frame range.
LEMMA AllocMarks ==
  ASSUME IInv, AllocFrame
  PROVE  \E f \in clear :
           /\ clear' = clear \ {f}
           /\ handed' = handed \cup {f}
           /\ used' = used \cup {f}
           /\ Counted'
           /\ stage = "ready"
           /\ UNCHANGED <<boot, stage, i, max_end, total_frames>>
<1>1. PICK f \in clear : /\ used' = used \cup {f}
                         /\ free_frames' = IF free_frames > 0 THEN free_frames - 1 ELSE 0
                         /\ handed' = handed \cup {f}
  BY DEF AllocFrame
<1>2. stage = "ready" /\ UNCHANGED <<boot, stage, i, max_end, total_frames>> BY DEF AllocFrame
<1>3. Counted /\ f \in Frames /\ f \notin used BY Typed DEF IInv, clear
<1>4. {f} \ used = {f} /\ Cardinality({f}) = 1 BY <1>3, FS_Singleton
<1>5. free_frames \in Nat BY <1>3, ClearFinite DEF Counted
<1>6. MarkUsed({f}) BY <1>1, <1>4, <1>5 DEF MarkUsed
<1>7. Counted' /\ clear' = clear \ {f} BY <1>2, <1>3, <1>6, MarkUsedEffect
<1> QED BY <1>1, <1>2, <1>7

\* ... and pmm_free_frame the freeing of one.
LEMMA FreeMarks ==
  ASSUME IInv, NEW paddr \in Word, FreeFrame(paddr)
  PROVE  \E f \in handed :
           /\ f \in Frames
           /\ clear' = clear \cup {f}
           /\ handed' = handed \ {f}
           /\ used' = used \ {f}
           /\ Counted'
           /\ stage = "ready"
           /\ UNCHANGED <<boot, stage, i, max_end, total_frames>>
<1> DEFINE f == FrameDown(paddr)
<1>1. /\ f \in handed /\ f \in used /\ used' = used \ {f} /\ free_frames' = free_frames + 1
      /\ handed' = handed \ {f}
      /\ stage = "ready" /\ UNCHANGED <<boot, stage, i, max_end, total_frames>>
  BY DEF FreeFrame
<1> HIDE DEF f
<1>2. Counted /\ f \in Frames BY <1>1, Typed DEF IInv, Counted
<1>3. {f} \cap used = {f} /\ Cardinality({f}) = 1 BY <1>1, FS_Singleton
<1>4. MarkFree({f}) BY <1>1, <1>3 DEF MarkFree
<1>5. Counted' /\ clear' = clear \cup {f} BY <1>1, <1>2, <1>4, MarkFreeEffect
<1> QED BY <1>1, <1>2, <1>5

\* Allocation, freeing and its panics keep the invariant.
LEMMA RuntimeInv ==
  ASSUME IInv, AllocFrame \/ (\E paddr \in Word : FreeFrame(paddr) \/ FreePanics(paddr))
  PROVE  IInv'
<1>1. /\ stage = "ready" /\ stage' \in {"ready", "panic"}
      /\ UNCHANGED <<boot, i, max_end, total_frames>>
  BY DEF AllocFrame, FreeFrame, FreePanics
<1>2. Frames' = Frames /\ Frames \subseteq Nat /\ Counted
  BY <1>1, Typed DEF Frames, IInv
<1>3. /\ Counted'
      /\ handed' \subseteq used'
      /\ \A f \in clear' \cup handed' : f \in clear \cup handed
  <2>1. handed \subseteq used BY DEF IInv, TypeOK
  <2>2. CASE AllocFrame BY <2>1, <2>2, AllocMarks
  <2>3. ASSUME NEW paddr \in Word, FreeFrame(paddr)
        PROVE  /\ Counted'
               /\ handed' \subseteq used'
               /\ \A f \in clear' \cup handed' : f \in clear \cup handed
    BY <2>1, <2>3, FreeMarks
  <2>4. ASSUME NEW paddr \in Word, FreePanics(paddr)
        PROVE  /\ Counted'
               /\ handed' \subseteq used'
               /\ \A f \in clear' \cup handed' : f \in clear \cup handed
    BY <1>2, <2>1, <2>4 DEF FreePanics, Counted, clear, Frames
  <2> QED BY <2>2, <2>3, <2>4
<1>4. \A f \in clear \cup handed : f \in Nat /\ InRam(f) /\ ~Critical(f)
  <2>1. ASSUME NEW f \in clear PROVE f \in Nat /\ InRam(f) /\ ~Critical(f)
    <3>1. f \in Nat /\ InRam(f) BY <1>2, <2>1 DEF clear, IInv, PoolInv, PoolInRam
    <3>2. /\ ~Overlaps(f, 0, LowEnd)
          /\ ~Overlaps(f, KernelStart, KernelEnd)
          /\ ~Overlaps(f, BitmapPhys, BitmapPhys + BitmapBytes)
          /\ \A k \in DOMAIN mods : ~Overlaps(f, mods[k].start, mods[k].end)
      BY <1>1, <2>1
      DEF IInv, PoolInv, PoolPastLow, PoolPastKernel, PoolPastBitmap, PoolPastModules, Settled
    <3> QED BY <3>1, <3>2 DEF Critical
  <2>2. ASSUME NEW f \in handed PROVE f \in Nat /\ InRam(f) /\ ~Critical(f)
    BY <1>2, <2>2 DEF IInv, HandedUsable, TypeOK
  <2> QED BY <2>1, <2>2
<1>5. \A f \in clear' \cup handed' : (InRam(f) /\ ~Critical(f))'
  BY <1>1, <1>3, <1>4, SameInputs
<1>6. TypeOK'
  <2>1. free_frames' \in 0 .. total_frames'
    <3>1. IsFiniteSet(Frames) /\ Cardinality(Frames) = total_frames BY <1>2, ClearFinite
    <3>2. clear' \subseteq Frames BY <1>2 DEF clear
    <3>3. IsFiniteSet(clear') /\ Cardinality(clear') <= total_frames BY <3>1, <3>2, FS_Subset
    <3>4. Cardinality(clear') \in Nat BY <3>3, FS_CardinalityType
    <3> QED BY <1>1, <1>2, <1>3, <3>3, <3>4 DEF Counted
  <2>2. used' \subseteq Frames' BY <1>3 DEF Counted
  <2> QED BY <1>1, <1>3, <2>1, <2>2 DEF IInv, TypeOK, Stages, boot
<1>7. FreeCountExact' BY <1>3 DEF Counted, FreeCountExact
<1>8. ModulesInRam' BY <1>1, SameInputs DEF IInv
<1>9. Untouched' /\ Unhanded' /\ Scanned' /\ NoTruncation'
  BY <1>1 DEF IInv, Untouched, Unhanded, Scanned, NoTruncation, RegionEnd, boot, Settled
<1>10. HandedUsable' BY <1>5 DEF HandedUsable
<1>11. PoolInv'
  BY <1>5 DEF PoolInv, PoolInRam, PoolPastLow, PoolPastKernel, PoolPastBitmap, PoolPastModules, Critical
<1> QED BY <1>6, <1>7, <1>8, <1>9, <1>10, <1>11 DEF IInv

\* Every step keeps the invariant.
LEMMA StepInv == IInv /\ [Next]_vars => IInv'
<1> SUFFICES ASSUME IInv, [Next]_vars PROVE IInv' OBVIOUS
<1>1. CASE UNCHANGED vars
  BY <1>1
  DEF vars, IInv, TypeOK, FreeCountExact, ModulesInRam, Untouched, Unhanded, Scanned,
      NoTruncation, PoolInv, HandedUsable, PoolInRam, PoolPastLow, PoolPastKernel,
      PoolPastBitmap, PoolPastModules, Frames, clear, InRam, Critical, Overlaps, Settled,
      RegionEnd, BitmapBytes, BitmapPhys
<1>2. CASE NoMmap \/ StartScan BY <1>2, StartInv
<1>3. CASE ScanRegion BY <1>3, ScanInv
<1>4. CASE SizeBitmap BY <1>4, SizeInv
<1>5. CASE FreeRegion BY <1>5, FreeRegionInv
<1>6. CASE RegionsDone \/ ModulesDone BY <1>6, LoopEndInv
<1>7. CASE MarkLow \/ MarkKernel \/ MarkBitmap \/ MarkModule BY <1>7, MarkInv
<1>8. CASE AllocFrame \/ (\E paddr \in Word : FreeFrame(paddr) \/ FreePanics(paddr))
  BY <1>8, RuntimeInv
<1> QED BY <1>1, <1>2, <1>3, <1>4, <1>5, <1>6, <1>7, <1>8 DEF Next

\* The inductive invariant holds throughout.
LEMMA Invariance == Spec => []IInv
<1> QED BY InitInv, StepInv, PTL DEF Spec

-------------------------------------------------------------------------------
(* The theorems. *)

\* Types hold, for every memory map, module list and address-space size.
THEOREM TypeCorrect == Spec => []TypeOK
<1>1. IInv => TypeOK BY DEF IInv
<1> QED BY <1>1, Invariance, PTL

\* g_free_frames is the number of clear bits at every step of boot and after.
THEOREM FreeCountCorrect == Spec => []FreeCountExact
<1>1. IInv => FreeCountExact BY DEF IInv
<1> QED BY <1>1, Invariance, PTL

\* No caller of pmm_alloc_frame ever holds a frame that is not whole RAM, or
\* that holds a byte of the low area, the image, the bitmap or a module.
THEOREM HandedUsableCorrect == Spec => []HandedUsable
<1>1. IInv => HandedUsable BY DEF IInv
<1> QED BY <1>1, Invariance, PTL

\* The bitmap allocator implements the abstract frame allocator: every step of
\* boot but the last is a stutter, the last seeds the pool, and each allocation
\* or free moves one frame.
THEOREM Refinement == Spec => ImplementsFrameAllocator
<1>1. Init => Promise!Init
  BY DEF Init, Promise!Init, Settled
<1>2. IInv /\ [Next]_vars => [Promise!Next]_Promise!faVars
  <2> SUFFICES ASSUME IInv, IInv', [Next]_vars PROVE [Promise!Next]_Promise!faVars
    BY StepInv
  <2>1. CASE ~Settled /\ ~Settled'
    <3>1. handed = {} /\ handed' = {} BY <2>1 DEF IInv, Unhanded
    <3>2. Settled = FALSE /\ Settled' = FALSE BY <2>1 DEF Settled
    <3> QED BY <3>1, <3>2 DEF Promise!faVars
  <2>2. CASE ~Settled /\ Settled'
    <3>1. handed = {} /\ handed' = handed
      BY <2>2
      DEF IInv, Unhanded, Settled, Next, vars, NoMmap, StartScan, ScanRegion, SizeBitmap, FreeRegion,
          RegionsDone, MarkLow, MarkKernel, MarkBitmap, MarkModule, ModulesDone, AllocFrame,
          FreeFrame, FreePanics
    <3>2. clear' \subseteq {f \in Frames' : (InRam(f) /\ ~Critical(f))'}
      BY <2>2
      DEF IInv, PoolInv, PoolInRam, PoolPastLow, PoolPastKernel, PoolPastBitmap, PoolPastModules,
          Critical, Settled, clear
    <3>3. Frames' \subseteq Nat
      <4>1. TypeOK' BY DEF IInv
      <4>2. total_frames' \in 0 .. WordFrames BY <4>1 DEF TypeOK
      <4>3. total_frames' \in Nat BY <4>2, SizeAssumption
      <4>4. Frames' = 0 .. total_frames' - 1 BY DEF Frames
      <4>5. \A n \in Nat : 0 .. n - 1 \subseteq Nat OBVIOUS
      <4> QED BY <4>3, <4>4, <4>5
    <3>4. Promise!Seed BY <2>2, <3>1, <3>2, <3>3 DEF Promise!Seed
    <3> QED BY <3>4 DEF Promise!Next
  <2>3. CASE Settled
    <3>1. Settled' /\ UNCHANGED <<boot, total_frames>> /\ \A f \in Nat : (InRam(f)' <=> InRam(f)) /\ (Critical(f)' <=> Critical(f))
      <4>1. Settled' /\ UNCHANGED <<boot, total_frames>>
        BY <2>3
        DEF Settled, Next, vars, NoMmap, StartScan, ScanRegion, SizeBitmap, FreeRegion,
            RegionsDone, MarkLow, MarkKernel, MarkBitmap, MarkModule, ModulesDone, AllocFrame,
            FreeFrame, FreePanics, boot
      <4> QED BY <4>1, SameInputs
    <3>2. Frames' = Frames /\ Frames \subseteq Nat BY <3>1, Typed DEF Frames, IInv
    <3>3. {f \in Frames' : (InRam(f) /\ ~Critical(f))'} = {f \in Frames : InRam(f) /\ ~Critical(f)}
      BY <3>1, <3>2
    <3>4. CASE AllocFrame
      <4>1. PICK f \in clear : clear' = clear \ {f} /\ handed' = handed \cup {f}
        BY <3>4, AllocMarks
      <4>2. Promise!Take(f) BY <2>3, <3>1, <3>3, <4>1 DEF Promise!Take
      <4> QED BY <2>3, <4>1, <4>2 DEF Promise!Next
    <3>5. ASSUME NEW paddr \in Word, FreeFrame(paddr) PROVE Promise!Next
      <4>1. PICK f \in handed : clear' = clear \cup {f} /\ handed' = handed \ {f}
        BY <3>5, FreeMarks
      <4>2. Promise!Give(f) BY <2>3, <3>1, <3>3, <4>1 DEF Promise!Give
      <4> QED BY <4>1, <4>2 DEF Promise!Next
    <3>6. CASE UNCHANGED <<used, handed>>
      <4>1. clear' = clear BY <3>2, <3>6 DEF clear
      <4> QED BY <2>3, <3>1, <3>3, <3>6, <4>1 DEF Promise!faVars
    <3>7. \/ AllocFrame
          \/ \E paddr \in Word : FreeFrame(paddr)
          \/ UNCHANGED <<used, handed>>
      BY <2>3
      DEF Settled, Next, vars, NoMmap, StartScan, ScanRegion, SizeBitmap, FreeRegion,
          RegionsDone, MarkLow, MarkKernel, MarkBitmap, MarkModule, ModulesDone, FreePanics
    <3> QED BY <3>4, <3>5, <3>6, <3>7
  <2> QED BY <2>1, <2>2, <2>3
<1> QED BY <1>1, <1>2, Invariance, PTL DEF Spec, ImplementsFrameAllocator, Promise!Spec
================================================================================

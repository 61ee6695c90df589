------------------------------ MODULE HeapProofs -------------------------------
(***************************************************************************)
(* Proofs about the kernel heap, for every heap, set of frames and number  *)
(* of blocks, under the hypothesis NoWrap on the sizes callers ask for:    *)
(* without it the run heap_wrap shows a block outside the heap.            *)
(*                                                                         *)
(* IInv: the break lies in the heap, between the end of every block        *)
(* returned so far and the base of the block being allocated, and below    *)
(* the backed end.                                                         *)
(***************************************************************************)
EXTENDS Heap, TLAPS, FiniteSetTheorems

\* What the sizes of the heap give.
LEMMA Sane ==
  /\ PageSize \in Nat \ {0}
  /\ WordSize \in Nat \ {0}
  /\ MinAlign \in Nat \ {0}
  /\ HeapBase \in Nat
  /\ HeapEnd \in Nat
  /\ HeapBase <= HeapEnd
  /\ HeapEnd = HeapBase + HeapSize
  /\ HeapEnd + PageSize <= WordSize
  /\ HeapBase \in Word
<1>1. PageSize \in Nat \ {0} /\ MinAlign \in Nat \ {0} /\ HeapSize \in Nat /\ HeapStart \in Nat
  BY HeapAssumption
<1>2. WordSize \in Nat \ {0} BY HeapAssumption DEF WordSize
<1>3. HeapBase \in Nat
  <2> DEFINE z == HeapStart + MinAlign - 1
  <2>1. z \in Nat BY <1>1
  <2> HIDE DEF z
  <2>2. z % WordSize \in Nat BY <1>2, <2>1
  <2> DEFINE y == z % WordSize
  <2> HIDE DEF y
  <2>3. y \div MinAlign \in Nat BY <1>1, <2>2 DEF y
  <2>4. (y \div MinAlign) * MinAlign \in Nat BY <1>1, <2>3
  <2> QED BY <2>4 DEF HeapBase, AlignUp, y, z
<1>4. HeapEnd = HeapBase + HeapSize BY DEF HeapEnd
<1>5. HeapEnd <= WordSize - PageSize BY HeapPlacement
<1> QED BY <1>1, <1>2, <1>3, <1>4, <1>5 DEF Word

\* Rounding up, where the sum does not wrap, moves up by less than a unit.
LEMMA AlignUpBounds ==
  ASSUME NEW x \in Nat, NEW a \in Nat \ {0}, x + a < WordSize + 1
  PROVE  /\ AlignUp(x, a) \in Nat
         /\ x <= AlignUp(x, a)
         /\ AlignUp(x, a) < x + a
<1> DEFINE z == x + a - 1
<1> DEFINE q == z \div a
<1>1. z \in Nat /\ z < WordSize /\ WordSize \in Nat \ {0} BY Sane
<1>2. z % WordSize = z BY <1>1
<1>3. AlignUp(x, a) = q * a BY <1>2 DEF AlignUp
<1>4. z = x + a - 1 OBVIOUS
<1> HIDE DEF z
<1>5. q \in Nat /\ q * a <= z /\ z < q * a + a BY <1>1
<1> HIDE DEF q
<1>6. q * a \in Nat BY <1>5
<1> QED BY <1>3, <1>4, <1>5, <1>6

End(b) == b.base + b.size

IInv ==
  /\ TypeOK
  /\ brk \in HeapBase .. HeapEnd
  /\ IsFiniteSet(heapFrames)
  /\ mapped_end = HeapBase + PageSize * Cardinality(heapFrames)
  /\ brk <= mapped_end
  /\ \A k \in DOMAIN blocks : HeapBase <= blocks[k].base /\ End(blocks[k]) <= brk
  /\ BlocksDisjoint
  /\ pc # "idle" => brk <= call.base /\ End(call) <= HeapEnd

\* A call's end is not reduced, and its backing reaches above it.
LEMMA CallBounds ==
  ASSUME IInv, pc # "idle"
  PROVE  /\ NewBrk(call) = End(call)
         /\ End(call) \in HeapBase .. HeapEnd
         /\ Need(call) \in Nat
         /\ End(call) <= Need(call)
         /\ brk <= End(call)
<1>1. call.base \in Nat /\ call.size \in Nat /\ brk \in Nat BY Sane DEF IInv, TypeOK, Block, Word
<1>2. End(call) <= HeapEnd /\ brk <= call.base /\ HeapBase <= brk
  BY Sane DEF IInv
<1>3. End(call) \in Nat /\ End(call) = call.base + call.size BY <1>1 DEF End
<1>4. End(call) \in HeapBase .. HeapEnd /\ brk <= End(call)
  BY <1>1, <1>2, <1>3, Sane
<1>5. End(call) \in 0 .. WordSize - 1 BY <1>2, <1>3, Sane
<1>6. NewBrk(call) = End(call)
  <2>1. End(call) % WordSize = End(call) BY <1>5, Sane
  <2> QED BY <1>3, <2>1 DEF NewBrk
<1>7. Need(call) \in Nat /\ End(call) <= Need(call)
  <2>1. End(call) + PageSize < WordSize + 1 BY <1>2, <1>3, Sane
  <2> QED BY <1>3, <1>6, <2>1, AlignUpBounds, Sane DEF Need
<1> QED BY <1>4, <1>6, <1>7

\* The values the comparisons of the invariant are between.
LEMMA BlockTypes ==
  ASSUME TypeOK
  PROVE  /\ brk \in Nat /\ mapped_end \in Nat
         /\ \A k \in DOMAIN blocks : blocks[k].base \in Nat /\ End(blocks[k]) \in Nat
<1>1. brk \in Nat /\ mapped_end \in Nat BY Sane DEF TypeOK, Word
<1>2. \A b \in Block : b.base \in Nat /\ End(b) \in Nat BY Sane DEF Block, Word, End
<1>3. \A k \in DOMAIN blocks : blocks[k] \in Block
  <2>1. blocks \in Seq(Block) BY DEF TypeOK
  <2> QED BY <2>1
<1> QED BY <1>1, <1>2, <1>3

\* The heap starts empty.
LEMMA InitInv == Init => IInv
<1> SUFFICES ASSUME Init PROVE IInv OBVIOUS
<1>1. blocks = <<>> /\ DOMAIN blocks = {} BY DEF Init
<1>2. NoCall \in Block BY Sane DEF NoCall, Block, Word
<1>3. TypeOK BY <1>1, <1>2, Sane DEF Init, TypeOK
<1>4. IsFiniteSet(heapFrames) /\ Cardinality(heapFrames) = 0 BY FS_EmptySet DEF Init
<1>5. mapped_end = HeapBase + PageSize * Cardinality(heapFrames) BY <1>4, Sane DEF Init
<1>6. brk \in HeapBase .. HeapEnd /\ brk <= mapped_end /\ pc = "idle" BY Sane DEF Init
<1> QED BY <1>1, <1>3, <1>4, <1>5, <1>6 DEF IInv, BlocksDisjoint

\* A request computes a block above the break and inside the heap.
LEMMA KmallocInv ==
  ASSUME NoWrap, IInv, NEW size \in Sizes, NEW align \in Aligns, Kmalloc(size, align)
  PROVE  IInv'
<1> DEFINE a == IF align < MinAlign THEN MinAlign ELSE align
<1> DEFINE p == BlockBase(align)
<1>1. a \in Aligns \cup {MinAlign} /\ a \in Nat \ {0} BY HeapAssumption
<1>2. size \in Nat /\ size < WordSize BY HeapAssumption, Sane DEF Word
<1>3. HeapEnd + a + size < WordSize BY <1>1 DEF NoWrap
<1>4. brk \in Nat /\ HeapBase <= brk /\ brk <= HeapEnd BY Sane DEF IInv
<1>5. p \in Nat /\ brk <= p /\ p < brk + a
  <2>1. brk + a < WordSize + 1 BY <1>1, <1>2, <1>3, <1>4, Sane
  <2> QED BY <1>1, <1>4, <2>1, AlignUpBounds DEF BlockBase
<1> HIDE DEF p, a
<1>6. call' = [base |-> p, size |-> size] BY DEF Kmalloc, p
<1>7. p + size \in 0 .. WordSize - 1 /\ p \in Word /\ size \in Word
  BY <1>1, <1>2, <1>3, <1>4, <1>5, Sane DEF Word
<1>8. NewBrk(call') = p + size
  <2>1. (p + size) % WordSize = p + size BY <1>7, Sane
  <2> QED BY <1>6, <2>1 DEF NewBrk
<1>9. p + size <= HeapEnd BY <1>8 DEF Kmalloc
<1>10. /\ pc' = "backing"
       /\ UNCHANGED <<brk, mapped_end, blocks, pool, heapFrames, otherFrames>>
  BY DEF Kmalloc
<1>11. call' \in Block BY <1>6, <1>7 DEF Block
<1> QED BY <1>5, <1>6, <1>9, <1>10, <1>11 DEF IInv, TypeOK, End, BlocksDisjoint

\* Backing a page adds one frame to the heap's.
LEMMA BackPageInv ==
  ASSUME IInv, BackPage
  PROVE  IInv' /\ mapped_end <= mapped_end'
<1>1. PICK f \in pool : /\ heapFrames' = heapFrames \cup {f}
                        /\ otherFrames' = otherFrames
                        /\ pool' = pool \ {f}
  BY DEF BackPage, Pmm!Take
<1>2. /\ mapped_end' = mapped_end + PageSize
      /\ UNCHANGED <<brk, pc, call, blocks>>
  BY DEF BackPage
<1>3. f \notin heapFrames /\ f \notin otherFrames BY DEF IInv, TypeOK
<1>4. IsFiniteSet(heapFrames') /\ Cardinality(heapFrames') = Cardinality(heapFrames) + 1
  BY <1>1, <1>3, FS_AddElement DEF IInv
<1>5. Cardinality(heapFrames) \in Nat BY FS_CardinalityType DEF IInv
<1>6. mapped_end' = HeapBase + PageSize * Cardinality(heapFrames')
  BY <1>2, <1>4, <1>5, Sane DEF IInv
<1>7. mapped_end \in Nat /\ mapped_end' \in Nat /\ mapped_end <= mapped_end'
  BY <1>2, Sane DEF IInv, TypeOK
<1>8. TypeOK' BY <1>1, <1>2, <1>3, <1>7 DEF IInv, TypeOK
<1>9. brk <= mapped_end'
  <2>1. brk \in Nat /\ brk <= mapped_end BY Sane DEF IInv
  <2> QED BY <2>1, <1>7
<1> QED BY <1>2, <1>4, <1>6, <1>7, <1>8, <1>9 DEF IInv, BlocksDisjoint, End

\* Returning a block moves the break to its end.
LEMMA ReturnInv ==
  ASSUME IInv, Return
  PROVE  IInv' /\ brk <= brk'
<1>1. /\ pc = "backing" /\ pc' = "idle"
      /\ brk' = End(call)
      /\ blocks' = Append(blocks, call)
      /\ call' = NoCall
      /\ UNCHANGED <<mapped_end, pool, heapFrames, otherFrames>>
  BY CallBounds DEF Return
<1>2. /\ End(call) \in HeapBase .. HeapEnd /\ brk <= End(call)
      /\ End(call) <= mapped_end
  BY <1>1, CallBounds, Sane DEF Return, IInv, TypeOK
<1>3. call \in Block /\ NoCall \in Block /\ blocks \in Seq(Block) BY Sane DEF IInv, TypeOK, NoCall, Block, Word
<1>4. /\ Len(blocks') = Len(blocks) + 1 /\ Len(blocks) \in Nat
      /\ DOMAIN blocks = 1 .. Len(blocks) /\ DOMAIN blocks' = 1 .. Len(blocks) + 1
      /\ blocks' \in Seq(Block)
      /\ blocks'[Len(blocks) + 1] = call
      /\ \A k \in 1 .. Len(blocks) : blocks'[k] = blocks[k]
  BY <1>1, <1>3
<1>5. /\ brk \in Nat /\ HeapBase \in Nat /\ HeapBase <= brk /\ brk' \in Word
      /\ brk' \in HeapBase .. HeapEnd
  BY <1>1, <1>2, Sane DEF IInv, Word
<1>6. /\ call.base \in Nat /\ brk <= call.base
      /\ \A k \in DOMAIN blocks : blocks[k].base \in Nat /\ End(blocks[k]) \in Nat
  <2>1. \A b \in Block : b.base \in Nat /\ End(b) \in Nat BY Sane DEF Block, Word, End
  <2> QED BY <1>1, <1>3, <2>1 DEF IInv
<1>7. ASSUME NEW k \in DOMAIN blocks'
      PROVE  HeapBase <= blocks'[k].base /\ End(blocks'[k]) <= brk'
  <2>1. CASE k = Len(blocks) + 1 BY <1>1, <1>2, <1>4, <1>5, <1>6, <2>1
  <2>2. CASE k \in DOMAIN blocks
    <3>1. HeapBase <= blocks[k].base /\ End(blocks[k]) <= brk BY <2>2 DEF IInv
    <3> QED BY <1>1, <1>2, <1>4, <1>5, <1>6, <2>2, <3>1
  <2> QED BY <1>4, <2>1, <2>2
<1>8. BlocksDisjoint'
  <2>1. SUFFICES ASSUME NEW j \in DOMAIN blocks', NEW k \in DOMAIN blocks', j < k
                 PROVE  End(blocks'[j]) <= blocks'[k].base
    BY DEF BlocksDisjoint, End
  <2>2. j \in DOMAIN blocks BY <1>4, <2>1
  <2>3. CASE k = Len(blocks) + 1
    <3>1. End(blocks[j]) <= brk BY <2>2 DEF IInv
    <3> QED BY <1>4, <1>5, <1>6, <2>2, <2>3, <3>1
  <2>4. CASE k \in DOMAIN blocks
    BY <1>4, <2>1, <2>2, <2>4 DEF IInv, BlocksDisjoint, End
  <2> QED BY <1>4, <2>3, <2>4
<1>9. TypeOK' BY <1>1, <1>3, <1>4, <1>5 DEF IInv, TypeOK
<1> QED BY <1>1, <1>2, <1>5, <1>7, <1>8, <1>9 DEF IInv

\* The frame allocator's other users, and a halt, leave the heap alone.
LEMMA OtherInv ==
  ASSUME IInv, OutOfMemory \/ OtherTake \/ OtherGive
  PROVE  IInv' /\ UNCHANGED <<brk, mapped_end>>
<1>1. UNCHANGED <<brk, mapped_end, call, blocks, heapFrames>>
      /\ pc' \in {"idle", "halted"} /\ (pc' # "idle" => pc # "idle")
  BY DEF OutOfMemory, OtherTake, OtherGive
<1>2. TypeOK' BY <1>1 DEF IInv, TypeOK, OutOfMemory, OtherTake, OtherGive, Pmm!Take, Pmm!Give
<1> QED BY <1>1, <1>2 DEF IInv, BlocksDisjoint, End

\* Every step keeps the invariant and moves neither end down.
LEMMA StepInv ==
  ASSUME NoWrap, IInv, [Next]_vars
  PROVE  IInv' /\ [brk' >= brk /\ mapped_end' >= mapped_end]_vars
<1>0. brk \in Nat /\ mapped_end \in Nat BY Sane DEF IInv, TypeOK
<1>1. ASSUME NEW size \in Sizes, NEW align \in Aligns, Kmalloc(size, align)
      PROVE  IInv' /\ UNCHANGED <<brk, mapped_end>>
  BY <1>1, KmallocInv DEF Kmalloc
<1>2. CASE BackPage
  <2>1. brk' = brk BY <1>2 DEF BackPage
  <2>2. IInv' /\ mapped_end <= mapped_end' BY <1>2, BackPageInv
  <2>3. mapped_end' \in Nat BY <2>2 DEF IInv, TypeOK
  <2> QED BY <1>0, <2>1, <2>2, <2>3
<1>3. CASE Return
  <2>1. mapped_end' = mapped_end BY <1>3 DEF Return
  <2>2. IInv' /\ brk <= brk' BY <1>3, ReturnInv
  <2>3. brk' \in Nat BY <2>2, Sane DEF IInv
  <2> QED BY <1>0, <2>1, <2>2, <2>3
<1>4. CASE OutOfMemory \/ OtherTake \/ OtherGive BY <1>0, <1>4, OtherInv
<1>5. CASE UNCHANGED vars BY <1>5 DEF vars, IInv, TypeOK, BlocksDisjoint, End
<1> QED BY <1>0, <1>1, <1>2, <1>3, <1>4, <1>5 DEF Next

\* The inductive invariant holds throughout.
LEMMA Invariance == ASSUME NoWrap PROVE Spec => []IInv
<1>1. IInv /\ [Next]_vars => IInv' BY StepInv
<1> QED BY InitInv, <1>1, PTL DEF Spec

\* Types, and one holder for each frame.
THEOREM TypeCorrect == NoWrap => (Spec => []TypeOK)
<1> SUFFICES ASSUME NoWrap PROVE Spec => []TypeOK OBVIOUS
<1>1. IInv => TypeOK BY DEF IInv
<1> QED BY <1>1, Invariance, PTL

\* Every block kmalloc returns lies in the heap.
THEOREM InHeap == NoWrap => (Spec => []BlocksInHeap)
<1> SUFFICES ASSUME NoWrap PROVE Spec => []BlocksInHeap OBVIOUS
<1>1. IInv => BlocksInHeap
  <2> SUFFICES ASSUME IInv, NEW k \in DOMAIN blocks
               PROVE  HeapBase <= blocks[k].base /\ End(blocks[k]) <= HeapEnd
    BY DEF BlocksInHeap, End
  <2>1. HeapBase <= blocks[k].base /\ End(blocks[k]) <= brk /\ brk \in HeapBase .. HeapEnd
    BY DEF IInv
  <2>2. End(blocks[k]) \in Nat BY BlockTypes DEF IInv
  <2> QED BY <2>1, <2>2, Sane
<1> QED BY <1>1, Invariance, PTL

\* No two blocks overlap.
THEOREM Disjoint == NoWrap => (Spec => []BlocksDisjoint)
<1> SUFFICES ASSUME NoWrap PROVE Spec => []BlocksDisjoint OBVIOUS
<1>1. IInv => BlocksDisjoint BY DEF IInv
<1> QED BY <1>1, Invariance, PTL

\* Every byte handed out has been paid for with a frame.
THEOREM Paid == NoWrap => (Spec => []BytesPaid)
<1> SUFFICES ASSUME NoWrap PROVE Spec => []BytesPaid OBVIOUS
<1>1. IInv => BytesPaid
  <2> SUFFICES ASSUME IInv, NEW k \in DOMAIN blocks PROVE End(blocks[k]) <= mapped_end
    BY DEF IInv, BytesPaid, End
  <2>1. End(blocks[k]) <= brk /\ brk <= mapped_end BY DEF IInv
  <2>2. End(blocks[k]) \in Nat /\ brk \in Nat /\ mapped_end \in Nat
    BY BlockTypes DEF IInv
  <2> QED BY <2>1, <2>2
<1> QED BY <1>1, Invariance, PTL

\* The break and the backed end never move down.
THEOREM NeverBack == NoWrap => (Spec => Monotone)
<1> SUFFICES ASSUME NoWrap PROVE Spec => Monotone OBVIOUS
<1>1. IInv /\ [Next]_vars => [brk' >= brk /\ mapped_end' >= mapped_end]_vars BY StepInv
<1> QED BY <1>1, Invariance, PTL DEF Spec, Monotone
================================================================================

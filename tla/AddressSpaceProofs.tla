--------------------------- MODULE AddressSpaceProofs ---------------------------
(***************************************************************************)
(* Proofs about page tables and the loader, for every size of tables and   *)
(* pool, every set of programs and every user stack.                       *)
(*                                                                         *)
(* Five facts carry each other: who owns a frame, which tables directories *)
(* share, where user mode may go in any table at all, what is left of the  *)
(* identity mapping, and how far the load has come.  All are about what    *)
(* happens until an access of the loader goes astray: no hypothesis keeps  *)
(* programs, or frames, off the kernel's own pages.                        *)
(***************************************************************************)
EXTENDS AddressSpace, FiniteSetTheorems, WellFoundedInduction, TLAPS

Entries == [frame : Nat, user : BOOLEAN]
Runs == [from : Nat, to : Nat, beyond : BOOLEAN]

Types ==
  /\ pdir \in [DOMAIN pdir -> [0 .. Pdes - 1 -> Entries \cup {None}]]
  /\ ptab \in [DOMAIN ptab -> [0 .. Ptes - 1 -> Entries \cup {None}]]
  /\ KernelDir \in DOMAIN pdir /\ cr3 \in DOMAIN pdir /\ dir \in DOMAIN pdir
  /\ pc \in {"shell", "open", "map", "copy", "loaded", "user", "exited", "halted", "astray"}
  /\ slurps \in 0 .. MaxSlurps
  /\ image \in Seq(Segments) /\ todo \in Seq(Runs)
  /\ \A d \in DOMAIN pdir, p \in 0 .. Pdes - 1 :
       pdir[d][p] # None => pdir[d][p].frame \in DOMAIN ptab

\* Each frame has one owner.
Owned ==
  /\ pool \cup heapFrames \cup userFrames \cup DOMAIN pdir \cup DOMAIN ptab = PmmFrames
  /\ pool \cap (heapFrames \cup userFrames \cup DOMAIN pdir \cup DOMAIN ptab) = {}
  /\ heapFrames \cap (userFrames \cup DOMAIN pdir \cup DOMAIN ptab) = {}
  /\ userFrames \cap (DOMAIN pdir \cup DOMAIN ptab) = {}
  /\ DOMAIN pdir \cap DOMAIN ptab = {}

\* The low tables are everyone's, the others one directory's.
Shared ==
  /\ \A d \in DOMAIN pdir, p \in 0 .. KernelPdes - 1 :
       pdir[d][p] # None /\ pdir[d][p].frame = KernelTable(p)
  /\ \A d, e \in DOMAIN pdir, p, q \in KernelPdes .. Pdes - 1 :
       d # e /\ pdir[d][p] # None /\ pdir[e][q] # None
         => pdir[d][p].frame # pdir[e][q].frame

\* A page open to user mode, in whatever table, loaded or not.
UserPage(t, p) == ptab[t][p] # None /\ ptab[t][p].user

\* It is a program's, and no other page open to user mode has its frame.
UserPages ==
  \A t \in DOMAIN ptab, p \in 0 .. Ptes - 1 : UserPage(t, p) =>
    /\ ptab[t][p].frame \in userFrames
    /\ \A u \in DOMAIN ptab, q \in 0 .. Ptes - 1 :
         UserPage(u, q) /\ ptab[u][q].frame = ptab[t][p].frame => u = t /\ q = p

\* Page v is there for a program that runs on the directory being built.
Mapped(v) ==
  /\ v \in VPages
  /\ pdir[dir][PdeOf(v)] # None /\ pdir[dir][PdeOf(v)].user
  /\ UserPage(pdir[dir][PdeOf(v)].frame, PteOf(v))

\* The loader's pages for programs, and the frames behind them, are not the kernel's own.
Apart == covered \subseteq VPages \ Own /\ userFrames \cap Own = {}

\* But for the pages mapped for programs, the kernel's tables map each page to itself,
\* and no directory names one of these tables above the kernel's part.
Kept ==
  /\ \A p \in 0 .. KernelPdes - 1 : KernelTable(p) \in DOMAIN ptab
  /\ \A p \in 0 .. KernelPdes - 1, j \in 0 .. Ptes - 1 : p * Ptes + j \notin covered =>
       ptab[KernelTable(p)][j] = Entry(p * Ptes + j, FALSE)
  /\ \A d \in DOMAIN pdir, p \in KernelPdes .. Pdes - 1, q \in 0 .. KernelPdes - 1 :
       pdir[d][p] # None => pdir[d][p].frame # KernelTable(q)

In(v, run) == run.from <= v /\ v < run.to

\* Page v is the program's or its stack's, as the loader counts them ...
Wanted(v) ==
  \/ \E k \in DOMAIN image : In(v, MapRun(image[k]))
  \/ \E k \in DOMAIN StackPages : v = StackPages[k]

\* ... and is still to do.
Left(v) == \E k \in DOMAIN todo : In(v, todo[k])

\* A wanted page is mapped or still to map; what is left to copy is of some segment.
Mapping ==
  /\ \A k \in DOMAIN todo : todo[k].to <= Pdes * Ptes
  /\ \A v \in VPages : Wanted(v) => Mapped(v) \/ Left(v)
AllMapped == \A v \in VPages : Wanted(v) => Mapped(v)
Copying == \A v \in Nat : Left(v) => \E k \in DOMAIN image : In(v, CopyRun(image[k]))

Loading ==
  /\ pc = "map" => Mapping
  /\ pc \in {"copy", "loaded", "user"} => AllMapped
  /\ pc = "copy" => Copying
  /\ pc \in {"copy", "user"} => cr3 = dir
  /\ pc \in {"shell", "open", "map", "loaded"} => cr3 = KernelDir

IInv == Types /\ Owned /\ Shared /\ UserPages /\ Apart /\ Kept /\ Loading

-------------------------------------------------------------------------------
LEMMA Sizes ==
  /\ KernelPdes \in Nat /\ KernelPdes > 0 /\ Pdes \in Nat /\ KernelPdes <= Pdes
  /\ Ptes \in Nat /\ Ptes > 0 /\ FirstFrame \in Nat /\ LastFrame \in Nat
  /\ FirstFrame + KernelPdes <= LastFrame
  /\ PageSize \in Nat /\ PageSize > 0 /\ SlurpFrames \in Nat /\ MaxSlurps \in Nat
BY ShapeAssumption

LEMMA EntryKinds ==
  ASSUME NEW f \in Nat, NEW u \in BOOLEAN
  PROVE  /\ Entry(f, u) \in Entries /\ Entry(f, u) # None
         /\ Entry(f, u).frame = f /\ Entry(f, u).user = u
BY NoneAssumption DEF Entry, Entries

\* A page has a place in a directory and one in a table.
LEMMA PageIndex ==
  ASSUME NEW v \in VPages
  PROVE  PdeOf(v) \in 0 .. Pdes - 1 /\ PteOf(v) \in 0 .. Ptes - 1
<1>1. v \in Nat /\ Pdes * Ptes \in Nat /\ v < Pdes * Ptes BY Sizes DEF VPages
<1>2. v \div Ptes \in Nat /\ v % Ptes \in 0 .. Ptes - 1 BY <1>1, Sizes
<1>3. (v \div Ptes) * Ptes <= v BY <1>1, Sizes
<1>4. v \div Ptes < Pdes
  <2>1. SUFFICES ASSUME v \div Ptes >= Pdes PROVE FALSE BY <1>2, Sizes
  <2>2. (v \div Ptes) * Ptes >= Pdes * Ptes BY <1>2, <2>1, Sizes
  <2> QED BY <1>1, <1>2, <1>3, <2>2, Sizes
<1> QED BY <1>2, <1>4, Sizes DEF PdeOf, PteOf

\* A page is the one its indices name.
LEMMA PageIs ==
  ASSUME NEW v \in VPages
  PROVE  v = PdeOf(v) * Ptes + PteOf(v)
<1>1. v \in Nat BY Sizes DEF VPages
<1>2. v = (v \div Ptes) * Ptes + (v % Ptes) BY <1>1, Sizes
<1> QED BY <1>2 DEF PdeOf, PteOf

LEMMA LowestIs ==
  ASSUME NEW S, S \subseteq Nat, S # {} PROVE Lowest(S) \in S
<1> DEFINE less == {x \in Nat \X Nat : x[1] < x[2]}
<1>1. IsWellFoundedOn(less, Nat) BY NatLessThanWellFounded DEF OpToRel
<1>2. PICK f \in S : \A g \in S : <<g, f>> \notin less BY <1>1, WFMin
<1>3. \A g \in S : f \in Nat /\ g \in Nat /\ ~(g < f) BY <1>2
<1>4. \A g \in S : f <= g BY <1>3
<1> QED BY <1>4 DEF Lowest

\* A pool of two frames has one beside any of them.
LEMMA TwoFrames ==
  ASSUME NEW S, S \subseteq PmmFrames, Cardinality(S) >= 2, NEW f
  PROVE  S \ {f} # {}
<1>1. IsFiniteSet(S)
  <2>1. IsFiniteSet(PmmFrames) BY Sizes, FS_Interval DEF PmmFrames
  <2> QED BY <2>1, FS_Subset
<1>2. S = {} \/ S = {f} => Cardinality(S) \in {0, 1} BY FS_EmptySet, FS_Singleton
<1> QED BY <1>1, <1>2

-------------------------------------------------------------------------------
\* The runs of pages of a segment.
LEMMA Division ==
  ASSUME NEW a \in Nat, NEW n \in Nat, n > 0
  PROVE  /\ a \div n \in Nat /\ a % n \in Nat /\ a % n < n
         /\ a = (a \div n) * n + (a % n)
OBVIOUS

\* What a quotient is not below, and what it is not above.
LEMMA Quotient ==
  ASSUME NEW a \in Nat, NEW n \in Nat, n > 0, NEW q \in Nat
  PROVE  /\ q * n <= a => q <= a \div n
         /\ a < (q + 1) * n => a \div n <= q
<1> DEFINE d == a \div n
<1>1. d \in Nat /\ a % n \in Nat /\ a % n < n /\ a = d * n + (a % n) BY Division
<1> HIDE DEF d
<1>2. d * n <= a /\ a < (d + 1) * n
  <2>1. (d + 1) * n = d * n + n BY <1>1
  <2> QED BY <1>1, <2>1
<1>3. ASSUME q * n <= a PROVE q <= d
  <2>1. SUFFICES ASSUME d + 1 <= q PROVE FALSE BY <1>1
  <2>2. (d + 1) * n <= q * n BY <1>1, <2>1
  <2> QED BY <1>1, <1>2, <1>3, <2>2
<1>4. ASSUME a < (q + 1) * n PROVE d <= q
  <2>1. SUFFICES ASSUME q + 1 <= d PROVE FALSE BY <1>1
  <2>2. (q + 1) * n <= d * n BY <1>1, <2>1
  <2> QED BY <1>1, <1>2, <1>4, <2>2
<1> QED BY <1>3, <1>4 DEF d

LEMMA Words ==
  /\ Pdes * Ptes \in Nat /\ WordSize \in Nat /\ WordSize > 0
  /\ WordSize = (Pdes * Ptes) * PageSize
<1>1. Pdes * Ptes \in Nat /\ Pdes * Ptes > 0 BY Sizes
<1>2. \A n \in Nat : n > 0 => n * PageSize \in Nat /\ n * PageSize > 0 BY Sizes
<1> QED BY <1>1, <1>2 DEF WordSize

LEMMA SegmentIs ==
  ASSUME NEW s \in Segments
  PROVE  /\ s.vaddr \in Nat /\ s.vaddr < WordSize /\ s.filesz \in Nat /\ s.memsz \in Nat
         /\ s.beyond \in BOOLEAN
BY Words DEF Segments, Word

LEMMA MapRunIs ==
  ASSUME NEW s \in Segments
  PROVE  MapRun(s) \in Runs /\ MapRun(s).to <= Pdes * Ptes
<1> DEFINE e == (((s.vaddr + s.memsz) % WordSize) + PageSize - 1) % WordSize
<1>1. s.vaddr \in Nat /\ s.memsz \in Nat /\ s.beyond \in BOOLEAN BY SegmentIs
<1>2. s.vaddr \div PageSize \in Nat BY <1>1, Sizes, Division
<1>3. e \in Nat /\ e < WordSize
  <2>1. (s.vaddr + s.memsz) % WordSize \in Nat BY <1>1, Words, Division
  <2>2. ((s.vaddr + s.memsz) % WordSize) + PageSize - 1 \in Nat BY <2>1, Sizes
  <2> QED BY <2>2, Words, Division
<1>4. MapRun(s) = IF s.memsz = 0 THEN [from |-> 0, to |-> 0, beyond |-> FALSE]
                  ELSE [from |-> s.vaddr \div PageSize, to |-> e \div PageSize,
                        beyond |-> s.beyond]
  BY DEF MapRun
<1> HIDE DEF e
<1>5. e \div PageSize \in Nat /\ e \div PageSize <= Pdes * Ptes
  <2>1. PICK m \in Nat : m = Pdes * Ptes BY Words
  <2>2. e < m * PageSize BY <1>3, <2>1, Words
  <2>3. m * PageSize <= (m + 1) * PageSize BY <2>1, Sizes
  <2>4. m * PageSize \in Nat /\ (m + 1) * PageSize \in Nat BY <2>1, Sizes
  <2>5. e < (m + 1) * PageSize BY <1>3, <2>2, <2>3, <2>4
  <2> QED BY <1>3, <2>1, <2>5, Sizes, Quotient, Division
<1> QED BY <1>1, <1>2, <1>4, <1>5, Words DEF Runs

LEMMA CopyRunIs ==
  ASSUME NEW s \in Segments PROVE CopyRun(s) \in Runs
<1> DEFINE n == IF s.filesz > s.memsz THEN s.filesz ELSE s.memsz
<1>1. s.vaddr \in Nat /\ s.memsz \in Nat /\ s.filesz \in Nat BY SegmentIs
<1>2. n \in Nat /\ (s.memsz # 0 => n > 0) BY <1>1
<1>3. CopyRun(s) = IF s.memsz = 0 THEN [from |-> 0, to |-> 0, beyond |-> FALSE]
                   ELSE [from |-> s.vaddr \div PageSize,
                         to |-> (s.vaddr + n - 1) \div PageSize + 1, beyond |-> FALSE]
  BY DEF CopyRun
<1> HIDE DEF n
<1>4. s.vaddr \div PageSize \in Nat BY <1>1, Sizes, Division
<1>5. s.memsz # 0 => (s.vaddr + n - 1) \div PageSize \in Nat
  <2>1. s.memsz # 0 => s.vaddr + n - 1 \in Nat BY <1>1, <1>2
  <2> QED BY <2>1, Sizes, Division
<1> QED BY <1>3, <1>4, <1>5 DEF Runs

\* A segment that ends at an address is mapped from its first byte's page to its last's.
LEMMA MapRunOf ==
  ASSUME NEW s \in Segments, InWord(s), s.memsz # 0
  PROVE  MapRun(s) = [from |-> s.vaddr \div PageSize,
                      to |-> (s.vaddr + s.memsz - 1) \div PageSize + 1, beyond |-> s.beyond]
<1>1. s.vaddr \in Nat /\ s.memsz \in Nat BY SegmentIs
<1>2. PICK e \in Nat : e = s.vaddr + s.memsz /\ e > 0 BY <1>1
<1>3. e + PageSize <= WordSize BY <1>2, Sizes, Words DEF InWord
<1>4. e % WordSize = e
  <2>1. e < WordSize BY <1>2, <1>3, Sizes, Words
  <2> QED BY <1>2, <2>1, Words
<1>5. (e + PageSize - 1) % WordSize = e + PageSize - 1
  <2>1. e + PageSize - 1 \in Nat /\ e + PageSize - 1 < WordSize BY <1>2, <1>3, Sizes, Words
  <2> QED BY <2>1, Words
<1>6. (e + PageSize - 1) \div PageSize = (e - 1) \div PageSize + 1
  <2>1. PICK d \in Nat : d = e - 1 BY <1>2
  <2>2. PICK q, r \in Nat : q = d \div PageSize /\ r < PageSize /\ d = q * PageSize + r
    BY <2>1, Sizes, Division
  <2>3. d + PageSize = (q + 1) * PageSize + r
    <3>1. (q + 1) * PageSize = q * PageSize + PageSize BY <2>2, Sizes
    <3>2. q * PageSize \in Nat BY <2>2, Sizes
    <3> QED BY <2>1, <2>2, <3>1, <3>2, Sizes
  <2>4. (d + PageSize) \div PageSize = q + 1
    <3>1. PICK n \in Nat : n = d + PageSize BY <2>1, Sizes
    <3>2. (q + 1) * PageSize \in Nat /\ (q + 2) * PageSize = (q + 1) * PageSize + PageSize
      BY <2>2, Sizes
    <3>3. (q + 1) * PageSize <= n /\ n < ((q + 1) + 1) * PageSize
      <4>1. (q + 1) + 1 = q + 2 BY <2>2
      <4> QED BY <2>2, <2>3, <3>1, <3>2, <4>1, Sizes
    <3>4. q + 1 <= n \div PageSize /\ n \div PageSize <= q + 1
      BY <2>2, <3>1, <3>3, Sizes, Quotient
    <3>5. n \div PageSize \in Nat BY <3>1, Sizes, Division
    <3> QED BY <2>2, <3>1, <3>4, <3>5
  <2>5. e + PageSize - 1 = d + PageSize BY <1>2, <2>1, Sizes
  <2> QED BY <2>1, <2>2, <2>4, <2>5
<1>7. MapRun(s) = [from |-> s.vaddr \div PageSize,
                   to |-> (((e % WordSize) + PageSize - 1) % WordSize) \div PageSize,
                   beyond |-> s.beyond]
  BY <1>2 DEF MapRun
<1>8. (((e % WordSize) + PageSize - 1) % WordSize) \div PageSize = (e - 1) \div PageSize + 1
  <2>1. (e % WordSize) + PageSize - 1 = e + PageSize - 1 BY <1>4
  <2>2. ((e % WordSize) + PageSize - 1) % WordSize = (e + PageSize - 1) % WordSize BY <2>1
  <2>3. ((e % WordSize) + PageSize - 1) % WordSize = e + PageSize - 1 BY <2>2, <1>5
  <2> QED BY <2>3, <1>6
<1>9. (s.vaddr + s.memsz - 1) \div PageSize = (e - 1) \div PageSize
  <2>1. s.vaddr + s.memsz - 1 = e - 1 BY <1>1, <1>2
  <2> QED BY <2>1
<1> QED BY <1>7, <1>8, <1>9

\* Each page that holds a byte of it is mapped.
LEMMA HeldIsMapped ==
  ASSUME NEW s \in Segments, InWord(s), NEW v \in VPages, Holds(v, s)
  PROVE  In(v, MapRun(s))
<1>1. /\ s.memsz # 0 /\ v * PageSize < s.vaddr + s.memsz /\ s.vaddr < (v + 1) * PageSize
      /\ s.vaddr \in Nat /\ s.memsz \in Nat /\ v \in Nat
  BY SegmentIs, Words DEF Holds, VPages
<1>2. s.vaddr \div PageSize <= v BY <1>1, Sizes, Quotient
<1>3. v <= (s.vaddr + s.memsz - 1) \div PageSize
  <2>1. PICK e \in Nat : e = s.vaddr + s.memsz - 1 BY <1>1
  <2>2. v * PageSize <= e
    <3>1. v * PageSize \in Nat BY <1>1, Sizes
    <3> QED BY <1>1, <2>1, <3>1
  <2> QED BY <1>1, <2>1, <2>2, Sizes, Quotient
<1>4. (s.vaddr + s.memsz - 1) \div PageSize \in Nat
  <2>1. s.vaddr + s.memsz - 1 \in Nat BY <1>1
  <2> QED BY <2>1, Sizes, Division
<1>5. v < (s.vaddr + s.memsz - 1) \div PageSize + 1 BY <1>1, <1>3, <1>4
<1> QED BY <1>1, <1>2, <1>5, MapRunOf DEF In

\* A segment with no more bytes in the file than in memory is copied to its pages.
LEMMA CopiedIsMapped ==
  ASSUME NEW s \in Segments, InWord(s), s.filesz <= s.memsz, NEW v \in Nat, In(v, CopyRun(s))
  PROVE  v \in VPages /\ In(v, MapRun(s))
<1>1. s.filesz \in Nat /\ s.memsz \in Nat BY SegmentIs
<1>2. s.memsz # 0
  <2>1. SUFFICES ASSUME s.memsz = 0 PROVE FALSE OBVIOUS
  <2>2. CopyRun(s).to = 0 BY <2>1 DEF CopyRun
  <2> QED BY <2>2 DEF In
<1>3. CopyRun(s) = [from |-> s.vaddr \div PageSize,
                    to |-> (s.vaddr + s.memsz - 1) \div PageSize + 1, beyond |-> FALSE]
  <2>1. ~(s.filesz > s.memsz) BY <1>1
  <2> QED BY <1>2, <2>1 DEF CopyRun
<1>4. In(v, MapRun(s)) BY <1>2, <1>3, MapRunOf DEF In
<1>5. v < Pdes * Ptes
  <2>1. MapRun(s).to \in Nat /\ MapRun(s).to <= Pdes * Ptes BY MapRunIs DEF Runs
  <2> QED BY <1>4, <2>1, Words DEF In
<1> QED BY <1>4, <1>5, Words DEF VPages

-------------------------------------------------------------------------------
LEMMA KeptInitially ==
  ASSUME Init PROVE Kept
<1>1. DOMAIN ptab = {KernelTable(p) : p \in 0 .. KernelPdes - 1} BY DEF Init
<1>2. ASSUME NEW p \in 0 .. KernelPdes - 1, NEW j \in 0 .. Ptes - 1
      PROVE  ptab[KernelTable(p)][j] = Entry(p * Ptes + j, FALSE)
  <2>1. KernelTable(p) - FirstFrame - 1 = p BY Sizes DEF KernelTable
  <2>2. KernelTable(p) \in DOMAIN ptab BY <1>1
  <2>3. ptab[KernelTable(p)] = IdentityTable(KernelTable(p) - FirstFrame - 1)
    BY <1>1, <2>2 DEF Init
  <2>4. ptab[KernelTable(p)] = IdentityTable(p) BY <2>1, <2>3
  <2> QED BY <2>4, Sizes DEF IdentityTable
<1>3. \A d \in DOMAIN pdir, p \in KernelPdes .. Pdes - 1 : pdir[d][p] = None
  <2>1. \A p \in KernelPdes .. Pdes - 1 : p \in 0 .. Pdes - 1 /\ ~(p < KernelPdes) BY Sizes
  <2> QED BY <2>1 DEF Init
<1> QED BY <1>1, <1>2, <1>3 DEF Kept

LEMMA Initially == Init => IInv
<1> SUFFICES ASSUME Init PROVE IInv OBVIOUS
<1> USE Sizes
<1>1. /\ DOMAIN pdir = {KernelDir}
      /\ \A p \in 0 .. Pdes - 1 :
           pdir[KernelDir][p] = IF p < KernelPdes THEN Entry(KernelTable(p), FALSE) ELSE None
      /\ pdir \in [{KernelDir} -> [0 .. Pdes - 1 -> Entries \cup {None}]]
  <2>1. \A p \in 0 .. Pdes - 1 : KernelTable(p) \in Nat BY DEF KernelTable
  <2> QED BY <2>1, EntryKinds DEF Init
<1>2. /\ DOMAIN ptab = {KernelTable(p) : p \in 0 .. KernelPdes - 1}
      /\ \A t \in DOMAIN ptab, p \in 0 .. Ptes - 1 :
           ptab[t][p] \in Entries /\ ptab[t][p].user = FALSE
      /\ ptab \in [DOMAIN ptab -> [0 .. Ptes - 1 -> Entries \cup {None}]]
  <2>1. \A t \in {KernelTable(p) : p \in 0 .. KernelPdes - 1} : t - FirstFrame - 1 \in Nat
    BY DEF KernelTable
  <2>2. \A n \in Nat, p \in 0 .. Ptes - 1 : n * Ptes + p \in Nat OBVIOUS
  <2>3. \A n \in Nat, p \in 0 .. Ptes - 1 :
          /\ IdentityTable(n)[p] = Entry(n * Ptes + p, FALSE)
          /\ IdentityTable(n)[p] \in Entries /\ IdentityTable(n)[p].user = FALSE
    BY <2>2, EntryKinds DEF IdentityTable
  <2>4. \A n \in Nat : IdentityTable(n) \in [0 .. Ptes - 1 -> Entries \cup {None}]
    BY <2>2, EntryKinds DEF IdentityTable
  <2> QED BY <2>1, <2>3, <2>4 DEF Init
<1>3. DOMAIN ptab = FirstFrame + 1 .. FirstFrame + KernelPdes
  <2>1. \A f \in FirstFrame + 1 .. FirstFrame + KernelPdes :
          f - FirstFrame - 1 \in 0 .. KernelPdes - 1 /\ f = FirstFrame + 1 + (f - FirstFrame - 1)
    OBVIOUS
  <2>2. \A p \in 0 .. KernelPdes - 1 :
          FirstFrame + 1 + p \in FirstFrame + 1 .. FirstFrame + KernelPdes
    OBVIOUS
  <2> QED BY <1>2, <2>1, <2>2 DEF KernelTable
<1>4. Types
  <2>1. \A d \in DOMAIN pdir, p \in 0 .. Pdes - 1 :
          pdir[d][p] # None => pdir[d][p].frame \in DOMAIN ptab
    <3>1. SUFFICES ASSUME NEW p \in 0 .. Pdes - 1, pdir[KernelDir][p] # None
                   PROVE  pdir[KernelDir][p].frame \in DOMAIN ptab
      BY <1>1
    <3>2. p < KernelPdes /\ pdir[KernelDir][p] = Entry(KernelTable(p), FALSE) BY <1>1, <3>1
    <3>3. p \in 0 .. KernelPdes - 1 /\ KernelTable(p) \in Nat BY <3>2 DEF KernelTable
    <3>4. pdir[KernelDir][p].frame = KernelTable(p) BY <3>2, <3>3, EntryKinds
    <3> QED BY <1>2, <3>3, <3>4
  <2>2. image = <<>> /\ todo = <<>> /\ cr3 = KernelDir /\ dir = KernelDir /\ pc = "shell"
        /\ slurps = 0
    BY DEF Init
  <2> QED BY <1>1, <1>2, <2>1, <2>2 DEF Types
<1>5. Owned
  <2>1. pool = FirstFrame + KernelPdes + 1 .. LastFrame /\ heapFrames = {} /\ userFrames = {}
    BY DEF Init
  <2> QED BY <1>1, <1>3, <2>1 DEF Owned, PmmFrames, KernelDir
<1>6. Shared
  <2>1. \A p \in 0 .. KernelPdes - 1 :
          pdir[KernelDir][p] # None /\ pdir[KernelDir][p].frame = KernelTable(p)
    <3>1. SUFFICES ASSUME NEW p \in 0 .. KernelPdes - 1
                   PROVE  pdir[KernelDir][p] # None /\ pdir[KernelDir][p].frame = KernelTable(p)
      OBVIOUS
    <3>2. KernelTable(p) \in Nat /\ p \in 0 .. Pdes - 1 /\ p < KernelPdes BY DEF KernelTable
    <3> QED BY <1>1, <3>2, EntryKinds
  <2> QED BY <1>1, <2>1 DEF Shared
<1>7. UserPages BY <1>2 DEF UserPages, UserPage
<1>8. Loading BY DEF Init, Loading
<1>9. Apart BY DEF Init, Apart
<1>10. Kept BY KeptInitially
<1> QED BY <1>4, <1>5, <1>6, <1>7, <1>8, <1>9, <1>10 DEF IInv

-------------------------------------------------------------------------------
\* A page is mapped, in a table that was there or in a new one: v is opened to
\* user mode on frame f through table t, and nothing else changes.
Extended(v, f, t) ==
  LET i == PdeOf(v)
      j == PteOf(v)
  IN  /\ v \in VPages /\ v \notin Own
      /\ f \in pool /\ f \notin Own /\ t # f
      /\ \/ pdir[dir][i] = None /\ t \in pool
         \/ pdir[dir][i] # None /\ t = pdir[dir][i].frame /\ t \in DOMAIN ptab
      /\ pool' = pool \ {f, t} /\ userFrames' = userFrames \cup {f}
      /\ covered' = covered \cup {v}
      /\ UNCHANGED <<heapFrames, cr3, pc, dir, image, slurps>>
      /\ DOMAIN pdir' = DOMAIN pdir
      /\ pdir' \in [DOMAIN pdir -> [0 .. Pdes - 1 -> Entries \cup {None}]]
      /\ \A d \in DOMAIN pdir, p \in 0 .. Pdes - 1 :
           pdir'[d][p] = IF d = dir /\ p = i THEN Entry(t, TRUE) ELSE pdir[d][p]
      /\ DOMAIN ptab' = DOMAIN ptab \cup {t}
      /\ ptab' \in [DOMAIN ptab \cup {t} -> [0 .. Ptes - 1 -> Entries \cup {None}]]
      /\ \A u \in DOMAIN ptab \cup {t}, p \in 0 .. Ptes - 1 :
           ptab'[u][p] = IF u = t /\ p = j THEN Entry(f, TRUE)
                         ELSE IF u \in DOMAIN ptab THEN ptab[u][p] ELSE None

\* Frames are numbers.
LEMMA FrameNumbers ==
  ASSUME Owned
  PROVE  /\ pool \subseteq Nat /\ DOMAIN pdir \subseteq Nat /\ DOMAIN ptab \subseteq Nat
         /\ pool \subseteq PmmFrames
<1>1. PmmFrames \subseteq Nat BY Sizes DEF PmmFrames
<1> QED BY <1>1 DEF Owned

\* The first run that is not done lies in the address space, and what follows is a load.
LEMMA FirstRun ==
  ASSUME Types, InRun
  PROVE  /\ todo \in Seq(Runs) /\ todo # <<>> /\ 1 \in DOMAIN todo /\ Head(todo) = todo[1]
         /\ NextPage \in Nat /\ NextPage = todo[1].from /\ todo[1].to \in Nat
         /\ In(NextPage, todo[1])
         /\ Rest \in Seq(Runs) /\ DOMAIN Rest = DOMAIN todo
         /\ \A k \in DOMAIN todo :
              /\ Rest[k].to = todo[k].to
              /\ \A v \in Nat : In(v, todo[k]) /\ v # NextPage => In(v, Rest[k])
              /\ \A v \in Nat : In(v, Rest[k]) => In(v, todo[k])
<1>1. todo \in Seq(Runs) /\ todo # <<>> /\ 1 \in DOMAIN todo /\ Head(todo) = todo[1]
  BY DEF Types, InRun
<1>2. /\ todo[1] \in Runs /\ todo[1].from \in Nat /\ todo[1].to \in Nat
      /\ todo[1].from < todo[1].to
  <2>1. todo[1] \in Runs BY <1>1
  <2>2. todo[1].from \in Nat /\ todo[1].to \in Nat BY <2>1 DEF Runs
  <2>3. todo[1].from < todo[1].to BY <1>1 DEF InRun
  <2> QED BY <2>1, <2>2, <2>3
<1>3. PICK r \in Runs : /\ r = [todo[1] EXCEPT !.from = @ + 1] /\ r.from = todo[1].from + 1
                        /\ r.to = todo[1].to
  <2>1. [todo[1] EXCEPT !.from = @ + 1] \in Runs BY <1>2 DEF Runs
  <2>2. /\ [todo[1] EXCEPT !.from = @ + 1].from = todo[1].from + 1
        /\ [todo[1] EXCEPT !.from = @ + 1].to = todo[1].to
    BY <1>2 DEF Runs
  <2> QED BY <2>1, <2>2
<1>4. Rest = [todo EXCEPT ![1] = r] BY <1>1, <1>3 DEF Rest
<1>5. /\ Rest \in Seq(Runs) /\ DOMAIN Rest = DOMAIN todo
      /\ Rest[1] = r /\ \A k \in DOMAIN todo : k # 1 => Rest[k] = todo[k]
  <2>1. Rest \in [DOMAIN todo -> Runs] BY <1>1, <1>4
  <2>2. DOMAIN todo = 1 .. Len(todo) /\ Len(todo) \in Nat BY <1>1
  <2> QED BY <1>1, <1>4, <2>1, <2>2
<1>6. \A k \in DOMAIN todo : todo[k] \in Runs BY <1>1
<1>7. ASSUME NEW k \in DOMAIN todo
      PROVE  /\ Rest[k].to = todo[k].to
             /\ \A v \in Nat : In(v, todo[k]) /\ v # NextPage => In(v, Rest[k])
             /\ \A v \in Nat : In(v, Rest[k]) => In(v, todo[k])
  <2>1. CASE k = 1
    <3>1. /\ Rest[k] = r /\ r.from = todo[k].from + 1 /\ r.to = todo[k].to
          /\ NextPage = todo[k].from /\ todo[k].from \in Nat /\ todo[k].to \in Nat
      BY <1>1, <1>2, <1>3, <1>5, <2>1 DEF NextPage
    <3>2. ASSUME NEW v \in Nat
          PROVE  /\ In(v, todo[k]) /\ v # NextPage => In(v, Rest[k])
                 /\ In(v, Rest[k]) => In(v, todo[k])
      <4>1. In(v, todo[k]) <=> NextPage <= v /\ v < todo[k].to BY <3>1 DEF In
      <4>2. In(v, Rest[k]) <=> NextPage + 1 <= v /\ v < todo[k].to BY <3>1 DEF In
      <4>3. NextPage \in Nat BY <3>1
      <4>4. NextPage + 1 <= v <=> NextPage <= v /\ v # NextPage BY <4>3
      <4> QED BY <4>1, <4>2, <4>4
    <3> QED BY <3>1, <3>2
  <2>2. CASE k # 1 BY <1>5, <2>2
  <2> QED BY <2>1, <2>2
<1>8. NextPage = todo[1].from /\ In(NextPage, todo[1]) BY <1>1, <1>2 DEF NextPage, In
<1> QED BY <1>1, <1>2, <1>5, <1>7, <1>8

LEMMA MapsOne ==
  ASSUME IInv, MapPage \/ MapPageNewTable
  PROVE  /\ pc = "map" /\ InRun /\ todo' = Rest
         /\ \E f, t : Extended(NextPage, f, t)
<1>1. Types /\ Owned /\ Loading BY DEF IInv
<1>2. /\ pc = "map" /\ InRun /\ todo' = Rest
      /\ pool # {}
      /\ UNCHANGED <<heapFrames, cr3, pc, dir, image, slurps>>
  <2>1. pool # {} \/ Cardinality(pool) >= 2 BY DEF MapPage, MapPageNewTable
  <2>2. pool # {}
    <3>1. Cardinality({}) = 0 BY FS_EmptySet
    <3> QED BY <2>1, <3>1
  <2> QED BY <2>2 DEF MapPage, MapPageNewTable
<1> DEFINE v == NextPage
           f == Lowest(pool)
<1>3. v \in VPages /\ v \notin Own /\ f \notin Own
  <2>1. v \in Nat /\ v < todo[1].to /\ todo[1].to \in Nat /\ 1 \in DOMAIN todo
    BY <1>1, <1>2, FirstRun DEF In
  <2>2. todo[1].to <= Pdes * Ptes BY <1>1, <1>2, <2>1 DEF Loading, Mapping
  <2>3. v \in VPages BY <2>1, <2>2, Words DEF VPages
  <2> QED BY <2>3 DEF MapPage, MapPageNewTable, Safe
<1> HIDE DEF v
<1>4. PdeOf(v) \in 0 .. Pdes - 1 /\ PteOf(v) \in 0 .. Ptes - 1 BY <1>3, PageIndex
<1>5. f \in pool /\ f \in Nat BY <1>1, <1>2, FrameNumbers, LowestIs
<1> HIDE DEF f
<1>6. dir \in DOMAIN pdir /\ pdir \in [DOMAIN pdir -> [0 .. Pdes - 1 -> Entries \cup {None}]]
      /\ ptab \in [DOMAIN ptab -> [0 .. Ptes - 1 -> Entries \cup {None}]]
  BY <1>1 DEF Types
<1>7. Entry(f, TRUE) \in Entries BY <1>5, EntryKinds
<1>8. ASSUME MapPage PROVE \E g, t : Extended(v, g, t)
  <2> DEFINE t == pdir[dir][PdeOf(v)].frame
  <2>1. /\ pdir[dir][PdeOf(v)] # None
        /\ pool' = pool \ {f} /\ userFrames' = userFrames \cup {f}
        /\ covered' = covered \cup {v}
        /\ pdir' = SetPde(dir, v, t)
        /\ ptab' = [ptab EXCEPT ![t] = SetPte(@, v, f)]
    <3>1. HasTable(v) /\ TableOf(v) = t BY <1>8 DEF MapPage, TableOf, HasTable, v
    <3> QED BY <1>8, <3>1 DEF MapPage, HasTable, v, f
  <2>2. t \in DOMAIN ptab BY <1>1, <1>4, <1>6, <2>1 DEF Types
  <2> HIDE DEF t
  <2>3. t \notin pool /\ t # f /\ t \in Nat BY <1>1, <1>5, <2>2, FrameNumbers DEF Owned
  <2>4. Entry(t, TRUE) \in Entries BY <2>3, EntryKinds
  <2>5. pool' = pool \ {f, t} BY <2>1, <2>3
  <2>6. /\ DOMAIN pdir' = DOMAIN pdir
        /\ pdir' \in [DOMAIN pdir -> [0 .. Pdes - 1 -> Entries \cup {None}]]
        /\ \A d \in DOMAIN pdir, p \in 0 .. Pdes - 1 :
             pdir'[d][p] = IF d = dir /\ p = PdeOf(v) THEN Entry(t, TRUE) ELSE pdir[d][p]
    BY <1>4, <1>6, <2>1, <2>4 DEF SetPde
  <2>7. /\ DOMAIN ptab' = DOMAIN ptab \cup {t} /\ DOMAIN ptab = DOMAIN ptab \cup {t}
        /\ ptab' \in [DOMAIN ptab -> [0 .. Ptes - 1 -> Entries \cup {None}]]
        /\ \A u \in DOMAIN ptab, p \in 0 .. Ptes - 1 :
             ptab'[u][p] = IF u = t /\ p = PteOf(v) THEN Entry(f, TRUE) ELSE ptab[u][p]
    BY <1>4, <1>6, <1>7, <2>1, <2>2 DEF SetPte
  <2>8. Extended(v, f, t)
    BY <1>2, <1>3, <1>5, <2>1, <2>2, <2>3, <2>5, <2>6, <2>7 DEF Extended, t
  <2> QED BY <2>8
<1>9. ASSUME MapPageNewTable PROVE \E g, t : Extended(v, g, t)
  <2> DEFINE t == Lowest(pool \ {f})
  <2>1. /\ pdir[dir][PdeOf(v)] = None /\ Cardinality(pool) >= 2
        /\ pool' = pool \ {f, t} /\ userFrames' = userFrames \cup {f}
        /\ covered' = covered \cup {v}
        /\ pdir' = SetPde(dir, v, t)
        /\ ptab' = With(ptab, t, SetPte(EmptyTable, v, f))
    <3>1. ~HasTable(v) /\ TableOf(v) = t
      BY <1>9 DEF MapPageNewTable, TableOf, HasTable, v, f
    <3> QED BY <1>9, <3>1 DEF MapPageNewTable, HasTable, v, f
  <2>2. t \in pool \ {f}
    <3>1. pool \ {f} # {} BY <1>1, <2>1, FrameNumbers, TwoFrames
    <3>2. pool \ {f} \subseteq Nat BY <1>1, FrameNumbers
    <3> QED BY <3>1, <3>2, LowestIs
  <2> HIDE DEF t
  <2>3. t \in pool /\ t # f /\ t \in Nat /\ t \notin DOMAIN ptab
    BY <1>1, <2>2, FrameNumbers DEF Owned
  <2>4. Entry(t, TRUE) \in Entries BY <2>3, EntryKinds
  <2>5. /\ DOMAIN pdir' = DOMAIN pdir
        /\ pdir' \in [DOMAIN pdir -> [0 .. Pdes - 1 -> Entries \cup {None}]]
        /\ \A d \in DOMAIN pdir, p \in 0 .. Pdes - 1 :
             pdir'[d][p] = IF d = dir /\ p = PdeOf(v) THEN Entry(t, TRUE) ELSE pdir[d][p]
    BY <1>4, <1>6, <2>1, <2>4 DEF SetPde
  <2> DEFINE new == SetPte(EmptyTable, v, f)
  <2>6. /\ new \in [0 .. Ptes - 1 -> Entries \cup {None}]
        /\ \A p \in 0 .. Ptes - 1 : new[p] = IF p = PteOf(v) THEN Entry(f, TRUE) ELSE None
    BY <1>4, <1>7 DEF SetPte, EmptyTable
  <2> HIDE DEF new
  <2>7. ptab' = [u \in DOMAIN ptab \cup {t} |-> IF u = t THEN new ELSE ptab[u]]
    BY <2>1 DEF With, new
  <2>8. /\ DOMAIN ptab' = DOMAIN ptab \cup {t}
        /\ ptab' \in [DOMAIN ptab \cup {t} -> [0 .. Ptes - 1 -> Entries \cup {None}]]
        /\ \A u \in DOMAIN ptab \cup {t}, p \in 0 .. Ptes - 1 :
             ptab'[u][p] = IF u = t /\ p = PteOf(v) THEN Entry(f, TRUE)
                           ELSE IF u \in DOMAIN ptab THEN ptab[u][p] ELSE None
    BY <1>6, <2>3, <2>6, <2>7
  <2>9. Extended(v, f, t)
    BY <1>2, <1>3, <1>5, <2>1, <2>3, <2>5, <2>8 DEF Extended
  <2> QED BY <2>9
<1> QED BY <1>2, <1>8, <1>9 DEF v

LEMMA ExtendedTypes ==
  ASSUME IInv, pc = "map", InRun, todo' = Rest, NEW v, NEW f, NEW t, Extended(v, f, t)
  PROVE  Types' /\ Owned' /\ Shared' /\ Apart'
<1>1. Types /\ Owned /\ Shared /\ Apart BY DEF IInv
<1> DEFINE i == PdeOf(v)
           j == PteOf(v)
<1>2. /\ v \in VPages
      /\ f \in pool /\ t # f
      /\ \/ pdir[dir][i] = None /\ t \in pool
         \/ pdir[dir][i] # None /\ t = pdir[dir][i].frame /\ t \in DOMAIN ptab
      /\ pool' = pool \ {f, t} /\ userFrames' = userFrames \cup {f}
      /\ UNCHANGED <<heapFrames, cr3, pc, dir, image, slurps>>
  BY DEF Extended
<1>3. /\ DOMAIN pdir' = DOMAIN pdir
      /\ pdir' \in [DOMAIN pdir -> [0 .. Pdes - 1 -> Entries \cup {None}]]
      /\ \A d \in DOMAIN pdir, p \in 0 .. Pdes - 1 :
           pdir'[d][p] = IF d = dir /\ p = i THEN Entry(t, TRUE) ELSE pdir[d][p]
  BY DEF Extended
<1>4. /\ DOMAIN ptab' = DOMAIN ptab \cup {t}
      /\ ptab' \in [DOMAIN ptab \cup {t} -> [0 .. Ptes - 1 -> Entries \cup {None}]]
  BY DEF Extended
<1>5. i \in 0 .. Pdes - 1 /\ dir \in DOMAIN pdir BY <1>1, <1>2, PageIndex DEF Types
<1>6. t \in Nat BY <1>1, <1>2, FrameNumbers
<1>7. Entry(t, TRUE) # None /\ Entry(t, TRUE).frame = t BY <1>6, EntryKinds
<1> HIDE DEF i, j
<1>8. Types'
  <2>1. todo' \in Seq(Runs) BY <1>1, FirstRun
  <2>2. \A d \in DOMAIN pdir, p \in 0 .. Pdes - 1 :
          pdir'[d][p] # None => pdir'[d][p].frame \in DOMAIN ptab \cup {t}
    BY <1>1, <1>3, <1>7 DEF Types
  <2> QED BY <1>1, <1>2, <1>3, <1>4, <2>1, <2>2 DEF Types
<1>9. Owned'
  <2> DEFINE D == DOMAIN pdir
             T == DOMAIN ptab
  <2>1. /\ pool \cup heapFrames \cup userFrames \cup D \cup T = PmmFrames
        /\ pool \cap (heapFrames \cup userFrames \cup D \cup T) = {}
        /\ heapFrames \cap (userFrames \cup D \cup T) = {}
        /\ userFrames \cap (D \cup T) = {}
        /\ D \cap T = {}
    BY <1>1 DEF Owned
  <2>2. t \in pool \/ t \in T BY <1>2
  <2>3. DOMAIN pdir' = D /\ DOMAIN ptab' = T \cup {t} BY <1>3, <1>4
  <2> HIDE DEF D, T
  <2>4. pool' \cup heapFrames' \cup userFrames' \cup D \cup (T \cup {t}) = PmmFrames
    BY <1>2, <2>1, <2>2
  <2>5. /\ pool' \cap (heapFrames' \cup userFrames' \cup D \cup (T \cup {t})) = {}
        /\ heapFrames' \cap (userFrames' \cup D \cup (T \cup {t})) = {}
        /\ userFrames' \cap (D \cup (T \cup {t})) = {}
        /\ D \cap (T \cup {t}) = {}
    BY <1>2, <2>1, <2>2
  <2> QED BY <2>3, <2>4, <2>5 DEF Owned
<1>10. Shared'
  <2>1. ASSUME NEW d \in DOMAIN pdir, NEW p \in 0 .. KernelPdes - 1
        PROVE  pdir'[d][p] # None /\ pdir'[d][p].frame = KernelTable(p)
    <3>1. p \in 0 .. Pdes - 1 BY Sizes
    <3>2. pdir[d][p] # None /\ pdir[d][p].frame = KernelTable(p) BY <1>1 DEF Shared
    <3> QED BY <1>2, <1>3, <1>7, <3>1, <3>2
  <2>2. ASSUME NEW d \in DOMAIN pdir, NEW e \in DOMAIN pdir,
               NEW p \in KernelPdes .. Pdes - 1, NEW q \in KernelPdes .. Pdes - 1,
               d # e, pdir'[d][p] # None, pdir'[e][q] # None
        PROVE  pdir'[d][p].frame # pdir'[e][q].frame
    <3>1. p \in 0 .. Pdes - 1 /\ q \in 0 .. Pdes - 1 BY Sizes
    <3>2. pdir[d][p] # None /\ pdir[e][q] # None => pdir[d][p].frame # pdir[e][q].frame
      BY <1>1, <2>2 DEF Shared
    <3>3. /\ pdir[d][p] # None => pdir[d][p].frame \in DOMAIN ptab
          /\ pdir[e][q] # None => pdir[e][q].frame \in DOMAIN ptab
      BY <1>1, <3>1 DEF Types
    <3>4. pdir[dir][i] = None => t \notin DOMAIN ptab BY <1>1, <1>2 DEF Owned
    <3>5. CASE d = dir /\ p = i
      <4>1. pdir'[d][p].frame = t /\ pdir'[e][q] = pdir[e][q]
        BY <1>3, <1>7, <2>2, <3>1, <3>5
      <4> QED BY <1>2, <2>2, <3>2, <3>3, <3>4, <3>5, <4>1
    <3>6. CASE e = dir /\ q = i
      <4>1. pdir'[e][q].frame = t /\ pdir'[d][p] = pdir[d][p]
        BY <1>3, <1>7, <2>2, <3>1, <3>6
      <4> QED BY <1>2, <2>2, <3>2, <3>3, <3>4, <3>6, <4>1
    <3>7. CASE ~(d = dir /\ p = i) /\ ~(e = dir /\ q = i)
      BY <1>3, <2>2, <3>1, <3>2, <3>7
    <3> QED BY <3>5, <3>6, <3>7
  <2> QED BY <1>3, <2>1, <2>2 DEF Shared
<1>11. Apart' BY <1>1 DEF Apart, Extended
<1> QED BY <1>8, <1>9, <1>10, <1>11

LEMMA ExtendedPages ==
  ASSUME IInv, pc = "map", InRun, todo' = Rest,
         NEW v, v = NextPage, NEW f, NEW t, Extended(v, f, t)
  PROVE  UserPages' /\ Loading'
<1>1. Types /\ Owned /\ UserPages /\ Loading BY DEF IInv
<1> DEFINE i == PdeOf(v)
           j == PteOf(v)
<1>2. /\ v \in VPages
      /\ f \in pool /\ t # f
      /\ \/ pdir[dir][i] = None /\ t \in pool
         \/ pdir[dir][i] # None /\ t = pdir[dir][i].frame /\ t \in DOMAIN ptab
      /\ pool' = pool \ {f, t} /\ userFrames' = userFrames \cup {f}
      /\ UNCHANGED <<heapFrames, cr3, pc, dir, image, slurps>>
  BY DEF Extended
<1>3. /\ DOMAIN pdir' = DOMAIN pdir
      /\ \A d \in DOMAIN pdir, p \in 0 .. Pdes - 1 :
           pdir'[d][p] = IF d = dir /\ p = i THEN Entry(t, TRUE) ELSE pdir[d][p]
  BY DEF Extended
<1>4. /\ DOMAIN ptab' = DOMAIN ptab \cup {t}
      /\ \A u \in DOMAIN ptab \cup {t}, p \in 0 .. Ptes - 1 :
           ptab'[u][p] = IF u = t /\ p = j THEN Entry(f, TRUE)
                         ELSE IF u \in DOMAIN ptab THEN ptab[u][p] ELSE None
  BY DEF Extended
<1>5. i \in 0 .. Pdes - 1 /\ j \in 0 .. Ptes - 1 /\ dir \in DOMAIN pdir
  BY <1>1, <1>2, PageIndex DEF Types
<1>6. f \in Nat /\ t \in Nat BY <1>1, <1>2, FrameNumbers
<1>7. /\ Entry(t, TRUE) # None /\ Entry(t, TRUE).frame = t /\ Entry(t, TRUE).user
      /\ Entry(f, TRUE) # None /\ Entry(f, TRUE).frame = f /\ Entry(f, TRUE).user
  BY <1>6, EntryKinds
<1>8. f \notin userFrames BY <1>1, <1>2 DEF Owned
<1> HIDE DEF i, j
\* The pages open to user mode are the old ones and the new.
<1>9. ASSUME NEW u \in DOMAIN ptab \cup {t}, NEW p \in 0 .. Ptes - 1, UserPage(u, p)'
      PROVE  \/ u = t /\ p = j /\ ptab'[u][p].frame = f
             \/ ~(u = t /\ p = j) /\ u \in DOMAIN ptab /\ UserPage(u, p) /\ ptab'[u][p] = ptab[u][p]
  BY <1>4, <1>7, <1>9 DEF UserPage
<1>10. UserPages'
  <2>1. SUFFICES ASSUME NEW u \in DOMAIN ptab \cup {t}, NEW p \in 0 .. Ptes - 1, UserPage(u, p)'
        PROVE  /\ ptab'[u][p].frame \in userFrames'
               /\ \A w \in DOMAIN ptab \cup {t}, q \in 0 .. Ptes - 1 :
                    UserPage(w, q)' /\ ptab'[w][q].frame = ptab'[u][p].frame => w = u /\ q = p
    BY <1>4 DEF UserPages
  <2>2. ASSUME NEW w \in DOMAIN ptab \cup {t}, NEW q \in 0 .. Ptes - 1, UserPage(w, q)',
               ptab'[w][q].frame = ptab'[u][p].frame
        PROVE  w = u /\ q = p
    <3>1. CASE u = t /\ p = j /\ ptab'[u][p].frame = f
      <4>1. ~(w \in DOMAIN ptab /\ UserPage(w, q) /\ ptab'[w][q] = ptab[w][q])
        BY <1>1, <1>8, <2>2, <3>1 DEF UserPages
      <4> QED BY <1>9, <2>2, <3>1, <4>1
    <3>2. CASE u \in DOMAIN ptab /\ UserPage(u, p) /\ ptab'[u][p] = ptab[u][p]
      <4>1. ptab[u][p].frame \in userFrames BY <1>1, <3>2 DEF UserPages
      <4>2. w \in DOMAIN ptab /\ UserPage(w, q) /\ ptab'[w][q] = ptab[w][q]
        BY <1>8, <1>9, <2>2, <3>2, <4>1
      <4> QED BY <1>1, <2>2, <3>2, <4>2 DEF UserPages
    <3> QED BY <1>9, <2>1, <3>1, <3>2
  <2>3. ptab'[u][p].frame \in userFrames'
    BY <1>1, <1>2, <1>9, <2>1 DEF UserPages
  <2> QED BY <2>2, <2>3
\* What was mapped still is, and so is the page.
<1>11. ASSUME NEW w, Mapped(w) PROVE Mapped(w)'
  <2>1. /\ w \in VPages /\ pdir[dir][PdeOf(w)] # None /\ pdir[dir][PdeOf(w)].user
        /\ UserPage(pdir[dir][PdeOf(w)].frame, PteOf(w))
    BY <1>11 DEF Mapped
  <2>2. PdeOf(w) \in 0 .. Pdes - 1 /\ PteOf(w) \in 0 .. Ptes - 1 BY <2>1, PageIndex
  <2> DEFINE u == pdir[dir][PdeOf(w)].frame
  <2>3. u \in DOMAIN ptab BY <1>1, <1>5, <2>1, <2>2 DEF Types
  <2>4. /\ pdir'[dir][PdeOf(w)] # None /\ pdir'[dir][PdeOf(w)].user
        /\ pdir'[dir][PdeOf(w)].frame = u
    BY <1>2, <1>3, <1>5, <1>7, <2>1, <2>2
  <2> HIDE DEF u
  <2>5. ptab'[u][PteOf(w)] # None /\ ptab'[u][PteOf(w)].user
    <3>1. ptab[u][PteOf(w)] # None /\ ptab[u][PteOf(w)].user BY <2>1 DEF UserPage, u
    <3> QED BY <1>4, <1>7, <2>2, <2>3, <3>1
  <2> QED BY <1>2, <2>1, <2>4, <2>5 DEF Mapped, UserPage
<1>12. Mapped(v)'
  <2>1. pdir'[dir][i] = Entry(t, TRUE) BY <1>3, <1>5
  <2>2. ptab'[t][j] = Entry(f, TRUE) BY <1>4, <1>5
  <2> QED BY <1>2, <1>5, <1>7, <2>1, <2>2 DEF Mapped, UserPage, i, j
<1>13. Loading'
  <2>1. \A w \in VPages : Wanted(w) => Mapped(w) \/ Left(w) BY <1>1 DEF Loading, Mapping
  <2>2. /\ DOMAIN todo' = DOMAIN todo
        /\ \A k \in DOMAIN todo :
             /\ todo'[k].to = todo[k].to
             /\ \A w \in Nat : In(w, todo[k]) /\ w # v => In(w, todo'[k])
    BY <1>1, FirstRun
  <2>3. VPages \subseteq Nat BY Words DEF VPages
  <2>4. ASSUME NEW w \in VPages, Wanted(w)' PROVE Mapped(w)' \/ Left(w)'
    <3>1. Wanted(w) BY <1>2, <2>4 DEF Wanted
    <3>2. CASE Mapped(w) BY <1>11, <3>2
    <3>3. CASE Left(w)
      <4>1. PICK k \in DOMAIN todo : In(w, todo[k]) BY <3>3 DEF Left
      <4>2. CASE w = v BY <1>12, <4>2
      <4>3. CASE w # v
        <5>1. k \in DOMAIN todo' /\ In(w, todo'[k]) BY <2>2, <2>3, <4>1, <4>3
        <5> QED BY <5>1 DEF Left, In
      <4> QED BY <4>2, <4>3
    <3> QED BY <2>1, <3>1, <3>2, <3>3
  <2>5. \A k \in DOMAIN todo' : todo'[k].to <= Pdes * Ptes
    BY <1>1, <2>2 DEF Loading, Mapping
  <2>6. Mapping' BY <2>4, <2>5 DEF Mapping
  <2>7. pc' = "map" /\ cr3' = cr3 /\ dir' = dir BY <1>2
  <2>8. cr3' = KernelDir BY <1>1, <2>7 DEF Loading
  <2> QED BY <2>6, <2>7, <2>8 DEF Loading
<1> QED BY <1>10, <1>13

\* Mapping a page leaves every entry of the kernel's tables but the page's own.
LEMMA ExtendedKept ==
  ASSUME IInv, NEW v, NEW f, NEW t, Extended(v, f, t)
  PROVE  Kept'
<1>1. Types /\ Owned /\ Shared /\ Kept BY DEF IInv
<1> DEFINE i == PdeOf(v)
           j == PteOf(v)
<1>2. /\ v \in VPages
      /\ f \in pool /\ t # f
      /\ \/ pdir[dir][i] = None /\ t \in pool
         \/ pdir[dir][i] # None /\ t = pdir[dir][i].frame /\ t \in DOMAIN ptab
      /\ covered' = covered \cup {v}
  BY DEF Extended
<1>3. /\ DOMAIN pdir' = DOMAIN pdir
      /\ \A d \in DOMAIN pdir, p \in 0 .. Pdes - 1 :
           pdir'[d][p] = IF d = dir /\ p = i THEN Entry(t, TRUE) ELSE pdir[d][p]
  BY DEF Extended
<1>4. /\ DOMAIN ptab' = DOMAIN ptab \cup {t}
      /\ \A u \in DOMAIN ptab \cup {t}, p \in 0 .. Ptes - 1 :
           ptab'[u][p] = IF u = t /\ p = j THEN Entry(f, TRUE)
                         ELSE IF u \in DOMAIN ptab THEN ptab[u][p] ELSE None
  BY DEF Extended
<1>5. i \in 0 .. Pdes - 1 /\ j \in 0 .. Ptes - 1 /\ v = i * Ptes + j /\ dir \in DOMAIN pdir
  BY <1>1, <1>2, PageIndex, PageIs DEF Types
<1>6. t \in Nat /\ Entry(t, TRUE).frame = t BY <1>1, <1>2, FrameNumbers, EntryKinds
<1> HIDE DEF i, j
<1>10. \A p \in 0 .. KernelPdes - 1 : KernelTable(p) \in DOMAIN ptab BY <1>1 DEF Kept
\* The table written to is a kernel's only at the kernel's own place.
<1>11. ASSUME NEW p \in 0 .. KernelPdes - 1, t = KernelTable(p) PROVE i = p
  <2>1. pdir[dir][i] # None /\ t = pdir[dir][i].frame
    BY <1>1, <1>2, <1>10, <1>11 DEF Owned
  <2>2. i < KernelPdes
    <3>1. SUFFICES ASSUME ~(i < KernelPdes) PROVE FALSE OBVIOUS
    <3>2. i \in KernelPdes .. Pdes - 1 BY <1>5, <3>1, Sizes
    <3> QED BY <1>1, <1>5, <1>11, <2>1, <3>2 DEF Kept
  <2>3. i \in 0 .. KernelPdes - 1 BY <1>5, <2>2, Sizes
  <2>4. pdir[dir][i].frame = KernelTable(i) BY <1>1, <1>5, <2>3 DEF Shared
  <2>5. KernelTable(i) = KernelTable(p) BY <1>11, <2>1, <2>4
  <2> QED BY <2>3, <2>5, Sizes DEF KernelTable
<1>12. ASSUME NEW p \in 0 .. KernelPdes - 1, NEW q \in 0 .. Ptes - 1,
              p * Ptes + q \notin covered \cup {v}
       PROVE  ptab'[KernelTable(p)][q] = Entry(p * Ptes + q, FALSE)
  <2>1. ~(KernelTable(p) = t /\ q = j) BY <1>5, <1>11, <1>12
  <2>2. ptab'[KernelTable(p)][q] = ptab[KernelTable(p)][q] BY <1>4, <1>10, <2>1
  <2> QED BY <1>1, <1>12, <2>2 DEF Kept
<1>13. ASSUME NEW d \in DOMAIN pdir, NEW p \in KernelPdes .. Pdes - 1,
              NEW q \in 0 .. KernelPdes - 1, pdir'[d][p] # None
       PROVE  pdir'[d][p].frame # KernelTable(q)
  <2>1. p \in 0 .. Pdes - 1 /\ p # q BY Sizes
  <2>2. CASE d = dir /\ p = i
    <3>1. pdir'[d][p].frame = t BY <1>3, <1>5, <1>6, <2>2
    <3> QED BY <1>11, <2>1, <2>2, <3>1
  <2>3. CASE ~(d = dir /\ p = i)
    <3>1. pdir'[d][p] = pdir[d][p] BY <1>3, <2>1, <2>3
    <3> QED BY <1>1, <1>13, <3>1 DEF Kept
  <2> QED BY <2>2, <2>3
<1>14. \A p \in 0 .. KernelPdes - 1 : KernelTable(p) \in DOMAIN ptab' BY <1>4, <1>10
<1>15. \A p \in 0 .. KernelPdes - 1, q \in 0 .. Ptes - 1 : p * Ptes + q \notin covered' =>
         ptab'[KernelTable(p)][q] = Entry(p * Ptes + q, FALSE)
  BY <1>2, <1>12
<1>16. \A d \in DOMAIN pdir', p \in KernelPdes .. Pdes - 1, q \in 0 .. KernelPdes - 1 :
         pdir'[d][p] # None => pdir'[d][p].frame # KernelTable(q)
  BY <1>3, <1>13
<1> QED BY <1>14, <1>15, <1>16 DEF Kept

-------------------------------------------------------------------------------
LEMMA Maps ==
  ASSUME IInv, MapPage \/ MapPageNewTable PROVE IInv'
<1>1. PICK v : v = NextPage OBVIOUS
<1>2. PICK f, t : Extended(v, f, t) BY <1>1, MapsOne
<1>3. pc = "map" /\ InRun /\ todo' = Rest BY MapsOne
<1>4. Types' /\ Owned' /\ Shared' /\ Apart' BY <1>2, <1>3, ExtendedTypes
<1>5. UserPages' /\ Loading' BY <1>1, <1>2, <1>3, ExtendedPages
<1>6. Kept' BY <1>2, ExtendedKept
<1> QED BY <1>4, <1>5, <1>6 DEF IInv

\* A clone has the kernel's part of the directory that was loaded and no other.
LEMMA Clones ==
  ASSUME IInv, ExecClone PROVE IInv'
<1>1. Types /\ Owned /\ Shared /\ UserPages /\ Apart /\ Kept /\ Loading BY DEF IInv
<1>2. /\ pc = "shell" /\ pool # {} /\ pool' = pool \ {dir'} /\ pc' = "open"
      /\ pdir' = With(pdir, dir', Clone(cr3))
      /\ UNCHANGED <<heapFrames, userFrames, ptab, covered, cr3, image, todo, slurps>>
  BY DEF ExecClone
<1>3. dir' \in pool
  <2>1. dir' = Lowest(pool) BY DEF ExecClone
  <2> QED BY <1>1, <1>2, <2>1, FrameNumbers, LowestIs
<1>4. dir' \notin DOMAIN pdir BY <1>1, <1>3 DEF Owned
<1> DEFINE new == Clone(cr3)
<1>5. /\ new \in [0 .. Pdes - 1 -> Entries \cup {None}]
      /\ \A p \in 0 .. Pdes - 1 :
           /\ p < KernelPdes => new[p] = pdir[cr3][p]
           /\ ~(p < KernelPdes) => new[p] = None
  BY <1>1 DEF Clone, Types
<1> HIDE DEF new
<1>6. /\ DOMAIN pdir' = DOMAIN pdir \cup {dir'}
      /\ pdir' \in [DOMAIN pdir \cup {dir'} -> [0 .. Pdes - 1 -> Entries \cup {None}]]
      /\ pdir'[dir'] = new
      /\ \A d \in DOMAIN pdir : pdir'[d] = pdir[d]
  <2>1. pdir' = [d \in DOMAIN pdir \cup {dir'} |-> IF d = dir' THEN new ELSE pdir[d]]
    BY <1>2 DEF With, new
  <2> QED BY <1>1, <1>4, <1>5, <2>1 DEF Types
<1>7. Types'
  <2>1. \A d \in DOMAIN pdir', p \in 0 .. Pdes - 1 :
          pdir'[d][p] # None => pdir'[d][p].frame \in DOMAIN ptab
    BY <1>1, <1>5, <1>6 DEF Types
  <2> QED BY <1>1, <1>2, <1>6, <2>1 DEF Types
<1>8. Owned'
  <2> DEFINE D == DOMAIN pdir
             T == DOMAIN ptab
             n == dir'
  <2>1. /\ pool \cup heapFrames \cup userFrames \cup D \cup T = PmmFrames
        /\ pool \cap (heapFrames \cup userFrames \cup D \cup T) = {}
        /\ heapFrames \cap (userFrames \cup D \cup T) = {}
        /\ userFrames \cap (D \cup T) = {}
        /\ D \cap T = {}
    BY <1>1 DEF Owned
  <2>2. DOMAIN pdir' = D \cup {n} /\ DOMAIN ptab' = T /\ n \in pool /\ pool' = pool \ {n}
        /\ heapFrames' = heapFrames /\ userFrames' = userFrames
    BY <1>2, <1>3, <1>6
  <2> HIDE DEF D, T, n
  <2>3. pool' \cup heapFrames' \cup userFrames' \cup (D \cup {n}) \cup T = PmmFrames
    BY <2>1, <2>2
  <2>4. /\ pool' \cap (heapFrames' \cup userFrames' \cup (D \cup {n}) \cup T) = {}
        /\ heapFrames' \cap (userFrames' \cup (D \cup {n}) \cup T) = {}
        /\ userFrames' \cap ((D \cup {n}) \cup T) = {}
        /\ (D \cup {n}) \cap T = {}
    BY <2>1, <2>2
  <2> QED BY <2>2, <2>3, <2>4 DEF Owned
<1>9. Shared'
  <2>1. ASSUME NEW d \in DOMAIN pdir', NEW p \in 0 .. KernelPdes - 1
        PROVE  pdir'[d][p] # None /\ pdir'[d][p].frame = KernelTable(p)
    <3>1. p \in 0 .. Pdes - 1 /\ p < KernelPdes BY Sizes
    <3>2. cr3 \in DOMAIN pdir BY <1>1 DEF Types
    <3>3. pdir'[d][p] = pdir[cr3][p] \/ (d \in DOMAIN pdir /\ pdir'[d][p] = pdir[d][p])
      BY <1>5, <1>6, <3>1
    <3> QED BY <1>1, <3>2, <3>3 DEF Shared
  <2>2. ASSUME NEW d \in DOMAIN pdir', NEW p \in KernelPdes .. Pdes - 1, pdir'[d][p] # None
        PROVE  d \in DOMAIN pdir /\ pdir'[d][p] = pdir[d][p]
    <3>1. p \in 0 .. Pdes - 1 /\ ~(p < KernelPdes) BY Sizes
    <3> QED BY <1>5, <1>6, <2>2, <3>1
  <2>3. \A d, e \in DOMAIN pdir', p, q \in KernelPdes .. Pdes - 1 :
          d # e /\ pdir'[d][p] # None /\ pdir'[e][q] # None
            => pdir'[d][p].frame # pdir'[e][q].frame
    BY <1>1, <2>2 DEF Shared
  <2> QED BY <2>1, <2>3 DEF Shared
<1>10. UserPages' BY <1>1, <1>2 DEF UserPages, UserPage
<1>11. Loading' BY <1>1, <1>2 DEF Loading
<1>12. Apart' BY <1>1, <1>2 DEF Apart
<1>13. Kept'
  <2>1. \A p \in KernelPdes .. Pdes - 1 : p \in 0 .. Pdes - 1 /\ ~(p < KernelPdes) BY Sizes
  <2>2. \A p \in KernelPdes .. Pdes - 1 : new[p] = None BY <1>5, <2>1
  <2> QED BY <1>1, <1>2, <1>6, <2>2 DEF Kept
<1> QED BY <1>7, <1>8, <1>9, <1>10, <1>11, <1>12, <1>13 DEF IInv

\* The heap grows, or a page's frame is taken and its table cannot be: frames leave
\* the pool for one owner and no table changes.
LEMMA FramesTaken ==
  ASSUME IInv, UNCHANGED <<pdir, ptab, covered>>, NEW S \in SUBSET pool, pool' = pool \ S,
         \/ heapFrames' = heapFrames \cup S /\ userFrames' = userFrames
         \/ userFrames' = userFrames \cup S /\ heapFrames' = heapFrames
  PROVE  Owned' /\ Shared' /\ UserPages' /\ Kept'
<1>1. Owned /\ Shared /\ UserPages /\ Kept BY DEF IInv
<1>2. Owned'
  <2> DEFINE D == DOMAIN pdir
             T == DOMAIN ptab
  <2>1. /\ pool \cup heapFrames \cup userFrames \cup D \cup T = PmmFrames
        /\ pool \cap (heapFrames \cup userFrames \cup D \cup T) = {}
        /\ heapFrames \cap (userFrames \cup D \cup T) = {}
        /\ userFrames \cap (D \cup T) = {}
        /\ D \cap T = {}
    BY <1>1 DEF Owned
  <2>2. DOMAIN pdir' = D /\ DOMAIN ptab' = T OBVIOUS
  <2> HIDE DEF D, T
  <2>3. /\ pool' \cup heapFrames' \cup userFrames' \cup D \cup T = PmmFrames
        /\ pool' \cap (heapFrames' \cup userFrames' \cup D \cup T) = {}
        /\ heapFrames' \cap (userFrames' \cup D \cup T) = {}
        /\ userFrames' \cap (D \cup T) = {}
    BY <2>1
  <2> QED BY <2>1, <2>2, <2>3 DEF Owned
<1>3. Shared' BY <1>1 DEF Shared
<1>4. UserPages' BY <1>1 DEF UserPages, UserPage
<1>5. Kept' BY <1>1 DEF Kept
<1> QED BY <1>2, <1>3, <1>4, <1>5

LEMMA Takes ==
  ASSUME IInv, (\E img \in Images : Slurp(img)) \/ MapPageHalts PROVE IInv'
<1>1. Types /\ Owned /\ Apart /\ Loading BY DEF IInv
<1>2. CASE \E img \in Images : Slurp(img)
  <2>1. PICK img \in Images : Slurp(img) BY <1>2
  <2>2. /\ pc = "open" /\ slurps < MaxSlurps /\ slurps' = slurps + 1 /\ image' = img
        /\ todo' = MapRuns(img) \o StackRuns /\ pc' = "map"
        /\ heapFrames' = heapFrames \cup LowestOf(SlurpFrames)
        /\ pool' = pool \ LowestOf(SlurpFrames)
        /\ UNCHANGED <<userFrames, pdir, ptab, covered, cr3, dir>>
    BY <2>1 DEF Slurp
  <2>3. LowestOf(SlurpFrames) \in SUBSET pool BY DEF LowestOf
  <2>4. Owned' /\ Shared' /\ UserPages' /\ Kept' BY <2>2, <2>3, FramesTaken
  <2>5. img \in Seq(Segments) /\ StackPages \in Seq(VPages) BY ImageAssumption
  <2>6. /\ MapRuns(img) \in Seq(Runs) /\ DOMAIN MapRuns(img) = DOMAIN img
        /\ \A k \in DOMAIN img : MapRuns(img)[k] = MapRun(img[k])
                               /\ MapRuns(img)[k].to <= Pdes * Ptes
    <3>1. DOMAIN img = 1 .. Len(img) /\ Len(img) \in Nat BY <2>5
    <3>2. \A k \in DOMAIN img : MapRun(img[k]) \in Runs /\ MapRun(img[k]).to <= Pdes * Ptes
      BY <2>5, MapRunIs
    <3> QED BY <3>1, <3>2 DEF MapRuns
  <2>7. /\ StackRuns \in Seq(Runs) /\ DOMAIN StackRuns = DOMAIN StackPages
        /\ \A k \in DOMAIN StackPages : /\ StackRuns[k].to <= Pdes * Ptes
                                      /\ In(StackPages[k], StackRuns[k])
    <3>1. DOMAIN StackPages = 1 .. Len(StackPages) /\ Len(StackPages) \in Nat BY <2>5
    <3>2. \A k \in DOMAIN StackPages : StackPages[k] \in Nat /\ StackPages[k] < Pdes * Ptes
      BY <2>5, Words DEF VPages
    <3>3. \A v \in Nat : /\ StackRun(v) \in Runs /\ StackRun(v).to = v + 1
                         /\ In(v, StackRun(v))
      BY DEF StackRun, Runs, In
    <3>4. \A k \in DOMAIN StackPages : StackRuns[k] = StackRun(StackPages[k])
      BY DEF StackRuns
    <3>5. StackRuns \in Seq(Runs) /\ DOMAIN StackRuns = DOMAIN StackPages
      BY <3>1, <3>2, <3>3 DEF StackRuns
    <3>6. ASSUME NEW k \in DOMAIN StackPages
          PROVE  StackRuns[k].to <= Pdes * Ptes /\ In(StackPages[k], StackRuns[k])
      <4>1. PICK v \in Nat : v = StackPages[k] /\ v < Pdes * Ptes BY <3>2
      <4>2. StackRuns[k] = StackRun(v) BY <3>4, <4>1
      <4>3. v + 1 <= Pdes * Ptes BY <4>1, Words
      <4> QED BY <3>3, <4>1, <4>2, <4>3
    <3> QED BY <3>5, <3>6
  <2> DEFINE a == MapRuns(img)
             b == StackRuns
  <2>8. /\ todo' \in Seq(Runs)
        /\ \A k \in DOMAIN a : k \in DOMAIN todo' /\ todo'[k] = a[k]
        /\ \A k \in DOMAIN b : Len(a) + k \in DOMAIN todo' /\ todo'[Len(a) + k] = b[k]
        /\ \A k \in DOMAIN todo' : (\E j \in DOMAIN a : todo'[k] = a[j])
                                 \/ (\E j \in DOMAIN b : todo'[k] = b[j])
    <3>1. a \in Seq(Runs) /\ b \in Seq(Runs) /\ todo' = a \o b BY <2>2, <2>6, <2>7
    <3> HIDE DEF a, b
    <3>2. ASSUME NEW x, x = a \o b
          PROVE  /\ x \in Seq(Runs)
                 /\ \A k \in DOMAIN a : k \in DOMAIN x /\ x[k] = a[k]
                 /\ \A k \in DOMAIN b : Len(a) + k \in DOMAIN x /\ x[Len(a) + k] = b[k]
                 /\ \A k \in DOMAIN x : (\E j \in DOMAIN a : x[k] = a[j])
                                     \/ (\E j \in DOMAIN b : x[k] = b[j])
      <4>1. x \in Seq(Runs) BY <3>1, <3>2
      <4>2. /\ \A k \in DOMAIN a : k \in DOMAIN x /\ x[k] = a[k]
            /\ \A k \in DOMAIN b : Len(a) + k \in DOMAIN x /\ x[Len(a) + k] = b[k]
        BY <3>1, <3>2
      <4>3. ASSUME NEW k \in DOMAIN x
            PROVE  (\E j \in DOMAIN a : x[k] = a[j]) \/ (\E j \in DOMAIN b : x[k] = b[j])
        <5>1. \/ k \in DOMAIN a /\ x[k] = a[k]
              \/ k - Len(a) \in DOMAIN b /\ x[k] = b[k - Len(a)]
          BY <3>1, <3>2, <4>3
        <5> QED BY <5>1
      <4> QED BY <4>1, <4>2, <4>3
    <3> QED BY <3>1, <3>2
  <2> HIDE DEF a, b
  <2>9. Mapping'
    <3>1. \A k \in DOMAIN todo' : todo'[k].to <= Pdes * Ptes BY <2>6, <2>7, <2>8 DEF a, b
    <3>2. ASSUME NEW v \in VPages, Wanted(v)' PROVE Left(v)'
      <4>1. CASE \E k \in DOMAIN img : In(v, MapRun(img[k]))
        <5>1. PICK k \in DOMAIN img : In(v, MapRun(img[k])) BY <4>1
        <5>2. k \in DOMAIN todo' /\ todo'[k] = MapRun(img[k]) BY <2>6, <2>8 DEF a
        <5> QED BY <5>1, <5>2 DEF Left, In
      <4>2. CASE \E k \in DOMAIN StackPages : v = StackPages[k]
        <5>1. PICK k \in DOMAIN StackPages : v = StackPages[k] BY <4>2
        <5>2. Len(a) + k \in DOMAIN todo' /\ todo'[Len(a) + k] = b[k] BY <2>7, <2>8 DEF b
        <5>3. In(v, b[k]) BY <2>7, <5>1 DEF b
        <5> QED BY <5>2, <5>3 DEF Left, In
      <4> QED BY <2>2, <3>2, <4>1, <4>2 DEF Wanted
    <3> QED BY <3>1, <3>2 DEF Mapping
  <2>10. slurps' \in 0 .. MaxSlurps BY <1>1, <2>2, Sizes DEF Types
  <2>11. Types' BY <1>1, <2>2, <2>5, <2>8, <2>10 DEF Types
  <2>12. Loading' BY <1>1, <2>2, <2>9 DEF Loading
  <2>13. Apart' BY <1>1, <2>2 DEF Apart
  <2> QED BY <2>4, <2>11, <2>12, <2>13 DEF IInv
<1>3. CASE MapPageHalts
  <2>1. /\ pc' = "halted" /\ userFrames' = userFrames \cup pool /\ pool' = pool \ pool
        /\ UNCHANGED <<heapFrames, pdir, ptab, covered, cr3, dir, image, todo, slurps>>
        /\ Cardinality(pool) = 1 /\ Lowest(pool) \notin Own
    BY <1>3 DEF MapPageHalts, load, Safe
  <2>2. Owned' /\ Shared' /\ UserPages' /\ Kept' BY <2>1, FramesTaken
  <2>3. Types' BY <1>1, <2>1 DEF Types
  <2>4. Loading' BY <2>1 DEF Loading
  <2>5. Apart'
    <3>1. pool \subseteq PmmFrames /\ pool \subseteq Nat BY <1>1, FrameNumbers
    <3>2. IsFiniteSet(pool)
      <4>1. IsFiniteSet(PmmFrames) BY Sizes, FS_Interval DEF PmmFrames
      <4> QED BY <3>1, <4>1, FS_Subset
    <3>3. PICK f : pool = {f} BY <2>1, <3>2, FS_Singleton
    <3>4. Lowest(pool) = f BY <3>1, <3>3, LowestIs
    <3> QED BY <1>1, <2>1, <3>3, <3>4 DEF Apart
  <2> QED BY <2>2, <2>3, <2>4, <2>5 DEF IInv
<1> QED BY <1>2, <1>3

\* The steps that only load a directory or go on.
Onward ==
  \/ ExecHalts \/ ExecAstray \/ Reject \/ SlurpHalts \/ NextRun \/ MapAstray \/ MapFails
  \/ SwitchToImage \/ CopyPage \/ CopyAstray \/ CopyDone \/ EnterUser \/ UserExit

LEMMA Continues ==
  ASSUME IInv, Onward PROVE IInv'
<1>1. Types /\ Owned /\ Shared /\ UserPages /\ Apart /\ Kept /\ Loading BY DEF IInv
<1>2. UNCHANGED <<pool, heapFrames, userFrames, pdir, ptab, covered, dir, image, slurps>>
  BY DEF Onward, ExecHalts, ExecAstray, Reject, SlurpHalts, NextRun, MapAstray, MapFails,
         SwitchToImage, CopyPage, CopyAstray, CopyDone, EnterUser, UserExit, memory, load
<1>3. Owned' /\ Shared' /\ UserPages' /\ Apart' /\ Kept'
  <2>1. Owned' /\ Shared' BY <1>1, <1>2 DEF Owned, Shared
  <2>2. UserPages' /\ Apart' BY <1>1, <1>2 DEF UserPages, UserPage, Apart
  <2>3. Kept' BY <1>1, <1>2 DEF Kept
  <2> QED BY <2>1, <2>2, <2>3
<1>4. \A v : (Mapped(v)' <=> Mapped(v)) /\ (Wanted(v)' <=> Wanted(v))
  BY <1>2 DEF Mapped, UserPage, Wanted
<1>5. AllMapped => AllMapped' BY <1>4 DEF AllMapped
<1>6. CASE ExecHalts \/ ExecAstray \/ Reject \/ SlurpHalts \/ MapAstray \/ CopyAstray \/ UserExit
  <2>1. UNCHANGED <<cr3, todo>> /\ pc' \in {"halted", "astray", "shell", "exited"}
        /\ (pc' = "shell" => pc = "open")
    BY <1>6 DEF ExecHalts, ExecAstray, Reject, SlurpHalts, MapAstray, CopyAstray, UserExit, load
  <2>2. Types' BY <1>1, <1>2, <2>1 DEF Types
  <2>3. Loading' BY <1>1, <1>2, <2>1 DEF Loading
  <2> QED BY <1>3, <2>2, <2>3 DEF IInv
<1>7. CASE MapFails
  <2>1. cr3' = cr3 /\ todo' = <<>> /\ pc' = "shell" /\ pc = "map" BY <1>7 DEF MapFails
  <2>2. Types' BY <1>1, <1>2, <2>1 DEF Types
  <2>3. Loading' BY <1>1, <1>2, <2>1 DEF Loading
  <2> QED BY <1>3, <2>2, <2>3 DEF IInv
<1>8. CASE SwitchToImage
  <2>1. pc = "map" /\ todo = <<>> /\ cr3' = dir /\ pc' = "copy" /\ todo' = CopyRuns(image)
    BY <1>8 DEF SwitchToImage
  <2>2. image \in Seq(Segments) BY <1>1 DEF Types
  <2>3. /\ todo' \in Seq(Runs) /\ DOMAIN todo' = DOMAIN image
        /\ \A k \in DOMAIN image : todo'[k] = CopyRun(image[k])
    <3>1. DOMAIN image = 1 .. Len(image) /\ Len(image) \in Nat BY <2>2
    <3>2. \A k \in DOMAIN image : CopyRun(image[k]) \in Runs BY <2>2, CopyRunIs
    <3> QED BY <2>1, <3>1, <3>2 DEF CopyRuns
  <2>4. Types' BY <1>1, <1>2, <2>1, <2>3 DEF Types
  <2>5. AllMapped
    <3>1. \A v : ~Left(v) BY <2>1 DEF Left
    <3> QED BY <1>1, <2>1, <3>1 DEF Loading, Mapping, AllMapped
  <2>6. Copying' BY <1>2, <2>3 DEF Copying, Left, In
  <2>7. Loading' BY <1>2, <1>5, <2>1, <2>5, <2>6 DEF Loading
  <2> QED BY <1>3, <2>4, <2>7 DEF IInv
<1>9. CASE NextRun
  <2>1. /\ pc \in {"map", "copy"} /\ todo # <<>> /\ ~Head(todo).beyond /\ ~InRun
        /\ todo' = Tail(todo) /\ UNCHANGED <<cr3, pc>>
    BY <1>9 DEF NextRun
  <2>2. /\ todo \in Seq(Runs) /\ todo' \in Seq(Runs) /\ Head(todo) = todo[1] /\ todo[1] \in Runs
        /\ \A k \in DOMAIN todo' : k + 1 \in DOMAIN todo /\ todo'[k] = todo[k + 1]
        /\ \A k \in DOMAIN todo : k # 1 => k - 1 \in DOMAIN todo' /\ todo'[k - 1] = todo[k]
    BY <1>1, <2>1 DEF Types
  <2>3. Types' BY <1>1, <1>2, <2>1, <2>2 DEF Types
  <2>4. \A v \in Nat : ~In(v, todo[1])
    <3>1. ~(todo[1].from < todo[1].to) BY <2>1, <2>2 DEF InRun
    <3>2. todo[1].from \in Nat /\ todo[1].to \in Nat BY <2>2 DEF Runs
    <3> QED BY <3>1, <3>2 DEF In
  <2>5. \A v \in Nat : Left(v)' <=> Left(v)
    <3>1. ASSUME NEW v \in Nat, Left(v) PROVE Left(v)'
      <4>1. PICK k \in DOMAIN todo : In(v, todo[k]) BY <3>1 DEF Left
      <4>2. k # 1 BY <2>4, <4>1
      <4>3. k - 1 \in DOMAIN todo' /\ In(v, todo'[k - 1]) BY <2>2, <4>1, <4>2
      <4> QED BY <4>3 DEF Left, In
    <3>2. ASSUME NEW v \in Nat, Left(v)' PROVE Left(v)
      <4>1. PICK k \in DOMAIN todo' : In(v, todo'[k]) BY <3>2 DEF Left, In
      <4>2. k + 1 \in DOMAIN todo /\ In(v, todo[k + 1]) BY <2>2, <4>1
      <4> QED BY <4>2 DEF Left
    <3> QED BY <3>1, <3>2
  <2>6. pc = "map" => Mapping'
    <3>1. SUFFICES ASSUME pc = "map" PROVE Mapping' OBVIOUS
    <3>2. Mapping BY <1>1, <3>1 DEF Loading
    <3>3. \A k \in DOMAIN todo' : todo'[k].to <= Pdes * Ptes BY <2>2, <3>2 DEF Mapping
    <3>4. VPages \subseteq Nat BY Words DEF VPages
    <3> QED BY <1>4, <2>5, <3>2, <3>3, <3>4 DEF Mapping
  <2>7. pc = "copy" => Copying'
    <3>1. SUFFICES ASSUME pc = "copy" PROVE Copying' OBVIOUS
    <3>2. Copying BY <1>1, <3>1 DEF Loading
    <3> QED BY <1>2, <2>5, <3>2 DEF Copying
  <2>8. Loading' BY <1>1, <1>2, <1>5, <2>1, <2>6, <2>7 DEF Loading
  <2> QED BY <1>3, <2>3, <2>8 DEF IInv
<1>10. CASE CopyPage
  <2>1. pc = "copy" /\ InRun /\ todo' = Rest /\ UNCHANGED <<cr3, pc>> BY <1>10 DEF CopyPage
  <2>2. /\ todo' \in Seq(Runs) /\ DOMAIN todo' = DOMAIN todo
        /\ \A k \in DOMAIN todo : \A v \in Nat : In(v, todo'[k]) => In(v, todo[k])
    BY <1>1, <2>1, FirstRun
  <2>3. Types' BY <1>1, <1>2, <2>1, <2>2 DEF Types
  <2>4. Copying /\ AllMapped BY <1>1, <2>1 DEF Loading
  <2>5. \A v \in Nat : Left(v)' => Left(v) BY <2>2 DEF Left, In
  <2>6. Copying' BY <1>2, <2>4, <2>5 DEF Copying
  <2>7. Loading' BY <1>1, <1>2, <1>5, <2>1, <2>4, <2>6 DEF Loading
  <2> QED BY <1>3, <2>3, <2>7 DEF IInv
<1>11. CASE CopyDone \/ EnterUser
  <2>1. /\ pc \in {"copy", "loaded"} /\ UNCHANGED todo
        /\ \/ cr3' = KernelDir /\ pc' = "loaded"
           \/ cr3' = dir /\ pc' = "user"
    BY <1>11 DEF CopyDone, EnterUser, load
  <2>2. Types' BY <1>1, <1>2, <2>1 DEF Types
  <2>3. AllMapped BY <1>1, <2>1 DEF Loading
  <2>4. KernelDir' = KernelDir BY DEF KernelDir
  <2>5. Loading' BY <1>2, <1>5, <2>1, <2>3, <2>4 DEF Loading
  <2> QED BY <1>3, <2>2, <2>5 DEF IInv
<1> QED BY <1>6, <1>7, <1>8, <1>9, <1>10, <1>11 DEF Onward

LEMMA Preserved == IInv /\ [Next]_vars => IInv'
<1> SUFFICES ASSUME IInv, [Next]_vars PROVE IInv' OBVIOUS
<1>1. CASE Next
  BY <1>1, Maps, Clones, Takes, Continues DEF Next, LoadStep, Onward
<1>2. CASE UNCHANGED vars
  <2>1. /\ UNCHANGED <<pool, heapFrames, userFrames, pdir, ptab, covered>>
        /\ UNCHANGED <<cr3, pc, dir, image, todo, slurps>>
    BY <1>2 DEF vars, memory, load
  <2>2. Types' /\ Owned' /\ Shared' /\ UserPages' /\ Apart' /\ Kept'
    <3>1. Types' /\ Owned' /\ Shared' BY <2>1 DEF IInv, Types, Owned, Shared
    <3>2. UserPages' /\ Apart' BY <2>1 DEF IInv, UserPages, UserPage, Apart
    <3>3. Kept' BY <2>1 DEF IInv, Kept
    <3> QED BY <3>1, <3>2, <3>3
  <2>3. \A v : /\ (Mapped(v)' <=> Mapped(v)) /\ (Wanted(v)' <=> Wanted(v))
              /\ (Left(v)' <=> Left(v))
    BY <2>1 DEF Mapped, UserPage, Wanted, Left, In
  <2>4. Loading' BY <2>1, <2>3 DEF IInv, Loading, Mapping, AllMapped, Copying
  <2> QED BY <2>2, <2>4 DEF IInv
<1> QED BY <1>1, <1>2

LEMMA Inductive == Spec => []IInv
<1> QED BY Initially, Preserved, PTL DEF Spec

-------------------------------------------------------------------------------
\* What IInv says of the pages of a program on the directory it runs on.
LEMMA Reached ==
  ASSUME IInv, cr3 = dir, NEW v, Mapped(v)
  PROVE  /\ UserReaches(v) /\ Translate(cr3, v) # None
         /\ Translate(cr3, v).frame \in userFrames
<1>1. Types /\ UserPages BY DEF IInv
<1> DEFINE t == pdir[dir][PdeOf(v)].frame
<1>2. /\ v \in VPages /\ pdir[dir][PdeOf(v)] # None /\ pdir[dir][PdeOf(v)].user
      /\ UserPage(t, PteOf(v))
  BY DEF Mapped
<1>3. PdeOf(v) \in 0 .. Pdes - 1 /\ PteOf(v) \in 0 .. Ptes - 1 BY <1>2, PageIndex
<1>4. t \in DOMAIN ptab BY <1>1, <1>2, <1>3 DEF Types
<1>5. Translate(cr3, v) = ptab[t][PteOf(v)] BY <1>2 DEF Translate
<1> HIDE DEF t
<1>6. ptab[t][PteOf(v)] # None /\ ptab[t][PteOf(v)].user BY <1>2 DEF UserPage
<1>7. ptab[t][PteOf(v)].frame \in userFrames BY <1>1, <1>2, <1>3, <1>4 DEF UserPages
<1> QED BY <1>2, <1>5, <1>6, <1>7 DEF UserReaches

\* No frame ever has two owners, whatever fails on the way.
THEOREM TypeCorrect == Spec => []TypeOK
<1>1. IInv => TypeOK
  BY DEF IInv, Types, Owned, Apart, TypeOK, Tables
<1> QED BY <1>1, Inductive, PTL

\* No page of a program is another program's page too.
THEOREM OncePerFrame == Spec => []MappedOnce
<1>1. IInv => MappedOnce
  <2> SUFFICES ASSUME IInv, NEW f \in userFrames
        PROVE  Cardinality({at \in (DOMAIN ptab) \X (0 .. Ptes - 1) :
                             ptab[at[1]][at[2]] = Entry(f, TRUE)}) <= 1
    BY DEF MappedOnce
  <2> DEFINE K == {at \in (DOMAIN ptab) \X (0 .. Ptes - 1) : ptab[at[1]][at[2]] = Entry(f, TRUE)}
  <2>1. Owned /\ UserPages BY DEF IInv
  <2>2. f \in Nat BY <2>1, Sizes DEF Owned, PmmFrames
  <2>3. \A a, b \in K : a = b
    <3>1. SUFFICES ASSUME NEW a \in K, NEW b \in K PROVE a = b OBVIOUS
    <3>2. PICK t \in DOMAIN ptab, p \in 0 .. Ptes - 1 : a = <<t, p>> OBVIOUS
    <3>3. PICK u \in DOMAIN ptab, q \in 0 .. Ptes - 1 : b = <<u, q>> OBVIOUS
    <3>4. ptab[t][p] = Entry(f, TRUE) /\ ptab[u][q] = Entry(f, TRUE) BY <3>2, <3>3
    <3> HIDE DEF K
    <3>5. UserPage(t, p) /\ UserPage(u, q) BY <2>2, <3>4, EntryKinds DEF UserPage
    <3>6. ptab[u][q].frame = ptab[t][p].frame BY <3>4
    <3>7. u = t /\ q = p BY <2>1, <3>5, <3>6 DEF UserPages
    <3> QED BY <3>2, <3>3, <3>7
  <2> HIDE DEF K
  <2>4. K = {} \/ \E a \in K : K = {a} BY <2>3
  <2>5. CASE K = {}
    <3>1. Cardinality(K) = 0 BY <2>5, FS_EmptySet
    <3> QED BY <3>1 DEF K
  <2>6. CASE \E a \in K : K = {a}
    <3>1. Cardinality(K) = 1 BY <2>6, FS_Singleton
    <3> QED BY <3>1 DEF K
  <2> QED BY <2>4, <2>5, <2>6
<1> QED BY <1>1, Inductive, PTL

\* The kernel can run on any directory, and no program sees another's tables.
THEOREM KernelShared == Spec => []KernelHalfShared
<1>1. IInv => KernelHalfShared
  <2> SUFFICES ASSUME IInv PROVE KernelHalfShared OBVIOUS
  <2>1. Shared /\ KernelDir \in DOMAIN pdir BY DEF IInv, Types
  <2> QED BY <2>1 DEF Shared, KernelHalfShared
<1> QED BY <1>1, Inductive, PTL

\* A program that is entered can use its stack, and all of itself if no segment's end
\* wraps; one that is entered at all met no access of the loader that went astray.
THEOREM AllReachable == Spec => []ProgramReachable
<1>1. IInv => ProgramReachable
  <2> SUFFICES ASSUME IInv, pc = "user" PROVE ProgramReachable BY DEF ProgramReachable
  <2>1. cr3 = dir /\ AllMapped /\ Types BY DEF IInv, Loading
  <2>2. \A v \in VPages : Wanted(v) => UserReaches(v) BY <2>1, Reached DEF AllMapped
  <2>3. ASSUME NEW k \in DOMAIN image, NEW v \in VPages, InWord(image[k]), Holds(v, image[k])
        PROVE  UserReaches(v)
    <3>1. image[k] \in Segments BY <2>1 DEF Types
    <3>2. In(v, MapRun(image[k])) BY <2>3, <3>1, HeldIsMapped
    <3> QED BY <2>2, <3>2 DEF Wanted
  <2>4. \A k \in DOMAIN StackPages : UserReaches(StackPages[k])
    <3>1. \A k \in DOMAIN StackPages : StackPages[k] \in VPages BY ImageAssumption
    <3> QED BY <2>2, <3>1 DEF Wanted
  <2> QED BY <2>3, <2>4 DEF ProgramReachable
<1> QED BY <1>1, Inductive, PTL

\* ... and reaches nothing of the kernel's, whatever it and others before it mapped.
THEOREM NothingElse == Spec => []KernelUnreachable
<1>1. IInv => KernelUnreachable
  <2> SUFFICES ASSUME IInv, NEW v \in VPages, UserReaches(v)
               PROVE  Translate(cr3, v).frame \in userFrames \ Own
    BY DEF KernelUnreachable
  <2> DEFINE t == pdir[cr3][PdeOf(v)].frame
  <2>1. Types /\ UserPages /\ Apart BY DEF IInv
  <2>2. PdeOf(v) \in 0 .. Pdes - 1 /\ PteOf(v) \in 0 .. Ptes - 1 BY PageIndex
  <2>3. pdir[cr3][PdeOf(v)] # None BY DEF UserReaches, Translate
  <2>4. t \in DOMAIN ptab BY <2>1, <2>2, <2>3 DEF Types
  <2>5. Translate(cr3, v) = ptab[t][PteOf(v)] BY <2>3 DEF Translate
  <2> HIDE DEF t
  <2>6. UserPage(t, PteOf(v)) BY <2>5 DEF UserReaches, UserPage
  <2>7. Translate(cr3, v).frame \in userFrames BY <2>1, <2>2, <2>4, <2>5, <2>6 DEF UserPages
  <2> QED BY <2>1, <2>7 DEF Apart
<1> QED BY <1>1, Inductive, PTL

\* A program with no more bytes in the file than in memory, and no end that wraps, is
\* copied to its own pages: what line 107 rounds and what lines 138 and 139 write agree.
THEOREM CopyStays == Spec => []CopyLandsInProgram
<1>1. IInv => CopyLandsInProgram
  <2> SUFFICES ASSUME IInv, pc = "copy",
                      \A k \in DOMAIN image : InWord(image[k]) /\ image[k].filesz <= image[k].memsz,
                      NEW k \in DOMAIN todo, NEW p \in todo[k].from .. todo[k].to - 1
               PROVE  Writes(p)
    BY DEF CopyLandsInProgram
  <2>1. Types /\ Copying /\ AllMapped /\ cr3 = dir BY DEF IInv, Loading
  <2>2. p \in Nat /\ In(p, todo[k])
    <3>1. todo[k] \in Runs BY <2>1 DEF Types
    <3>2. todo[k].from \in Nat /\ todo[k].to \in Nat BY <3>1 DEF Runs
    <3> QED BY <3>2 DEF In
  <2>3. PICK j \in DOMAIN image : In(p, CopyRun(image[j])) BY <2>1, <2>2 DEF Copying, Left
  <2>4. image[j] \in Segments BY <2>1 DEF Types
  <2>5. p \in VPages /\ In(p, MapRun(image[j])) BY <2>2, <2>3, <2>4, CopiedIsMapped
  <2>6. Mapped(p) BY <2>1, <2>5 DEF AllMapped, Wanted
  <2>7. CopyTo(p) = p
    <3>1. p < Pdes * Ptes BY <2>2, <2>5, Words DEF VPages
    <3> QED BY <2>2, <3>1, Words DEF CopyTo
  <2> QED BY <2>1, <2>6, <2>7, Reached DEF Writes
<1> QED BY <1>1, Inductive, PTL

\* A load that fails leaves the shell on the kernel's own directory.
THEOREM KernelLoaded == Spec => []KernelDirLoaded
<1>1. IInv => KernelDirLoaded
  BY DEF IInv, Loading, KernelDirLoaded
<1> QED BY <1>1, Inductive, PTL

\* Whatever was loaded and whatever failed, a page of the identity mapping leads to its
\* own frame, for the kernel only, unless a program was mapped at that page: so the kernel
\* reaches each table and directory there, until a program covers it.
THEOREM KernelKept == Spec => []KernelPagesKept
<1>1. IInv => KernelPagesKept
  <2> SUFFICES ASSUME IInv, NEW d \in DOMAIN pdir, NEW v \in KernelPages \ covered
               PROVE  Translate(d, v) = Entry(v, FALSE)
    BY DEF KernelPagesKept
  <2>1. Shared /\ Kept BY DEF IInv
  <2>2. v \in Nat /\ v < KernelPdes * Ptes /\ KernelPdes * Ptes \in Nat
    <3>1. KernelPdes * Ptes \in Nat BY Sizes
    <3> QED BY <3>1 DEF KernelPages
  <2>3. PteOf(v) \in 0 .. Ptes - 1 /\ PdeOf(v) \in Nat /\ v = PdeOf(v) * Ptes + PteOf(v)
    <3>1. v \div Ptes \in Nat /\ v % Ptes \in 0 .. Ptes - 1 /\ v = (v \div Ptes) * Ptes + (v % Ptes)
      BY <2>2, Sizes
    <3> QED BY <3>1 DEF PdeOf, PteOf
  <2>4. PdeOf(v) < KernelPdes
    <3>1. SUFFICES ASSUME PdeOf(v) >= KernelPdes PROVE FALSE BY <2>3, Sizes
    <3>2. PdeOf(v) * Ptes >= KernelPdes * Ptes BY <2>3, <3>1, Sizes
    <3> QED BY <2>2, <2>3, <3>2, Sizes
  <2>5. PdeOf(v) \in 0 .. KernelPdes - 1 BY <2>3, <2>4, Sizes
  <2>6. pdir[d][PdeOf(v)] # None /\ pdir[d][PdeOf(v)].frame = KernelTable(PdeOf(v))
    BY <2>1, <2>5 DEF Shared
  <2>7. Translate(d, v) = ptab[KernelTable(PdeOf(v))][PteOf(v)] BY <2>6 DEF Translate
  <2>8. ptab[KernelTable(PdeOf(v))][PteOf(v)] = Entry(PdeOf(v) * Ptes + PteOf(v), FALSE)
    BY <2>1, <2>3, <2>5 DEF Kept
  <2> QED BY <2>3, <2>7, <2>8
<1> QED BY <1>1, Inductive, PTL
===============================================================================

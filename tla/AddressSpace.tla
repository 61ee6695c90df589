------------------------------ MODULE AddressSpace -----------------------------
(***************************************************************************)
(* Page tables (mm/paging.c) and the program loader (cpu/user_exec.c), as  *)
(* the shell's exec command drives them.                                   *)
(*                                                                         *)
(* Boot maps the lowest KernelPdes directory entries to the frames of the  *)
(* same number.  Each exec clones the kernel's directory, sharing those    *)
(* entries' tables, maps the program and its stack into the clone, copies  *)
(* the program with the clone loaded, and enters user mode on it.  Nothing *)
(* is given back when a program fails to load or exits.                    *)
(*                                                                         *)
(* A virtual page and a physical frame are numbers, and a directory or     *)
(* table is named by its frame.  Every entry is present and writable, so   *)
(* an entry is its frame and its P_USER bit.                               *)
(*                                                                         *)
(* The processor walks frames; the code reaches a directory or table at    *)
(* the virtual address equal to its physical one, which a program mapped   *)
(* there leads elsewhere.  Where an access of the loader does not reach    *)
(* what it is meant for, exec is "astray": the kernel faults, or writes    *)
(* over something else, and what it does next is not modelled.             *)
(***************************************************************************)
EXTENDS Naturals, Sequences, FiniteSets

CONSTANTS
  KernelPdes,   \* KERNEL_PDE_END: entries of the shared, identity-mapped part
  Pdes,         \* PDE_COUNT
  Ptes,         \* PTE_COUNT
  FirstFrame,   \* the frames the frame allocator holds when paging starts:
  LastFrame,    \*   FirstFrame .. LastFrame, the lowest handed out first
  PageSize,     \* bytes of a page
  Own,          \* pages the kernel uses at their own addresses with no frame taken
                \*   for them: its image and stacks, the heap
  Images,       \* programs: their PT_LOAD segments in load order
  StackPages,   \* the pages of the user stack, in the order they are mapped
  SlurpFrames,  \* frames the heap takes for one kmalloc(MAX_ELF)
  MaxSlurps,    \* such blocks the heap has room for
  None          \* an entry that is not present

ASSUME ShapeAssumption ==
  /\ KernelPdes \in Nat \ {0} /\ Pdes \in Nat /\ KernelPdes <= Pdes
  /\ Ptes \in Nat \ {0}
  /\ FirstFrame \in Nat /\ LastFrame \in Nat
  /\ FirstFrame + KernelPdes <= LastFrame /\ LastFrame < Pdes * Ptes
  /\ PageSize \in Nat \ {0}
  /\ SlurpFrames \in Nat /\ MaxSlurps \in Nat

\* The code's 0 is no entry of a present page.
ASSUME NoneAssumption == None \notin [frame : Nat, user : BOOLEAN]

VPages == 0 .. Pdes * Ptes - 1
PdeOf(v) == v \div Ptes
PteOf(v) == v % Ptes
KernelPages == 0 .. KernelPdes * Ptes - 1

\* Addresses are 32 bits.  beyond: the segment, or the program headers, end behind the
\* file.  That test adds in 32 bits too, so it says nothing about filesz.
WordSize == Pdes * Ptes * PageSize
Word == 0 .. WordSize - 1
Segments == [vaddr : Word, filesz : Word, memsz : Word, beyond : BOOLEAN]

ASSUME ImageAssumption == Images \subseteq Seq(Segments) /\ StackPages \in Seq(VPages)

VARIABLES
  pool,        \* the frame allocator's clear bits
  heapFrames,  \* frames taken for the heap
  userFrames,  \* frames taken by paging_alloc_map_in
  pdir,        \* directories: frame -> entries
  ptab,        \* tables: frame -> entries
  cr3,         \* the loaded directory, which g_pd also points to
  pc,          \* where exec is
  dir,         \* user_exec's pdir
  image,       \* the program being loaded
  todo,        \* the runs of pages still to map, or to copy
  slurps,      \* blocks of MAX_ELF allocated
  covered      \* the pages mapped for programs so far

memory == <<pool, heapFrames, userFrames, pdir, ptab, covered>>
load == <<dir, image, todo, slurps>>
vars == <<memory, cr3, pc, load>>

Entry(f, u) == [frame |-> f, user |-> u]
Lowest(S) == CHOOSE f \in S : \A g \in S : f <= g
LowestOf(n) == {f \in pool : Cardinality({g \in pool : g < f}) < n}
PmmFrames == FirstFrame .. LastFrame

\* Extend a function by one point.
With(fn, x, y) == [z \in DOMAIN fn \cup {x} |-> IF z = x THEN y ELSE fn[z]]

\* paging_translate, and what the processor does: the entry for v under d.
Translate(d, v) ==
  LET pde == pdir[d][PdeOf(v)]
  IN  IF pde = None THEN None ELSE ptab[pde.frame][PteOf(v)]

EmptyTable == [p \in 0 .. Ptes - 1 |-> None]

\* mutant: the identity tables built with P_USER.
IdentityTableUser(pde) == [p \in 0 .. Ptes - 1 |-> Entry(pde * Ptes + p, TRUE)]

IdentityTable(pde) == [p \in 0 .. Ptes - 1 |-> Entry(pde * Ptes + p, FALSE)]

\* paging_init_identity: the directory takes the first frame, then one frame
\* per table.
KernelDir == FirstFrame
KernelTable(pde) == FirstFrame + 1 + pde

Init ==
  /\ pool = FirstFrame + KernelPdes + 1 .. LastFrame
  /\ heapFrames = {}
  /\ userFrames = {}
  /\ pdir = [d \in {KernelDir} |->
              [p \in 0 .. Pdes - 1 |->
                IF p < KernelPdes THEN Entry(KernelTable(p), FALSE) ELSE None]]
  /\ ptab = [t \in {KernelTable(p) : p \in 0 .. KernelPdes - 1} |->
              IdentityTable(t - FirstFrame - 1)]
  /\ cr3 = KernelDir
  /\ pc = "shell"
  /\ dir = KernelDir
  /\ image = <<>>
  /\ todo = <<>>
  /\ slurps = 0
  /\ covered = {}

\* mutant: paging_clone_directory stopping one entry short.
CloneShort(d) == [p \in 0 .. Pdes - 1 |-> IF p < KernelPdes - 1 THEN pdir[d][p] ELSE None]

\* paging_clone_directory's copy of a directory.
Clone(d) == [p \in 0 .. Pdes - 1 |-> IF p < KernelPdes THEN pdir[d][p] ELSE None]

-------------------------------------------------------------------------------
\* Where exec's own accesses go.

\* The frame that the address of frame f leads to under the loaded directory.
Found(f) ==
  LET entry == Translate(cr3, f) IN IF entry = None THEN None ELSE entry.frame

\* The code finds the directories and tables F at their own addresses, and the heap
\* does not write there.
Finds(F) == \A f \in F : Found(f) = f /\ f \notin Own

\* user_exec clones the current directory; alloc_table halts without a frame.
ExecClone ==
  /\ pc = "shell"
  /\ pool # {}
  /\ Finds({cr3, Lowest(pool)})
  /\ dir' = Lowest(pool)
  /\ pool' = pool \ {dir'}
  /\ pdir' = With(pdir, dir', Clone(cr3))
  /\ pc' = "open"
  /\ UNCHANGED <<heapFrames, userFrames, ptab, covered, cr3, image, todo, slurps>>

ExecHalts ==
  /\ pc = "shell"
  /\ pool = {}
  /\ pc' = "halted"
  /\ UNCHANGED <<memory, cr3, load>>

\* The kernel's directory, or the new one, is not where the code looks for it.
ExecAstray ==
  /\ pc = "shell"
  /\ pool # {}
  /\ ~Finds({cr3, Lowest(pool)})
  /\ pc' = "astray"
  /\ UNCHANGED <<memory, cr3, load>>

\* The file cannot be opened or read, is not ELF32, or the heap has no room for
\* it: user_exec returns -1.
Reject ==
  /\ pc = "open"
  /\ pc' = "shell"
  /\ UNCHANGED <<memory, cr3, load>>

-------------------------------------------------------------------------------
\* What a segment maps and what it copies, as runs of pages.

\* mutant: the end of a segment rounded down.
MapRunDown(s) ==
  [from |-> s.vaddr \div PageSize,
   to |-> ((s.vaddr + s.memsz) % WordSize) \div PageSize, beyond |-> s.beyond]

\* The pages that elf_load_image maps for a segment: up to its end rounded up, in 32
\* bits; it skips a segment without memory, and does not test filesz against memsz.
MapRun(s) ==
  IF s.memsz = 0 THEN [from |-> 0, to |-> 0, beyond |-> FALSE]
  ELSE [from |-> s.vaddr \div PageSize,
        to |-> ((((s.vaddr + s.memsz) % WordSize) + PageSize - 1) % WordSize) \div PageSize,
        beyond |-> s.beyond]

\* The pages it then writes to: filesz bytes, and zeros up to memsz if that is more.
CopyRun(s) ==
  LET n == IF s.filesz > s.memsz THEN s.filesz ELSE s.memsz
  IN  IF s.memsz = 0 THEN [from |-> 0, to |-> 0, beyond |-> FALSE]
      ELSE [from |-> s.vaddr \div PageSize, to |-> (s.vaddr + n - 1) \div PageSize + 1,
            beyond |-> FALSE]

StackRun(v) == [from |-> v, to |-> v + 1, beyond |-> FALSE]

MapRuns(img) == [k \in DOMAIN img |-> MapRun(img[k])]
StackRuns == [k \in DOMAIN StackPages |-> StackRun(StackPages[k])]
CopyRuns(img) == [k \in DOMAIN img |-> CopyRun(img[k])]

\* The first run is not done, and its next page; and what is left behind that page.
InRun == todo # <<>> /\ ~Head(todo).beyond /\ Head(todo).from < Head(todo).to
NextPage == Head(todo).from
Rest == [todo EXCEPT ![1].from = @ + 1]

\* kmalloc(MAX_ELF) and the read of the file into it.
Slurp(img) ==
  /\ pc = "open"
  /\ slurps < MaxSlurps
  /\ Cardinality(pool) >= SlurpFrames
  /\ heapFrames' = heapFrames \cup LowestOf(SlurpFrames)
  /\ pool' = pool \ LowestOf(SlurpFrames)
  /\ slurps' = slurps + 1
  /\ image' = img
  /\ todo' = MapRuns(img) \o StackRuns
  /\ pc' = "map"
  /\ UNCHANGED <<userFrames, pdir, ptab, covered, cr3, dir>>

\* The heap halts when the frame allocator runs dry.
SlurpHalts ==
  /\ pc = "open"
  /\ slurps < MaxSlurps
  /\ Cardinality(pool) < SlurpFrames
  /\ pc' = "halted"
  /\ UNCHANGED <<memory, cr3, load>>

\* The end of a segment, mapped or copied.
NextRun ==
  /\ pc \in {"map", "copy"}
  /\ todo # <<>> /\ ~Head(todo).beyond /\ ~InRun
  /\ todo' = Tail(todo)
  /\ UNCHANGED <<memory, cr3, pc, dir, image, slurps>>

-------------------------------------------------------------------------------
\* paging_alloc_map_in.

\* mutant: the index of the page in its table off by one.
SetPteNext(t, v, f) == [t EXCEPT ![(v + 1) % Ptes] = Entry(f, TRUE)]

\* paging_map_in's store into table t.
SetPte(t, v, f) == [t EXCEPT ![PteOf(v)] = Entry(f, TRUE)]

\* mutant: get_or_alloc_pt_in without its upgrade of the directory entry.
SetPdeAsIs(d, v, t) ==
  [pdir EXCEPT ![d][PdeOf(v)] = IF @ = None THEN Entry(t, TRUE) ELSE @]

\* get_or_alloc_pt_in: a directory entry for table t that lets user mode in.
SetPde(d, v, t) == [pdir EXCEPT ![d][PdeOf(v)] = Entry(t, TRUE)]

\* The table that page v gets: the one its directory names, or the next frame but one.
HasTable(v) == pdir[dir][PdeOf(v)] # None
TableOf(v) == IF HasTable(v) THEN pdir[dir][PdeOf(v)].frame ELSE Lowest(pool \ {Lowest(pool)})

\* Mapping v reaches the directory and, if there is one, the table; it hides nothing of
\* the kernel's, and takes no frame that the heap writes to.
Safe(v) ==
  /\ v \notin Own /\ Lowest(pool) \notin Own
  /\ Finds({dir})
  /\ HasTable(v) \/ Cardinality(pool) > 1 => Finds({TableOf(v)})

\* mutant: the page's frame left in the pool.
MapPageLeaky ==
  /\ pc = "map" /\ InRun /\ pool # {}
  /\ HasTable(NextPage) /\ Safe(NextPage)
  /\ LET v == NextPage
         f == Lowest(pool)
     IN  /\ userFrames' = userFrames \cup {f}
         /\ pdir' = SetPde(dir, v, TableOf(v))
         /\ ptab' = [ptab EXCEPT ![TableOf(v)] = SetPte(@, v, f)]
         /\ covered' = covered \cup {v}
  /\ todo' = Rest
  /\ UNCHANGED <<pool, heapFrames, cr3, pc, dir, image, slurps>>

\* The next page, where its table exists: the one the directory names, which the
\* kernel's directory may name too.
MapPage ==
  /\ pc = "map" /\ InRun /\ pool # {}
  /\ HasTable(NextPage) /\ Safe(NextPage)
  /\ LET v == NextPage
         f == Lowest(pool)
     IN  /\ pool' = pool \ {f}
         /\ userFrames' = userFrames \cup {f}
         /\ pdir' = SetPde(dir, v, TableOf(v))
         /\ ptab' = [ptab EXCEPT ![TableOf(v)] = SetPte(@, v, f)]
         /\ covered' = covered \cup {v}
  /\ todo' = Rest
  /\ UNCHANGED <<heapFrames, cr3, pc, dir, image, slurps>>

\* mutant: the new table's frame not taken out of the pool.
MapPageNewTableLeaky ==
  /\ pc = "map" /\ InRun /\ Cardinality(pool) >= 2
  /\ ~HasTable(NextPage) /\ Safe(NextPage)
  /\ LET v == NextPage
         f == Lowest(pool)
     IN  /\ pool' = pool \ {f}
         /\ userFrames' = userFrames \cup {f}
         /\ pdir' = SetPde(dir, v, TableOf(v))
         /\ ptab' = With(ptab, TableOf(v), SetPte(EmptyTable, v, f))
         /\ covered' = covered \cup {v}
  /\ todo' = Rest
  /\ UNCHANGED <<heapFrames, cr3, pc, dir, image, slurps>>

\* ... where it does not: a second frame becomes the table.
MapPageNewTable ==
  /\ pc = "map" /\ InRun /\ Cardinality(pool) >= 2
  /\ ~HasTable(NextPage) /\ Safe(NextPage)
  /\ LET v == NextPage
         f == Lowest(pool)
     IN  /\ pool' = pool \ {f, TableOf(v)}
         /\ userFrames' = userFrames \cup {f}
         /\ pdir' = SetPde(dir, v, TableOf(v))
         /\ ptab' = With(ptab, TableOf(v), SetPte(EmptyTable, v, f))
         /\ covered' = covered \cup {v}
  /\ todo' = Rest
  /\ UNCHANGED <<heapFrames, cr3, pc, dir, image, slurps>>

\* ... and where the page took the last frame, alloc_table halts.
MapPageHalts ==
  /\ pc = "map" /\ InRun /\ Cardinality(pool) = 1
  /\ ~HasTable(NextPage) /\ Safe(NextPage)
  /\ userFrames' = userFrames \cup pool
  /\ pool' = {}
  /\ pc' = "halted"
  /\ UNCHANGED <<heapFrames, pdir, ptab, covered, cr3, load>>

MapAstray ==
  /\ pc = "map" /\ InRun /\ pool # {}
  /\ ~Safe(NextPage)
  /\ pc' = "astray"
  /\ UNCHANGED <<memory, cr3, load>>

\* mutant: a load that fails when the pool is empty hangs.
MapFailsBeyondOnly ==
  /\ pc = "map" /\ todo # <<>> /\ Head(todo).beyond
  /\ pc' = "shell"
  /\ todo' = <<>>
  /\ UNCHANGED <<memory, cr3, dir, image, slurps>>

\* No frame for the page, or headers or a segment beyond the file's end: the load
\* fails with the pages mapped so far left in place.
MapFails ==
  /\ pc = "map" /\ todo # <<>>
  /\ Head(todo).beyond \/ (InRun /\ pool = {})
  /\ pc' = "shell"
  /\ todo' = <<>>
  /\ UNCHANGED <<memory, cr3, dir, image, slurps>>

-------------------------------------------------------------------------------
\* The copy, and the program.

\* All mapped: load the new directory to copy through it.
SwitchToImage ==
  /\ pc = "map" /\ todo = <<>>
  /\ cr3' = dir
  /\ pc' = "copy"
  /\ todo' = CopyRuns(image)
  /\ UNCHANGED <<memory, dir, image, slurps>>

\* The bytes of a segment wrap at the end of the address space.
CopyTo(p) == p % (Pdes * Ptes)

Writes(p) ==
  LET entry == Translate(cr3, CopyTo(p)) IN entry # None /\ entry.frame \in userFrames

\* The copy or zeroing of one page; contents are not modelled.
CopyPage ==
  /\ pc = "copy" /\ InRun
  /\ Writes(NextPage)
  /\ todo' = Rest
  /\ UNCHANGED <<memory, cr3, pc, dir, image, slurps>>

\* ... to a page that is not a program's.
CopyAstray ==
  /\ pc = "copy" /\ InRun
  /\ ~Writes(NextPage)
  /\ pc' = "astray"
  /\ UNCHANGED <<memory, cr3, load>>

\* mutant: the load ends without restoring the directory it saved.
CopyDoneStays ==
  /\ pc = "copy" /\ todo = <<>>
  /\ pc' = "loaded"
  /\ UNCHANGED <<memory, cr3, load>>

\* elf_load_image restores the directory that was current when it began.
CopyDone ==
  /\ pc = "copy" /\ todo = <<>>
  /\ cr3' = KernelDir
  /\ pc' = "loaded"
  /\ UNCHANGED <<memory, load>>

\* user_exec loads the directory again and enters user mode.
EnterUser ==
  /\ pc = "loaded"
  /\ cr3' = dir
  /\ pc' = "user"
  /\ UNCHANGED <<memory, load>>

\* The exit system call: the stub jumps to exec_return_to_shell, which never
\* returns to user_exec; the program's directory stays loaded.
UserExit ==
  /\ pc = "user"
  /\ pc' = "exited"
  /\ UNCHANGED <<memory, cr3, load>>

LoadStep ==
  \/ Reject
  \/ \E img \in Images : Slurp(img)
  \/ SlurpHalts
  \/ NextRun
  \/ MapPage
  \/ MapPageNewTable
  \/ MapPageHalts
  \/ MapAstray
  \/ MapFails
  \/ SwitchToImage
  \/ CopyPage
  \/ CopyAstray
  \/ CopyDone
  \/ EnterUser

Next == ExecClone \/ ExecHalts \/ ExecAstray \/ LoadStep \/ UserExit

\* Once the shell has called it the loader runs on; a user may never call it
\* and a program may never exit.
Spec == Init /\ [][Next]_vars /\ WF_vars(LoadStep)

-------------------------------------------------------------------------------
Tables == DOMAIN pdir \cup DOMAIN ptab

\* Types, and that a frame is in the pool, or the heap's, or a program's page,
\* or a directory or table, and one of these only.
TypeOK ==
  /\ cr3 \in DOMAIN pdir /\ dir \in DOMAIN pdir
  /\ pc \in {"shell", "open", "map", "copy", "loaded", "user", "exited", "halted", "astray"}
  /\ \A d \in DOMAIN pdir, p \in 0 .. Pdes - 1 :
       pdir[d][p] # None => pdir[d][p].frame \in DOMAIN ptab
  /\ slurps \in 0 .. MaxSlurps
  /\ covered \subseteq VPages \ Own
  /\ pool \cup heapFrames \cup userFrames \cup Tables = PmmFrames
  /\ pool \cap (heapFrames \cup userFrames \cup Tables) = {}
  /\ heapFrames \cap (userFrames \cup Tables) = {}
  /\ userFrames \cap Tables = {}
  /\ DOMAIN pdir \cap DOMAIN ptab = {}

\* Beside its identity mapping, a frame allocated for a program's page is
\* mapped at one place at most.
MappedOnce ==
  \A f \in userFrames :
    Cardinality({at \in (DOMAIN ptab) \X (0 .. Ptes - 1) :
                  ptab[at[1]][at[2]] = Entry(f, TRUE)}) <= 1

\* Every directory shares the kernel's low tables, so that the kernel runs on
\* any of them, and no directory shares a table above them.
KernelHalfShared ==
  \A d \in DOMAIN pdir :
    /\ \A p \in 0 .. KernelPdes - 1 :
         pdir[d][p] # None /\ pdir[d][p].frame = pdir[KernelDir][p].frame
    /\ \A e \in DOMAIN pdir \ {d}, p, q \in KernelPdes .. Pdes - 1 :
         pdir[d][p] # None /\ pdir[e][q] # None => pdir[d][p].frame # pdir[e][q].frame

\* "For ring3 access, BOTH PDE and PTE must have P_USER" (paging.c:68).
UserReaches(v) ==
  /\ Translate(cr3, v) # None
  /\ pdir[cr3][PdeOf(v)].user
  /\ Translate(cr3, v).user

\* A segment's end, rounded up, is an address.
InWord(s) == s.vaddr + s.memsz <= WordSize - PageSize

\* The page holds a byte of the segment.
Holds(v, s) ==
  /\ s.memsz # 0
  /\ v * PageSize < s.vaddr + s.memsz /\ s.vaddr < (v + 1) * PageSize

\* When user mode starts, the program can reach its stack, and every page that holds a
\* byte of it unless that segment's end wraps: the code does not test that (line 107).
ProgramReachable ==
  pc = "user" =>
    /\ \A k \in DOMAIN image, v \in VPages :
         InWord(image[k]) /\ Holds(v, image[k]) => UserReaches(v)
    /\ \A k \in DOMAIN StackPages : UserReaches(StackPages[k])

\* Nothing can be reached from user mode but pages that exec allocated for a program:
\* no frame of the kernel, of its tables, or that its heap writes to.
KernelUnreachable ==
  pc = "user" =>
    \A v \in VPages : UserReaches(v) => Translate(cr3, v).frame \in userFrames \ Own

\* The loader's copy writes to frames that were allocated for a program, though it runs
\* in the kernel, where nothing would stop a stray write: unless a segment has more
\* bytes in the file than in memory, or its end wraps, which the code tests neither of
\* (lines 101 to 107 and 138).
CopyLandsInProgram ==
  pc = "copy" /\ (\A k \in DOMAIN image : InWord(image[k]) /\ image[k].filesz <= image[k].memsz) =>
    \A k \in DOMAIN todo : \A p \in todo[k].from .. todo[k].to - 1 : Writes(p)

\* The shell and the loader's mapping run on the kernel's directory.
KernelDirLoaded == pc \in {"shell", "open", "map", "loaded"} => cr3 = KernelDir

\* Whatever was loaded or failed to, every page of the identity mapping, those of the
\* tables among them, still leads to its own frame under every directory, and only
\* for the kernel, but for the pages that programs were mapped at.
KernelPagesKept ==
  \A d \in DOMAIN pdir, v \in KernelPages \ covered : Translate(d, v) = Entry(v, FALSE)

\* The code reaches every directory and table at the virtual address equal to
\* its physical one ("identity-mapped PT", paging.c:90), so under every
\* directory that address must still lead there.
TablesIdentityMapped ==
  \A d \in DOMAIN pdir, t \in Tables :
    /\ t \in KernelPages
    /\ Translate(d, t) # None
    /\ Translate(d, t).frame = t

\* Every exec ends: at the shell, in user mode, in a halt for want of memory, or astray.
ExecSettles ==
  (pc \in {"open", "map", "copy", "loaded"})
    ~> (pc \in {"shell", "user", "exited", "halted", "astray"})
===============================================================================

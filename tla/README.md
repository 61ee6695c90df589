# bobliu-os in TLA+

A formal model of the kernel under `src/kernel`: a 32-bit x86 kernel with a
bitmap frame allocator, a bump heap, identity-mapped paging, a shell that runs
inside the keyboard's interrupt handler, and an `exec` command that loads an ELF
program from a tar initrd and runs it in ring 3. The modules follow the C and
assembly sources; `PROJECT.json` names the source lines each definition stands
for, the runs, the hazards and the theorems.

## 1. The system

There is one processor, no scheduler and one program at a time. What runs
concurrently is `kernel_main`, or the program, and the interrupt handlers.

| Component | State | Operations | Interacts with |
|---|---|---|---|
| Frame allocator, `mm/pmm.c` | bitmap, `g_total_frames`, `g_free_frames` | `pmm_init`, `pmm_alloc_frame`, `pmm_free_frame` | multiboot memory map and modules; called by heap, paging, loader |
| Heap, `mm/heap.c` | break, backed end, bounds | `heap_init`, `kmalloc(_aligned)`, `kfree` (nothing) | takes one frame per page it touches first |
| Paging, `mm/paging.c` | `g_pd`, directories, tables, `cr3` | identity map, clone, switch, map into a directory | tables are frames, reached at their physical address |
| Loader, `cpu/user_exec.c` | the directory and image being loaded | `user_exec`, `elf_load_image` | VFS, heap, paging, then user mode |
| Stubs and dispatch, `isr_stubs.S`, `cpu/isr.c`, `exec_enter_usermode.S`, `enter_user.S` | the stack, `g_user_exited`, `g_exec_kesp`, `irq_routines` | irq path, int 0x80 path, exit bounce | controller, shell, program |
| Controller and IDT, `dev/pic.c`, `cpu/idt.c`, `interrupts/interrupts.c` | request, service and mask registers; gates | remap, (un)mask, acknowledge; `idt_init` | every interrupt |
| Boot, `kernel/kernel.c` | how far it has come | the calls of `kernel_main` | all |
| Timer, `dev/timer.c` | `ticks` | `timer_cb` | terminal (a dot every 100 ticks) |
| Keyboard, `dev/keyboard.c` | line buffer, modifiers, `shell_enabled` | `keyboard_irq`, `keyboard_enable_shell`, `ps2_enable_irq1_only` | terminal (echo), shell (Enter) |
| Terminal, `tty.c` | cursor, VGA memory | put, scroll, backspace | written from `kernel_main` and from handlers |
| Shell, `shell/shell.c` | `g_cwd` | `shell_on_line`, paths, tokens, commands, `exec_return_to_shell` | VFS, loader, heap |
| VFS and initrd, `fs/vfs.c`, `fs/initrd_vfs.c` | descriptors, the tar image | resolve, open, read, close, ls, stat | heap (a vnode per lookup) |
| libc, `libc/` | none | `printf`, `vsnprintf`, strings | terminal |

Not part of what runs: `kernel_old.*`, `boot_old.s`, `elf/elf.c`, `mm/syscall.c`,
`fs/initrd_tar.c`, `interrupts/syscall_exit.c`, `exec_bounce.S`, `user_bounce.S`
and the tests. GDT, TSS and multiboot parsing write constants, or print.

### What is hard in it, and what makes each part correct

* **Rounding and word size** (allocator, heap). Ranges are rounded to frames in
  32-bit arithmetic, the map is 64-bit. Correct: a frame handed out is whole RAM
  and holds nothing the kernel keeps; the hand-kept counter is exact; blocks
  stay in the heap and never overlap.
* **Failure halfway** (heap, loader). Frames run out in the middle of a block, a
  segment, or between a page and its table; nothing is given back. Correct: no
  frame ever has two owners, every call ends, later execs still work.
* **Shared page tables** (paging, loader). A clone shares the kernel's tables,
  and programs are mapped inside the shared part. Correct: the kernel runs on
  every directory, a program reaches its pages and nothing else, the loader
  writes to the program's pages, tables stay where the code looks for them; the last
  does not hold for programs linked over frames that become tables.
* **Interleaving** (interrupts, boot, shell). The shell runs in a handler,
  programs run under it with interrupts on, the acknowledgement names no line,
  and an exit unwinds through frames that never return. Correct: the lines in
  service match the stack, the shell is not re-entered, the exit unwinds to a
  live frame, ticks and keys are served.
* **Data shared with handlers** (terminal, line buffer). `kernel_main` prints and
  resets the line with interrupts on. Correct: the cursor is back on the screen
  when nobody prints, Enter hands over what was typed.
* **Bounded text** (shell, VFS, libc). Paths, components, names and prefixes are
  cut to their buffers at six places with six rules, and a text that is cut is
  terminated one byte further on than one that fits. Correct: below the limits a
  path means what it says, is resolved to what the image has there and is listed
  once; above them the shell's path still fits its buffer; `printf` prints what
  its flags, width and precision ask for together.
* **Memory that never comes back** (shell, initrd). Every lookup takes vnodes from
  a heap that never frees, and a vnode that could not be had is written through.
  Correct: out of memory nothing else is found than what is there, and no
  descriptor stays open.

## 2. The modules

| Module | Models | Checked by |
|---|---|---|
| `FrameAllocator` | what the frame allocator promises: a pool seeded once, take, give | refined by `Pmm`, used by `Heap` |
| `Pmm` | `pmm.c` | `MCPmm`, `PmmProofs` |
| `Heap` | `heap.c` over `FrameAllocator` | `MCHeap`, `HeapProofs` |
| `AddressSpace` | `paging.c` and `user_exec.c` together, as exec drives them | `MCAddressSpace`, `AddressSpaceProofs` |
| `Session` | what the kernel is to the person at the keyboard: commands one at a time, a program, the prompt after it | refined by `Interrupts` |
| `Interrupts` | controller, stubs, dispatch, boot, shell commands, program, exit | `MCInterrupts`, `InterruptsProofs`, `SessionProofs` |
| `Console` | the cursor of `tty.c`; keys, modifiers and the line buffer of `dev/keyboard.c` | `MCConsole`, `ConsoleProofs` |
| `Format` | `printf` and `vsnprintf`, and what a conversion must print | `MCShell`, `TextProofs`, `ShellProofs` |
| `Paths` | the shell's tokens and canonical paths, `vfs_resolve`'s split, and what a path means | `MCShell`, `TextProofs`, `ShellProofs` |
| `Initrd` | the tar image as a file system, lookups, and what an image means | `MCShell`, `ShellProofs` |
| `Shell` | commands on files, descriptors, the loader's reading, `alloc` | `MCShell`, `ShellProofs` |

**Pmm.** One stage per loop or call of `pmm_init`, one action per iteration, then
`AllocFrame`, `FreeFrame` and `FreePanics`. `used` is the bitmap; `handed` is a
history variable, the frames callers hold. Addresses are numbers and
`uintptr_t` arithmetic is taken modulo the address space; the memory map's
64-bit fields are not reduced. `Settled` marks the end of boot: seen through the
refinement mapping, all of `pmm_init` is the one `Seed` step of
`FrameAllocator`, and pool and `handed` are its two places for a frame.
Callers free only what they hold, as all calls in the code do.

**Heap.** `Kmalloc` is the call up to `heap_ensure_backed`, `BackPage` one turn of
its loop, `Return` the rest. The frames come from an instance of
`FrameAllocator`; other users of it take and give frames between calls
(`kernel_main` frees two frames after `heap_init`).

**AddressSpace.** Directories and tables are functions named by their frame. `pc`
follows `user_exec` and `elf_load_image`: clone, open, slurp, map, switch, copy,
restore, enter, exit. A program is its segments' addresses and sizes in file and
memory, with a mark for headers or a segment that end behind the file. `MapRun` and
`CopyRun` are what the code makes of a segment, in its 32-bit arithmetic: the pages
it maps, from `p_memsz` rounded up, and the pages it writes to, from the larger of
`p_filesz` and `p_memsz`. The two agree only for segments that the code does not test
for. Contents of pages are not modelled: the copy is where it writes.

The processor walks frames, but the code reaches a directory or table at the virtual
address equal to its physical one (paging.c:90, 175). Every such access of the loader
is guarded (`Finds`, `Safe`): the address must still lead to that frame, and must not
be one that the heap or the kernel's image, which take no frame for their own
addresses (`Own`), write to. So must each page copied be a program's (`Writes`).
Where an access misses, exec is `"astray"`: the kernel faults or overwrites
something, the code has no answer, and the model has no further step. So a
property of `AddressSpace` is about machines on which programs and tables do collide,
up to the first access that misses; it says nothing about what follows.

**Interrupts.** The stack is a sequence of frames, each with who it belongs to and
where it is; the last one runs. Whether interrupts are on follows from the
frame, because the code never sets IF but in the four places `InterruptsOn`
names. `Deliver` is the controller offering its best request and the processor
taking it. `Bounce` cuts the stack at `g_exec_kesp`. What a command does is a
choice: it returns, halts, or enters a program; what a program does is a choice
of system calls and faults.

`Stage` reads the stage of a `Session` off the stack: which frames a command, its
program and the way back from it have left there, whatever handlers lie above
them. That makes all steps of the controller, the stubs, the timer and the boot
stutter, and the other steps those of `Session`.

**Console.** Handlers are atomic, for they run with interrupts off; "main" is
whoever prints with interrupts on, `kernel_main` and then
`exec_return_to_shell`, and takes one step per access of the row, the column,
`line_len` and `linebuf`. What main holds in registers is `reg`. The accesses
race, so both orders are allowed for the increment of the row: read again after the
column is reset, as the source says, or once at the start, as the compiler does. The
test `terminal_row == VGA_HEIGHT` (tty.c:64) is made as the compiled code (`-O2`)
makes it, with the value just stored. The source reads the row again there; built that
way, a handler's newline between the store and the test would take the row past the
height unnoticed and for good, so `CursorSettles` is a statement about the build. The
two stores of `line_reset` are kept in source order. `KeyExec` abandons main where it is;
after it no key is served (`keyboard_dead`). A byte from the keyboard is the press
or release of a key or half of an extended one; a character is a key and the
keymap it is taken from. `held` and `rolled` are the shift keys as they are, and
`g_shift` as the code knows them; `typed` is what was meant with the keys held,
`lossy` marks what the code loses, both history variables. A main abandoned between the store of the row and the scroll leaves
the row below the screen for good: `torn` marks that, and `CursorSettles`
excludes it.

**Format.** Text is a sequence of characters, which is what these functions are
about. `printf` is parsed and printed from left to right, as a recursive function
over the format; `vsnprintf` is the characters it puts and the buffer that results,
with the byte behind it. The lower half of the module states what a conversion must
print (`NumberPrinted`, `StringPrinted`) without saying how: there are a lead,
zeros, shortest digits and fill of the right numbers.

**Paths.** `shell_canon_path` is two folds: over the candidate's components with
the buffer and the starts of components as its state. A relative path is put
together by `vsnprintf`; where it is cut, one byte of the buffer was never written,
and `Candidates` has a path for each value of that byte. `Meaning` is the list of
names from the root, from a definition of words by their boundaries.

**Initrd.** An image is a sequence of blocks. Whether a block is a header or data
is not marked: what is read as a header is what the code's scan lands on, so a
scan that misplaces itself reads data for names. `Lookup` and `MakeDir` take vnodes
from `mem`; the name at address 0 is what a directory's data is written over and
read from when it could not be had.

**Shell.** One action per command up to its canonical path (`OnLine`), per
resolution (`Cd`, `Ls`, `Open`), per call of `vfs_read` in each of the four loops,
and `Close`. A command runs in the keyboard's handler with interrupts off, so
nothing comes between its steps; they are steps because the loops must end.
`Message` prints one conversion before the shell starts.

How they fit: `Heap` composes with the allocator through `FrameAllocator`, which
`Pmm` is shown to implement, so `Heap` does not depend on the bitmap.
`AddressSpace` holds the allocator as a pool and the heap as the frames and
blocks one exec takes; `Interrupts` sees an exec as one step, `Console` a handler.
`Shell` extends `Initrd`, `Paths` and `Format` in turn; it ends where
`AddressSpace` begins, with the file read and closed, and all of a command is the
one stage `command` of a `Session`.

## 3. The runs

| Run | Shows | Bounds, and why they are enough |
|---|---|---|
| `pmm` | the counter is exact, only usable frames are handed out, `Pmm` implements `FrameAllocator` | 16 frames of 4 bytes; six memory maps with unaligned edges, holes, overlaps, disorder, a reserved map and RAM above the address space; three module lists. Every way an edge can meet a frame occurs. `PmmProofs` removes the bounds. |
| `heap` | blocks lie in the heap, apart and paid for; break and backed end never go back; every call ends | 16 pages of 4 bytes, a heap that starts off a page boundary, sizes from 0 to the whole heap, two alignments, four blocks, five frames shared with other users so that they run out. `HeapProofs` removes the bounds. |
| `exec` | address spaces stay sound over any number of execs, failed or not, and each ends | two shared directory entries and one private one of sixteen pages of two bytes; 21 frames, under the programs and under the heap too, as on the repository's machine (programs at 4 MiB, heap at 8, stack below 32); eight programs, that share a page, end off a boundary, reach above the shared part, have more in the file than in memory, wrap, or are broken; three blocks of heap. Failure at every page and in between happens, so do execs on altered tables, and every way to go astray. |
| `interrupts` | service matches stack, no re-entry, a live resume point; a `Session` is implemented and its commands and exits end; ticks are served | three lines; no other bound, the reachable stack is finite on its own. |
| `console` | the cursor recovers from any interleaving; the line is terminated and is what was typed with the modifiers held | three rows of three columns, a line of two characters, a letter, a digit and two shift keys (symmetric): wrap, scroll, overflow and erasing all meet main at every access. Handlers print until the cursor is two rows or columns beyond the screen. |
| `shell` | see below | see below |

Run `shell` asks eleven questions of any sequence of commands:

* `CanonMeans`, `CanonFits`: a path means what was typed while it is short enough,
  and its result fits whatever it is. `PathMax = 14`, `CompMax = 4` and arguments
  of every three characters over two names, dots and slashes, with longer ones
  beyond each limit in turn and beyond both.
* `ResolveMeans`, `ListMeans`, `CwdIsDirectory`: what is found is what the image
  has. Three images: one as tar writes the repository's; one with directories no
  entry names, entries after what they hold, names that begin like a directory's,
  a prefix field; one with names that fill their field or are longer than the
  buffers (`NameField = 8`, `FullMax = 12`, `PartMax = 6`). The data of files
  spells names, so that a scan off by a block shows. Blocks are 2 bytes, and sizes
  reach from 0 over exact multiples to one more.
* `ReadsWhole`, `ReadingEnds`, `DescriptorsClosed`: read from the beginning, in
  order, once, to the end, and closed. Files shorter than, as long as and longer than
  each buffer (2), the ELF header (2) and `MAX_ELF` (4); two descriptors.
* the heap has 8 units, with `alloc` of none, two and more than it has: it runs out
  before the first vnode, between a vnode and its data, and in the middle of a path.
* `PrintfMeans`, `SprintfAgrees`: every combination of flags with three widths, four
  precisions, and zero, one-digit and longer numbers, but for `%p` of null, which
  `PrintfMeans` leaves out, and for a zero of precision 0, where it asks what the code
  does and not what the C standard says (`ZeroDigits`); negative numbers, widths and
  precisions from arguments; strings shorter and longer than the precision; and for
  `vsnprintf` every size of buffer up to two more than the text.

Bodies of these definitions are folds and recursive functions over the data; the
bounds are on the data, and what happens at each limit happens at one character
before it, at it and behind it.

Six runs show where the code departs from what it says:

| Run | Property | What happens |
|---|---|---|
| `pmm_clamp` | `ClampKeepsRam` | RAM up to 4 GiB: the clamp to 0xFFFFFFFF rounds up to 0, and no frame is managed |
| `heap_wrap` | `BlocksInHeap` | a size near 2^32 wraps the sum and passes the test |
| `heap_reserved` | `PagesReserved` | the frame taken for a heap page is not the frame under it, which goes to someone else |
| `exec_covered` | `TablesIdentityMapped` | same machine as `exec`: execs that fail keep their frames, so the fourth gets frame 12 for its directory, and its program is linked at page 12: once that page is mapped, the directory's address leads to the program's page, under every directory |
| `idt_window` | `IrqsMapped` | an interrupt between the two halves of the second `idt_init` finds no gate |
| `keyboard_dead` | `KeyboardBack` | after an exit the keyboard's line is in service for ever, so no key is delivered |

`CHECK_DEADLOCK` is off but in `shell`: the machine may halt, by panic, out of memory
or idle.

Every property of a passing run has a mutant, a copy of one definition with a
plausible mistake (a dropped test, a rounding the wrong way, a missing reset),
marked `mutant:` in the modules; TLC finds the property violated with it.

## 4. Fairness

* `Heap`, `AddressSpace`: weak fairness on the steps of a call that has begun.
  They run in a handler with interrupts off, so nothing can hold them up.
  Nothing makes a caller call, or a program exit. For `ExecSettles` an exec that has gone
  astray has ended: nothing is claimed of what the kernel does then.
* `Interrupts`: weak fairness on handlers, which run with interrupts off; strong
  fairness on `Deliver`, since the processor looks for an interrupt at every
  instruction that finds IF set, and on the kernel's own steps with interrupts
  on, since instructions execute between two ticks (100 Hz). No fairness on
  devices (no key need be pressed), on system calls or on faults (a program may
  loop for ever). `SessionEnds`, the fairness of the abstract `Session`, is shown to
  follow from this.
* `Shell`: weak fairness on the steps of a command that has opened a file. It runs
  in a handler and is the processor's only work. Nothing makes a user type.
* `Console`: none; nothing in it is claimed to happen.

## 5. The proofs

`tlapm` checks every theorem to its last leaf; each holds for all values of the
constants that satisfy the named assumptions.

**PmmProofs**, from `SizeAssumption`, `LayoutAssumption` (image, bitmap and low
area end below the last frame, so that rounding them up does not wrap) and
`InputAssumption`:

* `TypeCorrect`, `FreeCountCorrect`, `HandedUsableCorrect`: the invariants of
  run `pmm`;
* `Refinement`: `Spec => ImplementsFrameAllocator`.

The invariants are not inductive. `IInv` adds what each stage has achieved: the
pool is whole RAM from the moment regions are freed, each critical range is out
of it once its marking step has run, nothing is handed out before boot is over,
and, the part that is easy to miss, no region was truncated to 32 bits. The code
does not test that; it follows from `total_frames > 0`, because a region that
ends beyond the address space makes the frame count wrap to 0 (the finding of
`pmm_clamp`), and then nothing is freed at all. Lemmas `UsedRangeCovers` and
`FreeRangeInside` say what the two loops walk over, `MarkUsedEffect` and
`MarkFreeEffect` what they do to the counter.

**HeapProofs**, from `HeapAssumption` and `HeapPlacement`, under the hypothesis
`NoWrap` (no requested size wraps the sum; without it `heap_wrap` is the
counterexample): `TypeCorrect`, `InHeap`, `Disjoint`, `Paid`, `NeverBack`. `IInv`
puts the break between the end of every block and the block being allocated, and
the backed end exactly one page per frame taken above the base.

**AddressSpaceProofs**, from `ShapeAssumption`, `ImageAssumption` and
`NoneAssumption`: `TypeCorrect`, `OncePerFrame`, `KernelShared`, `AllReachable`,
`NothingElse`, `CopyStays`, `KernelLoaded`, `KernelKept`: all invariants of run `exec`.
None of them assumes anything of where programs, stack, heap and pool lie. What keeps
them true to the code where these collide is in the model: a store to a table is a
store to that table only if its address still leads there, and exec is astray
otherwise. So they hold up to the first access that misses.

`IInv` has parts that carry each other: each frame has one owner (`Owned`); the low
tables are everyone's and the others one directory's (`Shared`); a user entry in any
table, not only the current one, leads to a frame that was allocated for programs
(`UserPages`); pages and frames of programs are not the kernel's own (`Apart`); the
kernel's tables map a page to itself for the kernel only, unless a program was mapped
there, and no directory names one of them above the kernel's part (`Kept`); and how
far the load has come (`Loading`): the pages wanted are mapped or still to do. A failed
exec leaves its entries in the shared tables; they are harmless because `UserPages` is
about all tables.

`CopyLandsInProgram` and `ProgramReachable` have their hypotheses in the statement: no
segment's end wraps, and for the copy none has more bytes in the file than in memory.
`CopyStays` is then the comparison of two computations of the code, the rounding of
line 107 against the bytes of lines 138 and 139 (`CopiedIsMapped`).
`TablesIdentityMapped` is no theorem: `exec_covered` refutes it. What is left of it is
`KernelKept`: a page of the identity mapping is lost only where a program was mapped.

**InterruptsProofs**, from `LinesAssumption` and `FramesAssumption`: `TypeCorrect`,
`ServiceMatches`, `CommandsExclude`, `ExitUnwinds`. The invariant is about the
frames below the top, which an acknowledgement and an exit reach without naming
them. `Shape`: a program lies on the exec that entered it, a system call on its
program, and a frame can have another above it only where interrupts are on or
a call is made; `Saved`: the saved stack pointer is that exec's frame; `Nested`:
handlers' lines fall towards the top, because the controller offers only better
lines than those in service. With `Nested`, the best line in service is the top
handler's, so that the acknowledgement that names no line retires the right one;
and the frames are as many as the lines, by a bijection.

**SessionProofs**: `Refinement`, `Spec => ImplementsSession`. All the marks that
`Stage` looks for belong to one frame of the keyboard's handler and the program
above it (`OthersUnmarked`, from `Nested`), so a step of any other frame changes no
mark (`GotoUnmarked` and the lemmas beside it). `BootInv` adds what ties the marks
to the variables: no command runs before the shell is enabled, and the exit flag is
set only while a system call is on its way out.

**ConsoleProofs**, from `ConsoleAssumption`: `TypeCorrect`, `CursorRecovers`,
`LineKept`. `CursorInv` says for each place of main in `terminal_putchar` which half
of the cursor may be off the screen, and that what main holds in registers was read
on it; `LineInv` relates the buffer to what was typed also between the two stores of
`line_reset`; `ShiftInv` relates the one flag to the keys held.

**TextProofs** is about what the recursive functions and folds of `Format` and `Paths`
compute, for every text. The induction theorems of the library take a predicate, which
cannot be instantiated here; the lemmas `Steps` and `Smaller` take the set of numbers a
predicate holds of in its place, `Recursion` and `Stepwise` say in the same way that a
recursive function exists and satisfies its equation, and everything else follows from
them. There are three groups:

* words: they are the maximal runs without the separator, so the words of two texts joined
  are those of both; `Canon`, component by component, keeps its buffer canonical
  (`IsCanonical`) and its meaning that of the components so far (`Walked`);
* numerals: what `U64ToBase` puts is the shortest numeral that denotes the number,
  and `ParseInt` reads one back;
* formats: the conversion that `Spell` writes is what `ParseFormat` reads
  (`ParsesSpelled`), and a field is its fill, lead, zeros and digits in the order that
  flags, width and precision ask for (`PrintsConversion`).

`LiteralAssumption` is there because a literal like `"0"` is a string, which TLC knows and
the provers do not. `CharAssumption` says that the terminator and the unwritten byte are
no character.

**ShellProofs**, from these, `PathsAssumption` and `ShellAssumption` (sizes; lines are
text, images sequences of blocks, conversions have flags, a width, a precision and
a modifier that the code knows):

* `NoDescriptorLost`: whatever paths resolve to; its `IInv` says that only a command that is
  reading has a descriptor in use, its own;
* `PathFits`, `PathMeans`: `PathInv` says that the working directory and the path are
  canonical, and that the path is the result for one of the values of the byte that a
  cut path leaves unwritten;
* `DescriptorsTyped`, `FilesReadWhole`: `CommandInv` follows the command: the
  descriptor is on a file of the image, what has been read is as long as its offset, and
  a command closes only at the end of the file or where `elf_load_image` gives up. A
  lookup never takes more from the heap than it has (`LookupType`, `ResolveType`);
* `PrintfPrints`, `SprintfPrints`: conversions with any flags, width, precision,
  modifier and argument, but `%p` of null, and with the code's digit for a signed zero of
  precision 0; from `PrintsConversion` and, for
  `vsnprintf`, from `PlainAgrees`, which compares the two formatters on the conversions
  both have;
* `PathsFound`, `CwdFound`, `NamesListed`: `ResolveMeans`, `CwdIsDirectory` and
  `ListMeans`, under the hypothesis that every image is `Orderly`.

`Orderly` (Shell) is an image as tar writes it: an entry's name is the names that lead
to its place with one slash between two, `./` in front or not and one more slash behind
a directory's, and no file has entries below it. Without it `ResolveMeans` and
`ListMeans` are false: an entry whose name has `//` in it is found by no path and lists
as an empty name. The images of run `shell` are orderly, which TLC evaluates
(`ImagesOrderly` in `MCShell`). The hypothesis asks
nothing of the order of the entries, of directories without an entry, of prefix
fields, or of the data; names that do not fit the buffers are excepted by the properties
themselves. `NullAssumption` says that a null pointer is no address and no vnode.

The three share the inductive `PlaceInv`: what a command has found is what the image has
at the place its path means (`Found`), `names` is the listing of that place, and the
working directory is one. Below it:

* in an orderly image an entry's name, without `./` and the last slash, is the joint of
  its place (`FullIs`, `TidyIs`), so that the tests of characters in `Matches` and
  `StartsWithDir` are equality and prefix of lists of names (`MatchesIs`, `StrictHas`,
  `PrefixTaken`);
* one step of `vfs_resolve` goes from a place to the place below it or to null
  (`StepFinds`); the path's words one after another give `ResolveFinds`. Where the heap
  has a vnode but no data for it, the name at address 0 is read for the directory's, and
  it is right, for it was written there last (`MakeDirGives`);
* what `readdir` cuts off an entry's name is the name after the directory's
  (`ChildIs`), and the walk over the headers keeps each once (`ListingIs`).

Only model-checked: all liveness (`KmallocEnds`, `ExecSettles`, `SessionEnds`,
`TicksServed`, `ReadingEnds`), which is beyond the prover. Every invariant and every
action property of a passing run is a theorem; those of the heap and the three above
have a hypothesis.

## 6. What is not modelled, and the plan

Left out on purpose: contents of memory and of pages, the TLB, the slave interrupt
controller and spurious interrupts, what is on the screen and its colours, GDT, TSS,
multiboot parsing, commands of the shell that only print, and
`paging_map`/`paging_unmap` on the current directory (only the page fault handler
uses them, before it halts). Octal sizes in headers are numbers far below 2^32;
`print_float` is not built; the string functions are what they say. It is assumed
that the byte behind the shell's path buffer, where `vsnprintf` puts the terminator
of a text that is cut, is not used for anything else.

Where a property stops short of the code, it says so. These are departures that
its statement excepts, and none of them has a run of its own:

* `..` leaves its slash behind: `a/b/../c` becomes `/a//c`, which `pwd` shows
  although shell.c:90 says that `//` is collapsed. Every reader of paths skips empty
  components, so its meaning is right (`CanonMeans`).
* A component that does not fit is dropped and the rest applied (`CanonMeans` is
  stated below the limits), and a directory's prefix is cut without a test
  (`ResolveMeans` is stated for paths that fit).
* An entry whose name contains `//` lists as an empty name.
* `%p` of null prints `0`, though printf.c:356 says "Always print 0x...": the prefix
  depends on `val != 0`. `PrintfMeans` leaves this one conversion out.
* A signed zero of precision 0 prints its digit, and the C standard asks for none
  (`ZeroDigits`). `printf` returns the number of literal characters only, and `sprintf`
  passes a size of -1.
* A segment with `p_filesz > p_memsz` is copied past the pages mapped for it
  (user_exec.c:138), and one whose end wraps is copied to pages never mapped
  (user_exec.c:107): line 101 only compares the file's size, itself in 32 bits.
  `CopyLandsInProgram` is stated without the two, `ProgramReachable` without the
  second; run `exec` has a program of each kind, whose copy goes astray.
* A directory or table that the heap's addresses or a program's page covers is not
  reached by the code any more; every property of `AddressSpace` ends there.
* `vsnprintf` terminates a text that is cut one byte behind its buffer.
* Of two shift keys held, the release of one ends the shift (`LineIsTyped`).
* A command that enters a program while main is between the store of the row and
  the scroll leaves the row below the screen (`CursorSettles`).

Next, in this order:

1. The boot's two orderings, which no property covers yet: `ps2_enable_irq1_only`
   takes a key pressed meanwhile for the configuration byte (keyboard.c:217); and a
   request latched before `pic_remap`, whose byte stays in the buffer.
2. The screen's contents under `terminal_scroll` and `terminal_backspace`, and what
   the line on it shows after a key that was dropped.
3. The order of the bitmap and the modules in memory (pmm.c:130).
4. `paging_map`/`paging_unmap` and the page fault handler's walk.

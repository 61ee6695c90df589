---------------------------------- MODULE Shell ---------------------------------
(***************************************************************************)
(* The shell's commands on files (shell.c, cmd_alloc.c), the descriptors   *)
(* of vfs.c and the loader's reading of a program (user_exec.c), over the  *)
(* image of Initrd and a heap that never frees.  Before the shell starts,  *)
(* the kernel prints.                                                      *)
(*                                                                         *)
(* A command runs in the keyboard's handler, alone.  Commands that only    *)
(* print change nothing here.  Memory is counted in the 16 bytes to which  *)
(* kmalloc aligns.                                                         *)
(***************************************************************************)
EXTENDS Initrd

CONSTANTS
  MaxFd,              \* MAX_FD
  CatLen, HexLen,     \* bytes cat and hexdump ask for
  HeaderLen, ElfMax,  \* bytes of an ELF header; MAX_ELF
  ElfSize,            \* heap that MAX_ELF bytes take
  Magic,              \* the first byte of a program
  HeapLeft,           \* heap left when the shell starts
  Images,             \* images the boot loader may bring
  Lines,              \* lines a user may type; a command's name is one character
  Conversions         \* conversions printf may be asked for

ASSUME ShellAssumption ==
  /\ MaxFd \in Nat \ {0} /\ CatLen \in Nat \ {0} /\ HexLen \in Nat \ {0}
  /\ HeaderLen \in Nat \ {0} /\ ElfMax \in Nat /\ ElfMax >= HeaderLen
  /\ ElfSize \in Nat /\ HeapLeft \in Nat
  /\ Lines \subseteq Text
  /\ \A image \in Images : image \in Seq(BlockType)
  /\ \A c \in Conversions : IsConversion(c)

VARIABLES
  pc,
  tar,       \* g_tar
  mem,       \* the heap, and what lies at address 0
  fds,       \* g_fds
  cwd,       \* g_cwd
  line,      \* the line being executed
  path,      \* the command's canonical path
  found,     \* the vnode it resolved to
  names,     \* what ls has printed
  fd, got,   \* the command's descriptor and the bytes it has read
  conv, printed  \* the last conversion printf was asked for and what it printed

command == <<line, path, found, names, fd, got>>
print == <<conv, printed>>
vars == <<pc, tar, mem, fds, cwd, command, print>>

Closed == [used |-> FALSE, at |-> 0, off |-> 0]

Init ==
  /\ pc = "boot"
  /\ tar \in Images
  /\ mem = [left |-> HeapLeft, zero |-> <<>>]
  /\ fds = [k \in 0 .. MaxFd - 1 |-> Closed]
  /\ cwd = <<"/">>
  /\ line = <<>> /\ path = <<>> /\ found = None /\ names = <<>> /\ fd = -1 /\ got = <<>>
  /\ conv = None /\ printed = <<>>

-------------------------------------------------------------------------------
\* A message of kernel_main's with a conversion c.  printf keeps no state: one
\* message stands for any.
Message(c) ==
  /\ pc = "boot" /\ conv = None
  /\ conv' = c
  /\ printed' = Printf(Spell(c), Arguments(c))
  /\ UNCHANGED <<pc, tar, mem, fds, cwd, command>>

Prompt ==
  /\ pc \in {"boot", "done"}
  /\ pc' = "prompt"
  /\ line' = <<>> /\ path' = <<>> /\ found' = None /\ names' = <<>>
  /\ fd' = -1 /\ got' = <<>> /\ conv' = None /\ printed' = <<>>
  /\ UNCHANGED <<tar, mem, fds, cwd>>

Command == Tokenize(line)[1][1]

\* The argument of a command on paths: cd and ls have a default, the others refuse.
Argument(argv) ==
  IF Len(argv) >= 2 THEN argv[2]
  ELSE CASE argv[1] = <<"cd">> -> <<"/">>
         [] argv[1] = <<"ls">> -> <<".">>
         [] OTHER -> <<>>

\* shell_on_line, up to the command's canonical path.
OnLine(l) ==
  LET argv == Tokenize(l)
  IN  /\ pc = "prompt"
      /\ argv # <<>> /\ argv[1] \in {<<"cd">>, <<"ls">>, <<"cat">>, <<"hexdump">>, <<"exec">>}
      /\ Argument(argv) # <<>>
      /\ line' = l
      /\ \E tmp \in Candidates(cwd, Argument(argv)) : path' = Canon(tmp)
      /\ pc' = "run"
      /\ UNCHANGED <<tar, mem, fds, cwd, found, names, fd, got, print>>

\* cmd_alloc.
Alloc(l) ==
  LET argv == Tokenize(l)
      n == ParseInt(argv[2], 1, SpanEnd(argv[2], 1, Decimal))
  IN  /\ pc = "prompt"
      /\ Len(argv) >= 2 /\ argv[1] = <<"alloc">>
      /\ mem' = [mem EXCEPT !.left = Free(mem, (n + 15) \div 16)]
      /\ UNCHANGED <<pc, tar, fds, cwd, command, print>>

\* mutant: any path that resolves.
CdAny ==
  /\ pc = "run" /\ Command = "cd"
  /\ LET r == Resolve(tar, mem, path)
     IN  /\ mem' = r.mem /\ found' = r.node
         /\ cwd' = IF r.node # None THEN path ELSE cwd
  /\ pc' = "done"
  /\ UNCHANGED <<tar, fds, line, path, names, fd, got, print>>

\* cmd_cd and vfs_stat.
Cd ==
  /\ pc = "run" /\ Command = "cd"
  /\ LET r == Resolve(tar, mem, path)
     IN  /\ mem' = r.mem /\ found' = r.node
         /\ cwd' = IF r.node # None /\ r.node.dir THEN path ELSE cwd
  /\ pc' = "done"
  /\ UNCHANGED <<tar, fds, line, path, names, fd, got, print>>

\* cmd_ls and vfs_ls.
Ls ==
  /\ pc = "run" /\ Command = "ls"
  /\ LET r == Resolve(tar, mem, path)
     IN  /\ mem' = r.mem /\ found' = r.node
         /\ names' = IF r.node # None /\ r.node.dir
                       THEN Listing(tar, PrefixOf(r.mem, r.node)) ELSE <<>>
  /\ pc' = "done"
  /\ UNCHANGED <<tar, fds, cwd, line, path, fd, got, print>>

\* vfs_open, for cat, hexdump and exec.
Open ==
  /\ pc = "run" /\ Command \in {"cat", "hexdump", "exec"}
  /\ LET r == Resolve(tar, mem, path)
         free == {k \in DOMAIN fds : ~fds[k].used}
         first == CHOOSE k \in free : \A j \in free : k <= j
     IN  /\ mem' = r.mem /\ found' = r.node
         /\ IF r.node # None /\ ~r.node.dir /\ free # {}
              THEN /\ fds' = [fds EXCEPT ![first] = [used |-> TRUE, at |-> r.node.at, off |-> 0]]
                   /\ fd' = first
                   /\ pc' = "read"
              ELSE /\ pc' = "done"
                   /\ UNCHANGED <<fds, fd>>
  /\ UNCHANGED <<tar, cwd, line, path, names, got, print>>

\* Bytes vfs_read gives when asked for len.
Given(len) == ReadLen(tar[fds[fd].at].size, fds[fd].off, len)

\* mutant: vfs_read advances by what was asked for.
VfsReadAsked(len) ==
  /\ fds' = [fds EXCEPT ![fd].off = @ + len]
  /\ got' = got \o SubSeq(Data(tar, fds[fd].at), fds[fd].off + 1, fds[fd].off + Given(len))

\* vfs_read.
VfsRead(len) ==
  /\ fds' = [fds EXCEPT ![fd].off = @ + Given(len)]
  /\ got' = got \o SubSeq(Data(tar, fds[fd].at), fds[fd].off + 1, fds[fd].off + Given(len))

\* mutant: cat waits for an error.
ReadCatOn ==
  /\ pc = "read" /\ Command = "cat"
  /\ VfsRead(CatLen)
  /\ pc' = IF Given(CatLen) < 0 THEN "close" ELSE "read"
  /\ UNCHANGED <<tar, mem, cwd, line, path, found, names, fd, print>>

\* The loop of cmd_cat: to the end.
ReadCat ==
  /\ pc = "read" /\ Command = "cat"
  /\ VfsRead(CatLen)
  /\ pc' = IF Given(CatLen) = 0 THEN "close" ELSE "read"
  /\ UNCHANGED <<tar, mem, cwd, line, path, found, names, fd, print>>

\* The loop of cmd_hexdump: a short line is the last.
ReadHex ==
  /\ pc = "read" /\ Command = "hexdump"
  /\ VfsRead(HexLen)
  /\ pc' = IF Given(HexLen) < HexLen THEN "close" ELSE "read"
  /\ UNCHANGED <<tar, mem, cwd, line, path, found, names, fd, print>>

\* read_all of elf_load_image: the header, which must be a program's; then the heap
\* for the image, which may be out.
ReadHeader ==
  /\ pc = "read" /\ Command = "exec"
  /\ VfsRead(HeaderLen - Len(got))
  /\ LET whole == Len(got') = HeaderLen
         accepted == whole /\ got'[1] = Magic
     IN  /\ pc' = IF Given(HeaderLen - Len(got)) = 0 THEN "close"
                  ELSE IF ~whole THEN "read"
                  ELSE IF accepted /\ mem.left >= ElfSize THEN "slurp" ELSE "close"
         /\ mem' = IF accepted THEN [mem EXCEPT !.left = Free(mem, ElfSize)] ELSE mem
  /\ UNCHANGED <<tar, cwd, line, path, found, names, fd, print>>

\* The rest of the file, up to MAX_ELF.  What follows the close is in AddressSpace.
Slurp ==
  /\ pc = "slurp"
  /\ IF Len(got) < ElfMax
       THEN /\ VfsRead(ElfMax - Len(got))
            /\ pc' = IF Given(ElfMax - Len(got)) = 0 THEN "close" ELSE "slurp"
       ELSE /\ pc' = "close"
            /\ UNCHANGED <<fds, got>>
  /\ UNCHANGED <<tar, mem, cwd, line, path, found, names, fd, print>>

\* mutant: exec returns without closing what it refuses.
CloseKept ==
  /\ pc = "close"
  /\ fds' = IF Command = "exec" /\ Len(got) <= HeaderLen THEN fds
            ELSE [fds EXCEPT ![fd].used = FALSE]
  /\ pc' = "done"
  /\ UNCHANGED <<tar, mem, cwd, command, print>>

\* vfs_close.
Close ==
  /\ pc = "close"
  /\ fds' = [fds EXCEPT ![fd].used = FALSE]
  /\ pc' = "done"
  /\ UNCHANGED <<tar, mem, cwd, command, print>>

Reading == ReadCat \/ ReadHex \/ ReadHeader \/ Slurp \/ Close

Next ==
  \/ \E c \in Conversions : Message(c)
  \/ \E l \in Lines : OnLine(l) \/ Alloc(l)
  \/ Prompt \/ Cd \/ Ls \/ Open \/ Reading

\* A command is the processor's only work: it goes on reading.
Spec == Init /\ [][Next]_vars /\ WF_vars(Reading)

-------------------------------------------------------------------------------
\* The heap is counted, descriptors stay in their table, and an open one is that of
\* a file of the image.
TypeOK ==
  /\ pc \in {"boot", "prompt", "run", "read", "slurp", "close", "done"}
  /\ mem.left \in 0 .. HeapLeft
  /\ DOMAIN fds = 0 .. MaxFd - 1 /\ fd \in -1 .. MaxFd - 1
  /\ \A k \in DOMAIN fds : fds[k].used => (fds[k].at \in DOMAIN tar /\ fds[k].off \in Nat)
  /\ pc \in {"read", "slurp", "close"} => (fd \in DOMAIN fds /\ found # None)

\* shell_canon_path returns the place that the argument means from where the shell
\* is, "." and ".." in any order and slashes anywhere, for every path that is short
\* enough (shell.c:87-92).
CanonMeans ==
  pc = "run" =>
    LET words == Words(line, " ")
        meant == Joined(cwd, IF Len(words) > 1 THEN words[2] ELSE Argument(words))
    IN  Len(meant) + 2 < PathMax /\ Len(Words(meant, "/")) <= CompMax
          => Meaning(path) = Meaning(meant)

\* Its result is absolute, fits the buffer with its terminator and names no "." or
\* "..", for paths of any length, whatever the bytes hold that a cut one leaves
\* unwritten (shell.c:146).
CanonFits ==
  path # <<>> =>
    /\ path[1] = "/" /\ Len(path) < PathMax
    /\ \A k \in DOMAIN Words(path, "/") : Words(path, "/")[k] \notin {<<".">>, <<".", ".">>}

\* Names that end inside their fields and buffers.
Legible ==
  \A off \in ToSet(Headers(tar)) :
    /\ Len(tar[off].name) < NameField
    /\ Len(tar[off].prefix) + 1 + Len(tar[off].name) < FullMax
    /\ \A k \in DOMAIN NameOf(tar[off]) : Len(NameOf(tar[off])[k]) < PartMax

\* A path that the buffers for prefixes and components hold.
Short(p) == Len(p) < PartMax

Joint(place) ==
  LET upto[n \in 0 .. Len(place)] ==
        IF n = 0 THEN <<>>
        ELSE IF n = 1 THEN place[1] ELSE upto[n - 1] \o <<"/">> \o place[n]
  IN  upto[Len(place)]

\* An image as tar writes it: a name is the names that lead to its place with a slash
\* between two, "./" in front or not and one more slash behind a directory's; and what
\* holds something is no file.
Orderly(image) ==
  \A off \in ToSet(Headers(image)) :
    LET h == image[off]
        place == NameOf(h)
        written == Written(h)
        name == IF IsPrefix(<<".", "/">>, written) THEN SubSeq(written, 3, Len(written)) ELSE written
    IN  /\ \/ name = Joint(place)
           \/ h.dir /\ place # <<>> /\ name = Append(Joint(place), "/")
        /\ h.dir \/ \A other \in ToSet(Headers(image)) : ~IsStrictPrefix(place, NameOf(image[other]))

\* What vfs_resolve finds is what the image has at that place, a file or a directory
\* that may only be implied by what it holds; it finds it if it is there, unless the
\* heap is out, and then nothing else (initrd_vfs.c:133).
ResolveMeans ==
  pc \in {"read", "slurp", "close", "done"} /\ Legible /\ Short(path) =>
    LET place == Meaning(path)
    IN  /\ found # None =>
             IF found.dir THEN IsDir(tar, place) /\ PrefixOf(mem, found) = Joint(place)
                          ELSE IsFile(tar, place) /\ found.at = EntryAt(tar, place)
        /\ mem.left >= VnodeSize =>
             (found # None <=> (IsDir(tar, place) \/ IsFile(tar, place)))

FoundDir == found # None /\ found.dir

\* ls prints each name of the directory once and no other, though readdir scans the
\* image anew for every index and again for what it has already given.
ListMeans ==
  (pc = "done" /\ Command = "ls" /\ FoundDir /\ Legible /\ Short(path)) =>
    /\ ToSet(names) = Children(tar, Meaning(path))
    /\ \A j, k \in DOMAIN names : names[j] = names[k] => j = k

\* What a command has read is the file from its beginning, in order and once; cat and
\* hexdump go to its end, and exec to its end or to MAX_ELF unless it refuses the
\* header or has no memory for the image.
ReadsWhole ==
  pc \in {"read", "slurp", "close"} =>
    LET data == Data(tar, fds[fd].at)
    IN  /\ IsPrefix(got, data) /\ fds[fd].off = Len(got)
        /\ pc = "close" =>
             \/ got = data
             \/ /\ Command = "exec"
                /\ \/ Len(got) = ElfMax
                   \/ Len(got) = HeaderLen /\ (got[1] # Magic \/ mem.left < ElfSize)

\* No command leaves a descriptor open, so none is ever out of them (vfs.c:48).
DescriptorsClosed ==
  \A k \in DOMAIN fds : fds[k].used => (pc \in {"read", "slurp", "close"} /\ k = fd)

\* The working directory is one of the image's, after any sequence of commands.
CwdIsDirectory == Legible /\ Short(cwd) => IsDir(tar, Meaning(cwd))

\* printf prints what the flags, width, precision and argument of a conversion ask
\* for, with one departure from the C standard (ZeroDigits).  The null pointer is left
\* out: "Always print 0x..." (printf.c:356), but the code prints "0".
PrintfMeans ==
  conv # None /\ ~(conv.spec = "p" /\ conv.arg = 0) =>
    CASE conv.spec = "s" -> StringPrinted(conv, conv.arg, printed)
      [] conv.spec = "c" -> StringPrinted(conv, <<conv.arg>>, printed)
      [] OTHER -> NumberPrinted(conv, printed)

Plain(c) ==
  ~(c.left \/ c.zero \/ c.plus \/ c.space \/ c.alt \/ c.star)
  /\ c.width = 0 /\ c.prec < 0 /\ c.modifier = <<>>

\* For the conversions both have, vsnprintf puts what printf prints, as far as the
\* buffer has room; a text that fits is terminated inside it (sprintf.c:48).
SprintfAgrees ==
  conv # None /\ Plain(conv) /\ conv.spec \in {"d", "u", "x", "c", "s"} =>
    /\ Vsprintf(Spell(conv), Arguments(conv)) = printed
    /\ \A size \in 1 .. Len(printed) + 2 :
         LET buf == Snprintf(size, printed)
         IN  /\ \A k \in 0 .. size - 2 : k < Len(printed) => buf[k] = printed[k + 1]
             /\ {buf[size - 1], buf[size]} \subseteq {Nul, Garbage}
             /\ Len(printed) < size => (buf[Len(printed)] = Nul /\ buf[size] = Garbage)

\* A command that has opened a file comes to its end: each of its loops runs out of
\* file, whatever the file's size is to the loop's buffer.
ReadingEnds == pc = "read" ~> pc = "done"
===============================================================================

--------------------------------- MODULE Initrd --------------------------------
(***************************************************************************)
(* The tar image as a file system (fs/initrd_vfs.c) and the resolution of  *)
(* paths in it (vfs_resolve in fs/vfs.c), with what an image means.        *)
(*                                                                         *)
(* An image is a sequence of blocks.  A block holds bytes and, read as a   *)
(* header, a name, a prefix, a directory flag and a size in bytes; one     *)
(* with neither bytes nor name is all zeros.  Sizes stay far below 2^32.   *)
(***************************************************************************)
EXTENDS Paths

CONSTANTS
  BlockSize,      \* 512
  NameField,      \* characters of the header's name, which may fill it
  Mode,           \* the characters behind it, up to their terminator
  FullMax,        \* size of the buffers for an entry's and a target's full name
  VnodeSize, DirDataSize,  \* bytes of the heap a vnode and a dir_data_t take
  None            \* a null pointer

ASSUME InitrdAssumption ==
  /\ BlockSize \in Nat \ {0} /\ NameField \in Nat
  /\ FullMax \in Nat \ {0} /\ FullMax >= PartMax
  /\ VnodeSize \in Nat \ {0} /\ DirDataSize \in Nat /\ DirDataSize >= VnodeSize

\* A null pointer is none of what a pointer may be here.
ASSUME NullAssumption ==
  /\ None \notin Nat /\ None \notin Text
  /\ None \notin [dir : BOOLEAN, prefix : Seq(STRING \union {Garbage}), own : BOOLEAN, at : Nat]

BlockType == [name : Text, prefix : Text, dir : BOOLEAN, size : Nat, bytes : Text]

-------------------------------------------------------------------------------
\* The scan.

\* mutant: the size counts whole blocks only.
BlocksFloor(size) == size \div BlockSize

\* Blocks of a file's data: (sz + 511) & ~511.
Blocks(size) == (size + BlockSize - 1) \div BlockSize

ZeroBlock(b) == b.bytes = <<>> /\ b.name = <<>> /\ b.prefix = <<>>

\* The places of the headers, in order, up to the end or a block of zeros.
Headers(tar) ==
  LET from[off \in 1 .. Len(tar) + 1] ==
        IF off > Len(tar) \/ ZeroBlock(tar[off]) THEN <<>>
        ELSE LET next == off + 1 + Blocks(tar[off].size)
             IN  <<off>> \o (IF next > Len(tar) THEN <<>> ELSE from[next])
  IN  from[1]

\* make_full: prefix and name, cut to the buffer, without "./".  A name that fills
\* its field runs on into the mode.
Full(h) ==
  LET name == IF Len(h.name) = NameField THEN h.name \o Mode ELSE h.name
      full == IF h.prefix = <<>> THEN name ELSE h.prefix \o <<"/">> \o name
      cut == SubSeq(full, 1, IF Len(full) < FullMax THEN Len(full) ELSE FullMax - 1)
  IN  IF IsPrefix(<<".", "/">>, cut) THEN SubSeq(cut, 3, Len(cut)) ELSE cut

\* A directory's entry may end in '/'.
Matches(h, path) ==
  LET full == Full(h)
  IN  full = path \/ (h.dir /\ full = Append(path, "/"))

First(offs) == CHOOSE off \in offs : \A other \in offs : off <= other

\* tar_find_exact.
FindExact(tar, path) ==
  LET hits == {off \in ToSet(Headers(tar)) : Matches(tar[off], path)}
  IN  IF hits = {} THEN None ELSE First(hits)

\* mutant: any name that begins with the directory's.
StartsWithAny(full, prefix) == IsPrefix(prefix, full)

\* starts_with_dir.
StartsWithDir(full, prefix) ==
  \/ prefix = <<>>
  \/ full = prefix
  \/ IsPrefix(Append(prefix, "/"), full)

\* The immediate child of prefix that an entry is or lies in, if any.
Child(h, prefix) ==
  LET full == Full(h)
      below == SubSeq(full, Len(prefix) + 1, Len(full))
      rel == IF prefix # <<>> /\ below # <<>> /\ below[1] = "/" THEN Tail(below) ELSE below
      n == SpanEnd(rel, 1, ToSet(rel) \ {"/"}) - 1
  IN  IF StartsWithDir(full, prefix) /\ rel # <<>>
        THEN SubSeq(rel, 1, IF n < PartMax THEN n ELSE PartMax - 1) ELSE None

\* What initrd_readdir gives for one index after another: a child where it first
\* appears.
Listing(tar, prefix) ==
  LET offs == Headers(tar)
      given[n \in 0 .. Len(offs)] ==
        LET names == given[n - 1]
            child == Child(tar[offs[n]], prefix)
        IN  IF n = 0 THEN <<>>
            ELSE IF child = None \/ Contains(names, child) THEN names
            ELSE Append(names, child)
  IN  given[Len(offs)]

-------------------------------------------------------------------------------
\* Vnodes.  mem is what the heap has left and the name at address 0, where a
\* dir_data_t lies that could not be allocated; nothing is ever freed.

\* mutant: nothing checks that the heap suffices.
FreeAny(mem, size) == mem.left - size

\* kmalloc (Heap).
Free(mem, size) == IF mem.left >= size THEN mem.left - size ELSE mem.left

DirAt(prefix, own) == [dir |-> TRUE, prefix |-> prefix, own |-> own, at |-> 0]
FileAt(off) == [dir |-> FALSE, prefix |-> <<>>, own |-> TRUE, at |-> off]

\* vnode_make_dir: a null vnode is written through as well.
MakeDir(mem, path) ==
  LET left == Free(mem, VnodeSize)
      prefix == SubSeq(path, 1, IF Len(path) < PartMax THEN Len(path) ELSE PartMax - 1)
      own == left >= DirDataSize
  IN  IF mem.left < VnodeSize
        THEN [node |-> None, mem |-> [mem EXCEPT !.zero = <<Garbage>>]]
        ELSE [node |-> DirAt(IF own THEN prefix ELSE <<>>, own),
              mem |-> [left |-> IF own THEN left - DirDataSize ELSE left,
                       zero |-> IF own THEN mem.zero ELSE prefix]]

\* vnode_make_file.
MakeFile(mem, off) ==
  IF mem.left < VnodeSize
    THEN [node |-> None, mem |-> [mem EXCEPT !.zero = <<Garbage>>]]
    ELSE [node |-> FileAt(off), mem |-> [mem EXCEPT !.left = @ - VnodeSize]]

PrefixOf(mem, dir) == IF dir.own THEN dir.prefix ELSE mem.zero

\* mutant: the second scan without the slash.
LookupLoose(tar, mem, dir, name) ==
  LET prefix == PrefixOf(mem, dir)
      path == IF prefix = <<>> THEN name ELSE prefix \o <<"/">> \o name
      target == SubSeq(path, 1, IF Len(path) < FullMax THEN Len(path) ELSE FullMax - 1)
      off == FindExact(tar, target)
  IN  IF off # None
        THEN IF tar[off].dir THEN MakeDir(mem, target) ELSE MakeFile(mem, off)
      ELSE IF \E k \in ToSet(Headers(tar)) : IsPrefix(target, Full(tar[k]))
        THEN MakeDir(mem, target)
      ELSE [node |-> None, mem |-> mem]

\* initrd_lookup: an entry, or a directory that only its entries imply.
Lookup(tar, mem, dir, name) ==
  LET prefix == PrefixOf(mem, dir)
      path == IF prefix = <<>> THEN name ELSE prefix \o <<"/">> \o name
      target == SubSeq(path, 1, IF Len(path) < FullMax THEN Len(path) ELSE FullMax - 1)
      off == FindExact(tar, target)
  IN  IF name \in {<<".">>, <<".", ".">>} THEN [node |-> dir, mem |-> mem]
      ELSE IF off # None
        THEN IF tar[off].dir THEN MakeDir(mem, target) ELSE MakeFile(mem, off)
      ELSE IF \E k \in ToSet(Headers(tar)) : IsPrefix(Append(target, "/"), Full(tar[k]))
        THEN MakeDir(mem, target)
      ELSE [node |-> None, mem |-> mem]

Root == DirAt(<<>>, TRUE)

\* vfs_resolve.
Resolve(tar, mem, path) ==
  LET parts == VfsParts(path)
      after[k \in 0 .. Len(parts)] ==
        LET s == after[k - 1]
        IN  IF k = 0 THEN [node |-> Root, mem |-> mem]
            ELSE IF s.node = None THEN s
            ELSE IF ~s.node.dir THEN [s EXCEPT !.node = None]
            ELSE Lookup(tar, s.mem, s.node, parts[k])
  IN  after[Len(parts)]

\* The bytes of the file whose header is at off.
Data(tar, off) ==
  [n \in 1 .. tar[off].size |->
     tar[off + 1 + (n - 1) \div BlockSize].bytes[((n - 1) % BlockSize) + 1]]

\* initrd_read: how many bytes it gives.
ReadLen(size, off, len) == IF off >= size THEN 0 ELSE IF off + len > size THEN size - off ELSE len

-------------------------------------------------------------------------------
\* What an image means: a tree of names.

Written(h) == IF h.prefix = <<>> THEN h.name ELSE h.prefix \o <<"/">> \o h.name

NameOf(h) == Meaning(Written(h))

\* The first entry for a place.
EntryAt(tar, place) ==
  LET hits == {off \in ToSet(Headers(tar)) : NameOf(tar[off]) = place}
  IN  IF hits = {} THEN None ELSE First(hits)

IsFile(tar, place) == LET off == EntryAt(tar, place) IN off # None /\ ~tar[off].dir

IsDir(tar, place) ==
  \/ place = <<>>
  \/ ~IsFile(tar, place) /\ \E off \in ToSet(Headers(tar)) : IsPrefix(place, NameOf(tar[off]))

Children(tar, place) ==
  {NameOf(tar[off])[Len(place) + 1] :
     off \in {k \in ToSet(Headers(tar)) : IsStrictPrefix(place, NameOf(tar[k]))}}
===============================================================================

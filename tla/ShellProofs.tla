------------------------------- MODULE ShellProofs -------------------------------
(***************************************************************************)
(* Proofs about commands and messages, for any image, heap, table of       *)
(* descriptors and lines: a command gives its descriptor back; a path is   *)
(* canonical and means what was typed; the heap is counted and an open     *)
(* descriptor is a file's; a file is read whole; and both formatters print *)
(* what a conversion asks for.  In an image as tar writes it, a command    *)
(* looks up the entry its path names, the current directory is one, and    *)
(* ls prints each name of a directory once.                                *)
(***************************************************************************)
EXTENDS Shell, TextProofs

Busy == {"read", "slurp", "close"}

\* A descriptor has its three fields, and only that of a command that is reading is
\* in use.
IsDescriptor(d) ==
  /\ d = [used |-> d.used, at |-> d.at, off |-> d.off]
  /\ d.used \in BOOLEAN

TableOK ==
  /\ DOMAIN fds = 0 .. MaxFd - 1
  /\ fds = [k \in DOMAIN fds |-> fds[k]]
  /\ \A k \in DOMAIN fds : IsDescriptor(fds[k])

IInv ==
  /\ TableOK
  /\ pc \in Busy => fd \in DOMAIN fds
  /\ DescriptorsClosed

-------------------------------------------------------------------------------
LEMMA Initially == Init => IInv
<1> SUFFICES ASSUME Init PROVE IInv OBVIOUS
<1>1. fds = [k \in 0 .. MaxFd - 1 |-> Closed] /\ pc = "boot" BY DEF Init
<1>2. Closed.used = FALSE /\ IsDescriptor(Closed) BY DEF Closed, IsDescriptor
<1>3. DOMAIN fds = 0 .. MaxFd - 1 /\ \A k \in DOMAIN fds : fds[k] = Closed BY <1>1
<1>4. TableOK BY <1>1, <1>2, <1>3 DEF TableOK
<1>5. DescriptorsClosed BY <1>2, <1>3 DEF DescriptorsClosed
<1> QED BY <1>1, <1>4, <1>5 DEF IInv, Busy

LEMMA LengthIs ==
  ASSUME NEW S, NEW s \in Seq(S) PROVE Len(s) \in Nat /\ (s = <<>> <=> Len(s) = 0)
OBVIOUS

\* The first free descriptor is one.
LEMMA FirstIs ==
  ASSUME NEW S, S \subseteq Nat, S # {}
  PROVE  (CHOOSE k \in S : \A j \in S : k <= j) \in S
BY LeastNumber

\* A step that leaves the table alone between two commands.
LEMMA Apart ==
  ASSUME IInv, UNCHANGED fds, pc \notin Busy, pc' \notin Busy PROVE IInv'
BY DEF IInv, TableOK, DescriptorsClosed, Busy

\* A step of the loop, which moves the offset only.
LEMMA Advanced ==
  ASSUME IInv, pc \in Busy, pc' \in Busy, fd' = fd, NEW off,
         fds' = fds \/ fds' = [fds EXCEPT ![fd].off = off]
  PROVE  IInv'
<1>1. TableOK /\ fd \in DOMAIN fds /\ DescriptorsClosed BY DEF IInv
<1>2. \A k \in DOMAIN fds : fds[k].used => k = fd BY <1>1 DEF DescriptorsClosed
<1>3. CASE fds' = fds BY <1>1, <1>3 DEF IInv, TableOK, DescriptorsClosed, Busy
<1>4. CASE fds' = [fds EXCEPT ![fd].off = off]
  <2> DEFINE d == [fds[fd] EXCEPT !.off = off]
  <2>1. IsDescriptor(fds[fd]) BY <1>1 DEF TableOK
  <2>2. IsDescriptor(d) /\ d.used = fds[fd].used BY <2>1 DEF IsDescriptor
  <2>3. fds' = [fds EXCEPT ![fd] = d] BY <1>4
  <2> HIDE DEF d
  <2>4. /\ DOMAIN fds' = DOMAIN fds /\ fds' = [k \in DOMAIN fds |-> fds'[k]]
        /\ fds'[fd] = d /\ \A k \in DOMAIN fds : k # fd => fds'[k] = fds[k]
    BY <1>1, <2>3
  <2>5. TableOK' BY <1>1, <2>2, <2>4 DEF TableOK
  <2>6. \A k \in DOMAIN fds' : fds'[k].used => k = fd BY <1>2, <2>2, <2>4
  <2>7. DescriptorsClosed' BY <2>6 DEF DescriptorsClosed, Busy
  <2> QED BY <1>1, <2>4, <2>5, <2>7 DEF IInv
<1> QED BY <1>3, <1>4

LEMMA Opens ==
  ASSUME IInv, Open PROVE IInv'
<1>1. TableOK /\ DescriptorsClosed BY DEF IInv
<1>2. pc = "run" BY DEF Open
<1> DEFINE free == {k \in DOMAIN fds : ~fds[k].used}
           first == CHOOSE k \in free : \A j \in free : k <= j
<1>3. \/ UNCHANGED fds /\ pc' = "done"
      \/ /\ free # {} /\ fd' = first /\ pc' = "read"
         /\ \E at : fds' = [fds EXCEPT ![first] = [used |-> TRUE, at |-> at, off |-> 0]]
  BY DEF Open
<1>4. CASE UNCHANGED fds /\ pc' = "done" BY <1>2, <1>4, Apart DEF Busy
<1>5. ASSUME free # {}, fd' = first, pc' = "read", NEW at,
             fds' = [fds EXCEPT ![first] = [used |-> TRUE, at |-> at, off |-> 0]]
      PROVE  IInv'
  <2>1. free \subseteq Nat BY <1>1 DEF TableOK
  <2>2. first \in free BY <1>5, <2>1, FirstIs
  <2>3. \A k \in DOMAIN fds : ~fds[k].used BY <1>1, <1>2 DEF DescriptorsClosed
  <2> DEFINE d == [used |-> TRUE, at |-> at, off |-> 0]
  <2>4. IsDescriptor(d) BY DEF IsDescriptor
  <2>5. first \in DOMAIN fds BY <2>2
  <2> HIDE DEF free, first, d
  <2>6. /\ DOMAIN fds' = DOMAIN fds /\ fds' = [k \in DOMAIN fds |-> fds'[k]]
        /\ fds'[first] = d /\ \A k \in DOMAIN fds : k # first => fds'[k] = fds[k]
    BY <1>1, <1>5, <2>5 DEF d
  <2>7. TableOK' BY <1>1, <2>4, <2>6 DEF TableOK
  <2>8. \A k \in DOMAIN fds' : fds'[k].used => k = fd' BY <1>5, <2>3, <2>6
  <2>9. DescriptorsClosed' BY <1>5, <2>8 DEF DescriptorsClosed
  <2> QED BY <1>5, <2>5, <2>6, <2>7, <2>9 DEF IInv
<1> QED BY <1>3, <1>4, <1>5

LEMMA Reads ==
  ASSUME IInv, ReadCat \/ ReadHex \/ ReadHeader \/ Slurp PROVE IInv'
<1>1. pc \in Busy /\ pc' \in Busy /\ fd' = fd
  BY DEF ReadCat, ReadHex, ReadHeader, Slurp, Busy
<1>2. fds' = fds \/ \E len : VfsRead(len)
  BY DEF ReadCat, ReadHex, ReadHeader, Slurp
<1>3. fds' = fds \/ \E off : fds' = [fds EXCEPT ![fd].off = off]
  BY <1>2 DEF VfsRead
<1> QED BY <1>1, <1>3, Advanced

\* What a descriptor is after its first field is set.
LEMMA UsedSet ==
  ASSUME NEW d, d = [used |-> d.used, at |-> d.at, off |-> d.off], NEW v
  PROVE  [d EXCEPT !.used = v] = [used |-> v, at |-> d.at, off |-> d.off]
OBVIOUS

LEMMA Closes ==
  ASSUME IInv, Close PROVE IInv'
<1>1. TableOK /\ DescriptorsClosed BY DEF IInv
<1>2. /\ pc = "close" /\ pc' = "done" /\ fds' = [fds EXCEPT ![fd].used = FALSE]
  BY DEF Close
<1>3. fd \in DOMAIN fds BY <1>2 DEF IInv, Busy
<1> DEFINE d == [fds[fd] EXCEPT !.used = FALSE]
<1>4. IsDescriptor(fds[fd]) BY <1>1, <1>3 DEF TableOK
<1>a. d = [used |-> FALSE, at |-> fds[fd].at, off |-> fds[fd].off]
  BY <1>4, UsedSet, Zenon DEF IsDescriptor
<1>5. IsDescriptor(d) /\ d.used = FALSE
  <2>1. /\ d.used = FALSE
        /\ d = [used |-> d.used, at |-> d.at, off |-> d.off] BY <1>a
  <2> QED BY <2>1, Zenon DEF IsDescriptor
<1>6. fds' = [fds EXCEPT ![fd] = d] BY <1>2
<1> HIDE DEF d
<1>7. /\ DOMAIN fds' = DOMAIN fds /\ fds' = [k \in DOMAIN fds |-> fds'[k]]
      /\ fds'[fd] = d /\ \A k \in DOMAIN fds : k # fd => fds'[k] = fds[k]
  BY <1>1, <1>3, <1>6
<1>8. TableOK' BY <1>1, <1>5, <1>7 DEF TableOK
<1>9. \A k \in DOMAIN fds' : ~fds'[k].used BY <1>1, <1>5, <1>7 DEF DescriptorsClosed
<1>10. DescriptorsClosed' BY <1>9 DEF DescriptorsClosed
<1> QED BY <1>2, <1>8, <1>10 DEF IInv, Busy

LEMMA Preserved == IInv /\ [Next]_vars => IInv'
<1> SUFFICES ASSUME IInv, [Next]_vars PROVE IInv' OBVIOUS
<1>1. CASE \E c \in Conversions : Message(c)
  <2>1. UNCHANGED <<fds, pc>> /\ pc = "boot" BY <1>1 DEF Message
  <2> QED BY <2>1, Apart DEF Busy
<1>2. CASE \E l \in Lines : OnLine(l)
  <2>1. UNCHANGED fds /\ pc = "prompt" /\ pc' = "run" BY <1>2 DEF OnLine
  <2> QED BY <2>1, Apart DEF Busy
<1>3. CASE \E l \in Lines : Alloc(l)
  <2>1. UNCHANGED <<fds, pc>> /\ pc = "prompt" BY <1>3 DEF Alloc
  <2> QED BY <2>1, Apart DEF Busy
<1>4. CASE Prompt
  <2>1. UNCHANGED fds /\ pc \in {"boot", "done"} /\ pc' = "prompt" BY <1>4 DEF Prompt
  <2> QED BY <2>1, Apart DEF Busy
<1>5. CASE Cd \/ Ls
  <2>1. UNCHANGED fds /\ pc = "run" /\ pc' = "done" BY <1>5 DEF Cd, Ls
  <2> QED BY <2>1, Apart DEF Busy
<1>6. CASE Open BY <1>6, Opens
<1>7. CASE Reading BY <1>7, Reads, Closes DEF Reading
<1>8. CASE UNCHANGED vars
  BY <1>8 DEF vars, command, IInv, TableOK, DescriptorsClosed
<1> QED BY <1>1, <1>2, <1>3, <1>4, <1>5, <1>6, <1>7, <1>8 DEF Next

\* No path through a command keeps a descriptor.
THEOREM NoDescriptorLost == Spec => []DescriptorsClosed
<1>1. IInv => DescriptorsClosed BY DEF IInv
<1>2. Spec => []IInv BY Initially, Preserved, PTL DEF Spec
<1> QED BY <1>1, <1>2, PTL

-------------------------------------------------------------------------------
\* Paths.

IsCanonical(p) ==
  /\ p \in Text /\ Len(p) \in 1 .. PathMax - 1 /\ p[1] = "/"
  /\ \A k \in DOMAIN Words(p, "/") : Words(p, "/")[k] \notin Dots

\* The working directory is canonical, and so is the command's path, which comes from
\* its line.
PathInv ==
  /\ IsCanonical(cwd) /\ line \in Text
  /\ path # <<>> => IsCanonical(path)
  /\ pc = "run" =>
       /\ path # <<>> /\ Tokenize(line) # <<>> /\ Argument(Tokenize(line)) # <<>>
       /\ \E tmp \in Candidates(cwd, Argument(Tokenize(line))) : path = Canon(tmp)

LEMMA Characters ==
  /\ Nul \notin STRING /\ Garbage \notin STRING /\ PathChars \subseteq STRING
  /\ "/" \in STRING /\ " " \in STRING /\ "." \in STRING
BY CharAssumption, PathsAssumption, LiteralAssumption

LEMMA ArgumentIs ==
  ASSUME NEW l \in Text
  PROVE  /\ Argument(Tokenize(l)) \in Text
         /\ Tokenize(l) # <<>> =>
              Argument(Tokenize(l)) = LET words == Words(l, " ")
                                      IN IF Len(words) > 1 THEN words[2] ELSE Argument(words)
<1> DEFINE words == Words(l, " ")
           argv == Tokenize(l)
<1>1. /\ words \in Seq(Text) /\ argv \in Seq(Text)
      /\ Len(argv) = IF Len(words) < ArgMax THEN Len(words) ELSE ArgMax
      /\ \A k \in 1 .. Len(argv) : argv[k] = words[k]
  BY TokenizeIs, Characters DEF Text
<1> HIDE DEF words, argv
<1>2. Len(words) \in Nat /\ Len(argv) \in Nat /\ ArgMax \in Nat \ {0, 1}
  BY <1>1, PathsAssumption
<1>3. <<"/">> \in Text /\ <<".">> \in Text /\ <<>> \in Text
  <2>1. <<"/">> \in Seq(STRING) BY OneLong, Characters
  <2>2. <<".">> \in Seq(STRING) BY OneLong, Characters
  <2> QED BY <2>1, <2>2 DEF Text
<1>4. Argument(argv) = IF Len(argv) >= 2 THEN argv[2]
                       ELSE IF argv[1] = <<"cd">> THEN <<"/">>
                       ELSE IF argv[1] = <<"ls">> THEN <<".">> ELSE <<>>
  BY DEF Argument
<1>5. Argument(words) = IF Len(words) >= 2 THEN words[2]
                        ELSE IF words[1] = <<"cd">> THEN <<"/">>
                        ELSE IF words[1] = <<"ls">> THEN <<".">> ELSE <<>>
  BY DEF Argument
<1>6. Len(argv) >= 2 => argv[2] \in Text /\ argv[2] = words[2] BY <1>1, <1>2
<1>7. Len(argv) >= 2 <=> Len(words) >= 2 BY <1>1, <1>2
<1>8. argv # <<>> => argv[1] = words[1] BY <1>1, <1>2
<1>9. Len(words) > 1 <=> Len(words) >= 2 BY <1>2
<1>10. Argument(argv) \in Text BY <1>3, <1>4, <1>6
<1>11. ASSUME argv # <<>>
       PROVE  Argument(argv) = IF Len(words) > 1 THEN words[2] ELSE Argument(words)
  BY <1>4, <1>5, <1>6, <1>7, <1>8, <1>9, <1>11
<1> QED BY <1>10, <1>11 DEF words, argv

\* What shell_canon_path returns is canonical.
LEMMA CanonIsCanonical ==
  ASSUME NEW tmp \in Text PROVE IsCanonical(Canon(tmp)) /\ Canon(tmp) # <<>>
<1>1. /\ Canon(tmp) \in Seq(STRING) /\ Len(Canon(tmp)) \in 1 .. PathMax - 1
      /\ Canon(tmp)[1] = "/"
      /\ \A k \in DOMAIN Words(Canon(tmp), "/") : Words(Canon(tmp), "/")[k] \notin Dots
  BY Characters, CanonShape DEF Text
<1> QED BY <1>1 DEF IsCanonical, Text

LEMMA RootIsCanonical == IsCanonical(<<"/">>)
<1>1. Start.out = <<"/">> BY DEF Start
<1>2. Start \in CanonState(STRING) BY StartIs, Characters
<1>3. Words(<<"/">>, "/") = <<>> BY <1>1, StartIs, Characters
<1>4. <<"/">> \in Seq(STRING) /\ Len(<<"/">>) = 1 /\ <<"/">>[1] = "/" BY OneLong, Characters
<1>5. 1 \in 1 .. PathMax - 1 BY PathsAssumption
<1> QED BY <1>3, <1>4, <1>5 DEF IsCanonical, Text

LEMMA PathsInitially == Init => PathInv
<1> SUFFICES ASSUME Init PROVE PathInv OBVIOUS
<1>1. cwd = <<"/">> /\ line = <<>> /\ path = <<>> /\ pc = "boot" BY DEF Init
<1>2. <<>> \in Text BY DEF Text
<1> QED BY <1>1, <1>2, RootIsCanonical DEF PathInv

\* A step that runs no new command.
LEMMA PathsKept ==
  ASSUME PathInv, pc' # "run", cwd' = cwd \/ (cwd' = path /\ path # <<>>),
         UNCHANGED <<line, path>> \/ (line' = <<>> /\ path' = <<>>)
  PROVE  PathInv'
<1>1. IsCanonical(cwd) /\ line \in Text /\ (path # <<>> => IsCanonical(path)) BY DEF PathInv
<1>2. <<>> \in Text BY DEF Text
<1>3. IsCanonical(cwd') BY <1>1
<1>4. line' \in Text /\ (path' # <<>> => IsCanonical(path')) BY <1>1, <1>2
<1> QED BY <1>3, <1>4 DEF PathInv, IsCanonical

LEMMA PathsPreserved == PathInv /\ [Next]_vars => PathInv'
<1> SUFFICES ASSUME PathInv, [Next]_vars PROVE PathInv' OBVIOUS
<1>1. CASE \E c \in Conversions : Message(c)
  BY <1>1, PathsKept DEF Message, command
<1>2. ASSUME NEW l \in Lines, OnLine(l) PROVE PathInv'
  <2>1. /\ line' = l /\ Tokenize(l) # <<>> /\ Argument(Tokenize(l)) # <<>> /\ cwd' = cwd
        /\ \E tmp \in Candidates(cwd, Argument(Tokenize(l))) : path' = Canon(tmp)
    BY <1>2 DEF OnLine
  <2>2. l \in Text BY ShellAssumption
  <2>3. PICK tmp \in Candidates(cwd, Argument(Tokenize(l))) : path' = Canon(tmp) BY <2>1
  <2>4. IsCanonical(cwd) /\ cwd \in Text /\ cwd # <<>> /\ cwd[1] = "/"
    BY DEF PathInv, IsCanonical, Text
  <2>5. Argument(Tokenize(l)) \in Text BY <2>2, ArgumentIs
  <2>6. tmp \in Text BY <2>1, <2>4, <2>5, Characters, CandidatesAre DEF Text
  <2>7. IsCanonical(path') /\ path' # <<>> BY <2>3, <2>6, CanonIsCanonical
  <2>8. IsCanonical(cwd') BY <2>1, <2>4
  <2>9. /\ Tokenize(line') # <<>> /\ Argument(Tokenize(line')) # <<>>
        /\ \E t \in Candidates(cwd', Argument(Tokenize(line'))) : path' = Canon(t)
    BY <2>1
  <2> QED BY <2>1, <2>2, <2>7, <2>8, <2>9 DEF PathInv, IsCanonical
<1>3. CASE \E l \in Lines : Alloc(l)
  BY <1>3, PathsKept DEF Alloc, command
<1>4. CASE Prompt BY <1>4, PathsKept DEF Prompt
<1>5. CASE Cd
  <2>1. pc = "run" /\ pc' = "done" /\ UNCHANGED <<line, path>> /\ (cwd' = path \/ cwd' = cwd)
    BY <1>5 DEF Cd
  <2>2. path # <<>> BY <2>1 DEF PathInv
  <2> QED BY <2>1, <2>2, PathsKept
<1>6. CASE Ls BY <1>6, PathsKept DEF Ls
<1>7. CASE Open
  <2>1. pc' \in {"read", "done"} /\ UNCHANGED <<cwd, line, path>> BY <1>7 DEF Open
  <2> QED BY <2>1, PathsKept
<1>8. CASE Reading
  <2>1. pc' \in {"read", "slurp", "close", "done"} /\ UNCHANGED <<cwd, line, path>>
    BY <1>8 DEF Reading, ReadCat, ReadHex, ReadHeader, Slurp, Close, command
  <2> QED BY <2>1, PathsKept
<1>9. CASE UNCHANGED vars
  BY <1>9 DEF vars, command, PathInv, IsCanonical
<1> QED BY <1>1, <1>2, <1>3, <1>4, <1>5, <1>6, <1>7, <1>8, <1>9 DEF Next

LEMMA PathsAlways == Spec => []PathInv
BY PathsInitially, PathsPreserved, PTL DEF Spec

\* The result of shell_canon_path is absolute, fits its buffer and names no "." or "..".
THEOREM PathFits == Spec => []CanonFits
<1>1. PathInv => CanonFits
  <2> SUFFICES ASSUME PathInv, path # <<>>
               PROVE  /\ path[1] = "/" /\ Len(path) < PathMax
                      /\ \A k \in DOMAIN Words(path, "/") :
                           Words(path, "/")[k] \notin {<<".">>, <<".", ".">>}
    BY DEF CanonFits
  <2>1. IsCanonical(path) BY DEF PathInv
  <2>2. Len(path) \in 1 .. PathMax - 1 /\ PathMax \in Nat BY <2>1, PathsAssumption DEF IsCanonical
  <2> QED BY <2>1, <2>2 DEF IsCanonical, Dots
<1> QED BY <1>1, PathsAlways, PTL

\* It leads where the argument does, for every path that is short enough.
THEOREM PathMeans == Spec => []CanonMeans
<1>1. PathInv => CanonMeans
  <2> SUFFICES ASSUME PathInv, pc = "run" PROVE CanonMeans BY DEF CanonMeans
  <2> DEFINE words == Words(line, " ")
             argument == IF Len(words) > 1 THEN words[2] ELSE Argument(words)
             meant == Joined(cwd, argument)
  <2>1. /\ IsCanonical(cwd) /\ line \in Text /\ Tokenize(line) # <<>>
        /\ Argument(Tokenize(line)) # <<>>
    BY DEF PathInv
  <2>2. PICK tmp \in Candidates(cwd, Argument(Tokenize(line))) : path = Canon(tmp)
    BY DEF PathInv
  <2>3. Argument(Tokenize(line)) = argument /\ argument \in Text
    BY <2>1, ArgumentIs
  <2>4. cwd \in Seq(STRING) /\ cwd # <<>> /\ cwd[1] = "/" BY <2>1 DEF IsCanonical, Text
  <2> HIDE DEF words, argument
  <2>5. argument \in Seq(STRING) /\ argument # <<>> /\ tmp \in Candidates(cwd, argument)
    BY <2>1, <2>2, <2>3 DEF Text
  <2>6. /\ tmp \in Seq(STRING) /\ tmp # <<>> /\ tmp[1] = "/"
        /\ Len(meant) < PathMax => tmp = meant
    BY <2>4, <2>5, CandidatesAre, Characters
  <2>7. meant \in Seq(STRING) BY <2>4, <2>5, JoinedType, Characters
  <2> HIDE DEF meant
  <2>8. ASSUME Len(meant) + 2 < PathMax, Len(Words(meant, "/")) <= CompMax
        PROVE  Meaning(path) = Meaning(meant)
    <3>1. Len(meant) < PathMax
      <4>1. Len(meant) \in Nat /\ PathMax \in Nat BY <2>7, PathsAssumption
      <4> QED BY <2>8, <4>1
    <3>2. tmp = meant BY <2>6, <3>1
    <3>3. Meaning(Canon(meant)) = Meaning(meant)
      BY <2>6, <2>7, <2>8, <3>2, CanonMeaning, Characters
    <3> QED BY <2>2, <3>2, <3>3
  <2> QED BY <2>8 DEF CanonMeans, meant, argument, words
<1> QED BY <1>1, PathsAlways, PTL

-------------------------------------------------------------------------------
\* The image's headers.

LEMMA Quotient == ASSUME NEW n \in Nat, NEW d \in Nat \ {0} PROVE n \div d \in Nat
OBVIOUS

LEMMA BlocksType == ASSUME NEW size \in Nat PROVE Blocks(size) \in Nat
<1>1. size + BlockSize - 1 \in Nat /\ BlockSize \in Nat \ {0} BY InitrdAssumption
<1> QED BY <1>1, Quotient DEF Blocks

\* f gives the places of the headers from every place on.
HeadersBy(f, image) ==
  /\ f \in [1 .. Len(image) + 1 -> Seq(1 .. Len(image))]
  /\ \A off \in 1 .. Len(image) + 1 :
       f[off] = IF off > Len(image) \/ ZeroBlock(image[off]) THEN <<>>
                ELSE <<off>> \o (IF off + 1 + Blocks(image[off].size) > Len(image) THEN <<>>
                                 ELSE f[off + 1 + Blocks(image[off].size)])

LEMMA HeadersFn ==
  ASSUME NEW image \in Seq(BlockType)
  PROVE  \E f : HeadersBy(f, image) /\ Headers(image) = f[1]
<1> DEFINE N == Len(image)
           D == 1 .. N + 1
           T == Seq(1 .. N)
           m == [off \in D |-> N + 1 - off]
           stop(off) == off > Len(image) \/ ZeroBlock(image[off])
           next(off) == off + 1 + Blocks(image[off].size)
           rest(f, off) == IF next(off) > Len(image) THEN <<>> ELSE f[next(off)]
           at(f, off) == IF stop(off) THEN <<>> ELSE <<off>> \o rest(f, off)
           Def(f) == f = [off \in 1 .. Len(image) + 1 |-> at(f, off)]
           F == CHOOSE f : Def(f)
           G == [off \in D |-> [f \in [D -> T] |-> at(f, off)]]
<1>1. Headers(image) = F[1] BY DEF Headers
<1>2. N \in Nat /\ m \in [D -> Nat] /\ \A off \in D : m[off] = N + 1 - off OBVIOUS
<1>3. ASSUME NEW off \in D, ~stop(off)
      PROVE  /\ <<off>> \in T
             /\ ~(next(off) > Len(image)) => next(off) \in D /\ m[next(off)] < m[off]
  <2>1. off \in 1 .. N BY <1>2, <1>3
  <2>2. image[off] \in BlockType BY <2>1
  <2>3. image[off].size \in Nat BY <2>2 DEF BlockType
  <2>4. Blocks(image[off].size) \in Nat BY <2>3, BlocksType
  <2>5. <<off>> \in T BY <2>1, OneLong
  <2>6. next(off) \in Nat /\ next(off) > off BY <2>1, <2>4
  <2> HIDE DEF T, m, next, F, G
  <2>7. ASSUME ~(next(off) > N) PROVE next(off) \in D /\ m[next(off)] < m[off]
    <3>1. next(off) \in D BY <1>2, <2>1, <2>6, <2>7
    <3>2. m[next(off)] = N + 1 - next(off) /\ m[off] = N + 1 - off BY <1>2, <3>1
    <3> QED BY <1>2, <2>1, <2>6, <3>1, <3>2
  <2> QED BY <2>5, <2>7
<1>4. <<>> \in T /\ \A x, y \in T : x \o y \in T BY ConcatProperties
<1> HIDE DEF F, T, m, stop, next
<1>5. ASSUME NEW off \in D, NEW f, \A x \in D : m[x] < m[off] => f[x] \in T
      PROVE  at(f, off) \in T
  <2>1. ASSUME ~stop(off) PROVE <<off>> \o rest(f, off) \in T
    <3>1. ASSUME ~(next(off) > Len(image)) PROVE f[next(off)] \in T
      <4>1. next(off) \in D /\ m[next(off)] < m[off] BY <1>3, <2>1, <3>1
      <4> QED BY <1>5, <4>1
    <3>2. rest(f, off) \in T BY <1>4, <3>1
    <3> HIDE DEF rest
    <3> QED BY <1>3, <1>4, <2>1, <3>2
  <2> QED BY <1>4, <2>1
<1>6. ASSUME NEW off \in D, NEW f, NEW g, \A x \in D : m[x] < m[off] => f[x] = g[x]
      PROVE  at(f, off) = at(g, off)
  <2>1. ASSUME ~stop(off), ~(next(off) > Len(image)) PROVE f[next(off)] = g[next(off)]
    <3>1. next(off) \in D /\ m[next(off)] < m[off] BY <1>3, <2>1
    <3> QED BY <1>6, <3>1
  <2> QED BY <2>1
<1> HIDE DEF at
<1>7. \A off \in D, f \in [D -> T] : G[off][f] = at(f, off) /\ at(f, off) \in T BY <1>5
<1>8. IsRule(G, D, T, m)
  <2>1. G \in [D -> [[D -> T] -> T]] BY <1>7
  <2>2. ASSUME NEW f \in [D -> T], NEW g \in [D -> T], NEW off \in D,
               \A y \in D : m[y] < m[off] => f[y] = g[y]
        PROVE  G[off][f] = G[off][g]
    BY <1>6, <1>7, <2>2
  <2> HIDE DEF G
  <2> QED BY <1>2, <2>1, <2>2 DEF IsRule
<1> HIDE DEF G
<1>9. PICK f : Solves(f, G, D, T) BY <1>4, <1>8, Recursion
<1>10. Def(f)
  <2>1. f \in [D -> T] /\ \A off \in D : f[off] = at(f, off) BY <1>7, <1>9 DEF Solves
  <2> QED BY <2>1
<1>11. Def(F) BY <1>10 DEF F
<1>12. \A off \in D : F[off] = at(F, off)
  <2> DEFINE h == [off \in D |-> at(F, off)]
  <2>1. F = h BY <1>11
  <2>2. \A off \in D : h[off] = at(F, off) OBVIOUS
  <2> HIDE DEF h
  <2> QED BY <2>1, <2>2
<1>13. \A off \in D : F[off] \in T
  <2> DEFINE S == {k \in Nat : \A off \in D : m[off] = k => F[off] \in T}
  <2>1. ASSUME NEW k \in Nat, \A j \in Nat : j < k => j \in S PROVE k \in S
    <3>1. SUFFICES ASSUME NEW off \in D, m[off] = k PROVE F[off] \in T OBVIOUS
    <3>2. \A x \in D : m[x] \in Nat BY <1>2
    <3>3. \A x \in D : m[x] < m[off] => F[x] \in T BY <2>1, <3>1, <3>2
    <3>4. at(F, off) \in T BY <1>5, <3>3
    <3> QED BY <1>12, <3>4
  <2> HIDE DEF S
  <2>2. Nat \subseteq S BY <2>1, Smaller
  <2> QED BY <1>2, <2>2 DEF S
<1>14. F \in [1 .. Len(image) + 1 -> T] BY <1>11, <1>13
<1>15. HeadersBy(F, image) BY <1>12, <1>14 DEF HeadersBy, T, at, rest, stop, next
<1> QED BY <1>1, <1>15

LEMMA HeadersType ==
  ASSUME NEW image \in Seq(BlockType)
  PROVE  Headers(image) \in Seq(1 .. Len(image)) /\ ToSet(Headers(image)) \subseteq DOMAIN image
<1>1. PICK f : HeadersBy(f, image) /\ Headers(image) = f[1] BY HeadersFn
<1>2. 1 \in 1 .. Len(image) + 1 OBVIOUS
<1>3. Headers(image) \in Seq(1 .. Len(image)) BY <1>1, <1>2 DEF HeadersBy
<1> DEFINE h == Headers(image)
<1>4. h \in Seq(1 .. Len(image)) BY <1>3
<1> HIDE DEF h
<1>5. \A k \in DOMAIN h : h[k] \in 1 .. Len(image) BY <1>4
<1>6. DOMAIN image = 1 .. Len(image) OBVIOUS
<1>7. ToSet(h) \subseteq DOMAIN image BY <1>5, <1>6 DEF ToSet
<1> QED BY <1>3, <1>7 DEF h

\* tar_find_exact gives a header that matches.
LEMMA FindExactIs ==
  ASSUME NEW image \in Seq(BlockType), NEW p
  PROVE  FindExact(image, p) # None =>
           /\ FindExact(image, p) \in ToSet(Headers(image)) /\ FindExact(image, p) \in DOMAIN image
           /\ Matches(image[FindExact(image, p)], p)
<1> DEFINE hits == {off \in ToSet(Headers(image)) : Matches(image[off], p)}
<1>1. FindExact(image, p) = IF hits = {} THEN None ELSE First(hits) BY DEF FindExact
<1>2. ToSet(Headers(image)) \subseteq DOMAIN image BY HeadersType
<1>3. hits \subseteq Nat
  <2>1. DOMAIN image \subseteq Nat OBVIOUS
  <2> QED BY <1>2, <2>1
<1>4. ASSUME hits # {} PROVE First(hits) \in hits
  <2> HIDE DEF hits
  <2>1. \E off \in hits : \A other \in hits : off <= other BY <1>3, <1>4, LeastNumber
  <2> QED BY <2>1 DEF First
<1> QED BY <1>1, <1>2, <1>4

-------------------------------------------------------------------------------
\* Vnodes and the heap they take.

Letters == STRING \union {Garbage}

MemType == [left : 0 .. HeapLeft, zero : Seq(Letters)]
DirType == [dir : {TRUE}, prefix : Seq(Letters), own : BOOLEAN, at : {0}]
FileType(image) == [dir : {FALSE}, prefix : {<<>>}, own : {TRUE}, at : DOMAIN image]

\* What a lookup returns: no vnode, a directory's, or that of a file of the image.
ResultType(image) == [node : {None} \union DirType \union FileType(image), mem : MemType]

LEMMA FreeIs ==
  ASSUME NEW m \in MemType, NEW size \in Nat PROVE Free(m, size) \in 0 .. m.left
<1>1. m.left \in Nat BY ShellAssumption DEF MemType
<1> QED BY <1>1 DEF Free

LEMMA MemLess ==
  ASSUME NEW m \in MemType, NEW n \in 0 .. m.left
  PROVE  [m EXCEPT !.left = n] \in MemType
<1>1. m.left \in 0 .. HeapLeft /\ HeapLeft \in Nat BY ShellAssumption DEF MemType
<1>2. n \in 0 .. HeapLeft BY <1>1
<1> QED BY <1>2 DEF MemType

\* Memory that is written through a null pointer.
LEMMA MemSpoilt ==
  ASSUME NEW m \in MemType PROVE [m EXCEPT !.zero = <<Garbage>>] \in MemType
<1>1. <<Garbage>> \in Seq(Letters) BY OneLong DEF Letters
<1> QED BY <1>1 DEF MemType

LEMMA Beginning ==
  ASSUME NEW S, NEW s \in Seq(S), NEW max \in Nat \ {0}
  PROVE  SubSeq(s, 1, IF Len(s) < max THEN Len(s) ELSE max - 1) \in Seq(S)
<1> DEFINE n == IF Len(s) < max THEN Len(s) ELSE max - 1
<1>1. n \in 0 .. Len(s) OBVIOUS
<1> HIDE DEF n
<1>2. SubSeq(s, 1, n) \in Seq(S) BY <1>1
<1> QED BY <1>2 DEF n

LEMMA MakeDirType ==
  ASSUME NEW image, NEW m \in MemType, NEW p \in Seq(Letters)
  PROVE  MakeDir(m, p) \in ResultType(image)
<1> DEFINE left == Free(m, VnodeSize)
           prefix == SubSeq(p, 1, IF Len(p) < PartMax THEN Len(p) ELSE PartMax - 1)
           own == left >= DirDataSize
           node == DirAt(IF own THEN prefix ELSE <<>>, own)
           rest == [left |-> IF own THEN left - DirDataSize ELSE left,
                    zero |-> IF own THEN m.zero ELSE prefix]
<1>1. MakeDir(m, p) = IF m.left < VnodeSize
                        THEN [node |-> None, mem |-> [m EXCEPT !.zero = <<Garbage>>]]
                        ELSE [node |-> node, mem |-> rest]
  BY DEF MakeDir
<1>2. prefix \in Seq(Letters)
  <2>1. PartMax \in Nat \ {0} BY PathsAssumption
  <2> QED BY <2>1, Beginning
<1>3. left \in 0 .. HeapLeft
  <2>1. VnodeSize \in Nat /\ m.left \in 0 .. HeapLeft /\ HeapLeft \in Nat
    BY InitrdAssumption, ShellAssumption DEF MemType
  <2>2. left \in 0 .. m.left BY <2>1, FreeIs
  <2> QED BY <2>1, <2>2
<1>4. m.zero \in Seq(Letters) BY DEF MemType
<1> HIDE DEF left, prefix
<1>5. rest.left \in 0 .. HeapLeft
  <2>1. DirDataSize \in Nat /\ HeapLeft \in Nat BY InitrdAssumption, ShellAssumption
  <2> QED BY <1>3, <2>1
<1>6. rest \in MemType BY <1>2, <1>4, <1>5 DEF MemType
<1>7. own \in BOOLEAN /\ <<>> \in Seq(Letters) OBVIOUS
<1>8. node \in DirType BY <1>2, <1>7 DEF DirAt, DirType
<1> HIDE DEF node, rest
<1>9. [node |-> node, mem |-> rest] \in ResultType(image) BY <1>6, <1>8 DEF ResultType
<1>10. [node |-> None, mem |-> [m EXCEPT !.zero = <<Garbage>>]] \in ResultType(image)
  BY MemSpoilt DEF ResultType
<1> QED BY <1>1, <1>9, <1>10

LEMMA MakeFileType ==
  ASSUME NEW image, NEW m \in MemType, NEW off \in DOMAIN image
  PROVE  MakeFile(m, off) \in ResultType(image)
<1>1. CASE m.left < VnodeSize
  <2>1. MakeFile(m, off) = [node |-> None, mem |-> [m EXCEPT !.zero = <<Garbage>>]]
    BY <1>1 DEF MakeFile
  <2> QED BY <2>1, MemSpoilt DEF ResultType
<1>2. CASE ~(m.left < VnodeSize)
  <2> DEFINE rest == [m EXCEPT !.left = m.left - VnodeSize]
  <2>1. MakeFile(m, off) = [node |-> FileAt(off), mem |-> rest] BY <1>2 DEF MakeFile
  <2>2. m.left - VnodeSize \in 0 .. m.left
    BY <1>2, InitrdAssumption, ShellAssumption DEF MemType
  <2>3. rest \in MemType BY <2>2, MemLess
  <2>4. FileAt(off) \in FileType(image) BY DEF FileAt, FileType
  <2> HIDE DEF rest
  <2> QED BY <2>1, <2>3, <2>4 DEF ResultType
<1> QED BY <1>1, <1>2

LEMMA LookupType ==
  ASSUME NEW image \in Seq(BlockType), NEW m \in MemType, NEW dir \in DirType,
         NEW name \in Seq(Letters)
  PROVE  Lookup(image, m, dir, name) \in ResultType(image)
<1> DEFINE prefix == PrefixOf(m, dir)
           p == IF prefix = <<>> THEN name ELSE prefix \o <<"/">> \o name
           target == SubSeq(p, 1, IF Len(p) < FullMax THEN Len(p) ELSE FullMax - 1)
           off == FindExact(image, target)
<1>1. prefix \in Seq(Letters) BY DEF PrefixOf, DirType, MemType
<1>2. <<"/">> \in Seq(Letters)
  <2>1. "/" \in Letters BY Characters DEF Letters
  <2> QED BY <2>1, OneLong
<1>3. p \in Seq(Letters)
  <2> DEFINE s == <<"/">>
  <2>1. s \in Seq(Letters) BY <1>2
  <2> HIDE DEF prefix, s
  <2>2. prefix \o s \in Seq(Letters) BY <1>1, <2>1, ConcatProperties
  <2>3. prefix \o s \o name \in Seq(Letters) BY <2>2, ConcatProperties
  <2> QED BY <2>3 DEF s
<1> HIDE DEF p
<1>4. target \in Seq(Letters) BY <1>3, Beginning, InitrdAssumption
<1> HIDE DEF target
<1>5. off # None => off \in DOMAIN image BY FindExactIs
<1>6. Lookup(image, m, dir, name)
        \in {[node |-> dir, mem |-> m], MakeDir(m, target), [node |-> None, mem |-> m]}
            \union {MakeFile(m, k) : k \in {k \in {off} : off # None}}
  BY DEF Lookup, p, target
<1>7. [node |-> dir, mem |-> m] \in ResultType(image)
      /\ [node |-> None, mem |-> m] \in ResultType(image)
  BY DEF ResultType
<1>8. MakeDir(m, target) \in ResultType(image) BY <1>4, MakeDirType
<1>9. off # None => MakeFile(m, off) \in ResultType(image) BY <1>5, MakeFileType
<1> HIDE DEF off
<1> QED BY <1>6, <1>7, <1>8, <1>9

\* One component of vfs_resolve.
ResolveStep(image, s, part) ==
  IF s.node = None THEN s
  ELSE IF ~s.node.dir THEN [s EXCEPT !.node = None]
  ELSE Lookup(image, s.mem, s.node, part)

LEMMA ResolveStepType ==
  ASSUME NEW image \in Seq(BlockType), NEW s \in ResultType(image), NEW part \in Seq(Letters)
  PROVE  ResolveStep(image, s, part) \in ResultType(image)
<1>1. s.mem \in MemType /\ s.node \in {None} \union DirType \union FileType(image)
  BY DEF ResultType
<1>2. [s EXCEPT !.node = None] \in ResultType(image) BY DEF ResultType
<1>3. s.node # None /\ s.node.dir => s.node \in DirType BY <1>1 DEF FileType
<1>4. s.node \in DirType => Lookup(image, s.mem, s.node, part) \in ResultType(image)
  BY <1>1, LookupType
<1> QED BY <1>2, <1>3, <1>4 DEF ResolveStep

\* f is what vfs_resolve has after each component.
ResolveBy(f, image, m, parts) ==
  /\ f[0] = [node |-> Root, mem |-> m]
  /\ \A k \in 1 .. Len(parts) : f[k] = ResolveStep(image, f[k - 1], parts[k])
  /\ \A k \in 0 .. Len(parts) : f[k] \in ResultType(image)

LEMMA ResolveFn ==
  ASSUME NEW image \in Seq(BlockType), NEW m \in MemType, NEW p \in Text
  PROVE  \E f : ResolveBy(f, image, m, VfsParts(p)) /\ Resolve(image, m, p) = f[Len(VfsParts(p))]
<1> DEFINE parts == VfsParts(p)
           N == Len(parts)
           T == ResultType(image)
           first == [node |-> Root, mem |-> m]
           Def(f) == f = [k \in 0 .. N |-> IF k = 0 THEN first
                                           ELSE ResolveStep(image, f[k - 1], parts[k])]
           F == CHOOSE f : Def(f)
           G == [k \in 1 .. N |-> [s \in T |-> ResolveStep(image, s, parts[k])]]
<1>1. Resolve(image, m, p) = F[N] BY DEF Resolve, ResolveStep
<1>2. parts \in Seq(Seq(Letters))
  <2> DEFINE max == PartMax - 1
             R == Runs(STRING, "/", max)
  <2>1. max \in Nat /\ max > 0 BY PathsAssumption
  <2>2. parts = Split(p, "/", max) BY DEF VfsParts
  <2> HIDE DEF max, parts
  <2>3. parts \in Seq(R) BY <2>1, <2>2, SplitType, Characters DEF Text
  <2>4. R \subseteq Seq(Letters)
    <3>1. Seq(STRING) \subseteq Seq(Letters) BY SeqMonotonic DEF Letters
    <3> QED BY <3>1, RunIsText
  <2> HIDE DEF R
  <2> QED BY <2>3, <2>4, SeqMonotonic
<1> HIDE DEF parts
<1>3. N \in Nat BY <1>2
<1>4. \A k \in 1 .. N, s \in T :
        G[k][s] = ResolveStep(image, s, parts[k]) /\ G[k][s] \in T
  <2>1. SUFFICES ASSUME NEW k \in 1 .. N, NEW s \in T
                 PROVE  ResolveStep(image, s, parts[k]) \in T
    OBVIOUS
  <2>2. parts[k] \in Seq(Letters) BY <1>2
  <2> HIDE DEF F, G, N
  <2> QED BY <2>2, ResolveStepType
<1>5. first \in T
  <2>1. Root \in DirType BY DEF Root, DirAt, DirType
  <2> QED BY <2>1 DEF ResultType
<1> HIDE DEF T, F, N, first
<1>6. IsStep(G, N, T) BY <1>3, <1>4 DEF IsStep
<1> HIDE DEF G
<1>7. PICK f : Walks(f, G, N, T, first) BY <1>5, <1>6, Stepwise
<1>8. \A k \in 0 .. N : f[k] = IF k = 0 THEN first ELSE ResolveStep(image, f[k - 1], parts[k])
  <2>1. \A k \in 1 .. N : k - 1 \in 0 .. N /\ k # 0 BY <1>3
  <2>2. \A k \in 1 .. N : f[k] = ResolveStep(image, f[k - 1], parts[k])
    BY <1>4, <1>7, <2>1 DEF Walks
  <2> QED BY <1>3, <1>7, <2>2 DEF Walks
<1>9. Def(f) BY <1>7, <1>8 DEF Walks
<1>10. Def(F) BY <1>9 DEF F
<1>11. F[0] = first /\ \A k \in 1 .. N : F[k] = ResolveStep(image, F[k - 1], parts[k])
  BY <1>3, <1>10
<1>12. \A k \in 0 .. N : F[k] \in T
  <2>1. \A k \in 1 .. N : F[k - 1] \in T => F[k] \in T BY <1>4, <1>11
  <2> QED BY <1>3, <1>5, <1>11, <2>1, Walking
<1>13. ResolveBy(F, image, m, parts) BY <1>11, <1>12 DEF ResolveBy, T, N, first
<1> QED BY <1>1, <1>13 DEF parts, N

LEMMA ResolveType ==
  ASSUME NEW image \in Seq(BlockType), NEW m \in MemType, NEW p \in Text
  PROVE  Resolve(image, m, p) \in ResultType(image)
<1> DEFINE N == Len(VfsParts(p))
<1>1. PICK f : ResolveBy(f, image, m, VfsParts(p)) /\ Resolve(image, m, p) = f[N] BY ResolveFn
<1>2. N \in 0 .. N
  <2>1. PartMax - 1 \in Nat /\ PartMax - 1 > 0 BY PathsAssumption
  <2>a. p \in Seq(STRING) /\ Nul \notin STRING /\ "/" \in STRING BY Characters DEF Text
  <2>2. Split(p, "/", PartMax - 1) \in Seq(Runs(STRING, "/", PartMax - 1))
    BY <2>1, <2>a, SplitType
  <2>3. N \in Nat BY <2>2, LengthIs DEF VfsParts
  <2> HIDE DEF N
  <2> QED BY <2>3
<1> HIDE DEF N
<1> QED BY <1>1, <1>2 DEF ResolveBy, N

-------------------------------------------------------------------------------
\* What a command reads.

\* The open descriptor, and what has been read through it.
InFile ==
  /\ fds[fd].used /\ fds[fd].at \in DOMAIN tar
  /\ fds[fd].off \in 0 .. tar[fds[fd].at].size
  /\ got = SubSeq(Data(tar, fds[fd].at), 1, fds[fd].off)

AtEnd == fds[fd].off = tar[fds[fd].at].size

CommandInv ==
  /\ pc \in {"boot", "prompt", "run", "read", "slurp", "close", "done"}
  /\ tar \in Seq(BlockType) /\ mem \in MemType /\ fd \in -1 .. MaxFd - 1
  /\ pc \in {"boot", "prompt", "run"} => got = <<>>
  /\ pc \in Busy => found # None /\ InFile /\ Command \in {"cat", "hexdump", "exec"}
  /\ pc = "read" /\ Command = "exec" => Len(got) < HeaderLen
  /\ pc = "slurp" => Command = "exec" /\ Len(got) <= ElfMax
  /\ pc = "close" =>
       \/ AtEnd
       \/ /\ Command = "exec"
          /\ \/ Len(got) = ElfMax
             \/ Len(got) = HeaderLen /\ (got[1] # Magic \/ mem.left < ElfSize)

LEMMA DataIs ==
  ASSUME NEW image \in Seq(BlockType), NEW at \in DOMAIN image
  PROVE  \E S : Data(image, at) \in Seq(S) /\ Len(Data(image, at)) = image[at].size
<1>1. image[at] \in BlockType OBVIOUS
<1>a. image[at].size \in Nat BY <1>1 DEF BlockType
<1> DEFINE size == image[at].size
           d == Data(image, at)
           S == {d[n] : n \in 1 .. size}
<1>2. DOMAIN d = 1 .. size /\ d = [n \in 1 .. size |-> d[n]] BY DEF Data
<1> HIDE DEF d, size
<1>3. size \in Nat BY <1>a DEF size
<1>4. d \in [1 .. size -> S] BY <1>2
<1>5. d \in Seq(S) /\ Len(d) = size BY <1>3, <1>4
<1> QED BY <1>5 DEF d, size

\* The beginning of a file and the part that follows it.
LEMMA GoesOn ==
  ASSUME NEW S, NEW d \in Seq(S), NEW off \in 0 .. Len(d), NEW n \in 0 .. Len(d) - off
  PROVE  /\ SubSeq(d, 1, off) \o SubSeq(d, off + 1, off + n) = SubSeq(d, 1, off + n)
         /\ Len(SubSeq(d, 1, off)) = off
<1>1. Len(d) \in Nat /\ off \in Nat /\ off <= Len(d) /\ off + n \in off .. Len(d) OBVIOUS
<1>2. Len(SubSeq(d, 1, off)) = off BY <1>1, SubSeqProperties
<1>3. /\ 1 \in 1 .. Len(d) + 1 /\ off \in 1 - 1 .. Len(d) /\ off + n \in off .. Len(d)
  BY <1>1
<1>4. SubSeq(d, 1, off) \o SubSeq(d, off + 1, off + n) = SubSeq(d, 1, off + n)
  BY <1>3, ConcatAdjacentSubSeq
<1> QED BY <1>2, <1>4

LEMMA ReadLenIs ==
  ASSUME NEW size \in Nat, NEW off \in 0 .. size, NEW len \in Nat
  PROVE  /\ ReadLen(size, off, len) \in 0 .. size - off /\ ReadLen(size, off, len) <= len
         /\ ReadLen(size, off, len) < len => off + ReadLen(size, off, len) = size
BY DEF ReadLen

\* vfs_read goes on in the file, and gives less than it is asked for only at the end.
LEMMA VfsReadIs ==
  ASSUME IInv, InFile, tar \in Seq(BlockType), pc \in Busy, UNCHANGED <<tar, fd>>,
         NEW len \in Nat, VfsRead(len)
  PROVE  /\ InFile' /\ Given(len) \in Nat /\ Given(len) <= len
         /\ Len(got) = fds[fd].off /\ Len(got') = Len(got) + Given(len)
         /\ Given(len) < len => AtEnd'
<1> DEFINE d == fds[fd]
           size == tar[fds[fd].at].size
           off == fds[fd].off
           data == Data(tar, fds[fd].at)
           n == Given(len)
<1>1. TableOK /\ fd \in DOMAIN fds BY DEF IInv
<1>2. IsDescriptor(fds[fd]) BY <1>1 DEF TableOK
<1>3. size \in Nat /\ off \in 0 .. size
  <2>1. tar[fds[fd].at] \in BlockType BY DEF InFile
  <2> QED BY <2>1 DEF InFile, BlockType
<1>4. n \in 0 .. size - off /\ n <= len /\ (n < len => off + n = size)
  BY <1>3, ReadLenIs DEF Given
<1>5. PICK S : data \in Seq(S) /\ Len(data) = size BY DataIs DEF InFile
<1>6. /\ fds' = [fds EXCEPT ![fd].off = off + n]
      /\ got' = got \o SubSeq(data, off + 1, off + n)
  BY DEF VfsRead
<1>7. fds'[fd].off = off + n /\ fds'[fd].at = fds[fd].at /\ fds'[fd].used = fds[fd].used
  <2>1. fds'[fd] = [fds[fd] EXCEPT !.off = off + n] BY <1>1, <1>6
  <2>2. fds[fd] = [used |-> fds[fd].used, at |-> fds[fd].at, off |-> fds[fd].off]
    BY <1>2 DEF IsDescriptor
  <2> QED BY <2>1, <2>2
<1>8. got = SubSeq(data, 1, off) BY DEF InFile
<1> HIDE DEF n, off, size, data
<1>9. got' = SubSeq(data, 1, off + n) /\ Len(got) = off
  BY <1>3, <1>4, <1>5, <1>6, <1>8, GoesOn
<1>10. Len(got') = off + n
  BY <1>3, <1>4, <1>5, <1>9
<1>11. off + n \in 0 .. size BY <1>3, <1>4
<1>12. InFile' BY <1>7, <1>9, <1>11 DEF InFile, size, data
<1>13. n < len => AtEnd' BY <1>4, <1>7 DEF AtEnd, size
<1>14. n \in Nat /\ n <= len BY <1>3, <1>4
<1> QED BY <1>9, <1>10, <1>12, <1>13, <1>14 DEF n, off

LEMMA CommandInitially == Init => CommandInv
<1> SUFFICES ASSUME Init PROVE CommandInv OBVIOUS
<1>1. /\ pc = "boot" /\ tar \in Images /\ mem = [left |-> HeapLeft, zero |-> <<>>]
      /\ fd = -1 /\ got = <<>>
  BY DEF Init
<1>2. mem \in MemType
  <2>1. HeapLeft \in 0 .. HeapLeft /\ <<>> \in Seq(Letters) BY ShellAssumption
  <2> QED BY <1>1, <2>1 DEF MemType
<1>3. tar \in Seq(BlockType) /\ fd \in -1 .. MaxFd - 1 BY <1>1, ShellAssumption
<1> QED BY <1>1, <1>2, <1>3 DEF CommandInv, Busy

\* A step between two commands, or one that only finds.
LEMMA CommandApart ==
  ASSUME CommandInv, UNCHANGED tar, mem' \in MemType, fd' \in -1 .. MaxFd - 1,
         pc' \in {"boot", "prompt", "run", "done"},
         pc' # "done" => got' = <<>>
  PROVE  CommandInv'
BY DEF CommandInv, Busy

LEMMA AllocType ==
  ASSUME NEW l \in Text, NEW m \in MemType, Len(Tokenize(l)) >= 2
  PROVE  LET argv == Tokenize(l)
             n == ParseInt(argv[2], 1, SpanEnd(argv[2], 1, Decimal))
         IN  [m EXCEPT !.left = Free(m, (n + 15) \div 16)] \in MemType
<1> DEFINE argv == Tokenize(l)
           s == argv[2]
           j == SpanEnd(s, 1, Decimal)
           n == ParseInt(s, 1, j)
           size == (n + 15) \div 16
<1>1. argv \in Seq(Text) BY TokenizeIs, Characters DEF Text
<1> HIDE DEF argv
<1>2. s \in Seq(STRING) BY <1>1 DEF argv, Text
<1>3. Nul \notin Decimal BY Characters, LiteralAssumption
<1> HIDE DEF s
<1>4. 1 \in 1 .. Len(s) + 1 /\ Len(s) \in Nat BY <1>2
<1>5. j \in 1 .. Len(s) + 1 /\ \A k \in 1 .. j - 1 : s[k] \in Decimal
  BY <1>2, <1>3, <1>4, SpanEndIs
<1> HIDE DEF j
<1>6. n \in Nat
  <2>1. j \in Nat /\ 1 <= j /\ 1 \in Nat BY <1>4, <1>5
  <2> QED BY <1>5, <2>1, ParseIntType
<1> HIDE DEF n
<1>7. size \in Nat
  <2>1. n + 15 \in Nat /\ 16 \in Nat \ {0} BY <1>6
  <2> QED BY <2>1, Quotient
<1> HIDE DEF size
<1>8. Free(m, size) \in 0 .. m.left BY <1>7, FreeIs
<1>9. [m EXCEPT !.left = Free(m, size)] \in MemType BY <1>8, MemLess
<1> QED BY <1>9 DEF size, n, j, s, argv

LEMMA ResolvedIs ==
  ASSUME PathInv, CommandInv, pc = "run"
  PROVE  /\ Resolve(tar, mem, path).mem \in MemType
         /\ Resolve(tar, mem, path).node \in {None} \union DirType \union FileType(tar)
<1>1. path \in Text BY DEF PathInv, IsCanonical
<1>2. Resolve(tar, mem, path) \in ResultType(tar) BY <1>1, ResolveType DEF CommandInv
<1> QED BY <1>2 DEF ResultType

\* vfs_open begins a file.
LEMMA CommandOpens ==
  ASSUME IInv, PathInv, CommandInv, Open PROVE CommandInv'
<1> DEFINE r == Resolve(tar, mem, path)
           free == {k \in DOMAIN fds : ~fds[k].used}
           first == CHOOSE k \in free : \A j \in free : k <= j
<1>1. /\ pc = "run" /\ Command \in {"cat", "hexdump", "exec"} /\ mem' = r.mem /\ found' = r.node
      /\ UNCHANGED <<tar, line, got>>
      /\ \/ /\ r.node # None /\ ~r.node.dir /\ free # {}
            /\ fds' = [fds EXCEPT ![first] = [used |-> TRUE, at |-> r.node.at, off |-> 0]]
            /\ fd' = first /\ pc' = "read"
         \/ pc' = "done" /\ UNCHANGED fd
  BY DEF Open, command
<1>2. r.mem \in MemType /\ r.node \in {None} \union DirType \union FileType(tar)
  BY <1>1, ResolvedIs
<1>3. TableOK BY DEF IInv
<1> HIDE DEF r
<1>4. CASE pc' = "done" /\ UNCHANGED fd
  BY <1>1, <1>2, <1>4, CommandApart DEF CommandInv
<1>5. CASE /\ r.node # None /\ ~r.node.dir /\ free # {}
           /\ fds' = [fds EXCEPT ![first] = [used |-> TRUE, at |-> r.node.at, off |-> 0]]
           /\ fd' = first /\ pc' = "read"
  <2>1. DOMAIN fds \subseteq Nat BY <1>3 DEF TableOK
  <2>2. first \in free BY <1>5, <2>1, FirstIs
  <2> HIDE DEF first
  <2>3. first \in 0 .. MaxFd - 1 BY <1>3, <2>2 DEF TableOK
  <2>4. fds'[fd'] = [used |-> TRUE, at |-> r.node.at, off |-> 0] BY <1>5, <2>2
  <2>5. r.node.at \in DOMAIN tar BY <1>2, <1>5 DEF DirType, FileType
  <2>6. tar[r.node.at].size \in Nat
    <3>1. tar[r.node.at] \in BlockType BY <2>5 DEF CommandInv
    <3> QED BY <3>1 DEF BlockType
  <2>7. got = <<>> BY <1>1 DEF CommandInv
  <2>8. SubSeq(Data(tar, r.node.at), 1, 0) = <<>> BY SubSeqEmpty
  <2>9. InFile' BY <1>1, <2>4, <2>5, <2>6, <2>7, <2>8 DEF InFile
  <2>10. Command' = Command BY <1>1 DEF Command
  <2>11. Len(got') < HeaderLen BY <1>1, <2>7, ShellAssumption
  <2>12. first \in -1 .. MaxFd - 1 BY <2>3, ShellAssumption
  <2> QED BY <1>1, <1>2, <1>5, <2>9, <2>10, <2>11, <2>12 DEF CommandInv, Busy
<1> QED BY <1>1, <1>4, <1>5

\* A step of the loop that reads at most len bytes.
LEMMA CommandReads ==
  ASSUME IInv, CommandInv, UNCHANGED <<tar, fd, line, found>>, mem' \in MemType,
         NEW len \in Nat, VfsRead(len), pc \in Busy, pc' \in Busy,
         pc' = "close" => \/ Given(len) < len
                          \/ /\ Command = "exec"
                             /\ Len(got') = HeaderLen /\ (got'[1] # Magic \/ mem'.left < ElfSize),
         pc' = "slurp" => Command = "exec" /\ Len(got') <= ElfMax,
         pc' = "read" /\ Command = "exec" => Len(got') < HeaderLen
  PROVE  CommandInv'
<1>1. InFile /\ tar \in Seq(BlockType) /\ found # None /\ Command \in {"cat", "hexdump", "exec"}
      /\ fd \in -1 .. MaxFd - 1
  BY DEF CommandInv
<1>2. InFile' /\ (Given(len) < len => AtEnd') BY <1>1, VfsReadIs
<1>3. Command' = Command BY DEF Command
<1> QED BY <1>1, <1>2, <1>3 DEF CommandInv, Busy

LEMMA CommandReadsHeader ==
  ASSUME IInv, CommandInv, ReadHeader PROVE CommandInv'
<1> DEFINE len == HeaderLen - Len(got)
           whole == Len(got') = HeaderLen
           accepted == whole /\ got'[1] = Magic
<1>1. /\ pc = "read" /\ Command = "exec" /\ VfsRead(len)
      /\ UNCHANGED <<tar, line, found, fd>>
      /\ pc' = IF Given(len) = 0 THEN "close"
               ELSE IF ~whole THEN "read"
               ELSE IF accepted /\ mem.left >= ElfSize THEN "slurp" ELSE "close"
      /\ mem' = IF accepted THEN [mem EXCEPT !.left = Free(mem, ElfSize)] ELSE mem
  BY DEF ReadHeader
<1>2. InFile /\ tar \in Seq(BlockType) /\ mem \in MemType /\ Len(got) < HeaderLen /\ pc \in Busy
  BY <1>1 DEF CommandInv, Busy
<1>3. HeaderLen \in Nat /\ ElfSize \in Nat /\ ElfMax \in Nat /\ HeaderLen <= ElfMax
  BY ShellAssumption
<1>4. Len(got) \in Nat
  <2>1. PICK S : Data(tar, fds[fd].at) \in Seq(S)
                 /\ Len(Data(tar, fds[fd].at)) = tar[fds[fd].at].size
    BY <1>2, DataIs DEF InFile
  <2>2. fds[fd].off \in 0 .. Len(Data(tar, fds[fd].at)) BY <1>2, <2>1 DEF InFile
  <2>3. got \in Seq(S) BY <1>2, <2>1, <2>2 DEF InFile
  <2> QED BY <2>3
<1>5. len \in Nat /\ 0 < len BY <1>2, <1>3, <1>4
<1>6. /\ Given(len) \in Nat /\ Given(len) <= len /\ Len(got') = Len(got) + Given(len)
      /\ (Given(len) < len => AtEnd')
  BY <1>1, <1>2, <1>5, VfsReadIs
<1>7. Len(got') <= HeaderLen /\ Len(got') \in Nat BY <1>3, <1>4, <1>6
<1>8. mem' \in MemType
  <2>1. Free(mem, ElfSize) \in 0 .. mem.left BY <1>2, <1>3, FreeIs
  <2> QED BY <1>1, <1>2, <2>1, MemLess
<1>9. accepted /\ ~(mem.left >= ElfSize) => mem'.left < ElfSize
  <2>1. mem.left \in Nat BY <1>2, ShellAssumption DEF MemType
  <2>2. SUFFICES ASSUME accepted, ~(mem.left >= ElfSize) PROVE mem'.left < ElfSize OBVIOUS
  <2>3. Free(mem, ElfSize) = mem.left BY <2>2 DEF Free
  <2>4. mem' = [mem EXCEPT !.left = mem.left] BY <1>1, <2>2, <2>3
  <2>5. mem'.left = mem.left BY <1>2, <2>4 DEF MemType
  <2> QED BY <1>3, <2>1, <2>2, <2>5
<1>10. pc' \in Busy BY <1>1 DEF Busy
<1>11. pc' = "close" => \/ Given(len) < len
                        \/ /\ Command = "exec"
                           /\ Len(got') = HeaderLen /\ (got'[1] # Magic \/ mem'.left < ElfSize)
  <2>1. SUFFICES ASSUME pc' = "close", ~(Given(len) < len)
                 PROVE  Len(got') = HeaderLen /\ (got'[1] # Magic \/ mem'.left < ElfSize)
    BY <1>1
  <2>2. Given(len) # 0 BY <1>5, <1>6, <2>1
  <2>3. whole /\ ~(accepted /\ mem.left >= ElfSize) BY <1>1, <2>1, <2>2
  <2> QED BY <1>9, <2>3
<1>12. pc' = "slurp" => Command = "exec" /\ Len(got') <= ElfMax
  BY <1>1, <1>3, <1>7
<1>13. pc' = "read" /\ Command = "exec" => Len(got') < HeaderLen
  <2>1. SUFFICES ASSUME pc' = "read" PROVE Len(got') < HeaderLen OBVIOUS
  <2>2. ~whole BY <1>1, <2>1
  <2> QED BY <1>3, <1>7, <2>2
<1> HIDE DEF len
<1> QED BY <1>1, <1>2, <1>5, <1>8, <1>10, <1>11, <1>12, <1>13, CommandReads

LEMMA CommandSlurps ==
  ASSUME IInv, CommandInv, Slurp PROVE CommandInv'
<1> DEFINE len == ElfMax - Len(got)
<1>1. /\ pc = "slurp" /\ UNCHANGED <<tar, mem, line, found, fd>>
      /\ \/ /\ Len(got) < ElfMax /\ VfsRead(len)
            /\ pc' = IF Given(len) = 0 THEN "close" ELSE "slurp"
         \/ ~(Len(got) < ElfMax) /\ pc' = "close" /\ UNCHANGED <<fds, got>>
  BY DEF Slurp
<1>2. InFile /\ tar \in Seq(BlockType) /\ mem \in MemType /\ pc \in Busy
      /\ Command = "exec" /\ Len(got) <= ElfMax
  BY <1>1 DEF CommandInv, Busy
<1>3. ElfMax \in Nat BY ShellAssumption
<1>4. Len(got) \in Nat
  <2>1. PICK S : Data(tar, fds[fd].at) \in Seq(S)
                 /\ Len(Data(tar, fds[fd].at)) = tar[fds[fd].at].size
    BY <1>2, DataIs DEF InFile
  <2>2. fds[fd].off \in 0 .. Len(Data(tar, fds[fd].at)) BY <1>2, <2>1 DEF InFile
  <2>3. got \in Seq(S) BY <1>2, <2>1, <2>2 DEF InFile
  <2> QED BY <2>3
<1>5. len \in Nat BY <1>2, <1>3, <1>4
<1>6. CASE /\ Len(got) < ElfMax /\ VfsRead(len)
           /\ pc' = IF Given(len) = 0 THEN "close" ELSE "slurp"
  <2>1. 0 < len BY <1>3, <1>4, <1>6
  <2>2. Given(len) \in Nat /\ Given(len) <= len /\ Len(got') = Len(got) + Given(len)
    BY <1>1, <1>2, <1>5, <1>6, VfsReadIs
  <2>3. Len(got') <= ElfMax BY <1>3, <1>4, <2>2
  <2>4. pc' = "close" => Given(len) < len BY <1>6, <2>1
  <2>5. pc' \in Busy /\ pc' # "read" BY <1>6 DEF Busy
  <2> HIDE DEF len
  <2> QED BY <1>1, <1>2, <1>5, <1>6, <2>3, <2>4, <2>5, CommandReads
<1>7. CASE ~(Len(got) < ElfMax) /\ pc' = "close" /\ UNCHANGED <<fds, got>>
  <2>1. Len(got) = ElfMax BY <1>2, <1>3, <1>4, <1>7
  <2>2. InFile' BY <1>1, <1>2, <1>7 DEF InFile
  <2>3. Command' = Command BY <1>1 DEF Command
  <2>4. found # None /\ fd \in -1 .. MaxFd - 1 BY <1>2 DEF CommandInv
  <2> QED BY <1>1, <1>2, <1>7, <2>1, <2>2, <2>3, <2>4 DEF CommandInv, Busy
<1> QED BY <1>1, <1>6, <1>7

LEMMA CommandPreserved == IInv /\ PathInv /\ CommandInv /\ [Next]_vars => CommandInv'
<1> SUFFICES ASSUME IInv, PathInv, CommandInv, [Next]_vars PROVE CommandInv' OBVIOUS
<1>1. mem \in MemType /\ fd \in -1 .. MaxFd - 1 /\ tar \in Seq(BlockType) BY DEF CommandInv
<1>2. CASE \E c \in Conversions : Message(c)
  <2>1. pc = "boot" /\ UNCHANGED <<pc, tar, mem, fd, got>> BY <1>2 DEF Message, command
  <2>2. got = <<>> BY <2>1 DEF CommandInv
  <2> QED BY <1>1, <2>1, <2>2, CommandApart
<1>3. CASE \E l \in Lines : OnLine(l)
  <2>1. pc = "prompt" /\ pc' = "run" /\ UNCHANGED <<tar, mem, fd, got>> BY <1>3 DEF OnLine
  <2>2. got = <<>> BY <2>1 DEF CommandInv
  <2> QED BY <1>1, <2>1, <2>2, CommandApart
<1>4. ASSUME NEW l \in Lines, Alloc(l) PROVE CommandInv'
  <2> DEFINE argv == Tokenize(l)
             n == ParseInt(argv[2], 1, SpanEnd(argv[2], 1, Decimal))
  <2>1. /\ pc = "prompt" /\ UNCHANGED <<pc, tar, fd, got>> /\ Len(argv) >= 2
        /\ mem' = [mem EXCEPT !.left = Free(mem, (n + 15) \div 16)]
    BY <1>4 DEF Alloc, command
  <2>2. l \in Text BY ShellAssumption
  <2>3. mem' \in MemType BY <1>1, <2>1, <2>2, AllocType
  <2>4. got = <<>> BY <2>1 DEF CommandInv
  <2> HIDE DEF argv, n
  <2> QED BY <1>1, <2>1, <2>3, <2>4, CommandApart
<1>5. CASE Prompt
  <2>1. pc' = "prompt" /\ UNCHANGED <<tar, mem>> /\ fd' = -1 /\ got' = <<>> BY <1>5 DEF Prompt
  <2>2. -1 \in -1 .. MaxFd - 1 BY ShellAssumption
  <2> QED BY <1>1, <2>1, <2>2, CommandApart
<1>6. CASE Cd \/ Ls
  <2>1. /\ pc = "run" /\ pc' = "done" /\ mem' = Resolve(tar, mem, path).mem
        /\ UNCHANGED <<tar, fd, got>>
    BY <1>6 DEF Cd, Ls
  <2>2. mem' \in MemType BY <2>1, ResolvedIs
  <2> QED BY <1>1, <2>1, <2>2, CommandApart
<1>7. CASE Open BY <1>7, CommandOpens
<1>8. CASE ReadCat
  <2>1. /\ pc = "read" /\ Command = "cat" /\ VfsRead(CatLen)
        /\ pc' = IF Given(CatLen) = 0 THEN "close" ELSE "read"
        /\ UNCHANGED <<tar, mem, line, found, fd>>
    BY <1>8 DEF ReadCat
  <2>2. CatLen \in Nat /\ 0 < CatLen BY ShellAssumption
  <2>3. pc \in Busy /\ pc' \in Busy /\ pc' # "slurp" BY <2>1 DEF Busy
  <2>4. pc' = "close" => Given(CatLen) < CatLen BY <2>1, <2>2
  <2> QED BY <1>1, <2>1, <2>2, <2>3, <2>4, CommandReads
<1>9. CASE ReadHex
  <2>1. /\ pc = "read" /\ Command = "hexdump" /\ VfsRead(HexLen)
        /\ pc' = IF Given(HexLen) < HexLen THEN "close" ELSE "read"
        /\ UNCHANGED <<tar, mem, line, found, fd>>
    BY <1>9 DEF ReadHex
  <2>2. HexLen \in Nat BY ShellAssumption
  <2>3. pc \in Busy /\ pc' \in Busy /\ pc' # "slurp" BY <2>1 DEF Busy
  <2>4. pc' = "close" => Given(HexLen) < HexLen BY <2>1
  <2> QED BY <1>1, <2>1, <2>2, <2>3, <2>4, CommandReads
<1>10. CASE ReadHeader BY <1>10, CommandReadsHeader
<1>11. CASE Slurp BY <1>11, CommandSlurps
<1>12. CASE Close
  <2>1. pc' = "done" /\ UNCHANGED <<tar, mem, fd, got>> BY <1>12 DEF Close, command
  <2> QED BY <1>1, <2>1, CommandApart
<1>13. CASE UNCHANGED vars
  <2>1. /\ pc' = pc /\ tar' = tar /\ mem' = mem /\ fds' = fds /\ line' = line /\ found' = found
        /\ fd' = fd /\ got' = got
    BY <1>13 DEF vars, command
  <2>2. Command' = Command BY <2>1 DEF Command
  <2>3. InFile' <=> InFile BY <2>1 DEF InFile
  <2>4. AtEnd' <=> AtEnd BY <2>1 DEF AtEnd
  <2> QED BY <2>1, <2>2, <2>3, <2>4 DEF CommandInv
<1> QED BY <1>2, <1>3, <1>4, <1>5, <1>6, <1>7, <1>8, <1>9, <1>10, <1>11, <1>12, <1>13
     DEF Next, Reading

LEMMA CommandAlways == Spec => [](IInv /\ PathInv /\ CommandInv)
<1>1. Init => IInv /\ PathInv /\ CommandInv BY Initially, PathsInitially, CommandInitially
<1>2. IInv /\ PathInv /\ CommandInv /\ [Next]_vars => (IInv /\ PathInv /\ CommandInv)'
  BY Preserved, PathsPreserved, CommandPreserved
<1> QED BY <1>1, <1>2, PTL DEF Spec

\* The heap is counted and never overdrawn, by any sequence of commands on any image, and
\* an open descriptor is that of a file of the image.
THEOREM DescriptorsTyped == Spec => []TypeOK
<1>1. IInv /\ CommandInv => TypeOK
  <2> SUFFICES ASSUME IInv, CommandInv PROVE TypeOK OBVIOUS
  <2>1. TableOK /\ (pc \in Busy => fd \in DOMAIN fds) /\ DescriptorsClosed BY DEF IInv
  <2>2. mem.left \in 0 .. HeapLeft BY DEF CommandInv, MemType
  <2>3. pc \in Busy => InFile /\ found # None BY DEF CommandInv
  <2>4. ASSUME NEW k \in DOMAIN fds, fds[k].used
        PROVE  fds[k].at \in DOMAIN tar /\ fds[k].off \in Nat
    <3>1. pc \in Busy /\ k = fd BY <2>1, <2>4 DEF DescriptorsClosed, Busy
    <3>2. InFile BY <2>3, <3>1
    <3> QED BY <3>1, <3>2 DEF InFile
  <2> QED BY <2>1, <2>2, <2>3, <2>4 DEF TypeOK, CommandInv, TableOK, Busy
<1> QED BY <1>1, CommandAlways, PTL

\* What a command has read is the file from its beginning, in order and once; cat and
\* hexdump go to its end, and exec to its end or to MAX_ELF unless it refuses the header or
\* has no memory for the image: for a file and buffers of any size.
THEOREM FilesReadWhole == Spec => []ReadsWhole
<1>1. IInv /\ CommandInv => ReadsWhole
  <2> SUFFICES ASSUME IInv, CommandInv, pc \in Busy PROVE ReadsWhole
    BY DEF ReadsWhole, Busy
  <2> DEFINE data == Data(tar, fds[fd].at)
             off == fds[fd].off
  <2>1. InFile /\ tar \in Seq(BlockType) BY DEF CommandInv
  <2>2. PICK S : data \in Seq(S) /\ Len(data) = tar[fds[fd].at].size
    BY <2>1, DataIs DEF InFile
  <2>3. off \in 0 .. Len(data) /\ got = SubSeq(data, 1, off) BY <2>1, <2>2 DEF InFile
  <2>a. AtEnd => off = Len(data) BY <2>2 DEF AtEnd
  <2>4. pc = "close" =>
       \/ AtEnd
       \/ /\ Command = "exec"
          /\ \/ Len(got) = ElfMax
             \/ Len(got) = HeaderLen /\ (got[1] # Magic \/ mem.left < ElfSize)
    BY DEF CommandInv
  <2> HIDE DEF data, off
  <2>5. Len(data) \in Nat /\ off \in Nat /\ off <= Len(data) BY <2>2, <2>3
  <2>6. Len(got) = off /\ got \in Seq(S) BY <2>2, <2>3, <2>5
  <2>7. SubSeq(got, 1, Len(got)) = got BY <2>6, SubSeqFull
  <2>8. IsPrefix(got, data) BY <2>3, <2>5, <2>6, <2>7 DEF IsPrefix
  <2>9. AtEnd => got = data BY <2>2, <2>3, <2>a, SubSeqFull
  <2> QED BY <2>4, <2>6, <2>8, <2>9 DEF ReadsWhole, data, off
<1> QED BY <1>1, CommandAlways, PTL

-------------------------------------------------------------------------------
\* What has been printed.
PrintInv ==
  conv # None => conv \in Conversions /\ printed = Printf(Spell(conv), Arguments(conv))

LEMMA PrintInitially == Init => PrintInv
BY DEF Init, PrintInv

LEMMA PrintPreserved == PrintInv /\ [Next]_vars => PrintInv'
<1> SUFFICES ASSUME PrintInv, [Next]_vars PROVE PrintInv' OBVIOUS
<1>1. CASE \E c \in Conversions : Message(c)
  <2>1. PICK c \in Conversions : conv' = c /\ printed' = Printf(Spell(c), Arguments(c))
    BY <1>1 DEF Message
  <2> QED BY <2>1 DEF PrintInv
<1>2. CASE Prompt
  <2>1. conv' = None BY <1>2 DEF Prompt
  <2> QED BY <2>1 DEF PrintInv
<1>3. CASE \/ \E l \in Lines : OnLine(l) \/ Alloc(l)
           \/ Cd \/ Ls \/ Open \/ Reading \/ UNCHANGED vars
  <2>1. conv' = conv /\ printed' = printed
    BY <1>3 DEF OnLine, Alloc, Cd, Ls, Open, Reading, ReadCat, ReadHex, ReadHeader, Slurp, Close,
                vars, print
  <2> QED BY <2>1 DEF PrintInv
<1> QED BY <1>1, <1>2, <1>3 DEF Next

LEMMA PrintAlways == Spec => []PrintInv
<1> QED BY PrintInitially, PrintPreserved, PTL DEF Spec

\* printf prints what any conversion asks for, whatever its flags, width, precision,
\* modifier and argument, but the null pointer of %p; a signed zero always has a digit.
THEOREM PrintfPrints == Spec => []PrintfMeans
<1>1. PrintInv => PrintfMeans
  <2> SUFFICES ASSUME PrintInv, conv # None PROVE PrintfMeans BY DEF PrintfMeans
  <2>1. IsConversion(conv) /\ printed = Printf(Spell(conv), Arguments(conv))
    BY ShellAssumption DEF PrintInv
  <2>2. Means(conv, printed) BY <2>1, PrintsConversion
  <2> QED BY <2>2 DEF Means, PrintfMeans
<1> QED BY <1>1, PrintAlways, PTL

LEMMA PlainSpelled ==
  ASSUME NEW c, IsConversion(c), Plain(c)
  PROVE  /\ Spell(c) \in Seq(STRING) /\ Len(Spell(c)) = 2
         /\ Spell(c)[1] = "%" /\ Spell(c)[2] = c.spec
         /\ Arguments(c) = <<c.arg>>
<1>1. PICK i1, i2, i3, i4 : Spelled(Spell(c), c, i1, i2, i3, i4) BY SpellSpelled
<1> DEFINE s == Spell(c)
<1>2. /\ ~c.star /\ c.width = 0 /\ c.prec < 0 /\ c.modifier = <<>> /\ FlagsOf(c) = {}
  BY DEF Plain, FlagsOf
<1> HIDE DEF s
<1>3. /\ s \in Seq(STRING) /\ Len(s) = i4 /\ s[1] = "%" /\ s[i4] = c.spec
      /\ i1 \in Nat /\ 2 <= i1 /\ i1 = i4
      /\ \A k \in 2 .. i1 - 1 : s[k] \in {}
  BY <1>1, <1>2 DEF Spelled, s
<1>4. i1 = 2
  <2>1. SUFFICES ASSUME i1 # 2 PROVE FALSE OBVIOUS
  <2>2. 2 \in 2 .. i1 - 1 BY <1>3, <2>1
  <2> QED BY <1>3, <2>2
<1>5. Arguments(c) = <<c.arg>>
  <2>1. c.star \in BOOLEAN BY DEF IsConversion
  <2> QED BY <1>2, <2>1, ArgumentsIs
<1> QED BY <1>3, <1>4, <1>5 DEF s

\* What vsnprintf puts for a conversion alone.
LEMMA PlainPut ==
  ASSUME NEW s \in Seq(STRING), Len(s) = 2, s[1] = "%", NEW x, Put(s, <<x>>, 1, 1) \in Seq(STRING)
  PROVE  Vsprintf(s, <<x>>) = Put(s, <<x>>, 1, 1)
<1> DEFINE args == <<x>>
           v == Put(s, args, 1, 1)
           j == 1 + 2
           b == IF s[1 + 1] \in {"s", "c", "d", "u", "x"} THEN 1 + 1 ELSE 1
<1>1. PICK f : PutBy(f, s, args) /\ Vsprintf(s, args) = f[<<1, 1>>] BY VsprintfFn
<1>2. PutNext(s, 1, 1) = <<j, b>> BY DEF PutNext
<1>3. j \in Nat /\ j > Len(s) /\ b \in Nat OBVIOUS
<1> HIDE DEF args, v, j, b
<1>4. PutStep(f, 1, 1, v, j, b)
  <2>1. Len(s) \in Nat /\ 1 \in 1 .. Len(s) /\ 1 \in Nat OBVIOUS
  <2>2. Put(s, args, 1, 1) = v BY DEF v
  <2> QED BY <1>1, <1>2, <2>1, <2>2, PutConversion
<1>5. f[<<j, b>>] = <<>>
  <2>1. Len(s) \in Nat OBVIOUS
  <2> QED BY <1>1, <1>3, <2>1, PutLast
<1>6. v \in Seq(STRING) BY DEF v, args
<1>7. v \o <<>> = v BY <1>6
<1> QED BY <1>1, <1>4, <1>5, <1>7 DEF PutStep, v, args

LEMMA NoPad ==
  ASSUME NEW n \in Int, n <= 0, NEW c \in STRING PROVE Pad(n, c) = <<>>
<1>1. IsPad(Pad(n, c), STRING, c, Longer(n, 0)) BY PadIs
<1>2. Longer(n, 0) = 0 BY DEF Longer
<1>3. Pad(n, c) \in Seq(STRING) /\ Len(Pad(n, c)) = 0 BY <1>1, <1>2 DEF IsPad
<1> QED BY <1>3

LEMMA NumeralIsText ==
  ASSUME NEW upper \in BOOLEAN, NEW base, NEW n, NEW t, IsNumeral(t, base, upper, n)
  PROVE  t \in Seq(STRING)
<1>1. t \in Seq(DigitSet(upper)) BY DEF IsNumeral
<1>2. DigitSet(upper) \subseteq STRING BY DigitsAreText
<1> QED BY <1>1, <1>2

LEMMA PlainNumber ==
  ASSUME NEW f, ~f.left, ~f.zero, f.width = 0, f.prec = -1, NEW lead \in Seq(STRING),
         NEW digits \in Seq(STRING)
  PROVE  NumberText(f, lead, digits) = lead \o digits
<1> DEFINE n == Len(digits)
           ll == Len(lead)
           out == NumberText(f, lead, digits)
           padding == 0 - (0 + n + ll)
<1>1. n \in Nat /\ ll \in Nat OBVIOUS
<1>2. Longer(f.prec - n, 0) = 0 BY <1>1 DEF Longer
<1>3. out = Pad(padding, " ") \o lead \o <<>> \o Pad(0, "0") \o digits \o <<>>
  BY <1>2 DEF NumberText, NumberOut
<1>4. Pad(padding, " ") = <<>> /\ Pad(0, "0") = <<>>
  <2>1. padding \in Int /\ padding <= 0 /\ 0 \in Int /\ 0 <= 0 BY <1>1
  <2>2. " " \in STRING /\ "0" \in STRING BY LiteralAssumption DEF Decimal
  <2> HIDE DEF padding
  <2> QED BY <2>1, <2>2, NoPad
<1> HIDE DEF out, padding
<1>5. <<>> \o lead = lead /\ lead \o <<>> = lead OBVIOUS
<1>6. lead \o digits \in Seq(STRING) OBVIOUS
<1>7. (lead \o digits) \o <<>> = lead \o digits BY <1>6
<1>8. out = lead \o digits BY <1>3, <1>4, <1>5, <1>7, Zenon
<1> QED BY <1>8 DEF out

LEMMA PlainAgrees ==
  ASSUME NEW c, IsConversion(c), Plain(c), c.spec \in {"d", "u", "x", "c", "s"}
  PROVE  Vsprintf(Spell(c), Arguments(c)) = Printf(Spell(c), Arguments(c))
<1> DEFINE s == Spell(c)
           args == Arguments(c)
           v == Put(s, args, 1, 1)
<1>1. s \in Seq(STRING) /\ Len(s) = 2 /\ s[1] = "%" /\ s[2] = c.spec /\ args = <<c.arg>>
  BY PlainSpelled
<1>2. PICK f, N : Parsed(f, c, N) /\ Printf(s, args) = Convert(f, args) BY PrintfIs
<1>3. /\ ~f.left /\ ~f.zero /\ f.width = 0 /\ f.prec = -1
      /\ f.spec = c.spec /\ args[f.arg] = c.arg /\ ~f.upper
      /\ ~c.plus /\ ~c.space /\ ~c.alt /\ c.prec < 0
  <2>1. /\ ~c.left /\ ~c.zero /\ ~c.plus /\ ~c.space /\ ~c.alt
        /\ c.width = 0 /\ ~(c.width < 0) /\ c.prec < 0 /\ c.spec # "X"
    BY DEF Plain
  <2>2. /\ f.left = (c.left \/ c.width < 0) /\ f.zero = c.zero /\ f.upper = (c.spec = "X")
        /\ f.width = (IF c.width < 0 THEN -c.width ELSE c.width)
        /\ f.prec = (IF c.prec < 0 THEN -1 ELSE c.prec)
        /\ f.spec = c.spec /\ args[f.arg] = c.arg
    BY <1>2 DEF Parsed
  <2> HIDE DEF args
  <2>3. f.width = 0 /\ f.prec = -1 BY <2>1, <2>2
  <2>4. ~f.left /\ ~f.zero /\ ~f.upper BY <2>1, <2>2
  <2> QED BY <2>1, <2>2, <2>3, <2>4
<1>4. Convert(f, args) \in Seq(STRING) BY <1>2, ConvertMeans
<1> HIDE DEF s, args
<1>5. Convert(f, args) = v
  <2>1. 1 + 1 = 2 /\ args[1] = c.arg /\ f.spec # Nul
    <3>1. c.spec \in STRING BY LiteralAssumption DEF IsConversion
    <3> QED BY <1>1, <1>3, <3>1, CharAssumption
  <2>2. CASE c.spec = "s" \/ c.spec = "c"
    <3> DEFINE t == IF c.spec = "s" THEN c.arg ELSE <<c.arg>>
    <3>1. v = t BY <1>1, <2>1, <2>2 DEF Put
    <3>2. Convert(f, args) = PrintString(f, t) BY <1>3, <2>1, <2>2 DEF Convert
    <3>3. t \in Seq(STRING)
      <4>1. CASE c.spec = "s" BY <4>1 DEF IsConversion, Text
      <4>2. CASE c.spec = "c"
        <5>1. c.arg \in STRING BY <4>2 DEF IsConversion
        <5>2. <<c.arg>> \in Seq(STRING) BY <5>1, OneLong, Zenon
        <5> QED BY <4>2, <5>2
      <4> QED BY <2>2, <4>1, <4>2
    <3> HIDE DEF t
    <3> DEFINE pad == Pad(f.width - Len(t), " ")
    <3>4. PrintString(f, t) = pad \o t
      <4>1. ~(f.prec >= 0) /\ ~f.left BY <1>3
      <4> QED BY <4>1 DEF PrintString
    <3>5. pad = <<>>
      <4> DEFINE n == 0 - Len(t)
      <4>1. n \in Int /\ n <= 0 /\ pad = Pad(n, " ") BY <1>3, <3>3
      <4>2. " " \in STRING BY LiteralAssumption
      <4> HIDE DEF n, pad
      <4> QED BY <4>1, <4>2, NoPad
    <3>6. <<>> \o t = t BY <3>3
    <3> HIDE DEF pad
    <3> QED BY <3>1, <3>2, <3>4, <3>5, <3>6
  <2>3. CASE c.spec = "d"
    <3> DEFINE m == Magnitude(c)
               t == U64ToBase(m, 10, FALSE)
    <3>1. c.arg \in Int BY <2>3 DEF IsConversion
    <3>2. m \in Nat BY <3>1 DEF Magnitude
    <3>3. Convert(f, args) = PrintSigned(f, c.arg) BY <1>3, <2>1, <2>3 DEF Convert
    <3>4. PrintSigned(f, c.arg) = NumberText(f, Lead(c), t)
      BY <1>2, <2>3, PrintSignedIs DEF NumberText, Lead, Magnitude, Parsed
    <3>5. t \in Seq(STRING)
      <4>1. IsNumeral(t, 10, FALSE, m) BY <3>2, U64IsNumeral
      <4> HIDE DEF t
      <4> QED BY <4>1, NumeralIsText
    <3>6. NumberText(f, Lead(c), t) = Lead(c) \o t
      <4> HIDE DEF t
      <4> QED BY <1>3, <3>5, LeadIsText, PlainNumber
    <3>7. v = BufPutInt(c.arg) BY <1>1, <2>1, <2>3 DEF Put
    <3>8. BufPutInt(c.arg) = Lead(c) \o t
      <4>1. CASE c.arg < 0
        <5>1. m = -c.arg /\ Lead(c) = <<"-">> BY <2>3, <4>1 DEF Magnitude, Lead
        <5> QED BY <4>1, <5>1 DEF BufPutInt
      <4>2. CASE ~(c.arg < 0)
        <5>1. m = c.arg /\ Lead(c) = <<>> BY <1>3, <2>3, <4>2 DEF Magnitude, Lead
        <5>2. <<>> \o t = t BY <3>5
        <5>3. BufPutInt(c.arg) = t BY <4>2, <5>1 DEF BufPutInt
        <5> QED BY <5>1, <5>2, <5>3
      <4> QED BY <4>1, <4>2
    <3> HIDE DEF t, v
    <3> QED BY <3>3, <3>4, <3>6, <3>7, <3>8
  <2>4. CASE c.spec = "u" \/ c.spec = "x"
    <3> DEFINE base == IF c.spec = "u" THEN 10 ELSE 16
               n == c.arg
               t == U64ToBase(n, base, FALSE)
    <3>1. n \in Nat /\ base \in {10, 16} /\ base = BaseOf(c) /\ f.upper = FALSE
      <4>1. f.upper = (c.spec = "X") BY <1>2 DEF Parsed
      <4> QED BY <2>4, <4>1 DEF IsConversion, BaseOf
    <3>2. Convert(f, args) = PrintUnsigned(f, n, base, c.spec = "x")
      BY <1>3, <2>1, <2>4 DEF Convert
    <3>3. t \in Seq(STRING)
      <4>1. IsNumeral(t, base, FALSE, n) BY <3>1, U64IsNumeral
      <4> HIDE DEF t
      <4> QED BY <4>1, NumeralIsText
    <3>4. v = t BY <1>1, <2>1, <2>4 DEF Put
    <3> HIDE DEF base
    <3>5. ~f.alt
      <4>1. f.alt = (c.alt \/ c.spec = "p") BY <1>2 DEF Parsed
      <4> QED BY <1>3, <2>4, <4>1
    <3>6. (IF f.prec = 0 /\ n = 0 THEN <<>> ELSE U64ToBase(n, base, f.upper)) = t
      <4>1. ~(f.prec = 0) BY <1>3
      <4> QED BY <3>1, <4>1
    <3> HIDE DEF t, n
    <3> DEFINE zeros == Longer(f.prec - Len(t), 0)
    <3>7. PrintUnsigned(f, n, base, c.spec = "x")
            = NumberOut(f.left, ~f.left /\ f.zero /\ f.prec < 0,
                        f.width - (Len(<<>>) + zeros + Len(t)), <<>>, zeros, t)
      BY <3>5, <3>6, PrintUnsignedIs
    <3>8. Len(<<>>) + zeros + Len(t) = zeros + Len(t) + Len(<<>>)
      BY <1>3, <3>3 DEF Longer
    <3>9. PrintUnsigned(f, n, base, c.spec = "x") = NumberText(f, <<>>, t)
      BY <3>7, <3>8 DEF NumberText
    <3>10. NumberText(f, <<>>, t) = <<>> \o t
      <4>1. <<>> \in Seq(STRING) OBVIOUS
      <4> QED BY <1>3, <3>3, <4>1, PlainNumber
    <3>11. <<>> \o t = t BY <3>3
    <3> HIDE DEF v, zeros
    <3> QED BY <3>2, <3>4, <3>9, <3>10, <3>11
  <2> QED BY <2>2, <2>3, <2>4
<1>6. v \in Seq(STRING) BY <1>4, <1>5
<1>7. Vsprintf(s, args) = v BY <1>1, <1>6, PlainPut
<1> HIDE DEF v
<1> QED BY <1>2, <1>5, <1>7 DEF s, args

\* vsnprintf puts what printf prints for the conversions both have, for buffers of any size.
THEOREM SprintfPrints == Spec => []SprintfAgrees
<1>1. PrintInv => SprintfAgrees
  <2> SUFFICES ASSUME PrintInv, conv # None, Plain(conv), conv.spec \in {"d", "u", "x", "c", "s"}
               PROVE  SprintfAgrees
    BY DEF SprintfAgrees
  <2> DEFINE n == Len(printed)
  <2>1. IsConversion(conv) /\ printed = Printf(Spell(conv), Arguments(conv))
    BY ShellAssumption DEF PrintInv
  <2>2. Vsprintf(Spell(conv), Arguments(conv)) = printed BY <2>1, PlainAgrees
  <2>3. printed \in Seq(STRING) BY <2>1, PrintsConversion
  <2>4. n \in Nat BY <2>3
  <2> HIDE DEF n
  <2>5. ASSUME NEW size \in 1 .. n + 2
        PROVE  LET buf == Snprintf(size, printed)
               IN  /\ \A k \in 0 .. size - 2 : k < n => buf[k] = printed[k + 1]
                   /\ {buf[size - 1], buf[size]} \subseteq {Nul, Garbage}
                   /\ n < size => (buf[n] = Nul /\ buf[size] = Garbage)
    <3> DEFINE buf == Snprintf(size, printed)
    <3>1. \A k \in 0 .. size :
             buf[k] = IF k < n /\ k < size - 1 THEN printed[k + 1]
                      ELSE IF k = n /\ n < size THEN Nul
                      ELSE IF k = size /\ n >= size THEN Nul
                      ELSE Garbage
      BY DEF Snprintf, n
    <3> HIDE DEF buf
    <3>2. \A k \in 0 .. size - 2 : k < n => buf[k] = printed[k + 1]
      <4>1. SUFFICES ASSUME NEW k \in 0 .. size - 2, k < n PROVE buf[k] = printed[k + 1] OBVIOUS
      <4>2. k \in 0 .. size /\ k < size - 1 BY <2>4
      <4> QED BY <3>1, <4>1, <4>2
    <3>3. {buf[size - 1], buf[size]} \subseteq {Nul, Garbage}
      <4> DEFINE k == size - 1
      <4>1. k \in 0 .. size /\ size \in 0 .. size /\ ~(k < size - 1) /\ ~(size < size - 1)
        BY <2>4
      <4> HIDE DEF k
      <4>2. buf[k] \in {Nul, Garbage} /\ buf[size] \in {Nul, Garbage} BY <3>1, <4>1
      <4> QED BY <4>2 DEF k
    <3>4. n < size => (buf[n] = Nul /\ buf[size] = Garbage)
      <4>1. SUFFICES ASSUME n < size PROVE buf[n] = Nul /\ buf[size] = Garbage OBVIOUS
      <4>2. n \in 0 .. size /\ size \in 0 .. size /\ size # n /\ ~(n >= size) /\ ~(size < n)
        BY <2>4, <4>1
      <4>3. ~(n < n) BY <2>4
      <4> QED BY <3>1, <4>1, <4>2, <4>3
    <3> QED BY <3>2, <3>3, <3>4 DEF buf
  <2> QED BY <2>2, <2>5 DEF SprintfAgrees, n
<1> QED BY <1>1, PrintAlways, PTL

-------------------------------------------------------------------------------
\* Places: sequences of names, and the text that joins them.
Name == {w \in Seq(STRING) : Len(w) > 0 /\ \A k \in 1 .. Len(w) : w[k] # "/"}

\* w is a whole component of s at i.
Component(s, i, w) ==
  Holds(s, i, w) /\ (i + Len(w) <= Len(s) => s[i + Len(w)] = "/")

JointBy(f, place) ==
  /\ f \in [0 .. Len(place) -> Seq(STRING)] /\ f[0] = <<>>
  /\ \A n \in 1 .. Len(place) :
       f[n] = IF n = 1 THEN place[1] ELSE f[n - 1] \o <<"/">> \o place[n]

LEMMA JointFn ==
  ASSUME NEW place \in Seq(Seq(STRING))
  PROVE  \E f : JointBy(f, place) /\ Joint(place) = f[Len(place)]
<1> DEFINE N == Len(place)
           T == Seq(STRING)
           step(s, n) == IF n = 1 THEN place[1] ELSE s \o <<"/">> \o place[n]
           Def(f) == f = [n \in 0 .. N |-> IF n = 0 THEN <<>> ELSE step(f[n - 1], n)]
           F == CHOOSE f : Def(f)
           G == [n \in 1 .. N |-> [s \in T |-> step(s, n)]]
<1>1. Joint(place) = F[N]
  <2>1. \A f, n : (IF n = 0 THEN <<>> ELSE IF n = 1 THEN place[1] ELSE f[n - 1] \o <<"/">> \o place[n])
                    = (IF n = 0 THEN <<>> ELSE step(f[n - 1], n))
    OBVIOUS
  <2> QED BY <2>1 DEF Joint
<1>2. N \in Nat OBVIOUS
<1>3. ASSUME NEW n \in 1 .. N, NEW s \in T PROVE step(s, n) \in T
  <2>1. place[n] \in T /\ (n = 1 => place[1] \in T) BY <1>3
  <2> DEFINE c == <<"/">>
  <2>2. c \in T BY Characters, OneLong
  <2> HIDE DEF c
  <2>3. s \o c \in T BY <1>3, <2>2, ConcatProperties
  <2>4. s \o c \o place[n] \in T BY <2>1, <2>3, ConcatProperties
  <2> QED BY <2>1, <2>4 DEF c
<1> HIDE DEF step
<1>4. \A n \in 1 .. N, s \in T : G[n][s] = step(s, n) /\ G[n][s] \in T BY <1>3
<1>5. <<>> \in T OBVIOUS
<1> HIDE DEF F, N, T
<1>6. IsStep(G, N, T) BY <1>2, <1>4 DEF IsStep
<1> HIDE DEF G
<1>7. PICK f : Walks(f, G, N, T, <<>>) BY <1>5, <1>6, Stepwise
<1>8. \A n \in 0 .. N : f[n] = IF n = 0 THEN <<>> ELSE step(f[n - 1], n)
  <2>1. \A n \in 1 .. N : n - 1 \in 0 .. N /\ n # 0 BY <1>2
  <2>2. \A n \in 1 .. N : f[n] = step(f[n - 1], n) BY <1>4, <1>7, <2>1 DEF Walks
  <2> QED BY <1>2, <1>7, <2>2 DEF Walks
<1>9. Def(f) BY <1>7, <1>8 DEF Walks
<1>10. Def(F) BY <1>9 DEF F
<1>11. F[0] = <<>> /\ \A n \in 1 .. N : F[n] = step(F[n - 1], n) BY <1>2, <1>10
<1>12. \A n \in 0 .. N : F[n] \in T
  <2>1. \A n \in 1 .. N : F[n - 1] \in T => F[n] \in T BY <1>4, <1>11
  <2> QED BY <1>2, <1>5, <1>11, <2>1, Walking
<1>13. F \in [0 .. N -> T] BY <1>10, <1>12
<1>14. JointBy(F, place) BY <1>11, <1>13 DEF JointBy, N, T, step
<1> QED BY <1>1, <1>14 DEF N

\* The joint of the first names, from that of one name fewer.
JointStep(place) ==
  /\ Joint(SubSeq(place, 1, 0)) = <<>>
  /\ \A n \in 0 .. Len(place) : Joint(SubSeq(place, 1, n)) \in Seq(STRING)
  /\ \A n \in 1 .. Len(place) :
       Joint(SubSeq(place, 1, n)) =
         IF n = 1 THEN place[1] ELSE Joint(SubSeq(place, 1, n - 1)) \o <<"/">> \o place[n]

LEMMA JointNext ==
  ASSUME NEW place \in Seq(Seq(STRING))
  PROVE  JointStep(place) /\ Joint(<<>>) = <<>> /\ Joint(place) \in Seq(STRING)
<1>1. PICK f : JointBy(f, place) /\ Joint(place) = f[Len(place)] BY JointFn
<1>2. ASSUME NEW n \in 0 .. Len(place) PROVE Joint(SubSeq(place, 1, n)) = f[n]
  <2> DEFINE p == SubSeq(place, 1, n)
  <2>1. p \in Seq(Seq(STRING)) /\ Len(p) = n /\ \A k \in 1 .. n : p[k] = place[k] OBVIOUS
  <2> HIDE DEF p
  <2>2. PICK g : JointBy(g, p) /\ Joint(p) = g[Len(p)] BY <2>1, JointFn
  <2> DEFINE S == {k \in Nat : k <= n => f[k] = g[k]}
  <2>3. 0 \in S BY <1>1, <2>2 DEF JointBy
  <2>4. ASSUME NEW k \in Nat, k \in S PROVE k + 1 \in S
    <3>1. SUFFICES ASSUME k + 1 <= n PROVE f[k + 1] = g[k + 1] OBVIOUS
    <3>2. f[k] = g[k] BY <2>4, <3>1
    <3>3. k + 1 \in 1 .. Len(place) /\ k + 1 \in 1 .. Len(p) /\ (k + 1) - 1 = k BY <2>1, <3>1
    <3>4. f[k + 1] = IF k + 1 = 1 THEN place[1] ELSE f[k] \o <<"/">> \o place[k + 1]
      BY <1>1, <3>3 DEF JointBy
    <3>5. g[k + 1] = IF k + 1 = 1 THEN p[1] ELSE g[k] \o <<"/">> \o p[k + 1]
      BY <2>2, <3>3 DEF JointBy
    <3>6. p[k + 1] = place[k + 1] /\ (k + 1 = 1 => p[1] = place[1]) BY <2>1, <3>3
    <3> QED BY <3>2, <3>4, <3>5, <3>6
  <2> HIDE DEF S
  <2>5. Nat \subseteq S BY <2>3, <2>4, Steps
  <2>6. f[n] = g[n] BY <2>5 DEF S
  <2> QED BY <2>1, <2>2, <2>6 DEF p
<1>3. 0 \in 0 .. Len(place) /\ SubSeq(place, 1, 0) = <<>> BY SubSeqEmpty
<1>4. Joint(SubSeq(place, 1, 0)) = <<>> BY <1>1, <1>2, <1>3 DEF JointBy
<1>5. \A n \in 1 .. Len(place) :
        Joint(SubSeq(place, 1, n)) =
          IF n = 1 THEN place[1] ELSE Joint(SubSeq(place, 1, n - 1)) \o <<"/">> \o place[n]
  <2>1. \A n \in 1 .. Len(place) : n \in 0 .. Len(place) /\ n - 1 \in 0 .. Len(place) OBVIOUS
  <2> QED BY <1>1, <1>2, <2>1 DEF JointBy
<1>6. \A n \in 0 .. Len(place) : Joint(SubSeq(place, 1, n)) \in Seq(STRING) BY <1>1, <1>2 DEF JointBy
<1>7. Joint(place) \in Seq(STRING) BY <1>1 DEF JointBy
<1> QED BY <1>3, <1>4, <1>5, <1>6, <1>7 DEF JointStep

\* t is s, a slash and w.
Extends(t, s, w) ==
  /\ t \in Seq(STRING) /\ Len(t) = Len(s) + 1 + Len(w)
  /\ \A k \in 1 .. Len(s) : t[k] = s[k]
  /\ t[Len(s) + 1] = "/"
  /\ Holds(t, Len(s) + 2, w)

LEMMA SlashBetween ==
  ASSUME NEW s \in Seq(STRING), NEW w \in Seq(STRING)
  PROVE  Extends(s \o <<"/">> \o w, s, w)
<1> DEFINE c == <<"/">>
           u == s \o c
           t == u \o w
<1>1. c \in Seq(STRING) /\ Len(c) = 1 /\ c[1] = "/" BY Characters, OneLong
<1>2. Len(s) \in Nat /\ Len(w) \in Nat OBVIOUS
<1> HIDE DEF c
<1>3. /\ u \in Seq(STRING) /\ Len(u) = Len(s) + Len(c)
      /\ \A k \in 1 .. Len(s) : u[k] = s[k]
      /\ Holds(u, Len(s) + 1, c)
  BY <1>1, Grown
<1>4. u[Len(s) + 1] = "/"
  <2>1. u[Len(s) + 1 + 1 - 1] = c[1] BY <1>1, <1>3 DEF Holds
  <2>2. Len(s) + 1 + 1 - 1 = Len(s) + 1 BY <1>2
  <2> QED BY <1>1, <2>1, <2>2
<1> HIDE DEF u
<1>5. /\ t \in Seq(STRING) /\ Len(t) = Len(u) + Len(w)
      /\ \A k \in 1 .. Len(u) : t[k] = u[k]
      /\ Holds(t, Len(u) + 1, w)
  BY <1>3, Grown
<1> HIDE DEF t
<1>6. Len(u) = Len(s) + 1 /\ Len(u) + 1 = Len(s) + 2 BY <1>1, <1>2, <1>3
<1>7. \A k \in 1 .. Len(s) : t[k] = s[k]
  <2>1. \A k \in 1 .. Len(s) : k \in 1 .. Len(u) BY <1>2, <1>6
  <2> QED BY <1>3, <1>5, <2>1
<1>8. Len(s) + 1 \in 1 .. Len(u) BY <1>2, <1>6
<1>9. t[Len(s) + 1] = "/" BY <1>4, <1>5, <1>8
<1>10. Len(t) = Len(s) + 1 + Len(w) BY <1>5, <1>6
<1>11. Holds(t, Len(s) + 2, w) BY <1>5, <1>6
<1>12. Extends(t, s, w) BY <1>5, <1>7, <1>9, <1>10, <1>11 DEF Extends
<1> QED BY <1>12 DEF t, u, c

LEMMA OneMore ==
  ASSUME NEW S, NEW s \in Seq(S), NEW n \in 1 .. Len(s)
  PROVE  SubSeq(s, 1, n) = Append(SubSeq(s, 1, n - 1), s[n])
<1> DEFINE v == SubSeq(s, 1, n - 1)
           x == s[n]
<1>1. SubSeq(s, 1, n) = v \o <<x>> BY SubSeqRecursiveSecond
<1>2. v \in Seq(S) /\ x \in S
  <2>1. n - 1 \in 0 .. Len(s) OBVIOUS
  <2> QED BY <2>1
<1> HIDE DEF v, x
<1>3. Append(v, x) = v \o <<x>> BY <1>2, AppendIsConcat
<1> QED BY <1>1, <1>3 DEF v, x

LEMMA NamesAreTexts == Seq(Name) \subseteq Seq(Seq(STRING))
<1>1. Name \subseteq Seq(STRING) BY DEF Name
<1> QED BY <1>1, SeqMonotonic

LEMMA WordsOne ==
  ASSUME NEW w \in Name PROVE Words(w, "/") = <<w>>
<1>1. w \in Seq(STRING) /\ Len(w) \in Nat \ {0} /\ \A k \in 1 .. Len(w) : w[k] # "/" BY DEF Name
<1> DEFINE q == Len(w) + 1
<1>2. q \in 1 + 1 .. Len(w) + 1 /\ q - 1 = Len(w) /\ 1 \in 1 .. Len(w) /\ 1 - 1 = 0 BY <1>1
<1>3. SubSeq(w, 1, Len(w)) = w /\ SubSeq(w, 1, 0) = <<>> BY <1>1, SubSeqFull, SubSeqEmpty
<1> HIDE DEF q
<1>4. \A k \in 1 .. q - 1 : w[k] # "/" BY <1>1, <1>2
<1>5. Words(SubSeq(w, 1, q - 1), "/") = Append(Words(SubSeq(w, 1, 1 - 1), "/"), SubSeq(w, 1, q - 1))
  BY <1>1, <1>2, <1>4, WordsRun
<1>6. Words(<<>>, "/") = <<>> BY <1>1, WordsNext
<1>7. Words(w, "/") = Append(<<>>, w) BY <1>2, <1>3, <1>5, <1>6
<1> QED BY <1>7

LEMMA WordsExtend ==
  ASSUME NEW s \in Seq(STRING), NEW w \in Name, NEW t, Extends(t, s, w)
  PROVE  Words(t, "/") = Append(Words(s, "/"), w)
<1> DEFINE n == Len(s)
           p == n + 2
           q == Len(t) + 1
           b == SubSeq(t, 1, n + 1)
<1>1. /\ w \in Seq(STRING) /\ Len(w) \in Nat \ {0} /\ \A k \in 1 .. Len(w) : w[k] # "/"
      /\ n \in Nat
  BY DEF Name
<1>2. /\ t \in Seq(STRING) /\ Len(t) = n + 1 + Len(w) /\ \A k \in 1 .. n : t[k] = s[k]
      /\ t[n + 1] = "/" /\ \A k \in 1 .. Len(w) : t[p + k - 1] = w[k]
      /\ Holds(t, p, w)
  BY DEF Extends, Holds
<1> HIDE DEF n
<1>3. /\ n + 1 \in 0 .. Len(t) /\ p \in 1 .. Len(t) /\ q \in p + 1 .. Len(t) + 1
      /\ p - 1 = n + 1 /\ q - 1 = Len(t) /\ p \in Nat \ {0} /\ p + Len(w) - 1 = Len(t)
  BY <1>1, <1>2
<1>4. \A k \in p .. q - 1 : t[k] # "/"
  <2>1. SUFFICES ASSUME NEW k \in p .. q - 1 PROVE t[k] # "/" OBVIOUS
  <2> DEFINE j == k - p + 1
  <2>2. j \in 1 .. Len(w) /\ p + j - 1 = k BY <1>1, <1>2
  <2> HIDE DEF j, p, q
  <2> QED BY <1>1, <1>2, <2>2
<1> HIDE DEF p, q
<1>5. b = Append(s, "/")
  <2> DEFINE a == Append(s, "/")
  <2>a. "/" \in STRING BY Characters
  <2>0. /\ a \in Seq(STRING) /\ Len(a) = Len(s) + 1 /\ a[Len(s) + 1] = "/"
        /\ \A k \in 1 .. Len(s) : a[k] = s[k]
    BY <2>a, AppendProperties
  <2>1. /\ a \in Seq(STRING) /\ Len(a) = n + 1 /\ a[n + 1] = "/" /\ \A k \in 1 .. n : a[k] = s[k]
    BY <2>0 DEF n
  <2>2. b \in Seq(STRING) /\ Len(b) = n + 1 /\ \A k \in 1 .. n + 1 : b[k] = t[k] BY <1>2, <1>3
  <2> HIDE DEF a, b
  <2>3. \A k \in 1 .. n + 1 : b[k] = a[k] BY <1>1, <1>2, <2>1, <2>2
  <2> QED BY <2>1, <2>2, <2>3, SeqEqual DEF a
<1>6. Words(b, "/") = Words(s, "/") BY <1>5, WordsSep, Characters
<1>7. SubSeq(t, p, Len(t)) = w
  <2>1. SubSeq(t, p, p + Len(w) - 1) = w BY <1>1, <1>2, <1>3, HeldIs
  <2> QED BY <1>3, <2>1
<1>8. SubSeq(t, 1, Len(t)) = t BY <1>2, SubSeqFull
<1>9. t[p - 1] = "/" BY <1>2, <1>3
<1>10. Words(SubSeq(t, 1, q - 1), "/") = Append(Words(SubSeq(t, 1, p - 1), "/"), SubSeq(t, p, q - 1))
  BY <1>2, <1>3, <1>4, <1>9, WordsRun
<1> QED BY <1>3, <1>6, <1>7, <1>8, <1>10 DEF b

\* The names before the n-th, joined, and the n-th one.
LEMMA JointMore ==
  ASSUME NEW place \in Seq(Name), NEW n \in 1 .. Len(place)
  PROVE  LET before == Joint(SubSeq(place, 1, n - 1))
             after == Joint(SubSeq(place, 1, n))
         IN  /\ before \in Seq(STRING) /\ place[n] \in Name
             /\ n = 1 => before = <<>> /\ after = place[1]
             /\ n # 1 => Extends(after, before, place[n])
<1> DEFINE before == Joint(SubSeq(place, 1, n - 1))
           after == Joint(SubSeq(place, 1, n))
<1>1. place \in Seq(Seq(STRING)) /\ n - 1 \in 0 .. Len(place) /\ (n = 1 => n - 1 = 0)
  BY NamesAreTexts
<1>2. JointStep(place) BY <1>1, JointNext
<1>3. before \in Seq(STRING) BY <1>1, <1>2 DEF JointStep
<1>4. after = IF n = 1 THEN place[1] ELSE before \o <<"/">> \o place[n] BY <1>2 DEF JointStep
<1>5. n = 1 => before = <<>> BY <1>1, <1>2 DEF JointStep
<1>6. place[n] \in Name /\ place[n] \in Seq(STRING) BY DEF Name
<1> HIDE DEF before, after
<1>7. n # 1 => Extends(after, before, place[n]) BY <1>3, <1>4, <1>6, SlashBetween
<1> QED BY <1>3, <1>4, <1>5, <1>6, <1>7 DEF before, after

\* The words of names that are joined are the names.
LEMMA JointWords ==
  ASSUME NEW place \in Seq(Name)
  PROVE  /\ Joint(place) \in Seq(STRING)
         /\ Words(Joint(place), "/") = place
         /\ Words(Append(Joint(place), "/"), "/") = place
<1> DEFINE N == Len(place)
           J(n) == Joint(SubSeq(place, 1, n))
           S == {n \in Nat : n <= N => Words(J(n), "/") = SubSeq(place, 1, n)}
<1>1. N \in Nat /\ place \in Seq(Seq(STRING)) BY NamesAreTexts
<1>2. SubSeq(place, 1, 0) = <<>> /\ SubSeq(place, 1, N) = place BY <1>1, SubSeqEmpty, SubSeqFull
<1>3. J(0) = <<>> /\ Joint(place) \in Seq(STRING) BY <1>1, <1>2, JointNext
<1>4. 0 \in S
  <2>1. Words(<<>>, "/") = <<>> BY <1>3, WordsNext
  <2> QED BY <1>2, <1>3, <2>1
<1>5. ASSUME NEW n \in Nat, n \in S PROVE n + 1 \in S
  <2> DEFINE m == n + 1
  <2>1. SUFFICES ASSUME m <= N PROVE Words(J(m), "/") = SubSeq(place, 1, m) OBVIOUS
  <2>2. m \in 1 .. N /\ m - 1 = n /\ n <= N BY <1>1, <2>1
  <2>3. Words(J(n), "/") = SubSeq(place, 1, n) BY <1>5, <2>2
  <2>4. SubSeq(place, 1, m) = Append(SubSeq(place, 1, n), place[m]) BY <2>2, OneMore
  <2>5. /\ J(n) \in Seq(STRING) /\ place[m] \in Name
        /\ m = 1 => J(n) = <<>> /\ J(m) = place[1]
        /\ m # 1 => Extends(J(m), J(n), place[m])
    BY <2>2, JointMore
  <2> HIDE DEF J, S, m
  <2>6. CASE m = 1
    <3>1. Words(J(m), "/") = <<place[m]>> BY <2>5, <2>6, WordsOne
    <3>2. SubSeq(place, 1, n) = <<>> BY <1>2, <2>2, <2>6
    <3>3. SubSeq(place, 1, m) = Append(<<>>, place[m]) BY <2>4, <3>2
    <3>4. Append(<<>>, place[m]) = <<place[m]>> OBVIOUS
    <3> QED BY <3>1, <3>3, <3>4
  <2>7. CASE m # 1
    <3>1. Words(J(m), "/") = Append(Words(J(n), "/"), place[m]) BY <2>5, <2>7, WordsExtend
    <3> QED BY <2>3, <2>4, <3>1
  <2> QED BY <2>6, <2>7
<1> HIDE DEF S
<1>6. Nat \subseteq S BY <1>4, <1>5, Steps
<1>7. Words(J(N), "/") = SubSeq(place, 1, N) BY <1>1, <1>6 DEF S
<1>8. Words(Joint(place), "/") = place BY <1>2, <1>7
<1>9. Words(Append(Joint(place), "/"), "/") = Words(Joint(place), "/")
  BY <1>3, WordsSep, Characters
<1> QED BY <1>3, <1>8, <1>9

LEMMA NameIs ==
  ASSUME NEW w \in Name
  PROVE  /\ w \in Seq(STRING) /\ Len(w) \in Nat \ {0} /\ w # <<>>
         /\ \A k \in 1 .. Len(w) : w[k] # "/"
BY DEF Name

\* s begins with the text before and a slash, if before is not empty, and goes on with
\* the component w.
Has(s, before, w) ==
  IF before = <<>> THEN Component(s, 1, w)
  ELSE Holds(s, 1, before) /\ s[Len(before) + 1] = "/" /\ Component(s, Len(before) + 2, w)

\* t is s, or goes on behind it with a slash.
GoesBeyond(t, s) ==
  /\ t \in Seq(STRING) /\ Len(s) <= Len(t)
  /\ \A k \in 1 .. Len(s) : t[k] = s[k]
  /\ Len(s) < Len(t) => t[Len(s) + 1] = "/"

LEMMA HasBeyond ==
  ASSUME NEW s \in Seq(STRING), NEW t, GoesBeyond(t, s), NEW before \in Seq(STRING),
         NEW w \in Name, Has(s, before, w)
  PROVE  Has(t, before, w)
<1>1. /\ Len(s) \in Nat /\ Len(t) \in Nat /\ Len(w) \in Nat /\ Len(before) \in Nat
      /\ Len(s) <= Len(t) /\ \A k \in 1 .. Len(s) : t[k] = s[k]
      /\ Len(s) < Len(t) => t[Len(s) + 1] = "/"
  BY DEF GoesBeyond, Name
<1>2. ASSUME NEW i \in Nat \ {0}, NEW u, Len(u) \in Nat, Holds(s, i, u) PROVE Holds(t, i, u)
  <2>1. i + Len(u) <= Len(s) + 1 /\ \A k \in 1 .. Len(u) : s[i + k - 1] = u[k]
    BY <1>2 DEF Holds
  <2>2. ASSUME NEW k \in 1 .. Len(u) PROVE t[i + k - 1] = u[k]
    <3>1. i + k - 1 \in 1 .. Len(s) BY <1>1, <1>2, <2>1
    <3> QED BY <1>1, <2>1, <3>1
  <2>3. i + Len(u) <= Len(t) + 1 BY <1>1, <1>2, <2>1
  <2> QED BY <2>2, <2>3 DEF Holds
<1>3. ASSUME NEW i \in Nat \ {0}, Component(s, i, w) PROVE Component(t, i, w)
  <2> DEFINE e == i + Len(w)
  <2>1. Holds(s, i, w) /\ (e <= Len(s) => s[e] = "/") BY <1>3 DEF Component
  <2>2. e \in 1 .. Len(s) + 1 BY <1>1, <2>1 DEF Holds
  <2>3. Holds(t, i, w) BY <1>1, <1>2, <2>1
  <2> HIDE DEF e
  <2>4. e <= Len(t) => t[e] = "/"
    <3>1. CASE e <= Len(s)
      <4>1. e \in 1 .. Len(s) BY <1>1, <2>2, <3>1
      <4> QED BY <1>1, <2>1, <3>1, <4>1
    <3>2. CASE ~(e <= Len(s))
      <4>1. e = Len(s) + 1 BY <1>1, <2>2, <3>2
      <4> QED BY <1>1, <4>1
    <3> QED BY <3>1, <3>2
  <2> QED BY <2>3, <2>4 DEF Component, e
<1>4. CASE before = <<>> BY <1>3, <1>4 DEF Has
<1>5. CASE before # <<>>
  <2>1. Holds(s, 1, before) /\ s[Len(before) + 1] = "/" /\ Component(s, Len(before) + 2, w)
    BY <1>5 DEF Has
  <2>2. Len(before) + 2 + Len(w) <= Len(s) + 1 BY <2>1 DEF Component, Holds
  <2>3. Len(before) + 1 \in 1 .. Len(s) BY <1>1, <2>2
  <2>4. t[Len(before) + 1] = "/" BY <1>1, <2>1, <2>3
  <2>5. Component(t, Len(before) + 2, w) BY <1>1, <1>3, <2>1
  <2>6. Holds(t, 1, before) BY <1>1, <1>2, <2>1
  <2> QED BY <1>5, <2>4, <2>5, <2>6 DEF Has
<1> QED BY <1>4, <1>5

LEMMA ExtendsGoesBeyond ==
  ASSUME NEW s \in Seq(STRING), NEW w \in Name, NEW t, Extends(t, s, w)
  PROVE  GoesBeyond(t, s)
<1>1. Len(w) \in Nat /\ Len(s) \in Nat BY DEF Name
<1> QED BY <1>1 DEF Extends, GoesBeyond

LEMMA JointEmpty ==
  ASSUME NEW place \in Seq(Name), NEW n \in 0 .. Len(place)
  PROVE  /\ Joint(SubSeq(place, 1, n)) \in Seq(STRING)
         /\ Joint(SubSeq(place, 1, n)) = <<>> <=> n = 0
<1>1. JointStep(place) BY NamesAreTexts, JointNext
<1>2. Joint(SubSeq(place, 1, n)) \in Seq(STRING) /\ Joint(SubSeq(place, 1, 0)) = <<>>
  BY <1>1 DEF JointStep
<1>3. ASSUME n # 0 PROVE Joint(SubSeq(place, 1, n)) # <<>>
  <2> DEFINE before == Joint(SubSeq(place, 1, n - 1))
             after == Joint(SubSeq(place, 1, n))
  <2>1. n \in 1 .. Len(place) BY <1>3
  <2>2. /\ before \in Seq(STRING) /\ place[n] \in Name
        /\ n = 1 => before = <<>> /\ after = place[1]
        /\ n # 1 => Extends(after, before, place[n])
    BY <2>1, JointMore
  <2> HIDE DEF before, after
  <2>3. Len(place[n]) \in Nat \ {0} /\ Len(before) \in Nat BY <2>2 DEF Name
  <2>4. Len(after) # 0
    <3>1. CASE n = 1 BY <2>2, <2>3, <3>1
    <3>2. CASE n # 1
      <4>1. Len(after) = Len(before) + 1 + Len(place[n]) BY <2>2, <3>2 DEF Extends
      <4>2. \A a, b \in Nat : a + 1 + b # 0 OBVIOUS
      <4>3. Len(place[n]) \in Nat /\ Len(before) \in Nat BY <2>3
      <4> QED BY <4>1, <4>2, <4>3, Zenon
    <3> QED BY <3>1, <3>2
  <2>5. after # <<>>
    <3>1. Len(<<>>) = 0 OBVIOUS
    <3> QED BY <2>4, <3>1
  <2> QED BY <2>5 DEF after
<1> QED BY <1>2, <1>3

\* Joined names have each name as a component, behind those before it.
LEMMA JointHas ==
  ASSUME NEW place \in Seq(Name), NEW k \in 1 .. Len(place), NEW n \in k .. Len(place)
  PROVE  Has(Joint(SubSeq(place, 1, n)), Joint(SubSeq(place, 1, k - 1)), place[k])
<1> DEFINE J(i) == Joint(SubSeq(place, 1, i))
           S == {d \in Nat : k + d <= Len(place) => Has(J(k + d), J(k - 1), place[k])}
<1>1. /\ J(k - 1) \in Seq(STRING) /\ place[k] \in Name
      /\ k = 1 => J(k - 1) = <<>> /\ J(k) = place[1]
      /\ k # 1 => Extends(J(k), J(k - 1), place[k])
  BY JointMore
<1>2. k # 1 => J(k - 1) # <<>>
  <2>1. k # 1 => k - 1 \in 0 .. Len(place) /\ k - 1 # 0 OBVIOUS
  <2> QED BY <2>1, JointEmpty
<1>3. \A i \in 0 .. Len(place) : J(i) \in Seq(STRING) BY JointEmpty
<1>4. Len(place[k]) \in Nat /\ place[k] \in Seq(STRING) /\ Len(J(k - 1)) \in Nat
  BY <1>1, NameIs, LengthIs
<1> HIDE DEF J
<1>5. Has(J(k), J(k - 1), place[k])
  <2>1. CASE k = 1
    <3>1. J(k) = place[k] BY <1>1, <2>1
    <3>2. Component(place[k], 1, place[k]) BY <1>4 DEF Component, Holds
    <3> QED BY <1>1, <2>1, <3>1, <3>2 DEF Has
  <2>2. CASE k # 1
    <3> DEFINE b == J(k - 1)
    <3>1. /\ Len(J(k)) = Len(b) + 1 + Len(place[k])
          /\ \A i \in 1 .. Len(b) : J(k)[i] = b[i]
          /\ J(k)[Len(b) + 1] = "/"
          /\ Holds(J(k), Len(b) + 2, place[k])
      BY <1>1, <2>2 DEF Extends
    <3>2. Len(b) \in Nat /\ b # <<>> BY <1>2, <1>4, <2>2
    <3> HIDE DEF b
    <3>3. ~((Len(b) + 2) + Len(place[k]) <= Len(J(k))) BY <1>4, <3>1, <3>2
    <3>4. Component(J(k), Len(b) + 2, place[k]) BY <3>1, <3>3 DEF Component
    <3>5. Holds(J(k), 1, b)
      <4>a. \A x, y \in Nat : 1 + x <= (x + 1 + y) + 1 OBVIOUS
      <4>1. 1 + Len(b) <= Len(J(k)) + 1 BY <1>4, <3>1, <3>2, <4>a, Zenon
      <4>2. \A i \in 1 .. Len(b) : 1 + i - 1 = i OBVIOUS
      <4> QED BY <3>1, <4>1, <4>2 DEF Holds
    <3>6. Has(J(k), b, place[k]) BY <3>1, <3>2, <3>4, <3>5 DEF Has
    <3> QED BY <3>6 DEF b
  <2> QED BY <2>1, <2>2
<1>6. 0 \in S BY <1>5, k + 0 = k
<1>7. ASSUME NEW d \in Nat, d \in S PROVE d + 1 \in S
  <2> DEFINE i == k + d
             j == k + (d + 1)
  <2>1. SUFFICES ASSUME j <= Len(place) PROVE Has(J(j), J(k - 1), place[k]) OBVIOUS
  <2>2. i \in 0 .. Len(place) /\ j \in 1 .. Len(place) /\ j - 1 = i /\ j # 1 /\ i <= Len(place)
    BY <2>1
  <2>3. Has(J(i), J(k - 1), place[k]) BY <1>7, <2>2
  <2> HIDE DEF i, j, S
  <2>4. Extends(J(j), J(i), place[j]) /\ place[j] \in Name BY <2>2, JointMore DEF J
  <2>5. GoesBeyond(J(j), J(i)) BY <1>3, <2>2, <2>4, ExtendsGoesBeyond
  <2> QED BY <1>1, <1>3, <2>2, <2>3, <2>5, HasBeyond
<1> HIDE DEF S
<1>8. Nat \subseteq S BY <1>6, <1>7, Steps
<1>9. n - k \in Nat /\ k + (n - k) = n /\ n <= Len(place) OBVIOUS
<1>10. Has(J(k + (n - k)), J(k - 1), place[k]) BY <1>8, <1>9 DEF S
<1> QED BY <1>9, <1>10 DEF J

LEMMA PrefixIs ==
  ASSUME NEW S, NEW s \in Seq(S), NEW t \in Seq(S)
  PROVE  /\ IsPrefix(s, t) <=> Holds(t, 1, s)
         /\ Holds(t, 1, s) /\ Len(s) = Len(t) => s = t
<1> DEFINE n == Len(s)
           u == SubSeq(t, 1, n)
<1>1. n \in Nat /\ Len(t) \in Nat /\ SubSeq(s, 1, n) = s BY SubSeqFull
<1>2. ASSUME n <= Len(t) PROVE u \in Seq(S) /\ Len(u) = n /\ \A k \in 1 .. n : u[k] = t[k]
  <2>1. n \in 0 .. Len(t) BY <1>1, <1>2
  <2> QED BY <2>1
<1>3. \A k \in 1 .. n : 1 + k - 1 = k OBVIOUS
<1>4. Holds(t, 1, s) <=> n <= Len(t) /\ \A k \in 1 .. n : t[k] = s[k]
  <2>1. 1 + n <= Len(t) + 1 <=> n <= Len(t) BY <1>1
  <2> QED BY <1>3, <2>1 DEF Holds
<1>5. IsPrefix(s, t) <=> n <= Len(t) /\ s = u BY <1>1 DEF IsPrefix
<1> HIDE DEF u
<1>6. ASSUME n <= Len(t), \A k \in 1 .. n : t[k] = s[k] PROVE s = u
  <2>1. \A k \in 1 .. n : s[k] = u[k] BY <1>2, <1>6
  <2> QED BY <1>2, <1>6, <2>1, SeqEqual DEF n
<1>7. ASSUME n <= Len(t), s = u PROVE \A k \in 1 .. n : t[k] = s[k] BY <1>2, <1>7
<1>8. IsPrefix(s, t) <=> Holds(t, 1, s) BY <1>4, <1>5, <1>6, <1>7
<1>9. ASSUME Holds(t, 1, s), n = Len(t) PROVE s = t
  <2>1. \A k \in 1 .. n : s[k] = t[k] BY <1>4, <1>9
  <2> QED BY <1>9, <2>1, SeqEqual DEF n
<1> QED BY <1>8, <1>9 DEF n

\* The words of a text are names.
LEMMA WordsAreNames ==
  ASSUME NEW s \in Seq(STRING)
  PROVE  Words(s, "/") \in Seq(Name)
<1> DEFINE n == Len(s)
           R == Runs(STRING, "/", n)
<1>a. Nul \notin STRING /\ "/" \in STRING BY Characters
<1>b. n \in Nat BY LengthIs
<1>1. n \in Nat /\ Nul \notin STRING /\ "/" \in STRING BY <1>a, <1>b
<1>2. Split(s, "/", n) = Words(s, "/")
  <2>1. n <= n BY <1>1
  <2> QED BY <1>1, <2>1, SplitWords
<1>3. Split(s, "/", n) \in Seq(R) BY <1>1, PartsType
<1>4. R \subseteq Name
  <2>1. \A w \in R : w \in Seq(STRING) /\ Len(w) \in 1 .. n /\ \A k \in 1 .. Len(w) : w[k] # "/"
    BY DEF Runs
  <2> QED BY <1>1, <2>1 DEF Name
<1> HIDE DEF R, n
<1>5. Seq(R) \subseteq Seq(Name) BY <1>4, SeqMonotonic
<1> QED BY <1>2, <1>3, <1>5

\* What comes behind a slash changes no word before it.
Keeps(words, more, open) ==
  /\ more \in Seq(Seq(STRING)) /\ Len(words) <= Len(more)
  /\ \A k \in 1 .. Len(words) : more[k] = words[k]
  /\ open => Len(words) < Len(more)

LEMMA WordsBehind ==
  ASSUME NEW s \in Seq(STRING), NEW n \in 1 .. Len(s), s[n] = "/"
  PROVE  Keeps(Words(SubSeq(s, 1, n), "/"), Words(s, "/"), FALSE)
<1> DEFINE W(i) == Words(SubSeq(s, 1, i), "/")
           S == {d \in Nat : n + d <= Len(s) => Keeps(W(n), W(n + d), s[n + d] # "/")}
<1>1. \A i \in 1 .. Len(s) : W(i) = WordsOn(W(i - 1), s, "/", i) BY WordsNext
<1>2. \A i \in 0 .. Len(s) : W(i) \in Seq(Seq(STRING))
  <2>1. \A i \in 0 .. Len(s) : SubSeq(s, 1, i) \in Seq(STRING) OBVIOUS
  <2> QED BY <2>1, WordsNext
<1>3. n \in 0 .. Len(s) OBVIOUS
<1>4. SubSeq(s, 1, Len(s)) = s BY SubSeqFull
<1>5. W(Len(s)) = Words(s, "/") BY <1>4
<1> HIDE DEF W
<1>6. Len(W(n)) \in Nat BY <1>2, <1>3, LengthIs
<1>7. 0 \in S
  <2>1. n + 0 = n OBVIOUS
  <2>2. Len(W(n)) <= Len(W(n)) BY <1>6
  <2>3. Keeps(W(n), W(n), FALSE) BY <1>2, <1>3, <2>2 DEF Keeps
  <2> QED BY <2>1, <2>3
<1>8. ASSUME NEW d \in Nat, d \in S PROVE d + 1 \in S
  <2> DEFINE i == n + d
             j == n + (d + 1)
             u == W(i)
             v == W(j)
  <2>1. SUFFICES ASSUME j <= Len(s) PROVE Keeps(W(n), v, s[j] # "/") OBVIOUS
  <2>2. /\ i \in 0 .. Len(s) /\ j \in 1 .. Len(s) /\ j - 1 = i /\ j # 1 /\ i <= Len(s)
        /\ j \in 0 .. Len(s)
    BY <2>1
  <2>3. Keeps(W(n), u, s[i] # "/") BY <1>8, <2>2
  <2>4. v = WordsOn(u, s, "/", j) BY <1>1, <2>2
  <2>5. u \in Seq(Seq(STRING)) /\ v \in Seq(Seq(STRING)) /\ s[j] \in STRING BY <1>2, <2>2
  <2>6. Len(u) \in Nat BY <2>5, LengthIs
  <2> HIDE DEF i, j, u, v, S
  <2> DEFINE m == Len(W(n))
             l == Len(u)
  <2>7. m \in Nat /\ l \in Nat /\ m <= l /\ \A k \in 1 .. m : u[k] = W(n)[k]
    BY <1>6, <2>3, <2>6 DEF Keeps
  <2>8. CASE s[j] = "/"
    <3>1. v = u BY <2>4, <2>8 DEF WordsOn
    <3> QED BY <2>3, <2>8, <3>1 DEF Keeps
  <2>9. CASE s[j] # "/" /\ s[i] = "/"
    <3> DEFINE x == <<s[j]>>
    <3>1. v = Append(u, x) BY <2>2, <2>4, <2>9 DEF WordsOn
    <3>2. x \in Seq(STRING) BY <2>5
    <3> HIDE DEF x
    <3>3. Len(v) = l + 1 /\ \A k \in 1 .. l : v[k] = u[k] BY <2>5, <3>1, <3>2, AppendProperties
    <3> HIDE DEF m, l
    <3>4. m <= Len(v) /\ m < Len(v) /\ \A k \in 1 .. m : v[k] = W(n)[k]
      <4>1. \A k \in 1 .. m : k \in 1 .. l BY <2>7
      <4> QED BY <2>7, <3>3, <4>1
    <3> QED BY <2>5, <3>4 DEF Keeps, m
  <2>10. CASE s[j] # "/" /\ s[i] # "/"
    <3> DEFINE y == Append(u[l], s[j])
               e == [u EXCEPT ![l] = y]
    <3>1. v = e BY <2>2, <2>4, <2>10 DEF WordsOn
    <3>2. m < l BY <2>3, <2>10 DEF Keeps
    <3>3. DOMAIN u = 1 .. l BY <2>5
    <3> HIDE DEF y
    <3>4. DOMAIN e = 1 .. l /\ \A k \in 1 .. l : k # l => e[k] = u[k] BY <3>3
    <3> HIDE DEF e
    <3>5. Len(v) = l
      <4>1. DOMAIN v = 1 .. Len(v) /\ Len(v) \in Nat BY <2>5
      <4>2. 1 .. Len(v) = 1 .. l BY <3>1, <3>4, <4>1
      <4> HIDE DEF l
      <4>3. \A a, b \in Nat : 1 .. a = 1 .. b => a = b
        <5>1. SUFFICES ASSUME NEW a \in Nat, NEW b \in Nat, 1 .. a = 1 .. b PROVE a = b OBVIOUS
        <5>2. a > 0 => a \in 1 .. b BY <5>1
        <5>3. b > 0 => b \in 1 .. a BY <5>1
        <5> QED BY <5>2, <5>3
      <4> QED BY <2>7, <4>1, <4>2, <4>3
    <3> HIDE DEF m, l
    <3>6. m <= Len(v) /\ m < Len(v) /\ \A k \in 1 .. m : v[k] = W(n)[k]
      <4>1. \A k \in 1 .. m : k \in 1 .. l /\ k # l BY <2>7, <3>2
      <4> QED BY <2>7, <3>1, <3>2, <3>4, <3>5, <4>1
    <3> QED BY <2>5, <3>6 DEF Keeps, m
  <2> QED BY <2>8, <2>9, <2>10 DEF v, j
<1> HIDE DEF S
<1>9. Nat \subseteq S BY <1>7, <1>8, Steps
<1>10. Len(s) - n \in Nat /\ n + (Len(s) - n) = Len(s) /\ Len(s) <= Len(s) OBVIOUS
<1>11. Keeps(W(n), W(Len(s)), s[Len(s)] # "/") BY <1>9, <1>10 DEF S
<1> QED BY <1>5, <1>11 DEF Keeps, W

\* Names take up no more joined than in the text they are the words of.
LEMMA JointFits ==
  ASSUME NEW s \in Seq(STRING), s # <<>>, s[1] = "/", NEW n \in 0 .. Len(Words(s, "/"))
  PROVE  Len(Joint(SubSeq(Words(s, "/"), 1, n))) < Len(s)
<1> DEFINE W == Words(s, "/")
           N == Len(W)
           J(i) == Joint(SubSeq(W, 1, i))
           L == Len(s)
<1>1. W \in Seq(Name) /\ N \in Nat /\ L \in Nat \ {0}
  <2>1. W \in Seq(Name) BY WordsAreNames
  <2> HIDE DEF W
  <2> QED BY <2>1
<1>2. PICK e : Fills(e, W, L) BY WordsFit DEF Fits
<1> HIDE DEF W
<1>3. e \in [0 .. N -> 0 .. L] /\ e[0] = 0 /\ \A k \in 1 .. N : e[k] >= e[k - 1] + 1 + Len(W[k])
  BY <1>2 DEF Fills
<1>4. \A i \in 0 .. N : J(i) \in Seq(STRING) /\ (J(i) = <<>> <=> i = 0) BY <1>1, JointEmpty
<1> DEFINE S == {i \in Nat : i <= N /\ i > 0 => Len(J(i)) + 1 <= e[i]}
<1>5. 0 \in S OBVIOUS
<1>6. ASSUME NEW i \in Nat, i \in S PROVE i + 1 \in S
  <2> DEFINE j == i + 1
  <2>1. SUFFICES ASSUME j <= N PROVE Len(J(j)) + 1 <= e[j] OBVIOUS
  <2>2. j \in 1 .. N /\ j - 1 = i /\ i \in 0 .. N /\ i <= N BY <1>1, <2>1
  <2>3. /\ J(i) \in Seq(STRING) /\ W[j] \in Name
        /\ j = 1 => J(i) = <<>> /\ J(j) = W[1]
        /\ j # 1 => Extends(J(j), J(i), W[j])
    BY <1>1, <2>2, JointMore
  <2>4. e[j] >= e[i] + 1 + Len(W[j]) /\ e[i] \in 0 .. L /\ e[j] \in 0 .. L
    <3>1. j \in 0 .. N BY <2>2
    <3> HIDE DEF j, J, S, L, N
    <3>2. e[i] \in 0 .. L /\ e[j] \in 0 .. L BY <1>3, <2>2, <3>1
    <3>3. e[j] >= e[j - 1] + 1 + Len(W[j]) BY <1>3, <2>2
    <3> QED BY <2>2, <3>2, <3>3
  <2>5. i > 0 => Len(J(i)) + 1 <= e[i] BY <1>6, <2>2
  <2>6. Len(W[j]) \in Nat /\ Len(J(i)) \in Nat BY <2>3, NameIs, LengthIs
  <2> HIDE DEF J, S, L, N
  <2>7. CASE j = 1
    <3>1. Len(J(j)) = Len(W[j]) BY <2>3, <2>7
    <3>2. \A x, a, b \in Nat : b >= a + 1 + x => x + 1 <= b OBVIOUS
    <3>3. e[i] \in Nat /\ e[j] \in Nat BY <2>4
    <3> QED BY <2>4, <2>6, <3>1, <3>2, <3>3, Zenon
  <2>8. CASE j # 1
    <3>1. Len(J(j)) = Len(J(i)) + 1 + Len(W[j]) BY <2>3, <2>8 DEF Extends
    <3>2. \A x, y, a, b \in Nat : b >= a + 1 + x /\ y + 1 <= a => (y + 1 + x) + 1 <= b OBVIOUS
    <3>3. e[i] \in Nat /\ e[j] \in Nat BY <2>4
    <3>4. i > 0 BY <2>2, <2>8
    <3> QED BY <2>4, <2>5, <2>6, <3>1, <3>2, <3>3, <3>4, Zenon
  <2> QED BY <2>7, <2>8
<1> HIDE DEF S
<1>7. Nat \subseteq S BY <1>5, <1>6, Steps
<1>8. n \in 0 .. N BY DEF W
<1>9. CASE n = 0
  <2>1. Len(J(n)) = 0
    <3>1. J(n) = <<>> BY <1>4, <1>8, <1>9
    <3> QED BY <3>1
  <2> HIDE DEF J
  <2>2. Len(J(n)) < L BY <1>1, <2>1
  <2> QED BY <2>2 DEF J, W
<1>10. CASE n # 0
  <2>1. n \in S /\ n \in Nat /\ n > 0 /\ n <= N BY <1>1, <1>7, <1>8, <1>10
  <2>2. Len(J(n)) + 1 <= e[n] BY <2>1 DEF S
  <2>3. e[n] \in 0 .. L /\ Len(J(n)) \in Nat BY <1>3, <1>4, <1>8, LengthIs
  <2> HIDE DEF J
  <2>4. Len(J(n)) < L BY <1>1, <2>2, <2>3
  <2> QED BY <2>4 DEF J, W
<1> QED BY <1>9, <1>10

-------------------------------------------------------------------------------
\* What a legible and orderly image has at a place.

\* What make_full gives for an entry, from the entry's place.
FullMeans(h) ==
  /\ NameOf(h) \in Seq(Name)
  /\ \/ Full(h) = Joint(NameOf(h))
     \/ h.dir /\ NameOf(h) # <<>> /\ Full(h) = Append(Joint(NameOf(h)), "/")

Tidy(image) ==
  \A off \in ToSet(Headers(image)) :
    /\ FullMeans(image[off])
    /\ image[off].dir \/ \A other \in ToSet(Headers(image)) :
                           ~IsStrictPrefix(NameOf(image[off]), NameOf(image[other]))

LEMMA WrittenIs ==
  ASSUME NEW h \in BlockType
  PROVE  /\ Written(h) \in Seq(STRING)
         /\ Len(Written(h)) = IF h.prefix = <<>> THEN Len(h.name)
                              ELSE Len(h.prefix) + 1 + Len(h.name)
<1>1. h.prefix \in Seq(STRING) /\ h.name \in Seq(STRING) BY DEF BlockType, Text
<1>2. CASE h.prefix = <<>> BY <1>1, <1>2 DEF Written
<1>3. CASE h.prefix # <<>>
  <2> DEFINE t == h.prefix \o <<"/">> \o h.name
  <2>1. Extends(t, h.prefix, h.name) BY <1>1, SlashBetween
  <2>2. Written(h) = t BY <1>3 DEF Written
  <2> HIDE DEF t
  <2> QED BY <1>3, <2>1, <2>2 DEF Extends
<1> QED BY <1>2, <1>3

LEMMA MeaningIsNames ==
  ASSUME NEW s \in Seq(STRING) PROVE Meaning(s) \in Seq(Name)
<1> DEFINE W == Words(s, "/")
           N == Len(W)
<1>1. PICK g : MeaningBy(g, STRING, W) /\ Meaning(s) = g[N] BY MeaningFn
<1>2. W \in Seq(Name) BY WordsAreNames
<1> HIDE DEF W
<1>3. N \in Nat BY <1>2, LengthIs
<1>4. g[0] = <<>> /\ \A k \in 1 .. N : g[k] = Gone(g[k - 1], W[k]) BY <1>1 DEF MeaningBy
<1>5. ASSUME NEW k \in 1 .. N, g[k - 1] \in Seq(Name) PROVE g[k] \in Seq(Name)
  <2> DEFINE p == g[k - 1]
  <2>1. W[k] \in Name /\ p \in Seq(Name) BY <1>2, <1>5
  <2>2. g[k] = Gone(p, W[k]) BY <1>4
  <2> HIDE DEF p
  <2>3. p # <<>> => Front(p) \in Seq(Name)
    <3>1. p # <<>> => Len(p) - 1 \in 0 .. Len(p) BY <2>1
    <3> QED BY <2>1, <3>1 DEF Front
  <2>4. Append(p, W[k]) \in Seq(Name) BY <2>1
  <2> QED BY <2>1, <2>2, <2>3, <2>4 DEF Gone
<1>6. <<>> \in Seq(Name) OBVIOUS
<1> HIDE DEF N
<1>7. \A k \in 0 .. N : g[k] \in Seq(Name) BY <1>3, <1>4, <1>5, <1>6, Walking
<1> QED BY <1>1, <1>3, <1>7

\* A name that ends inside its field and buffer is not cut.
LEMMA FullIs ==
  ASSUME NEW h \in BlockType, Len(h.name) < NameField,
         Len(h.prefix) + 1 + Len(h.name) < FullMax
  PROVE  Full(h) = IF IsPrefix(<<".", "/">>, Written(h)) THEN SubSeq(Written(h), 3, Len(Written(h)))
                   ELSE Written(h)
<1>1. /\ h.prefix \in Seq(STRING) /\ h.name \in Seq(STRING)
      /\ Len(h.prefix) \in Nat /\ Len(h.name) \in Nat /\ NameField \in Nat /\ FullMax \in Nat
  BY InitrdAssumption DEF BlockType, Text
<1>2. Len(h.name) # NameField BY <1>1
<1> DEFINE full == Written(h)
           cut == SubSeq(full, 1, IF Len(full) < FullMax THEN Len(full) ELSE FullMax - 1)
<1>3. full \in Seq(STRING) /\ Len(full) < FullMax
  <2>1. Len(full) = IF h.prefix = <<>> THEN Len(h.name) ELSE Len(h.prefix) + 1 + Len(h.name)
    BY WrittenIs
  <2> HIDE DEF full
  <2>2. \A a, b, c \in Nat : a + 1 + b < c => b < c OBVIOUS
  <2>3. Len(h.name) < FullMax BY <1>1, <2>2, Zenon
  <2>4. Len(full) < FullMax BY <2>1, <2>3
  <2> QED BY <2>4, WrittenIs DEF full
<1>4. Full(h) = IF IsPrefix(<<".", "/">>, cut) THEN SubSeq(cut, 3, Len(cut)) ELSE cut
  BY <1>2 DEF Full, Written
<1> HIDE DEF full
<1>5. cut = full BY <1>3, SubSeqFull
<1> QED BY <1>4, <1>5 DEF full

\* What Legible says of the image.
LegibleIn(image) ==
  \A off \in ToSet(Headers(image)) :
    /\ Len(image[off].name) < NameField
    /\ Len(image[off].prefix) + 1 + Len(image[off].name) < FullMax
    /\ \A k \in DOMAIN NameOf(image[off]) : Len(NameOf(image[off])[k]) < PartMax

LEMMA TidyIs ==
  ASSUME NEW image \in Seq(BlockType), LegibleIn(image), Orderly(image) PROVE Tidy(image)
<1> SUFFICES ASSUME NEW off \in ToSet(Headers(image))
             PROVE  /\ FullMeans(image[off])
                    /\ image[off].dir \/ \A other \in ToSet(Headers(image)) :
                                           ~IsStrictPrefix(NameOf(image[off]), NameOf(image[other]))
  BY DEF Tidy
<1> DEFINE h == image[off]
           place == NameOf(h)
           written == Written(h)
           name == IF IsPrefix(<<".", "/">>, written) THEN SubSeq(written, 3, Len(written)) ELSE written
<1>1. h \in BlockType
  <2>1. off \in DOMAIN image BY HeadersType
  <2> QED BY <2>1
<1>2. Len(h.name) < NameField /\ Len(h.prefix) + 1 + Len(h.name) < FullMax BY DEF LegibleIn
<1>3. /\ \/ name = Joint(place)
         \/ h.dir /\ place # <<>> /\ name = Append(Joint(place), "/")
      /\ h.dir \/ \A other \in ToSet(Headers(image)) : ~IsStrictPrefix(place, NameOf(image[other]))
  BY DEF Orderly
<1> HIDE DEF h
<1>4. Full(h) = name BY <1>1, <1>2, FullIs
<1>5. place \in Seq(Name) BY <1>1, WrittenIs, MeaningIsNames DEF NameOf
<1> HIDE DEF name
<1>6. FullMeans(h) BY <1>3, <1>4, <1>5 DEF FullMeans
<1> QED BY <1>3, <1>6 DEF h

\* An entry matches the joined names of its own place only.
LEMMA MatchesIs ==
  ASSUME NEW h, FullMeans(h), NEW place \in Seq(Name), place # <<>>
  PROVE  Matches(h, Joint(place)) <=> NameOf(h) = place
<1> DEFINE full == Full(h)
           j == Joint(place)
           own == Joint(NameOf(h))
<1>1. Words(full, "/") = NameOf(h) BY JointWords DEF FullMeans
<1>2. Words(j, "/") = place /\ Words(Append(j, "/"), "/") = place BY JointWords
<1>3. Matches(h, j) <=> full = j \/ (h.dir /\ full = Append(j, "/")) BY DEF Matches
<1>4. full = own \/ (h.dir /\ full = Append(own, "/")) BY DEF FullMeans
<1> HIDE DEF full
<1>5. ASSUME NameOf(h) = place PROVE Matches(h, j) BY <1>3, <1>4, <1>5
<1> HIDE DEF j
<1>6. ASSUME Matches(h, j) PROVE NameOf(h) = place BY <1>1, <1>2, <1>3, <1>6
<1> QED BY <1>5, <1>6 DEF j

\* tar_find_exact finds the entry of the place.
LEMMA FindsEntry ==
  ASSUME NEW image \in Seq(BlockType), Tidy(image), NEW place \in Seq(Name), place # <<>>
  PROVE  FindExact(image, Joint(place)) = EntryAt(image, place)
<1> DEFINE hits == {off \in ToSet(Headers(image)) : Matches(image[off], Joint(place))}
           named == {off \in ToSet(Headers(image)) : NameOf(image[off]) = place}
<1>1. \A off \in ToSet(Headers(image)) : FullMeans(image[off]) BY DEF Tidy
<1>2. \A off \in ToSet(Headers(image)) : Matches(image[off], Joint(place)) <=> NameOf(image[off]) = place
  BY <1>1, MatchesIs
<1>3. hits = named BY <1>2
<1>4. FindExact(image, Joint(place)) = IF hits = {} THEN None ELSE First(hits) BY DEF FindExact
<1>5. EntryAt(image, place) = IF named = {} THEN None ELSE First(named) BY DEF EntryAt
<1> QED BY <1>3, <1>4, <1>5

LEMMA EntryIs ==
  ASSUME NEW image \in Seq(BlockType), NEW place
  PROVE  /\ EntryAt(image, place) = None <=>
              ~\E off \in ToSet(Headers(image)) : NameOf(image[off]) = place
         /\ EntryAt(image, place) # None =>
              /\ EntryAt(image, place) \in ToSet(Headers(image))
              /\ EntryAt(image, place) \in DOMAIN image
              /\ NameOf(image[EntryAt(image, place)]) = place
<1> DEFINE named == {off \in ToSet(Headers(image)) : NameOf(image[off]) = place}
<1>1. EntryAt(image, place) = IF named = {} THEN None ELSE First(named) BY DEF EntryAt
<1>2. ToSet(Headers(image)) \subseteq DOMAIN image BY HeadersType
<1>3. named \subseteq Nat
  <2>1. DOMAIN image \subseteq Nat OBVIOUS
  <2> QED BY <1>2, <2>1
<1>4. ASSUME named # {} PROVE First(named) \in named
  <2> HIDE DEF named
  <2>1. \E off \in named : \A other \in named : off <= other BY <1>3, <1>4, LeastNumber
  <2> QED BY <2>1 DEF First
<1>5. None \notin Nat BY NullAssumption
<1> HIDE DEF named
<1>6. EntryAt(image, place) = None <=> named = {} BY <1>1, <1>3, <1>4, <1>5
<1> QED BY <1>1, <1>2, <1>4, <1>6 DEF named

\* Where a sequence of names is a prefix of another, its joint is the joint of the first
\* names of the other.
LEMMA PrefixTaken ==
  ASSUME NEW S, NEW s \in Seq(S), NEW t \in Seq(S), IsPrefix(s, t)
  PROVE  Len(s) \in 0 .. Len(t) /\ SubSeq(t, 1, Len(s)) = s
<1>1. Len(s) \in Nat /\ Len(t) \in Nat /\ SubSeq(s, 1, Len(s)) = s BY SubSeqFull
<1> QED BY <1>1 DEF IsPrefix

\* What lies in a directory has its next name behind the directory's joint.
LEMMA StrictHas ==
  ASSUME NEW h, FullMeans(h), NEW place \in Seq(Name), IsStrictPrefix(place, NameOf(h))
  PROVE  /\ Full(h) \in Seq(STRING) /\ NameOf(h)[Len(place) + 1] \in Name
         /\ Len(place) + 1 \in DOMAIN NameOf(h)
         /\ Has(Full(h), Joint(place), NameOf(h)[Len(place) + 1])
<1> DEFINE full == Full(h)
           own == NameOf(h)
           o == Joint(own)
           m == Len(place)
           k == m + 1
<1>1. own \in Seq(Name) /\ (full = o \/ full = Append(o, "/")) BY DEF FullMeans
<1>2. IsPrefix(place, own) /\ place # own BY DEF IsStrictPrefix
<1> HIDE DEF full, own
<1>3. "/" \in STRING /\ o \in Seq(STRING) BY <1>1, JointWords, Characters
<1>4. m \in 0 .. Len(own) /\ SubSeq(own, 1, m) = place BY <1>1, <1>2, PrefixTaken
<1>5. SubSeq(own, 1, Len(own)) = own BY <1>1, SubSeqFull
<1>6. m # Len(own) BY <1>2, <1>4, <1>5
<1>7. Len(own) \in Nat /\ m \in Nat BY <1>1
<1>8. k \in 1 .. Len(own) /\ Len(own) \in k .. Len(own) /\ k - 1 = m BY <1>4, <1>6, <1>7
<1>a. k \in DOMAIN own BY <1>1, <1>8
<1> HIDE DEF k, m
<1>9. Has(Joint(SubSeq(own, 1, Len(own))), Joint(SubSeq(own, 1, k - 1)), own[k])
  BY <1>1, <1>8, JointHas
<1>10. Has(o, Joint(place), own[k]) BY <1>4, <1>5, <1>8, <1>9
<1>11. own[k] \in Name /\ Joint(place) \in Seq(STRING) BY <1>1, <1>8, JointWords
<1> HIDE DEF o
<1>12. full \in Seq(STRING) BY <1>1, <1>3, AppendProperties
<1>13. GoesBeyond(full, o)
  <2>1. Len(o) \in Nat BY <1>3
  <2>2. GoesBeyond(o, o) BY <1>3, <2>1 DEF GoesBeyond
  <2> DEFINE t == Append(o, "/")
  <2>3. /\ t \in Seq(STRING) /\ Len(t) = Len(o) + 1 /\ t[Len(o) + 1] = "/"
        /\ \A i \in 1 .. Len(o) : t[i] = o[i]
    BY <1>3, AppendProperties
  <2> HIDE DEF t
  <2>4. Len(o) <= Len(t) BY <2>1, <2>3
  <2>5. GoesBeyond(t, o) BY <2>3, <2>4 DEF GoesBeyond
  <2> QED BY <1>1, <2>2, <2>5 DEF t
<1>14. Has(full, Joint(place), own[k]) BY <1>3, <1>10, <1>11, <1>13, HasBeyond
<1> QED BY <1>a, <1>11, <1>12, <1>14 DEF full, own, k, m

\* A directory's joint and a slash begin the name of what lies in it, and of nothing else.
LEMMA SlashBegins ==
  ASSUME NEW h, FullMeans(h), NEW place \in Seq(Name), place # <<>>
  PROVE  /\ IsPrefix(Append(Joint(place), "/"), Full(h)) => IsPrefix(place, NameOf(h))
         /\ IsStrictPrefix(place, NameOf(h)) => IsPrefix(Append(Joint(place), "/"), Full(h))
<1> DEFINE full == Full(h)
           own == NameOf(h)
           j == Joint(place)
           js == Append(j, "/")
           n == Len(j) + 1
<1>1. Words(full, "/") = own /\ full \in Seq(STRING) /\ own \in Seq(Name)
  <2>1. own \in Seq(Name) /\ (full = Joint(own) \/ full = Append(Joint(own), "/"))
    BY DEF FullMeans
  <2> HIDE DEF full, own
  <2>2. Joint(own) \in Seq(STRING) /\ Append(Joint(own), "/") \in Seq(STRING)
    BY <2>1, JointWords, Characters, AppendProperties
  <2> QED BY <2>1, <2>2, JointWords
<1>2. Words(js, "/") = place /\ j \in Seq(STRING) BY JointWords
<1>3. j # <<>>
  <2>1. Len(place) \in 0 .. Len(place) /\ Len(place) # 0 /\ SubSeq(place, 1, Len(place)) = place
    BY SubSeqFull
  <2> QED BY <2>1, JointEmpty
<1> HIDE DEF j
<1>4. "/" \in STRING BY Characters
<1>5. /\ js \in Seq(STRING) /\ Len(js) = n /\ js[n] = "/" /\ \A k \in 1 .. Len(j) : js[k] = j[k]
      /\ Len(j) \in Nat
  BY <1>2, <1>4, AppendProperties
<1> HIDE DEF full, js
<1>6. ASSUME IsPrefix(js, full) PROVE IsPrefix(place, own)
  <2>1. n \in 0 .. Len(full) /\ SubSeq(full, 1, n) = js BY <1>1, <1>5, <1>6, PrefixTaken
  <2>2. n \in 1 .. Len(full) BY <1>5, <2>1
  <2>3. full[n] = "/"
    <3>1. n \in 1 .. n BY <2>2
    <3>2. SubSeq(full, 1, n)[n] = full[n] BY <1>1, <2>2
    <3> QED BY <1>5, <2>1, <3>2
  <2> HIDE DEF n
  <2>4. Keeps(Words(SubSeq(full, 1, n), "/"), Words(full, "/"), FALSE)
    BY <1>1, <2>2, <2>3, WordsBehind
  <2>5. Keeps(place, own, FALSE) BY <1>1, <1>2, <2>1, <2>4
  <2> HIDE DEF own
  <2>6. Holds(own, 1, place)
    <3>1. Len(place) <= Len(own) /\ \A k \in 1 .. Len(place) : own[k] = place[k]
      BY <2>5 DEF Keeps
    <3>2. Len(place) \in Nat /\ Len(own) \in Nat BY <1>1
    <3>3. \A k \in 1 .. Len(place) : 1 + k - 1 = k OBVIOUS
    <3>4. 1 + Len(place) <= Len(own) + 1 BY <3>1, <3>2
    <3> QED BY <3>1, <3>3, <3>4 DEF Holds
  <2> QED BY <1>1, <2>6, PrefixIs
<1>7. ASSUME IsStrictPrefix(place, own) PROVE IsPrefix(js, full)
  <2> DEFINE w == own[Len(place) + 1]
  <2>1. w \in Name /\ Has(full, j, w) BY <1>7, StrictHas DEF full, own, j
  <2> HIDE DEF w
  <2>2. Holds(full, 1, j) /\ full[n] = "/" /\ Component(full, Len(j) + 2, w)
    BY <1>3, <2>1 DEF Has
  <2>3. 1 + n <= Len(full) + 1
    <3>1. Len(j) + 2 + Len(w) <= Len(full) + 1 BY <2>2 DEF Component, Holds
    <3>2. Len(w) \in Nat /\ Len(full) \in Nat BY <1>1, <2>1, NameIs, LengthIs
    <3>3. \A a, b, c \in Nat : a + 2 + b <= c + 1 => 1 + (a + 1) <= c + 1 OBVIOUS
    <3> QED BY <1>5, <3>1, <3>2, <3>3, Zenon DEF n
  <2>4. Holds(full, 1, js)
    <3>1. \A i \in 1 .. n : i \in 1 .. Len(j) \/ i = n BY <1>5
    <3>2. \A i \in 1 .. Len(j) : full[1 + i - 1] = j[i] BY <2>2 DEF Holds
    <3>3. \A i \in 1 .. n : 1 + i - 1 = i BY <1>5
    <3> HIDE DEF n
    <3>4. \A i \in 1 .. n : full[1 + i - 1] = js[i] BY <1>5, <2>2, <3>1, <3>2, <3>3
    <3> QED BY <1>5, <2>3, <3>4 DEF Holds
  <2> QED BY <1>1, <1>5, <2>4, PrefixIs
<1> QED BY <1>6, <1>7 DEF full, own, js, j

LEMMA JointAppend ==
  ASSUME NEW place \in Seq(Name), NEW w \in Name
  PROVE  /\ Append(place, w) \in Seq(Name) /\ Append(place, w) # <<>>
         /\ Joint(Append(place, w)) =
              IF Joint(place) = <<>> THEN w ELSE Joint(place) \o <<"/">> \o w
<1> DEFINE p == Append(place, w)
           n == Len(place) + 1
<1>1. /\ p \in Seq(Name) /\ Len(p) = n /\ p[n] = w /\ \A k \in 1 .. Len(place) : p[k] = place[k]
      /\ Len(place) \in Nat
  BY AppendProperties
<1> HIDE DEF p
<1>2. n \in 1 .. Len(p) /\ n - 1 = Len(place) /\ n - 1 \in 0 .. Len(p) BY <1>1
<1>3. SubSeq(p, 1, n) = p BY <1>1, SubSeqFull
<1>4. SubSeq(p, 1, n - 1) = place
  <2> DEFINE v == SubSeq(p, 1, n - 1)
  <2>1. v \in Seq(Name) /\ Len(v) = n - 1 /\ \A k \in 1 .. n - 1 : v[k] = p[k] BY <1>1, <1>2
  <2> HIDE DEF v
  <2>2. Len(v) = Len(place) /\ \A k \in 1 .. Len(v) : v[k] = place[k] BY <1>1, <1>2, <2>1
  <2> QED BY <2>1, <2>2, SeqEqual DEF v
<1>5. JointStep(p) BY <1>1, NamesAreTexts, JointNext
<1>6. Joint(p) = IF n = 1 THEN p[1] ELSE Joint(place) \o <<"/">> \o p[n]
  BY <1>2, <1>3, <1>4, <1>5 DEF JointStep
<1>7. Joint(place) = <<>> <=> n = 1
  <2>1. Joint(SubSeq(p, 1, n - 1)) = <<>> <=> n - 1 = 0 BY <1>1, <1>2, JointEmpty
  <2>2. n - 1 = 0 <=> n = 1 BY <1>1
  <2> QED BY <1>4, <2>1, <2>2
<1>8. p # <<>>
  <2>1. Len(p) # 0 BY <1>1
  <2> QED BY <1>1, <2>1
<1>9. n = 1 => p[1] = w BY <1>1
<1> HIDE DEF n
<1>10. Joint(p) = IF Joint(place) = <<>> THEN w ELSE Joint(place) \o <<"/">> \o w
  BY <1>1, <1>6, <1>7, <1>9
<1> QED BY <1>1, <1>8, <1>10 DEF p

\* A vnode is what the image has at the place; there is none if there is nothing there or
\* the heap is out.
Found(image, place, node, m) ==
  /\ node # None =>
       IF node.dir THEN IsDir(image, place) /\ PrefixOf(m, node) = Joint(place)
                   ELSE IsFile(image, place) /\ node.at = EntryAt(image, place)
  /\ node = None => m.left < VnodeSize \/ ~(IsDir(image, place) \/ IsFile(image, place))

LEMMA MakeDirGives ==
  ASSUME NEW m \in MemType, NEW p \in Seq(STRING), Len(p) < PartMax
  PROVE  LET s == MakeDir(m, p)
         IN  IF m.left < VnodeSize THEN s.node = None /\ s.mem.left < VnodeSize
             ELSE s.node # None /\ s.node.dir /\ PrefixOf(s.mem, s.node) = p
<1> DEFINE s == MakeDir(m, p)
           left == Free(m, VnodeSize)
           own == left >= DirDataSize
           prefix == SubSeq(p, 1, IF Len(p) < PartMax THEN Len(p) ELSE PartMax - 1)
           node == DirAt(IF own THEN prefix ELSE <<>>, own)
           rest == [left |-> IF own THEN left - DirDataSize ELSE left,
                    zero |-> IF own THEN m.zero ELSE prefix]
<1>1. prefix = p BY SubSeqFull
<1> HIDE DEF prefix
<1>2. s = IF m.left < VnodeSize
            THEN [node |-> None, mem |-> [m EXCEPT !.zero = <<Garbage>>]]
            ELSE [node |-> node, mem |-> rest]
  BY DEF MakeDir, prefix
<1> HIDE DEF left
<1>3. CASE m.left < VnodeSize
  <2>1. s = [node |-> None, mem |-> [m EXCEPT !.zero = <<Garbage>>]] BY <1>2, <1>3
  <2> HIDE DEF s
  <2>2. \A z : [m EXCEPT !.zero = z].left = m.left BY DEF MemType
  <2>3. s.node = None /\ s.mem = [m EXCEPT !.zero = <<Garbage>>] BY <2>1
  <2>4. s.mem.left < VnodeSize BY <1>3, <2>2, <2>3
  <2> QED BY <1>3, <2>3, <2>4 DEF s
<1>4. CASE ~(m.left < VnodeSize)
  <2>1. s = [node |-> node, mem |-> rest] BY <1>2, <1>4
  <2>2. s.node = node /\ s.mem = rest BY <2>1
  <2>3. node.dir /\ node.own = own /\ (own => node.prefix = p) /\ (~own => rest.zero = p)
    BY <1>1 DEF DirAt
  <2>4. own \in BOOLEAN OBVIOUS
  <2>5. node # None
    <3>1. (IF own THEN prefix ELSE <<>>) \in Seq(STRING \union {Garbage})
      <4>1. p \in Seq(STRING \union {Garbage}) BY SeqMonotonic
      <4>2. <<>> \in Seq(STRING \union {Garbage}) OBVIOUS
      <4> QED BY <1>1, <4>1, <4>2
    <3> DEFINE x == IF own THEN prefix ELSE <<>>
    <3>2. x \in Seq(STRING \union {Garbage}) /\ TRUE \in BOOLEAN /\ 0 \in Nat BY <3>1
    <3> HIDE DEF x, own
    <3>3. [dir |-> TRUE, prefix |-> x, own |-> own, at |-> 0]
            \in [dir : BOOLEAN, prefix : Seq(STRING \union {Garbage}), own : BOOLEAN, at : Nat]
      BY <2>4, <3>2
    <3>4. node \in [dir : BOOLEAN, prefix : Seq(STRING \union {Garbage}), own : BOOLEAN, at : Nat]
      BY <3>3 DEF DirAt, x, own
    <3> HIDE DEF node
    <3> QED BY <3>4, NullAssumption
  <2> HIDE DEF node, rest, own, s
  <2>6. PrefixOf(rest, node) = p BY <2>3 DEF PrefixOf
  <2>7. s.node # None /\ s.node.dir /\ PrefixOf(s.mem, s.node) = p BY <2>2, <2>3, <2>5, <2>6
  <2> QED BY <1>4, <2>7 DEF s
<1> QED BY <1>3, <1>4

LEMMA MakeFileGives ==
  ASSUME NEW m \in MemType, NEW off \in Nat
  PROVE  LET s == MakeFile(m, off)
         IN  IF m.left < VnodeSize THEN s.node = None /\ s.mem.left < VnodeSize
             ELSE s.node # None /\ ~s.node.dir /\ s.node.at = off
<1> DEFINE s == MakeFile(m, off)
<1>1. CASE m.left < VnodeSize
  <2>1. s = [node |-> None, mem |-> [m EXCEPT !.zero = <<Garbage>>]] BY <1>1 DEF MakeFile
  <2>2. s.node = None /\ s.mem.left = m.left BY <2>1 DEF MemType
  <2> HIDE DEF s
  <2>3. s.mem.left < VnodeSize BY <1>1, <2>2
  <2> QED BY <1>1, <2>2, <2>3 DEF s
<1>2. CASE ~(m.left < VnodeSize)
  <2>1. s.node = FileAt(off) BY <1>2 DEF MakeFile
  <2> HIDE DEF s
  <2>2. ~FileAt(off).dir /\ FileAt(off).at = off BY DEF FileAt
  <2>3. FileAt(off) \in [dir : BOOLEAN, prefix : Seq(STRING \union {Garbage}), own : BOOLEAN, at : Nat]
    BY DEF FileAt
  <2>4. FileAt(off) # None BY <2>3, NullAssumption
  <2>5. s.node # None /\ ~s.node.dir /\ s.node.at = off BY <2>1, <2>2, <2>4
  <2> QED BY <1>2, <2>5 DEF s
<1> QED BY <1>1, <1>2

\* Both scans of initrd_lookup together, for a place below the root.
LEMMA ScansFind ==
  ASSUME NEW image \in Seq(BlockType), Tidy(image), NEW place \in Seq(Name), place # <<>>
  PROVE  LET off == FindExact(image, Joint(place))
         IN  IF off # None
               THEN /\ off \in DOMAIN image /\ off = EntryAt(image, place)
                    /\ image[off].dir => IsDir(image, place)
                    /\ ~image[off].dir => IsFile(image, place)
             ELSE /\ ~IsFile(image, place)
                  /\ IsDir(image, place) <=>
                       \E k \in ToSet(Headers(image)) :
                         IsPrefix(Append(Joint(place), "/"), Full(image[k]))
<1> DEFINE off == FindExact(image, Joint(place))
           H == ToSet(Headers(image))
           e == EntryAt(image, place)
<1>1. off = e BY FindsEntry
<1>2. IsFile(image, place) <=> e # None /\ ~image[e].dir BY DEF IsFile
<1>3. IsDir(image, place) <=>
        ~IsFile(image, place) /\ \E k \in H : IsPrefix(place, NameOf(image[k]))
  BY DEF IsDir
<1>4. /\ e = None <=> ~\E k \in H : NameOf(image[k]) = place
      /\ e # None => e \in H /\ e \in DOMAIN image /\ NameOf(image[e]) = place
  BY EntryIs
<1>5. \A k \in H : FullMeans(image[k]) BY DEF Tidy
<1>6. \A k \in H :
        /\ IsPrefix(Append(Joint(place), "/"), Full(image[k])) => IsPrefix(place, NameOf(image[k]))
        /\ IsStrictPrefix(place, NameOf(image[k])) =>
             IsPrefix(Append(Joint(place), "/"), Full(image[k]))
  BY <1>5, SlashBegins
<1>7. IsPrefix(place, place)
  <2>1. Len(place) \in 0 .. Len(place) /\ Len(place) \in Nat OBVIOUS
  <2>2. Holds(place, 1, place)
    <3>1. \A k \in 1 .. Len(place) : 1 + k - 1 = k OBVIOUS
    <3>2. 1 + Len(place) <= Len(place) + 1 BY <2>1
    <3> QED BY <3>1, <3>2 DEF Holds
  <2> QED BY <2>2, PrefixIs
<1> HIDE DEF off, H, e
<1>8. CASE off # None
  <2>1. off \in DOMAIN image /\ off = e /\ off # None BY <1>1, <1>4, <1>8
  <2>2. image[off].dir => IsDir(image, place)
    <3>1. e \in H /\ NameOf(image[e]) = place BY <1>4, <2>1
    <3>2. \E k \in H : IsPrefix(place, NameOf(image[k])) BY <1>7, <3>1
    <3> QED BY <1>2, <1>3, <2>1, <3>2
  <2>3. ~image[off].dir => IsFile(image, place) BY <1>2, <2>1
  <2> QED BY <1>8, <2>1, <2>2, <2>3 DEF off, e
<1>9. CASE off = None
  <2>1. e = None /\ ~IsFile(image, place) BY <1>1, <1>2, <1>9
  <2>2. \A k \in H : IsPrefix(place, NameOf(image[k])) => IsStrictPrefix(place, NameOf(image[k]))
    BY <1>4, <2>1 DEF IsStrictPrefix
  <2>3. IsDir(image, place) <=>
          \E k \in H : IsPrefix(Append(Joint(place), "/"), Full(image[k]))
    BY <1>3, <1>6, <2>1, <2>2
  <2> QED BY <1>9, <2>1, <2>3 DEF off, H
<1> QED BY <1>8, <1>9

\* initrd_lookup finds what the image has under that name in the directory.
LEMMA LookupFinds ==
  ASSUME NEW image \in Seq(BlockType), Tidy(image), NEW m \in MemType, NEW dir,
         NEW place \in Seq(Name), NEW w \in Name, w \notin Dots,
         PrefixOf(m, dir) = Joint(place), Len(Joint(Append(place, w))) < PartMax
  PROVE  LET s == Lookup(image, m, dir, w)
         IN  Found(image, Append(place, w), s.node, s.mem)
<1> DEFINE p == Append(place, w)
           j == Joint(p)
           s == Lookup(image, m, dir, w)
           prefix == PrefixOf(m, dir)
           way == IF prefix = <<>> THEN w ELSE prefix \o <<"/">> \o w
           target == SubSeq(way, 1, IF Len(way) < FullMax THEN Len(way) ELSE FullMax - 1)
           off == FindExact(image, target)
           implied == \E k \in ToSet(Headers(image)) :
                        IsPrefix(Append(target, "/"), Full(image[k]))
<1>1. p \in Seq(Name) /\ p # <<>> /\ j = way BY JointAppend
<1>2. j \in Seq(STRING) BY <1>1, JointWords
<1>3. Len(j) < FullMax
  <2>1. Len(j) < PartMax /\ PartMax <= FullMax /\ PartMax \in Nat /\ FullMax \in Nat
    BY PathsAssumption, InitrdAssumption
  <2> HIDE DEF j
  <2>2. Len(j) \in Nat BY <1>2
  <2> QED BY <2>1, <2>2
<1>4. s = IF w \in Dots THEN [node |-> dir, mem |-> m]
          ELSE IF off # None THEN IF image[off].dir THEN MakeDir(m, target) ELSE MakeFile(m, off)
          ELSE IF implied THEN MakeDir(m, target)
          ELSE [node |-> None, mem |-> m]
  BY DEF Lookup, Dots
<1> HIDE DEF p, way
<1>5. target = j
  <2> HIDE DEF j
  <2>1. target = SubSeq(j, 1, Len(j)) BY <1>1, <1>3
  <2> QED BY <1>2, <2>1, SubSeqFull
<1> HIDE DEF target
<1>6. IF off # None
        THEN /\ off \in DOMAIN image /\ off = EntryAt(image, p)
             /\ image[off].dir => IsDir(image, p)
             /\ ~image[off].dir => IsFile(image, p)
      ELSE ~IsFile(image, p) /\ (IsDir(image, p) <=> implied)
  BY <1>1, <1>5, ScansFind
<1>7. Len(j) < PartMax BY DEF p
<1> HIDE DEF j, off, implied
<1> DEFINE d == MakeDir(m, j)
<1>8. IF m.left < VnodeSize THEN d.node = None /\ d.mem.left < VnodeSize
      ELSE d.node # None /\ d.node.dir /\ PrefixOf(d.mem, d.node) = j
  BY <1>2, <1>7, MakeDirGives
<1> HIDE DEF d
<1>9. IsDir(image, p) => Found(image, p, d.node, d.mem) BY <1>8 DEF Found, j
<1>10. CASE off # None /\ image[off].dir
  <2>1. s = d BY <1>4, <1>5, <1>10 DEF d
  <2> QED BY <1>6, <1>9, <1>10, <2>1 DEF p, s
<1>11. CASE off # None /\ ~image[off].dir
  <2> DEFINE f == MakeFile(m, off)
  <2>1. s = f BY <1>4, <1>11
  <2>2. off \in Nat
    <3>1. off \in DOMAIN image BY <1>6, <1>11
    <3> QED BY <3>1
  <2>3. IF m.left < VnodeSize THEN f.node = None /\ f.mem.left < VnodeSize
        ELSE f.node # None /\ ~f.node.dir /\ f.node.at = off
    BY <2>2, MakeFileGives
  <2> HIDE DEF f
  <2>4. Found(image, p, f.node, f.mem) BY <1>6, <1>11, <2>3 DEF Found
  <2> QED BY <2>1, <2>4 DEF p, s
<1>12. CASE off = None /\ implied
  <2>1. s = d BY <1>4, <1>5, <1>12 DEF d
  <2> QED BY <1>6, <1>9, <1>12, <2>1 DEF p, s
<1>13. CASE off = None /\ ~implied
  <2>1. s = [node |-> None, mem |-> m] BY <1>4, <1>13
  <2>2. Found(image, p, None, m) BY <1>6, <1>13 DEF Found
  <2> QED BY <2>1, <2>2 DEF p, s
<1> QED BY <1>10, <1>11, <1>12, <1>13

\* What lies in a directory shows that there is one.
LEMMA HeldSomewhere ==
  ASSUME NEW image \in Seq(BlockType), Tidy(image), NEW place \in Seq(Name), NEW w \in Name,
         IsDir(image, Append(place, w)) \/ IsFile(image, Append(place, w))
  PROVE  IsDir(image, place) /\ ~IsFile(image, place)
<1> DEFINE p == Append(place, w)
           H == ToSet(Headers(image))
<1>1. /\ p \in Seq(Name) /\ Len(p) = Len(place) + 1 /\ \A k \in 1 .. Len(place) : p[k] = place[k]
      /\ Len(place) \in Nat
  BY AppendProperties
<1>a. p # <<>> BY JointAppend
<1> HIDE DEF p
<1>2. IsPrefix(p, p) /\ \A t \in Seq(Name) : IsPrefix(p, t) => IsStrictPrefix(place, t)
  <2>1. Holds(p, 1, p)
    <3>1. \A k \in 1 .. Len(p) : 1 + k - 1 = k OBVIOUS
    <3>2. 1 + Len(p) <= Len(p) + 1 BY <1>1
    <3> QED BY <3>1, <3>2 DEF Holds
  <2>2. ASSUME NEW t \in Seq(Name), IsPrefix(p, t) PROVE IsStrictPrefix(place, t)
    <3>1. Holds(t, 1, p) BY <1>1, <2>2, PrefixIs
    <3>2. 1 + Len(p) <= Len(t) + 1 /\ \A k \in 1 .. Len(p) : t[1 + k - 1] = p[k]
      BY <3>1 DEF Holds
    <3>3. Len(t) \in Nat /\ Len(place) < Len(t) BY <1>1, <3>2
    <3>4. \A k \in 1 .. Len(place) : t[1 + k - 1] = place[k]
      <4>1. \A k \in 1 .. Len(place) : k \in 1 .. Len(p) BY <1>1
      <4> QED BY <1>1, <3>2, <4>1
    <3>5. Holds(t, 1, place)
      <4>1. 1 + Len(place) <= Len(t) + 1 BY <1>1, <3>3
      <4> QED BY <3>4, <4>1 DEF Holds
    <3>6. place # t BY <1>1, <3>3
    <3>7. IsPrefix(place, t) BY <3>5, PrefixIs
    <3> QED BY <3>6, <3>7 DEF IsStrictPrefix
  <2> QED BY <1>1, <2>1, <2>2, PrefixIs
<1>3. PICK off \in H : IsPrefix(p, NameOf(image[off]))
  <2>1. CASE IsDir(image, p) BY <1>a, <2>1 DEF IsDir
  <2>2. CASE IsFile(image, p)
    <3> DEFINE e == EntryAt(image, p)
    <3>1. e # None BY <2>2 DEF IsFile
    <3>2. e \in H /\ NameOf(image[e]) = p BY <3>1, EntryIs
    <3> HIDE DEF H
    <3> QED BY <1>2, <3>2
  <2> QED BY <2>1, <2>2 DEF p
<1>4. NameOf(image[off]) \in Seq(Name) BY DEF Tidy, FullMeans
<1>5. IsStrictPrefix(place, NameOf(image[off])) BY <1>2, <1>3, <1>4
<1>6. ~IsFile(image, place)
  <2> DEFINE e == EntryAt(image, place)
  <2>1. SUFFICES ASSUME e # None PROVE image[e].dir BY DEF IsFile
  <2>2. e \in H /\ NameOf(image[e]) = place BY <2>1, EntryIs
  <2> HIDE DEF e
  <2> QED BY <1>5, <2>2 DEF Tidy
<1>7. IsDir(image, place) BY <1>5, <1>6 DEF IsDir, IsStrictPrefix
<1> QED BY <1>6, <1>7

\* One component of vfs_resolve finds one name more.
LEMMA StepFinds ==
  ASSUME NEW image \in Seq(BlockType), Tidy(image), NEW s \in ResultType(image),
         NEW place \in Seq(Name), NEW w \in Name, w \notin Dots,
         Len(Joint(Append(place, w))) < PartMax, Found(image, place, s.node, s.mem)
  PROVE  LET t == ResolveStep(image, s, w) IN Found(image, Append(place, w), t.node, t.mem)
<1> DEFINE p == Append(place, w)
           t == ResolveStep(image, s, w)
<1>1. s.mem \in MemType BY DEF ResultType
<1>2. IsDir(image, p) \/ IsFile(image, p) => IsDir(image, place) /\ ~IsFile(image, place)
  BY HeldSomewhere
<1>3. CASE s.node = None
  <2>1. t = s BY <1>3 DEF ResolveStep
  <2>2. s.mem.left < VnodeSize \/ ~(IsDir(image, p) \/ IsFile(image, p))
    BY <1>2, <1>3 DEF Found
  <2> HIDE DEF t
  <2> QED BY <1>3, <2>1, <2>2 DEF Found, t
<1>4. CASE s.node # None /\ ~s.node.dir
  <2>1. t = [s EXCEPT !.node = None] BY <1>4 DEF ResolveStep
  <2>2. t.node = None BY <2>1 DEF ResultType
  <2>3. IsFile(image, place) BY <1>4 DEF Found
  <2>4. ~(IsDir(image, p) \/ IsFile(image, p)) BY <1>2, <2>3
  <2> HIDE DEF t, p
  <2>5. Found(image, p, t.node, t.mem) BY <2>2, <2>4 DEF Found
  <2> QED BY <2>5 DEF t, p
<1>5. CASE s.node # None /\ s.node.dir
  <2> DEFINE u == Lookup(image, s.mem, s.node, w)
  <2>1. t = u BY <1>5 DEF ResolveStep
  <2>2. PrefixOf(s.mem, s.node) = Joint(place) BY <1>5 DEF Found
  <2>3. Found(image, p, u.node, u.mem) BY <1>1, <2>2, LookupFinds
  <2> HIDE DEF t, u
  <2> QED BY <2>1, <2>3 DEF t
<1> QED BY <1>3, <1>4, <1>5

\* vfs_resolve finds what the image has where a canonical path leads.
LEMMA ResolveFinds ==
  ASSUME NEW image \in Seq(BlockType), Tidy(image), NEW m \in MemType, NEW p,
         IsCanonical(p), Len(p) < PartMax
  PROVE  LET s == Resolve(image, m, p) IN Found(image, Meaning(p), s.node, s.mem)
<1> DEFINE W == Words(p, "/")
           N == Len(W)
           parts == VfsParts(p)
           J(k) == Joint(SubSeq(W, 1, k))
<1>1. p \in Seq(STRING) /\ p # <<>> /\ p[1] = "/" /\ \A k \in DOMAIN W : W[k] \notin Dots
  BY DEF IsCanonical, Text
<1>2. Meaning(p) = W BY <1>1, MeaningOfPlain
<1>3. parts = W
  <2>1. PartMax - 1 \in Nat /\ Len(p) <= PartMax - 1
    <3>1. Len(p) \in Nat /\ PartMax \in Nat \ {0} BY <1>1, PathsAssumption
    <3> QED BY <3>1
  <2>2. Nul \notin STRING /\ "/" \in STRING BY Characters
  <2> QED BY <1>1, <2>1, <2>2, SplitWords DEF VfsParts
<1>4. W \in Seq(Name) BY <1>1, WordsAreNames
<1>5. \A k \in 0 .. N : Len(J(k)) < PartMax
  <2>1. SUFFICES ASSUME NEW k \in 0 .. N PROVE Len(J(k)) < PartMax OBVIOUS
  <2>2. Len(J(k)) < Len(p) BY <1>1, JointFits
  <2>3. J(k) \in Seq(STRING) BY <1>4, JointEmpty
  <2> HIDE DEF J
  <2>4. Len(J(k)) \in Nat /\ Len(p) \in Nat /\ PartMax \in Nat BY <1>1, <2>3, PathsAssumption
  <2> QED BY <2>2, <2>4
<1>6. p \in Text BY <1>1 DEF Text
<1>7. PICK f : ResolveBy(f, image, m, parts) /\ Resolve(image, m, p) = f[Len(parts)]
  BY <1>6, ResolveFn
<1> HIDE DEF parts, W
<1>8. /\ f[0] = [node |-> Root, mem |-> m]
      /\ \A k \in 1 .. N : f[k] = ResolveStep(image, f[k - 1], W[k])
      /\ \A k \in 0 .. N : f[k] \in ResultType(image)
  BY <1>3, <1>7 DEF ResolveBy
<1> DEFINE At(k) == Found(image, SubSeq(W, 1, k), f[k].node, f[k].mem)
           S == {k \in Nat : k <= N => At(k)}
<1>9. 0 \in S
  <2>1. SubSeq(W, 1, 0) = <<>> BY <1>4, SubSeqEmpty
  <2>2. f[0].node = Root /\ f[0].mem = m BY <1>8
  <2>3. Root # None
    <3>1. <<>> \in Seq(STRING \union {Garbage}) OBVIOUS
    <3>2. Root \in [dir : BOOLEAN, prefix : Seq(STRING \union {Garbage}), own : BOOLEAN, at : Nat]
      BY <3>1 DEF Root, DirAt
    <3> QED BY <3>2, NullAssumption
  <2>4. Root.dir /\ PrefixOf(m, Root) = <<>> BY DEF Root, DirAt, PrefixOf
  <2>5. IsDir(image, <<>>) BY DEF IsDir
  <2>6. Joint(<<>>) = <<>> BY <1>4, NamesAreTexts, JointNext
  <2>7. Found(image, <<>>, Root, m) BY <2>3, <2>4, <2>5, <2>6 DEF Found
  <2> QED BY <2>1, <2>2, <2>7
<1>10. ASSUME NEW k \in Nat, k \in S PROVE k + 1 \in S
  <2> DEFINE n == k + 1
             v == SubSeq(W, 1, k)
             w == W[n]
             s == f[k]
             t == ResolveStep(image, s, w)
  <2>1. SUFFICES ASSUME n <= N PROVE At(n) OBVIOUS
  <2>a. N \in Nat BY <1>4, LengthIs
  <2>2. n \in 1 .. N /\ n \in 0 .. N /\ n - 1 = k /\ k \in 0 .. N /\ k <= N BY <2>1, <2>a
  <2>3. At(k) BY <1>10, <2>2
  <2>4. SubSeq(W, 1, n) = Append(v, w) BY <1>4, <2>2, OneMore
  <2>5. v \in Seq(Name) /\ w \in Name BY <1>4, <2>2
  <2>6. w \notin Dots
    <3>1. DOMAIN W = 1 .. N BY <1>4
    <3> QED BY <1>1, <2>2, <3>1 DEF W
  <2>7. Len(Joint(Append(v, w))) < PartMax BY <1>5, <2>2, <2>4
  <2>8. s \in ResultType(image) /\ f[n] = t BY <1>8, <2>2
  <2>9. Found(image, v, s.node, s.mem) BY <2>3
  <2> HIDE DEF v, w, s, n
  <2>10. Found(image, Append(v, w), t.node, t.mem) BY <2>5, <2>6, <2>7, <2>8, <2>9, StepFinds
  <2> QED BY <2>4, <2>8, <2>10
<1> HIDE DEF S
<1>11. Nat \subseteq S BY <1>9, <1>10, Steps
<1>12. N \in Nat /\ N <= N BY <1>4, LengthIs
<1>13. At(N) BY <1>11, <1>12 DEF S
<1>14. SubSeq(W, 1, N) = W BY <1>4, SubSeqFull
<1>15. Found(image, W, f[N].node, f[N].mem) BY <1>13, <1>14
<1> QED BY <1>2, <1>3, <1>7, <1>15 DEF W

-------------------------------------------------------------------------------
\* The places that commands lead to, in images as tar writes them.
OrderlyImages == \A image \in Images : Orderly(image)

\* What a command has found, what ls has printed, and where the shell is.
FoundInv ==
  pc \in Busy \union {"done"} /\ Legible /\ Short(path) => Found(tar, Meaning(path), found, mem)

ListInv ==
  pc = "done" /\ Command = "ls" /\ FoundDir /\ Legible /\ Short(path) =>
    names = Listing(tar, Joint(Meaning(path)))

PlaceInv == tar \in Images /\ FoundInv /\ ListInv /\ CwdIsDirectory

LEMMA PlacesInitially == Init => PlaceInv
<1> SUFFICES ASSUME Init PROVE PlaceInv OBVIOUS
<1>1. tar \in Images /\ pc = "boot" /\ cwd = <<"/">> BY DEF Init
<1>2. Meaning(<<"/">>) = <<>>
  <2>1. <<"/">> \in Seq(STRING) BY OneLong, Characters
  <2>2. Start.out = <<"/">> /\ Start \in CanonState(STRING) BY StartIs, Characters DEF Start
  <2>3. Words(<<"/">>, "/") = <<>> BY <2>2, StartIs, Characters
  <2>4. \A k \in DOMAIN Words(<<"/">>, "/") : Words(<<"/">>, "/")[k] \notin Dots BY <2>3
  <2> QED BY <2>1, <2>3, <2>4, MeaningOfPlain
<1>3. IsDir(tar, Meaning(cwd)) BY <1>1, <1>2 DEF IsDir
<1> QED BY <1>1, <1>3 DEF PlaceInv, FoundInv, ListInv, CwdIsDirectory, Busy

\* A command resolves its path.
LEMMA Resolves ==
  ASSUME OrderlyImages, PathInv, CommandInv, tar \in Images, pc = "run", Legible, Short(path)
  PROVE  LET r == Resolve(tar, mem, path) IN Found(tar, Meaning(path), r.node, r.mem)
<1>1. tar \in Seq(BlockType) /\ mem \in MemType BY DEF CommandInv
<1>2. LegibleIn(tar) BY DEF Legible, LegibleIn
<1>3. Orderly(tar) BY DEF OrderlyImages
<1>4. Tidy(tar) BY <1>1, <1>2, <1>3, TidyIs
<1>5. IsCanonical(path) /\ Len(path) < PartMax BY DEF PathInv, Short
<1> QED BY <1>1, <1>4, <1>5, ResolveFinds

\* A step that has found nothing yet.
LEMMA PlacesApart ==
  ASSUME PlaceInv, pc' \in {"boot", "prompt", "run"}, UNCHANGED <<tar, cwd>>
  PROVE  PlaceInv'
<1>1. Legible' <=> Legible BY DEF Legible
<1>2. CwdIsDirectory' BY <1>1 DEF PlaceInv, CwdIsDirectory
<1> QED BY <1>2 DEF PlaceInv, FoundInv, ListInv, Busy

\* A step that resolves the command's path.
LEMMA PlacesResolve ==
  ASSUME OrderlyImages, PathInv, CommandInv, PlaceInv, Cd \/ Ls \/ Open PROVE PlaceInv'
<1> DEFINE r == Resolve(tar, mem, path)
<1>1. pc = "run" /\ UNCHANGED <<tar, line, path>> /\ found' = r.node /\ mem' = r.mem
  BY DEF Cd, Ls, Open
<1>2. /\ Legible' <=> Legible
      /\ Command' = Command
  BY <1>1 DEF Legible, Command
<1>3. tar \in Images /\ CwdIsDirectory BY DEF PlaceInv
<1>4. Legible /\ Short(path) => Found(tar, Meaning(path), r.node, r.mem)
  BY <1>1, <1>3, Resolves
<1> HIDE DEF r
<1>5. FoundInv' BY <1>1, <1>2, <1>4 DEF FoundInv
<1>6. ListInv'
  <2>1. SUFFICES ASSUME Command = "ls", FoundDir', Legible, Short(path)
                 PROVE  names' = Listing(tar, Joint(Meaning(path)))
    BY <1>1, <1>2 DEF ListInv
  <2>2. r.node # None /\ r.node.dir BY <1>1, <2>1 DEF FoundDir
  <2>3. Ls BY <2>1 DEF Cd, Open
  <2>4. names' = Listing(tar, PrefixOf(r.mem, r.node)) BY <2>2, <2>3 DEF Ls, r
  <2>5. PrefixOf(r.mem, r.node) = Joint(Meaning(path)) BY <1>4, <2>1, <2>2 DEF Found
  <2> QED BY <2>4, <2>5
<1>7. CwdIsDirectory'
  <2>1. SUFFICES ASSUME Legible, Short(cwd') PROVE IsDir(tar, Meaning(cwd'))
    BY <1>1, <1>2 DEF CwdIsDirectory
  <2>2. cwd' = cwd \/ (r.node # None /\ r.node.dir /\ cwd' = path) BY DEF Cd, Ls, Open, r
  <2>3. CASE cwd' = cwd BY <1>3, <2>1, <2>3 DEF CwdIsDirectory
  <2>4. CASE r.node # None /\ r.node.dir /\ cwd' = path
    <3>1. Found(tar, Meaning(path), r.node, r.mem) BY <1>4, <2>1, <2>4
    <3> QED BY <2>4, <3>1 DEF Found
  <2> QED BY <2>2, <2>3, <2>4
<1> QED BY <1>1, <1>3, <1>5, <1>6, <1>7 DEF PlaceInv

\* A step of a command that reads.
LEMMA PlacesRead ==
  ASSUME CommandInv, PlaceInv, Reading PROVE PlaceInv'
<1>1. pc \in Busy /\ UNCHANGED <<tar, cwd, line, path, found>>
  BY DEF Reading, ReadCat, ReadHex, ReadHeader, Slurp, Close, Busy, command
<1>2. /\ Legible' <=> Legible
      /\ Command' = Command
  BY <1>1 DEF Legible, Command
<1>3. found # None /\ mem \in MemType /\ Command \in {"cat", "hexdump", "exec"}
  BY <1>1 DEF CommandInv
<1>4. mem'.zero = mem.zero
  <2>1. mem' = mem \/ \E left : mem' = [mem EXCEPT !.left = left]
    BY DEF Reading, ReadCat, ReadHex, ReadHeader, Slurp, Close
  <2> QED BY <1>3, <2>1 DEF MemType
<1>5. FoundInv'
  <2>1. SUFFICES ASSUME Legible, Short(path) PROVE Found(tar, Meaning(path), found, mem')
    BY <1>1, <1>2 DEF FoundInv
  <2>2. Found(tar, Meaning(path), found, mem) BY <1>1, <2>1 DEF PlaceInv, FoundInv
  <2>3. PrefixOf(mem', found) = PrefixOf(mem, found) BY <1>4 DEF PrefixOf
  <2> QED BY <1>3, <2>2, <2>3 DEF Found
<1>6. ListInv' BY <1>2, <1>3 DEF ListInv
<1>7. CwdIsDirectory' BY <1>1, <1>2 DEF PlaceInv, CwdIsDirectory
<1> QED BY <1>1, <1>5, <1>6, <1>7 DEF PlaceInv

LEMMA PlacesPreserved ==
  ASSUME OrderlyImages PROVE PathInv /\ CommandInv /\ PlaceInv /\ [Next]_vars => PlaceInv'
<1> SUFFICES ASSUME PathInv, CommandInv, PlaceInv, [Next]_vars PROVE PlaceInv' OBVIOUS
<1>1. CASE \E c \in Conversions : Message(c)
  <2>1. pc' = "boot" /\ UNCHANGED <<tar, cwd>> BY <1>1 DEF Message
  <2> QED BY <2>1, PlacesApart
<1>2. CASE \E l \in Lines : OnLine(l)
  <2>1. pc' = "run" /\ UNCHANGED <<tar, cwd>> BY <1>2 DEF OnLine
  <2> QED BY <2>1, PlacesApart
<1>3. CASE \E l \in Lines : Alloc(l)
  <2>1. pc' = "prompt" /\ UNCHANGED <<tar, cwd>> BY <1>3 DEF Alloc
  <2> QED BY <2>1, PlacesApart
<1>4. CASE Prompt
  <2>1. pc' = "prompt" /\ UNCHANGED <<tar, cwd>> BY <1>4 DEF Prompt
  <2> QED BY <2>1, PlacesApart
<1>5. CASE Cd \/ Ls \/ Open BY <1>5, PlacesResolve
<1>6. CASE Reading BY <1>6, PlacesRead
<1>7. CASE UNCHANGED vars
  <2>1. UNCHANGED <<pc, tar, mem, cwd, line, path, found, names>> BY <1>7 DEF vars, command
  <2>2. /\ Legible' <=> Legible
        /\ Command' = Command
        /\ FoundDir' <=> FoundDir
    BY <2>1 DEF Legible, Command, FoundDir
  <2>3. (FoundInv <=> FoundInv') /\ (ListInv <=> ListInv') /\ (CwdIsDirectory <=> CwdIsDirectory')
    BY <2>1, <2>2 DEF FoundInv, ListInv, CwdIsDirectory
  <2> QED BY <2>1, <2>3 DEF PlaceInv
<1> QED BY <1>1, <1>2, <1>3, <1>4, <1>5, <1>6, <1>7 DEF Next

LEMMA PlacesAlways == ASSUME OrderlyImages PROVE Spec => []PlaceInv
<1>1. PathInv /\ CommandInv /\ PlaceInv /\ [Next]_vars => PlaceInv' BY PlacesPreserved
<1>2. Init => PlaceInv BY PlacesInitially
<1> QED BY <1>1, <1>2, CommandAlways, PTL DEF Spec

\* What vfs_resolve finds is what the image has at that place, a file or a directory, and it
\* finds it if it is there unless the heap is out: for any image as tar writes them.
THEOREM PathsFound ==
  ASSUME \A image \in Images : Orderly(image) PROVE Spec => []ResolveMeans
<1>1. CommandInv /\ PlaceInv => ResolveMeans
  <2> SUFFICES ASSUME CommandInv, PlaceInv PROVE ResolveMeans OBVIOUS
  <2>1. FoundInv BY DEF PlaceInv
  <2>2. mem.left >= VnodeSize => ~(mem.left < VnodeSize)
    <3>1. mem.left \in Nat /\ VnodeSize \in Nat
      BY InitrdAssumption, ShellAssumption DEF CommandInv, MemType
    <3> QED BY <3>1
  <2> QED BY <2>1, <2>2 DEF ResolveMeans, FoundInv, Found, Busy
<1>2. OrderlyImages BY DEF OrderlyImages
<1>3. Spec => []PlaceInv BY <1>2, PlacesAlways
<1> QED BY <1>1, <1>3, CommandAlways, PTL

\* The working directory is one of the image's, after any sequence of commands on any image
\* as tar writes them.
THEOREM CwdFound ==
  ASSUME \A image \in Images : Orderly(image) PROVE Spec => []CwdIsDirectory
<1>1. PlaceInv => CwdIsDirectory BY DEF PlaceInv
<1>2. OrderlyImages BY DEF OrderlyImages
<1>3. Spec => []PlaceInv BY <1>2, PlacesAlways
<1> QED BY <1>1, <1>3, PTL

\* The first component of a text, as readdir cuts it off.
LEMMA FirstPart ==
  ASSUME NEW rel \in Seq(STRING), NEW w \in Name, Component(rel, 1, w)
  PROVE  /\ SpanEnd(rel, 1, ToSet(rel) \ {"/"}) - 1 = Len(w)
         /\ SubSeq(rel, 1, Len(w)) = w /\ rel # <<>>
<1> DEFINE C == ToSet(rel) \ {"/"}
           e == SpanEnd(rel, 1, C)
           m == Len(w)
           L == Len(rel)
<1>1. /\ m \in Nat \ {0} /\ L \in Nat /\ w \in Seq(STRING) /\ \A k \in 1 .. m : w[k] # "/"
  BY NameIs, LengthIs
<1>2. Nul \notin C
  <2>1. \A k \in DOMAIN rel : rel[k] \in STRING OBVIOUS
  <2> QED BY <2>1, Characters DEF ToSet
<1>3. /\ 1 + m <= L + 1 /\ (\A k \in 1 .. m : rel[1 + k - 1] = w[k])
      /\ (1 + m <= L => rel[1 + m] = "/")
  BY DEF Component, Holds
<1>4. \A k \in 1 .. L : rel[k] \in C <=> rel[k] # "/"
  <2>1. DOMAIN rel = 1 .. L OBVIOUS
  <2> HIDE DEF L
  <2> QED BY <2>1 DEF ToSet
<1>5. 1 \in 1 .. Len(rel) + 1 BY <1>1
<1>6. e \in 1 .. Len(rel) + 1 /\ (e <= Len(rel) => rel[e] \notin C)
      /\ \A k \in 1 .. e - 1 : rel[k] \in C
  BY <1>2, <1>5, SpanEndIs
<1> HIDE DEF e, C
<1>7. \A k \in 1 .. m : k \in 1 .. L /\ rel[k] = w[k]
  <2>1. \A k \in 1 .. m : 1 + k - 1 = k /\ k \in 1 .. L BY <1>1, <1>3
  <2> HIDE DEF L, m
  <2> QED BY <1>3, <2>1
<1> HIDE DEF m
<1>8. ~(e <= m)
  <2>1. SUFFICES ASSUME e <= m PROVE FALSE OBVIOUS
  <2>2. e \in 1 .. m BY <1>1, <1>6, <2>1
  <2>3. rel[e] \in C BY <1>1, <1>4, <1>7, <2>2
  <2>4. e <= Len(rel) BY <1>7, <2>2
  <2> QED BY <1>6, <2>3, <2>4
<1>9. ~(e > m + 1)
  <2>1. SUFFICES ASSUME e > m + 1 PROVE FALSE OBVIOUS
  <2>2. 1 + m \in 1 .. e - 1 /\ 1 + m \in 1 .. L /\ 1 + m <= L BY <1>1, <1>6, <2>1
  <2>3. rel[1 + m] \in C /\ rel[1 + m] = "/" BY <1>3, <1>6, <2>2
  <2> QED BY <1>4, <2>2, <2>3
<1>10. e - 1 = m BY <1>1, <1>6, <1>8, <1>9
<1>11. SubSeq(rel, 1, m) = w
  <2>1. Holds(rel, 1, w) BY DEF Component
  <2>2. SubSeq(rel, 1, 1 + Len(w) - 1) = w BY <1>1, <2>1, HeldIs
  <2>3. 1 + Len(w) - 1 = m BY <1>1 DEF m
  <2> QED BY <2>2, <2>3
<1>12. rel # <<>>
  <2>1. L # 0 BY <1>1, <1>3
  <2> QED BY <2>1
<1> QED BY <1>10, <1>11, <1>12 DEF e, m, C

\* A component, in what a text has from it on.
LEMMA RestHas ==
  ASSUME NEW s \in Seq(STRING), NEW i \in Nat \ {0}, NEW w \in Name, Component(s, i, w)
  PROVE  /\ SubSeq(s, i, Len(s)) \in Seq(STRING)
         /\ Component(SubSeq(s, i, Len(s)), 1, w)
<1> DEFINE L == Len(s)
           rel == SubSeq(s, i, L)
           m == Len(w)
<1>1. m \in Nat \ {0} /\ L \in Nat BY NameIs, LengthIs
<1>2. /\ i + m <= L + 1 /\ (\A k \in 1 .. m : s[i + k - 1] = w[k])
      /\ (i + m <= L => s[i + m] = "/")
  BY DEF Component, Holds
<1>3. /\ rel \in Seq(STRING) /\ Len(rel) = L - i + 1
      /\ \A k \in 1 .. L - i + 1 : rel[k] = s[i + k - 1]
  <2>1. i \in Int /\ L \in Int /\ i <= L BY <1>1, <1>2
  <2>2. \A k \in i .. L : s[k] \in STRING BY <2>1
  <2> QED BY <2>1, <2>2, SubSeqProperties
<1> HIDE DEF rel, L, m
<1>4. 1 + m <= Len(rel) + 1 BY <1>1, <1>2, <1>3
<1>5. \A k \in 1 .. m : rel[1 + k - 1] = w[k]
  <2>1. \A k \in 1 .. m : 1 + k - 1 = k /\ k \in 1 .. L - i + 1 BY <1>1, <1>2
  <2> QED BY <1>2, <1>3, <2>1
<1>6. 1 + m <= Len(rel) => rel[1 + m] = "/"
  <2>1. SUFFICES ASSUME 1 + m <= Len(rel) PROVE rel[1 + m] = "/" OBVIOUS
  <2>2. 1 + m \in 1 .. L - i + 1 /\ i + (1 + m) - 1 = i + m /\ i + m <= L
    BY <1>1, <1>2, <1>3, <2>1
  <2> QED BY <1>2, <1>3, <2>2
<1>7. Component(rel, 1, w) BY <1>4, <1>5, <1>6 DEF Component, Holds, m
<1> QED BY <1>3, <1>7 DEF rel, L

\* A text cut to the buffer for a component.
LEMMA Whole ==
  ASSUME NEW w \in Name, Len(w) < PartMax, NEW rel, SubSeq(rel, 1, Len(w)) = w, NEW n, n = Len(w)
  PROVE  SubSeq(rel, 1, IF n < PartMax THEN n ELSE PartMax - 1) = w
OBVIOUS

\* The immediate child that an entry is or lies in is the next name of its place.
LEMMA ChildIs ==
  ASSUME NEW h, FullMeans(h), \A k \in DOMAIN NameOf(h) : Len(NameOf(h)[k]) < PartMax,
         NEW place \in Seq(Name)
  PROVE  /\ IsStrictPrefix(place, NameOf(h)) =>
              /\ Child(h, Joint(place)) = NameOf(h)[Len(place) + 1]
              /\ Child(h, Joint(place)) \in Name
         /\ ~IsStrictPrefix(place, NameOf(h)) => Child(h, Joint(place)) = None
<1> DEFINE full == Full(h)
           own == NameOf(h)
           j == Joint(place)
           below == SubSeq(full, Len(j) + 1, Len(full))
           rel == IF j # <<>> /\ below # <<>> /\ below[1] = "/" THEN Tail(below) ELSE below
           n == SpanEnd(rel, 1, ToSet(rel) \ {"/"}) - 1
           w == own[Len(place) + 1]
<1>1. Child(h, j) = IF StartsWithDir(full, j) /\ rel # <<>>
                      THEN SubSeq(rel, 1, IF n < PartMax THEN n ELSE PartMax - 1) ELSE None
  BY DEF Child
<1>2. own \in Seq(Name) /\ full \in {Joint(own), Append(Joint(own), "/")}
      /\ (full = Append(Joint(own), "/") => own # <<>> \/ full = Joint(own))
  BY DEF FullMeans
<1>3. /\ j \in Seq(STRING) /\ Words(j, "/") = place /\ Words(Append(j, "/"), "/") = place
  BY JointWords
<1>4. full \in Seq(STRING) /\ Words(full, "/") = own
  <2> HIDE DEF full, own
  <2>1. Joint(own) \in Seq(STRING) /\ "/" \in STRING BY <1>2, JointWords, Characters
  <2>2. Append(Joint(own), "/") \in Seq(STRING) BY <2>1, AppendProperties
  <2> QED BY <1>2, <2>1, <2>2, JointWords
<1>5. j = <<>> <=> place = <<>>
  <2>1. Len(place) \in 0 .. Len(place) /\ SubSeq(place, 1, Len(place)) = place BY SubSeqFull
  <2>2. Len(place) = 0 <=> place = <<>> OBVIOUS
  <2> QED BY <2>1, <2>2, JointEmpty
<1>6. /\ place # <<>> /\ IsStrictPrefix(place, own) => IsPrefix(Append(j, "/"), full)
  BY SlashBegins
<1>7. IsStrictPrefix(place, own) => w \in Name /\ Len(w) < PartMax /\ Has(full, j, w)
  BY StrictHas
<1> HIDE DEF w, full, own, j
<1>8. Len(j) \in Nat /\ Len(full) \in Nat BY <1>3, <1>4, LengthIs
<1>9. ASSUME IsStrictPrefix(place, own) PROVE Child(h, j) = w /\ w \in Name
  <2>1. w \in Name /\ Len(w) < PartMax /\ Has(full, j, w) BY <1>7, <1>9
  <2>2. Component(rel, 1, w) /\ rel \in Seq(STRING)
    <3>1. CASE j = <<>>
      <4>1. Component(full, 1, w) BY <2>1, <3>1 DEF Has
      <4>2. Len(j) + 1 = 1 BY <3>1
      <4>3. rel = SubSeq(full, 1, Len(full)) BY <3>1, <4>2
      <4> HIDE DEF rel
      <4> QED BY <1>4, <2>1, <4>1, <4>3, RestHas
    <3>2. CASE j # <<>>
      <4> DEFINE i == Len(j) + 2
                 u == SubSeq(full, i, Len(full))
      <4>1. full[Len(j) + 1] = "/" /\ Component(full, i, w) BY <2>1, <3>2 DEF Has
      <4>2. i + Len(w) <= Len(full) + 1 BY <4>1 DEF Component, Holds
      <4>3. Len(w) \in Nat \ {0} BY <2>1, NameIs
      <4>4. i \in Nat \ {0} /\ Len(j) + 1 \in 1 .. Len(full) BY <1>8, <4>2, <4>3
      <4>5. Component(u, 1, w) /\ u \in Seq(STRING) BY <1>4, <2>1, <4>1, <4>4, RestHas
      <4>6. below # <<>> /\ below[1] = "/" /\ Tail(below) = u
        <5> DEFINE a == Len(j) + 1
                   v == SubSeq(full, a, Len(full))
        <5>1. a \in 1 .. Len(full) /\ a + 1 = i /\ Len(full) \in a .. Len(full) BY <1>8, <4>4
        <5>2. full[a] = "/" BY <4>1
        <5> HIDE DEF a, i
        <5>3. Head(v) = full[a] /\ Tail(v) = SubSeq(full, a + 1, Len(full))
          BY <1>4, <5>1, HeadTailOfSubSeq
        <5>4. v \in Seq(STRING) /\ Len(v) = Len(full) - a + 1 /\ Len(v) # 0
          <6>1. a \in Int /\ Len(full) \in Int /\ a <= Len(full) BY <5>1
          <6>2. \A k \in a .. Len(full) : full[k] \in STRING BY <1>4, <5>1
          <6>3. v \in Seq(STRING) /\ Len(v) = Len(full) - a + 1 BY <6>1, <6>2, SubSeqProperties
          <6> HIDE DEF v
          <6> QED BY <6>1, <6>3
        <5> HIDE DEF v
        <5>5. v # <<>> BY <5>4
        <5>6. v[1] = "/" BY <5>2, <5>3, <5>4, <5>5
        <5>7. below = v BY DEF v, a
        <5>8. Tail(v) = u BY <5>1, <5>3
        <5> HIDE DEF below
        <5> QED BY <5>5, <5>6, <5>7, <5>8
      <4>7. rel = u BY <3>2, <4>6
      <4> HIDE DEF rel, u
      <4> QED BY <4>5, <4>7
    <3> QED BY <3>1, <3>2
  <2> HIDE DEF rel
  <2>3. n = Len(w) /\ SubSeq(rel, 1, Len(w)) = w /\ rel # <<>> BY <2>1, <2>2, FirstPart
  <2> HIDE DEF n
  <2>4. SubSeq(rel, 1, IF n < PartMax THEN n ELSE PartMax - 1) = w BY <2>1, <2>3, Whole
  <2>5. StartsWithDir(full, j) BY <1>5, <1>6, <1>9 DEF StartsWithDir
  <2> QED BY <1>1, <2>1, <2>3, <2>4, <2>5
<1>10. ASSUME ~IsStrictPrefix(place, own) PROVE Child(h, j) = None
  <2>1. SUFFICES ASSUME StartsWithDir(full, j) PROVE rel = <<>> BY <1>1
  <2>2. CASE j = <<>>
    <3>1. own = <<>>
      <4>1. SUFFICES ASSUME own # <<>> PROVE IsStrictPrefix(place, own) BY <1>10
      <4>2. place = <<>> BY <1>5, <2>2
      <4>3. Holds(own, 1, <<>>)
        <5>1. Len(own) \in Nat BY <1>2
        <5> QED BY <5>1 DEF Holds
      <4>4. IsPrefix(<<>>, own)
        <5>1. <<>> \in Seq(Name) OBVIOUS
        <5> QED BY <1>2, <4>3, <5>1, PrefixIs
      <4> QED BY <4>1, <4>2, <4>4 DEF IsStrictPrefix
    <3>2. Joint(own) = <<>>
      <4>1. place = <<>> BY <1>5, <2>2
      <4> QED BY <2>2, <3>1, <4>1 DEF j
    <3>3. full = <<>> BY <1>2, <3>1, <3>2
    <3>4. below = <<>>
      <4>1. Len(full) = 0 BY <3>3
      <4> QED BY <1>8, <4>1, SubSeqEmpty
    <3> HIDE DEF below
    <3> QED BY <2>2, <3>4
  <2>3. CASE j # <<>> /\ full = j
    <3>1. below = <<>> BY <1>8, <2>3, SubSeqEmpty
    <3> HIDE DEF below
    <3> QED BY <3>1
  <2>4. CASE j # <<>> /\ IsPrefix(Append(j, "/"), full)
    <3> DEFINE js == Append(j, "/")
    <3>1. IsPrefix(place, own) BY <1>5, <2>4, SlashBegins DEF full, own, j
    <3>2. place = own BY <1>10, <3>1 DEF IsStrictPrefix
    <3>3. full = j \/ full = js BY <1>2, <3>2 DEF j
    <3>4. "/" \in STRING BY Characters
    <3>5. js \in Seq(STRING) /\ Len(js) = Len(j) + 1 /\ js[Len(j) + 1] = "/"
      BY <1>3, <3>4, AppendProperties
    <3>6. Len(js) <= Len(full)
      <4>1. Len(js) \in 0 .. Len(full) BY <1>4, <2>4, <3>5, PrefixTaken
      <4> QED BY <4>1
    <3> HIDE DEF js
    <3>7. full = js /\ Len(full) = Len(j) + 1
      <4>1. full # j BY <1>8, <3>5, <3>6
      <4> QED BY <3>3, <3>5, <4>1
    <3> DEFINE a == Len(j) + 1
               v == SubSeq(full, a, Len(full))
    <3>8. a \in 1 .. Len(full) /\ Len(full) \in a .. Len(full) /\ Len(full) < a + 1 /\ a + 1 \in Int
          /\ full[a] = "/" /\ Len(full) \in Int
      BY <1>8, <3>5, <3>7
    <3> HIDE DEF a
    <3>9. Head(v) = full[a] /\ Tail(v) = SubSeq(full, a + 1, Len(full))
      BY <1>4, <3>8, HeadTailOfSubSeq
    <3>10. Tail(v) = <<>>
      <4>1. SubSeq(full, a + 1, Len(full)) = <<>> BY <3>8, SubSeqEmpty
      <4> QED BY <3>9, <4>1
    <3>11. v[1] = "/" BY <3>8, <3>9
    <3>12. below = v BY DEF a
    <3> HIDE DEF v, below
    <3> QED BY <2>4, <3>10, <3>11, <3>12
  <2> QED BY <2>1, <2>2, <2>3, <2>4 DEF StartsWithDir
<1> QED BY <1>9, <1>10 DEF own, j, w

\* What readdir has given after one entry more.
GivenNext(image, place, names0, off) ==
  LET child == Child(image[off], Joint(place))
  IN  IF child = None \/ Contains(names0, child) THEN names0 ELSE Append(names0, child)

LEMMA ListingFn ==
  ASSUME NEW image, NEW place, Headers(image) \in Seq(Nat),
         \A off \in ToSet(Headers(image)) : Child(image[off], Joint(place)) \in Name \union {None}
  PROVE  \E f : /\ f[0] = <<>>
                /\ \A n \in 1 .. Len(Headers(image)) :
                     f[n] = GivenNext(image, place, f[n - 1], Headers(image)[n])
                /\ \A n \in 0 .. Len(Headers(image)) : f[n] \in Seq(Name)
                /\ Listing(image, Joint(place)) = f[Len(Headers(image))]
<1> DEFINE offs == Headers(image)
           N == Len(offs)
           T == Seq(Name)
           step(s, n) == GivenNext(image, place, s, offs[n])
           body(f, n) ==
             LET names0 == f[n - 1]
                 child == Child(image[offs[n]], Joint(place))
             IN  IF n = 0 THEN <<>>
                 ELSE IF child = None \/ Contains(names0, child) THEN names0
                 ELSE Append(names0, child)
           Def(f) == f = [n \in 0 .. N |-> body(f, n)]
           F == CHOOSE f : Def(f)
           G == [n \in 1 .. N |-> [s \in T |-> step(s, n)]]
<1>1. Listing(image, Joint(place)) = F[N] BY DEF Listing
<1>b. \A f, n : body(f, n) = IF n = 0 THEN <<>> ELSE step(f[n - 1], n) BY DEF GivenNext
<1> HIDE DEF body
<1>2. N \in Nat BY LengthIs
<1>3. ASSUME NEW n \in 1 .. N, NEW s \in T PROVE step(s, n) \in T
  <2> DEFINE child == Child(image[offs[n]], Joint(place))
  <2>1. offs[n] \in ToSet(offs)
    <3>1. n \in DOMAIN offs BY <1>3
    <3> QED BY <3>1 DEF ToSet
  <2>2. child \in Name \union {None} BY <2>1
  <2>3. step(s, n) = IF child = None \/ Contains(s, child) THEN s ELSE Append(s, child)
    BY DEF GivenNext
  <2> HIDE DEF child, step
  <2>4. child # None => Append(s, child) \in T BY <1>3, <2>2
  <2> QED BY <1>3, <2>3, <2>4
<1> HIDE DEF step
<1>4. \A n \in 1 .. N, s \in T : G[n][s] = step(s, n) /\ G[n][s] \in T BY <1>3
<1>5. <<>> \in T OBVIOUS
<1> HIDE DEF F, N, T
<1>6. IsStep(G, N, T) BY <1>2, <1>4 DEF IsStep
<1> HIDE DEF G
<1>7. PICK f : Walks(f, G, N, T, <<>>) BY <1>5, <1>6, Stepwise
<1>8. \A n \in 0 .. N : f[n] = IF n = 0 THEN <<>> ELSE step(f[n - 1], n)
  <2>1. \A n \in 1 .. N : n - 1 \in 0 .. N /\ n # 0 BY <1>2
  <2>2. \A n \in 1 .. N : f[n] = step(f[n - 1], n) BY <1>4, <1>7, <2>1 DEF Walks
  <2> QED BY <1>2, <1>7, <2>2 DEF Walks
<1>9. Def(f) BY <1>7, <1>8, <1>b DEF Walks
<1>10. Def(F) BY <1>9 DEF F
<1>11. F[0] = <<>> /\ \A n \in 1 .. N : F[n] = step(F[n - 1], n)
  <2>1. \A n \in 0 .. N : F[n] = body(F, n) BY <1>10
  <2>2. 0 \in 0 .. N /\ \A n \in 1 .. N : n \in 0 .. N /\ n # 0 BY <1>2
  <2> QED BY <1>b, <2>1, <2>2
<1>12. \A n \in 0 .. N : F[n] \in T
  <2>1. \A n \in 1 .. N : F[n - 1] \in T => F[n] \in T BY <1>4, <1>11
  <2> QED BY <1>2, <1>5, <1>11, <2>1, Walking
<1> QED BY <1>1, <1>11, <1>12 DEF N, T, step

\* Each name once, and those of S only.
Lists(s, S) ==
  /\ ToSet(s) = S
  /\ \A i, k \in DOMAIN s : s[i] = s[k] => i = k

LEMMA ListsMore ==
  ASSUME NEW s \in Seq(Name), NEW S, Lists(s, S), NEW w \in Name
  PROVE  /\ Contains(s, w) => Lists(s, S \union {w})
         /\ ~Contains(s, w) => Lists(Append(s, w), S \union {w})
<1> DEFINE t == Append(s, w)
           n == Len(s) + 1
<1>1. /\ t \in Seq(Name) /\ Len(t) = n /\ t[n] = w /\ \A k \in 1 .. Len(s) : t[k] = s[k]
      /\ Len(s) \in Nat
  BY AppendProperties
<1>2. DOMAIN s = 1 .. Len(s) /\ ToSet(s) = S BY DEF Lists
<1>3. Contains(s, w) <=> w \in S
  <2>1. w \in ToSet(s) <=> \E i \in 1 .. Len(s) : s[i] = w BY <1>2 DEF ToSet
  <2> QED BY <1>2, <2>1 DEF Contains
<1>4. ASSUME Contains(s, w) PROVE Lists(s, S \union {w})
  <2>1. S \union {w} = S BY <1>3, <1>4
  <2> QED BY <2>1
<1>5. ASSUME ~Contains(s, w) PROVE Lists(t, S \union {w})
  <2> HIDE DEF t
  <2>1. DOMAIN t = 1 .. n BY <1>1
  <2>2. \A k \in 1 .. n : k \in 1 .. Len(s) \/ k = n BY <1>1
  <2>3. \A k \in 1 .. Len(s) : k \in 1 .. n BY <1>1
  <2>4. n \in 1 .. n BY <1>1
  <2> HIDE DEF n
  <2>5. ToSet(t) = S \union {w}
    <3>1. \A x \in ToSet(t) : x \in S \union {w}
      <4>1. \A k \in 1 .. n : t[k] \in S \union {w} BY <1>1, <1>2, <2>2 DEF ToSet
      <4> QED BY <2>1, <4>1 DEF ToSet
    <3>2. \A x \in S : x \in ToSet(t)
      <4>1. \A k \in 1 .. Len(s) : s[k] \in ToSet(t) BY <1>1, <2>1, <2>3 DEF ToSet
      <4> QED BY <1>2, <4>1 DEF ToSet
    <3>3. w \in ToSet(t) BY <1>1, <2>1, <2>4 DEF ToSet
    <3> QED BY <3>1, <3>2, <3>3
  <2>6. \A i, k \in DOMAIN t : t[i] = t[k] => i = k
    <3>1. \A k \in 1 .. Len(s) : s[k] # w BY <1>5 DEF Contains
    <3>2. \A i, k \in 1 .. Len(s) : s[i] = s[k] => i = k BY <1>2 DEF Lists
    <3> QED BY <1>1, <2>1, <2>2, <3>1, <3>2
  <2> QED BY <2>5, <2>6 DEF Lists
<1> QED BY <1>4, <1>5 DEF t

\* readdir gives the children of the directory, each once.
LEMMA ListingIs ==
  ASSUME NEW image \in Seq(BlockType), Tidy(image), LegibleIn(image), NEW place \in Seq(Name)
  PROVE  Lists(Listing(image, Joint(place)), Children(image, place))
<1> DEFINE offs == Headers(image)
           N == Len(offs)
           in(off) == IsStrictPrefix(place, NameOf(image[off]))
           next(off) == NameOf(image[off])[Len(place) + 1]
           Upto(n) == {next(offs[k]) : k \in {i \in 1 .. n : in(offs[i])}}
<1>1. offs \in Seq(1 .. Len(image)) BY HeadersType
<1> HIDE DEF offs
<1>a. offs \in Seq(Nat) /\ N \in Nat /\ DOMAIN offs = 1 .. N BY <1>1, SeqMonotonic
<1>2. ASSUME NEW off \in ToSet(offs)
      PROVE  /\ in(off) => Child(image[off], Joint(place)) = next(off) /\ next(off) \in Name
             /\ ~in(off) => Child(image[off], Joint(place)) = None
             /\ Child(image[off], Joint(place)) \in Name \union {None}
  <2>1. FullMeans(image[off]) BY <1>2 DEF Tidy, offs
  <2>2. \A k \in DOMAIN NameOf(image[off]) : Len(NameOf(image[off])[k]) < PartMax
    BY <1>2 DEF LegibleIn, offs
  <2> HIDE DEF offs
  <2>3. /\ in(off) => Child(image[off], Joint(place)) = next(off)
                      /\ Child(image[off], Joint(place)) \in Name
        /\ ~in(off) => Child(image[off], Joint(place)) = None
    BY <2>1, <2>2, ChildIs
  <2> QED BY <2>3
<1>3. \A w \in Name : w # None
  <2>1. Name \subseteq Text BY DEF Name, Text
  <2> QED BY <2>1, NullAssumption
<1>4. PICK f : /\ f[0] = <<>>
               /\ \A n \in 1 .. N : f[n] = GivenNext(image, place, f[n - 1], offs[n])
               /\ \A n \in 0 .. N : f[n] \in Seq(Name)
               /\ Listing(image, Joint(place)) = f[N]
  BY <1>a, <1>2, ListingFn DEF offs
<1> DEFINE S == {n \in Nat : n <= N => Lists(f[n], Upto(n))}
<1> HIDE DEF in, next
<1>5. 0 \in S
  <2>1. Upto(0) = {} OBVIOUS
  <2>2. DOMAIN <<>> = {} OBVIOUS
  <2>3. Lists(<<>>, {}) BY <2>2 DEF Lists, ToSet
  <2> QED BY <1>4, <2>1, <2>3
<1>6. ASSUME NEW n \in Nat, n \in S PROVE n + 1 \in S
  <2> DEFINE m == n + 1
             off == offs[m]
             child == Child(image[off], Joint(place))
             s == f[n]
  <2>1. SUFFICES ASSUME m <= N PROVE Lists(f[m], Upto(m)) OBVIOUS
  <2>2. m \in 1 .. N /\ m - 1 = n /\ n \in 0 .. N /\ n <= N BY <1>a, <2>1
  <2>3. Lists(s, Upto(n)) /\ s \in Seq(Name) BY <1>4, <1>6, <2>2
  <2>4. f[m] = IF child = None \/ Contains(s, child) THEN s ELSE Append(s, child)
    BY <1>4, <2>2 DEF GivenNext
  <2>5. off \in ToSet(offs) BY <1>a, <2>2 DEF ToSet
  <2>6. \A k : k \in 1 .. m <=> k \in 1 .. n \/ k = m BY <2>2
  <2>7. Upto(m) = IF in(off) THEN Upto(n) \union {next(off)} ELSE Upto(n)
    <3> HIDE DEF m
    <3>1. \A x : x \in Upto(m) <=> x \in Upto(n) \/ (in(off) /\ x = next(off)) BY <2>6
    <3> HIDE DEF Upto, off
    <3> QED BY <3>1
  <2> HIDE DEF m, off, child, s, Upto
  <2>8. CASE in(off)
    <3>1. child = next(off) /\ child \in Name /\ child # None BY <1>2, <1>3, <2>5, <2>8 DEF child
    <3>2. /\ Contains(s, child) => Lists(s, Upto(n) \union {child})
          /\ ~Contains(s, child) => Lists(Append(s, child), Upto(n) \union {child})
      BY <2>3, <3>1, ListsMore
    <3> QED BY <2>4, <2>7, <2>8, <3>1, <3>2
  <2>9. CASE ~in(off)
    <3>1. child = None BY <1>2, <2>5, <2>9 DEF child
    <3> QED BY <2>3, <2>4, <2>7, <2>9, <3>1
  <2> QED BY <2>8, <2>9
<1> HIDE DEF S
<1>7. Nat \subseteq S BY <1>5, <1>6, Steps
<1> HIDE DEF N, Upto
<1>8. Lists(f[N], Upto(N))
  <2>1. N \in Nat /\ N <= N BY <1>a
  <2> QED BY <1>7, <2>1 DEF S
<1>9. Upto(N) = Children(image, place)
  <2> USE DEF N, Upto
  <2>1. ToSet(offs) = {offs[k] : k \in 1 .. N} BY <1>a DEF ToSet
  <2>2. Children(image, place) = {next(off) : off \in {k \in ToSet(offs) : in(k)}}
    BY DEF Children, next, in, offs
  <2>3. \A x : x \in Upto(N) <=> \E k \in 1 .. N : in(offs[k]) /\ x = next(offs[k]) OBVIOUS
  <2>4. \A x : x \in Children(image, place) <=> \E k \in 1 .. N : in(offs[k]) /\ x = next(offs[k])
    BY <2>1, <2>2
  <2> HIDE DEF Upto
  <2> QED BY <2>3, <2>4
<1> QED BY <1>4, <1>8, <1>9

\* ls prints each name of the directory once and no other, for any image as tar writes them.
THEOREM NamesListed ==
  ASSUME \A image \in Images : Orderly(image) PROVE Spec => []ListMeans
<1>1. PathInv /\ CommandInv /\ PlaceInv => ListMeans
  <2> SUFFICES ASSUME PathInv, CommandInv, PlaceInv,
                      pc = "done", Command = "ls", FoundDir, Legible, Short(path)
               PROVE  /\ ToSet(names) = Children(tar, Meaning(path))
                      /\ \A j, k \in DOMAIN names : names[j] = names[k] => j = k
    BY DEF ListMeans
  <2>1. names = Listing(tar, Joint(Meaning(path))) BY DEF PlaceInv, ListInv
  <2>2. tar \in Seq(BlockType) /\ LegibleIn(tar) /\ Orderly(tar)
    BY DEF CommandInv, PlaceInv, Legible, LegibleIn
  <2>3. Tidy(tar) BY <2>2, TidyIs
  <2>4. Meaning(path) \in Seq(Name)
    <3>1. path \in Seq(STRING)
      <4>1. path = <<>> \/ path \in Text BY DEF PathInv, IsCanonical
      <4>2. <<>> \in Seq(STRING) OBVIOUS
      <4> QED BY <4>1, <4>2 DEF Text
    <3> QED BY <3>1, MeaningIsNames
  <2>5. Lists(names, Children(tar, Meaning(path))) BY <2>1, <2>2, <2>3, <2>4, ListingIs
  <2> QED BY <2>5 DEF Lists
<1>2. OrderlyImages BY DEF OrderlyImages
<1>3. Spec => []PlaceInv BY <1>2, PlacesAlways
<1> QED BY <1>1, <1>3, CommandAlways, PTL
===============================================================================

--------------------------------- MODULE MCShell --------------------------------
(***************************************************************************)
(* Three small images, the lines a user types in them, and what the kernel *)
(* may be asked to print.                                                  *)
(***************************************************************************)
EXTENDS Shell

\* A header, and a block of data, which looks like one with its bytes for a name.
Entry(name, prefix, dir, size) ==
  [name |-> name, prefix |-> prefix, dir |-> dir, size |-> size, bytes |-> name]
File(name, size) == Entry(name, <<>>, FALSE, size)
Dir(name) == Entry(name, <<>>, TRUE, 0)
Block(bytes) == [name |-> bytes, prefix |-> <<>>, dir |-> FALSE, size |-> 0, bytes |-> bytes]
Zeros == Block(<<>>)

\* As tar writes the image of the repository: "./" in front of every name.
Archive ==
  << Dir(<<".", "/">>),
     File(<<".", "/", "a">>, 3), Block(<<"d", "e">>), Block(<<"f", "g">>),
     Dir(<<".", "/", "b", "/">>),
     File(<<".", "/", "b", "/", "a">>, 4), Block(<<"M", "e">>), Block(<<"f", "d">>),
     Zeros, File(<<"z">>, 0) >>

\* Directories that no entry names, or whose entry follows, or has no slash; a prefix;
\* a name that begins like a directory's; an empty file; a program of more than ElfMax.
Implied ==
  << File(<<"a", "b", "b">>, 1), Block(<<"a", "/">>),
     File(<<"a", "/", "b">>, 0),
     Entry(<<"b", "a">>, <<"a">>, FALSE, 2), Block(<<"b", "/">>),
     Dir(<<"a">>),
     Dir(<<"b">>),
     File(<<"b", "/", "a", "/", "b">>, 5), Block(<<"M", "a">>), Block(<<"b", "/">>), Block(<<"c", "c">>) >>

\* Names that fill their field or do not fit the buffers, to the end of the module.
Cramped ==
  << File(<<"a", "b", "a", "b", "a", "b", "a", "b">>, 1), Block(<<"a", "b">>),
     File(<<"a", "a", "a", "a", "a", "a", "b">>, 0),
     Entry(<<"b", "b", "b", "b", "b">>, <<"b", "b", "b", "b", "b">>, FALSE, 0),
     File(<<"b", "/", "a">>, 2), Block(<<"M", "f">>) >>

MCImages == {Archive, Implied, Cramped}

ASSUME ImagesOrderly == \A image \in Images : Orderly(image)

MCMode == <<"0", "6">>

MCPathChars == {"a", "b", "/"}

Args ==
  \* Short, with every use of dots and slashes; deep; and beyond the limits.
  UNION {[1 .. n -> {"a", "b", ".", "/"}] : n \in 1 .. 3}
  \union
  { <<"a", "/", "b", "/", ".", ".", "/", "b">>, <<".", ".", "/", ".", ".", "/", "b">>,
    <<"/", "/", "b", "/", "/", "a", "/">>, <<"a", "/", ".", ".", "/", "b">>,
    <<"a", "/", "b", "/", ".", ".", "/", ".", ".">>, <<"b", "/", "a", "/", "b">>,
    <<"a", "b", "a", "b", "a", "b", "a", "b">>,
    <<"a", "b", "a", "b", "a", "b", "a", "b", "/", "a", "b", "a", "b">>,
    <<"/", "a", "b", "/", "b", "a", "/", "a", "b", "/", "b", "a", "/", "a", "b">>,
    <<"a", "/", "b", "/", "a", "/", "b", "/", "a", "/", "b", "/", "a", "b">> }

MCLines ==
  {<<c, " ">> \o a : c \in {"cd", "ls", "cat", "hexdump", "exec"}, a \in Args}
  \union {<<"cd">>, <<"ls", " ">>, <<" ", "cd", " ", " ", "a", " ", "b">>}
  \union {<<"alloc", " ", "0">>, <<"alloc", " ", "1", "7">>, <<"alloc", " ", "9", "9", "9">>}

Numbers ==
  [left : BOOLEAN, zero : BOOLEAN, plus : BOOLEAN, space : BOOLEAN, alt : BOOLEAN, star : {FALSE},
   width : {0, 3, 6}, prec : {-1, 0, 2, 5}, modifier : {<<>>}, spec : {"d", "u", "x", "X"},
   arg : {0, 7, 165}]
\* A width or precision from an argument may be negative; %c has no precision.
Others ==
  [left : BOOLEAN, zero : {FALSE}, plus : {TRUE}, space : {FALSE}, alt : {TRUE}, star : {TRUE},
   width : {-6, 0, 4}, prec : {-1, 1}, modifier : {<<"l", "l">>}, spec : {"d"}, arg : {-12, 0}]
  \union
  [left : BOOLEAN, zero : BOOLEAN, plus : {FALSE}, space : BOOLEAN, alt : {FALSE}, star : BOOLEAN,
   width : {0, 3}, prec : {-1, 0, 1}, modifier : {<<>>}, spec : {"d"}, arg : {-12, -7}]
  \union
  [left : BOOLEAN, zero : BOOLEAN, plus : {FALSE}, space : {FALSE}, alt : {FALSE}, star : {FALSE},
   width : {0, 6}, prec : {-1}, modifier : {<<>>}, spec : {"p"}, arg : {0, 165}]
  \union
  [left : BOOLEAN, zero : {FALSE}, plus : {FALSE}, space : {FALSE}, alt : {FALSE}, star : BOOLEAN,
   width : {0, 3}, prec : {-1, 0, 1, 4}, modifier : {<<>>}, spec : {"s"}, arg : {<<>>, <<"h", "i">>}]
  \union
  [left : BOOLEAN, zero : {FALSE}, plus : {FALSE}, space : {FALSE}, alt : {FALSE}, star : BOOLEAN,
   width : {0, 3}, prec : {-1}, modifier : {<<>>}, spec : {"c"}, arg : {"h"}]

MCConversions == Numbers \union Others
===============================================================================

---------------------------------- MODULE Paths ---------------------------------
(***************************************************************************)
(* The shell's words and paths: shell_tokenize and shell_canon_path        *)
(* (shell.c), and the split of vfs_resolve (vfs.c), with what a path       *)
(* means.                                                                  *)
(***************************************************************************)
EXTENDS Format

CONSTANTS
  PathMax,      \* SHELL_MAX_PATH, also the size of the other path buffers
  CompMax,      \* entries of comp_starts
  PartMax,      \* size of the buffers for one component and for a prefix
  ArgMax,       \* entries of argv
  PathChars     \* characters that occur in paths

ASSUME PathsAssumption ==
  /\ PathMax \in Nat \ {0, 1} /\ PartMax \in Nat \ {0, 1}
  /\ CompMax \in Nat /\ ArgMax \in Nat \ {0, 1}
  /\ PathChars \subseteq STRING

\* The runs of s between separators c, none longer than max: what is left of a run
\* that is cut is the next one.
Split(s, c, max) ==
  LET from[i \in 1 .. Len(s) + 1] ==
        LET p == SpanEnd(s, i, {c})
            run == SpanEnd(s, p, ToSet(s) \ {c})
            q == IF run - p > max THEN p + max ELSE run
        IN  IF p > Len(s) THEN <<>> ELSE <<SubSeq(s, p, q - 1)>> \o from[q]
  IN  from[1]

\* shell_tokenize: argv.
Tokenize(line) ==
  LET words == Split(line, " ", Len(line))
  IN  SubSeq(words, 1, IF Len(words) < ArgMax THEN Len(words) ELSE ArgMax)

\* The components of a path as vfs_resolve extracts them.
VfsParts(path) == Split(path, "/", PartMax - 1)

\* The absolute candidate as it is meant: cwd is put in front of a relative path.
Joined(cwd, in) ==
  IF in[1] = "/" THEN in
  ELSE IF cwd = <<"/">> THEN Vsprintf(<<"/", "%", "s">>, <<in>>)
  ELSE Vsprintf(<<"%", "s", "/", "%", "s">>, <<cwd, in>>)

\* The strings a buffer can hold, for any content of what was not written.
CStrings(buf) ==
  LET end == CHOOSE n \in DOMAIN buf : buf[n] = Nul /\ \A k \in 0 .. n - 1 : buf[k] # Nul
      holes == {k \in 0 .. end - 1 : buf[k] = Garbage}
      whole(fill) == [k \in 1 .. end |-> IF k - 1 \in holes THEN fill[k - 1] ELSE buf[k - 1]]
      cut(fill) == {n \in holes : fill[n] = Nul}
  IN  {IF cut(fill) = {} THEN whole(fill)
       ELSE SubSeq(whole(fill), 1, CHOOSE n \in cut(fill) : \A m \in cut(fill) : n <= m) :
       fill \in [holes -> PathChars \union {Nul}]}

\* tmp in shell_canon_path: a long absolute path is cut, a long relative one ends
\* in a byte that was never written.  The byte behind tmp keeps the terminator that
\* vsnprintf puts there.
Candidates(cwd, in) ==
  IF in[1] = "/" THEN {SubSeq(in, 1, IF Len(in) < PathMax THEN Len(in) ELSE PathMax - 1)}
                 ELSE CStrings(Snprintf(PathMax, Joined(cwd, in)))

\* mutant: ".." takes the slash and leaves comp_starts behind.
PoppedShort(s) ==
  IF s.starts = <<>> THEN s
  ELSE [out |-> SubSeq(s.out, 1, Longer(Last(s.starts) - 1, 1)), starts |-> s.starts]

\* The last component leaves; the slash in front of it stays.
Popped(s) ==
  IF s.starts = <<>> THEN s
  ELSE [out |-> SubSeq(s.out, 1, Last(s.starts)), starts |-> Front(s.starts)]

\* mutant: no room kept for the slash and the terminator.
PushedTight(s, part) ==
  IF Len(s.starts) < CompMax /\ Len(s.out) + Len(part) < PathMax
    THEN LET base == IF Len(s.out) > 1 THEN Append(s.out, "/") ELSE s.out
         IN  [out |-> base \o part, starts |-> Append(s.starts, Len(base))]
    ELSE s

\* A component is appended, or dropped where there is no room.
Pushed(s, part) ==
  IF Len(s.starts) < CompMax /\ Len(s.out) + 1 + Len(part) + 1 < PathMax
    THEN LET base == IF Len(s.out) > 1 THEN Append(s.out, "/") ELSE s.out
         IN  [out |-> base \o part, starts |-> Append(s.starts, Len(base))]
    ELSE s

Walked(s, part) ==
  CASE part = <<".">> -> s
    [] part = <<".", ".">> -> Popped(s)
    [] OTHER -> Pushed(s, part)

\* shell_canon_path from the candidate on.
Canon(tmp) ==
  LET parts == Split(tmp, "/", Len(tmp))
      after[k \in 0 .. Len(parts)] ==
        IF k = 0 THEN [out |-> <<"/">>, starts |-> <<>>] ELSE Walked(after[k - 1], parts[k])
  IN  after[Len(parts)].out

-------------------------------------------------------------------------------
\* What is meant.

\* The words up to the n-th character, from those up to the one before it.
WordsOn(words, s, c, n) ==
  IF s[n] = c THEN words
  ELSE IF n = 1 \/ s[n - 1] = c THEN Append(words, <<s[n]>>)
  ELSE [words EXCEPT ![Len(words)] = Append(@, s[n])]

\* The words of s: its maximal runs without c, in order.
Words(s, c) ==
  LET upto[n \in 0 .. Len(s)] == IF n = 0 THEN <<>> ELSE WordsOn(upto[n - 1], s, c, n)
  IN  upto[Len(s)]

Gone(place, name) ==
  CASE name = <<".">> -> place
    [] name = <<".", ".">> -> IF place = <<>> THEN place ELSE Front(place)
    [] OTHER -> Append(place, name)

\* The place a path names, as the list of names that leads there from the root.
Meaning(path) ==
  LET words == Words(path, "/")
      after[n \in 0 .. Len(words)] == IF n = 0 THEN <<>> ELSE Gone(after[n - 1], words[n])
  IN  after[Len(words)]
===============================================================================

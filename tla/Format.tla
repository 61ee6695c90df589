--------------------------------- MODULE Format --------------------------------
(***************************************************************************)
(* The formatting of libc: printf (stdio/printf.c) and vsnprintf           *)
(* (stdio/sprintf.c), with what each conversion must print.                *)
(*                                                                         *)
(* Text is a sequence of one-character strings, without a terminator.  An  *)
(* integer argument is a number of any size: no conversion of this code    *)
(* depends on the width of its type but through the length modifiers,      *)
(* which are parsed.  Printing to the terminal never fails.                *)
(***************************************************************************)
EXTENDS Integers, Sequences, SequencesExt

CONSTANTS
  Nul,       \* '\0'
  Garbage    \* what memory that was never written holds

ASSUME CharAssumption == Nul \notin STRING /\ Garbage \notin STRING /\ Nul # Garbage

Text == Seq(STRING)

DigitChar == [upper \in BOOLEAN |->
  IF upper THEN <<"0","1","2","3","4","5","6","7","8","9","A","B","C","D","E","F">>
           ELSE <<"0","1","2","3","4","5","6","7","8","9","a","b","c","d","e","f">>]

Decimal == {"0", "1", "2", "3", "4", "5", "6", "7", "8", "9"}

\* A literal is a string in TLA+; the provers know it of none.
ASSUME LiteralAssumption ==
  {" ", "/", ".", "-", "+", "#", "%", "*", "l", "p", "s", "u", "x", "X"} \union Decimal
    \union {"a", "b", "c", "d", "e", "f", "A", "B", "C", "D", "E", "F"} \subseteq STRING

DigitValue(c) == (CHOOSE d \in 1 .. 10 : DigitChar[FALSE][d] = c) - 1

\* The character at a place, or the terminator.
CharAt(s, i) == IF i <= Len(s) THEN s[i] ELSE Nul

\* The first place from i on that holds none of C; the end has a terminator.
SpanEnd(s, i, C) ==
  CHOOSE j \in i .. Len(s) + 1 :
    CharAt(s, j) \notin C /\ \A k \in i .. j - 1 : s[k] \in C

Pad(n, c) == [k \in 1 .. n |-> c]

Longer(m, n) == IF m > n THEN m ELSE n

\* u64_to_base, in printing order.
U64ToBase(v, base, upper) ==
  LET digits[n \in 0 .. v] ==
        IF n < base THEN <<DigitChar[upper][n + 1]>>
                    ELSE Append(digits[n \div base], DigitChar[upper][(n % base) + 1])
  IN  digits[v]

-------------------------------------------------------------------------------
\* printf's conversions.  f holds the flags, width and precision (-1: none).

\* print_signed.
PrintSigned(f, val) ==
  LET digits == U64ToBase(IF val < 0 THEN -val ELSE val, 10, FALSE)
      zeros == Longer(f.prec - Len(digits), 0)
      sign == IF val < 0 THEN <<"-">> ELSE IF f.plus THEN <<"+">>
              ELSE IF f.space THEN <<" ">> ELSE <<>>
      padding == f.width - (zeros + Len(digits) + Len(sign))
      zeroPad == ~f.left /\ f.zero /\ f.prec < 0
  IN  (IF ~f.left /\ ~zeroPad THEN Pad(padding, " ") ELSE <<>>)
      \o sign
      \o (IF zeroPad THEN Pad(padding, "0") ELSE <<>>)
      \o Pad(zeros, "0") \o digits
      \o (IF f.left THEN Pad(padding, " ") ELSE <<>>)

\* mutant: zero padding in front of the prefix.
PrintUnsignedPrefixLate(f, val, base, altPrefix) ==
  LET digits == IF f.prec = 0 /\ val = 0 THEN <<>> ELSE U64ToBase(val, base, f.upper)
      zeros == Longer(f.prec - Len(digits), 0)
      prefix == IF altPrefix /\ f.alt /\ val # 0 /\ base = 16
                  THEN <<"0", IF f.upper THEN "X" ELSE "x">> ELSE <<>>
      padding == f.width - (Len(prefix) + zeros + Len(digits))
      zeroPad == ~f.left /\ f.zero /\ f.prec < 0
  IN  (IF ~f.left THEN Pad(padding, IF zeroPad THEN "0" ELSE " ") ELSE <<>>)
      \o prefix \o Pad(zeros, "0") \o digits
      \o (IF f.left THEN Pad(padding, " ") ELSE <<>>)

\* print_unsigned: a prefix stands in front of zero padding and behind spaces.
PrintUnsigned(f, val, base, altPrefix) ==
  LET digits == IF f.prec = 0 /\ val = 0 THEN <<>> ELSE U64ToBase(val, base, f.upper)
      zeros == Longer(f.prec - Len(digits), 0)
      prefix == IF altPrefix /\ f.alt /\ val # 0 /\ base = 16
                  THEN <<"0", IF f.upper THEN "X" ELSE "x">> ELSE <<>>
      padding == f.width - (Len(prefix) + zeros + Len(digits))
      zeroPad == ~f.left /\ f.zero /\ f.prec < 0
  IN  (IF ~f.left /\ ~zeroPad THEN Pad(padding, " ") ELSE <<>>)
      \o prefix
      \o (IF zeroPad THEN Pad(padding, "0") ELSE <<>>)
      \o Pad(zeros, "0") \o digits
      \o (IF f.left THEN Pad(padding, " ") ELSE <<>>)

\* print_string.
PrintString(f, s) ==
  LET shown == IF f.prec >= 0 /\ f.prec < Len(s) THEN SubSeq(s, 1, f.prec) ELSE s
      padding == Pad(f.width - Len(shown), " ")
  IN  IF f.left THEN shown \o padding ELSE padding \o shown

\* parse_int, of the digits from i up to j.
ParseInt(s, i, j) ==
  LET value[k \in i .. j] == IF k = i THEN 0 ELSE value[k - 1] * 10 + DigitValue(s[k - 1])
  IN  value[j]

\* parse_format from place i, with args[a] the next argument: the conversion, its
\* character, and the places after both.
ParseFormat(s, i, args, a) ==
  LET iw == SpanEnd(s, i, {"-", "0", "+", " ", "#"})
      flags == ToSet(SubSeq(s, i, iw - 1))
      starW == CharAt(s, iw) = "*"
      id == IF starW THEN iw + 1 ELSE SpanEnd(s, iw, Decimal)
      width == IF starW THEN args[a] ELSE ParseInt(s, iw, id)
      ap == IF starW THEN a + 1 ELSE a
      dot == CharAt(s, id) = "."
      starP == dot /\ CharAt(s, id + 1) = "*"
      il == IF starP THEN id + 2 ELSE IF dot THEN SpanEnd(s, id + 1, Decimal) ELSE id
      prec == IF starP THEN args[ap] ELSE IF dot THEN ParseInt(s, id + 1, il) ELSE -1
      is == IF CharAt(s, il) # "l" THEN il
            ELSE IF CharAt(s, il + 1) = "l" THEN il + 2 ELSE il + 1
      spec == CharAt(s, is)
  IN  [left |-> "-" \in flags \/ width < 0, zero |-> "0" \in flags,
       plus |-> "+" \in flags, space |-> " " \in flags,
       alt |-> "#" \in flags \/ spec = "p", upper |-> spec = "X",
       width |-> IF width < 0 THEN -width ELSE width,
       prec |-> IF prec < 0 THEN -1 ELSE prec,
       spec |-> spec,
       next |-> IF spec = Nul THEN is ELSE is + 1,
       arg |-> IF starP THEN ap + 1 ELSE ap]

\* printf's switch.
Convert(f, args) ==
  CASE f.spec = "c" -> PrintString(f, <<args[f.arg]>>)
    [] f.spec = "s" -> PrintString(f, args[f.arg])
    [] f.spec \in {"d", "i"} -> PrintSigned(f, args[f.arg])
    [] f.spec = "u" -> PrintUnsigned(f, args[f.arg], 10, FALSE)
    [] f.spec \in {"x", "X", "p"} -> PrintUnsigned(f, args[f.arg], 16, TRUE)
    [] f.spec = Nul -> <<"%">>
    [] OTHER -> <<"%", f.spec>>

Consumes(spec) == spec \in {"c", "s", "d", "i", "u", "x", "X", "p"}

\* What printf prints.
Printf(format, args) ==
  LET from[at \in Nat \X Nat] ==
        LET i == at[1]
            a == at[2]
            f == ParseFormat(format, i + 1, args, a)
        IN  IF i > Len(format) THEN <<>>
            ELSE IF format[i] # "%" THEN <<format[i]>> \o from[<<i + 1, a>>]
            ELSE IF CharAt(format, i + 1) = "%" THEN <<"%">> \o from[<<i + 2, a>>]
            ELSE Convert(f, args)
                 \o from[<<f.next, IF Consumes(f.spec) THEN f.arg + 1 ELSE f.arg>>]
  IN  from[<<1, 1>>]

-------------------------------------------------------------------------------
\* vsnprintf.

\* buf_put_int and buf_put_uint.
BufPutInt(v) ==
  IF v < 0 THEN <<"-">> \o U64ToBase(-v, 10, FALSE) ELSE U64ToBase(v, 10, FALSE)

\* The characters vsnprintf puts, those beyond the buffer's end included.  A format
\* that ends in '%' is read past its end and is left out.
Vsprintf(format, args) ==
  LET from[at \in Nat \X Nat] ==
        LET i == at[1]
            a == at[2]
            spec == format[i + 1]
            put == CASE spec = "%" -> <<"%">>
                     [] spec = "s" -> args[a]
                     [] spec = "c" -> <<args[a]>>
                     [] spec = "d" -> BufPutInt(args[a])
                     [] spec = "u" -> U64ToBase(args[a], 10, FALSE)
                     [] spec = "x" -> U64ToBase(args[a], 16, FALSE)
                     [] OTHER -> <<"%", spec>>
        IN  IF i > Len(format) THEN <<>>
            ELSE IF format[i] # "%" THEN <<format[i]>> \o from[<<i + 1, a>>]
            ELSE put \o from[<<i + 2, IF spec \in {"s", "c", "d", "u", "x"} THEN a + 1 ELSE a>>]
  IN  from[<<1, 1>>]

\* mutant: the whole buffer is for characters.
SnprintfFull(size, text) ==
  [k \in 0 .. size |->
     IF k < Len(text) /\ k < size THEN text[k + 1]
     ELSE IF k = Len(text) /\ Len(text) < size THEN Nul
     ELSE IF k = size /\ Len(text) >= size THEN Nul
     ELSE Garbage]

\* The buffer of vsnprintf and the byte behind it: the last byte is kept for the
\* terminator, but a text that is cut is terminated one further on.
Snprintf(size, text) ==
  [k \in 0 .. size |->
     IF k < Len(text) /\ k < size - 1 THEN text[k + 1]
     ELSE IF k = Len(text) /\ Len(text) < size THEN Nul
     ELSE IF k = size /\ Len(text) >= size THEN Nul
     ELSE Garbage]

-------------------------------------------------------------------------------
\* What a conversion must print: the C standard's description of fprintf, but for a zero
\* of precision 0, which the standard gives no digits and print_signed gives one.

\* A conversion with an argument of its type.
IsConversion(c) ==
  /\ {c.left, c.zero, c.plus, c.space, c.alt, c.star} \subseteq BOOLEAN
  /\ c.width \in Int /\ c.prec \in Int /\ c.modifier \in {<<>>, <<"l">>, <<"l", "l">>}
  /\ c.spec \in {"c", "d", "p", "s", "u", "x", "X"} /\ (c.width < 0 => c.star)
  /\ CASE c.spec = "s" -> c.arg \in Text
       [] c.spec = "c" -> c.arg \in STRING
       [] c.spec = "d" -> c.arg \in Int
       [] c.spec \in {"u", "x", "X", "p"} -> c.arg \in Nat

\* A format that asks for a conversion c.
Spell(c) ==
  <<"%">>
  \o (IF c.left THEN <<"-">> ELSE <<>>) \o (IF c.zero THEN <<"0">> ELSE <<>>)
  \o (IF c.plus THEN <<"+">> ELSE <<>>) \o (IF c.space THEN <<" ">> ELSE <<>>)
  \o (IF c.alt THEN <<"#">> ELSE <<>>)
  \o (IF c.star THEN <<"*">> ELSE IF c.width = 0 THEN <<>> ELSE BufPutInt(c.width))
  \o (IF c.prec < 0 THEN <<>> ELSE <<".">> \o IF c.star THEN <<"*">> ELSE BufPutInt(c.prec))
  \o c.modifier \o <<c.spec>>

Arguments(c) ==
  (IF c.star THEN <<c.width>> ELSE <<>>)
  \o (IF c.star /\ c.prec >= 0 THEN <<c.prec>> ELSE <<>>) \o <<c.arg>>

\* The number that digits denote.
ValueOf(digits, base) ==
  LET value[n \in 0 .. Len(digits)] ==
        IF n = 0 THEN 0
        ELSE value[n - 1] * base
             + (CHOOSE d \in 0 .. base - 1 :
                  \E upper \in BOOLEAN : DigitChar[upper][d + 1] = digits[n])
  IN  value[Len(digits)]

\* How many digits a zero has before precision asks for more.  The C standard asks for
\* none with precision 0; print_signed (printf.c:114) prints one.
ZeroDigits(c) == IF c.prec = 0 /\ c.spec # "d" THEN 0 ELSE 1

\* out is: spaces, a sign or prefix, zeros, the shortest digits, spaces.  Precision
\* asks for digits, width for characters; '-' fills on the right, '0' with zeros
\* unless a precision or '-' is given.
NumberPrinted(c, out) ==
  LET signed == c.spec = "d"
      base == IF c.spec \in {"d", "u"} THEN 10 ELSE 16
      magnitude == IF c.arg < 0 THEN -c.arg ELSE c.arg
      lead == IF signed THEN (IF c.arg < 0 THEN <<"-">> ELSE IF c.plus THEN <<"+">>
                              ELSE IF c.space THEN <<" ">> ELSE <<>>)
              ELSE IF base = 16 /\ c.arg # 0 /\ (c.alt \/ c.spec = "p")
                THEN <<"0", IF c.spec = "X" THEN "X" ELSE "x">> ELSE <<>>
      left == c.left \/ c.width < 0
      width == IF c.width < 0 THEN -c.width ELSE c.width
  IN  \E before, zeros, n \in 0 .. Len(out) :
        LET after == Len(out) - (before + Len(lead) + zeros + n)
            digits == SubSeq(out, before + Len(lead) + zeros + 1,
                             before + Len(lead) + zeros + n)
            core == Longer(c.prec, n) + Len(lead)
        IN  /\ after >= 0
            /\ out = Pad(before, " ") \o lead \o Pad(zeros, "0") \o digits \o Pad(after, " ")
            /\ \A k \in DOMAIN digits :
                 \E d \in 1 .. base : digits[k] = DigitChar[c.spec = "X"][d]
            /\ ValueOf(digits, base) = magnitude
            /\ IF c.arg = 0 THEN n = ZeroDigits(c)
                            ELSE n > 0 /\ digits[1] # "0"
            /\ Len(out) = Longer(width, core)
            /\ before > 0 => ~left /\ (c.zero => c.prec >= 0)
            /\ after > 0 => left
            /\ (left \/ c.prec >= 0 \/ ~c.zero) => zeros = core - Len(lead) - n

\* A string, cut to the precision, in a field of the width.
StringPrinted(c, s, out) ==
  LET shown == IF c.prec >= 0 THEN SubSeq(s, 1, IF c.prec < Len(s) THEN c.prec ELSE Len(s))
                              ELSE s
      fill == Pad((IF c.width < 0 THEN -c.width ELSE c.width) - Len(shown), " ")
  IN  out = IF c.left \/ c.width < 0 THEN shown \o fill ELSE fill \o shown
===============================================================================

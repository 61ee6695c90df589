----------------------------- MODULE ConsoleProofs -----------------------------
(***************************************************************************)
(* Proofs about the cursor and the line buffer, for every size of screen   *)
(* and line, every set of keys and every interleaving of main's accesses   *)
(* with the handlers.                                                      *)
(*                                                                         *)
(* CursorInv says, for each place of main in terminal_putchar, which half  *)
(* of the cursor may be off the screen; LineInv relates the buffer to what *)
(* was typed, between the two stores of line_reset too.                    *)
(***************************************************************************)
EXTENDS Console, TLAPS

\* Only between the store of the row and terminal_scroll is the row below the
\* screen, and only between the store of the column and its reset is the column
\* beyond it; what main holds in registers was read on the screen.
CursorInv ==
  /\ pc # "full" => cursor.col < Width
  /\ pc # "scroll" /\ ~torn => cursor.row < Height
  /\ pc = "column" => reg.col < Width
  /\ pc \in {"row", "column", "full", "newline"} /\ ~torn => reg.row < Height
  /\ pc # "out" => cursor.row < Height + Overrun + 3 /\ reg.row < Height + Overrun + 3
  /\ torn => ~keys

\* The line is terminated at its length, and holds what was typed as long as no
\* key was lost.
LineInv ==
  keys =>
    /\ (phase = "resetBuf" /\ line_len = 0) \/ linebuf[line_len] = Nul
    /\ ~lossy => /\ Len(typed) = line_len
                 /\ phase = "resetBuf" => line_len = 0
                 /\ \A k \in 1 .. line_len : linebuf[k - 1] = typed[k]

\* The shift state is that of the keys held, unless one was released last and others
\* are still held.
ShiftInv == ~rolled => (g_shift <=> held # {})

IInv == TypeOK /\ CursorInv /\ LineInv /\ ShiftInv

Point == [row : Nat, col : Nat]

\* A place on the screen stays on it, whatever is printed; off the screen, a newline
\* goes down one row at most.
LEMMA PutPlace ==
  ASSUME NEW p \in Point
  PROVE  /\ Put(p) \in Point
         /\ Put(p).row <= p.row + 1
         /\ Put(p).col <= p.col + 1
         /\ p.col + 1 < Width => Put(p).row = p.row
         /\ p.col < Width => Put(p).col < Width
         /\ p.row < Height => Put(p).row < Height
BY ConsoleAssumption DEF Put, Newline, Scrolled, At, Point

LEMMA NewlinePlace ==
  ASSUME NEW p \in Point
  PROVE  /\ Newline(p) \in Point
         /\ Newline(p).row <= p.row + 1
         /\ Newline(p).col = 0
         /\ p.row < Height => Newline(p).row < Height
BY ConsoleAssumption DEF Newline, Scrolled, At, Point

LEMMA ErasePlace ==
  ASSUME NEW p \in Point
  PROVE  /\ Erase(p) \in Point
         /\ Erase(p).row <= p.row
         /\ Erase(p).col <= p.col \/ Erase(p).col < Width
BY ConsoleAssumption DEF Erase, At, Point

\* Where a command leaves the cursor, before and after the prompt.
LEMMA CommandPlace ==
  ASSUME NEW p \in Point, NEW after \in Output(Newline(Newline(p)))
  PROVE  /\ after \in Point /\ after.row <= p.row + 3 /\ after.col < Width
         /\ p.row < Height => after.row < Height
         /\ Put(after) \in Point /\ Put(after).row <= p.row + 3 /\ Put(after).col < Width
         /\ p.row < Height => Put(after).row < Height
<1> DEFINE q == Newline(Newline(p))
<1>1. /\ q \in Point /\ q.row <= p.row + 2 /\ q.col = 0
      /\ p.row < Height => q.row < Height
  <2>1. Newline(p) \in Point BY NewlinePlace
  <2> QED BY <2>1, NewlinePlace DEF Point
<1> HIDE DEF q
<1>2. Width \in Nat /\ Width > 1 /\ Height \in Nat /\ Height > 1 BY ConsoleAssumption
<1>3. after \in {q, Put(q), Newline(q), At(q.row, 0), At(0, 0)} BY DEF Output, q
<1>4. CASE after \in {q, At(q.row, 0), At(0, 0)}
  <2>1. /\ after \in Point /\ after.row <= p.row + 2 /\ after.col = 0
        /\ p.row < Height => after.row < Height
    BY <1>1, <1>2, <1>4 DEF Point, At
  <2> QED BY <1>2, <2>1, PutPlace DEF Point
<1>5. CASE after = Put(q)
  <2>1. /\ after \in Point /\ after.row <= p.row + 2 /\ after.col < Width
        /\ p.row < Height => after.row < Height
    BY <1>1, <1>2, <1>5, PutPlace DEF Point
  <2> QED BY <1>2, <2>1, PutPlace DEF Point
<1>6. CASE after = Newline(q)
  <2>1. /\ after \in Point /\ after.row <= p.row + 3 /\ after.col = 0
        /\ p.row < Height => after.row < Height
    BY <1>1, <1>2, <1>6, NewlinePlace DEF Point
  <2>2. after.col + 1 < Width \/ after.col + 1 = Width BY <1>2, <2>1
  <2>3. Put(after).row = after.row
    BY <1>2, <2>1, PutPlace DEF Point
  <2> QED BY <1>2, <2>1, <2>3, PutPlace DEF Point
<1> QED BY <1>3, <1>4, <1>5, <1>6

-------------------------------------------------------------------------------
LEMMA Initially == Init => IInv
<1> SUFFICES ASSUME Init PROVE IInv OBVIOUS
<1>1. Width \in Nat /\ Width > 1 /\ Height \in Nat /\ Height > 1 /\ LineMax \in Nat /\ LineMax > 1
      /\ Overrun \in Nat
  BY ConsoleAssumption
<1>2. TypeOK BY <1>1 DEF Init, TypeOK, Places, At
<1>3. CursorInv BY <1>1 DEF Init, CursorInv, At
<1>4. LineInv BY <1>1 DEF Init, LineInv
<1>5. ShiftInv BY DEF Init, ShiftInv
<1> QED BY <1>2, <1>3, <1>4, <1>5 DEF IInv

LEMMA Sizes ==
  /\ Width \in Nat /\ Width > 1 /\ Height \in Nat /\ Height > 1
  /\ LineMax \in Nat /\ LineMax > 1 /\ Overrun \in Nat /\ Nul \notin Chars
BY ConsoleAssumption DEF Chars

LEMMA CursorPoint ==
  ASSUME TypeOK PROVE cursor \in Point /\ reg \in Point
BY Sizes DEF TypeOK, Places, Point

\* Keys without a character.
ModifierKey ==
  \/ CapsLock \/ ExtendedPrefix \/ ExtendedKey
  \/ \E s \in Shifts, released \in BOOLEAN : ShiftKey(s, released)

LEMMA ModifierKeeps == ModifierKey => UNCHANGED <<terminal, main, line>>
BY DEF ModifierKey, CapsLock, ExtendedPrefix, ExtendedKey, ShiftKey

\* The cursor, by the handlers and by main.
LEMMA CursorHandled ==
  ASSUME IInv, Handler
  PROVE  CursorInv' /\ cursor' \in Places /\ reg' \in Places
<1> USE Sizes
<1>0. TypeOK /\ CursorInv BY DEF IInv
<1>1. cursor \in Point /\ reg \in Point BY <1>0, CursorPoint
<1>2. CASE Dot
  <2>1. cursor' = Put(cursor) /\ UNCHANGED <<pc, reg, keys, torn>>
        /\ cursor.row < Height + Overrun /\ cursor.col < Width + Overrun
    BY <1>2 DEF Dot, Followed, main
  <2>2. cursor' \in Point /\ cursor'.row <= cursor.row + 1 /\ cursor'.col <= cursor.col + 1
        /\ (cursor.col < Width => cursor'.col < Width)
        /\ (cursor.row < Height => cursor'.row < Height)
    BY <1>1, <2>1, PutPlace
  <2>3. cursor' \in Places BY <1>1, <2>1, <2>2 DEF Places, Point
  <2>4. CursorInv' BY <1>0, <1>1, <2>1, <2>2 DEF CursorInv, Point
  <2> QED BY <1>0, <2>1, <2>3, <2>4 DEF TypeOK
<1>3. CASE KeyBackspace
  <2>1. cursor' = Erase(cursor) /\ UNCHANGED <<pc, reg, keys, torn>>
    BY <1>3 DEF KeyBackspace, main
  <2>2. cursor' \in Point /\ cursor'.row <= cursor.row
        /\ (cursor'.col <= cursor.col \/ cursor'.col < Width)
    BY <1>1, <2>1, ErasePlace
  <2>3. cursor' \in Places BY <1>0, <1>1, <2>2 DEF TypeOK, Places, Point
  <2>4. CursorInv' BY <1>0, <1>1, <2>1, <2>2 DEF CursorInv, Point
  <2> QED BY <1>0, <2>1, <2>3, <2>4 DEF TypeOK
<1>4. CASE KeyEnter
  <2>1. UNCHANGED <<pc, reg, keys, torn>> /\ cursor.row < Height + Overrun
        /\ \/ \E after \in Output(Newline(Newline(cursor))) : cursor' = Put(after)
           \/ cursor' = Newline(cursor)
    BY <1>4 DEF KeyEnter, Followed, main
  <2>2. cursor' \in Point /\ cursor'.row <= cursor.row + 3 /\ cursor'.col < Width
        /\ (cursor.row < Height => cursor'.row < Height)
    BY <1>1, <2>1, CommandPlace, NewlinePlace DEF Point
  <2>3. cursor' \in Places BY <1>1, <2>1, <2>2 DEF Places, Point
  <2>4. CursorInv' BY <1>0, <1>1, <2>1, <2>2 DEF CursorInv, Point
  <2> QED BY <1>0, <2>1, <2>3, <2>4 DEF TypeOK
<1>5. CASE KeyExec
  <2>1. /\ cursor.row < Height + Overrun
        /\ \E after \in Output(Newline(Newline(cursor))) : cursor' = after
        /\ pc' = "out" /\ reg' = At(0, 0) /\ torn' = (pc = "scroll")
        /\ keys
    BY <1>5 DEF KeyExec, KeyByte, Followed
  <2>6. ~keys' BY <1>5 DEF KeyExec
  <2>7. ~torn' => pc # "scroll" BY <2>1, Zenon
  <2>8. ~torn' => cursor.row < Height BY <1>0, <2>1, <2>7 DEF CursorInv
  <2>2. cursor' \in Point /\ cursor'.row <= cursor.row + 3 /\ cursor'.col < Width
        /\ (cursor.row < Height => cursor'.row < Height)
    BY <1>1, <2>1, CommandPlace
  <2>3. cursor' \in Places BY <1>1, <2>1, <2>2 DEF Places, Point
  <2>4. CursorInv' BY <2>1, <2>2, <2>6, <2>8 DEF CursorInv
  <2>5. reg' \in Places BY <2>1 DEF Places, At
  <2> QED BY <2>3, <2>4, <2>5
<1>6. CASE \E k \in Keys : KeyChar(k)
  <2>1. cursor' = Put(cursor) /\ UNCHANGED <<pc, reg, keys, torn>>
        /\ cursor.row < Height + Overrun /\ cursor.col < Width + Overrun
    BY <1>6 DEF KeyChar, Followed, main
  <2>2. cursor' \in Point /\ cursor'.row <= cursor.row + 1 /\ cursor'.col <= cursor.col + 1
        /\ (cursor.col < Width => cursor'.col < Width)
        /\ (cursor.row < Height => cursor'.row < Height)
    BY <1>1, <2>1, PutPlace
  <2>3. cursor' \in Places BY <1>1, <2>1, <2>2 DEF Places, Point
  <2>4. CursorInv' BY <1>0, <1>1, <2>1, <2>2 DEF CursorInv, Point
  <2> QED BY <1>0, <2>1, <2>3, <2>4 DEF TypeOK
<1>7. CASE ModifierKey
  <2>1. UNCHANGED <<cursor, pc, reg, keys, torn>>
    BY <1>7, ModifierKeeps DEF terminal, main
  <2> QED BY <1>0, <2>1 DEF CursorInv, TypeOK
<1> QED BY <1>2, <1>3, <1>4, <1>5, <1>6, <1>7 DEF Handler, ModifierKey

LEMMA CursorMain ==
  ASSUME IInv, Main
  PROVE  CursorInv' /\ cursor' \in Places /\ reg' \in Places
<1> USE Sizes DEF At
<1>0. TypeOK /\ CursorInv BY DEF IInv
<1>1. cursor \in Point /\ reg \in Point /\ cursor \in Places /\ reg \in Places
  BY <1>0, CursorPoint DEF TypeOK
<1>2. CASE LoadRow
  <2>1. cursor' = cursor /\ UNCHANGED <<keys, torn>> /\ reg' = [reg EXCEPT !.row = cursor.row]
        /\ pc' = "row" /\ pc = "out" /\ cursor.row < Height + Overrun
    BY <1>2 DEF LoadRow, Access, main, Followed
  <2> QED BY <1>0, <1>1, <2>1 DEF CursorInv, Places, Point
<1>3. CASE LoadColumn
  <2>1. cursor' = cursor /\ UNCHANGED <<keys, torn>> /\ reg' = [reg EXCEPT !.col = cursor.col]
        /\ pc' = "column" /\ pc = "row"
    BY <1>3 DEF LoadColumn, Access, main
  <2> QED BY <1>0, <1>1, <2>1 DEF CursorInv, Places, Point
<1>4. CASE StoreColumn
  <2>1. UNCHANGED <<keys, torn>> /\ cursor' = [cursor EXCEPT !.col = reg.col + 1]
        /\ pc = "column"
        /\ \/ pc' = "full" /\ reg' = reg
           \/ pc' = "out" /\ reg.col + 1 # Width /\ reg' = At(0, 0)
    BY <1>4 DEF StoreColumn, Access, main
  <2> QED BY <1>0, <1>1, <2>1 DEF CursorInv, Places, Point
<1>5. CASE ZeroColumn
  <2>1. UNCHANGED <<reg, keys, torn>> /\ cursor' = [cursor EXCEPT !.col = 0]
        /\ pc \in {"row", "column", "full"} /\ pc' = "newline"
    BY <1>5 DEF ZeroColumn, Access, main
  <2> QED BY <1>0, <1>1, <2>1 DEF CursorInv, Places, Point
<1>6. CASE ReloadRow
  <2>1. UNCHANGED <<cursor, pc, keys, torn>> /\ reg' = [reg EXCEPT !.row = cursor.row]
        /\ pc = "newline"
    BY <1>6 DEF ReloadRow, Access, main
  <2> QED BY <1>0, <1>1, <2>1 DEF CursorInv, Places, Point
<1>7. CASE StoreRow
  <2>1. UNCHANGED <<keys, torn>> /\ cursor' = [cursor EXCEPT !.row = reg.row + 1]
        /\ pc = "newline" /\ reg' = At(0, 0)
        /\ \/ pc' = "scroll" /\ reg.row + 1 = Height
           \/ pc' = "out" /\ reg.row + 1 # Height
    BY <1>7 DEF StoreRow, Access, main
  <2> QED BY <1>0, <1>1, <2>1 DEF CursorInv, Places, Point
<1>8. CASE ScrollRow
  <2>1. UNCHANGED <<reg, keys, torn>> /\ cursor' = [cursor EXCEPT !.row = Height - 1]
        /\ pc = "scroll" /\ pc' = "scrolled"
    BY <1>8 DEF ScrollRow, Access, main
  <2> QED BY <1>0, <1>1, <2>1 DEF CursorInv, Places, Point
<1>9. CASE ScrollColumn
  <2>1. UNCHANGED <<reg, keys, torn>> /\ cursor' = [cursor EXCEPT !.col = 0]
        /\ pc = "scrolled" /\ pc' = "out"
    BY <1>9 DEF ScrollColumn, Access, main
  <2> QED BY <1>0, <1>1, <2>1 DEF CursorInv, Places, Point
<1>10. CASE (\E on \in BOOLEAN : EnableShell(on)) \/ ResetLength \/ ResetBuffer
  <2>1. UNCHANGED <<cursor, pc, reg, keys, torn>>
    BY <1>10 DEF EnableShell, ResetLength, ResetBuffer, terminal
  <2> QED BY <1>0, <1>1, <2>1 DEF CursorInv
<1> QED BY <1>2, <1>3, <1>4, <1>5, <1>6, <1>7, <1>8, <1>9, <1>10 DEF Main

-------------------------------------------------------------------------------
\* The line, by the handlers.
LEMMA LineHandled ==
  ASSUME IInv, Handler
  PROVE  /\ LineInv'
         /\ linebuf' \in [0 .. LineMax - 1 -> Chars \union {Nul}]
         /\ line_len' \in 0 .. LineMax - 1
         /\ typed' \in Seq(Chars)
<1> USE Sizes
<1>0. TypeOK /\ LineInv /\ ShiftInv BY DEF IInv
<1>1. CASE Dot
  BY <1>0, <1>1 DEF Dot, main, line, TypeOK, LineInv
<1>2. CASE KeyExec
  <2>1. UNCHANGED <<linebuf, line_len, typed>> /\ ~keys' BY <1>2 DEF KeyExec, line
  <2> QED BY <1>0, <2>1 DEF TypeOK, LineInv
<1>3. CASE KeyEnter
  <2>1. /\ line_len' = 0 /\ linebuf' = [linebuf EXCEPT ![0] = Nul]
        /\ typed' = <<>> /\ UNCHANGED <<phase, keys>>
    BY <1>3 DEF KeyEnter, main
  <2>2. linebuf' \in [0 .. LineMax - 1 -> Chars \union {Nul}] /\ linebuf'[0] = Nul
    BY <1>0, <2>1 DEF TypeOK
  <2> QED BY <2>1, <2>2 DEF LineInv
<1>4. CASE KeyBackspace
  <2>1. /\ keys /\ line_len > 0 /\ line_len' = line_len - 1
        /\ linebuf' = [linebuf EXCEPT ![line_len'] = Nul]
        /\ typed' = (IF lossy THEN <<>> ELSE Front(typed)) /\ UNCHANGED <<phase, keys, lossy>>
    BY <1>4 DEF KeyBackspace, KeyByte, main
  <2>2. /\ linebuf' \in [0 .. LineMax - 1 -> Chars \union {Nul}]
        /\ line_len \in 1 .. LineMax - 1 /\ line_len' \in 0 .. LineMax - 1
        /\ linebuf'[line_len'] = Nul
        /\ \A k \in 1 .. line_len' : linebuf'[k - 1] = linebuf[k - 1]
    BY <1>0, <2>1 DEF TypeOK
  <2>3. CASE lossy
    <3>1. typed' = <<>> /\ lossy' BY <2>1, <2>3
    <3> QED BY <2>1, <2>2, <3>1 DEF LineInv
  <2>4. CASE ~lossy
    <3>1. /\ typed \in Seq(Chars) /\ Len(typed) = line_len /\ phase # "resetBuf"
          /\ \A k \in 1 .. line_len : linebuf[k - 1] = typed[k]
      BY <1>0, <2>1, <2>2, <2>4 DEF TypeOK, LineInv
    <3>2. typed' = SubSeq(typed, 1, Len(typed) - 1) BY <2>1, <2>4 DEF Front
    <3>3. /\ typed' \in Seq(Chars) /\ Len(typed') = line_len'
          /\ \A k \in 1 .. line_len' : typed'[k] = typed[k]
      BY <2>1, <2>2, <3>1, <3>2
    <3> QED BY <2>1, <2>2, <3>1, <3>3 DEF LineInv
  <2> QED BY <2>3, <2>4
<1>5. ASSUME NEW key \in Keys, KeyChar(key) PROVE
         /\ LineInv'
         /\ linebuf' \in [0 .. LineMax - 1 -> Chars \union {Nul}]
         /\ line_len' \in 0 .. LineMax - 1
         /\ typed' \in Seq(Chars)
  <2> DEFINE c == Char(key)
  <2>1. keys /\ Pushed(c) /\ UNCHANGED <<phase, keys>>
        /\ lossy' = (lossy \/ line_len' = line_len \/ phase = "resetBuf" \/ rolled)
        /\ typed' = IF lossy' THEN <<>> ELSE Append(typed, Meant(key))
    BY <1>5 DEF KeyChar, KeyByte, main
  <2>2. ~lossy' => ~lossy /\ line_len' # line_len /\ phase # "resetBuf" /\ ~rolled
    BY <2>1, Zenon
  <2>6. c \in Chars BY <1>0 DEF Char, Cased, Chars, TypeOK
  <2>7. ~lossy' => Meant(key) = c
    <3>1. ~rolled => g_shift = (held # {}) BY <1>0 DEF ShiftInv, TypeOK
    <3> QED BY <2>2, <3>1 DEF Char, Meant
  <2> HIDE DEF c
  <2>3. line_len \in 0 .. LineMax - 1
        /\ linebuf \in [0 .. LineMax - 1 -> Chars \union {Nul}] /\ typed \in Seq(Chars)
    BY <1>0 DEF TypeOK
  <2>4. CASE line_len >= LineMax - 1
    <3>1. UNCHANGED <<linebuf, line_len>> BY <2>1, <2>4 DEF Pushed
    <3>2. lossy' /\ typed' = <<>> BY <2>1, <2>2, <3>1
    <3>3. linebuf[line_len] = Nul BY <1>0, <2>1, <2>3, <2>4 DEF LineInv
    <3> QED BY <2>1, <2>3, <3>1, <3>2, <3>3 DEF LineInv
  <2>5. CASE ~(line_len >= LineMax - 1)
    <3>1. /\ line_len' = line_len + 1
          /\ linebuf' = [linebuf EXCEPT ![line_len] = c, ![line_len + 1] = Nul]
      BY <2>1, <2>5 DEF Pushed
    <3>2. /\ line_len' \in 0 .. LineMax - 1
          /\ linebuf' \in [0 .. LineMax - 1 -> Chars \union {Nul}]
          /\ linebuf'[line_len'] = Nul /\ linebuf'[line_len] = c
          /\ \A k \in 1 .. line_len : linebuf'[k - 1] = linebuf[k - 1]
      BY <2>3, <2>5, <2>6, <3>1
    <3>3. CASE lossy'
      <4>1. typed' = <<>> BY <2>1, <3>3
      <4> QED BY <3>2, <3>3, <4>1 DEF LineInv
    <3>4. CASE ~lossy'
      <4>1. /\ Len(typed) = line_len /\ phase # "resetBuf"
            /\ \A k \in 1 .. line_len : linebuf[k - 1] = typed[k]
        BY <1>0, <2>1, <2>2, <3>4 DEF LineInv
      <4>2. typed' = Append(typed, c) BY <2>1, <2>7, <3>4
      <4>3. typed' \in Seq(Chars) /\ Len(typed') = line_len'
            /\ typed'[line_len'] = c /\ \A k \in 1 .. line_len : typed'[k] = typed[k]
        BY <2>3, <2>6, <3>1, <4>1, <4>2
      <4>4. \A k \in 1 .. line_len' : linebuf'[k - 1] = typed'[k]
        <5>1. TAKE k \in 1 .. line_len'
        <5>2. k \in 1 .. line_len \/ k = line_len + 1 BY <2>3, <3>1
        <5>3. CASE k \in 1 .. line_len BY <3>2, <4>1, <4>3, <5>3
        <5>4. CASE k = line_len + 1 BY <2>3, <3>1, <3>2, <4>3, <5>4
        <5> QED BY <5>2, <5>3, <5>4
      <4> QED BY <2>1, <3>2, <4>1, <4>3, <4>4 DEF LineInv
    <3> QED BY <3>3, <3>4
  <2> QED BY <2>4, <2>5
<1>6. CASE ModifierKey
  <2>1. UNCHANGED <<main, line>> BY <1>6, ModifierKeeps
  <2> QED BY <1>0, <2>1 DEF main, line, TypeOK, LineInv
<1> QED BY <1>1, <1>2, <1>3, <1>4, <1>5, <1>6 DEF Handler, ModifierKey

LEMMA LineMain ==
  ASSUME IInv, Main
  PROVE  /\ LineInv'
         /\ linebuf' \in [0 .. LineMax - 1 -> Chars \union {Nul}]
         /\ line_len' \in 0 .. LineMax - 1
         /\ typed' \in Seq(Chars)
<1> USE Sizes
<1>0. TypeOK /\ LineInv BY DEF IInv
<1>1. CASE \/ LoadRow \/ LoadColumn \/ StoreColumn \/ ZeroColumn
           \/ ReloadRow \/ StoreRow \/ ScrollRow \/ ScrollColumn
  <2>1. UNCHANGED <<main, line>>
    BY <1>1 DEF LoadRow, LoadColumn, StoreColumn, ZeroColumn, ReloadRow, StoreRow,
                ScrollRow, ScrollColumn, Access
  <2> QED BY <1>0, <2>1 DEF main, line, TypeOK, LineInv
<1>2. CASE \E on \in BOOLEAN : EnableShell(on)
  <2>1. UNCHANGED <<keys, linebuf, line_len, typed, lossy>> /\ phase = "boot" /\ phase' = "done"
    BY <1>2 DEF EnableShell
  <2> QED BY <1>0, <2>1 DEF TypeOK, LineInv
<1>3. CASE ResetLength
  <2>1. UNCHANGED <<keys, linebuf>> /\ phase = "done"
        /\ \/ line_len' = 0 /\ typed' = <<>> /\ phase' = "resetBuf"
           \/ UNCHANGED <<line_len, typed, lossy>> /\ phase' = "idle"
    BY <1>3 DEF ResetLength
  <2> QED BY <1>0, <2>1 DEF TypeOK, LineInv
<1>4. CASE ResetBuffer
  <2>1. UNCHANGED <<keys, line_len, typed, lossy>> /\ phase = "resetBuf" /\ phase' = "idle"
        /\ linebuf' = [linebuf EXCEPT ![0] = Nul]
    BY <1>4 DEF ResetBuffer
  <2>2. /\ linebuf' \in [0 .. LineMax - 1 -> Chars \union {Nul}] /\ linebuf'[0] = Nul
        /\ \A k \in 1 .. LineMax - 1 : linebuf'[k] = linebuf[k]
    BY <1>0, <2>1 DEF TypeOK
  <2>3. line_len = 0 \/ line_len \in 1 .. LineMax - 1 BY <1>0 DEF TypeOK
  <2>4. keys => linebuf'[line_len] = Nul BY <1>0, <2>1, <2>2, <2>3 DEF LineInv
  <2>5. keys /\ ~lossy => line_len = 0 /\ Len(typed) = 0
    BY <1>0, <2>1 DEF LineInv
  <2> QED BY <1>0, <2>1, <2>2, <2>4, <2>5 DEF TypeOK, LineInv
<1> QED BY <1>1, <1>2, <1>3, <1>4 DEF Main

-------------------------------------------------------------------------------
\* The rest of the type invariant.
LEMMA ControlTypes ==
  ASSUME TypeOK, Handler \/ Main
  PROVE  /\ pc' \in {"out", "row", "column", "full", "newline", "scroll", "scrolled"}
         /\ phase' \in {"boot", "done", "resetBuf", "idle"}
         /\ keys' \in BOOLEAN /\ torn' \in BOOLEAN
         /\ shell_enabled' \in BOOLEAN /\ lossy' \in BOOLEAN
<1> USE DEF TypeOK
<1>1. CASE Dot BY <1>1 DEF Dot, main, line
<1>2. CASE KeyBackspace BY <1>2 DEF KeyBackspace, main
<1>3. CASE KeyEnter BY <1>3 DEF KeyEnter, main
<1>4. CASE KeyExec BY <1>4 DEF KeyExec, line
<1>5. CASE \E k \in Keys : KeyChar(k) BY <1>5 DEF KeyChar, main
<1>6. CASE LoadRow BY <1>6 DEF LoadRow, Access, main, line
<1>7. CASE LoadColumn BY <1>7 DEF LoadColumn, Access, main, line
<1>8. CASE StoreColumn BY <1>8 DEF StoreColumn, Access, main, line
<1>9. CASE ZeroColumn BY <1>9 DEF ZeroColumn, Access, main, line
<1>10. CASE ReloadRow BY <1>10 DEF ReloadRow, Access, main, line
<1>11. CASE StoreRow BY <1>11 DEF StoreRow, Access, main, line
<1>12. CASE ScrollRow BY <1>12 DEF ScrollRow, Access, main, line
<1>13. CASE ScrollColumn BY <1>13 DEF ScrollColumn, Access, main, line
<1>14. CASE \E on \in BOOLEAN : EnableShell(on) BY <1>14 DEF EnableShell, terminal
<1>15. CASE ResetLength BY <1>15 DEF ResetLength, terminal
<1>16. CASE ResetBuffer BY <1>16 DEF ResetBuffer, terminal
<1>17. CASE ModifierKey BY <1>17, ModifierKeeps DEF terminal, main, line
<1> QED
  BY <1>1, <1>2, <1>3, <1>4, <1>5, <1>6, <1>7, <1>8, <1>9, <1>10, <1>11, <1>12, <1>13,
     <1>14, <1>15, <1>16, <1>17 DEF Handler, ModifierKey, Main

\* The modifiers, which only their keys change.
LEMMA ShiftKept ==
  ASSUME IInv, Handler \/ Main
  PROVE  /\ ShiftInv'
         /\ g_shift' \in BOOLEAN /\ g_caps' \in BOOLEAN /\ e0' \in BOOLEAN
         /\ held' \subseteq Shifts /\ rolled' \in BOOLEAN
<1>0. TypeOK /\ ShiftInv BY DEF IInv
<1>1. CASE UNCHANGED modifiers BY <1>0, <1>1 DEF modifiers, TypeOK, ShiftInv
<1>2. CASE CapsLock \/ ExtendedPrefix \/ ExtendedKey
  <2>1. UNCHANGED <<g_shift, held, rolled>> BY <1>2 DEF CapsLock, ExtendedPrefix, ExtendedKey
  <2>2. g_caps' \in BOOLEAN /\ e0' \in BOOLEAN
    BY <1>0, <1>2 DEF CapsLock, ExtendedPrefix, ExtendedKey, TypeOK
  <2> QED BY <1>0, <2>1, <2>2 DEF TypeOK, ShiftInv
<1>3. ASSUME NEW s \in Shifts, NEW released \in BOOLEAN, ShiftKey(s, released)
      PROVE  /\ ShiftInv'
             /\ g_shift' \in BOOLEAN /\ g_caps' \in BOOLEAN /\ e0' \in BOOLEAN
             /\ held' \subseteq Shifts /\ rolled' \in BOOLEAN
  <2>1. /\ g_shift' = ~released /\ rolled' = (released /\ held' # {})
        /\ held' = IF released THEN held \ {s} ELSE held \union {s}
        /\ UNCHANGED <<g_caps, e0>>
    BY <1>3 DEF ShiftKey
  <2>2. held' \subseteq Shifts /\ (~released => held' # {}) BY <1>0, <2>1 DEF TypeOK
  <2>3. g_shift' \in BOOLEAN /\ rolled' \in BOOLEAN BY <2>1
  <2>4. ShiftInv' BY <2>1, <2>2, Zenon DEF ShiftInv
  <2> QED BY <1>0, <2>1, <2>2, <2>3, <2>4 DEF TypeOK
<1>4. CASE Dot \/ KeyBackspace \/ KeyEnter \/ KeyExec \/ \E k \in Keys : KeyChar(k)
  BY <1>1, <1>4 DEF Dot, KeyBackspace, KeyEnter, KeyExec, KeyChar, KeyByte
<1>5. CASE Main
  BY <1>1, <1>5 DEF Main, LoadRow, LoadColumn, StoreColumn, ZeroColumn, ReloadRow,
     StoreRow, ScrollRow, ScrollColumn, Access, EnableShell, ResetLength, ResetBuffer
<1> QED BY <1>2, <1>3, <1>4, <1>5 DEF Handler

LEMMA Inductive == IInv /\ [Next]_vars => IInv'
<1> SUFFICES ASSUME IInv, [Next]_vars PROVE IInv' OBVIOUS
<1>1. CASE Handler \/ Main
  <2>1. CursorInv' /\ cursor' \in Places /\ reg' \in Places BY <1>1, CursorHandled, CursorMain
  <2>2. /\ LineInv' /\ linebuf' \in [0 .. LineMax - 1 -> Chars \union {Nul}]
        /\ line_len' \in 0 .. LineMax - 1 /\ typed' \in Seq(Chars)
    BY <1>1, LineHandled, LineMain
  <2>4. /\ ShiftInv' /\ g_shift' \in BOOLEAN /\ g_caps' \in BOOLEAN /\ e0' \in BOOLEAN
        /\ held' \subseteq Shifts /\ rolled' \in BOOLEAN
    BY <1>1, ShiftKept
  <2>5. TypeOK BY DEF IInv
  <2>3. TypeOK' BY <1>1, <2>1, <2>2, <2>4, <2>5, ControlTypes DEF TypeOK, Places
  <2> QED BY <2>1, <2>2, <2>3, <2>4 DEF IInv
<1>2. CASE UNCHANGED vars
  BY <1>2 DEF vars, terminal, main, line, modifiers, IInv, TypeOK, Places, CursorInv, LineInv,
     ShiftInv
<1> QED BY <1>1, <1>2 DEF Next

LEMMA Invariance == Spec => []IInv
BY Initially, Inductive, PTL DEF Spec

\* The type invariant; its bound on line_len is that the line stays in its buffer.
THEOREM TypeCorrect == Spec => []TypeOK
<1>1. IInv => TypeOK BY DEF IInv
<1> QED BY <1>1, Invariance, PTL

\* The cursor is on the screen whenever main is not printing (tty.c:60-78), for
\* every order of main's accesses and the handlers'.
THEOREM CursorRecovers == Spec => []CursorSettles
<1>1. IInv => CursorSettles BY DEF IInv, CursorInv, CursorSettles
<1> QED BY <1>1, Invariance, PTL

\* The line is terminated at its length, and the C string in the buffer is what was
\* typed (keyboard.c:149).
THEOREM LineKept == Spec => []LineIsTyped
<1>1. ASSUME IInv PROVE LineIsTyped
  <2> SUFFICES ASSUME keys, ~lossy, phase # "resetBuf" PROVE Text = typed
    BY <1>1 DEF LineIsTyped, IInv, LineInv
  <2> DEFINE Ends(k) == /\ k = LineMax \/ linebuf[k] = Nul
                        /\ \A j \in 0 .. k - 1 : linebuf[j] # Nul
  <2>1. /\ Len(typed) = line_len /\ linebuf[line_len] = Nul
        /\ \A k \in 1 .. line_len : linebuf[k - 1] = typed[k]
        /\ line_len \in 0 .. LineMax - 1 /\ typed \in Seq(Chars) /\ LineMax \in Nat
        /\ Nul \notin Chars
    BY <1>1, Sizes DEF IInv, LineInv, TypeOK
  <2>2. \A j \in 0 .. line_len - 1 : linebuf[j] # Nul
    <3>1. TAKE j \in 0 .. line_len - 1
    <3>2. j + 1 \in 1 .. line_len /\ (j + 1) - 1 = j BY <2>1
    <3>3. linebuf[j] = typed[j + 1] /\ typed[j + 1] \in Chars BY <2>1, <3>2
    <3> QED BY <2>1, <3>3
  <2>3. line_len \in 0 .. LineMax /\ Ends(line_len) BY <2>1, <2>2
  <2>4. ASSUME NEW k \in 0 .. LineMax, Ends(k) PROVE k = line_len
    <3>1. CASE k < line_len
      <4>1. k \in 0 .. line_len - 1 /\ k # LineMax BY <2>1, <3>1
      <4> QED BY <2>2, <2>4, <4>1
    <3>2. CASE k > line_len
      <4>1. line_len \in 0 .. k - 1 BY <2>1, <3>2
      <4> QED BY <2>1, <2>4, <4>1
    <3> QED BY <2>1, <3>1, <3>2
  <2> DEFINE n == CHOOSE k \in 0 .. LineMax : Ends(k)
  <2>5. n = line_len
    <3>1. n \in 0 .. LineMax /\ Ends(n) BY <2>3
    <3> HIDE DEF n, Ends
    <3> QED BY <2>4, <3>1
  <2>6. Text = [k \in 1 .. n |-> linebuf[k - 1]] BY DEF Text
  <2>7. Text = [k \in 1 .. line_len |-> typed[k]]
    <3> HIDE DEF n
    <3> QED BY <2>1, <2>5, <2>6
  <2>8. typed = [k \in 1 .. Len(typed) |-> typed[k]] BY <2>1
  <2> QED BY <2>1, <2>7, <2>8
<1> QED BY <1>1, Invariance, PTL
===============================================================================

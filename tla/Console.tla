-------------------------------- MODULE Console --------------------------------
(***************************************************************************)
(* The terminal's cursor (tty.c) and the keyboard's line buffer            *)
(* (dev/keyboard.c), shared by code that runs with interrupts on           *)
(* (kernel_main, later exec_return_to_shell: "main" below) and by the      *)
(* handlers that interrupt it.  A handler runs to its end and is one step; *)
(* main's terminal_putchar and line_reset are interrupted between any two  *)
(* accesses of the shared variables.                                       *)
(*                                                                         *)
(* What is on the screen is left out.  A byte from the keyboard is a key's *)
(* press or release, or half of an extended one; a character is a key and  *)
(* which of its two keymaps it is taken from.                              *)
(***************************************************************************)
EXTENDS Naturals, Sequences, SequencesExt

CONSTANTS
  Width, Height,   \* VGA_WIDTH, VGA_HEIGHT
  LineMax,         \* KBD_LINE_MAX
  Keys, Letters,   \* keys with a character; those that Caps Lock applies to
  Shifts,          \* SC_LSHIFT, SC_RSHIFT
  Nul,             \* '\0'
  Overrun          \* bound: rows and columns handlers may go beyond the screen

ASSUME ConsoleAssumption ==
  /\ Width \in Nat \ {0, 1} /\ Height \in Nat \ {0, 1} /\ LineMax \in Nat \ {0, 1}
  /\ Nul \notin Keys \X BOOLEAN
  /\ Overrun \in Nat

VARIABLES
  cursor,         \* terminal_row and terminal_column
  pc, reg,        \* main's place in terminal_putchar ("out": outside), and the
                  \* row and column it holds in registers
  phase,          \* main's place around keyboard_enable_shell
  keys,           \* are keys still served?  Not once a command has entered a program
  torn,           \* was main abandoned with the cursor's row on Height?
  linebuf, line_len,
  shell_enabled,
  typed,          \* the characters meant, less those erased, while nothing is lost
  lossy,          \* has a key been dropped, or come between line_reset's stores,
                  \* or after a shift key was released while another was held?
  g_shift, g_caps, e0,
  held,           \* the shift keys that are held down
  rolled          \* was one of them released last?

terminal == <<cursor, pc, reg>>
main == <<phase, keys, torn>>
line == <<linebuf, line_len, shell_enabled, typed, lossy>>
modifiers == <<g_shift, g_caps, e0, held, rolled>>
vars == <<terminal, main, line, modifiers>>

\* A character: a key, and whether it is taken from keymap_shift.
Chars == Keys \X BOOLEAN

At(r, c) == [row |-> r, col |-> c]

Init ==
  /\ cursor = At(0, 0) /\ pc = "out" /\ reg = At(0, 0)
  /\ phase = "boot" /\ keys = TRUE /\ torn = FALSE
  /\ linebuf = [k \in 0 .. LineMax - 1 |-> Nul]
  /\ line_len = 0
  /\ shell_enabled = FALSE
  /\ typed = <<>> /\ lossy = FALSE
  /\ g_shift = FALSE /\ g_caps = FALSE /\ e0 = FALSE
  /\ held \in SUBSET Shifts /\ rolled = (held # {})

-------------------------------------------------------------------------------
\* terminal_putchar and terminal_backspace, uninterrupted.

\* mutant: a test of the row after it has been passed.
ScrolledLate(cur) == IF cur.row = Height + 1 THEN At(Height - 1, 0) ELSE cur

\* terminal_scroll, when the row has reached the height.
Scrolled(cur) == IF cur.row = Height THEN At(Height - 1, 0) ELSE cur

Newline(cur) == Scrolled(At(cur.row + 1, 0))

Put(cur) == IF cur.col + 1 = Width THEN Newline(cur) ELSE [cur EXCEPT !.col = @ + 1]

Erase(cur) ==
  IF cur.col > 0 THEN [cur EXCEPT !.col = @ - 1]
  ELSE IF cur.row > 0 THEN At(cur.row - 1, Width - 1)
  ELSE cur

\* Where a command's output may leave the cursor: nothing, a character, a newline,
\* a carriage return, or clear.
Output(cur) == {cur, Put(cur), Newline(cur), At(cur.row, 0), At(0, 0)}

-------------------------------------------------------------------------------
\* Handlers.  The cursor is not followed further than Overrun beyond the screen.
Followed ==
  /\ cursor.row < Height + Overrun
  /\ cursor.col < Width + Overrun

\* The timer's dot, or a character that a program writes by a system call.
Dot ==
  /\ Followed
  /\ cursor' = Put(cursor)
  /\ UNCHANGED <<pc, reg, main, line, modifiers>>

\* keyboard_irq for a byte that is no part of an extended key.
KeyByte == keys /\ ~e0 /\ UNCHANGED modifiers

\* mutant: line_push that takes the terminator's place.
PushedOver(c) ==
  IF line_len >= LineMax
    THEN UNCHANGED <<linebuf, line_len>>
    ELSE /\ linebuf' = [linebuf EXCEPT ![line_len] = c, ![line_len + 1] = Nul]
         /\ line_len' = line_len + 1

\* line_push.
Pushed(c) ==
  IF line_len >= LineMax - 1
    THEN UNCHANGED <<linebuf, line_len>>
    ELSE /\ linebuf' = [linebuf EXCEPT ![line_len] = c, ![line_len + 1] = Nul]
         /\ line_len' = line_len + 1

\* The key's character with the modifiers known, and with those that are held.
Cased(k, shift) == <<k, IF k \in Letters THEN shift # g_caps ELSE shift>>
Char(k) == Cased(k, g_shift)
Meant(k) == Cased(k, held # {})

\* keyboard_irq for a character: it is echoed even where line_push drops it.
KeyChar(k) ==
  /\ KeyByte /\ Followed
  /\ cursor' = Put(cursor)
  /\ Pushed(Char(k))
  /\ lossy' = (lossy \/ line_len' = line_len \/ phase = "resetBuf" \/ rolled)
  /\ typed' = IF lossy' THEN <<>> ELSE Append(typed, Meant(k))
  /\ UNCHANGED <<pc, reg, main, shell_enabled>>

\* keyboard_irq for Backspace.
KeyBackspace ==
  /\ KeyByte /\ line_len > 0
  /\ line_len' = line_len - 1
  /\ linebuf' = [linebuf EXCEPT ![line_len'] = Nul]
  /\ cursor' = Erase(cursor)
  /\ typed' = IF lossy THEN <<>> ELSE Front(typed)
  /\ UNCHANGED <<pc, reg, main, shell_enabled, lossy>>

\* mutant: line_reset only after a command.
KeyEnterKeeps ==
  /\ KeyByte /\ Followed
  /\ IF shell_enabled
       THEN /\ \E after \in Output(Newline(Newline(cursor))) : cursor' = Put(after)
            /\ line_len' = 0
            /\ linebuf' = [linebuf EXCEPT ![0] = Nul]
       ELSE /\ cursor' = Newline(cursor)
            /\ UNCHANGED <<line_len, linebuf>>
  /\ typed' = <<>> /\ lossy' = FALSE
  /\ UNCHANGED <<pc, reg, main, shell_enabled>>

\* keyboard_irq for Enter: a newline and, with the shell enabled, shell_on_line's
\* newline, the command's output and the prompt; then line_reset.
KeyEnter ==
  /\ KeyByte /\ Followed
  /\ IF shell_enabled
       THEN \E after \in Output(Newline(Newline(cursor))) : cursor' = Put(after)
       ELSE cursor' = Newline(cursor)
  /\ line_len' = 0
  /\ linebuf' = [linebuf EXCEPT ![0] = Nul]
  /\ typed' = <<>> /\ lossy' = FALSE
  /\ UNCHANGED <<pc, reg, main, shell_enabled>>

\* Enter for an exec that enters a program: neither line_reset nor what was
\* interrupted is ever reached; main is next exec_return_to_shell.
KeyExec ==
  /\ KeyByte /\ Followed /\ shell_enabled /\ linebuf[0] # Nul
  /\ \E after \in Output(Newline(Newline(cursor))) : cursor' = after
  /\ keys' = FALSE
  /\ torn' = (pc = "scroll")
  /\ phase' = "boot" /\ pc' = "out" /\ reg' = At(0, 0)
  /\ UNCHANGED line

\* A shift key; held down, it repeats its press.
ShiftKey(s, released) ==
  /\ keys /\ ~e0
  /\ g_shift' = ~released
  /\ held' = IF released THEN held \ {s} ELSE held \union {s}
  /\ rolled' = (released /\ held' # {})
  /\ UNCHANGED <<terminal, main, line, g_caps, e0>>

CapsLock ==
  /\ keys /\ ~e0
  /\ g_caps' = ~g_caps
  /\ UNCHANGED <<terminal, main, line, g_shift, e0, held, rolled>>

\* 0xE0; the byte after it is ignored, whatever it is.
ExtendedPrefix ==
  /\ keys /\ ~e0
  /\ e0' = TRUE
  /\ UNCHANGED <<terminal, main, line, g_shift, g_caps, held, rolled>>

ExtendedKey ==
  /\ keys /\ e0
  /\ e0' = FALSE
  /\ UNCHANGED <<terminal, main, line, g_shift, g_caps, held, rolled>>

-------------------------------------------------------------------------------
\* Main's terminal_putchar.  The row and column are loaded, in this order, for the
\* character's place.  For the increments the compiled code (-O2) keeps them in
\* registers and the source reads them again: both are allowed.  For the test of the
\* row (line 64) only the compiled code's is: see StoreRow.
Access == UNCHANGED <<main, line, modifiers>>

\* Main prints during boot, "done\n" in keyboard_enable_shell, and the prompt at the
\* end of exec_return_to_shell.
Printing == phase \in {"boot", "done"} \/ (phase = "idle" /\ ~keys)

LoadRow ==
  /\ pc = "out" /\ Printing /\ Followed
  /\ reg' = [reg EXCEPT !.row = cursor.row]
  /\ pc' = "row"
  /\ UNCHANGED cursor /\ Access

LoadColumn ==
  /\ pc = "row"
  /\ reg' = [reg EXCEPT !.col = cursor.col]
  /\ pc' = "column"
  /\ UNCHANGED cursor /\ Access

\* ++terminal_column; where the width is reached its store may be left out.
StoreColumn ==
  /\ pc = "column"
  /\ cursor' = [cursor EXCEPT !.col = reg.col + 1]
  /\ pc' = IF reg.col + 1 = Width THEN "full" ELSE "out"
  /\ reg' = IF reg.col + 1 = Width THEN reg ELSE At(0, 0)
  /\ Access

\* terminal_column = 0, for '\n' or at the width.
ZeroColumn ==
  /\ \/ pc = "row"
     \/ pc = "column" /\ reg.col + 1 = Width
     \/ pc = "full"
  /\ cursor' = [cursor EXCEPT !.col = 0]
  /\ pc' = "newline"
  /\ UNCHANGED reg /\ Access

ReloadRow ==
  /\ pc = "newline"
  /\ reg' = [reg EXCEPT !.row = cursor.row]
  /\ UNCHANGED <<cursor, pc>> /\ Access

\* terminal_row++ and the comparison, which the compiled code makes with the value it
\* stored.  The source reads the row again: built that way, a handler's newline between
\* the two would take the row past the height unnoticed, and leave it there.
StoreRow ==
  /\ pc = "newline"
  /\ cursor' = [cursor EXCEPT !.row = reg.row + 1]
  /\ pc' = IF reg.row + 1 = Height THEN "scroll" ELSE "out"
  /\ reg' = At(0, 0)
  /\ Access

\* The end of terminal_scroll.
ScrollRow ==
  /\ pc = "scroll"
  /\ cursor' = [cursor EXCEPT !.row = Height - 1]
  /\ pc' = "scrolled"
  /\ UNCHANGED reg /\ Access

ScrollColumn ==
  /\ pc = "scrolled"
  /\ cursor' = [cursor EXCEPT !.col = 0]
  /\ pc' = "out"
  /\ UNCHANGED reg /\ Access

-------------------------------------------------------------------------------
\* keyboard_enable_shell, in kernel_main or in exec_return_to_shell.
EnableShell(on) ==
  /\ phase = "boot" /\ pc = "out"
  /\ keys \/ on
  /\ shell_enabled' = on
  /\ phase' = "done"
  /\ UNCHANGED <<terminal, keys, torn, linebuf, line_len, typed, lossy, modifiers>>

\* "done\n" is out; with the shell disabled that is all.
ResetLength ==
  /\ phase = "done" /\ pc = "out"
  /\ IF shell_enabled
       THEN /\ line_len' = 0 /\ phase' = "resetBuf"
            /\ typed' = <<>> /\ lossy' = FALSE
       ELSE /\ phase' = "idle" /\ UNCHANGED <<line_len, typed, lossy>>
  /\ UNCHANGED <<terminal, keys, torn, linebuf, shell_enabled, modifiers>>

ResetBuffer ==
  /\ phase = "resetBuf"
  /\ linebuf' = [linebuf EXCEPT ![0] = Nul]
  /\ phase' = "idle"
  /\ UNCHANGED <<terminal, keys, torn, line_len, shell_enabled, typed, lossy, modifiers>>

-------------------------------------------------------------------------------
Handler ==
  \/ Dot \/ KeyBackspace \/ KeyEnter \/ KeyExec
  \/ CapsLock \/ ExtendedPrefix \/ ExtendedKey
  \/ \E s \in Shifts, released \in BOOLEAN : ShiftKey(s, released)
  \/ \E k \in Keys : KeyChar(k)

Main ==
  \/ LoadRow \/ LoadColumn \/ StoreColumn \/ ZeroColumn \/ ReloadRow \/ StoreRow
  \/ ScrollRow \/ ScrollColumn
  \/ \E on \in BOOLEAN : EnableShell(on)
  \/ ResetLength \/ ResetBuffer

Next == Handler \/ Main

Spec == Init /\ [][Next]_vars

-------------------------------------------------------------------------------
Places == [row : 0 .. Height + Overrun + 3, col : 0 .. Width + Overrun]

\* Types; the line never outgrows its buffer.
TypeOK ==
  /\ cursor \in Places /\ reg \in Places
  /\ pc \in {"out", "row", "column", "full", "newline", "scroll", "scrolled"}
  /\ phase \in {"boot", "done", "resetBuf", "idle"}
  /\ keys \in BOOLEAN /\ torn \in BOOLEAN
  /\ linebuf \in [0 .. LineMax - 1 -> Chars \union {Nul}]
  /\ line_len \in 0 .. LineMax - 1
  /\ shell_enabled \in BOOLEAN
  /\ typed \in Seq(Chars) /\ lossy \in BOOLEAN
  /\ g_shift \in BOOLEAN /\ g_caps \in BOOLEAN /\ e0 \in BOOLEAN
  /\ held \subseteq Shifts /\ rolled \in BOOLEAN

\* Whatever handlers print between the accesses of main's terminal_putchar
\* (tty.c:60-78), the cursor is on the screen again when it returns; only a main
\* abandoned inside terminal_scroll leaves it below.  This is about the compiled code:
\* see StoreRow.
CursorSettles ==
  pc = "out" /\ ~torn => cursor.row < Height /\ cursor.col < Width

\* The C string in the line buffer.
Text ==
  LET n == CHOOSE k \in 0 .. LineMax : /\ k = LineMax \/ linebuf[k] = Nul
                                       /\ \A j \in 0 .. k - 1 : linebuf[j] # Nul
  IN  [k \in 1 .. n |-> linebuf[k - 1]]

\* What Enter hands to the shell (keyboard.c:149) is terminated at its length and is
\* what was typed and not erased since the line was last emptied, whichever of
\* keyboard_irq and main's keyboard_enable_shell emptied it, and with the modifiers
\* held (keyboard.c:130-137).  A key may be dropped at a full line or between the two
\* stores of main's line_reset only, and be of the wrong case only after one of two
\* shift keys held was released.
LineIsTyped ==
  keys /\ phase # "resetBuf" => linebuf[line_len] = Nul /\ (~lossy => Text = typed)
===============================================================================

------------------------------- MODULE Interrupts ------------------------------
(***************************************************************************)
(* Interrupts and the control flow they carry: the master interrupt        *)
(* controller, the stubs and dispatch of irq and int 0x80, kernel_main as  *)
(* far as interrupts see it, and the shell, whose commands run inside the  *)
(* keyboard's handler.  The exec command enters user mode from there; the  *)
(* exit system call unwinds to the stack pointer exec saved and never      *)
(* returns to the handler.                                                 *)
(*                                                                         *)
(* A context is a frame of the stack: the code that was interrupted, or    *)
(* called, and where it is.  The last frame has the processor.  The slave  *)
(* controller, what a key means and what is printed are left out.          *)
(***************************************************************************)
EXTENDS Naturals, Sequences, FiniteSets

CONSTANTS
  Lines,      \* lines of the master controller in use, with 0 and 1
  Boot,       \* kernel_main's frame
  User,       \* a program's
  Int80,      \* a system call's
  NoByte      \* the keyboard controller's output buffer is empty

ASSUME LinesAssumption == Lines \subseteq Nat /\ {0, 1} \subseteq Lines

\* The frames that are no handler's are told from the handlers'.
ASSUME FramesAssumption ==
  {Boot, User, Int80} \cap Lines = {} /\ Boot # User /\ Boot # Int80 /\ User # Int80

Timer == 0
Keyboard == 1

VARIABLES
  irr,            \* lines with a request latched
  isr,            \* lines in service
  imr,            \* lines masked
  gates,          \* lines whose interrupt descriptor is present
  routine,        \* irq_routines[1]
  obf,            \* the keyboard controller's output buffer
  shell_enabled,
  g_user_exited,
  g_exec_kesp,    \* the depth of the stack that exec_enter_usermode saved
  stack,
  stopped         \* "no", "exception" (a halt with interrupts off), "no gate"

pic == <<irr, isr, imr>>
globals == <<routine, shell_enabled, g_user_exited, g_exec_kesp>>
vars == <<irr, isr, imr, gates, routine, obf, shell_enabled, g_user_exited,
          g_exec_kesp, stack, stopped>>

Frame(w, a) == [who |-> w, at |-> a]
Top == stack[Len(stack)]
Running(w, a) == stopped = "no" /\ Top.who = w /\ Top.at = a
Goto(a) == stack' = [stack EXCEPT ![Len(stack)].at = a]
Push(w, a) == stack' = Append(stack, Frame(w, a))
Pop == stack' = SubSeq(stack, 1, Len(stack) - 1)
\* Sequence with its last frame at another place.
Unwound(depth, a) == [SubSeq(stack, 1, depth) EXCEPT ![depth].at = a]

\* Where exec_return_to_shell is, in the frame of the handler that called exec.
BackSteps == {"ps2", "unmask", "install", "prompt"}

\* IF.  The gates clear it, every path through a stub keeps it clear (the sti
\* before iret takes effect after iret has loaded EFLAGS), interrupts_init and
\* the stub that bounces set it, enter_user sets it for the program.
InterruptsOn ==
  /\ stopped = "no"
  /\ \/ Top.who = Boot /\ Top.at # "init"
     \/ Top.who = User
     \/ Top.at \in BackSteps

Init ==
  /\ irr = {} /\ isr = {}
  /\ imr \in SUBSET Lines
  /\ gates = {}
  /\ routine = "none"
  /\ obf = NoByte
  /\ shell_enabled = FALSE
  /\ g_user_exited = FALSE
  /\ g_exec_kesp = 0
  /\ stack = <<Frame(Boot, "init")>>
  /\ stopped = "no"

-------------------------------------------------------------------------------
\* Devices.

\* A line other than the keyboard's raises a request.
Request(n) ==
  /\ n # Keyboard
  /\ irr' = irr \cup {n}
  /\ UNCHANGED <<isr, imr, gates, globals, obf, stack, stopped>>

\* A byte from the keyboard: an edge on its line once the buffer was empty.
KeyByte(b) ==
  /\ obf = NoByte
  /\ obf' = b
  /\ irr' = irr \cup {Keyboard}
  /\ UNCHANGED <<isr, imr, gates, globals, stack, stopped>>

\* The controller offers its best request, if that beats every line in service.
Offered(n) ==
  /\ n \in irr \ imr
  /\ \A m \in (irr \ imr) \ {n} : n < m
  /\ \A m \in isr : n < m

\* The processor takes an interrupt; without a gate it cannot go on.
Deliver ==
  /\ InterruptsOn
  /\ \E n \in Lines :
       /\ Offered(n)
       /\ irr' = irr \ {n}
       /\ isr' = isr \cup {n}
       /\ IF n \in gates
            THEN Push(n, "handler") /\ UNCHANGED stopped
            ELSE stopped' = "no gate" /\ UNCHANGED stack
  /\ UNCHANGED <<imr, gates, globals, obf>>

-------------------------------------------------------------------------------
\* kernel_main.

\* interrupts_init, up to its sti: gates, the controller initialised with its
\* old masks but for two lines, and the two routines.
InterruptsInit ==
  /\ Running(Boot, "init")
  /\ gates' = Lines
  /\ irr' = {} /\ isr' = {}
  /\ imr' = imr \ {Timer, Keyboard}
  /\ routine' = "keyboard_irq"
  /\ Goto("memory")
  /\ UNCHANGED <<obf, shell_enabled, g_user_exited, g_exec_kesp, stopped>>

\* Memory, paging and the task segment, then the second idt_init: it clears ...
ClearIdt ==
  /\ Running(Boot, "memory")
  /\ gates' = {}
  /\ Goto("idt")
  /\ UNCHANGED <<pic, globals, obf, stopped>>

\* ... and fills the table in use.
FillIdt ==
  /\ Running(Boot, "idt")
  /\ gates' = Lines
  /\ Goto("vfs")
  /\ UNCHANGED <<pic, globals, obf, stopped>>

\* The rest of kernel_main: keyboard_enable_shell, unless booted with noshell.
EnableShell ==
  /\ Running(Boot, "vfs")
  /\ shell_enabled' \in BOOLEAN
  /\ Goto("idle")
  /\ UNCHANGED <<pic, gates, routine, obf, g_user_exited, g_exec_kesp, stopped>>

\* pmm_init, the heap or a page table without memory: the boot halts.
BootHalts ==
  /\ Running(Boot, "memory") \/ Running(Boot, "vfs")
  /\ stopped' = "exception"
  /\ UNCHANGED <<pic, gates, globals, obf, stack>>

-------------------------------------------------------------------------------
\* irq_handler and the routines it calls.

\* A line whose routine only counts or prints, or that has none: timer_cb, and
\* irq1_scream, which leaves the byte in the buffer.
PlainRoutine ==
  /\ \E n \in Lines : Running(n, "handler") /\ (n = Keyboard => routine = "irq1_scream")
  /\ Goto("eoi")
  /\ UNCHANGED <<pic, gates, globals, obf, stopped>>

\* mutant: the interrupt acknowledged before its routine runs.
KeyboardIrqEarlyEoi ==
  /\ Running(Keyboard, "handler")
  /\ routine = "keyboard_irq"
  /\ obf' = NoByte
  /\ isr' = isr \ {Keyboard}
  /\ Goto(IF obf = "enter" /\ shell_enabled THEN "shell" ELSE "eoi")
  /\ UNCHANGED <<irr, imr, gates, globals, stopped>>

\* keyboard_irq reads the byte; Enter hands the line to the shell.
KeyboardIrq ==
  /\ Running(Keyboard, "handler")
  /\ routine = "keyboard_irq"
  /\ obf' = NoByte
  /\ Goto(IF obf = "enter" /\ shell_enabled THEN "shell" ELSE "eoi")
  /\ UNCHANGED <<pic, gates, globals, stopped>>

\* mutant: no acknowledgement of the timer.
EoiTimerMissing ==
  /\ \E n \in Lines : Running(n, "eoi")
  /\ isr' = IF Top.who = Timer THEN isr ELSE {m \in isr : \E k \in isr : k < m}
  /\ Pop
  /\ UNCHANGED <<irr, imr, gates, globals, obf, stopped>>

\* mutant: the acknowledgement sent to the line served last.
EoiLowestPriority ==
  /\ \E n \in Lines : Running(n, "eoi")
  /\ isr' = {m \in isr : \E k \in isr : k > m}
  /\ Pop
  /\ UNCHANGED <<irr, imr, gates, globals, obf, stopped>>

\* pic_send_eoi, which names no line: the best one in service is done.  Then
\* the stub returns to the interrupted frame.
Eoi ==
  /\ \E n \in Lines : Running(n, "eoi")
  /\ isr' = {m \in isr : \E k \in isr : k < m}
  /\ Pop
  /\ UNCHANGED <<irr, imr, gates, globals, obf, stopped>>

-------------------------------------------------------------------------------
\* shell_on_line, in the keyboard's handler.

\* The command is done, or exec has failed.
CommandReturns ==
  /\ Running(Keyboard, "shell")
  /\ Goto("eoi")
  /\ UNCHANGED <<pic, gates, globals, obf, stopped>>

\* The heap or a page table runs out of memory in a command, or it faults.
CommandHalts ==
  /\ Running(Keyboard, "shell")
  /\ stopped' = "exception"
  /\ UNCHANGED <<pic, gates, globals, obf, stack>>

\* mutant: the stack pointer not saved.
ExecEntersUnsaved ==
  /\ Running(Keyboard, "shell")
  /\ stack' = Append(Unwound(Len(stack), "exec"), Frame(User, "run"))
  /\ UNCHANGED <<pic, gates, globals, obf, stopped>>

\* mutant: the stack pointer saved after the program's frame is built.
ExecEntersLateSave ==
  /\ Running(Keyboard, "shell")
  /\ g_exec_kesp' = Len(stack) + 1
  /\ stack' = Append(Unwound(Len(stack), "exec"), Frame(User, "run"))
  /\ UNCHANGED <<pic, gates, routine, obf, shell_enabled, g_user_exited, stopped>>

\* exec_enter_usermode saves its stack pointer and enters the program.
ExecEnters ==
  /\ Running(Keyboard, "shell")
  /\ g_exec_kesp' = Len(stack)
  /\ stack' = Append(Unwound(Len(stack), "exec"), Frame(User, "run"))
  /\ UNCHANGED <<pic, gates, routine, obf, shell_enabled, g_user_exited, stopped>>

-------------------------------------------------------------------------------
\* A program, and int 0x80.

SystemCall ==
  /\ Running(User, "run")
  /\ Push(Int80, "handler")
  /\ UNCHANGED <<pic, gates, globals, obf, stopped>>

\* An exception in a program halts the machine with interrupts off.
Fault ==
  /\ Running(User, "run")
  /\ stopped' = "exception"
  /\ UNCHANGED <<pic, gates, globals, obf, stack>>

\* isr128_handler: call 2 sets a flag, the others leave no trace here.
Isr128(exit) ==
  /\ Running(Int80, "handler")
  /\ g_user_exited' = (g_user_exited \/ exit)
  /\ Goto("iret")
  /\ UNCHANGED <<pic, gates, routine, obf, shell_enabled, g_exec_kesp, stopped>>

\* mutant: the program resumed whatever the flag says.
IsrReturnUntested ==
  /\ Running(Int80, "iret")
  /\ Pop
  /\ UNCHANGED <<pic, gates, globals, obf, stopped>>

IsrReturn ==
  /\ Running(Int80, "iret")
  /\ ~g_user_exited
  /\ Pop
  /\ UNCHANGED <<pic, gates, globals, obf, stopped>>

\* mutant: the keyboard acknowledged on the way.
BounceAcknowledged ==
  /\ Running(Int80, "iret")
  /\ g_user_exited
  /\ g_user_exited' = FALSE
  /\ isr' = isr \ {Keyboard}
  /\ stack' = Unwound(g_exec_kesp, "ps2")
  /\ UNCHANGED <<irr, imr, gates, routine, obf, shell_enabled, g_exec_kesp, stopped>>

\* isr_common finds the flag: the stack pointer exec saved is loaded, and
\* exec_return_to_shell runs there with interrupts on.
Bounce ==
  /\ Running(Int80, "iret")
  /\ g_user_exited
  /\ g_user_exited' = FALSE
  /\ stack' = Unwound(g_exec_kesp, "ps2")
  /\ UNCHANGED <<pic, gates, routine, obf, shell_enabled, g_exec_kesp, stopped>>

-------------------------------------------------------------------------------
\* exec_return_to_shell.

\* ps2_enable_irq1_only drains the keyboard controller.
BackPs2 ==
  /\ Running(Keyboard, "ps2")
  /\ obf' = NoByte
  /\ Goto("unmask")
  /\ UNCHANGED <<pic, gates, globals, stopped>>

BackUnmask ==
  /\ Running(Keyboard, "unmask")
  /\ imr' = imr \ {Keyboard}
  /\ shell_enabled' = TRUE
  /\ Goto("install")
  /\ UNCHANGED <<irr, isr, gates, routine, obf, g_user_exited, g_exec_kesp, stopped>>

\* The prompt is printed, another routine installed; then hlt, for ever.
BackInstall ==
  /\ Running(Keyboard, "install")
  /\ routine' = "irq1_scream"
  /\ Goto("prompt")
  /\ UNCHANGED <<pic, gates, obf, shell_enabled, g_user_exited, g_exec_kesp, stopped>>

-------------------------------------------------------------------------------
Device == (\E n \in Lines : Request(n)) \/ (\E b \in {"enter", "other"} : KeyByte(b))

\* What runs with interrupts off, until it is done ...
HandlerStep ==
  \/ PlainRoutine \/ KeyboardIrq \/ Eoi
  \/ CommandReturns \/ CommandHalts \/ ExecEnters
  \/ (\E exit \in BOOLEAN : Isr128(exit)) \/ IsrReturn \/ Bounce

\* ... and kernel code that runs with interrupts on, or before they are.
KernelStep ==
  \/ InterruptsInit \/ ClearIdt \/ FillIdt \/ EnableShell \/ BootHalts
  \/ BackPs2 \/ BackUnmask \/ BackInstall

Next == Device \/ Deliver \/ HandlerStep \/ KernelStep \/ SystemCall \/ Fault

\* The processor takes an offered interrupt at the next instruction that finds
\* IF set, and executes instructions between two interrupts.  Handlers end.
\* No device need ever make a request, and a program may loop for ever.
Spec ==
  /\ Init /\ [][Next]_vars
  /\ WF_vars(HandlerStep) /\ SF_vars(Deliver) /\ SF_vars(KernelStep)

-------------------------------------------------------------------------------
Contexts == {k \in DOMAIN stack : stack[k].who \in Lines}

\* Types, and that kernel_main's frame is never unwound and the saved stack
\* pointer never lies above the stack.
TypeOK ==
  /\ irr \subseteq Lines /\ isr \subseteq Lines /\ imr \subseteq Lines
  /\ gates \subseteq Lines
  /\ routine \in {"none", "keyboard_irq", "irq1_scream"}
  /\ obf \in {NoByte, "enter", "other"}
  /\ shell_enabled \in BOOLEAN /\ g_user_exited \in BOOLEAN
  /\ stopped \in {"no", "exception", "no gate"}
  /\ stack # <<>> /\ stack[1].who = Boot
  /\ \A k \in DOMAIN stack : k > 1 => stack[k].who \in Lines \cup {User, Int80}
  /\ g_exec_kesp \in 0 .. Len(stack)

\* The lines the controller has in service are those with a frame on the
\* stack, one frame each, although an acknowledgement names no line and a
\* program's exit leaves frames that never return.
InServiceStacked ==
  stopped # "no gate" =>
    /\ isr = {stack[k].who : k \in Contexts}
    /\ Cardinality(isr) = Cardinality(Contexts)

\* The shell is not re-entrant (one line buffer, one g_exec_kesp): no line is
\* taken while a command, or the program it started, has not returned.
OneCommand ==
  Cardinality({k \in DOMAIN stack : stack[k].at \in {"shell", "exec"} \cup BackSteps}) <= 1

\* While a program exists, g_exec_kesp is the live frame of the exec that
\* entered it, which is where its exit must unwind to.
ResumePoint ==
  \A k \in DOMAIN stack : stack[k].who = User =>
    g_exec_kesp = k - 1 /\ stack[g_exec_kesp] = Frame(Keyboard, "exec")

Reached(places) == \E k \in DOMAIN stack : stack[k].at \in places

\* How far the session has come.
Stage ==
  IF stopped # "no" THEN "halted"
  ELSE IF Reached({"prompt"}) THEN "over"
  ELSE IF Reached(BackSteps) THEN "returning"
  ELSE IF Reached({"run"}) THEN (IF g_user_exited THEN "exiting" ELSE "program")
  ELSE IF Reached({"shell"}) THEN "command"
  ELSE IF shell_enabled THEN "ready" ELSE "boot"
Dialogue == INSTANCE Session WITH stage <- Stage

\* Seen from the keyboard, commands are atomic: none begins before the one before it
\* is over, whatever interrupts come between; a program ends by its exit only, which
\* leads back to the shell; the machine stops in a command or a program only, or
\* during boot (isr.c:81-94, isr_stubs.S:63-79).
ImplementsSession == Dialogue!Spec

\* Each command comes to its end, and an exit brings the prompt.
SessionEnds == Dialogue!Fairness

\* A timer tick latched while the machine runs is served, whatever command or
\* program runs: the keyboard's line in service does not hold it back.
TicksServed == (Timer \in irr /\ gates # {}) ~> (Timer \notin irr \/ stopped # "no")

\* "IRQs 0..15 => vectors 32..47" (idt.c:103), of the two lines kernel_main has
\* unmasked by then: no interrupt is taken without a gate.
IrqsMapped == stopped # "no gate"

\* "CRITICAL: re-enable IRQs (keyboard)" (isr_stubs.S:74): after a program's
\* exit the next key is served.
KeyboardBack ==
  (Keyboard \in irr /\ routine = "irq1_scream") ~> (Keyboard \notin irr \/ stopped # "no")
===============================================================================

----------------------------- MODULE SessionProofs ------------------------------
(***************************************************************************)
(* Proof that the kernel's interrupts carry a Session, for every set of    *)
(* lines.                                                                  *)
(*                                                                         *)
(* The stage is read off the frames that a command and its program leave   *)
(* on the stack, whatever handlers lie above them: all of them are one     *)
(* frame of the keyboard's handler, with a program's above it or none.     *)
(***************************************************************************)
EXTENDS InterruptsProofs

Marked == {"shell", "exec", "run"} \cup BackSteps

In(s, places) == \E k \in DOMAIN s : s[k].at \in places

\* Stage of a stack and of the variables beside it.
StageOf(s, stops, exited, enabled) ==
  IF stops # "no" THEN "halted"
  ELSE IF In(s, {"prompt"}) THEN "over"
  ELSE IF In(s, BackSteps) THEN "returning"
  ELSE IF In(s, {"run"}) THEN (IF exited THEN "exiting" ELSE "program")
  ELSE IF In(s, {"shell"}) THEN "command"
  ELSE IF enabled THEN "ready" ELSE "boot"

LEMMA StageIs ==
  /\ Stage = StageOf(stack, stopped, g_user_exited, shell_enabled)
  /\ Stage' = StageOf(stack', stopped', g_user_exited', shell_enabled')
BY DEF Stage, StageOf, Reached, In

\* Beside a frame of the keyboard's, only its program is marked.
LEMMA OthersUnmarked ==
  ASSUME NEW s, Shape(s), Nested(s), NEW k \in DOMAIN s, s[k].who = Keyboard,
         NEW j \in DOMAIN s, j # k, s[j].at \in Marked
  PROVE  s[k].at = "exec" /\ j = k + 1 /\ s[j].at = "run"
<1>1. DOMAIN s = 1 .. Len(s) /\ Len(s) \in Nat /\ s[j] \in Frames BY DEF Shape
<1>2. s[j].who = Keyboard \/ s[j].at = "run" BY <1>1, FrameKinds DEF Marked
<1>3. s[j].who # Keyboard
  <2>1. SUFFICES ASSUME s[j].who = Keyboard PROVE FALSE OBVIOUS
  <2>2. Keyboard < Keyboard BY <1>1, <2>1, Names DEF Nested
  <2> QED BY <2>2 DEF Keyboard
<1>4. s[j].at = "run" /\ s[j].who = User BY <1>1, <1>2, <1>3, Names DEF Frames, BackSteps
<1>5. j > 1 /\ s[j - 1] = Frame(Keyboard, "exec") BY <1>4 DEF Shape
<1>6. s[j - 1].who = Keyboard /\ s[j - 1].at = "exec" BY <1>5 DEF Frame
<1>7. j - 1 = k
  <2>1. j - 1 \in DOMAIN s /\ k \in DOMAIN s BY <1>1, <1>5
  <2>2. ~(Keyboard < Keyboard) BY DEF Keyboard
  <2> QED BY <1>1, <1>6, <2>1, <2>2, Names DEF Nested
<1> QED BY <1>1, <1>4, <1>6, <1>7

\* What is marked when the keyboard's handler runs, and when a program is there.
LEMMA MarksOfKeyboard ==
  ASSUME NEW s, Shape(s), Nested(s), s[Len(s)].who = Keyboard,
         NEW places \in SUBSET Marked
  PROVE  In(s, places) <=> s[Len(s)].at \in places
<1>1. DOMAIN s = 1 .. Len(s) /\ Len(s) \in Nat /\ Len(s) \in DOMAIN s BY DEF Shape
<1>2. \A j \in DOMAIN s : j # Len(s) => s[j].at \notin Marked
  BY <1>1, OthersUnmarked
<1> QED BY <1>1, <1>2 DEF In

LEMMA MarksOfProgram ==
  ASSUME NEW s, Shape(s), Nested(s), NEW k \in DOMAIN s, s[k].who = User,
         NEW places \in SUBSET Marked
  PROVE  In(s, places) <=> "exec" \in places \/ "run" \in places
<1>1. DOMAIN s = 1 .. Len(s) /\ Len(s) \in Nat /\ s[k] \in Frames BY DEF Shape
<1>2. k > 1 /\ s[k - 1] = Frame(Keyboard, "exec") BY DEF Shape
<1>3. s[k].at = "run" BY <1>1, FrameKinds
<1>4. s[k - 1].who = Keyboard /\ s[k - 1].at = "exec" /\ k - 1 \in DOMAIN s
  BY <1>1, <1>2 DEF Frame
<1>5. \A j \in DOMAIN s : j # k - 1 /\ s[j].at \in Marked => s[j].at = "run"
  BY <1>4, OthersUnmarked
<1> QED BY <1>3, <1>4, <1>5 DEF In

LEMMA MarksOfBoot ==
  ASSUME NEW s, Shape(s), s[Len(s)].who = Boot, NEW places \in SUBSET Marked
  PROVE  ~In(s, places)
<1>1. DOMAIN s = 1 .. Len(s) /\ Len(s) \in Nat /\ Len(s) \in DOMAIN s /\ s[Len(s)] \in Frames
  BY DEF Shape
<1>2. Len(s) = 1 BY <1>1 DEF Shape
<1>3. s[1].at \notin Marked BY <1>1, <1>2, FrameKinds DEF Marked, BackSteps
<1> QED BY <1>1, <1>2, <1>3 DEF In

LEMMA Sets ==
  /\ {"prompt"} \in SUBSET Marked /\ BackSteps \in SUBSET Marked
  /\ {"run"} \in SUBSET Marked /\ {"shell"} \in SUBSET Marked /\ Marked \in SUBSET Marked
BY DEF Marked, BackSteps

LEMMA KeyboardStage ==
  ASSUME NEW s, Shape(s), Nested(s), s[Len(s)].who = Keyboard, NEW exited, NEW enabled
  PROVE  LET a == s[Len(s)].at
             g == StageOf(s, "no", exited, enabled)
         IN  /\ a = "shell" => g = "command"
             /\ a = "prompt" => g = "over"
             /\ a \in BackSteps \ {"prompt"} => g = "returning"
             /\ a \in {"handler", "eoi"} => g = IF enabled THEN "ready" ELSE "boot"
<1> DEFINE a == s[Len(s)].at
<1>1. /\ In(s, {"prompt"}) <=> a = "prompt"
      /\ In(s, BackSteps) <=> a \in BackSteps
      /\ In(s, {"run"}) <=> a = "run"
      /\ In(s, {"shell"}) <=> a = "shell"
  BY Sets, MarksOfKeyboard
<1> HIDE DEF a
<1>2. /\ a = "shell" => a \notin BackSteps /\ a # "prompt" /\ a # "run"
      /\ a \in {"handler", "eoi"} => a \notin BackSteps /\ a \notin {"prompt", "run", "shell"}
  BY DEF BackSteps
<1> QED BY <1>1, <1>2 DEF StageOf, a

LEMMA ProgramStage ==
  ASSUME NEW s, Shape(s), Nested(s), NEW k \in DOMAIN s, s[k].who = User,
         NEW exited, NEW enabled
  PROVE  StageOf(s, "no", exited, enabled) = IF exited THEN "exiting" ELSE "program"
<1>1. ~In(s, {"prompt"}) BY Sets, MarksOfProgram
<1>2. ~In(s, BackSteps) BY Sets, MarksOfProgram DEF BackSteps
<1>3. In(s, {"run"}) BY Sets, MarksOfProgram
<1> QED BY <1>1, <1>2, <1>3 DEF StageOf

LEMMA BootStage ==
  ASSUME NEW s, Shape(s), s[Len(s)].who = Boot, NEW exited, NEW enabled
  PROVE  StageOf(s, "no", exited, enabled) = IF enabled THEN "ready" ELSE "boot"
<1>1. ~In(s, {"prompt"}) /\ ~In(s, BackSteps) /\ ~In(s, {"run"}) /\ ~In(s, {"shell"})
  BY Sets, MarksOfBoot
<1> QED BY <1>1 DEF StageOf

LEMMA SameStage ==
  ASSUME NEW s, NEW t, \A places \in SUBSET Marked : In(s, places) <=> In(t, places),
         NEW stops, NEW exited, NEW enabled
  PROVE  StageOf(s, stops, exited, enabled) = StageOf(t, stops, exited, enabled)
<1>1. /\ In(s, {"prompt"}) <=> In(t, {"prompt"})
      /\ In(s, BackSteps) <=> In(t, BackSteps)
      /\ In(s, {"run"}) <=> In(t, {"run"})
      /\ In(s, {"shell"}) <=> In(t, {"shell"})
  BY Sets
<1> QED BY <1>1 DEF StageOf

-------------------------------------------------------------------------------
\* Steps at the top of the stack that leave the marks and kernel_main's frame alone.
SameMarks(s, t) ==
  /\ \A places \in SUBSET Marked : In(s, places) <=> In(t, places)
  /\ t[1].at = s[1].at

LEMMA GotoUnmarked ==
  ASSUME NEW s, Shape(s), NEW a, s[Len(s)].who # Boot, s[Len(s)].at \notin Marked,
         a \notin Marked
  PROVE  SameMarks(s, [s EXCEPT ![Len(s)].at = a])
<1> DEFINE t == [s EXCEPT ![Len(s)].at = a]
           n == Len(s)
<1>1. s \in Seq(Frames) /\ DOMAIN s = 1 .. n /\ n \in Nat /\ n > 0 /\ s[n] \in Frames
  BY DEF Shape
<1>2. s[1].who = Boot BY <1>1 DEF Shape
<1>3. n > 1 BY <1>1, <1>2
<1>4. s[n] = Frame(s[n].who, s[n].at) BY <1>1, FrameKinds
<1>5. DOMAIN t = 1 .. n /\ t[n].at = a /\ \A k \in 1 .. n : k # n => t[k] = s[k]
  BY <1>1, <1>4 DEF Frame
<1> HIDE DEF t
<1>6. t[1].at = s[1].at BY <1>3, <1>5
<1>7. ASSUME NEW places \in SUBSET Marked PROVE In(s, places) <=> In(t, places)
  <2>1. s[n].at \notin places /\ t[n].at \notin places BY <1>5
  <2> QED BY <1>1, <1>5, <2>1 DEF In
<1> QED BY <1>6, <1>7 DEF SameMarks, t

LEMMA PushUnmarked ==
  ASSUME NEW s, Shape(s), NEW f, f.at \notin Marked
  PROVE  SameMarks(s, Append(s, f))
<1> DEFINE t == Append(s, f)
           n == Len(s)
<1>1. s \in Seq(Frames) /\ DOMAIN s = 1 .. n /\ n \in Nat /\ n > 0 BY DEF Shape
<1>2. DOMAIN t = 1 .. n + 1 /\ t[n + 1] = f /\ \A k \in 1 .. n : t[k] = s[k] BY <1>1
<1> HIDE DEF t
<1>3. t[1].at = s[1].at BY <1>1, <1>2
<1>4. ASSUME NEW places \in SUBSET Marked PROVE In(s, places) <=> In(t, places)
  <2>1. t[n + 1].at \notin places BY <1>2
  <2>2. \A k \in 1 .. n + 1 : k \in 1 .. n \/ k = n + 1 BY <1>1
  <2>3. \A k \in 1 .. n : k \in 1 .. n + 1 BY <1>1
  <2> QED BY <1>1, <1>2, <2>1, <2>2, <2>3 DEF In
<1> QED BY <1>3, <1>4 DEF SameMarks, t

LEMMA PopUnmarked ==
  ASSUME NEW s, Shape(s), s[Len(s)].who # Boot, s[Len(s)].at \notin Marked
  PROVE  SameMarks(s, SubSeq(s, 1, Len(s) - 1))
<1> DEFINE t == SubSeq(s, 1, Len(s) - 1)
           n == Len(s)
<1>1. s \in Seq(Frames) /\ DOMAIN s = 1 .. n /\ n \in Nat /\ n > 0 BY DEF Shape
<1>2. s[1].who = Boot BY <1>1 DEF Shape
<1>3. n > 1 BY <1>1, <1>2
<1>4. DOMAIN t = 1 .. n - 1 /\ \A k \in 1 .. n - 1 : t[k] = s[k] BY <1>1, <1>3
<1> HIDE DEF t
<1>5. t[1].at = s[1].at BY <1>1, <1>3, <1>4
<1>6. ASSUME NEW places \in SUBSET Marked PROVE In(s, places) <=> In(t, places)
  <2>1. s[n].at \notin places OBVIOUS
  <2>0. \A m \in Nat \ {0} : \A k \in 1 .. m : k \in 1 .. m - 1 \/ k = m OBVIOUS
  <2>2. n \in Nat \ {0} BY <1>1
  <2> HIDE DEF n
  <2>3. \A k \in 1 .. n : k \in 1 .. n - 1 \/ k = n BY <2>0, <2>2
  <2>4. \A k \in 1 .. n - 1 : k \in 1 .. n BY <2>2
  <2> QED BY <1>1, <1>4, <2>1, <2>3, <2>4 DEF In, n
<1> QED BY <1>5, <1>6 DEF SameMarks, t

-------------------------------------------------------------------------------
\* The gates are there when the shell is enabled, the shell is enabled when a command
\* runs, and a program's exit is pending in its own system call only.
BootInv ==
  /\ shell_enabled => stack[1].at = "idle"
  /\ stack[1].at \in {"vfs", "idle"} => gates = Lines
  /\ In(stack, Marked) => shell_enabled
  /\ g_user_exited => Top.at = "iret"

Served == BootInv' /\ (Stage' = Stage \/ Dialogue!Next)

LEMMA Unmarked ==
  ASSUME IInv, BootInv, SameMarks(stack, stack'),
         UNCHANGED <<gates, shell_enabled, g_user_exited, stopped>>, ~g_user_exited
  PROVE  Served
<1>1. stack'[1].at = stack[1].at BY DEF SameMarks
<1>2. \A places \in SUBSET Marked : In(stack, places) <=> In(stack', places) BY DEF SameMarks
<1>3. In(stack, Marked) <=> In(stack', Marked) BY <1>2
<1>4. BootInv' BY <1>1, <1>3 DEF BootInv, In
<1>5. Stage' = Stage BY <1>2, StageIs, SameStage
<1> QED BY <1>4, <1>5 DEF Served

LEMMA UnmarkedPlaces ==
  \A a \in {"init", "memory", "idt", "vfs", "idle", "handler", "eoi", "iret"} : a \notin Marked
BY DEF Marked, BackSteps

LEMMA SessionInitially == Init => BootInv
<1> SUFFICES ASSUME Init PROVE BootInv OBVIOUS
<1>1. stack = <<Frame(Boot, "init")>> /\ shell_enabled = FALSE /\ g_user_exited = FALSE
  BY DEF Init
<1>2. stack[1].at = "init" /\ DOMAIN stack = {1} BY <1>1 DEF Frame
<1>3. ~In(stack, Marked) BY <1>2, UnmarkedPlaces DEF In
<1> QED BY <1>1, <1>2, <1>3 DEF BootInv

LEMMA DeviceServed ==
  ASSUME IInv, BootInv, Device PROVE Served
<1>1. UNCHANGED <<gates, shell_enabled, g_user_exited, stack, stopped>>
  BY DEF Device, Request, KeyByte, globals
<1>2. BootInv' BY <1>1 DEF BootInv, Top, In
<1>3. Stage' = Stage BY <1>1, StageIs
<1> QED BY <1>2, <1>3 DEF Served

LEMMA DeliverServed ==
  ASSUME IInv, BootInv, Deliver PROVE Served
<1>1. PICK n \in Lines :
        \/ n \in gates /\ Push(n, "handler") /\ UNCHANGED stopped
        \/ n \notin gates /\ stopped' = "no gate" /\ UNCHANGED stack
  BY DEF Deliver
<1>2. InterruptsOn /\ UNCHANGED <<gates, shell_enabled, g_user_exited>> BY DEF Deliver, globals
<1>3. StackInv BY DEF IInv
<1>4. Top.at # "iret"
  BY <1>2, <1>3, TopFrame, FrameKinds, Names DEF InterruptsOn, BackSteps
<1>5. ~g_user_exited BY <1>4 DEF BootInv
<1>6. CASE n \in gates /\ Push(n, "handler") /\ UNCHANGED stopped
  <2>1. Frame(n, "handler").at \notin Marked BY UnmarkedPlaces DEF Frame
  <2>2. SameMarks(stack, stack') BY <1>3, <1>6, <2>1, PushUnmarked DEF Push, StackInv
  <2> QED BY <1>2, <1>5, <1>6, <2>2, Unmarked
<1>7. CASE n \notin gates /\ stopped' = "no gate" /\ UNCHANGED stack
  <2>1. ~shell_enabled /\ ~In(stack, Marked) BY <1>7 DEF BootInv
  <2>2. ~In(stack, {"prompt"}) /\ ~In(stack, BackSteps) /\ ~In(stack, {"run"})
        /\ ~In(stack, {"shell"})
    <3>1. \A places \in SUBSET Marked : ~In(stack, places) BY <2>1 DEF In
    <3> QED BY <3>1, Sets
  <2>3. stopped = "no" BY <1>2 DEF InterruptsOn
  <2>4. Stage = "boot" /\ Stage' = "halted" BY <1>7, <2>1, <2>2, <2>3, StageIs DEF StageOf
  <2>5. Dialogue!Next BY <2>4 DEF Dialogue!Next, Dialogue!Halt
  <2>6. BootInv' BY <1>2, <1>7 DEF BootInv, Top, In
  <2> QED BY <2>5, <2>6 DEF Served
<1> QED BY <1>1, <1>6, <1>7

LEMMA HandlerServed ==
  ASSUME IInv, BootInv, PlainRoutine \/ Eoi \/ SystemCall \/ IsrReturn
  PROVE  Served
<1>1. StackInv /\ Shape(stack) BY DEF IInv, StackInv
<1>2. UNCHANGED <<gates, shell_enabled, g_user_exited, stopped>>
  BY DEF PlainRoutine, Eoi, SystemCall, IsrReturn, pic, globals
<1>3. CASE PlainRoutine
  <2>1. Top.who \in Lines /\ Top.at = "handler" /\ stack' = [stack EXCEPT ![Len(stack)].at = "eoi"]
    BY <1>3 DEF PlainRoutine, Running, Goto
  <2>2. Top.who # Boot /\ Top.at \notin Marked /\ "eoi" \notin Marked
    BY <2>1, Names, UnmarkedPlaces
  <2>3. SameMarks(stack, stack') BY <1>1, <2>1, <2>2, GotoUnmarked DEF Top
  <2> QED BY <1>2, <2>1, <2>3, Unmarked DEF BootInv
<1>4. CASE Eoi
  <2>1. Top.who \in Lines /\ Top.at = "eoi" /\ stack' = SubSeq(stack, 1, Len(stack) - 1)
    BY <1>4 DEF Eoi, Running, Pop
  <2>2. Top.who # Boot /\ Top.at \notin Marked BY <2>1, Names, UnmarkedPlaces
  <2>3. SameMarks(stack, stack') BY <1>1, <2>1, <2>2, PopUnmarked DEF Top
  <2> QED BY <1>2, <2>1, <2>3, Unmarked DEF BootInv
<1>5. CASE SystemCall
  <2>1. Top.at = "run" /\ stack' = Append(stack, Frame(Int80, "handler"))
    BY <1>5 DEF SystemCall, Running, Push
  <2>2. Frame(Int80, "handler").at \notin Marked BY UnmarkedPlaces DEF Frame
  <2>3. SameMarks(stack, stack') BY <1>1, <2>1, <2>2, PushUnmarked
  <2> QED BY <1>2, <2>1, <2>3, Unmarked DEF BootInv
<1>6. CASE IsrReturn
  <2>1. /\ Top.who = Int80 /\ Top.at = "iret" /\ ~g_user_exited
        /\ stack' = SubSeq(stack, 1, Len(stack) - 1)
    BY <1>6 DEF IsrReturn, Running, Pop
  <2>2. Top.who # Boot /\ Top.at \notin Marked BY <2>1, Names, UnmarkedPlaces
  <2>3. SameMarks(stack, stack') BY <1>1, <2>1, <2>2, PopUnmarked DEF Top
  <2> QED BY <1>2, <2>1, <2>3, Unmarked
<1> QED BY <1>3, <1>4, <1>5, <1>6

-------------------------------------------------------------------------------
\* Steps of kernel_main, whose frame is the only one.
LEMMA BootAlone ==
  ASSUME NEW s, Shape(s), s[Len(s)].who = Boot
  PROVE  Len(s) = 1 /\ s[1] \in Frames /\ s[1].who = Boot
<1>1. DOMAIN s = 1 .. Len(s) /\ Len(s) \in Nat /\ Len(s) \in DOMAIN s /\ s[Len(s)] \in Frames
  BY DEF Shape
<1>2. Len(s) = 1 BY <1>1 DEF Shape
<1> QED BY <1>1, <1>2

LEMMA BootGoto ==
  ASSUME NEW s, Shape(s), s[Len(s)].who = Boot, NEW a
  PROVE  LET t == [s EXCEPT ![Len(s)].at = a]
         IN  Len(t) = 1 /\ DOMAIN t = {1} /\ t[1].at = a /\ t[1].who = Boot
<1> DEFINE t == [s EXCEPT ![Len(s)].at = a]
<1>1. s \in Seq(Frames) /\ DOMAIN s = 1 .. Len(s) /\ Len(s) \in Nat /\ Len(s) \in DOMAIN s
  BY DEF Shape
<1>2. Len(s) = 1 BY BootAlone
<1>3. s[1] \in Frames /\ s[1].who = Boot BY BootAlone
<1>4. s[1] = Frame(Boot, s[1].at) BY <1>3, FrameKinds
<1>5. t[1].at = a /\ t[1].who = Boot BY <1>1, <1>2, <1>4 DEF Frame
<1> QED BY <1>1, <1>2, <1>5

LEMMA BootMoves ==
  ASSUME IInv, IInv', BootInv, Top.who = Boot, stopped = "no", UNCHANGED <<stopped, g_user_exited>>,
         NEW a \in {"memory", "idt", "vfs", "idle"}, Goto(a), Top.at # "idle",
         a \in {"vfs", "idle"} => gates' = Lines,
         shell_enabled' => a = "idle"
  PROVE  Served
<1>1. Shape(stack) /\ Shape(stack') /\ Top = stack[Len(stack)] BY DEF IInv, StackInv, Top
<1>2. Len(stack') = 1 /\ DOMAIN stack' = {1} /\ stack'[1].at = a /\ stack'[1].who = Boot
  BY <1>1, BootGoto DEF Goto
<1>3. Top \in Frames BY <1>1, TopFrame DEF IInv
<1>4. Top.at # "iret" BY <1>3, FrameKinds
<1>5. ~g_user_exited /\ ~g_user_exited' BY <1>4 DEF BootInv
<1>6. ~In(stack', Marked) BY <1>2, UnmarkedPlaces DEF In
<1>7. Len(stack) = 1 BY <1>1, BootAlone
<1>8. stack[1].at = Top.at BY <1>1, <1>7
<1>9. ~shell_enabled BY <1>8 DEF BootInv
<1>10. BootInv' BY <1>2, <1>5, <1>6 DEF BootInv
<1>11. Stage = "boot" BY <1>1, <1>9, BootStage, StageIs
<1>12. Stage' \in {"boot", "ready"} BY <1>1, <1>2, BootStage, StageIs
<1> QED BY <1>10, <1>11, <1>12 DEF Served, Dialogue!Next, Dialogue!Enable

LEMMA BootServed ==
  ASSUME IInv, IInv', BootInv, InterruptsInit \/ ClearIdt \/ FillIdt \/ EnableShell
  PROVE  Served
<1>0. Top.who = Boot => (shell_enabled => Top.at = "idle")
  <2>1. Shape(stack) BY DEF IInv, StackInv
  <2>2. Top.who = Boot => Len(stack) = 1 BY <2>1, BootAlone DEF Top
  <2> QED BY <2>2 DEF BootInv, Top
<1>1. CASE InterruptsInit
  <2>1. /\ stopped = "no" /\ Top.who = Boot /\ Top.at = "init" /\ Goto("memory")
        /\ UNCHANGED <<stopped, g_user_exited, shell_enabled>>
    BY <1>1 DEF InterruptsInit, Running
  <2>2. ~shell_enabled' BY <1>0, <2>1
  <2> QED BY <2>1, <2>2, BootMoves
<1>2. CASE ClearIdt
  <2>1. /\ stopped = "no" /\ Top.who = Boot /\ Top.at = "memory" /\ Goto("idt")
        /\ UNCHANGED <<stopped, g_user_exited, shell_enabled>>
    BY <1>2 DEF ClearIdt, Running, globals
  <2>2. ~shell_enabled' BY <1>0, <2>1
  <2> QED BY <2>1, <2>2, BootMoves
<1>3. CASE FillIdt
  <2>1. /\ stopped = "no" /\ Top.who = Boot /\ Top.at = "idt" /\ Goto("vfs")
        /\ gates' = Lines /\ UNCHANGED <<stopped, g_user_exited, shell_enabled>>
    BY <1>3 DEF FillIdt, Running, globals
  <2>2. ~shell_enabled' BY <1>0, <2>1
  <2> QED BY <2>1, <2>2, BootMoves
<1>4. CASE EnableShell
  <2>1. /\ stopped = "no" /\ Top.who = Boot /\ Top.at = "vfs" /\ Goto("idle")
        /\ UNCHANGED <<gates, stopped, g_user_exited>>
    BY <1>4 DEF EnableShell, Running
  <2>2. Shape(stack) BY DEF IInv, StackInv
  <2>3. Len(stack) = 1 BY <2>1, <2>2, BootAlone DEF Top
  <2>4. gates' = Lines BY <2>1, <2>3 DEF BootInv, Top
  <2> QED BY <2>1, <2>4, BootMoves
<1> QED BY <1>1, <1>2, <1>3, <1>4

\* The machine stops where the session may.
LEMMA HaltServed ==
  ASSUME IInv, BootInv, BootHalts \/ CommandHalts \/ Fault PROVE Served
<1>1. /\ stopped = "no" /\ stopped' = "exception"
      /\ UNCHANGED <<gates, shell_enabled, g_user_exited, stack>>
  BY DEF BootHalts, CommandHalts, Fault, Running, globals
<1>2. BootInv' BY <1>1 DEF BootInv, Top, In
<1>3. Stage' = "halted" BY <1>1, StageIs DEF StageOf
<1>4. Shape(stack) /\ Nested(stack) /\ Top = stack[Len(stack)] /\ Len(stack) \in DOMAIN stack
  BY DEF IInv, StackInv, Shape, Top
<1>5. Stage \in {"boot", "command", "program"}
  <2>1. CASE BootHalts
    <3>1. Top.who = Boot /\ Top.at # "idle" BY <2>1 DEF BootHalts, Running
    <3>2. Len(stack) = 1 BY <1>4, <3>1, BootAlone
    <3>3. ~shell_enabled BY <1>4, <3>1, <3>2 DEF BootInv
    <3>4. Stage = "boot" BY <1>1, <1>4, <3>1, <3>3, BootStage, StageIs
    <3> QED BY <3>4
  <2>2. CASE CommandHalts
    <3>1. Top.who = Keyboard /\ Top.at = "shell" BY <2>2 DEF CommandHalts, Running
    <3>2. Stage = "command" BY <1>1, <1>4, <3>1, KeyboardStage, StageIs
    <3> QED BY <3>2
  <2>3. CASE Fault
    <3>1. Top.who = User /\ Top.at # "iret" BY <2>3 DEF Fault, Running
    <3>2. ~g_user_exited BY <3>1 DEF BootInv
    <3>3. Stage = "program" BY <1>1, <1>4, <3>1, <3>2, ProgramStage, StageIs
    <3> QED BY <3>3
  <2> QED BY <2>1, <2>2, <2>3
<1>6. Dialogue!Next BY <1>3, <1>5 DEF Dialogue!Next, Dialogue!Halt
<1> QED BY <1>2, <1>6 DEF Served

-------------------------------------------------------------------------------
\* The keyboard's handler, and what exec and the exit make of its frame.
LEMMA KeyGoto ==
  ASSUME NEW s, Shape(s), s[Len(s)].who = Keyboard, NEW a
  PROVE  LET t == [s EXCEPT ![Len(s)].at = a]
         IN  /\ Len(t) = Len(s) /\ t[1].at = s[1].at
             /\ t[Len(t)].who = Keyboard /\ t[Len(t)].at = a
<1> DEFINE t == [s EXCEPT ![Len(s)].at = a]
           n == Len(s)
<1>1. s \in Seq(Frames) /\ DOMAIN s = 1 .. n /\ n \in Nat /\ n \in DOMAIN s /\ s[n] \in Frames
  BY DEF Shape
<1>2. s[1].who = Boot BY <1>1 DEF Shape
<1>3. n # 1 BY <1>2, Names
<1>4. s[n] = Frame(Keyboard, s[n].at) BY <1>1, FrameKinds
<1>5. DOMAIN t = 1 .. n /\ Len(t) = n BY <1>1
<1>6. t[n] = [s[n] EXCEPT !.at = a] BY <1>1
<1>7. t[n].at = a /\ t[n].who = Keyboard
  <2> DEFINE f == s[n]
  <2>1. f = Frame(Keyboard, f.at) BY <1>4
  <2>2. t[n] = [f EXCEPT !.at = a] BY <1>6
  <2> HIDE DEF f, t
  <2> QED BY <2>1, <2>2 DEF Frame
<1>8. t[1] = s[1] BY <1>1, <1>3
<1> QED BY <1>5, <1>7, <1>8

LEMMA KeyMoves ==
  ASSUME IInv, IInv', BootInv, Top.who = Keyboard, stopped = "no",
         UNCHANGED <<gates, shell_enabled, stopped, g_user_exited>>,
         NEW a, Goto(a), Top.at # "iret", a \in Marked => shell_enabled
  PROVE  /\ BootInv'
         /\ Shape(stack) /\ Nested(stack) /\ Shape(stack') /\ Nested(stack')
         /\ Top = stack[Len(stack)]
         /\ stack'[Len(stack')].who = Keyboard /\ stack'[Len(stack')].at = a
<1>1. /\ Shape(stack) /\ Nested(stack) /\ Shape(stack') /\ Nested(stack')
      /\ Top = stack[Len(stack)]
  BY DEF IInv, StackInv, Top
<1>2. /\ stack'[1].at = stack[1].at /\ stack'[Len(stack')].who = Keyboard
      /\ stack'[Len(stack')].at = a
  <2>1. stack' = [stack EXCEPT ![Len(stack)].at = a] BY DEF Goto
  <2>2. Shape(stack) /\ stack[Len(stack)].who = Keyboard BY <1>1
  <2>3. LET t == [stack EXCEPT ![Len(stack)].at = a]
        IN  /\ Len(t) = Len(stack) /\ t[1].at = stack[1].at
            /\ t[Len(t)].who = Keyboard /\ t[Len(t)].at = a
    BY <2>2, KeyGoto
  <2> QED BY <2>1, <2>3
<1>3. ~g_user_exited /\ ~g_user_exited' BY DEF BootInv
<1>4. In(stack', Marked) => shell_enabled' BY <1>1, <1>2, Sets, MarksOfKeyboard
<1>5. BootInv' BY <1>2, <1>3, <1>4 DEF BootInv
<1> QED BY <1>1, <1>2, <1>5

LEMMA KeyServed ==
  ASSUME IInv, IInv', BootInv,
         KeyboardIrq \/ CommandReturns \/ BackPs2 \/ BackUnmask \/ BackInstall
  PROVE  Served
<1>1. Shape(stack) /\ Nested(stack) /\ Top = stack[Len(stack)] BY DEF IInv, StackInv, Top
<1>2. Top.who = Keyboard => (Top.at \in Marked => shell_enabled)
  BY <1>1, Sets, MarksOfKeyboard DEF BootInv
<1>3. CASE KeyboardIrq
  <2>1. /\ stopped = "no" /\ Top.who = Keyboard /\ Top.at = "handler"
        /\ UNCHANGED <<gates, shell_enabled, stopped, g_user_exited>>
    BY <1>3 DEF KeyboardIrq, Running, globals
  <2>2. (Goto("shell") /\ shell_enabled) \/ Goto("eoi") BY <1>3 DEF KeyboardIrq
  <2>3. CASE Goto("shell") /\ shell_enabled
    <3>1. BootInv' /\ Stage' = "command" /\ Stage = "ready"
      BY <2>1, <2>3, KeyMoves, KeyboardStage, StageIs
    <3> QED BY <3>1 DEF Served, Dialogue!Next, Dialogue!Begin
  <2>4. CASE Goto("eoi")
    <3>1. BootInv' BY <2>1, <2>4, KeyMoves, UnmarkedPlaces
    <3>2. Stage' = Stage BY <2>1, <2>4, KeyMoves, UnmarkedPlaces, KeyboardStage, StageIs
    <3> QED BY <3>1, <3>2 DEF Served
  <2> QED BY <2>2, <2>3, <2>4
<1>4. CASE CommandReturns
  <2>1. /\ stopped = "no" /\ Top.who = Keyboard /\ Top.at = "shell" /\ Goto("eoi")
        /\ UNCHANGED <<gates, shell_enabled, stopped, g_user_exited>>
    BY <1>4 DEF CommandReturns, Running, globals
  <2>2. shell_enabled BY <1>2, <2>1 DEF Marked
  <2>3. BootInv' BY <2>1, KeyMoves, UnmarkedPlaces
  <2>4. Stage = "command" /\ Stage' = "ready"
    BY <2>1, <2>2, KeyMoves, UnmarkedPlaces, KeyboardStage, StageIs
  <2> QED BY <2>3, <2>4 DEF Served, Dialogue!Next, Dialogue!Finish
<1>5. CASE BackPs2
  <2>1. /\ stopped = "no" /\ Top.who = Keyboard /\ Top.at = "ps2" /\ Goto("unmask")
        /\ UNCHANGED <<gates, shell_enabled, stopped, g_user_exited>>
    BY <1>5 DEF BackPs2, Running, globals
  <2>2. shell_enabled /\ {"ps2", "unmask"} \subseteq BackSteps \ {"prompt"}
    BY <1>2, <2>1 DEF Marked, BackSteps
  <2>3. BootInv' BY <2>1, <2>2, KeyMoves
  <2>4. Stage = "returning" /\ Stage' = "returning"
    BY <2>1, <2>2, KeyMoves, KeyboardStage, StageIs
  <2> QED BY <2>3, <2>4 DEF Served
<1>6. CASE BackUnmask
  <2>1. /\ stopped = "no" /\ Top.who = Keyboard /\ Top.at = "unmask" /\ Goto("install")
        /\ shell_enabled' = TRUE /\ UNCHANGED <<gates, stopped, g_user_exited>>
    BY <1>6 DEF BackUnmask, Running
  <2>2. shell_enabled /\ {"unmask", "install"} \subseteq BackSteps \ {"prompt"}
    BY <1>2, <2>1 DEF Marked, BackSteps
  <2>3. shell_enabled' = shell_enabled
    <3>1. shell_enabled \in BOOLEAN BY DEF IInv, ScalarsOK
    <3> QED BY <2>1, <2>2, <3>1
  <2>4. BootInv' BY <2>1, <2>2, <2>3, KeyMoves
  <2>5. Stage = "returning" /\ Stage' = "returning"
    BY <2>1, <2>2, <2>3, KeyMoves, KeyboardStage, StageIs
  <2> QED BY <2>4, <2>5 DEF Served
<1>7. CASE BackInstall
  <2>1. /\ stopped = "no" /\ Top.who = Keyboard /\ Top.at = "install" /\ Goto("prompt")
        /\ UNCHANGED <<gates, shell_enabled, stopped, g_user_exited>>
    BY <1>7 DEF BackInstall, Running
  <2>2. shell_enabled /\ "install" \in BackSteps \ {"prompt"}
    BY <1>2, <2>1 DEF Marked, BackSteps
  <2>3. BootInv' BY <2>1, <2>2, KeyMoves
  <2>4. Stage = "returning" /\ Stage' = "over"
    BY <2>1, <2>2, KeyMoves, KeyboardStage, StageIs
  <2> QED BY <2>3, <2>4 DEF Served, Dialogue!Next, Dialogue!Over
<1> QED BY <1>3, <1>4, <1>5, <1>6, <1>7

-------------------------------------------------------------------------------
\* A program, from exec to exit.
LEMMA EnterServed ==
  ASSUME IInv, IInv', BootInv, ExecEnters PROVE Served
<1>1. /\ stopped = "no" /\ Top.who = Keyboard /\ Top.at = "shell"
      /\ stack' = Append([SubSeq(stack, 1, Len(stack)) EXCEPT ![Len(stack)].at = "exec"],
                         Frame(User, "run"))
      /\ UNCHANGED <<gates, shell_enabled, g_user_exited, stopped>>
  BY DEF ExecEnters, Running, Unwound
<1>2. /\ Shape(stack) /\ Nested(stack) /\ Shape(stack') /\ Nested(stack')
      /\ Top = stack[Len(stack)]
  BY DEF IInv, StackInv, Top
<1> DEFINE n == Len(stack)
           u == [stack EXCEPT ![n].at = "exec"]
<1>3. stack \in Seq(Frames) /\ n \in Nat /\ n > 0 /\ DOMAIN stack = 1 .. n BY <1>2 DEF Shape
<1>4. SubSeq(stack, 1, n) = stack BY <1>3
<1>5. Len(u) = n /\ u[1].at = stack[1].at BY <1>1, <1>2, KeyGoto
<1>6. stack' = Append(u, Frame(User, "run")) BY <1>1, <1>4
<1>7. DOMAIN u = 1 .. n /\ u \in Seq({u[k] : k \in 1 .. n})
  <2>1. u = [k \in 1 .. n |-> u[k]] BY <1>3
  <2> HIDE DEF u, n
  <2>2. n \in Nat BY <1>3
  <2> QED BY <2>1, <2>2
<1> HIDE DEF u
<1>8. Len(stack') = n + 1 /\ stack'[1] = u[1] /\ stack'[n + 1] = Frame(User, "run")
  BY <1>3, <1>5, <1>6, <1>7
<1>9. n + 1 \in DOMAIN stack' /\ stack'[n + 1].who = User
  BY <1>2, <1>3, <1>8 DEF Shape, Frame
<1>10. ~g_user_exited /\ ~g_user_exited' BY <1>1 DEF BootInv
<1>11. shell_enabled BY <1>1, <1>2, Sets, MarksOfKeyboard DEF BootInv, Marked
<1>12. BootInv' BY <1>1, <1>5, <1>8, <1>10, <1>11 DEF BootInv
<1>13. Stage = "command" BY <1>1, <1>2, KeyboardStage, StageIs
<1>14. Stage' = "program" BY <1>1, <1>2, <1>9, <1>10, ProgramStage, StageIs
<1> QED BY <1>12, <1>13, <1>14 DEF Served, Dialogue!Next, Dialogue!Enter

\* A system call is its program's.
LEMMA CallersFrame ==
  ASSUME NEW s, NEW d, Shape(s), Saved(s, d), s[Len(s)].who = Int80
  PROVE  /\ Len(s) \in Nat /\ Len(s) - 1 \in DOMAIN s /\ s[Len(s) - 1].who = User
         /\ d = Len(s) - 2 /\ d > 1 /\ s[d] = Frame(Keyboard, "exec")
<1>1. s \in Seq(Frames) /\ Len(s) \in Nat /\ DOMAIN s = 1 .. Len(s) /\ Len(s) \in DOMAIN s
  BY DEF Shape
<1>2. Len(s) > 1 /\ s[Len(s) - 1].who = User BY <1>1 DEF Shape
<1>3. Len(s) - 1 \in DOMAIN s BY <1>1, <1>2
<1>4. Len(s) - 1 > 1 /\ s[Len(s) - 2] = Frame(Keyboard, "exec") BY <1>1, <1>2, <1>3 DEF Shape
<1>5. d = Len(s) - 2 BY <1>1, <1>2, <1>3 DEF Saved
<1>6. s[Len(s) - 2].who # Boot BY <1>4, Names DEF Frame
<1>7. d # 1
  <2>1. s[1].who = Boot BY <1>1 DEF Shape
  <2> QED BY <1>5, <1>6, <2>1
<1> QED BY <1>1, <1>2, <1>3, <1>4, <1>5, <1>7

LEMMA ExitServed ==
  ASSUME IInv, IInv', BootInv, NEW exit \in BOOLEAN, Isr128(exit) PROVE Served
<1>1. /\ stopped = "no" /\ Top.who = Int80 /\ Top.at = "handler"
      /\ stack' = [stack EXCEPT ![Len(stack)].at = "iret"]
      /\ UNCHANGED <<gates, shell_enabled, stopped>>
  BY DEF Isr128, Running, Goto
<1>2. g_user_exited' = (g_user_exited \/ exit) BY DEF Isr128
<1>3. /\ Shape(stack) /\ Nested(stack) /\ Shape(stack') /\ Nested(stack')
      /\ Top = stack[Len(stack)] /\ Saved(stack, g_exec_kesp) /\ Saved(stack', g_exec_kesp')
  BY DEF IInv, StackInv, Top
<1> DEFINE n == Len(stack)
<1>4. stack \in Seq(Frames) /\ n \in Nat /\ DOMAIN stack = 1 .. n /\ stack[n] \in Frames
  BY <1>3 DEF Shape
<1>5. stack[n] = Frame(Int80, "handler") BY <1>1, <1>3, <1>4, FrameKinds
<1>6. n - 1 \in DOMAIN stack /\ stack[n - 1].who = User /\ n > 1
  BY <1>1, <1>3, <1>4, CallersFrame
<1>7. /\ DOMAIN stack' = 1 .. n /\ Len(stack') = n /\ stack'[n].at = "iret"
      /\ stack'[1] = stack[1] /\ stack'[n - 1] = stack[n - 1]
  <2>1. DOMAIN stack' = 1 .. n /\ Len(stack') = n BY <1>1, <1>4
  <2>2. stack'[n] = [stack[n] EXCEPT !.at = "iret"] BY <1>1, <1>4, <1>6
  <2>3. stack'[n].at = "iret" BY <1>5, <2>2 DEF Frame
  <2>4. n # 1 /\ n # n - 1 /\ 1 \in 1 .. n
    <3>1. n \in Nat /\ n > 1 BY <1>4, <1>6
    <3> HIDE DEF n
    <3> QED BY <3>1
  <2>5. stack' = [stack EXCEPT ![n].at = "iret"] BY <1>1
  <2>6. 1 \in DOMAIN stack BY <1>4, <2>4
  <2> HIDE DEF n
  <2>7. stack'[1] = stack[1] /\ stack'[n - 1] = stack[n - 1] BY <1>6, <2>4, <2>5, <2>6
  <2> QED BY <2>1, <2>3, <2>7
<1>8. ~g_user_exited BY <1>1 DEF BootInv
<1>9. SameMarks(stack, stack')
  BY <1>1, <1>3, Names, UnmarkedPlaces, GotoUnmarked
<1>10. In(stack', Marked) <=> In(stack, Marked) BY <1>9 DEF SameMarks
<1>11. Top'.at = "iret" BY <1>7 DEF Top
<1>12. BootInv' BY <1>1, <1>7, <1>10, <1>11 DEF BootInv
<1>13. Stage = "program" BY <1>1, <1>3, <1>6, <1>8, ProgramStage, StageIs
<1>14. Stage' \in {"program", "exiting"}
  <2>1. n - 1 \in DOMAIN stack' /\ stack'[n - 1].who = User BY <1>4, <1>6, <1>7
  <2>2. Stage' = IF g_user_exited' THEN "exiting" ELSE "program"
    BY <1>1, <1>3, <2>1, ProgramStage, StageIs
  <2> QED BY <2>2
<1> QED BY <1>12, <1>13, <1>14 DEF Served, Dialogue!Next, Dialogue!Exit

LEMMA BounceServed ==
  ASSUME IInv, IInv', BootInv, Bounce PROVE Served
<1>1. /\ stopped = "no" /\ Top.who = Int80 /\ g_user_exited /\ ~g_user_exited'
      /\ stack' = [SubSeq(stack, 1, g_exec_kesp) EXCEPT ![g_exec_kesp].at = "ps2"]
      /\ UNCHANGED <<gates, shell_enabled, stopped>>
  BY DEF Bounce, Running, Unwound
<1>2. /\ Shape(stack) /\ Nested(stack) /\ Shape(stack') /\ Nested(stack')
      /\ Top = stack[Len(stack)] /\ Saved(stack, g_exec_kesp)
  BY DEF IInv, StackInv, Top
<1> DEFINE n == Len(stack)
           d == g_exec_kesp
<1>3. /\ n \in Nat /\ n - 1 \in DOMAIN stack /\ stack[n - 1].who = User
      /\ d = n - 2 /\ d > 1 /\ stack[d] = Frame(Keyboard, "exec")
  BY <1>1, <1>2, CallersFrame
<1>4. stack \in Seq(Frames) BY <1>2 DEF Shape
<1>5. /\ stack'[1] = stack[1] /\ Len(stack') = d
      /\ stack'[d].who = Keyboard /\ stack'[d].at = "ps2"
  <2> DEFINE u == SubSeq(stack, 1, d)
  <2>1. d \in 1 .. n /\ d \in Nat BY <1>3, <1>4
  <2>2. u = [k \in 1 .. d |-> stack[k]] BY <1>4, <2>1
  <2>3. stack' = [u EXCEPT ![d].at = "ps2"] BY <1>1
  <2> HIDE DEF u
  <2>4. stack' = [k \in 1 .. d |-> IF k = d THEN [stack[d] EXCEPT !.at = "ps2"] ELSE stack[k]]
    BY <1>3, <2>1, <2>2, <2>3
  <2>5. Len(stack') = d BY <2>1, <2>4
  <2>6. stack'[1] = stack[1] /\ stack'[d] = [stack[d] EXCEPT !.at = "ps2"]
    <3>1. d # 1 /\ 1 \in 1 .. d /\ d \in 1 .. d
      <4>1. d \in Nat /\ d > 1 BY <1>3, <2>1
      <4> HIDE DEF d
      <4> QED BY <4>1
    <3> HIDE DEF d
    <3> QED BY <2>4, <3>1
  <2> QED BY <1>3, <2>5, <2>6 DEF Frame
<1>6. shell_enabled BY <1>2, <1>3, Sets, MarksOfProgram DEF BootInv, Marked
<1>7. BootInv' BY <1>1, <1>5, <1>6 DEF BootInv
<1>8. Stage = "exiting" BY <1>1, <1>2, <1>3, ProgramStage, StageIs
<1>9. Stage' = "returning"
  <2>1. "ps2" \in BackSteps \ {"prompt"} BY DEF BackSteps
  <2> QED BY <1>1, <1>2, <1>5, <2>1, KeyboardStage, StageIs
<1> QED BY <1>7, <1>8, <1>9 DEF Served, Dialogue!Next, Dialogue!Unwind

-------------------------------------------------------------------------------
LEMMA StepServed == IInv /\ IInv' /\ BootInv /\ [Next]_vars => Served
<1> SUFFICES ASSUME IInv, IInv', BootInv, [Next]_vars PROVE Served OBVIOUS
<1>1. CASE Next
  BY <1>1, DeviceServed, DeliverServed, HandlerServed, BootServed, HaltServed, KeyServed,
     EnterServed, ExitServed, BounceServed
  DEF Next, HandlerStep, KernelStep
<1>2. CASE UNCHANGED vars
  <2>1. UNCHANGED <<gates, shell_enabled, g_user_exited, stack, stopped>> BY <1>2 DEF vars
  <2>2. BootInv' BY <2>1 DEF BootInv, Top, In
  <2>3. Stage' = Stage BY <2>1, StageIs
  <2> QED BY <2>2, <2>3 DEF Served
<1> QED BY <1>1, <1>2

\* Commands are atomic to the one who types them: whatever interrupts come between,
\* the kernel's steps are those of a Session.
THEOREM Refinement == Spec => ImplementsSession
<1>1. Init => Dialogue!Init
  <2> SUFFICES ASSUME Init PROVE Stage = "boot" BY DEF Dialogue!Init
  <2>1. /\ stack = <<Frame(Boot, "init")>> /\ shell_enabled = FALSE /\ stopped = "no"
    BY DEF Init
  <2>2. stack[1].at = "init" /\ DOMAIN stack = {1} BY <2>1 DEF Frame
  <2>3. \A places \in SUBSET Marked : ~In(stack, places) BY <2>2, UnmarkedPlaces DEF In
  <2>4. ~In(stack, {"prompt"}) /\ ~In(stack, BackSteps) /\ ~In(stack, {"run"})
        /\ ~In(stack, {"shell"})
    BY <2>3, Sets
  <2> QED BY <2>1, <2>4, StageIs DEF StageOf
<1>2. IInv /\ IInv' /\ BootInv /\ [Next]_vars => BootInv' /\ [Dialogue!Next]_Stage
  BY StepServed DEF Served
<1>3. Spec => []IInv BY Inductive
<1> QED BY <1>1, <1>2, <1>3, SessionInitially, PTL DEF Spec, ImplementsSession, Dialogue!Spec
===============================================================================

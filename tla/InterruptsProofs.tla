---------------------------- MODULE InterruptsProofs ----------------------------
(***************************************************************************)
(* Proofs about the stack of contexts, for every set of lines.             *)
(*                                                                         *)
(* The invariant is about the frames below the top, which the acknowledge- *)
(* ment and the exit of a program reach without naming them: what a frame  *)
(* can be interrupted in, what lies below a program and a system call, and *)
(* that the handlers' lines decrease up the stack.                         *)
(***************************************************************************)
EXTENDS Interrupts, FiniteSetTheorems, FunctionTheorems, TLAPS

\* What each kind of frame can be in the middle of.
Frames ==
  [who : {Boot}, at : {"init", "memory", "idt", "vfs", "idle"}]
  \cup [who : {User}, at : {"run"}]
  \cup [who : {Int80}, at : {"handler", "iret"}]
  \cup [who : Lines, at : {"handler", "eoi"}]
  \cup [who : {Keyboard}, at : {"shell", "exec"} \cup BackSteps]

\* Where a frame may have another above it.
Left == {"memory", "idt", "vfs", "idle", "run", "exec"} \cup BackSteps

\* A program lies on the exec that entered it, a system call on its program.
Shape(s) ==
  /\ s \in Seq(Frames) /\ s # <<>>
  /\ \A k \in DOMAIN s :
       /\ s[k].who = Boot <=> k = 1
       /\ k < Len(s) => s[k].at \in Left
       /\ s[k].at = "exec" => k < Len(s) /\ s[k + 1].who = User
       /\ s[k].who = User => k > 1 /\ s[k - 1] = Frame(Keyboard, "exec")
       /\ s[k].who = Int80 => k > 1 /\ s[k - 1].who = User

\* The saved stack pointer is a frame that exec was called from, and the frame
\* below any program.
Saved(s, d) ==
  /\ d \in 0 .. Len(s)
  /\ d # 0 => s[d].at \in {"exec"} \cup BackSteps
  /\ \A k \in DOMAIN s : s[k].who = User => d = k - 1

\* A handler interrupts only handlers of lower priority.
Nested(s) ==
  \A j, k \in DOMAIN s :
    j < k /\ s[j].who \in Lines /\ s[k].who \in Lines => s[k].who < s[j].who

Lined(s) == {s[k].who : k \in {j \in DOMAIN s : s[j].who \in Lines}}

StackInv == Shape(stack) /\ Saved(stack, g_exec_kesp) /\ Nested(stack)
ServiceInv == stopped # "no gate" => isr = Lined(stack)

ScalarsOK ==
  /\ irr \subseteq Lines /\ isr \subseteq Lines /\ imr \subseteq Lines
  /\ gates \subseteq Lines
  /\ routine \in {"none", "keyboard_irq", "irq1_scream"}
  /\ obf \in {NoByte, "enter", "other"}
  /\ shell_enabled \in BOOLEAN /\ g_user_exited \in BOOLEAN
  /\ stopped \in {"no", "exception", "no gate"}

IInv == ScalarsOK /\ StackInv /\ ServiceInv

-------------------------------------------------------------------------------
LEMMA Names ==
  /\ Lines \subseteq Nat /\ Timer \in Lines /\ Keyboard \in Lines
  /\ Boot \notin Lines /\ User \notin Lines /\ Int80 \notin Lines
  /\ Boot # User /\ Boot # Int80 /\ User # Int80
BY LinesAssumption, FramesAssumption DEF Timer, Keyboard

\* What a frame's owner says of its place, and the other way round.
LEMMA FrameKinds ==
  ASSUME NEW f \in Frames
  PROVE  /\ f.who \in Lines \cup {Boot, User, Int80}
         /\ f.who = Boot => f.at \in {"init", "memory", "idt", "vfs", "idle"}
         /\ f.who = User => f.at = "run"
         /\ f.who = Int80 => f.at \in {"handler", "iret"}
         /\ f.who \in Lines => f.at \in {"handler", "eoi", "shell", "exec"} \cup BackSteps
         /\ f.at \in {"shell", "exec"} \cup BackSteps => f.who = Keyboard
         /\ f = Frame(f.who, f.at)
BY Names DEF Frames, BackSteps, Frame

\* The last frame moves on: not into a program, nor out of the frame that a
\* program's exit resumes.
LEMMA GotoTop ==
  ASSUME NEW s, NEW a, NEW d, Shape(s), Saved(s, d), Nested(s),
         Frame(s[Len(s)].who, a) \in Frames, a # "exec",
         s[Len(s)].at \in BackSteps => a \in BackSteps
  PROVE  LET t == [s EXCEPT ![Len(s)].at = a]
         IN  Shape(t) /\ Saved(t, d) /\ Nested(t) /\ Lined(t) = Lined(s)
<1> DEFINE t == [s EXCEPT ![Len(s)].at = a]
           n == Len(s)
<1>1. s \in Seq(Frames) /\ n \in Nat /\ n > 0 /\ DOMAIN s = 1 .. n BY DEF Shape
<1>2. s[n] \in Frames /\ s[n] = Frame(s[n].who, s[n].at) BY <1>1, FrameKinds
<1>3. t[n] = Frame(s[n].who, a)
  BY <1>1, <1>2 DEF Frame
<1>4. t \in Seq(Frames) /\ Len(t) = n /\ DOMAIN t = 1 .. n BY <1>1, <1>3
<1>5. \A k \in 1 .. n : /\ t[k].who = s[k].who
                        /\ k # n => t[k] = s[k]
                        /\ k = n => t[k].at = a
  BY <1>1, <1>3 DEF Frame
<1> HIDE DEF t
<1>6. Shape(t)
  <2>1. SUFFICES ASSUME NEW k \in 1 .. n
        PROVE  /\ t[k].who = Boot <=> k = 1
               /\ k < n => t[k].at \in Left
               /\ t[k].at = "exec" => k < n /\ t[k + 1].who = User
               /\ t[k].who = User => k > 1 /\ t[k - 1] = Frame(Keyboard, "exec")
               /\ t[k].who = Int80 => k > 1 /\ t[k - 1].who = User
    BY <1>1, <1>4 DEF Shape
  <2>2. /\ s[k].who = Boot <=> k = 1
        /\ k < n => s[k].at \in Left
        /\ s[k].at = "exec" => k < n /\ s[k + 1].who = User
        /\ s[k].who = User => k > 1 /\ s[k - 1] = Frame(Keyboard, "exec")
        /\ s[k].who = Int80 => k > 1 /\ s[k - 1].who = User
    BY <1>1 DEF Shape
  <2>3. n \in Nat /\ t[k].who = s[k].who BY <1>1, <1>5
  <2>4. CASE k = n
    <3>1. t[k].at # "exec" /\ (k > 1 => t[k - 1] = s[k - 1])
      BY <1>5, <2>3, <2>4
    <3> QED BY <2>2, <2>3, <2>4, <3>1
  <2>5. CASE k # n
    <3>1. t[k] = s[k] /\ t[k + 1].who = s[k + 1].who /\ (k > 1 => t[k - 1] = s[k - 1])
      BY <1>5, <2>3, <2>5
    <3> QED BY <2>2, <2>3, <2>5, <3>1
  <2> QED BY <2>4, <2>5
<1>7. Saved(t, d)
  <2>1. d # 0 => t[d].at \in {"exec"} \cup BackSteps
    <3>1. SUFFICES ASSUME d # 0 PROVE t[d].at \in {"exec"} \cup BackSteps OBVIOUS
    <3>2. d \in 1 .. n /\ s[d].at \in {"exec"} \cup BackSteps BY <1>1, <3>1 DEF Saved
    <3>3. CASE d = n
      <4>1. s[n].at # "exec" BY <1>1 DEF Shape
      <4> QED BY <1>1, <1>5, <3>2, <3>3, <4>1
    <3>4. CASE d # n BY <1>5, <3>2, <3>4
    <3> QED BY <3>3, <3>4
  <2> QED BY <1>1, <1>4, <1>5, <2>1 DEF Saved
<1>8. Nested(t) BY <1>1, <1>4, <1>5 DEF Nested
<1>9. Lined(t) = Lined(s) BY <1>1, <1>4, <1>5 DEF Lined
<1> QED BY <1>6, <1>7, <1>8, <1>9 DEF t

\* An interrupt or a system call: one more frame on one that can be left.
LEMMA PushFrame ==
  ASSUME NEW s, NEW d, NEW w, Shape(s), Saved(s, d), Nested(s),
         w \in Lines \cup {Int80},
         s[Len(s)].at \in Left,
         w = Int80 => s[Len(s)].who = User,
         w \in Lines => \A m \in Lined(s) : w < m
  PROVE  LET t == Append(s, Frame(w, "handler"))
         IN  /\ Shape(t) /\ Saved(t, d) /\ Nested(t)
             /\ w \in Lines => Lined(t) = Lined(s) \cup {w}
             /\ w \notin Lines => Lined(t) = Lined(s)
<1> DEFINE t == Append(s, Frame(w, "handler"))
           n == Len(s)
<1>1. s \in Seq(Frames) /\ n \in Nat /\ n > 0 /\ DOMAIN s = 1 .. n BY DEF Shape
<1>2. Frame(w, "handler") \in Frames BY Names DEF Frames, Frame
<1>3. /\ t \in Seq(Frames) /\ Len(t) = n + 1 /\ DOMAIN t = 1 .. n + 1
      /\ \A k \in 1 .. n : t[k] = s[k]
      /\ t[n + 1] = Frame(w, "handler")
  BY <1>1, <1>2
<1>4. t[n + 1].who = w /\ t[n + 1].at = "handler" BY <1>3 DEF Frame
<1> HIDE DEF t
<1>5. Shape(t)
  <2>1. SUFFICES ASSUME NEW k \in 1 .. n + 1
        PROVE  /\ t[k].who = Boot <=> k = 1
               /\ k < n + 1 => t[k].at \in Left
               /\ t[k].at = "exec" => k < n + 1 /\ t[k + 1].who = User
               /\ t[k].who = User => k > 1 /\ t[k - 1] = Frame(Keyboard, "exec")
               /\ t[k].who = Int80 => k > 1 /\ t[k - 1].who = User
    BY <1>1, <1>3 DEF Shape
  <2>2. CASE k = n + 1
    <3>1. w # Boot /\ w # User BY Names
    <3>2. w = Int80 => t[n].who = User BY <1>1, <1>3
    <3> QED BY <1>1, <1>4, <2>2, <3>1, <3>2
  <2>3. CASE k \in 1 .. n
    <3>1. (t[k].who = Boot <=> k = 1) /\ t[k].at \in Left
      BY <1>1, <1>3, <2>3 DEF Shape
    <3>2. t[k].at = "exec" => k < n /\ t[k + 1].who = User
      BY <1>1, <1>3, <2>3 DEF Shape
    <3>3. /\ t[k].who = User => k > 1 /\ t[k - 1] = Frame(Keyboard, "exec")
          /\ t[k].who = Int80 => k > 1 /\ t[k - 1].who = User
      BY <1>1, <1>3, <2>3 DEF Shape
    <3> QED BY <1>1, <3>1, <3>2, <3>3
  <2> QED BY <1>1, <2>2, <2>3
<1>6. Saved(t, d)
  <2>1. w # User BY Names
  <2> QED BY <1>1, <1>3, <1>4, <2>1 DEF Saved
<1>7. Nested(t)
  <2>1. SUFFICES ASSUME NEW j \in 1 .. n + 1, NEW k \in 1 .. n + 1, j < k,
                        t[j].who \in Lines, t[k].who \in Lines
        PROVE  t[k].who < t[j].who
    BY <1>3 DEF Nested
  <2>2. j \in 1 .. n /\ t[j] = s[j] BY <1>1, <1>3, <2>1
  <2>3. CASE k \in 1 .. n BY <1>1, <1>3, <2>1, <2>2, <2>3 DEF Nested
  <2>4. CASE k = n + 1
    <3>1. s[j].who \in Lined(s) BY <1>1, <2>1, <2>2 DEF Lined
    <3> QED BY <1>4, <2>1, <2>2, <2>4, <3>1
  <2> QED BY <1>1, <2>3, <2>4
<1>8. w \in Lines => Lined(t) = Lined(s) \cup {w}
  <2>1. SUFFICES ASSUME w \in Lines PROVE Lined(t) = Lined(s) \cup {w} OBVIOUS
  <2>2. ASSUME NEW m \in Lined(t) PROVE m \in Lined(s) \cup {w}
    <3>1. PICK k \in 1 .. n + 1 : m = t[k].who /\ t[k].who \in Lines
      BY <1>3, <2>2 DEF Lined
    <3>2. k \in 1 .. n \/ k = n + 1 BY <1>1
    <3> QED BY <1>1, <1>3, <1>4, <3>1, <3>2 DEF Lined
  <2>3. ASSUME NEW m \in Lined(s) PROVE m \in Lined(t)
    <3>1. PICK k \in 1 .. n : m = s[k].who /\ s[k].who \in Lines
      BY <1>1, <2>3 DEF Lined
    <3> QED BY <1>1, <1>3, <3>1 DEF Lined
  <2>4. w \in Lined(t) BY <1>1, <1>3, <1>4, <2>1 DEF Lined
  <2> QED BY <2>2, <2>3, <2>4
<1>9. w \notin Lines => Lined(t) = Lined(s)
  <2>1. SUFFICES ASSUME w \notin Lines PROVE Lined(t) = Lined(s) OBVIOUS
  <2>2. \A k \in 1 .. n + 1 : t[k].who \in Lines => k \in 1 .. n BY <1>1, <1>4, <2>1
  <2> QED BY <1>1, <1>3, <2>2 DEF Lined
<1> QED BY <1>5, <1>6, <1>7, <1>8, <1>9 DEF t

\* What is left of the stack when the frames above a depth are dropped, but for
\* the place of the frame that is then the last.
LEMMA CutStack ==
  ASSUME NEW s, NEW m \in 1 .. Len(s), Shape(s), Nested(s)
  PROVE  LET t == SubSeq(s, 1, m)
         IN  /\ t \in Seq(Frames) /\ Len(t) = m /\ DOMAIN t = 1 .. m
             /\ \A k \in 1 .. m : t[k] = s[k]
             /\ Nested(t)
             /\ s[m].at # "exec" => Shape(t)
<1> DEFINE t == SubSeq(s, 1, m)
           n == Len(s)
<1>1. s \in Seq(Frames) /\ n \in Nat /\ n > 0 /\ DOMAIN s = 1 .. n BY DEF Shape
<1>2. /\ t \in Seq(Frames) /\ Len(t) = m /\ DOMAIN t = 1 .. m
      /\ \A k \in 1 .. m : t[k] = s[k]
  BY <1>1
<1> HIDE DEF t
<1>3. Nested(t) BY <1>1, <1>2 DEF Nested
<1>4. ASSUME s[m].at # "exec" PROVE Shape(t)
  <2>1. SUFFICES ASSUME NEW k \in 1 .. m
        PROVE  /\ t[k].who = Boot <=> k = 1
               /\ k < m => t[k].at \in Left
               /\ t[k].at = "exec" => k < m /\ t[k + 1].who = User
               /\ t[k].who = User => k > 1 /\ t[k - 1] = Frame(Keyboard, "exec")
               /\ t[k].who = Int80 => k > 1 /\ t[k - 1].who = User
    BY <1>1, <1>2 DEF Shape
  <2>2. /\ s[k].who = Boot <=> k = 1
        /\ k < n => s[k].at \in Left
        /\ s[k].at = "exec" => k < n /\ s[k + 1].who = User
        /\ s[k].who = User => k > 1 /\ s[k - 1] = Frame(Keyboard, "exec")
        /\ s[k].who = Int80 => k > 1 /\ s[k - 1].who = User
    BY <1>1 DEF Shape
  <2>3. (t[k].who = Boot <=> k = 1) /\ (k < m => t[k].at \in Left)
    BY <1>1, <1>2, <2>2
  <2>4. t[k].at = "exec" => k < m /\ t[k + 1].who = User
    BY <1>1, <1>2, <1>4, <2>2
  <2>5. /\ t[k].who = User => k > 1 /\ t[k - 1] = Frame(Keyboard, "exec")
        /\ t[k].who = Int80 => k > 1 /\ t[k - 1].who = User
    BY <1>1, <1>2, <2>2
  <2> QED BY <2>3, <2>4, <2>5
<1> QED BY <1>2, <1>3, <1>4 DEF t

\* A handler, or a system call, returns; nothing else does.
LEMMA PopTop ==
  ASSUME NEW s, NEW d, Shape(s), Saved(s, d), Nested(s),
         s[Len(s)].who \in Lines \cup {Int80}, s[Len(s)].at \in {"eoi", "iret"}
  PROVE  LET t == SubSeq(s, 1, Len(s) - 1)
             w == s[Len(s)].who
         IN  /\ Shape(t) /\ Saved(t, d) /\ Nested(t)
             /\ w \in Lines => /\ Lined(s) = Lined(t) \cup {w}
                               /\ \A m \in Lined(t) : w < m
             /\ w \notin Lines => Lined(t) = Lined(s)
<1> DEFINE n == Len(s)
           w == s[n].who
           t == SubSeq(s, 1, n - 1)
<1>1. s \in Seq(Frames) /\ n \in Nat /\ n > 0 /\ DOMAIN s = 1 .. n /\ Len(s) = n
  BY DEF Shape
<1> HIDE DEF n
<1>2. w \in Lines \cup {Int80} /\ w # Boot /\ w # User /\ s[n].at \in {"eoi", "iret"} BY Names DEF n
<1>3. n > 1 /\ n - 1 \in 1 .. n BY <1>1, <1>2 DEF Shape
<1>4. s[n - 1].at # "exec"
  <2>1. s[n - 1].at = "exec" => s[(n - 1) + 1].who = User BY <1>1, <1>3 DEF Shape
  <2>2. (n - 1) + 1 = n BY <1>1
  <2> QED BY <1>2, <2>1, <2>2
<1>5. /\ t \in Seq(Frames) /\ Len(t) = n - 1 /\ DOMAIN t = 1 .. n - 1
      /\ \A k \in 1 .. n - 1 : t[k] = s[k]
      /\ Nested(t) /\ Shape(t)
  BY <1>1, <1>3, <1>4, CutStack
<1> HIDE DEF t, n
<1>6. Saved(t, d)
  <2>1. d \in 0 .. n /\ (d # 0 => s[d].at \in {"exec"} \cup BackSteps) BY <1>1 DEF Saved
  <2>2. s[n].at \notin {"exec"} \cup BackSteps BY <1>2 DEF BackSteps
  <2>3. d \in 0 .. n - 1 BY <1>1, <2>1, <2>2
  <2> QED BY <1>1, <1>3, <1>5, <2>1, <2>3 DEF Saved
<1>7. w \notin Lines => Lined(t) = Lined(s)
  BY <1>1, <1>5 DEF Lined
<1>8. ASSUME w \in Lines
      PROVE  Lined(s) = Lined(t) \cup {w} /\ \A m \in Lined(t) : w < m
  <2>1. ASSUME NEW m \in Lined(s) PROVE m \in Lined(t) \cup {w}
    <3>1. PICK k \in 1 .. n : m = s[k].who /\ s[k].who \in Lines BY <1>1, <2>1 DEF Lined
    <3>2. k \in 1 .. n - 1 \/ k = n BY <1>1
    <3> QED BY <1>5, <3>1, <3>2 DEF Lined
  <2>2. ASSUME NEW m \in Lined(t) PROVE m \in Lined(s) /\ w < m
    <3>1. PICK k \in 1 .. n - 1 : m = t[k].who /\ t[k].who \in Lines BY <1>5, <2>2 DEF Lined
    <3>2. k \in 1 .. n /\ n \in 1 .. n /\ k < n /\ m = s[k].who BY <1>1, <1>5, <3>1
    <3> QED BY <1>1, <1>8, <3>1, <3>2 DEF Lined, Nested
  <2>3. w \in Lined(s) BY <1>1, <1>8 DEF Lined
  <2> QED BY <2>1, <2>2, <2>3
<1> QED BY <1>5, <1>6, <1>7, <1>8 DEF t, n

\* A command enters a program: there is none yet, for its exec would have left a
\* frame of the keyboard's below this one.
LEMMA EnterProgram ==
  ASSUME NEW s, NEW d, Shape(s), Saved(s, d), Nested(s),
         s[Len(s)] = Frame(Keyboard, "shell")
  PROVE  LET t == Append([SubSeq(s, 1, Len(s)) EXCEPT ![Len(s)].at = "exec"],
                         Frame(User, "run"))
         IN  Shape(t) /\ Saved(t, Len(s)) /\ Nested(t) /\ Lined(t) = Lined(s)
<1> DEFINE n == Len(s)
           u == [SubSeq(s, 1, n) EXCEPT ![n].at = "exec"]
           t == Append(u, Frame(User, "run"))
<1>1. s \in Seq(Frames) /\ n \in Nat /\ n > 0 /\ DOMAIN s = 1 .. n /\ Len(s) = n
  BY DEF Shape
<1> HIDE DEF n
<1>2. SubSeq(s, 1, n) = s BY <1>1
<1>3. /\ Frame(Keyboard, "exec") \in Frames /\ Frame(User, "run") \in Frames
      /\ \A w, a : Frame(w, a).who = w /\ Frame(w, a).at = a
  BY DEF Frames, Frame
<1>4. u = [s EXCEPT ![n] = Frame(Keyboard, "exec")]
  <2>1. [s[n] EXCEPT !.at = "exec"] = Frame(Keyboard, "exec") BY <1>1 DEF Frame
  <2> QED BY <1>1, <1>2, <2>1
<1>5. /\ t \in Seq(Frames) /\ Len(t) = n + 1 /\ DOMAIN t = 1 .. n + 1
      /\ \A k \in 1 .. n - 1 : t[k] = s[k]
      /\ t[n] = Frame(Keyboard, "exec") /\ t[n + 1] = Frame(User, "run")
  <2> HIDE DEF u
  <2>1. /\ u \in Seq(Frames) /\ Len(u) = n
        /\ \A k \in 1 .. n - 1 : u[k] = s[k]
        /\ u[n] = Frame(Keyboard, "exec")
    BY <1>1, <1>3, <1>4
  <2> QED BY <1>1, <1>3, <2>1
<1>6. s[n].who = Keyboard /\ s[n].at = "shell" /\ Keyboard \in Lines BY <1>1, <1>3, Names
<1> HIDE DEF t, n
<1>7. \A k \in 1 .. n : s[k].who # User
  <2>1. SUFFICES ASSUME NEW k \in 1 .. n, s[k].who = User PROVE FALSE OBVIOUS
  <2>2. k > 1 /\ s[k - 1] = Frame(Keyboard, "exec") BY <1>1, <2>1 DEF Shape
  <2>3. k - 1 \in 1 .. n /\ k - 1 < n /\ n \in 1 .. n BY <1>1, <2>2
  <2>4. s[k - 1].who = Keyboard BY <1>3, <2>2
  <2>5. Keyboard < Keyboard BY <1>1, <1>6, <2>3, <2>4 DEF Nested
  <2> QED BY <2>5 DEF Keyboard
<1>8. \A k \in 1 .. n : t[k].who = s[k].who
  <2>1. SUFFICES ASSUME NEW k \in 1 .. n PROVE t[k].who = s[k].who OBVIOUS
  <2>2. k \in 1 .. n - 1 \/ k = n BY <1>1
  <2> QED BY <1>3, <1>5, <1>6, <2>2
<1>9. t[n + 1].who = User /\ t[n + 1].at = "run" /\ t[n].at = "exec" BY <1>3, <1>5
<1>10. Shape(t)
  <2>1. SUFFICES ASSUME NEW k \in 1 .. n + 1
        PROVE  /\ t[k].who = Boot <=> k = 1
               /\ k < n + 1 => t[k].at \in Left
               /\ t[k].at = "exec" => k < n + 1 /\ t[k + 1].who = User
               /\ t[k].who = User => k > 1 /\ t[k - 1] = Frame(Keyboard, "exec")
               /\ t[k].who = Int80 => k > 1 /\ t[k - 1].who = User
    BY <1>1, <1>5 DEF Shape
  <2>2. CASE k \in 1 .. n - 1
    <3>1. /\ s[k].who = Boot <=> k = 1
          /\ s[k].at \in Left
          /\ s[k].at = "exec" => s[k + 1].who = User
          /\ s[k].who # User
          /\ s[k].who # Int80
      BY <1>1, <1>7, <2>2 DEF Shape
    <3>2. k + 1 \in 1 .. n /\ k < n + 1 /\ t[k] = s[k] BY <1>1, <1>5, <2>2
    <3> QED BY <1>8, <3>1, <3>2
  <2>3. CASE k = n
    <3>1. n # 1 /\ Keyboard # Boot /\ Keyboard # User /\ Keyboard # Int80
      BY <1>1, <1>6, Names DEF Shape
    <3>2. t[n].who = Keyboard BY <1>3, <1>5
    <3>3. t[n].at \in Left BY <1>9 DEF Left
    <3> QED BY <1>1, <1>9, <2>3, <3>1, <3>2, <3>3
  <2>4. CASE k = n + 1
    <3>1. t[k - 1] = Frame(Keyboard, "exec") /\ k # 1 BY <1>1, <1>5, <2>4
    <3> QED BY <1>1, <1>9, <2>4, <3>1, Names
  <2> QED BY <1>1, <2>2, <2>3, <2>4
<1>11. Saved(t, n)
  <2>1. SUFFICES ASSUME NEW k \in 1 .. n + 1, t[k].who = User PROVE n = k - 1
    BY <1>1, <1>5, <1>9 DEF Saved
  <2>2. k \notin 1 .. n BY <1>7, <1>8, <2>1
  <2> QED BY <1>1, <2>2
<1>12. \A k \in 1 .. n + 1 : t[k].who \in Lines => k \in 1 .. n
  BY <1>1, <1>9, Names
<1>13. Nested(t) BY <1>1, <1>5, <1>8, <1>12 DEF Nested
<1>14. Lined(t) = Lined(s) BY <1>1, <1>5, <1>8, <1>12 DEF Lined
<1> QED BY <1>10, <1>11, <1>13, <1>14 DEF t, n

\* The exit bounces: the two frames above the saved one are the system call and
\* the program, so no line in service loses its frame.
LEMMA LeaveProgram ==
  ASSUME NEW s, NEW d, Shape(s), Saved(s, d), Nested(s), s[Len(s)].who = Int80
  PROVE  LET t == [SubSeq(s, 1, d) EXCEPT ![d].at = "ps2"]
         IN  Shape(t) /\ Saved(t, d) /\ Nested(t) /\ Lined(t) = Lined(s)
<1> DEFINE n == Len(s)
           u == SubSeq(s, 1, d)
           t == [u EXCEPT ![d].at = "ps2"]
<1>1. s \in Seq(Frames) /\ n \in Nat /\ n > 0 /\ DOMAIN s = 1 .. n /\ Len(s) = n
  BY DEF Shape
<1> HIDE DEF n
<1>2. n > 1 /\ s[n - 1].who = User BY <1>1 DEF Shape
<1>3. n - 1 > 1 /\ s[(n - 1) - 1] = Frame(Keyboard, "exec") BY <1>1, <1>2 DEF Shape
<1>4. d = n - 2 /\ d \in 1 .. n /\ d >= 1 BY <1>1, <1>2, <1>3 DEF Saved
<1>5. s[d] = Frame(Keyboard, "exec") BY <1>1, <1>3, <1>4
<1>6. /\ u \in Seq(Frames) /\ Len(u) = d /\ DOMAIN u = 1 .. d
      /\ \A k \in 1 .. d : u[k] = s[k]
      /\ Nested(u)
  BY <1>1, <1>4, CutStack
<1> HIDE DEF u
<1>7. \A w, a : Frame(w, a).who = w /\ Frame(w, a).at = a BY DEF Frame
<1>8. Frame(Keyboard, "ps2") \in Frames BY DEF Frames, Frame, BackSteps
<1>9. t = [u EXCEPT ![d] = Frame(Keyboard, "ps2")]
  <2>1. [u[d] EXCEPT !.at = "ps2"] = Frame(Keyboard, "ps2")
    BY <1>1, <1>4, <1>5, <1>6 DEF Frame
  <2> QED BY <1>4, <1>6, <2>1
<1> HIDE DEF t, n
<1>10. /\ t \in Seq(Frames) /\ Len(t) = d /\ DOMAIN t = 1 .. d
       /\ \A k \in 1 .. d - 1 : t[k] = s[k]
       /\ t[d] = Frame(Keyboard, "ps2")
  BY <1>4, <1>6, <1>8, <1>9
<1>11. \A k \in 1 .. d : t[k].who = s[k].who
  <2>1. SUFFICES ASSUME NEW k \in 1 .. d PROVE t[k].who = s[k].who OBVIOUS
  <2>2. k \in 1 .. d - 1 \/ k = d BY <1>1, <1>4
  <2> QED BY <1>5, <1>7, <1>10, <2>2
<1>12. t[d].who = Keyboard /\ t[d].at = "ps2" BY <1>7, <1>10
<1>13. \A k \in 1 .. d : s[k].who # User /\ s[k].who # Int80
  <2>1. SUFFICES ASSUME NEW k \in 1 .. d PROVE s[k].who # User /\ s[k].who # Int80 OBVIOUS
  <2>2. k \in 1 .. n /\ (k > 1 => k - 1 \in 1 .. n) BY <1>1, <1>4
  <2>3. s[k].who # User BY <1>1, <1>4, <2>2 DEF Saved
  <2>4. s[k].who = Int80 => s[k - 1].who = User /\ k > 1 BY <1>1, <2>2 DEF Shape
  <2>5. k > 1 => s[k - 1].who # User BY <1>1, <1>4, <2>2 DEF Saved
  <2> QED BY <2>3, <2>4, <2>5
<1>14. Shape(t)
  <2>1. SUFFICES ASSUME NEW k \in 1 .. d
        PROVE  /\ t[k].who = Boot <=> k = 1
               /\ k < d => t[k].at \in Left
               /\ t[k].at = "exec" => k < d /\ t[k + 1].who = User
               /\ t[k].who = User => k > 1 /\ t[k - 1] = Frame(Keyboard, "exec")
               /\ t[k].who = Int80 => k > 1 /\ t[k - 1].who = User
    BY <1>4, <1>10 DEF Shape
  <2>2. k \in 1 .. n BY <1>1, <1>4
  <2>3. CASE k \in 1 .. d - 1
    <3>1. /\ s[k].who = Boot <=> k = 1
          /\ s[k].at \in Left
          /\ s[k].at = "exec" => s[k + 1].who = User
      BY <1>1, <1>4, <2>2, <2>3 DEF Shape
    <3>2. k + 1 \in 1 .. d /\ k < d /\ t[k] = s[k] BY <1>1, <1>4, <1>10, <2>3
    <3> QED BY <1>11, <1>13, <3>1, <3>2
  <2>4. CASE k = d
    <3>1. s[k].who = Boot <=> k = 1 BY <1>1, <2>2 DEF Shape
    <3> QED BY <1>1, <1>4, <1>11, <1>12, <1>13, <2>4, <3>1
  <2> QED BY <1>1, <1>4, <2>3, <2>4
<1>15. Saved(t, d)
  BY <1>4, <1>10, <1>11, <1>12, <1>13 DEF Saved, BackSteps
<1>16. Nested(t) BY <1>6, <1>10, <1>11 DEF Nested
<1>17. \A k \in 1 .. n : s[k].who \in Lines => k \in 1 .. d
  <2>1. SUFFICES ASSUME NEW k \in 1 .. n, s[k].who \in Lines PROVE k \in 1 .. d OBVIOUS
  <2>2. k # n /\ k # n - 1 BY <1>1, <1>2, <2>1, Names
  <2> QED BY <1>1, <1>4, <2>2
<1>18. Lined(t) = Lined(s)
  <2>1. \A k \in 1 .. d : k \in 1 .. n BY <1>1, <1>4
  <2> QED BY <1>1, <1>10, <1>11, <1>17, <2>1 DEF Lined
<1> QED BY <1>14, <1>15, <1>16, <1>18 DEF t, u, n

-------------------------------------------------------------------------------
LEMMA Initially == Init => IInv
<1> SUFFICES ASSUME Init PROVE IInv OBVIOUS
<1>1. ScalarsOK BY DEF Init, ScalarsOK
<1>2. stack = <<Frame(Boot, "init")>> /\ g_exec_kesp = 0 /\ isr = {} BY DEF Init
<1>3. /\ Frame(Boot, "init") \in Frames /\ Frame(Boot, "init").who = Boot
      /\ Frame(Boot, "init").at = "init"
  BY DEF Frames, Frame
<1>4. stack \in Seq(Frames) /\ stack # <<>> /\ Len(stack) = 1 /\ DOMAIN stack = {1}
      /\ stack[1].who = Boot /\ stack[1].at = "init"
  BY <1>2, <1>3
<1>5. Shape(stack) BY <1>4, Names DEF Shape
<1>6. Saved(stack, g_exec_kesp) BY <1>2, <1>4, Names DEF Saved
<1>7. Nested(stack) BY <1>4, Names DEF Nested
<1>8. Lined(stack) = {} BY <1>4, Names DEF Lined
<1> QED BY <1>1, <1>2, <1>5, <1>6, <1>7, <1>8 DEF IInv, StackInv, ServiceInv

\* The frame that runs, and the stack it runs on.
LEMMA TopFrame ==
  ASSUME StackInv
  PROVE  /\ Len(stack) \in Nat /\ Len(stack) > 0 /\ DOMAIN stack = 1 .. Len(stack)
         /\ Top \in Frames /\ Top = Frame(Top.who, Top.at)
         /\ \A k \in 1 .. Len(stack) : stack[k] \in Frames
<1>1. stack \in Seq(Frames) /\ stack # <<>> BY DEF StackInv, Shape
<1>2. stack[Len(stack)] \in Frames BY <1>1
<1> QED BY <1>1, <1>2, FrameKinds DEF Top

LEMMA Moved ==
  ASSUME StackInv, NEW a, Goto(a), g_exec_kesp' = g_exec_kesp,
         Frame(Top.who, a) \in Frames, a # "exec",
         Top.at \in BackSteps => a \in BackSteps
  PROVE  StackInv' /\ Lined(stack') = Lined(stack)
<1>1. /\ Shape(stack) /\ Saved(stack, g_exec_kesp) /\ Nested(stack)
      /\ stack' = [stack EXCEPT ![Len(stack)].at = a]
  BY DEF StackInv, Goto
<1>2. /\ Frame(stack[Len(stack)].who, a) \in Frames
      /\ stack[Len(stack)].at \in BackSteps => a \in BackSteps
  BY DEF Top
<1>3. /\ Shape(stack') /\ Saved(stack', g_exec_kesp) /\ Nested(stack')
      /\ Lined(stack') = Lined(stack)
  BY <1>1, <1>2, GotoTop
<1> QED BY <1>3 DEF StackInv

\* A step that moves the top frame only, or leaves the stack alone, and the lines
\* in service too.
LEMMA Unserved ==
  ASSUME IInv, StackInv', Lined(stack') = Lined(stack), isr' = isr,
         stopped' # "no gate" => stopped # "no gate"
  PROVE  StackInv' /\ ServiceInv'
BY DEF IInv, ServiceInv

LEMMA StackKept ==
  ASSUME StackInv, UNCHANGED <<stack, g_exec_kesp>>
  PROVE  StackInv' /\ Lined(stack') = Lined(stack)
BY DEF StackInv

-------------------------------------------------------------------------------
LEMMA Devices ==
  ASSUME IInv, Device PROVE StackInv' /\ ServiceInv'
<1>1. UNCHANGED <<isr, stack, g_exec_kesp, stopped>>
  BY DEF Device, Request, KeyByte, globals
<1> QED BY <1>1, StackKept, Unserved DEF IInv

LEMMA Delivered ==
  ASSUME IInv, Deliver PROVE StackInv' /\ ServiceInv'
<1>1. PICK n \in Lines :
        /\ Offered(n) /\ isr' = isr \cup {n}
        /\ \/ n \in gates /\ Push(n, "handler") /\ UNCHANGED stopped
           \/ stopped' = "no gate" /\ UNCHANGED stack
  BY DEF Deliver
<1>2. InterruptsOn /\ g_exec_kesp' = g_exec_kesp BY DEF Deliver, globals
<1>3. StackInv /\ isr = Lined(stack) BY <1>2 DEF IInv, ServiceInv, InterruptsOn
<1>4. CASE stopped' = "no gate" /\ UNCHANGED stack
  BY <1>2, <1>3, <1>4, StackKept DEF ServiceInv
<1>5. CASE Push(n, "handler") /\ UNCHANGED stopped
  <2>1. \A m \in Lined(stack) : n < m BY <1>1, <1>3 DEF Offered
  <2>2. Top.at \in Left
    <3>1. CASE Top.who = Boot /\ Top.at # "init" BY <1>3, <3>1, TopFrame, FrameKinds DEF Left
    <3>2. CASE Top.who = User BY <1>3, <3>2, TopFrame, FrameKinds DEF Left
    <3>3. CASE Top.at \in BackSteps BY <3>3 DEF Left
    <3> QED BY <1>2, <3>1, <3>2, <3>3 DEF InterruptsOn
  <2>3. n \in Lines \cup {Int80} /\ n # Int80 /\ n \in Lines BY <1>1, Names
  <2>4. stack[Len(stack)].at \in Left BY <2>2 DEF Top
  <2>5. Shape(stack) /\ Saved(stack, g_exec_kesp) /\ Nested(stack)
        /\ stack' = Append(stack, Frame(n, "handler"))
    BY <1>3, <1>5 DEF StackInv, Push
  <2>6. Shape(stack') /\ Saved(stack', g_exec_kesp) /\ Nested(stack')
        /\ Lined(stack') = Lined(stack) \cup {n}
    BY <2>1, <2>3, <2>4, <2>5, PushFrame
  <2> QED BY <1>1, <1>2, <1>3, <2>6 DEF StackInv, ServiceInv
<1> QED BY <1>1, <1>4, <1>5

LEMMA Acknowledged ==
  ASSUME IInv, Eoi PROVE StackInv' /\ ServiceInv'
<1>1. PICK n \in Lines : stopped = "no" /\ Top.who = n /\ Top.at = "eoi"
  BY DEF Eoi, Running
<1>2. /\ isr' = {m \in isr : \E k \in isr : k < m}
      /\ stack' = SubSeq(stack, 1, Len(stack) - 1)
      /\ UNCHANGED <<g_exec_kesp, stopped>>
  BY DEF Eoi, Pop, globals
<1>3. Shape(stack) /\ Saved(stack, g_exec_kesp) /\ Nested(stack) /\ isr = Lined(stack)
  BY <1>1 DEF IInv, StackInv, ServiceInv
<1>4. /\ stack[Len(stack)].who = n /\ stack[Len(stack)].who \in Lines \cup {Int80}
      /\ stack[Len(stack)].at \in {"eoi", "iret"}
  BY <1>1 DEF Top
<1>5. /\ Shape(stack') /\ Saved(stack', g_exec_kesp) /\ Nested(stack')
      /\ Lined(stack) = Lined(stack') \cup {n}
      /\ \A m \in Lined(stack') : n < m
  BY <1>2, <1>3, <1>4, PopTop
<1>6. isr' = Lined(stack')
  <2>1. n \in Nat /\ \A m \in Lined(stack') : m \in Nat BY Names DEF Lined
  <2>2. n \in isr /\ isr = Lined(stack') \cup {n} BY <1>3, <1>5
  <2>3. ASSUME NEW m \in isr' PROVE m \in Lined(stack')
    <3>1. m \in isr /\ \E k \in isr : k < m BY <1>2, <2>3
    <3> QED BY <1>5, <2>1, <2>2, <3>1
  <2>4. ASSUME NEW m \in Lined(stack') PROVE m \in isr' BY <1>2, <1>5, <2>2, <2>4
  <2> QED BY <2>3, <2>4
<1> QED BY <1>2, <1>5, <1>6 DEF StackInv, ServiceInv

LEMMA Boots ==
  ASSUME IInv, InterruptsInit \/ ClearIdt \/ FillIdt \/ EnableShell \/ BootHalts
  PROVE  StackInv' /\ ServiceInv'
<1>1. StackInv BY DEF IInv
<1>2. \A a \in {"init", "memory", "idt", "vfs", "idle"} : Frame(Boot, a) \in Frames
  BY DEF Frames, Frame
<1>3. CASE InterruptsInit
  <2>1. stopped = "no" /\ Top.who = Boot /\ Top.at = "init" /\ Goto("memory")
        /\ isr' = {} /\ UNCHANGED <<g_exec_kesp, stopped>>
    BY <1>3 DEF InterruptsInit, Running
  <2>2. StackInv' /\ Lined(stack') = Lined(stack)
    BY <1>1, <1>2, <2>1, Moved DEF BackSteps
  <2>3. Lined(stack) = {}
    <3>1. \A k \in 1 .. Len(stack) : stack[k].who = Boot <=> k = 1
      BY <1>1, TopFrame DEF StackInv, Shape
    <3>2. Len(stack) \in 1 .. Len(stack) /\ stack[Len(stack)].who = Boot
      BY <1>1, <2>1, TopFrame DEF Top
    <3>3. Len(stack) = 1 BY <3>1, <3>2
    <3>4. DOMAIN stack = {1} /\ stack[1].who = Boot BY <1>1, <2>1, <3>3, TopFrame DEF Top
    <3> QED BY <3>4, Names DEF Lined
  <2> QED BY <2>1, <2>2, <2>3 DEF ServiceInv
<1>4. CASE ClearIdt
  <2>1. Top.who = Boot /\ Top.at = "memory" /\ Goto("idt") /\ UNCHANGED <<isr, g_exec_kesp, stopped>>
    BY <1>4 DEF ClearIdt, Running, pic, globals
  <2>2. StackInv' /\ Lined(stack') = Lined(stack)
    BY <1>1, <1>2, <2>1, Moved DEF BackSteps
  <2> QED BY <2>1, <2>2, Unserved
<1>5. CASE FillIdt
  <2>1. Top.who = Boot /\ Top.at = "idt" /\ Goto("vfs") /\ UNCHANGED <<isr, g_exec_kesp, stopped>>
    BY <1>5 DEF FillIdt, Running, pic, globals
  <2>2. StackInv' /\ Lined(stack') = Lined(stack)
    BY <1>1, <1>2, <2>1, Moved DEF BackSteps
  <2> QED BY <2>1, <2>2, Unserved
<1>6. CASE EnableShell
  <2>1. Top.who = Boot /\ Top.at = "vfs" /\ Goto("idle") /\ UNCHANGED <<isr, g_exec_kesp, stopped>>
    BY <1>6 DEF EnableShell, Running, pic
  <2>2. StackInv' /\ Lined(stack') = Lined(stack)
    BY <1>1, <1>2, <2>1, Moved DEF BackSteps
  <2> QED BY <2>1, <2>2, Unserved
<1>7. CASE BootHalts
  <2>1. stopped = "no" /\ UNCHANGED <<isr, stack, g_exec_kesp>>
    BY <1>7 DEF BootHalts, Running, pic, globals
  <2> QED BY <1>1, <2>1, StackKept, Unserved
<1> QED BY <1>3, <1>4, <1>5, <1>6, <1>7

LEMMA Handles ==
  ASSUME IInv, PlainRoutine \/ KeyboardIrq \/ CommandReturns \/ CommandHalts
  PROVE  StackInv' /\ ServiceInv'
<1>1. StackInv BY DEF IInv
<1>2. /\ \A n \in Lines : Frame(n, "eoi") \in Frames
      /\ Frame(Keyboard, "shell") \in Frames
  BY DEF Frames, Frame
<1>3. CASE PlainRoutine
  <2>1. PICK n \in Lines : Top.who = n /\ Top.at = "handler"
    BY <1>3 DEF PlainRoutine, Running
  <2>2. Goto("eoi") /\ UNCHANGED <<isr, g_exec_kesp, stopped>>
    BY <1>3 DEF PlainRoutine, pic, globals
  <2>3. StackInv' /\ Lined(stack') = Lined(stack)
    BY <1>1, <1>2, <2>1, <2>2, Moved DEF BackSteps
  <2> QED BY <2>2, <2>3, Unserved
<1>4. CASE KeyboardIrq
  <2>1. PICK a \in {"shell", "eoi"} : Goto(a)
    BY <1>4 DEF KeyboardIrq
  <2>2. Top.who = Keyboard /\ Top.at = "handler" /\ UNCHANGED <<isr, g_exec_kesp, stopped>>
    BY <1>4 DEF KeyboardIrq, Running, pic, globals
  <2>3. StackInv' /\ Lined(stack') = Lined(stack)
    BY <1>1, <1>2, <2>1, <2>2, Names, Moved DEF BackSteps
  <2> QED BY <2>2, <2>3, Unserved
<1>5. CASE CommandReturns
  <2>1. Top.who = Keyboard /\ Top.at = "shell" /\ Goto("eoi")
        /\ UNCHANGED <<isr, g_exec_kesp, stopped>>
    BY <1>5 DEF CommandReturns, Running, pic, globals
  <2>2. StackInv' /\ Lined(stack') = Lined(stack)
    BY <1>1, <1>2, <2>1, Names, Moved DEF BackSteps
  <2> QED BY <2>1, <2>2, Unserved
<1>6. CASE CommandHalts
  <2>1. stopped = "no" /\ UNCHANGED <<isr, stack, g_exec_kesp>>
    BY <1>6 DEF CommandHalts, Running, pic, globals
  <2> QED BY <1>1, <2>1, StackKept, Unserved
<1> QED BY <1>3, <1>4, <1>5, <1>6

LEMMA Programs ==
  ASSUME IInv, \/ ExecEnters \/ SystemCall \/ Fault
               \/ (\E exit \in BOOLEAN : Isr128(exit)) \/ IsrReturn \/ Bounce
  PROVE  StackInv' /\ ServiceInv'
<1>1. /\ StackInv /\ Shape(stack) /\ Saved(stack, g_exec_kesp) /\ Nested(stack)
      /\ Top = stack[Len(stack)]
  BY DEF IInv, StackInv, Top
<1>2. CASE ExecEnters
  <2>1. /\ Top.who = Keyboard /\ Top.at = "shell" /\ g_exec_kesp' = Len(stack)
        /\ stack' = Append([SubSeq(stack, 1, Len(stack)) EXCEPT ![Len(stack)].at = "exec"],
                           Frame(User, "run"))
        /\ UNCHANGED <<isr, stopped>>
    BY <1>2 DEF ExecEnters, Running, Unwound, pic
  <2>2. stack[Len(stack)] = Frame(Keyboard, "shell") BY <1>1, <2>1, TopFrame
  <2>3. /\ Shape(stack') /\ Saved(stack', Len(stack)) /\ Nested(stack')
        /\ Lined(stack') = Lined(stack)
    BY <1>1, <2>1, <2>2, EnterProgram
  <2> QED BY <2>1, <2>3, Unserved DEF StackInv
<1>3. CASE SystemCall
  <2>1. /\ Top.who = User /\ Top.at = "run" /\ UNCHANGED <<isr, g_exec_kesp, stopped>>
        /\ stack' = Append(stack, Frame(Int80, "handler"))
    BY <1>3 DEF SystemCall, Running, Push, pic, globals
  <2>2. stack[Len(stack)].at \in Left /\ stack[Len(stack)].who = User BY <1>1, <2>1 DEF Left
  <2>3. /\ Shape(stack') /\ Saved(stack', g_exec_kesp) /\ Nested(stack')
        /\ Lined(stack') = Lined(stack)
    BY <1>1, <2>1, <2>2, Names, PushFrame
  <2> QED BY <2>1, <2>3, Unserved DEF StackInv
<1>4. CASE Fault
  <2>1. stopped = "no" /\ UNCHANGED <<isr, stack, g_exec_kesp>>
    BY <1>4 DEF Fault, Running, pic, globals
  <2> QED BY <1>1, <2>1, StackKept, Unserved
<1>5. CASE \E exit \in BOOLEAN : Isr128(exit)
  <2>1. Top.who = Int80 /\ Top.at = "handler" /\ Goto("iret")
        /\ UNCHANGED <<isr, g_exec_kesp, stopped>>
    BY <1>5 DEF Isr128, Running, pic
  <2>2. Frame(Int80, "iret") \in Frames BY DEF Frames, Frame
  <2>3. StackInv' /\ Lined(stack') = Lined(stack)
    BY <1>1, <2>1, <2>2, Moved DEF BackSteps
  <2> QED BY <2>1, <2>3, Unserved
<1>6. CASE IsrReturn
  <2>1. /\ Top.who = Int80 /\ Top.at = "iret" /\ UNCHANGED <<isr, g_exec_kesp, stopped>>
        /\ stack' = SubSeq(stack, 1, Len(stack) - 1)
    BY <1>6 DEF IsrReturn, Running, Pop, pic, globals
  <2>2. /\ Shape(stack') /\ Saved(stack', g_exec_kesp) /\ Nested(stack')
        /\ Lined(stack') = Lined(stack)
    BY <1>1, <2>1, Names, PopTop
  <2> QED BY <2>1, <2>2, Unserved DEF StackInv
<1>7. CASE Bounce
  <2>1. /\ Top.who = Int80 /\ UNCHANGED <<isr, g_exec_kesp, stopped>>
        /\ stack' = [SubSeq(stack, 1, g_exec_kesp) EXCEPT ![g_exec_kesp].at = "ps2"]
    BY <1>7 DEF Bounce, Running, Unwound, pic
  <2>2. /\ Shape(stack') /\ Saved(stack', g_exec_kesp) /\ Nested(stack')
        /\ Lined(stack') = Lined(stack)
    BY <1>1, <2>1, LeaveProgram
  <2> QED BY <2>1, <2>2, Unserved DEF StackInv
<1> QED BY <1>2, <1>3, <1>4, <1>5, <1>6, <1>7

LEMMA ShellBack ==
  ASSUME IInv, BackPs2 \/ BackUnmask \/ BackInstall
  PROVE  StackInv' /\ ServiceInv'
<1>1. StackInv BY DEF IInv
<1>2. PICK a \in BackSteps : Goto(a)
  BY DEF BackPs2, BackUnmask, BackInstall, BackSteps
<1>3. Top.who = Keyboard /\ UNCHANGED <<isr, g_exec_kesp, stopped>>
  BY DEF BackPs2, BackUnmask, BackInstall, Running, pic, globals
<1>4. Frame(Keyboard, a) \in Frames /\ a # "exec" BY DEF Frames, Frame, BackSteps
<1>5. StackInv' /\ Lined(stack') = Lined(stack) BY <1>1, <1>2, <1>3, <1>4, Moved
<1> QED BY <1>3, <1>5, Unserved

LEMMA ScalarStep ==
  ASSUME IInv, Next PROVE ScalarsOK'
<1> USE DEF ScalarsOK, pic, globals
<1>0. ScalarsOK /\ Timer \in Lines /\ Keyboard \in Lines BY Names DEF IInv
<1>1. CASE \E n \in Lines : Request(n) BY <1>0, <1>1 DEF Request
<1>2. CASE \E b \in {"enter", "other"} : KeyByte(b) BY <1>0, <1>2 DEF KeyByte
<1>3. CASE Deliver
  <2>1. UNCHANGED <<imr, gates, globals, obf>> BY <1>3 DEF Deliver
  <2>2. \E n \in Lines : irr' = irr \ {n} /\ isr' = isr \cup {n}
                         /\ (stopped' = stopped \/ stopped' = "no gate")
    BY <1>3 DEF Deliver
  <2> QED BY <1>0, <2>1, <2>2
<1>4. CASE PlainRoutine \/ CommandReturns BY <1>0, <1>4 DEF PlainRoutine, CommandReturns
<1>5. CASE KeyboardIrq BY <1>0, <1>5 DEF KeyboardIrq
<1>6. CASE Eoi BY <1>0, <1>6 DEF Eoi
<1>7. CASE CommandHalts \/ Fault \/ BootHalts
  BY <1>0, <1>7 DEF CommandHalts, Fault, BootHalts
<1>8. CASE ExecEnters BY <1>0, <1>8 DEF ExecEnters
<1>9. CASE SystemCall \/ IsrReturn BY <1>0, <1>9 DEF SystemCall, IsrReturn
<1>10. CASE \E exit \in BOOLEAN : Isr128(exit)
  <2>1. UNCHANGED <<pic, gates, routine, obf, shell_enabled, stopped>>
    BY <1>10 DEF Isr128
  <2>2. g_user_exited' \in BOOLEAN BY <1>0, <1>10, Zenon DEF Isr128
  <2> QED BY <1>0, <2>1, <2>2
<1>11. CASE Bounce BY <1>0, <1>11 DEF Bounce
<1>12. CASE InterruptsInit BY <1>0, <1>12 DEF InterruptsInit
<1>13. CASE ClearIdt \/ FillIdt BY <1>0, <1>13 DEF ClearIdt, FillIdt
<1>14. CASE EnableShell BY <1>0, <1>14 DEF EnableShell
<1>15. CASE BackPs2 BY <1>0, <1>15 DEF BackPs2
<1>16. CASE BackUnmask BY <1>0, <1>16 DEF BackUnmask
<1>17. CASE BackInstall BY <1>0, <1>17 DEF BackInstall
<1> QED BY <1>1, <1>2, <1>3, <1>4, <1>5, <1>6, <1>7, <1>8, <1>9, <1>10, <1>11, <1>12,
           <1>13, <1>14, <1>15, <1>16, <1>17 DEF Next, Device, HandlerStep, KernelStep

LEMMA Preserved == IInv /\ [Next]_vars => IInv'
<1> SUFFICES ASSUME IInv, [Next]_vars PROVE IInv' OBVIOUS
<1>1. CASE Next
  <2>1. StackInv' /\ ServiceInv'
    BY <1>1, Devices, Delivered, Acknowledged, Boots, Handles, Programs, ShellBack
    DEF Next, HandlerStep, KernelStep
  <2> QED BY <1>1, <2>1, ScalarStep DEF IInv
<1>2. CASE UNCHANGED vars
  BY <1>2 DEF vars, IInv, ScalarsOK, StackInv, ServiceInv
<1> QED BY <1>1, <1>2

LEMMA Inductive == Spec => []IInv
<1> QED BY Initially, Preserved, PTL DEF Spec

-------------------------------------------------------------------------------
\* The types, and that no return unwinds below kernel_main or the saved frame.
THEOREM TypeCorrect == Spec => []TypeOK
<1>1. IInv => TypeOK
  <2> SUFFICES ASSUME IInv PROVE TypeOK OBVIOUS
  <2>1. ScalarsOK /\ StackInv BY DEF IInv
  <2>2. stack # <<>> /\ g_exec_kesp \in 0 .. Len(stack)
    BY <2>1 DEF StackInv, Shape, Saved
  <2>3. \A k \in 1 .. Len(stack) : stack[k].who = Boot <=> k = 1
    BY <2>1, TopFrame DEF StackInv, Shape
  <2>4. stack[1].who = Boot BY <2>1, <2>3, TopFrame
  <2>5. \A k \in DOMAIN stack : k > 1 => stack[k].who \in Lines \cup {User, Int80}
    BY <2>1, <2>3, TopFrame, FrameKinds
  <2> QED BY <2>1, <2>2, <2>4, <2>5 DEF TypeOK, ScalarsOK
<1> QED BY <1>1, Inductive, PTL

\* The lines on the stack are as many as their frames.
LEMMA LinesCounted ==
  ASSUME NEW s, NEW n \in Nat, DOMAIN s = 1 .. n, Nested(s)
  PROVE  Cardinality(Lined(s)) = Cardinality({k \in DOMAIN s : s[k].who \in Lines})
<1> DEFINE K == {k \in DOMAIN s : s[k].who \in Lines}
           line == [k \in K |-> s[k].who]
<1>1. IsFiniteSet(K)
  <2>1. IsFiniteSet(1 .. n) BY FS_Interval
  <2>2. K \in SUBSET (1 .. n) OBVIOUS
  <2> QED BY <2>1, <2>2, FS_Subset
<1>2. line \in [K -> Lined(s)] /\ \A m \in Lined(s) : \E k \in K : line[k] = m
  BY DEF Lined
<1>3. \A k \in K : line[k] = s[k].who /\ k \in DOMAIN s /\ k \in Nat /\ line[k] \in Lines
  OBVIOUS
<1> HIDE DEF K, line
<1>4. ASSUME NEW j \in K, NEW k \in K, line[j] = line[k] PROVE j = k
  <2>1. j < k => line[k] < line[j] BY <1>3 DEF Nested
  <2>2. k < j => line[j] < line[k] BY <1>3 DEF Nested
  <2>3. line[j] \in Nat /\ j \in Nat /\ k \in Nat BY <1>3, Names
  <2>4. ~(j < k) /\ ~(k < j) BY <1>4, <2>1, <2>2, <2>3
  <2> QED BY <2>3, <2>4
<1>5. line \in Bijection(K, Lined(s)) BY <1>2, <1>4, Fun_IsBij
<1>6. ExistsBijection(K, Lined(s)) BY <1>5, Fun_ExistsBij
<1>7. Cardinality(Lined(s)) = Cardinality(K) BY <1>1, <1>6, FS_Bijection
<1> QED BY <1>7 DEF K

\* An acknowledgement names no line, and retires that of the handler that sent it.
THEOREM ServiceMatches == Spec => []InServiceStacked
<1>1. IInv => InServiceStacked
  <2> SUFFICES ASSUME IInv, stopped # "no gate"
               PROVE  /\ isr = {stack[k].who : k \in Contexts}
                      /\ Cardinality(isr) = Cardinality(Contexts)
    BY DEF InServiceStacked
  <2>1. StackInv /\ Nested(stack) /\ isr = Lined(stack) BY DEF IInv, StackInv, ServiceInv
  <2>2. isr = {stack[k].who : k \in Contexts} BY <2>1 DEF Lined, Contexts
  <2>3. Cardinality(Lined(stack)) = Cardinality(Contexts)
    BY <2>1, TopFrame, LinesCounted DEF Contexts
  <2> QED BY <2>1, <2>2, <2>3
<1> QED BY <1>1, Inductive, PTL

\* One line buffer and one g_exec_kesp are enough: all the frames of a command, of
\* its program's exec and of the way back are one frame of the keyboard's handler.
THEOREM CommandsExclude == Spec => []OneCommand
<1>1. IInv => OneCommand
  <2> DEFINE K == {k \in DOMAIN stack : stack[k].at \in {"shell", "exec"} \cup BackSteps}
  <2> SUFFICES ASSUME IInv PROVE Cardinality(K) <= 1 BY DEF OneCommand
  <2>1. StackInv BY DEF IInv
  <2>2. \A k \in K : stack[k].who = Keyboard /\ k \in 1 .. Len(stack)
    BY <2>1, TopFrame, FrameKinds
  <2>3. \A j, k \in K : j = k
    <3>1. SUFFICES ASSUME NEW j \in K, NEW k \in K, j < k PROVE FALSE
      BY <2>1, <2>2, TopFrame
    <3>2. Keyboard < Keyboard BY <2>1, <2>2, <3>1, Names DEF StackInv, Nested
    <3> QED BY <3>2 DEF Keyboard
  <2>4. K = {} \/ \E k \in K : K = {k} BY <2>3
  <2> HIDE DEF K
  <2> QED BY <2>4, FS_EmptySet, FS_Singleton
<1> QED BY <1>1, Inductive, PTL

\* An exit always finds the frame of its own program's exec.
THEOREM ExitUnwinds == Spec => []ResumePoint
<1>1. IInv => ResumePoint
  <2> SUFFICES ASSUME IInv, NEW k \in DOMAIN stack, stack[k].who = User
               PROVE  g_exec_kesp = k - 1 /\ stack[g_exec_kesp] = Frame(Keyboard, "exec")
    BY DEF ResumePoint
  <2>1. g_exec_kesp = k - 1 BY DEF IInv, StackInv, Saved
  <2>2. stack[k - 1] = Frame(Keyboard, "exec") BY DEF IInv, StackInv, Shape
  <2> QED BY <2>1, <2>2
<1> QED BY <1>1, Inductive, PTL
===============================================================================

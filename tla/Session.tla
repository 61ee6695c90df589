--------------------------------- MODULE Session --------------------------------
(***************************************************************************)
(* What the kernel is to the person at the keyboard, and nothing of the    *)
(* interrupts that carry it: commands one at a time, each of which comes   *)
(* to an end; a program that runs until it exits or the machine stops; and *)
(* after a program, a prompt that no command follows.                      *)
(***************************************************************************)
VARIABLE stage

Init == stage = "boot"

\* The shell is enabled.
Enable == stage = "boot" /\ stage' = "ready"

\* Enter, and the command's return.
Begin  == stage = "ready" /\ stage' = "command"
Finish == stage = "command" /\ stage' = "ready"

\* exec enters a program ...
Enter  == stage = "command" /\ stage' = "program"
\* ... which asks for its exit ...
Exit   == stage = "program" /\ stage' = "exiting"
\* ... and is left for the shell, which prints its prompt.
Unwind == stage = "exiting" /\ stage' = "returning"
Over   == stage = "returning" /\ stage' = "over"

\* Neither a shell that waits nor one that a program returns to stops the machine.
Halt == stage \in {"boot", "command", "program"} /\ stage' = "halted"

Next == Enable \/ Begin \/ Finish \/ Enter \/ Exit \/ Unwind \/ Over \/ Halt

Spec == Init /\ [][Next]_stage

\* Commands end, and exits bring the prompt.
Ends == stage = "command" /\ (Finish \/ Enter \/ Halt)
Fairness == WF_stage(Ends) /\ WF_stage(Unwind) /\ WF_stage(Over)
===============================================================================

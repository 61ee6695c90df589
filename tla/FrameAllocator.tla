---------------------------- MODULE FrameAllocator ----------------------------
(***************************************************************************)
(* What the physical memory manager promises its callers, and nothing of   *)
(* how it keeps it: once boot has seeded the pool with frames that are     *)
(* usable RAM, a frame moves from the pool to the caller it is handed to   *)
(* and back, and is never in both places.                                  *)
(***************************************************************************)
EXTENDS Naturals

VARIABLES
  usable,   \* frames that are RAM and hold nothing the kernel must keep
  seeded,   \* has boot filled the pool?
  pool,     \* frames that can be handed out
  handed    \* frames that belong to a caller

faVars == <<usable, seeded, pool, handed>>

Init ==
  /\ usable = {}
  /\ seeded = FALSE
  /\ pool = {}
  /\ handed = {}

\* Boot finds the usable frames and publishes the pool in one step; it may
\* keep usable frames back.
Seed ==
  /\ ~seeded
  /\ seeded' = TRUE
  /\ usable' \subseteq Nat
  /\ pool' \subseteq usable'
  /\ UNCHANGED handed

Take(f) ==
  /\ f \in pool
  /\ pool' = pool \ {f}
  /\ handed' = handed \cup {f}
  /\ usable' = usable
  /\ seeded' = seeded

Give(f) ==
  /\ f \in handed
  /\ handed' = handed \ {f}
  /\ pool' = pool \cup {f}
  /\ usable' = usable
  /\ seeded' = seeded

Next ==
  \/ Seed
  \/ \E f \in pool : Take(f)
  \/ \E f \in handed : Give(f)

Spec == Init /\ [][Next]_faVars
===============================================================================

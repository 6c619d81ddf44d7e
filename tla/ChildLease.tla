----------------------------- MODULE ChildLease -----------------------------
(***************************************************************************)
(* What the supervision of the privileged capture process promises: there  *)
(* is never a second capture process, and a process that keeps dying is    *)
(* replaced at most MaxRestarts times in any Window.  How tokens, handles  *)
(* and connections bring that about is the business of Supervisor.         *)
(***************************************************************************)
EXTENDS Naturals, Sequences

CONSTANTS
  Processes,    \* the capture processes that can be launched
  MaxRestarts,  \* CAPTURE_RESTART_MAX_ATTEMPTS
  Window        \* CAPTURE_RESTART_WINDOW_SECONDS

VARIABLES
  alive,     \* the capture processes that run
  restarts,  \* when a replacement was attempted, whether or not it came up
  clock

leaseVars == <<alive, restarts, clock>>

Init == alive = {} /\ restarts = <<>> /\ clock = 0

\* The first process, for which no budget is asked, or one a failed attempt owes.
Launch ==
  /\ alive = {} /\ \E p \in Processes : alive' = {p}
  /\ UNCHANGED <<restarts, clock>>

Die == alive # {} /\ alive' = {} /\ UNCHANGED <<restarts, clock>>

WithinBudget ==
  \/ Len(restarts) < MaxRestarts
  \/ clock - restarts[Len(restarts) + 1 - MaxRestarts] >= Window

Attempt ==
  /\ alive = {} /\ WithinBudget
  /\ restarts' = Append(restarts, clock)
  /\ UNCHANGED <<alive, clock>>

Pass == clock' = clock + 1 /\ UNCHANGED <<alive, restarts>>

Next == Launch \/ Die \/ Attempt \/ Pass

Spec == Init /\ [][Next]_leaseVars
=============================================================================

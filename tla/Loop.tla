-------------------------------- MODULE Loop --------------------------------
(***************************************************************************)
(* What the rest of the agent may rely on when it runs a task in a         *)
(* Scheduler: one thread, ticks one after the other, no tick that begins   *)
(* after the thread has seen the stop event, and no end without it.        *)
(* Scheduler implements this, and the two loops of Agent are instances.    *)
(***************************************************************************)

VARIABLES
    alive,   \* a thread of the scheduler runs
    stop,    \* the stop event is set
    busy     \* the thread is inside the task

loopVars == <<alive, stop, busy>>

LInit == ~alive /\ ~stop /\ ~busy

Start == ~alive /\ alive' /\ ~stop' /\ busy' = FALSE

SetStop == stop' /\ UNCHANGED <<alive, busy>>

Tick == alive /\ ~stop /\ ~busy /\ busy' /\ UNCHANGED <<alive, stop>>

TickEnds == busy /\ ~busy' /\ UNCHANGED <<alive, stop>>

End == alive /\ stop /\ ~busy /\ ~alive' /\ UNCHANGED <<stop, busy>>

\* The process ends: the thread is a daemon.
Kill == ~alive' /\ ~stop' /\ ~busy'

LNext == Start \/ SetStop \/ Tick \/ TickEnds \/ End \/ Kill

LSpec == LInit /\ [][LNext]_loopVars

=============================================================================

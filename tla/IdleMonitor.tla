----------------------------- MODULE IdleMonitor -----------------------------
(***************************************************************************)
(* What idle detection promises (lights.ini:108-113): the room goes idle   *)
(* only after more than Limit ticks without a non-idle event, and the      *)
(* first non-idle event ends it at once.  Nothing is said of threads, of   *)
(* the two counters the engine splits the time over, or of the queued      *)
(* IDLE_ON and IDLE_OFF events: those are how EventEngine implements it.   *)
(***************************************************************************)
EXTENDS Naturals

CONSTANTS Limit,   \* IDLE_SECONDS, in ticks; 0 disables the function
          Cap      \* quiet time is counted up to here (bound of the model)

VARIABLES idle,    \* is the room idle?
          quiet    \* ticks since the last non-idle event

vars == <<idle, quiet>>

TypeOK == idle \in BOOLEAN /\ quiet \in 0..Cap

Init == idle = FALSE /\ quiet = 0

\* A tick passes.
Tick ==
  /\ quiet' = IF quiet < Cap THEN quiet + 1 ELSE Cap
  /\ UNCHANGED idle

\* The room has been quiet for too long.
GoIdle ==
  /\ ~idle
  /\ Limit > 0
  /\ quiet > Limit
  /\ idle' = TRUE
  /\ UNCHANGED quiet

\* A non-idle event: the room is in use.
Activity == idle' = FALSE /\ quiet' = 0

Next == Tick \/ GoIdle \/ Activity

Spec == Init /\ [][Next]_vars
==============================================================================

----------------------------- MODULE RateWindow -----------------------------
(***************************************************************************)
(* What AcquireRateLimitSlots promises its callers: a budget of slots for  *)
(* every second, handed out in one atomic step to whoever asks.            *)
(* RateLimiter is shown to implement it.                                   *)
(***************************************************************************)
EXTENDS Integers

CONSTANTS
  Callers,    \* worker goroutines of all processes that serve one channel
  LimitOf,    \* RATE_LIMIT_PER_SECOND of the process a caller runs in
  Requested,  \* WORKER_CLAIM_LIMIT
  JobSeconds, \* how long a job may take
  MaxClock    \* bound of the models: the last second

Windows == 0..MaxClock

\* What caller c gets out of a window of which use slots are gone.
Grantable(c, use) ==
  IF LimitOf[c] - use <= 0 THEN 0
  ELSE IF Requested > LimitOf[c] - use THEN LimitOf[c] - use ELSE Requested

VARIABLES
  clock, \* the second it is
  used,  \* slots charged to each window
  held   \* slots each caller may still use

vars == <<clock, used, held>>

Init ==
  /\ clock = 0
  /\ used = [w \in Windows |-> 0]
  /\ held = [c \in Callers |-> 0]

Tick ==
  /\ clock < MaxClock
  /\ clock' = clock + 1
  /\ UNCHANGED <<used, held>>

\* The window is one that was open since the job began; a caller may not hear of its slots.
Grant(c, w, heard) ==
  /\ held[c] = 0
  /\ w <= clock /\ clock <= w + JobSeconds
  /\ used' = [used EXCEPT ![w] = @ + Grantable(c, used[w])]
  /\ held' = [held EXCEPT ![c] = IF heard THEN Grantable(c, used[w]) ELSE 0]
  /\ UNCHANGED clock

Use(c) ==
  /\ held[c] > 0
  /\ held' = [held EXCEPT ![c] = @ - 1]
  /\ UNCHANGED <<clock, used>>

Forgo(c) ==
  /\ held' = [held EXCEPT ![c] = 0]
  /\ UNCHANGED <<clock, used>>

Next ==
  \/ Tick
  \/ \E c \in Callers : Use(c) \/ Forgo(c)
  \/ \E c \in Callers, w \in Windows, heard \in BOOLEAN : Grant(c, w, heard)

Spec == Init /\ [][Next]_vars
=============================================================================

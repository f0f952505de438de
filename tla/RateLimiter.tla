----------------------------- MODULE RateLimiter -----------------------------
(***************************************************************************)
(* The rate limit of one channel: the transaction AcquireRateLimitSlots    *)
(* runs on the row of rate_limit_windows that belongs to the current       *)
(* second, statement by statement and by several callers at once, and the  *)
(* sends ProcessChannel makes with the slots it is given.  A window no row *)
(* exists for yet and a row with used_count 0 are the same to this code;   *)
(* limit_count is written and never read, it is left out.                  *)
(***************************************************************************)
EXTENDS Integers, FiniteSets, Functions

CONSTANTS Callers, LimitOf, Requested, JobSeconds, MaxClock, NoOne

VARIABLES
  clock,     \* time.Now().Truncate(time.Second)
  used,      \* used_count of each window, as committed
  lock,      \* who holds the row lock of a window
  pc,        \* the next statement of each caller: "idle", "upsert", "select", "update", "commit", "send"
  window,    \* windowStart
  acquired,  \* slots this call takes; while sending, those left
  sent       \* history: sends paid from each window in each second

vars == <<clock, used, lock, pc, window, acquired, sent>>

\* Held slots count once the commit has been heard of.
HeldBy(c) == IF pc[c] = "send" THEN acquired[c] ELSE 0

Atomic == INSTANCE RateWindow WITH held <- [c \in Callers |-> HeldBy(c)]

ASSUME CallersAssumption    == NoOne \notin Callers /\ IsFiniteSet(Callers) /\ Callers # {}
ASSUME LimitOfAssumption    == LimitOf \in [Callers -> Nat \ {0}]
ASSUME RequestedAssumption  == Requested \in Nat \ {0}
ASSUME JobSecondsAssumption == JobSeconds \in Nat /\ MaxClock \in Nat

Windows == 0..MaxClock
InTransaction == {"upsert", "select", "update", "commit"}
Locking == {"select", "update", "commit"}

TypeOK ==
  /\ clock \in Windows
  /\ used \in [Windows -> Nat]
  /\ lock \in [Windows -> Callers \cup {NoOne}]
  /\ pc \in [Callers -> InTransaction \cup {"idle", "send"}]
  /\ window \in [Callers -> Windows]
  /\ acquired \in [Callers -> 0..Requested]
  /\ sent \in [Windows -> [Windows -> Nat]]

Init ==
  /\ clock = 0
  /\ used = [w \in Windows |-> 0]
  /\ lock = [w \in Windows |-> NoOne]
  /\ pc = [c \in Callers |-> "idle"]
  /\ window = [c \in Callers |-> 0]
  /\ acquired = [c \in Callers |-> 0]
  /\ sent = [w \in Windows |-> [s \in Windows |-> 0]]

GoTo(c, step) == pc' = [pc EXCEPT ![c] = step]

\* Defects for the mutation runs: a call that gets nothing returns with its transaction open;
\* the row is read without a lock; the job's context is not given to the statements.
ReleaseIfPaid(c) ==
  lock' = [lock EXCEPT ![window[c]] = IF @ = c /\ acquired[c] > 0 THEN NoOne ELSE @]
LockableAlways(w) == TRUE
InTimeAlways(c) == TRUE

Release(c) == lock' = [lock EXCEPT ![window[c]] = IF @ = c THEN NoOne ELSE @]

Lockable(w) == lock[w] = NoOne

\* The job's context, at most JobSeconds old, lets the next statement or send happen.
InTime(c) == clock <= window[c] + JobSeconds

Tick ==
  /\ clock < MaxClock
  /\ clock' = clock + 1
  /\ UNCHANGED <<used, lock, pc, window, acquired, sent>>

\* BeginTx; the window is read off the clock before any lock is asked for.
Begin(c) ==
  /\ pc[c] = "idle"
  /\ window' = [window EXCEPT ![c] = clock]
  /\ GoTo(c, "upsert")
  /\ UNCHANGED <<clock, used, lock, acquired, sent>>

\* INSERT ... ON CONFLICT DO UPDATE: waits for the row's lock and keeps it to the end.
Upsert(c) ==
  /\ pc[c] = "upsert" /\ InTime(c)
  /\ Lockable(window[c])
  /\ lock' = [lock EXCEPT ![window[c]] = c]
  /\ GoTo(c, "select")
  /\ UNCHANGED <<clock, used, window, acquired, sent>>

\* Defects for the mutation runs: a window with any slot left gives a whole request;
\* the early return for a full window is missing.
TakesWhole(c) == IF used[window[c]] < LimitOf[c] THEN Requested ELSE 0
TakesNegative(c) ==
  LET remaining == LimitOf[c] - used[window[c]]
  IN  IF Requested > remaining THEN remaining ELSE Requested

\* remaining and acquired.
Takes(c) ==
  LET remaining == LimitOf[c] - used[window[c]]
  IN  IF remaining <= 0 THEN 0
      ELSE IF Requested > remaining THEN remaining ELSE Requested

\* SELECT used_count ... FOR UPDATE; a full window is not updated.
Read(c) ==
  /\ pc[c] = "select" /\ InTime(c)
  /\ acquired' = [acquired EXCEPT ![c] = Takes(c)]
  /\ GoTo(c, IF acquired'[c] = 0 THEN "commit" ELSE "update")
  /\ UNCHANGED <<clock, used, lock, window, sent>>

\* UPDATE ... used_count + acquired: nobody sees it before the commit.
Update(c) ==
  /\ pc[c] = "update" /\ InTime(c)
  /\ GoTo(c, "commit")
  /\ UNCHANGED <<clock, used, lock, window, acquired, sent>>

Charge(c) == used' = [used EXCEPT ![window[c]] = @ + acquired[c]]

Commit(c) ==
  /\ pc[c] = "commit" /\ InTime(c)
  /\ Charge(c)
  /\ Release(c)
  /\ GoTo(c, IF acquired[c] = 0 THEN "idle" ELSE "send")
  /\ UNCHANGED <<clock, window, acquired, sent>>

\* The database commits, the caller sees an error, or dies with the answer unread.
LoseCommit(c) ==
  /\ pc[c] = "commit" /\ InTime(c)
  /\ Charge(c)
  /\ Release(c)
  /\ GoTo(c, "idle")
  /\ acquired' = [acquired EXCEPT ![c] = 0]
  /\ UNCHANGED <<clock, window, sent>>

\* A statement fails, the context is over or the process dies: the transaction is rolled back.
Rollback(c) ==
  /\ pc[c] \in InTransaction
  /\ Release(c)
  /\ GoTo(c, "idle")
  /\ acquired' = [acquired EXCEPT ![c] = 0]
  /\ UNCHANGED <<clock, used, window, sent>>

\* ProcessChannel calls the provider for one of the rows it claimed with its slots.
Send(c) ==
  /\ pc[c] = "send" /\ acquired[c] > 0 /\ InTime(c)
  /\ acquired' = [acquired EXCEPT ![c] = @ - 1]
  /\ sent' = [sent EXCEPT ![window[c]][clock] = @ + 1]
  /\ UNCHANGED <<clock, used, lock, pc, window>>

\* No row is left, or the job is over: unused slots are lost.
Finish(c) ==
  /\ pc[c] = "send"
  /\ GoTo(c, "idle")
  /\ acquired' = [acquired EXCEPT ![c] = 0]
  /\ UNCHANGED <<clock, used, lock, window, sent>>

InCall(c) == Read(c) \/ Update(c) \/ Commit(c) \/ LoseCommit(c) \/ Send(c) \/ Finish(c)

Next ==
  \/ Tick
  \/ \E c \in Callers : Begin(c) \/ Upsert(c) \/ InCall(c) \/ Rollback(c)

Spec == Init /\ [][Next]_vars

(***************************************************************************)
(* Fairness.  Goroutines are scheduled and statements return; PostgreSQL   *)
(* hands a row lock to its waiters in the order they came, so one of them  *)
(* is not passed over for ever; a call whose context is over is rolled     *)
(* back.                                                                   *)
(***************************************************************************)
Fairness ==
  \A c \in Callers :
    /\ WF_vars(InCall(c) \/ (~InTime(c) /\ Rollback(c)))
    /\ SF_vars(Upsert(c))

FairSpec == Spec /\ Fairness
-----------------------------------------------------------------------------
TopLimit == CHOOSE l \in {LimitOf[c] : c \in Callers} : \A c \in Callers : LimitOf[c] <= l

SentFrom(w) == SumFunction(sent[w])
SentIn(s) == SumFunction([w \in Windows |-> sent[w][s]])

(***************************************************************************)
(* Nobody takes more slots from a second than the limit leaves: sends made *)
(* and slots in hand are covered by what the window was charged, and the   *)
(* charge never passes the largest limit among the processes, although the *)
(* check and the increment are two statements.  (AcquireRateLimitSlots.)   *)
(***************************************************************************)
SlotsArePaid ==
  \A w \in Windows :
    /\ SentFrom(w) + SumFunction([c \in Callers |-> IF window[c] = w THEN HeldBy(c) ELSE 0]) <= used[w]
    /\ used[w] <= TopLimit

(***************************************************************************)
(* What the limit does bound: the sends up to any second never exceed the  *)
(* budgets of the seconds so far, and a single second sees at most the     *)
(* budgets of the windows whose jobs can still run.  (README: "shared      *)
(* per-channel delivery slots per second"; worker.Manager's job timeout.)  *)
(***************************************************************************)
LongRunRate ==
  \A s \in Windows :
    /\ SumFunctionOnSet([t \in Windows |-> SentIn(t)], 0..s) <= TopLimit * (s + 1)
    /\ SentIn(s) <= TopLimit * (JobSeconds + 1)

(***************************************************************************)
(* The whole call, lock, check, increment and commit, is one atomic grant. *)
(***************************************************************************)
ImplementsRateWindow == Atomic!Spec

(***************************************************************************)
(* A call comes to its end under any contention for the row, so the worker *)
(* gets to its next tick: no lock outlives the call that took it.          *)
(***************************************************************************)
CallsReturn == \A c \in Callers : pc[c] # "idle" ~> pc[c] = "idle"
=============================================================================

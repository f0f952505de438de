----------------------------- MODULE ClaimQueue -----------------------------
(***************************************************************************)
(* The table as a queue: ClaimDue's statement (a snapshot, its candidates  *)
(* in the order of priority and age, FOR UPDATE SKIP LOCKED, LIMIT, the    *)
(* UPDATE) taken apart into its reads and row locks, against cancels,      *)
(* inserts, events and the writes of outcomes.  Delivery has claims and    *)
(* cancels as single steps; this module implements the same Lifecycle.     *)
(*                                                                         *)
(* Row locks are PostgreSQL's under READ COMMITTED: a statement sees the   *)
(* rows as of its start, and when it comes to a row that has changed since,*)
(* it locks the newest version, applies its condition to that again, and   *)
(* keeps the lock to its end whether or not the row still meets it.  The   *)
(* insert of an event locks the row its foreign key names: shared among    *)
(* events, let past by an UPDATE of other columns, but not by FOR UPDATE.  *)
(***************************************************************************)
EXTENDS Naturals, FiniteSets

CONSTANTS
  Notifications, \* rows of one channel
  Later,         \* rows created with a scheduled_at still to come
  Rank,          \* place of a row in ORDER BY priority, created_at; ties share one
  Workers,       \* workers of the channel, in all processes
  Cancellers,    \* cancel requests; bound of this model: how many come
  Asked,         \* the ids each of them names
  Slots,         \* slots each tick is granted, the LIMIT
  MaxAttempts,   \* max_attempts of every row
  Verdicts,      \* the ends an answer of the provider may have before the tries run out
  MaxTroubles,   \* bound of this model: failures, and events inserted while they matter
  NoOne          \* no lock holder

ASSUME RowsAssumption   == Later \subseteq Notifications /\ Rank \in [Notifications -> Nat]
ASSUME AskedAssumption  == Asked \in [Cancellers -> SUBSET Notifications]
ASSUME VerdictsAssumption == Verdicts \subseteq {"delivered", "failed"}
ASSUME LimitsAssumption == Slots \in Nat \ {0} /\ MaxAttempts \in Nat \ {0} /\ MaxTroubles \in Nat
ASSUME ActorsAssumption == NoOne \notin Workers \cup Cancellers /\ Workers \cap Cancellers = {}

Waiting  == {"pending", "scheduled"}
Final    == {"delivered", "failed", "dead_letter"}
Statuses == Waiting \cup Final \cup {"processing", "cancelled"}
Cancellable == Waiting \cup {"processing"}

VARIABLES
  \* the database
  status, attempts,
  future,    \* waiting rows whose scheduled_at is still to come
  lock,      \* who holds each row's lock, be it for a row that is not picked
  noting,    \* rows locked by the insert of an event
  \* statements under way
  pc,        \* of workers: "idle", "scan", "work"; of cancel requests: "idle", "scan", "done"
  todo,      \* rows of the statement's snapshot it has not come to yet
  notYet,    \* of these, the rows whose scheduled_at has moved past the $4 of the claim
  picked,    \* of the rows the statement has locked, those it will update
  \* the workers' loops
  claimed,   \* rows in hand
  seen,      \* attempts as RETURNING gave them
  \* history
  free,      \* rows of the claim's snapshot that nobody else has had locked since
  troubles   \* failures and events so far

vars == <<status, attempts, future, lock, noting, pc, todo, picked, notYet, claimed, seen, free, troubles>>

Actors == Workers \cup Cancellers

TypeOK ==
  /\ status \in [Notifications -> Statuses \cup {"absent"}]
  /\ attempts \in [Notifications -> 0..MaxAttempts]
  /\ future \subseteq Notifications
  /\ lock \in [Notifications -> Actors \cup {NoOne}]
  /\ noting \subseteq Notifications
  /\ pc \in [Actors -> {"idle", "scan", "work", "done"}]
  /\ todo \in [Actors -> SUBSET Notifications]
  /\ picked \in [Actors -> SUBSET Notifications]
  /\ notYet \in [Workers -> SUBSET Notifications]
  /\ claimed \in [Workers -> SUBSET Notifications]
  /\ seen \in [Workers -> [Notifications -> 0..MaxAttempts]]
  /\ free \in [Workers -> SUBSET Notifications]
  /\ troubles \in 0..MaxTroubles

NothingSeen == [n \in Notifications |-> 0]

Init ==
  /\ status = [n \in Notifications |-> "absent"]
  /\ attempts = [n \in Notifications |-> 0]
  /\ future = {}
  /\ lock = [n \in Notifications |-> NoOne]
  /\ noting = {}
  /\ pc = [a \in Actors |-> "idle"]
  /\ todo = [a \in Actors |-> {}]
  /\ picked = [a \in Actors |-> {}]
  /\ notYet = [w \in Workers |-> {}]
  /\ claimed = [w \in Workers |-> {}]
  /\ seen = [w \in Workers |-> NothingSeen]
  /\ free = [w \in Workers |-> {}]
  /\ troubles = 0

Trouble == troubles < MaxTroubles /\ troubles' = troubles + 1

\* Defect for the mutation runs: the statement runs in a transaction that is left open.
UnlockedNever(a) == lock

Unlocked(a) == [n \in Notifications |-> IF lock[n] = a THEN NoOne ELSE lock[n]]

Moved(S, to) == [n \in Notifications |-> IF n \in S THEN to ELSE status[n]]

\* a has locked row n: the claims of others do not have it for themselves any more.
Disturb(n, a) == free' = [w \in Workers |-> IF w = a THEN free[w] ELSE free[w] \ {n}]

\* Statement a locks row n, for the rest of its time, and picks it if it is still as it should be.
Lock(a, n, still) ==
  /\ lock' = [lock EXCEPT ![n] = a]
  /\ picked' = [picked EXCEPT ![a] = IF still THEN @ \cup {n} ELSE @]
  /\ Disturb(n, a)
-----------------------------------------------------------------------------
(* Rows come and become due, events are inserted beside them. *)

Insert(n) ==
  /\ status[n] = "absent"
  /\ status' = [status EXCEPT ![n] = IF n \in Later THEN "scheduled" ELSE "pending"]
  /\ future' = future \cup ({n} \cap Later)
  /\ UNCHANGED <<attempts, lock, noting, pc, todo, picked, notYet, claimed, seen, free, troubles>>

BecomeDue(n) ==
  /\ n \in future
  /\ future' = future \ {n}
  /\ UNCHANGED <<status, attempts, lock, noting, pc, todo, picked, notYet, claimed, seen, free, troubles>>

\* The INSERT of an event has checked its foreign key; it waits for a claim's lock, not for a cancel's.
BeginEvent(n) ==
  /\ status[n] # "absent" /\ lock[n] \notin Workers /\ Trouble
  /\ noting' = noting \cup {n}
  /\ Disturb(n, NoOne)
  /\ UNCHANGED <<status, attempts, future, lock, pc, todo, picked, notYet, claimed, seen>>

EndEvent(n) ==
  /\ n \in noting
  /\ noting' = noting \ {n}
  /\ UNCHANGED <<status, attempts, future, lock, pc, todo, picked, notYet, claimed, seen, free, troubles>>
-----------------------------------------------------------------------------
(* ClaimDue. *)

\* Defects for the mutation runs: a locked row is not skipped; retries are not looked for.
OpenToClaimAlways(n) == TRUE
DuePendingOnly == {n \in Notifications : status[n] = "pending" /\ n \notin future}

\* What FOR UPDATE need not wait for, and SKIP LOCKED does not skip.
OpenToClaim(n) == lock[n] = NoOne /\ n \notin noting

Due == {n \in Notifications : status[n] \in Waiting /\ n \notin future}

\* time.Now() for $4, then the snapshot.
BeginClaim(w) ==
  /\ pc[w] = "idle" /\ Due # {}
  /\ pc' = [pc EXCEPT ![w] = "scan"]
  /\ todo' = [todo EXCEPT ![w] = Due]
  /\ free' = [free EXCEPT ![w] = {n \in Due : OpenToClaim(n)}]
  /\ UNCHANGED <<status, attempts, future, lock, noting, picked, notYet, claimed, seen, troubles>>

\* Defects for the mutation runs: rows come in any order; the condition is not applied again.
FirstAny(S) == S
StillDueUnchecked(w, n) == TRUE

First(S) == {n \in S : \A m \in S : Rank[n] <= Rank[m]}

StillDue(w, n) == status[n] \in Waiting /\ n \notin notYet[w]

Complete(w) == todo[w] = {} \/ Cardinality(picked[w]) = Slots

\* The next candidate: a locked one is skipped, one that has changed is looked at again.
Scan(w) ==
  /\ pc[w] = "scan" /\ ~Complete(w)
  /\ \E n \in First(todo[w]) :
       /\ todo' = [todo EXCEPT ![w] = @ \ {n}]
       /\ notYet' = [notYet EXCEPT ![w] = @ \ {n}]
       /\ IF OpenToClaim(n) THEN Lock(w, n, StillDue(w, n)) ELSE UNCHANGED <<lock, picked, free>>
  /\ UNCHANGED <<status, attempts, future, noting, pc, claimed, seen, troubles>>

\* The statement of a is over, its locks are gone.
EndStatement(a, next) ==
  /\ lock' = Unlocked(a)
  /\ pc' = [pc EXCEPT ![a] = next]
  /\ todo' = [todo EXCEPT ![a] = {}]
  /\ picked' = [picked EXCEPT ![a] = {}]

EndClaim(w, next) ==
  /\ EndStatement(w, next)
  /\ notYet' = [notYet EXCEPT ![w] = {}]
  /\ free' = [free EXCEPT ![w] = {}]
  /\ UNCHANGED <<attempts, future, noting>>

\* The UPDATE and its commit; RETURNING reads the version it wrote.
CommitClaim(w) ==
  /\ pc[w] = "scan" /\ Complete(w)
  /\ status' = Moved(picked[w], "processing")
  /\ claimed' = [claimed EXCEPT ![w] = picked[w]]
  /\ seen' = [seen EXCEPT ![w] = [n \in Notifications |-> IF n \in picked[w] THEN attempts[n] ELSE 0]]
  /\ EndClaim(w, IF picked[w] = {} THEN "idle" ELSE "work")
  /\ UNCHANGED troubles

\* The commit is not heard of.
LoseClaim(w) ==
  /\ pc[w] = "scan" /\ Complete(w) /\ Trouble
  /\ status' = Moved(picked[w], "processing")
  /\ EndClaim(w, "idle")
  /\ UNCHANGED <<claimed, seen>>

\* The statement fails, its context is over or the process dies before the commit.
FailClaim(w) ==
  /\ pc[w] = "scan" /\ Trouble
  /\ EndClaim(w, "idle")
  /\ UNCHANGED <<status, claimed, seen>>
-----------------------------------------------------------------------------
(* What comes of the claimed rows. *)

LetGo(w, n) ==
  /\ pc[w] = "work" /\ n \in claimed[w]
  /\ claimed' = [claimed EXCEPT ![w] = @ \ {n}]
  /\ seen' = [seen EXCEPT ![w][n] = 0]
  /\ pc' = [pc EXCEPT ![w] = IF claimed[w] = {n} THEN "idle" ELSE "work"]

\* Defect for the mutation runs: the last try may be followed by a retry.
OutcomesOneTooMany(attempt) == Verdicts \cup {IF attempt <= MaxAttempts THEN "scheduled" ELSE "dead_letter"}

Outcomes(attempt) == Verdicts \cup {IF attempt < MaxAttempts THEN "scheduled" ELSE "dead_letter"}

\* One of the four Mark updates: it waits for the row's lock and asks for nothing but the id.
Settle(w, n) ==
  /\ LetGo(w, n)
  /\ lock[n] = NoOne
  /\ \E to \in Outcomes(seen[w][n] + 1) :
       /\ status' = [status EXCEPT ![n] = to]
       /\ future' = IF to = "scheduled" THEN future \cup {n} ELSE future
       /\ notYet' = [v \in Workers |-> IF n \in todo[v] /\ to = "scheduled" THEN notYet[v] \cup {n} ELSE notYet[v]]
  /\ attempts' = [attempts EXCEPT ![n] = @ + 1]
  /\ UNCHANGED <<lock, noting, todo, picked, free, troubles>>

\* The write is lost, the job is over or the process dies: nobody has the row in hand any more.
Drop(w, n) ==
  /\ LetGo(w, n) /\ Trouble
  /\ UNCHANGED <<status, attempts, future, lock, noting, todo, picked, notYet, free>>
-----------------------------------------------------------------------------
(* CancelPending: one UPDATE of the rows named by a request. *)

BeginCancel(c) ==
  /\ pc[c] = "idle"
  /\ \E n \in Asked[c] : status[n] \in Cancellable
  /\ pc' = [pc EXCEPT ![c] = "scan"]
  /\ todo' = [todo EXCEPT ![c] = {n \in Asked[c] : status[n] \in Cancellable}]
  /\ UNCHANGED <<status, attempts, future, lock, noting, picked, notYet, claimed, seen, free, troubles>>

\* Defect for the mutation runs: the condition on the status is not applied again.
StillCancellableUnchecked(n) == TRUE

StillCancellable(n) == status[n] \in Cancellable

\* The next row, in whatever order the plan has them; unlike a claim the UPDATE waits for a lock.
LockForCancel(c) ==
  /\ pc[c] = "scan"
  /\ \E n \in todo[c] :
       /\ lock[n] = NoOne
       /\ todo' = [todo EXCEPT ![c] = @ \ {n}]
       /\ Lock(c, n, StillCancellable(n))
  /\ UNCHANGED <<status, attempts, future, noting, pc, notYet, claimed, seen, troubles>>

CommitCancel(c) ==
  /\ pc[c] = "scan" /\ todo[c] = {}
  /\ status' = Moved(picked[c], "cancelled")
  /\ future' = future \ picked[c]
  /\ EndStatement(c, "done")
  /\ UNCHANGED <<attempts, noting, notYet, claimed, seen, free, troubles>>

\* A circle of cancels, each of which may have come to a row that another of them has locked.
Deadlocked(c) ==
  \E S \in SUBSET Cancellers :
    /\ c \in S
    /\ \A d \in S : \E n \in todo[d] : lock[n] \in S \ {d}

\* A statement that fails, among them the victim of a deadlock of two cancels.
FailCancel(c) ==
  /\ pc[c] = "scan"
  /\ \/ Deadlocked(c) /\ UNCHANGED troubles
     \/ Trouble
  /\ EndStatement(c, "done")
  /\ UNCHANGED <<status, attempts, future, noting, notYet, claimed, seen, free>>
-----------------------------------------------------------------------------
Claiming(w) == Scan(w) \/ CommitClaim(w)
Cancelling(c) == LockForCancel(c) \/ CommitCancel(c) \/ (Deadlocked(c) /\ FailCancel(c))

Next ==
  \/ \E n \in Notifications : Insert(n) \/ BecomeDue(n) \/ BeginEvent(n) \/ EndEvent(n)
  \/ \E w \in Workers : BeginClaim(w) \/ Claiming(w) \/ LoseClaim(w) \/ FailClaim(w)
  \/ \E w \in Workers, n \in Notifications : Settle(w, n) \/ Drop(w, n)
  \/ \E c \in Cancellers : BeginCancel(c) \/ Cancelling(c) \/ FailCancel(c)

Spec == Init /\ [][Next]_vars

(***************************************************************************)
(* Fairness: a worker goes on with its statement, which never waits.  Due  *)
(* rows and some idle worker meet: a tick may be given no slots because    *)
(* others took them, but every second has slots for someone.  Of what else *)
(* must go on (writes and cancels, whose waiters get a row lock in turn,   *)
(* inserts of events, time) one condition asks less than one for each      *)
(* would.  Clients, failures and the start of an event are under no        *)
(* obligation.                                                             *)
(***************************************************************************)
GoesOn ==
  \/ \E w \in Workers, n \in Notifications : Settle(w, n)
  \/ \E c \in Cancellers : Cancelling(c)
  \/ \E n \in Notifications : BecomeDue(n) \/ EndEvent(n)

Fairness ==
  /\ \A w \in Workers : WF_vars(Claiming(w))
  /\ WF_vars(\E w \in Workers : BeginClaim(w))
  /\ SF_vars(GoesOn)

FairSpec == Spec /\ Fairness
-----------------------------------------------------------------------------
(* Safety *)

Held == UNION {claimed[w] : w \in Workers}

(***************************************************************************)
(* However claims overlap each other, cancels and retries, a row is handed *)
(* to one worker only, and what RETURNING gave it stays true until that    *)
(* worker's own write.  (ClaimDue, the Mark updates.)                      *)
(***************************************************************************)
ExclusiveClaims ==
  /\ \A v, w \in Workers : v # w => claimed[v] \cap claimed[w] = {}
  /\ \A w \in Workers : \A n \in claimed[w] :
       /\ status[n] \in {"processing", "cancelled"}
       /\ seen[w][n] = attempts[n] /\ attempts[n] < MaxAttempts

(***************************************************************************)
(* Between the lock and the commit the condition under which a statement   *)
(* chose a row goes on to hold: nobody claims a row that is being          *)
(* cancelled, nobody cancels or writes one that is being claimed.          *)
(* (FOR UPDATE in ClaimDue, the UPDATE of CancelPending.)                  *)
(***************************************************************************)
ChoicesStand ==
  /\ \A a \in Actors : \A n \in picked[a] : lock[n] = a
  /\ \A w \in Workers : \A n \in picked[w] : StillDue(w, n)
  /\ \A c \in Cancellers : \A n \in picked[c] : StillCancellable(n)

(***************************************************************************)
(* SKIP LOCKED may only skip what is locked: a claim that is about to      *)
(* commit leaves a row behind that nobody else has had locked since its    *)
(* snapshot only when every slot went to rows that come before it or share *)
(* its place in ORDER BY.  (ClaimDue: priority, created_at, LIMIT.)        *)
(***************************************************************************)
InOrder ==
  \A w \in Workers : pc[w] = "scan" /\ Complete(w) =>
    \A n \in free[w] \ picked[w] :
      /\ Cardinality(picked[w]) = Slots
      /\ \A m \in picked[w] : Rank[m] <= Rank[n]

\* Claims skip what is locked; a write wants the row it is for, a cancel each row it has yet to come to.
Wants(a) == IF a \in Workers THEN claimed[a] ELSE todo[a]

WaitsFor(a, b) == \E n \in Wants(a) : lock[n] = b

\* Whatever order its rows come in, a waits for nobody, or for somebody who waits for it.
CanProceed(a) ==
  /\ pc[a] \in {"scan", "work"}
  /\ (\A b \in Actors : ~WaitsFor(a, b)) \/ (a \in Cancellers /\ Deadlocked(a))

(***************************************************************************)
(* No statement waits for locks that nobody will give up: those who cannot *)
(* go on never wait for each other only, or for an actor whose statement is*)
(* over.  So a circle has cancels in it only, never a claim or the write of*)
(* an outcome.  (CancelPending against ClaimDue and the Mark updates, which*)
(* lock several rows in orders of their own.)                              *)
(***************************************************************************)
NobodyStuck ==
  \A S \in SUBSET {a \in Actors : ~CanProceed(a)} :
    (\E a \in S : pc[a] \in {"scan", "work"}) => \E a \in S, b \in Actors \ S : WaitsFor(a, b)

(***************************************************************************)
(* Seen through their commits, the statements follow the life cycle: only  *)
(* waiting rows are claimed and nothing cancelled or ended is taken up     *)
(* again, whatever changed between a snapshot and the locks.               *)
(***************************************************************************)
Life == INSTANCE Lifecycle WITH inHand <- Held

ImplementsLifecycle == Life!Spec
-----------------------------------------------------------------------------
(* Liveness, under FairSpec *)

(***************************************************************************)
(* Once no more rows and cancels come and nothing fails, the queue comes to*)
(* rest: no row is passed over for ever, neither for its place in the order*)
(* nor because it is locked whenever a claim comes by, and no statement    *)
(* hangs on the locks of others, not even cancels that lock the same rows  *)
(* in different orders.  (ClaimDue, CancelPending.)                        *)
(***************************************************************************)
ComesToRest ==
  <>[](/\ \A n \in Notifications : status[n] \notin Waiting
       /\ \A w \in Workers : pc[w] = "idle"
       /\ \A c \in Cancellers : pc[c] # "scan")
=============================================================================

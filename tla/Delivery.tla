------------------------------ MODULE Delivery ------------------------------
(***************************************************************************)
(* The life of notifications in the table "notifications": the create      *)
(* handlers insert rows, clients cancel them, the workers of each channel  *)
(* claim due rows, call the provider and write what came of it, and all of *)
(* them append to "notification_events".  One action per database          *)
(* statement or provider call, so that everything the code does between    *)
(* two of them interleaves.                                                *)
(*                                                                         *)
(* The code gives every statement the context of its job or request and    *)
(* ignores the errors of the writes that follow a provider call.  A worker *)
(* in ctxDone has an expired job context: its statements have no effect.   *)
(***************************************************************************)
EXTENDS RetryPolicy, Sequences, FiniteSets

CONSTANTS
  Notifications, \* ids newID may draw
  Workers,       \* goroutines of worker.Manager
  Channels,
  ChannelOf,     \* the channel each notification is sent on
  WorkerChannel, \* the channel each worker serves
  ClaimLimit,    \* WORKER_CLAIM_LIMIT
  RateLimit,     \* RATE_LIMIT_PER_SECOND
  FaultKinds,    \* which faults of this model may strike
  MaxFaults,     \* bound of this model: how many may
  None           \* no notification

ASSUME ChannelsAssumption ==
  /\ ChannelOf \in [Notifications -> Channels]
  /\ WorkerChannel \in [Workers -> Channels]
ASSUME LimitsAssumption ==
  /\ ClaimLimit \in Nat \ {0}
  /\ RateLimit \in Nat \ {0}
  /\ MaxFaults \in Nat
ASSUME FaultKindsAssumption ==
  FaultKinds \subseteq {"deadline", "crash", "lost_claim", "lost_mark", "lost_event"}
ASSUME NoneAssumption == None \notin Notifications

Waiting  == {"pending", "scheduled"}
Final    == {"delivered", "failed", "dead_letter"}
Statuses == Waiting \cup Final \cup {"processing", "cancelled"}

VARIABLES
  \* the database
  status,    \* notifications.status, "absent" before the insert
  attempts,  \* notifications.attempts
  future,    \* rows whose scheduled_at is still to come
  events,    \* the rows of notification_events of each notification, in the order of their ids
  \* the create handlers
  accepting, \* status the "accepted" event still to be recorded will carry, "none" otherwise
  \* the workers: local variables of ProcessChannel
  pc,        \* "idle", "loop" before the next send, "mark" after it, "event" after the mark
  claimed,   \* rows claimed and not yet done with
  seen,      \* attempts of the claimed rows as ClaimDue returned them
  current,   \* the notification of this turn of the loop
  outcome,   \* the status this turn will write
  ctxDone,   \* workers whose job context has expired
  \* history
  calls,     \* provider calls made for each notification
  acked,     \* notifications whose provider answered with a readable 2xx
  faults     \* faults so far

db      == <<status, attempts, future, events>>
locals  == <<pc, claimed, seen, current, outcome>>
history == <<calls, acked>>
vars    == <<db, accepting, locals, ctxDone, history, faults>>

WorkerStep == {"idle", "loop", "mark", "event"}
Event == [status : Statuses, attempt : 0..MaxAttempts]

TypeOK ==
  /\ status \in [Notifications -> Statuses \cup {"absent"}]
  /\ attempts \in [Notifications -> 0..MaxAttempts]
  /\ future \subseteq Notifications
  /\ events \in [Notifications -> Seq(Event)]
  /\ accepting \in [Notifications -> Waiting \cup {"none"}]
  /\ pc \in [Workers -> WorkerStep]
  /\ claimed \in [Workers -> SUBSET Notifications]
  /\ seen \in [Workers -> [Notifications -> 0..MaxAttempts]]
  /\ current \in [Workers -> Notifications \cup {None}]
  /\ outcome \in [Workers -> Final \cup {"scheduled", "none"}]
  /\ ctxDone \subseteq Workers
  /\ calls \in [Notifications -> Nat]
  /\ acked \subseteq Notifications
  /\ faults \in 0..MaxFaults

NothingSeen == [n \in Notifications |-> 0]

Init ==
  /\ status = [n \in Notifications |-> "absent"]
  /\ attempts = [n \in Notifications |-> 0]
  /\ future = {}
  /\ events = [n \in Notifications |-> <<>>]
  /\ accepting = [n \in Notifications |-> "none"]
  /\ pc = [w \in Workers |-> "idle"]
  /\ claimed = [w \in Workers |-> {}]
  /\ seen = [w \in Workers |-> NothingSeen]
  /\ current = [w \in Workers |-> None]
  /\ outcome = [w \in Workers |-> "none"]
  /\ ctxDone = {}
  /\ calls = [n \in Notifications |-> 0]
  /\ acked = {}
  /\ faults = 0

\* A step of the environment that the service does not choose; MaxFaults bounds their number.
Fault(kind) == kind \in FaultKinds /\ faults < MaxFaults /\ faults' = faults + 1

Fields(f, S, value) == [n \in Notifications |-> IF n \in S THEN value ELSE f[n]]
-----------------------------------------------------------------------------
(* Create handlers: CreateNotification inserts one row, CreateBatch a set of rows in one transaction. *)

\* S is inserted; the requests for the rows in later ask for a time still to come.
Create(S, later) ==
  /\ S # {} /\ later \subseteq S
  /\ \A n \in S : status[n] = "absent"
  /\ LET initial(n) == IF n \in later THEN "scheduled" ELSE "pending"
     IN  /\ status' = [n \in Notifications |-> IF n \in S THEN initial(n) ELSE status[n]]
         /\ accepting' = [n \in Notifications |-> IF n \in S THEN initial(n) ELSE accepting[n]]
  /\ future' = future \cup later
  /\ UNCHANGED <<attempts, events, locals, ctxDone, history, faults>>

\* After the commit the handler records the event "accepted" of each row.
RecordAccepted(n) ==
  /\ accepting[n] # "none"
  /\ events' = [events EXCEPT ![n] = Append(@, [status |-> accepting[n], attempt |-> 0])]
  /\ accepting' = [accepting EXCEPT ![n] = "none"]
  /\ UNCHANGED <<status, attempts, future, locals, ctxDone, history, faults>>

\* The client went away, or the statement failed: recordEvent drops the error.
LoseAccepted(n) ==
  /\ accepting[n] # "none" /\ Fault("lost_event")
  /\ accepting' = [accepting EXCEPT ![n] = "none"]
  /\ UNCHANGED <<db, locals, ctxDone, history>>

\* Time passes until scheduled_at of n.
BecomeDue(n) ==
  /\ n \in future
  /\ future' = future \ {n}
  /\ UNCHANGED <<status, attempts, events, accepting, locals, ctxDone, history, faults>>

\* Defect for the mutation runs: the UPDATE has no condition on the status.
CancellableAnyStatus(ids) == {n \in ids : status[n] # "absent"}

\* CancelPending of the ids of one request that belong to its tenant: one UPDATE.
Cancellable(ids) == {n \in ids : status[n] \in Waiting \cup {"processing"}}

Cancel(ids) ==
  /\ Cancellable(ids) # {}
  /\ status' = Fields(status, Cancellable(ids), "cancelled")
  /\ UNCHANGED <<attempts, future, events, accepting, locals, ctxDone, history, faults>>
-----------------------------------------------------------------------------
(* Workers: runChannel calls ProcessChannel at every tick. *)

\* Defects for the mutation runs: what the WHERE clause of ClaimDue could get wrong.
DueOrProcessing(c) ==
  {n \in Notifications : ChannelOf[n] = c /\ status[n] \in Waiting \cup {"processing"} /\ n \notin future}
DueOrCancelled(c) ==
  {n \in Notifications : ChannelOf[n] = c /\ status[n] \in Waiting \cup {"cancelled"} /\ n \notin future}
DuePendingOnly(c) ==
  {n \in Notifications : ChannelOf[n] = c /\ status[n] = "pending" /\ n \notin future}
DueAtAnyTime(c) ==
  {n \in Notifications : ChannelOf[n] = c /\ status[n] \in Waiting}

Due(c) ==
  {n \in Notifications : ChannelOf[n] = c /\ status[n] \in Waiting /\ n \notin future}

\* AcquireRateLimitSlots grants this many slots or fewer: see module RateLimiter.
MostSlots == IF ClaimLimit < RateLimit THEN ClaimLimit ELSE RateLimit

\* What ClaimDue may return: at most the granted number of due rows, fewer when some are locked.
Claimable(w) ==
  {S \in SUBSET Due(WorkerChannel[w]) : Cardinality(S) <= MostSlots}

\* A tick that is granted no slot or finds no row.
EmptyCycle(w) ==
  /\ pc[w] = "idle"
  /\ UNCHANGED vars

Claim(w) ==
  /\ pc[w] = "idle"
  /\ \E S \in Claimable(w) \ {{}} :
       /\ status' = Fields(status, S, "processing")
       /\ claimed' = [claimed EXCEPT ![w] = S]
       /\ seen' = [seen EXCEPT ![w] = [n \in Notifications |-> IF n \in S THEN attempts[n] ELSE 0]]
  /\ pc' = [pc EXCEPT ![w] = "loop"]
  /\ UNCHANGED <<attempts, future, events, accepting, current, outcome, ctxDone, history, faults>>

\* The UPDATE commits but its rows do not arrive: ProcessChannel returns the error.
LoseClaim(w) ==
  /\ pc[w] = "idle" /\ Fault("lost_claim")
  /\ \E S \in Claimable(w) \ {{}} :
       status' = Fields(status, S, "processing")
  /\ UNCHANGED <<attempts, future, events, accepting, locals, ctxDone, history>>

\* One turn of the loop up to the provider's answer; RETURNING gives no order to the rows.
Send(w) ==
  /\ pc[w] = "loop" /\ w \notin ctxDone
  /\ \E n \in claimed[w], r \in Response :
       /\ current' = [current EXCEPT ![w] = n]
       /\ outcome' = [outcome EXCEPT ![w] = Outcome(r, seen[w][n] + 1)]
       /\ calls' = [calls EXCEPT ![n] = @ + 1]
       /\ acked' = IF IsAccepted(r) THEN acked \cup {n} ELSE acked
  /\ pc' = [pc EXCEPT ![w] = "mark"]
  /\ UNCHANGED <<db, accepting, claimed, seen, ctxDone, faults>>

\* ctx.Err() ends the loop: the rows not yet sent are let go as they are.
Abort(w) ==
  /\ pc[w] = "loop" /\ w \in ctxDone
  /\ pc' = [pc EXCEPT ![w] = "idle"]
  /\ claimed' = [claimed EXCEPT ![w] = {}]
  /\ seen' = [seen EXCEPT ![w] = NothingSeen]
  /\ ctxDone' = ctxDone \ {w}
  /\ UNCHANGED <<db, accepting, current, outcome, history, faults>>

\* Defects for the mutation runs: one of the four writes forgets "attempts = attempts + 1".
AttemptsRetryForgets(w) ==
  IF outcome[w] = "scheduled" THEN attempts ELSE [attempts EXCEPT ![current[w]] = @ + 1]
AttemptsDeliveredForgets(w) ==
  IF outcome[w] = "delivered" THEN attempts ELSE [attempts EXCEPT ![current[w]] = @ + 1]

AttemptsMarked(w) == [attempts EXCEPT ![current[w]] = @ + 1]

\* scheduled_at: a retry sets it, the two failures clear it, a delivery leaves it.
FutureMarked(w) ==
  CASE outcome[w] = "scheduled" -> future \cup {current[w]}
    [] outcome[w] \in {"failed", "dead_letter"} -> future \ {current[w]}
    [] OTHER -> future

\* This turn is done with its row, whatever the database said.
LetGo(w) ==
  /\ pc' = [pc EXCEPT ![w] = "event"]
  /\ claimed' = [claimed EXCEPT ![w] = @ \ {current[w]}]
  /\ UNCHANGED <<events, accepting, seen, current, outcome, ctxDone, history>>

\* MarkDelivered, MarkFailed, MarkDeadLetter or ScheduleRetry: an UPDATE by id, whatever the status is by now.
Mark(w) ==
  /\ pc[w] = "mark"
  /\ IF w \in ctxDone
       THEN UNCHANGED <<status, attempts, future>>
       ELSE /\ status' = [status EXCEPT ![current[w]] = outcome[w]]
            /\ attempts' = AttemptsMarked(w)
            /\ future' = FutureMarked(w)
  /\ LetGo(w)
  /\ UNCHANGED faults

LoseMark(w) ==
  /\ pc[w] = "mark" /\ w \notin ctxDone /\ Fault("lost_mark")
  /\ UNCHANGED <<status, attempts, future>>
  /\ LetGo(w)

\* Defect for the mutation runs: the event carries the tries made before this one.
EventAttemptBefore(w) == [status |-> outcome[w], attempt |-> seen[w][current[w]]]

EventOf(w) == [status |-> outcome[w], attempt |-> seen[w][current[w]] + 1]

AfterTurn(w) == IF claimed[w] = {} THEN "idle" ELSE "loop"

EndTurn(w) ==
  /\ pc' = [pc EXCEPT ![w] = AfterTurn(w)]
  /\ seen' = [seen EXCEPT ![w] = [@ EXCEPT ![current[w]] = 0]]
  /\ current' = [current EXCEPT ![w] = None]
  /\ outcome' = [outcome EXCEPT ![w] = "none"]
  /\ ctxDone' = IF claimed[w] = {} THEN ctxDone \ {w} ELSE ctxDone
  /\ UNCHANGED <<status, attempts, future, accepting, claimed, history>>

\* Defect for the mutation runs: an event that could not be written is tried again, with the same context.
RecordEventInsistently(w) ==
  /\ pc[w] = "event"
  /\ IF w \in ctxDone
       THEN UNCHANGED vars
       ELSE /\ events' = [events EXCEPT ![current[w]] = Append(@, EventOf(w))]
            /\ EndTurn(w)
            /\ UNCHANGED faults

RecordEvent(w) ==
  /\ pc[w] = "event"
  /\ events' = IF w \in ctxDone THEN events
               ELSE [events EXCEPT ![current[w]] = Append(@, EventOf(w))]
  /\ EndTurn(w)
  /\ UNCHANGED faults

LoseEvent(w) ==
  /\ pc[w] = "event" /\ w \notin ctxDone /\ Fault("lost_event")
  /\ UNCHANGED events
  /\ EndTurn(w)

\* The five seconds of the job are over, or App.Close cancelled the context it derives from.
DeadlineExpires(w) ==
  /\ pc[w] # "idle" /\ w \notin ctxDone /\ Fault("deadline")
  /\ ctxDone' = ctxDone \cup {w}
  /\ UNCHANGED <<db, accepting, locals, history>>

\* The process dies and starts again; only the database survives.
Crash ==
  /\ Fault("crash")
  /\ accepting' = [n \in Notifications |-> "none"]
  /\ pc' = [w \in Workers |-> "idle"]
  /\ claimed' = [w \in Workers |-> {}]
  /\ seen' = [w \in Workers |-> NothingSeen]
  /\ current' = [w \in Workers |-> None]
  /\ outcome' = [w \in Workers |-> "none"]
  /\ ctxDone' = {}
  /\ UNCHANGED <<db, history>>
-----------------------------------------------------------------------------
Handlers ==
  \/ \E S \in SUBSET Notifications : \E later \in SUBSET S : Create(S, later)
  \/ \E n \in Notifications : RecordAccepted(n) \/ LoseAccepted(n)
  \/ \E ids \in SUBSET Notifications : Cancel(ids)

InCycle(w) == Send(w) \/ Abort(w) \/ Mark(w) \/ RecordEvent(w)

Worker(w) ==
  \/ EmptyCycle(w) \/ Claim(w) \/ InCycle(w)
  \/ LoseClaim(w) \/ LoseMark(w) \/ LoseEvent(w) \/ DeadlineExpires(w)

Next ==
  \/ Handlers
  \/ \E n \in Notifications : BecomeDue(n)
  \/ \E w \in Workers : Worker(w)
  \/ Crash

Spec == Init /\ [][Next]_vars

(***************************************************************************)
(* Fairness.  Goroutines are scheduled and provider calls end within five  *)
(* seconds, so a worker in a cycle goes on and a handler records its event;*)
(* time passes; and as every worker ticks each 10 ms and each second opens *)
(* a fresh window of slots, a channel with due rows and an idle worker     *)
(* eventually has a claim.  Clients and faults are under no obligation.    *)
(***************************************************************************)
Fairness ==
  /\ \A w \in Workers : WF_vars(InCycle(w))
  /\ \A c \in Channels : WF_vars(\E w \in Workers : WorkerChannel[w] = c /\ Claim(w))
  /\ \A n \in Notifications : WF_vars(BecomeDue(n)) /\ WF_vars(RecordAccepted(n))

FairSpec == Spec /\ Fairness
-----------------------------------------------------------------------------
(* Safety *)

Held == UNION {claimed[w] : w \in Workers}

(***************************************************************************)
(* A row is in the hands of one worker at most, and while it is there only *)
(* a cancellation can have touched it: its status is what the claim or a   *)
(* cancel wrote, and the attempts the worker remembers from RETURNING are  *)
(* still those of the table.  The Mark updates rely on this, they look at  *)
(* nothing but the id.  (ClaimDue, ProcessChannel.)                        *)
(***************************************************************************)
ExclusiveClaims ==
  /\ \A v, w \in Workers : v # w => claimed[v] \cap claimed[w] = {}
  /\ \A w \in Workers : \A n \in claimed[w] :
       status[n] \in {"processing", "cancelled"} /\ seen[w][n] = attempts[n]

(***************************************************************************)
(* The provider is called at most max_attempts times for a notification,   *)
(* through crashes, expired jobs, lost writes and cancellations that a     *)
(* retry overrides.  (The attempts < MaxAttempts test of ProcessChannel.)  *)
(***************************************************************************)
CallsBounded == \A n \in Notifications : calls[n] <= MaxAttempts

(***************************************************************************)
(* The attempts column is the number of provider calls for every row that  *)
(* is neither being processed nor cancelled, and one behind it at most for *)
(* those: a client reading a settled row reads the truth.  (MarkDelivered, *)
(* MarkFailed, MarkDeadLetter, ScheduleRetry.)                             *)
(***************************************************************************)
AttemptsCountCalls ==
  \A n \in Notifications :
    IF status[n] \in {"processing", "cancelled"} THEN calls[n] \in {attempts[n], attempts[n] + 1}
    ELSE calls[n] = attempts[n]

(***************************************************************************)
(* Rows a worker has in hand are due, although ScheduleRetry and the       *)
(* create handlers set scheduled_at while workers claim: no notification   *)
(* is sent before its time.  (The scheduled_at condition of ClaimDue.)     *)
(***************************************************************************)
NothingEarly == Held \cap future = {}

(***************************************************************************)
(* The event history agrees with the row: no two events of a notification  *)
(* tell of the same try, no event tells of a try that was not made, one    *)
(* event at most reports an end, and a row that has ended ended in the way *)
(* that event says.  (recordEvent of ProcessChannel and the create         *)
(* handlers.)                                                              *)
(***************************************************************************)
HistoryAgrees ==
  \A n \in Notifications : \A i, j \in DOMAIN events[n] :
    /\ events[n][i].attempt <= calls[n]
    /\ i # j => events[n][i].attempt # events[n][j].attempt
    /\ events[n][i].status \in Final =>
         /\ i # j => events[n][j].status \notin Final
         /\ status[n] \in Final => status[n] = events[n][i].status

(***************************************************************************)
(* Delivered, failed and dead-lettered rows stay as they are, although the *)
(* four Mark updates have no condition on the status.                      *)
(***************************************************************************)
FinalIsFinal ==
  [][\A n \in Notifications : status[n] \in Final => status'[n] = status[n]]_vars

(***************************************************************************)
(* Once a provider answered a readable 2xx the notification is not sent    *)
(* again, even when the MarkDelivered that follows is lost.                *)
(***************************************************************************)
NoCallAfterAck ==
  [][\A n \in acked : calls'[n] = calls[n]]_vars

(***************************************************************************)
(* Cancelling a notification that no worker has in hand is final.          *)
(* (CancelPending against ClaimDue.)                                       *)
(***************************************************************************)
CancelBindsUnclaimed ==
  [][\A n \in Notifications :
       status[n] = "cancelled" /\ n \notin Held => status'[n] = "cancelled"]_vars

(***************************************************************************)
(* All of this is the life cycle the abstract module promises.             *)
(***************************************************************************)
Life == INSTANCE Lifecycle WITH inHand <- Held

ImplementsLifecycle == Life!Spec
-----------------------------------------------------------------------------
(* Liveness, under FairSpec *)

(***************************************************************************)
(* However cancellations, retries and faults interleave and whatever the   *)
(* provider answers, every notification comes to an end and stays there;   *)
(* the one other thing that can become of it is that a fault leaves it in  *)
(* processing in nobody's hands.  No waiting row is forgotten, after a     *)
(* fault neither.  (runChannel, ClaimDue, ProcessChannel.)                 *)
(***************************************************************************)
Stranded(n) == status[n] = "processing" /\ n \notin Held /\ faults > 0

EveryNotificationSettles ==
  <>[](\A n \in Notifications : status[n] \in Final \cup {"absent", "cancelled"} \/ Stranded(n))

(***************************************************************************)
(* Faults or not, no worker stays in a cycle for ever, whatever of its     *)
(* writes is lost.  (The loop of ProcessChannel.)                          *)
(***************************************************************************)
WorkersReturn == \A w \in Workers : pc[w] # "idle" ~> pc[w] = "idle"
-----------------------------------------------------------------------------
(* What the repository says and the code does not do. *)

(***************************************************************************)
(* openapi.yaml:109, "Cancel a notification by ID": a row that was reported*)
(* cancelled stays cancelled.  The Mark of a worker that had claimed it    *)
(* before overwrites the status, a retry even puts it back in the queue.   *)
(***************************************************************************)
CancelledStaysCancelled ==
  [][\A n \in Notifications : status[n] = "cancelled" => status'[n] = "cancelled"]_vars

(***************************************************************************)
(* README.md:182, "exhausted retryable responses move to `dead_letter`":   *)
(* tries come to an end.  A job that expires after the claim leaves its    *)
(* rows in processing, which no query looks for.                           *)
(***************************************************************************)
RetriesComeToAnEnd ==
  \A n \in Notifications : calls[n] > 0 ~> status[n] \in Final \cup {"cancelled"}
=============================================================================

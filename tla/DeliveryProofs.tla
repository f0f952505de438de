--------------------------- MODULE DeliveryProofs ---------------------------
(***************************************************************************)
(* The safety of Delivery for all constants: its invariants and action     *)
(* properties, and that it implements Lifecycle.                           *)
(***************************************************************************)
EXTENDS Delivery, TLAPS

Written == Final \cup {"scheduled"}

\* Claims are exclusive.
Disjoint ==
  \A v, w \in Workers : v # w => claimed[v] \cap claimed[w] = {}

\* What a worker may rely on for the rows it has in hand.
Owned ==
  \A w \in Workers : \A n \in claimed[w] :
    /\ status[n] \in {"processing", "cancelled"}
    /\ seen[w][n] = attempts[n]
    /\ attempts[n] < MaxAttempts
    /\ n \notin future

\* The provider call of this turn is the one the row does not count yet.
Counted ==
  \A w \in Workers : \A n \in claimed[w] :
    calls[n] = IF pc[w] = "mark" /\ current[w] = n THEN attempts[n] + 1 ELSE attempts[n]

\* Where the worker is in its loop, and what it is about to write.
Turn ==
  \A w \in Workers :
    /\ pc[w] = "idle" => claimed[w] = {}
    /\ pc[w] = "mark" => current[w] \in claimed[w]
    /\ pc[w] = "event" => current[w] \in Notifications \ claimed[w]
    /\ pc[w] \in {"mark", "event"} =>
         /\ outcome[w] \in Written
         /\ seen[w][current[w]] < MaxAttempts
         /\ outcome[w] = "scheduled" => seen[w][current[w]] + 1 < MaxAttempts
         /\ outcome[w] = "dead_letter" => seen[w][current[w]] + 1 = MaxAttempts

\* Rows nobody has in hand.
Rows ==
  \A n \in Notifications :
    /\ calls[n] \in {attempts[n], attempts[n] + 1}
    /\ calls[n] <= MaxAttempts
    /\ status[n] \notin {"processing", "cancelled"} => calls[n] = attempts[n]
    /\ status[n] = "absent" => attempts[n] = 0
    /\ status[n] \in Waiting => attempts[n] < MaxAttempts

\* A message the provider took is written as delivered next, or never again.
Acks ==
  \A n \in acked :
    /\ status[n] \notin Waiting \cup {"absent"}
    /\ \A w \in Workers :
         n \in claimed[w] => pc[w] = "mark" /\ current[w] = n /\ outcome[w] = "delivered"

IInv ==
  /\ TypeOK
  /\ Disjoint
  /\ Owned
  /\ Counted
  /\ Turn
  /\ Rows
  /\ Acks
-----------------------------------------------------------------------------

\* What a turn of the loop decides to write.
LEMMA OutcomeFacts ==
  ASSUME NEW r, NEW a
  PROVE  /\ Outcome(r, a) \in Written
         /\ Outcome(r, a) = "scheduled" => a < MaxAttempts
         /\ Outcome(r, a) = "dead_letter" => ~(a < MaxAttempts)
         /\ IsAccepted(r) => Outcome(r, a) = "delivered"
BY DEF Outcome, Written, Final

LEMMA InitStep == Init => IInv
<1> SUFFICES ASSUME Init PROVE IInv
  OBVIOUS
<1>1. TypeOK
  BY MaxAttemptsAssumption, LimitsAssumption DEF Init, TypeOK, NothingSeen, Statuses, Waiting, Final, WorkerStep
<1>2. Disjoint /\ Owned /\ Counted /\ Turn
  BY DEF Init, Disjoint, Owned, Counted, Turn
<1>3. Rows /\ Acks
  BY MaxAttemptsAssumption DEF Init, Rows, Acks, Waiting
<1> QED
  BY <1>1, <1>2, <1>3 DEF IInv

LEMMA CreateStep ==
  ASSUME IInv, NEW S \in SUBSET Notifications, NEW later \in SUBSET S, Create(S, later)
  PROVE  IInv'
<1>1. TypeOK'
  BY DEF IInv, TypeOK, Create, locals, history, Statuses, Waiting
<1>2. \A w \in Workers : \A n \in claimed[w] : n \notin S /\ n \notin later /\ status'[n] = status[n]
  BY DEF IInv, Owned, Create, TypeOK
<1>3. Disjoint' /\ Owned' /\ Counted' /\ Turn'
  BY <1>2 DEF IInv, Disjoint, Owned, Counted, Turn, Create, locals, history
<1>4. Rows'
  BY MaxAttemptsAssumption DEF IInv, Rows, TypeOK, Create, locals, history, Waiting
<1>5. Acks'
  BY DEF IInv, Acks, TypeOK, Create, locals, history, Waiting
<1> QED
  BY <1>1, <1>3, <1>4, <1>5 DEF IInv

LEMMA CancelStep ==
  ASSUME IInv, NEW ids \in SUBSET Notifications, Cancel(ids)
  PROVE  IInv'
<1>1. TypeOK'
  BY DEF IInv, TypeOK, Cancel, Fields, Cancellable, locals, history, Statuses
<1>2. Disjoint' /\ Owned' /\ Counted' /\ Turn'
  BY DEF IInv, TypeOK, Disjoint, Owned, Counted, Turn, Cancel, Fields, Cancellable, locals, history
<1>3. Rows'
  BY DEF IInv, Rows, TypeOK, Cancel, Fields, Cancellable, locals, history, Waiting
<1>4. Acks'
  BY DEF IInv, Acks, TypeOK, Cancel, Fields, Cancellable, locals, history, Waiting
<1> QED
  BY <1>1, <1>2, <1>3, <1>4 DEF IInv

\* Steps that only append to the history, forget an event or let time pass.
LEMMA EventStep ==
  ASSUME IInv, NEW n \in Notifications, RecordAccepted(n) \/ LoseAccepted(n) \/ BecomeDue(n)
  PROVE  IInv'
<1>1. TypeOK'
  <2>1. CASE RecordAccepted(n)
    <3>1. [status |-> accepting[n], attempt |-> 0] \in Event
      BY <2>1, MaxAttemptsAssumption DEF IInv, TypeOK, RecordAccepted, Event, Statuses
    <3> QED
      BY <2>1, <3>1 DEF IInv, TypeOK, RecordAccepted, locals, history
  <2>2. CASE LoseAccepted(n)
    BY <2>2, LimitsAssumption DEF IInv, TypeOK, LoseAccepted, Fault, db, locals, history
  <2>3. CASE BecomeDue(n)
    BY <2>3 DEF IInv, TypeOK, BecomeDue, locals, history
  <2> QED
    BY <2>1, <2>2, <2>3
<1>2. UNCHANGED <<status, attempts, locals, history>> /\ future' \subseteq future
  BY DEF RecordAccepted, LoseAccepted, BecomeDue, db
<1>3. Disjoint' /\ Owned' /\ Counted' /\ Turn' /\ Rows' /\ Acks'
  BY <1>2 DEF IInv, Disjoint, Owned, Counted, Turn, Rows, Acks, locals, history
<1> QED
  BY <1>1, <1>3 DEF IInv

\* The rows a claim takes are due and in nobody's hands.
LEMMA DueFacts ==
  ASSUME IInv, NEW c, NEW n \in Due(c)
  PROVE  /\ n \in Notifications /\ status[n] \in Waiting /\ n \notin future /\ n \notin acked
         /\ attempts[n] < MaxAttempts /\ calls[n] = attempts[n]
         /\ \A w \in Workers : n \notin claimed[w]
BY DEF IInv, Due, Owned, Rows, Acks, Waiting

LEMMA ClaimStep ==
  ASSUME IInv, NEW w \in Workers, Claim(w)
  PROVE  IInv'
<1>1. PICK S \in SUBSET Due(WorkerChannel[w]) :
        /\ status' = Fields(status, S, "processing")
        /\ claimed' = [claimed EXCEPT ![w] = S]
        /\ seen' = [seen EXCEPT ![w] = [n \in Notifications |-> IF n \in S THEN attempts[n] ELSE 0]]
  BY DEF Claim, Claimable
<1>2. /\ pc[w] = "idle" /\ pc' = [pc EXCEPT ![w] = "loop"]
      /\ UNCHANGED <<attempts, future, events, accepting, current, outcome, ctxDone, history, faults>>
  BY DEF Claim
<1>3. \A n \in S : /\ n \in Notifications /\ status[n] \in Waiting /\ n \notin future /\ n \notin acked
                  /\ attempts[n] < MaxAttempts /\ calls[n] = attempts[n]
                  /\ \A v \in Workers : n \notin claimed[v]
  BY DueFacts
<1>4. TypeOK'
  BY <1>1, <1>2, <1>3, MaxAttemptsAssumption DEF IInv, TypeOK, Fields, Statuses, WorkerStep, history
<1>5. Disjoint'
  BY <1>1, <1>3 DEF IInv, TypeOK, Disjoint
<1>6. Owned' /\ Counted'
  BY <1>1, <1>2, <1>3 DEF IInv, TypeOK, Owned, Counted, Fields, history
<1>7. Turn'
  BY <1>1, <1>2 DEF IInv, TypeOK, Turn
<1>8. Rows'
  BY <1>1, <1>2, <1>3 DEF IInv, TypeOK, Rows, Fields, Waiting, history
<1>9. Acks'
  BY <1>1, <1>2, <1>3 DEF IInv, TypeOK, Acks, Fields, Waiting, history
<1> QED
  BY <1>4, <1>5, <1>6, <1>7, <1>8, <1>9 DEF IInv

LEMMA LoseClaimStep ==
  ASSUME IInv, NEW w \in Workers, LoseClaim(w)
  PROVE  IInv'
<1>1. PICK S \in SUBSET Due(WorkerChannel[w]) : status' = Fields(status, S, "processing")
  BY DEF LoseClaim, Claimable
<1>2. /\ UNCHANGED <<attempts, future, events, accepting, locals, ctxDone, history>>
      /\ faults' \in 0..MaxFaults
  BY LimitsAssumption DEF LoseClaim, Fault, IInv, TypeOK
<1>3. \A n \in S : /\ n \in Notifications /\ status[n] \in Waiting /\ n \notin acked
                  /\ attempts[n] < MaxAttempts /\ calls[n] = attempts[n]
                  /\ \A v \in Workers : n \notin claimed[v]
  BY DueFacts
<1>4. TypeOK'
  BY <1>1, <1>2, <1>3 DEF IInv, TypeOK, Fields, Statuses, locals, history
<1>5. Disjoint' /\ Owned' /\ Counted' /\ Turn'
  BY <1>1, <1>2, <1>3 DEF IInv, TypeOK, Disjoint, Owned, Counted, Turn, Fields, locals, history
<1>6. Rows'
  BY <1>1, <1>2, <1>3 DEF IInv, TypeOK, Rows, Fields, Waiting, history
<1>7. Acks'
  BY <1>1, <1>2, <1>3 DEF IInv, TypeOK, Acks, Fields, Waiting, locals, history
<1> QED
  BY <1>4, <1>5, <1>6, <1>7 DEF IInv

LEMMA SendStep ==
  ASSUME IInv, NEW w \in Workers, Send(w)
  PROVE  IInv'
<1>1. PICK n \in claimed[w], r \in Response :
        /\ current' = [current EXCEPT ![w] = n]
        /\ outcome' = [outcome EXCEPT ![w] = Outcome(r, seen[w][n] + 1)]
        /\ calls' = [calls EXCEPT ![n] = @ + 1]
        /\ acked' = IF IsAccepted(r) THEN acked \cup {n} ELSE acked
  BY DEF Send
<1>2. /\ pc[w] = "loop" /\ pc' = [pc EXCEPT ![w] = "mark"]
      /\ UNCHANGED <<status, attempts, future, events, accepting, claimed, seen, ctxDone, faults>>
  BY DEF Send, db
<1>3. /\ n \in Notifications /\ status[n] \in {"processing", "cancelled"}
      /\ seen[w][n] = attempts[n] /\ attempts[n] < MaxAttempts
      /\ attempts[n] \in Nat /\ MaxAttempts \in Nat
      /\ calls[n] = attempts[n] /\ n \notin acked
      /\ \A v \in Workers : n \in claimed[v] => v = w
  BY <1>2, MaxAttemptsAssumption DEF IInv, TypeOK, Disjoint, Owned, Counted, Acks
<1>4. /\ outcome'[w] \in Written
      /\ outcome'[w] = "scheduled" => seen[w][n] + 1 < MaxAttempts
      /\ outcome'[w] = "dead_letter" => seen[w][n] + 1 = MaxAttempts
      /\ IsAccepted(r) => outcome'[w] = "delivered"
  <2>1. outcome'[w] = Outcome(r, seen[w][n] + 1)
    BY <1>1 DEF IInv, TypeOK
  <2> QED
    BY <2>1, <1>3, OutcomeFacts
<1>5. TypeOK'
  BY <1>1, <1>2, <1>3, <1>4 DEF IInv, TypeOK, WorkerStep, Written
<1>6. Disjoint' /\ Owned'
  BY <1>2 DEF IInv, Disjoint, Owned
<1>7. Counted'
  BY <1>1, <1>2, <1>3 DEF IInv, TypeOK, Counted
<1>8. Turn'
  BY <1>1, <1>2, <1>3, <1>4 DEF IInv, TypeOK, Turn
<1>9. Rows'
  BY <1>1, <1>2, <1>3 DEF IInv, TypeOK, Rows
<1>10. Acks'
  BY <1>1, <1>2, <1>3, <1>4 DEF IInv, TypeOK, Acks, Waiting
<1> QED
  BY <1>5, <1>6, <1>7, <1>8, <1>9, <1>10 DEF IInv

LEMMA AbortStep ==
  ASSUME IInv, NEW w \in Workers, Abort(w)
  PROVE  IInv'
<1>1. TypeOK'
  BY MaxAttemptsAssumption DEF IInv, TypeOK, Abort, db, history, WorkerStep, NothingSeen
<1>2. Disjoint' /\ Owned' /\ Counted'
  BY DEF IInv, TypeOK, Disjoint, Owned, Counted, Abort, db, history
<1>3. Turn'
  BY DEF IInv, TypeOK, Turn, Abort
<1>4. Rows' /\ Acks'
  BY DEF IInv, TypeOK, Rows, Acks, Abort, db, history
<1> QED
  BY <1>1, <1>2, <1>3, <1>4 DEF IInv

\* The row of a turn that is about to be written.
LEMMA TurnFacts ==
  ASSUME IInv, NEW w \in Workers, pc[w] = "mark", NEW n, n = current[w]
  PROVE  /\ n \in claimed[w] /\ n \in Notifications
         /\ status[n] \in {"processing", "cancelled"}
         /\ seen[w][n] = attempts[n] /\ attempts[n] < MaxAttempts
         /\ attempts[n] \in Nat /\ MaxAttempts \in Nat
         /\ calls[n] = attempts[n] + 1
         /\ outcome[w] \in Written
         /\ outcome[w] = "scheduled" => attempts[n] + 1 < MaxAttempts
         /\ outcome[w] = "dead_letter" => attempts[n] + 1 = MaxAttempts
         /\ n \in acked => outcome[w] = "delivered"
         /\ \A v \in Workers : n \in claimed[v] => v = w
BY MaxAttemptsAssumption DEF IInv, TypeOK, Disjoint, Owned, Counted, Turn, Acks

\* Mark and LoseMark let the row go in the same way.
LEMMA LetGoFacts ==
  ASSUME IInv, NEW w \in Workers, LetGo(w)
  PROVE  /\ pc' = [pc EXCEPT ![w] = "event"]
         /\ claimed' = [claimed EXCEPT ![w] = @ \ {current[w]}]
         /\ UNCHANGED <<events, accepting, seen, current, outcome, ctxDone, calls, acked>>
BY DEF LetGo, history

LEMMA MarkStep ==
  ASSUME IInv, NEW w \in Workers, pc[w] = "mark", LetGo(w),
         faults' \in 0..MaxFaults,
         \/ UNCHANGED <<status, attempts, future>>
         \/ /\ status' = [status EXCEPT ![current[w]] = outcome[w]]
            /\ attempts' = AttemptsMarked(w)
            /\ future' = FutureMarked(w)
  PROVE  IInv'
<1> DEFINE n == current[w]
<1>1. /\ n \in claimed[w] /\ n \in Notifications
      /\ status[n] \in {"processing", "cancelled"}
      /\ seen[w][n] = attempts[n] /\ attempts[n] < MaxAttempts
      /\ attempts[n] \in Nat /\ MaxAttempts \in Nat
      /\ calls[n] = attempts[n] + 1
      /\ outcome[w] \in Written
      /\ outcome[w] = "scheduled" => attempts[n] + 1 < MaxAttempts
      /\ outcome[w] = "dead_letter" => attempts[n] + 1 = MaxAttempts
      /\ n \in acked => outcome[w] = "delivered"
      /\ \A v \in Workers : n \in claimed[v] => v = w
  BY TurnFacts
<1>2. /\ pc' = [pc EXCEPT ![w] = "event"]
      /\ claimed' = [claimed EXCEPT ![w] = @ \ {n}]
      /\ UNCHANGED <<events, accepting, seen, current, outcome, ctxDone, calls, acked>>
  BY LetGoFacts
<1>3. /\ status' \in [Notifications -> Statuses \cup {"absent"}]
      /\ attempts' \in [Notifications -> 0..MaxAttempts]
      /\ future' \subseteq future \cup {n}
      /\ \A m \in Notifications \ {n} : status'[m] = status[m] /\ attempts'[m] = attempts[m]
      /\ \/ status'[n] = status[n] /\ attempts'[n] = attempts[n]
         \/ status'[n] = outcome[w] /\ attempts'[n] = attempts[n] + 1
  <2>1. CASE UNCHANGED <<status, attempts, future>>
    BY <2>1 DEF IInv, TypeOK
  <2>2. CASE /\ status' = [status EXCEPT ![n] = outcome[w]]
             /\ attempts' = AttemptsMarked(w)
             /\ future' = FutureMarked(w)
    <3>1. attempts' = [attempts EXCEPT ![n] = @ + 1]
      BY <2>2 DEF AttemptsMarked
    <3>2. future' \subseteq future \cup {n}
      BY <2>2 DEF FutureMarked
    <3>3. outcome[w] \in Statuses
      BY <1>1 DEF Statuses, Written, Waiting
    <3> QED
      BY <1>1, <2>2, <3>1, <3>2, <3>3 DEF IInv, TypeOK
  <2> QED
    BY <2>1, <2>2
<1>4. \A v \in Workers : claimed'[v] \subseteq claimed[v] /\ n \notin claimed'[v] /\ claimed'[v] \subseteq Notifications
  BY <1>1, <1>2 DEF IInv, TypeOK
<1>5. TypeOK'
  BY <1>1, <1>2, <1>3 DEF IInv, TypeOK, WorkerStep
<1>6. Disjoint' /\ Owned'
  BY <1>2, <1>3, <1>4 DEF IInv, Disjoint, Owned
<1>7. Counted'
  BY <1>1, <1>2, <1>3, <1>4 DEF IInv, TypeOK, Counted, Turn
<1>8. Turn'
  BY <1>1, <1>2, <1>4 DEF IInv, TypeOK, Turn
<1>9. Rows'
  BY <1>1, <1>2, <1>3 DEF IInv, TypeOK, Rows, Written, Final, Waiting
<1>10. Acks'
  <2>1. \A m \in acked : status'[m] \notin Waiting \cup {"absent"}
    BY <1>1, <1>3 DEF IInv, TypeOK, Acks, Waiting
  <2>2. \A m \in acked, v \in Workers : m \in claimed'[v] => v # w
    BY <1>4 DEF IInv, Acks
  <2>3. \A v \in Workers \ {w} : pc'[v] = pc[v]
    BY <1>2 DEF IInv, TypeOK
  <2> QED
    BY <1>2, <1>4, <2>1, <2>2, <2>3 DEF IInv, Acks
<1> QED
  BY <1>5, <1>6, <1>7, <1>8, <1>9, <1>10 DEF IInv

LEMMA EndTurnStep ==
  ASSUME IInv, NEW w \in Workers, pc[w] = "event", EndTurn(w),
         faults' \in 0..MaxFaults,
         \/ UNCHANGED events
         \/ events' = [events EXCEPT ![current[w]] = Append(@, EventOf(w))]
  PROVE  IInv'
<1>1. /\ pc' = [pc EXCEPT ![w] = AfterTurn(w)]
      /\ seen' = [seen EXCEPT ![w] = [@ EXCEPT ![current[w]] = 0]]
      /\ current' = [current EXCEPT ![w] = None]
      /\ outcome' = [outcome EXCEPT ![w] = "none"]
      /\ ctxDone' = IF claimed[w] = {} THEN ctxDone \ {w} ELSE ctxDone
      /\ UNCHANGED <<status, attempts, future, accepting, claimed, calls, acked>>
  BY DEF EndTurn, history
<1>2. /\ current[w] \in Notifications \ claimed[w]
      /\ outcome[w] \in Written /\ seen[w][current[w]] < MaxAttempts
  BY DEF IInv, Turn
<1>3. AfterTurn(w) \in {"idle", "loop"} /\ (AfterTurn(w) = "idle" => claimed[w] = {})
  BY DEF AfterTurn
<1>4. EventOf(w) \in Event
  BY <1>2, MaxAttemptsAssumption DEF IInv, TypeOK, EventOf, Event, Written, Statuses, Waiting
<1>5. events' \in [Notifications -> Seq(Event)]
  <2>1. CASE UNCHANGED events
    BY <2>1 DEF IInv, TypeOK
  <2>2. CASE events' = [events EXCEPT ![current[w]] = Append(@, EventOf(w))]
    <3>1. Append(events[current[w]], EventOf(w)) \in Seq(Event)
      BY <1>2, <1>4 DEF IInv, TypeOK
    <3> QED
      BY <1>2, <2>2, <3>1 DEF IInv, TypeOK
  <2> QED
    BY <2>1, <2>2
<1>6. TypeOK'
  <2>1. pc' \in [Workers -> WorkerStep]
    BY <1>1, <1>3 DEF IInv, TypeOK, WorkerStep
  <2>2. seen' \in [Workers -> [Notifications -> 0..MaxAttempts]]
    <3> DEFINE Seen == [Notifications -> 0..MaxAttempts]
    <3>1. seen \in [Workers -> Seen] /\ 0 \in 0..MaxAttempts
      BY MaxAttemptsAssumption DEF IInv, TypeOK
    <3>2. [seen[w] EXCEPT ![current[w]] = 0] \in Seen
      BY <3>1
    <3> HIDE DEF Seen
    <3>3. [seen EXCEPT ![w] = [@ EXCEPT ![current[w]] = 0]] \in [Workers -> Seen]
      BY <3>1, <3>2
    <3> QED
      BY <1>1, <3>3 DEF Seen
  <2>3. /\ current' \in [Workers -> Notifications \cup {None}]
        /\ outcome' \in [Workers -> Final \cup {"scheduled", "none"}]
        /\ ctxDone' \subseteq Workers
    BY <1>1 DEF IInv, TypeOK
  <2> QED
    BY <1>1, <1>5, <2>1, <2>2, <2>3 DEF IInv, TypeOK
<1>7. Disjoint' /\ Owned'
  BY <1>1, <1>2 DEF IInv, TypeOK, Disjoint, Owned
<1>8. Counted'
  BY <1>1, <1>2, <1>3 DEF IInv, TypeOK, Counted
<1>9. Turn'
  BY <1>1, <1>3 DEF IInv, TypeOK, Turn
<1>10. Rows'
  BY <1>1 DEF IInv, Rows
<1>11. Acks'
  BY <1>1 DEF IInv, TypeOK, Acks
<1> QED
  BY <1>6, <1>7, <1>8, <1>9, <1>10, <1>11 DEF IInv

LEMMA DeadlineStep ==
  ASSUME IInv, NEW w \in Workers, DeadlineExpires(w)
  PROVE  IInv'
<1>1. TypeOK'
  BY LimitsAssumption DEF IInv, TypeOK, DeadlineExpires, Fault, db, locals, history
<1>2. Disjoint' /\ Owned' /\ Counted' /\ Turn' /\ Rows' /\ Acks'
  BY DEF IInv, Disjoint, Owned, Counted, Turn, Rows, Acks, DeadlineExpires, db, locals, history
<1> QED
  BY <1>1, <1>2 DEF IInv

LEMMA CrashStep ==
  ASSUME IInv, Crash
  PROVE  IInv'
<1>1. TypeOK'
  BY LimitsAssumption, MaxAttemptsAssumption DEF IInv, TypeOK, Crash, Fault, db, history, WorkerStep, NothingSeen
<1>2. Disjoint' /\ Owned' /\ Counted' /\ Turn' /\ Rows' /\ Acks'
  BY DEF IInv, TypeOK, Disjoint, Owned, Counted, Turn, Rows, Acks, Crash, db, history
<1> QED
  BY <1>1, <1>2 DEF IInv

LEMMA InvStep == IInv /\ [Next]_vars => IInv'
<1> SUFFICES ASSUME IInv, [Next]_vars PROVE IInv'
  OBVIOUS
<1>1. CASE UNCHANGED vars
  BY <1>1 DEF IInv, TypeOK, Disjoint, Owned, Counted, Turn, Rows, Acks, vars, db, locals, history
<1>2. CASE Handlers
  BY <1>2, CreateStep, EventStep, CancelStep DEF Handlers
<1>3. CASE \E n \in Notifications : BecomeDue(n)
  BY <1>3, EventStep
<1>4. CASE Crash
  BY <1>4, CrashStep
<1>5. ASSUME NEW w \in Workers, Worker(w) PROVE IInv'
  <2>1. CASE EmptyCycle(w)
    BY <2>1, <1>1 DEF EmptyCycle
  <2>2. CASE Mark(w) \/ LoseMark(w)
    <3>1. pc[w] = "mark" /\ LetGo(w) /\ faults' \in 0..MaxFaults
      BY <2>2, LimitsAssumption DEF Mark, LoseMark, Fault, IInv, TypeOK
    <3>2. \/ UNCHANGED <<status, attempts, future>>
          \/ /\ status' = [status EXCEPT ![current[w]] = outcome[w]]
             /\ attempts' = AttemptsMarked(w)
             /\ future' = FutureMarked(w)
      BY <2>2 DEF Mark, LoseMark
    <3> QED
      BY <3>1, <3>2, MarkStep
  <2>3. CASE RecordEvent(w) \/ LoseEvent(w)
    <3>1. pc[w] = "event" /\ EndTurn(w) /\ faults' \in 0..MaxFaults
      BY <2>3, LimitsAssumption DEF RecordEvent, LoseEvent, Fault, IInv, TypeOK
    <3>2. UNCHANGED events \/ events' = [events EXCEPT ![current[w]] = Append(@, EventOf(w))]
      BY <2>3 DEF RecordEvent, LoseEvent
    <3> QED
      BY <3>1, <3>2, EndTurnStep
  <2> QED
    BY <1>5, <2>1, <2>2, <2>3, ClaimStep, LoseClaimStep, SendStep, AbortStep, DeadlineStep DEF Worker, InCycle
<1> QED
  BY <1>1, <1>2, <1>3, <1>4, <1>5 DEF Next

THEOREM Invariance == Spec => []IInv
BY InitStep, InvStep, PTL DEF Spec
-----------------------------------------------------------------------------
(***************************************************************************)
(* The variables keep their types; in particular no row's attempts pass    *)
(* max_attempts and no event reports a try beyond it.                      *)
(***************************************************************************)
THEOREM TypeCorrect == Spec => []TypeOK
<1>1. IInv => TypeOK
  BY DEF IInv
<1> QED
  BY Invariance, <1>1, PTL

(***************************************************************************)
(* No two workers ever have the same row in hand, whatever the number of   *)
(* workers, and nothing but a cancellation touches a row in hand: what     *)
(* makes the unguarded Mark updates of ProcessChannel safe for each other. *)
(***************************************************************************)
THEOREM ClaimsAreExclusive == Spec => []ExclusiveClaims
<1>1. IInv => ExclusiveClaims
  BY DEF IInv, Disjoint, Owned, ExclusiveClaims
<1> QED
  BY Invariance, <1>1, PTL

(***************************************************************************)
(* The provider is called at most max_attempts times for a notification,   *)
(* through any number of crashes, expired jobs and lost writes.            *)
(***************************************************************************)
THEOREM CallsAreBounded == Spec => []CallsBounded
<1>1. IInv => CallsBounded
  BY DEF IInv, Rows, CallsBounded
<1> QED
  BY Invariance, <1>1, PTL

(***************************************************************************)
(* A settled row counts its provider calls.                                *)
(***************************************************************************)
THEOREM AttemptsAreTrue == Spec => []AttemptsCountCalls
<1>1. IInv => AttemptsCountCalls
  BY DEF IInv, Rows, AttemptsCountCalls
<1> QED
  BY Invariance, <1>1, PTL

(***************************************************************************)
(* No row in a worker's hands waits for a time to come.                    *)
(***************************************************************************)
THEOREM NothingIsEarly == Spec => []NothingEarly
<1>1. IInv => NothingEarly
  BY DEF IInv, Owned, NothingEarly, Held
<1> QED
  BY Invariance, <1>1, PTL
-----------------------------------------------------------------------------
\* Steps that leave status, attempts and what the workers hold as they are.
Quiet == UNCHANGED <<status, attempts, claimed>>

\* What a step of Next does to the rows, and to those in hand.
Moves ==
  \/ Quiet
  \/ \E S \in SUBSET Notifications, later \in SUBSET Notifications : Create(S, later)
  \/ \E ids \in SUBSET Notifications : Cancel(ids)
  \/ Crash
  \/ \E w \in Workers : Claim(w) \/ LoseClaim(w) \/ Abort(w) \/ Mark(w) \/ LoseMark(w)

LEMMA StepMoves == [Next]_vars => Moves
<1> SUFFICES ASSUME [Next]_vars PROVE Moves
  OBVIOUS
<1>1. CASE UNCHANGED vars
  BY <1>1 DEF vars, db, locals, Quiet, Moves
<1>2. CASE Handlers
  BY <1>2 DEF Handlers, RecordAccepted, LoseAccepted, db, locals, Quiet, Moves
<1>3. CASE \E n \in Notifications : BecomeDue(n)
  BY <1>3 DEF BecomeDue, locals, Quiet, Moves
<1>4. CASE Crash
  BY <1>4 DEF Moves
<1>5. ASSUME NEW w \in Workers, Worker(w) PROVE Moves
  <2>1. CASE EmptyCycle(w) \/ Send(w) \/ RecordEvent(w) \/ LoseEvent(w) \/ DeadlineExpires(w)
    BY <2>1 DEF EmptyCycle, Send, RecordEvent, LoseEvent, EndTurn, DeadlineExpires, vars, db, locals, Quiet, Moves
  <2> QED
    BY <1>5, <2>1 DEF Worker, InCycle, Moves
<1> QED
  BY <1>1, <1>2, <1>3, <1>4, <1>5 DEF Next

\* The rows whose status a step may change.
LEMMA StatusMoves ==
  ASSUME IInv, Moves, NEW n \in Notifications, status'[n] # status[n]
  PROVE  /\ status[n] \notin Final
         /\ status[n] = "cancelled" => n \in Held
<1>1. CASE Quiet
  BY <1>1 DEF Quiet
<1>2. ASSUME NEW S \in SUBSET Notifications, NEW later \in SUBSET Notifications, Create(S, later)
      PROVE  status[n] = "absent"
  BY <1>2 DEF Create, IInv, TypeOK
<1>3. ASSUME NEW ids \in SUBSET Notifications, Cancel(ids)
      PROVE  status[n] \in Waiting \cup {"processing"}
  BY <1>3 DEF Cancel, Cancellable, Fields, IInv, TypeOK
<1>4. CASE Crash
  BY <1>4 DEF Crash, db
<1>5. ASSUME NEW w \in Workers, Claim(w) \/ LoseClaim(w)
      PROVE  status[n] \in Waiting
  <2>1. PICK S \in SUBSET Due(WorkerChannel[w]) : status' = Fields(status, S, "processing")
    BY <1>5 DEF Claim, LoseClaim, Claimable
  <2> QED
    BY <2>1, DueFacts DEF Fields, IInv, TypeOK
<1>6. ASSUME NEW w \in Workers, Abort(w)
      PROVE  FALSE
  BY <1>6 DEF Abort, db
<1>7. ASSUME NEW w \in Workers, Mark(w) \/ LoseMark(w)
      PROVE  status[n] \in {"processing", "cancelled"} /\ n \in Held
  <2>1. pc[w] = "mark" /\ n = current[w]
    BY <1>7 DEF Mark, LoseMark, IInv, TypeOK
  <2> QED
    BY <2>1, TurnFacts DEF Held
<1> QED
  BY <1>1, <1>2, <1>3, <1>4, <1>5, <1>6, <1>7 DEF Moves, Final, Waiting

(***************************************************************************)
(* Final rows are final: no claim, cancel or late write of a worker ever   *)
(* changes a delivered, failed or dead-lettered row.                       *)
(***************************************************************************)
THEOREM EndsAreFinal == Spec => FinalIsFinal
<1>1. IInv /\ [Next]_vars => \A n \in Notifications : status[n] \in Final => status'[n] = status[n]
  BY StepMoves, StatusMoves
<1> QED
  BY Invariance, <1>1, PTL DEF Spec, FinalIsFinal

(***************************************************************************)
(* Cancelling a row that is in no worker's hands is final.                 *)
(***************************************************************************)
THEOREM CancelBinds == Spec => CancelBindsUnclaimed
<1>1. IInv /\ [Next]_vars =>
        \A n \in Notifications : status[n] = "cancelled" /\ n \notin Held => status'[n] = "cancelled"
  BY StepMoves, StatusMoves
<1> QED
  BY Invariance, <1>1, PTL DEF Spec, CancelBindsUnclaimed

(***************************************************************************)
(* A notification the provider took with a readable 2xx is never sent      *)
(* again.                                                                  *)
(***************************************************************************)
THEOREM AcksAreHeeded == Spec => NoCallAfterAck
<1>1. ASSUME IInv, NEW w \in Workers, Send(w), NEW n \in acked
      PROVE  calls'[n] = calls[n]
  <2>1. PICK m \in claimed[w] : calls' = [calls EXCEPT ![m] = @ + 1]
    BY <1>1 DEF Send
  <2>2. pc[w] = "loop"
    BY <1>1 DEF Send
  <2>3. m # n
    BY <1>1, <2>2 DEF IInv, Acks
  <2> QED
    BY <1>1, <2>1, <2>3 DEF IInv, TypeOK
<1>2. ASSUME [Next]_vars, \A w \in Workers : ~Send(w)
      PROVE  calls' = calls
  BY <1>2 DEF Next, Handlers, Create, RecordAccepted, LoseAccepted, BecomeDue, Cancel, Worker, InCycle,
       EmptyCycle, Claim, LoseClaim, Abort, Mark, LoseMark, LetGo, RecordEvent, LoseEvent, EndTurn,
       DeadlineExpires, Crash, vars, history
<1>3. IInv /\ [Next]_vars => \A n \in acked : calls'[n] = calls[n]
  BY <1>1, <1>2
<1> QED
  BY Invariance, <1>3, PTL DEF Spec, NoCallAfterAck
-----------------------------------------------------------------------------
(* The refinement: which step of Lifecycle each step is. *)

\* Letting go of some of its own rows, a worker takes just those out of the hands of all.
LEMMA HeldWithout ==
  ASSUME IInv, NEW w \in Workers, NEW S \in SUBSET claimed[w],
         claimed' = [claimed EXCEPT ![w] = @ \ S]
  PROVE  S \subseteq Held /\ Held' = Held \ S
<1>1. \A v \in Workers : claimed'[v] = IF v = w THEN claimed[w] \ S ELSE claimed[v]
  BY DEF IInv, TypeOK
<1>2. \A v \in Workers : v # w => claimed[v] \cap S = {}
  BY DEF IInv, Disjoint
<1> QED
  BY <1>1, <1>2 DEF Held

LEMMA LifeInit == Init => Life!Init
BY DEF Init, Life!Init, Held, Life!Absent

LEMMA LifeStep == IInv /\ [Next]_vars => [Life!Next]_(Life!vars)
<1> SUFFICES ASSUME IInv, Moves PROVE Life!Next \/ UNCHANGED Life!vars
  BY StepMoves
<1>1. CASE Quiet
  BY <1>1 DEF Quiet, Held, Life!vars
<1>2. ASSUME NEW S \in SUBSET Notifications, NEW later \in SUBSET Notifications, Create(S, later)
      PROVE  Life!Next
  <2> DEFINE st == [n \in S |-> IF n \in later THEN "scheduled" ELSE "pending"]
  <2>1. Life!Accept(S, st)
    BY <1>2 DEF Create, locals, Held, Life!Accept, Life!Move, Life!Absent, Life!Waiting
  <2>2. st \in [S -> Life!Waiting]
    BY DEF Life!Waiting
  <2> QED
    BY <2>1, <2>2 DEF Life!Next
<1>3. ASSUME NEW ids \in SUBSET Notifications, Cancel(ids)
      PROVE  Life!Next
  <2>1. Life!Cancel(Cancellable(ids))
    BY <1>3 DEF Cancel, Cancellable, Fields, locals, Held, Waiting,
         Life!Cancel, Life!MoveAll, Life!Move, Life!Waiting
  <2>2. Cancellable(ids) \in SUBSET Notifications
    BY DEF Cancellable
  <2> QED
    BY <2>1, <2>2 DEF Life!Next
<1>4. CASE Crash
  <2>1. Held' = {}
    BY <1>4 DEF Crash, Held
  <2>2. Life!Abandon(Held)
    BY <1>4, <2>1 DEF Crash, db, Life!Abandon
  <2>3. Held \in SUBSET Notifications
    BY DEF IInv, TypeOK, Held
  <2> QED
    BY <2>2, <2>3 DEF Life!Next
<1>5. ASSUME NEW w \in Workers, Claim(w)
      PROVE  Life!Next
  <2>1. PICK S \in SUBSET Due(WorkerChannel[w]) :
          status' = Fields(status, S, "processing") /\ claimed' = [claimed EXCEPT ![w] = S]
    BY <1>5 DEF Claim, Claimable
  <2>2. claimed[w] = {} /\ attempts' = attempts
    BY <1>5 DEF Claim, IInv, Turn
  <2>3. Held' = Held \cup S
    <3>1. \A v \in Workers : claimed'[v] = IF v = w THEN S ELSE claimed[v]
      BY <2>1 DEF IInv, TypeOK
    <3> QED
      BY <2>2, <3>1 DEF Held
  <2>4. S \in SUBSET Notifications /\ \A n \in S : status[n] \in Life!Waiting
    BY DEF Due, Waiting, Life!Waiting
  <2>5. Life!Claim(S, S)
    BY <2>1, <2>2, <2>3, <2>4 DEF Fields, Life!Claim, Life!MoveAll, Life!Move
  <2> QED
    BY <2>4, <2>5 DEF Life!Next
<1>6. ASSUME NEW w \in Workers, LoseClaim(w)
      PROVE  Life!Next
  <2>1. PICK S \in SUBSET Due(WorkerChannel[w]) : status' = Fields(status, S, "processing")
    BY <1>6 DEF LoseClaim, Claimable
  <2>2. UNCHANGED <<attempts, claimed>>
    BY <1>6 DEF LoseClaim, locals
  <2>3. S \in SUBSET Notifications /\ \A n \in S : status[n] \in Life!Waiting
    BY DEF Due, Waiting, Life!Waiting
  <2>4. Held' = Held \cup {}
    BY <2>2 DEF Held
  <2>5. Life!Claim(S, {})
    BY <2>1, <2>2, <2>3, <2>4 DEF Fields, Life!Claim, Life!MoveAll, Life!Move
  <2> QED
    BY <2>3, <2>5 DEF Life!Next
<1>7. ASSUME NEW w \in Workers, Abort(w)
      PROVE  Life!Next
  <2>1. claimed' = [claimed EXCEPT ![w] = @ \ claimed[w]]
    BY <1>7 DEF Abort
  <2>2. claimed[w] \subseteq Held /\ Held' = Held \ claimed[w]
    BY <2>1, HeldWithout
  <2>3. Life!Abandon(claimed[w])
    BY <1>7, <2>2 DEF Abort, db, Life!Abandon
  <2>4. claimed[w] \in SUBSET Notifications
    BY DEF IInv, TypeOK
  <2> QED
    BY <2>3, <2>4 DEF Life!Next
<1>8. ASSUME NEW w \in Workers, Mark(w) \/ LoseMark(w)
      PROVE  Life!Next
  <2> DEFINE n == current[w]
  <2>1. pc[w] = "mark" /\ LetGo(w)
    BY <1>8 DEF Mark, LoseMark
  <2>2. /\ n \in claimed[w] /\ n \in Notifications /\ outcome[w] \in Written
        /\ attempts[n] < MaxAttempts
        /\ outcome[w] = "scheduled" => attempts[n] + 1 < MaxAttempts
        /\ outcome[w] = "dead_letter" => attempts[n] + 1 = MaxAttempts
    BY <2>1, TurnFacts
  <2>3. {n} \subseteq Held /\ Held' = Held \ {n}
    <3>1. claimed' = [claimed EXCEPT ![w] = @ \ {n}]
      BY <2>1 DEF LetGo
    <3>2. {n} \in SUBSET claimed[w]
      BY <2>2
    <3> HIDE DEF n
    <3> QED
      BY <3>1, <3>2, HeldWithout
  <2>4. CASE UNCHANGED <<status, attempts>>
    <3>1. Life!Abandon({n})
      BY <2>3, <2>4 DEF Life!Abandon
    <3> QED
      BY <2>2, <3>1 DEF Life!Next
  <2>5. CASE /\ status' = [status EXCEPT ![n] = outcome[w]]
             /\ attempts' = [attempts EXCEPT ![n] = @ + 1]
    <3>1. status' = [m \in Notifications |-> IF m \in {n} THEN outcome[w] ELSE status[m]]
      BY <2>2, <2>5 DEF IInv, TypeOK
    <3>2. outcome[w] \in Life!Final \cup {"scheduled"}
      BY <2>2 DEF Written, Final, Life!Final
    <3>3. Life!MoveAll({n}, outcome[w])
      BY <3>1 DEF Life!MoveAll, Life!Move
    <3>4. Life!Resolve(n, outcome[w])
      BY <2>2, <2>3, <2>5, <3>2, <3>3 DEF Life!Resolve
    <3> QED
      BY <2>2, <3>2, <3>4 DEF Life!Next
  <2> QED
    BY <1>8, <2>4, <2>5 DEF Mark, LoseMark, AttemptsMarked
<1> QED
  BY <1>1, <1>2, <1>3, <1>4, <1>5, <1>6, <1>7, <1>8 DEF Moves

(***************************************************************************)
(* The rows, the claims and the writes of Delivery follow the life cycle:  *)
(* every behaviour of the service is one of module Lifecycle, with the     *)
(* rows in the workers' hands as its hidden state.                         *)
(***************************************************************************)
THEOREM Refinement == Spec => ImplementsLifecycle
BY Invariance, LifeInit, LifeStep, PTL DEF Spec, ImplementsLifecycle, Life!Spec
=============================================================================

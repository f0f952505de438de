------------------------ MODULE DeliveryHistoryProofs ------------------------
(***************************************************************************)
(* The event history of Delivery agrees with its rows, for all constants.  *)
(* The argument adds to the invariant of DeliveryProofs what is known of   *)
(* the events that are still to be written.                                *)
(***************************************************************************)
EXTENDS DeliveryProofs

\* w has made a try of n whose event it has still to write; TryOf(w) is the number of that try.
Owes(w, n) == pc[w] \in {"mark", "event"} /\ current[w] = n
TryOf(w) == seen[w][current[w]] + 1

\* Tries are numbered: no two events, written or owed, tell of the same one.
Numbered ==
  \A n \in Notifications :
    /\ \A i, j \in DOMAIN events[n] : i # j => events[n][i].attempt # events[n][j].attempt
    /\ \A i \in DOMAIN events[n] : events[n][i].attempt <= calls[n]
    /\ \A w \in Workers : Owes(w, n) =>
         /\ TryOf(w) <= calls[n]
         /\ \A i \in DOMAIN events[n] : events[n][i].attempt # TryOf(w)
         /\ \A v \in Workers \ {w} : Owes(v, n) => TryOf(v) # TryOf(w)

\* The event "accepted" is the only one of try 0.
Accepted ==
  \A n \in Notifications :
    /\ accepting[n] # "none" => \A i \in DOMAIN events[n] : events[n][i].attempt # 0
    /\ status[n] = "absent" => events[n] = <<>> /\ accepting[n] = "none"

\* n will not be sent again, and if its row says how it ended then with s.
Over(n, s) ==
  /\ status[n] \notin Waiting \cup {"absent"}
  /\ \A w \in Workers : n \notin claimed[w]
  /\ status[n] \in Final => status[n] = s

\* w has marked n, or tried to, and owes an event that tells of its end.
OwesEnd(w, n) == pc[w] = "event" /\ current[w] = n /\ outcome[w] \in Final

\* An end is told once, and only of a row that has come to it.
Ended ==
  \A n \in Notifications :
    /\ \A i \in DOMAIN events[n] : events[n][i].status \in Final =>
         /\ Over(n, events[n][i].status)
         /\ \A j \in DOMAIN events[n] : i # j => events[n][j].status \notin Final
    /\ \A w \in Workers : OwesEnd(w, n) =>
         /\ Over(n, outcome[w])
         /\ \A i \in DOMAIN events[n] : events[n][i].status \notin Final
         /\ \A v \in Workers \ {w} : ~OwesEnd(v, n)

HInv == Numbered /\ Accepted /\ Ended
-----------------------------------------------------------------------------

LEMMA HistoryInit == Init => HInv
BY DEF Init, HInv, Numbered, Accepted, Ended, Owes, OwesEnd

\* No step gives a row that is over to a worker, or another end.
LEMMA OverStays ==
  ASSUME IInv, [Next]_vars, NEW n \in Notifications, NEW s, Over(n, s)
  PROVE  Over(n, s)'
<1>1. CASE UNCHANGED <<status, claimed>>
  BY <1>1 DEF Over
<1>2. ASSUME NEW S \in SUBSET Notifications, NEW later \in SUBSET S, Create(S, later)
      PROVE  Over(n, s)'
  BY <1>2 DEF Over, Create, locals, Waiting, IInv, TypeOK
<1>3. ASSUME NEW ids \in SUBSET Notifications, Cancel(ids)
      PROVE  Over(n, s)'
  BY <1>3 DEF Over, Cancel, Fields, Cancellable, locals, Waiting, Final, IInv, TypeOK
<1>4. ASSUME NEW w \in Workers, Claim(w) \/ LoseClaim(w)
      PROVE  Over(n, s)'
  <2>1. PICK S \in SUBSET Due(WorkerChannel[w]) :
          /\ status' = Fields(status, S, "processing")
          /\ claimed' = [claimed EXCEPT ![w] = S] \/ claimed' = claimed
    BY <1>4 DEF Claim, LoseClaim, Claimable, locals
  <2>2. n \notin S
    BY DEF Over, Due
  <2> QED
    BY <2>1, <2>2 DEF Over, Fields, IInv, TypeOK
<1>5. ASSUME NEW w \in Workers, Mark(w) \/ LoseMark(w)
      PROVE  Over(n, s)'
  <2>1. current[w] \in claimed[w] /\ claimed' = [claimed EXCEPT ![w] = @ \ {current[w]}]
    BY <1>5 DEF Mark, LoseMark, LetGo, IInv, Turn
  <2>2. n # current[w]
    BY <2>1 DEF Over
  <2>3. status'[n] = status[n]
    BY <1>5, <2>2 DEF Mark, LoseMark, IInv, TypeOK
  <2> QED
    BY <2>1, <2>3 DEF Over, IInv, TypeOK
<1>6. ASSUME NEW w \in Workers, Abort(w)
      PROVE  Over(n, s)'
  BY <1>6 DEF Over, Abort, db, IInv, TypeOK
<1>7. CASE Crash
  BY <1>7 DEF Over, Crash, db
<1>8. \A m \in Notifications : RecordAccepted(m) \/ LoseAccepted(m) \/ BecomeDue(m) => UNCHANGED <<status, claimed>>
  BY DEF RecordAccepted, LoseAccepted, BecomeDue, db, locals
<1>9. ASSUME NEW w \in Workers,
             EmptyCycle(w) \/ Send(w) \/ RecordEvent(w) \/ LoseEvent(w) \/ DeadlineExpires(w)
      PROVE  UNCHANGED <<status, claimed>>
  BY <1>9 DEF EmptyCycle, Send, RecordEvent, LoseEvent, DeadlineExpires, EndTurn, vars, db, locals
<1> QED
  BY <1>1, <1>2, <1>3, <1>4, <1>5, <1>6, <1>7, <1>8, <1>9 DEF Next, Handlers, Worker, InCycle, vars, db, locals

\* Steps that write no event and leave every try owed as it is, or forget it.
LEMMA QuietStep ==
  ASSUME IInv, HInv, [Next]_vars, UNCHANGED <<events, calls>>, Accepted',
         \A w \in Workers, n \in Notifications :
           /\ Owes(w, n)' => Owes(w, n) /\ TryOf(w)' = TryOf(w)
           /\ OwesEnd(w, n)' => OwesEnd(w, n) /\ outcome'[w] = outcome[w]
  PROVE  HInv'
<1>1. Numbered'
  BY DEF HInv, Numbered
<1>2. ASSUME NEW n \in Notifications, NEW i \in DOMAIN events'[n], events'[n][i].status \in Final
      PROVE  /\ Over(n, events[n][i].status)'
             /\ \A j \in DOMAIN events'[n] : i # j => events'[n][j].status \notin Final
  <2>1. /\ Over(n, events[n][i].status)
        /\ \A j \in DOMAIN events[n] : i # j => events[n][j].status \notin Final
    BY <1>2 DEF HInv, Ended
  <2> QED
    BY <2>1, OverStays DEF Over
<1>3. ASSUME NEW n \in Notifications, NEW w \in Workers, OwesEnd(w, n)'
      PROVE  /\ Over(n, outcome[w])'
             /\ \A i \in DOMAIN events'[n] : events'[n][i].status \notin Final
             /\ \A v \in Workers \ {w} : ~OwesEnd(v, n)'
  <2>1. /\ Over(n, outcome[w]) /\ outcome'[w] = outcome[w]
        /\ \A i \in DOMAIN events[n] : events[n][i].status \notin Final
        /\ \A v \in Workers \ {w} : ~OwesEnd(v, n)
    BY <1>3 DEF HInv, Ended
  <2> QED
    BY <2>1, OverStays DEF Over
<1> QED
  BY <1>1, <1>2, <1>3 DEF HInv, Ended

\* The handlers, time and the faults that only lose something.
LEMMA HandlersStep ==
  ASSUME IInv, HInv,
         \/ \E S \in SUBSET Notifications : \E later \in SUBSET S : Create(S, later)
         \/ \E ids \in SUBSET Notifications : Cancel(ids)
         \/ \E n \in Notifications : LoseAccepted(n) \/ BecomeDue(n)
  PROVE  HInv'
<1>1. UNCHANGED <<events, calls, pc, seen, current, outcome>>
  BY DEF Create, Cancel, LoseAccepted, BecomeDue, db, locals, history
<1>2. Accepted'
  <2>1. ASSUME NEW S \in SUBSET Notifications, NEW later \in SUBSET S, Create(S, later)
        PROVE  Accepted'
    BY <1>1, <2>1 DEF Create, HInv, Accepted, IInv, TypeOK
  <2>2. ASSUME NEW ids \in SUBSET Notifications, Cancel(ids)
        PROVE  Accepted'
    BY <1>1, <2>2 DEF Cancel, Fields, Cancellable, HInv, Accepted, IInv, TypeOK
  <2>3. ASSUME NEW n \in Notifications, LoseAccepted(n) \/ BecomeDue(n)
        PROVE  Accepted'
    BY <1>1, <2>3 DEF LoseAccepted, BecomeDue, db, HInv, Accepted, IInv, TypeOK
  <2> QED
    BY <2>1, <2>2, <2>3
<1>3. [Next]_vars
  BY DEF Next, Handlers
<1> QED
  BY <1>1, <1>2, <1>3, QuietStep DEF Owes, OwesEnd, TryOf

LEMMA RecordAcceptedStep ==
  ASSUME IInv, HInv, NEW n \in Notifications, RecordAccepted(n)
  PROVE  HInv'
<1> DEFINE e == [status |-> accepting[n], attempt |-> 0]
<1>1. /\ accepting[n] \in Waiting
      /\ events' = [events EXCEPT ![n] = Append(@, e)]
      /\ accepting' = [accepting EXCEPT ![n] = "none"]
      /\ UNCHANGED <<status, attempts, future, pc, claimed, seen, current, outcome, calls>>
  BY DEF RecordAccepted, locals, history, IInv, TypeOK
<1>2. /\ DOMAIN events'[n] = 1..(Len(events[n]) + 1) /\ DOMAIN events[n] = 1..Len(events[n])
      /\ Len(events[n]) \in Nat
      /\ events'[n][Len(events[n]) + 1] = e
      /\ \A i \in 1..Len(events[n]) : events'[n][i] = events[n][i]
      /\ \A m \in Notifications \ {n} : events'[m] = events[m]
  BY <1>1 DEF IInv, TypeOK
<1>3. /\ e.attempt = 0 /\ e.status \notin Final
      /\ \A m \in Notifications : calls[m] \in Nat
      /\ \A w \in Workers, m \in Notifications : Owes(w, m) => TryOf(w) # 0
  BY <1>1 DEF Waiting, Final, IInv, TypeOK, Owes, TryOf
<1>4. \A i \in 1..Len(events[n]) : events[n][i].attempt # 0
  BY <1>1, <1>2 DEF HInv, Accepted, Waiting
<1> HIDE DEF e
<1>5. \A w \in Workers, m \in Notifications :
        Owes(w, m)' = Owes(w, m) /\ TryOf(w)' = TryOf(w) /\ OwesEnd(w, m)' = OwesEnd(w, m)
  BY <1>1 DEF Owes, TryOf, OwesEnd
<1>6. Numbered'
  BY <1>1, <1>2, <1>3, <1>4, <1>5 DEF HInv, Numbered
<1>7. Accepted'
  BY <1>1, <1>2 DEF HInv, Accepted, Waiting, IInv, TypeOK
<1>8. Ended'
  BY <1>1, <1>2, <1>3, <1>5 DEF HInv, Ended, Over
<1> QED
  BY <1>6, <1>7, <1>8 DEF HInv

\* Steps of a worker that write no event and make no try.
LEMMA SilentWorkerStep ==
  ASSUME IInv, HInv, NEW w \in Workers,
         EmptyCycle(w) \/ Claim(w) \/ LoseClaim(w) \/ Abort(w) \/ DeadlineExpires(w)
  PROVE  HInv'
<1>1. /\ UNCHANGED <<events, calls, accepting, current, outcome>>
      /\ \A v \in Workers : pc'[v] # pc[v] => pc'[v] \in {"idle", "loop"}
      /\ \A v \in Workers : pc'[v] \in {"mark", "event"} => seen'[v] = seen[v]
  BY DEF EmptyCycle, Claim, LoseClaim, Abort, DeadlineExpires, vars, db, locals, history, IInv, TypeOK
<1>2. \A n \in Notifications : status'[n] = "absent" => status[n] = "absent"
  BY DEF EmptyCycle, Claim, LoseClaim, Abort, DeadlineExpires, Fields, vars, db, locals, IInv, TypeOK
<1>3. Accepted'
  BY <1>1, <1>2 DEF HInv, Accepted
<1>4. [Next]_vars
  BY DEF Next, Worker, InCycle
<1> QED
  BY <1>1, <1>3, <1>4, QuietStep DEF Owes, OwesEnd, TryOf

LEMMA CrashQuiet ==
  ASSUME IInv, HInv, Crash
  PROVE  HInv'
<1>1. /\ UNCHANGED <<events, calls>>
      /\ \A v \in Workers : pc'[v] = "idle"
  BY DEF Crash, db, history
<1>2. Accepted'
  BY DEF Crash, db, HInv, Accepted
<1>3. [Next]_vars
  BY DEF Next
<1> QED
  BY <1>1, <1>2, <1>3, QuietStep DEF Owes, OwesEnd

\* A new try has a number above those of all tries before it.
LEMMA SendHistory ==
  ASSUME IInv, HInv, NEW w \in Workers, Send(w)
  PROVE  HInv'
<1>1. PICK n \in claimed[w] : /\ current' = [current EXCEPT ![w] = n]
                             /\ calls' = [calls EXCEPT ![n] = @ + 1]
  BY DEF Send
<1>2. /\ pc[w] = "loop" /\ pc' = [pc EXCEPT ![w] = "mark"]
      /\ UNCHANGED <<status, events, accepting, claimed, seen>>
      /\ \A v \in Workers \ {w} : outcome'[v] = outcome[v]
  BY DEF Send, db, IInv, TypeOK
<1>3. /\ n \in Notifications /\ seen[w][n] = attempts[n] /\ calls[n] = attempts[n] /\ calls[n] \in Nat
  BY <1>2 DEF IInv, TypeOK, Owned, Counted
<1>4. /\ Owes(w, n)' /\ TryOf(w)' = calls[n] + 1 /\ calls'[n] = calls[n] + 1
      /\ \A m \in Notifications \ {n} : ~Owes(w, m)' /\ calls'[m] = calls[m]
      /\ \A v \in Workers \ {w}, m \in Notifications : Owes(v, m)' = Owes(v, m) /\ TryOf(v)' = TryOf(v)
  BY <1>1, <1>2, <1>3 DEF Owes, TryOf, IInv, TypeOK
<1>5. Numbered'
  <2>1. /\ \A i \in DOMAIN events[n] : events[n][i].attempt <= calls[n] /\ events[n][i].attempt \in Nat
        /\ \A v \in Workers : Owes(v, n) => TryOf(v) <= calls[n] /\ TryOf(v) \in Nat
    <3>1. \A i \in DOMAIN events[n] : events[n][i] \in Event
      BY <1>3 DEF IInv, TypeOK
    <3>2. \A v \in Workers : Owes(v, n) => TryOf(v) \in Nat
      BY <1>3, MaxAttemptsAssumption DEF IInv, TypeOK, Owes, TryOf
    <3> QED
      BY <1>3, <3>1, <3>2, MaxAttemptsAssumption DEF HInv, Numbered, Event
  <2> SUFFICES ASSUME NEW m \in Notifications
               PROVE  /\ \A i, j \in DOMAIN events'[m] : i # j => events'[m][i].attempt # events'[m][j].attempt
                      /\ \A i \in DOMAIN events'[m] : events'[m][i].attempt <= calls'[m]
                      /\ \A u \in Workers : Owes(u, m)' =>
                           /\ TryOf(u)' <= calls'[m]
                           /\ \A i \in DOMAIN events'[m] : events'[m][i].attempt # TryOf(u)'
                           /\ \A v \in Workers \ {u} : Owes(v, m)' => TryOf(v)' # TryOf(u)'
    BY DEF Numbered
  <2>2. CASE m # n
    BY <1>2, <1>4, <2>2 DEF HInv, Numbered
  <2>3. CASE m = n
    <3>1. /\ \A i \in DOMAIN events'[n] : events'[n][i].attempt <= calls'[n] /\ events'[n][i].attempt # TryOf(w)'
          /\ \A v \in Workers \ {w} : Owes(v, n)' => TryOf(v)' <= calls'[n] /\ TryOf(v)' # TryOf(w)'
      BY <1>2, <1>3, <1>4, <2>1
    <3>2. \A u \in Workers \ {w} : Owes(u, n)' =>
            /\ \A i \in DOMAIN events'[n] : events'[n][i].attempt # TryOf(u)'
            /\ \A v \in Workers \ {u} : Owes(v, n)' => TryOf(v)' # TryOf(u)'
      BY <1>2, <1>3, <1>4, <3>1 DEF HInv, Numbered
    <3>3. \A i, j \in DOMAIN events'[n] : i # j => events'[n][i].attempt # events'[n][j].attempt
      BY <1>2, <1>3 DEF HInv, Numbered
    <3>4. TryOf(w)' <= calls'[n]
      BY <1>3, <1>4
    <3> QED
      BY <2>3, <3>1, <3>2, <3>3, <3>4
  <2> QED
    BY <2>2, <2>3
<1>6. Accepted'
  BY <1>2 DEF HInv, Accepted
<1>7. Ended'
  <2>1. \A v \in Workers, m \in Notifications : OwesEnd(v, m)' => v # w /\ OwesEnd(v, m) /\ outcome'[v] = outcome[v]
    BY <1>1, <1>2 DEF OwesEnd, IInv, TypeOK
  <2> QED
    BY <1>2, <2>1 DEF HInv, Ended, Over
<1> QED
  BY <1>5, <1>6, <1>7 DEF HInv

\* A row that a worker has in hand is not over, so the end it is about to tell is the first.
LEMMA MarkHistory ==
  ASSUME IInv, HInv, NEW w \in Workers, Mark(w) \/ LoseMark(w)
  PROVE  HInv'
<1>0. PICK n : n = current[w]
  OBVIOUS
<1>1. /\ pc[w] = "mark" /\ pc' = [pc EXCEPT ![w] = "event"]
      /\ claimed' = [claimed EXCEPT ![w] = @ \ {n}]
      /\ UNCHANGED <<events, accepting, seen, current, outcome, calls>>
  BY <1>0 DEF Mark, LoseMark, LetGo, history
<1>2. /\ n \in claimed[w] /\ n \in Notifications
      /\ status[n] \in {"processing", "cancelled"}
      /\ \A v \in Workers : n \in claimed[v] => v = w
      /\ outcome[w] \in Written
  BY <1>0, <1>1, TurnFacts
<1>3. /\ status'[n] \in {status[n], outcome[w]}
      /\ \A m \in Notifications \ {n} : status'[m] = status[m]
  BY <1>0, <1>2 DEF Mark, LoseMark, IInv, TypeOK
<1>4. \A s : ~Over(n, s)
  BY <1>2 DEF Over
<1>5. \A v \in Workers, m \in Notifications : Owes(v, m)' = Owes(v, m) /\ TryOf(v)' = TryOf(v)
  BY <1>1 DEF Owes, TryOf, IInv, TypeOK
<1>6. Numbered'
  BY <1>1, <1>5 DEF HInv, Numbered
<1>7. Accepted'
  <2>1. status'[n] # "absent"
    BY <1>2, <1>3 DEF Written, Final
  <2> QED
    BY <1>1, <1>3, <2>1 DEF HInv, Accepted
<1>8. \A v \in Workers, m \in Notifications : OwesEnd(v, m)' => OwesEnd(v, m) \/ (v = w /\ m = n)
  BY <1>0, <1>1 DEF OwesEnd, IInv, TypeOK
<1>9. /\ \A i \in DOMAIN events[n] : events[n][i].status \notin Final
      /\ \A v \in Workers : ~OwesEnd(v, n)
  BY <1>2, <1>4 DEF HInv, Ended
<1>10. OwesEnd(w, n)' => Over(n, outcome[w])'
  <2>1. outcome[w] \in Final => status'[n] \notin Waiting \cup {"absent"} /\ (status'[n] \in Final => status'[n] = outcome[w])
    BY <1>2, <1>3 DEF Waiting, Final
  <2>2. \A v \in Workers : n \notin claimed'[v]
    BY <1>1, <1>2 DEF IInv, TypeOK
  <2> QED
    BY <1>1, <2>1, <2>2 DEF OwesEnd, Over
<1>11. \A m \in Notifications \ {n} : \A s : Over(m, s) => Over(m, s)'
  BY <1>1, <1>3 DEF Over, IInv, TypeOK
<1>12. Ended'
  <2> SUFFICES ASSUME NEW m \in Notifications
               PROVE  /\ \A i \in DOMAIN events[m] : events[m][i].status \in Final =>
                           /\ Over(m, events[m][i].status)'
                           /\ \A j \in DOMAIN events[m] : i # j => events[m][j].status \notin Final
                      /\ \A u \in Workers : OwesEnd(u, m)' =>
                           /\ Over(m, outcome[u])'
                           /\ \A i \in DOMAIN events[m] : events[m][i].status \notin Final
                           /\ \A v \in Workers \ {u} : ~OwesEnd(v, m)'
    BY <1>1 DEF Ended
  <2>1. CASE m = n
    BY <1>8, <1>9, <1>10, <2>1
  <2>2. CASE m # n
    <3>1. \A i \in DOMAIN events[m] : events[m][i].status \in Final =>
            /\ Over(m, events[m][i].status)'
            /\ \A j \in DOMAIN events[m] : i # j => events[m][j].status \notin Final
      BY <1>1, <1>11, <2>2 DEF HInv, Ended, Over
    <3>2. \A u \in Workers : OwesEnd(u, m)' => Over(m, outcome[u])'
      BY <1>1, <1>8, <1>11, <2>2 DEF HInv, Ended, Over
    <3> QED
      BY <1>8, <2>2, <3>1, <3>2 DEF HInv, Ended
  <2> QED
    BY <2>1, <2>2
<1> QED
  BY <1>6, <1>7, <1>12 DEF HInv

\* The event that ends a turn tells of the try and of the end the worker owed.
LEMMA EndTurnHistory ==
  ASSUME IInv, HInv, NEW w \in Workers, RecordEvent(w) \/ LoseEvent(w)
  PROVE  HInv'
<1>0. PICK n : n = current[w]
  OBVIOUS
<1>1. /\ pc[w] = "event" /\ pc' = [pc EXCEPT ![w] = AfterTurn(w)] /\ AfterTurn(w) \in {"idle", "loop"}
      /\ UNCHANGED <<status, accepting, claimed, calls>>
      /\ \A v \in Workers \ {w} : seen'[v] = seen[v] /\ current'[v] = current[v] /\ outcome'[v] = outcome[v]
  BY DEF RecordEvent, LoseEvent, EndTurn, AfterTurn, history, IInv, TypeOK
<1>2. /\ \A m \in Notifications : ~Owes(w, m)' /\ ~OwesEnd(w, m)'
      /\ \A v \in Workers \ {w}, m \in Notifications :
           Owes(v, m)' = Owes(v, m) /\ TryOf(v)' = TryOf(v) /\ OwesEnd(v, m)' = OwesEnd(v, m)
  BY <1>1 DEF Owes, TryOf, OwesEnd, IInv, TypeOK
<1>3. CASE UNCHANGED events
  <2>1. Accepted'
    BY <1>1, <1>3 DEF HInv, Accepted
  <2>2. [Next]_vars
    BY DEF Next, Worker, InCycle
  <2> QED
    BY <1>1, <1>2, <1>3, <2>1, <2>2, QuietStep
<1>4. CASE events' = [events EXCEPT ![current[w]] = Append(@, EventOf(w))]
  <2>1. PICK e : e = EventOf(w)
    OBVIOUS
  <2>2. /\ n \in Notifications /\ Owes(w, n) /\ status[n] # "absent"
        /\ e.attempt = TryOf(w) /\ e.status = outcome[w]
        /\ TryOf(w) \in Nat \ {0}
        /\ outcome[w] \in Final => OwesEnd(w, n)
    <3>1. n \in Notifications /\ Owes(w, n) /\ TryOf(w) \in Nat \ {0}
      BY <1>0, <1>1, MaxAttemptsAssumption DEF IInv, TypeOK, Turn, Owes, TryOf
    <3>2. TryOf(w) <= calls[n]
      BY <3>1 DEF HInv, Numbered
    <3>3. calls[n] \in Nat /\ (status[n] = "absent" => calls[n] = 0)
      BY <3>1 DEF IInv, TypeOK, Rows
    <3>4. e.attempt = TryOf(w) /\ e.status = outcome[w] /\ (outcome[w] \in Final => OwesEnd(w, n))
      BY <1>0, <1>1, <2>1 DEF EventOf, TryOf, OwesEnd
    <3> QED
      BY <3>1, <3>2, <3>3, <3>4
  <2>3. /\ DOMAIN events'[n] = 1..(Len(events[n]) + 1) /\ DOMAIN events[n] = 1..Len(events[n])
        /\ Len(events[n]) \in Nat
        /\ events'[n][Len(events[n]) + 1] = e
        /\ \A i \in 1..Len(events[n]) : events'[n][i] = events[n][i]
        /\ \A m \in Notifications \ {n} : events'[m] = events[m]
    BY <1>0, <1>4, <2>1, <2>2 DEF IInv, TypeOK
  <2>4. Numbered'
    <3>1. \A i \in DOMAIN events[n] : events[n][i].attempt # e.attempt /\ events[n][i].attempt <= calls[n]
      BY <2>2 DEF HInv, Numbered
    <3>2. e.attempt <= calls[n] /\ \A v \in Workers \ {w} : Owes(v, n) => TryOf(v) # e.attempt
      BY <2>2 DEF HInv, Numbered
    <3>3. /\ \A i, j \in DOMAIN events'[n] : i # j => events'[n][i].attempt # events'[n][j].attempt
          /\ \A i \in DOMAIN events'[n] : events'[n][i].attempt <= calls'[n]
      <4>1. \A i \in DOMAIN events'[n] : i = Len(events[n]) + 1 \/ i \in DOMAIN events[n]
        BY <2>3
      <4>2. \A i, j \in DOMAIN events[n] : i # j => events[n][i].attempt # events[n][j].attempt
        BY <2>2 DEF HInv, Numbered
      <4>3. \A i \in DOMAIN events[n] : events'[n][i] = events[n][i] /\ i # Len(events[n]) + 1
        BY <2>3
      <4>4. \A i, j \in DOMAIN events'[n] : i # j => events'[n][i].attempt # events'[n][j].attempt
        BY <2>3, <3>1, <4>1, <4>2, <4>3
      <4>5. \A i \in DOMAIN events'[n] : events'[n][i].attempt <= calls[n]
        BY <2>3, <3>1, <3>2, <4>1, <4>3
      <4> QED
        BY <1>1, <4>4, <4>5
    <3>4. \A u \in Workers : Owes(u, n)' =>
            /\ TryOf(u)' <= calls'[n]
            /\ \A i \in DOMAIN events'[n] : events'[n][i].attempt # TryOf(u)'
            /\ \A v \in Workers \ {u} : Owes(v, n)' => TryOf(v)' # TryOf(u)'
      <4>1. \A u \in Workers : Owes(u, n)' => u # w /\ Owes(u, n) /\ TryOf(u)' = TryOf(u)
        BY <1>2, <2>2
      <4>2. \A u \in Workers : Owes(u, n) =>
              /\ TryOf(u) <= calls[n]
              /\ \A i \in DOMAIN events[n] : events[n][i].attempt # TryOf(u)
              /\ \A v \in Workers \ {u} : Owes(v, n) => TryOf(v) # TryOf(u)
        BY <2>2 DEF HInv, Numbered
      <4> QED
        BY <1>1, <2>3, <3>2, <4>1, <4>2
    <3>5. \A m \in Notifications \ {n} :
            /\ \A i, j \in DOMAIN events'[m] : i # j => events'[m][i].attempt # events'[m][j].attempt
            /\ \A i \in DOMAIN events'[m] : events'[m][i].attempt <= calls'[m]
            /\ \A u \in Workers : Owes(u, m)' =>
                 /\ TryOf(u)' <= calls'[m]
                 /\ \A i \in DOMAIN events'[m] : events'[m][i].attempt # TryOf(u)'
                 /\ \A v \in Workers \ {u} : Owes(v, m)' => TryOf(v)' # TryOf(u)'
      BY <1>1, <1>2, <2>3 DEF HInv, Numbered
    <3> QED
      BY <3>3, <3>4, <3>5 DEF Numbered
  <2>5. Accepted'
    BY <1>1, <2>2, <2>3 DEF HInv, Accepted
  <2>6. Ended'
    <3>1. e.status \in Final =>
            /\ Over(n, e.status)
            /\ \A i \in DOMAIN events[n] : events[n][i].status \notin Final
            /\ \A v \in Workers \ {w} : ~OwesEnd(v, n)
      BY <2>2 DEF HInv, Ended
    <3>2. \A i \in DOMAIN events'[n] : events'[n][i].status \in Final =>
            /\ Over(n, events[n][i].status)'
            /\ \A j \in DOMAIN events'[n] : i # j => events'[n][j].status \notin Final
      <4>1. \A i \in DOMAIN events'[n] : i = Len(events[n]) + 1 \/ i \in DOMAIN events[n]
        BY <2>3
      <4>2. \A i \in DOMAIN events[n] : events[n][i].status \in Final =>
              /\ Over(n, events[n][i].status)
              /\ e.status \notin Final
              /\ \A j \in DOMAIN events[n] : i # j => events[n][j].status \notin Final
        BY <2>2, <3>1 DEF HInv, Ended
      <4>3. \A i \in DOMAIN events'[n] : events'[n][i].status \in Final =>
              Over(n, events'[n][i].status)
        BY <2>3, <3>1, <4>1, <4>2
      <4> QED
        BY <1>1, <2>3, <3>1, <4>1, <4>2, <4>3 DEF Over
    <3>3. \A u \in Workers : OwesEnd(u, n)' =>
            /\ Over(n, outcome[u])'
            /\ \A i \in DOMAIN events'[n] : events'[n][i].status \notin Final
            /\ \A v \in Workers \ {u} : ~OwesEnd(v, n)'
      <4>1. \A u \in Workers : OwesEnd(u, n)' => u # w /\ OwesEnd(u, n) /\ outcome'[u] = outcome[u] /\ e.status \notin Final
        BY <1>1, <1>2, <2>2, <3>1
      <4>2. \A u \in Workers : OwesEnd(u, n) =>
              /\ Over(n, outcome[u])
              /\ \A i \in DOMAIN events[n] : events[n][i].status \notin Final
              /\ \A v \in Workers \ {u} : ~OwesEnd(v, n)
        BY <2>2 DEF HInv, Ended
      <4> QED
        BY <1>1, <1>2, <2>2, <2>3, <4>1, <4>2 DEF Over
    <3>4. \A m \in Notifications \ {n} :
            /\ \A i \in DOMAIN events'[m] : events'[m][i].status \in Final =>
                 /\ Over(m, events[m][i].status)'
                 /\ \A j \in DOMAIN events'[m] : i # j => events'[m][j].status \notin Final
            /\ \A u \in Workers : OwesEnd(u, m)' =>
                 /\ Over(m, outcome[u])'
                 /\ \A i \in DOMAIN events'[m] : events'[m][i].status \notin Final
                 /\ \A v \in Workers \ {u} : ~OwesEnd(v, m)'
      BY <1>1, <1>2, <2>3 DEF HInv, Ended, Over
    <3> QED
      BY <3>2, <3>3, <3>4 DEF Ended
  <2> QED
    BY <2>4, <2>5, <2>6 DEF HInv
<1> QED
  BY <1>3, <1>4 DEF RecordEvent, LoseEvent

LEMMA HistoryStep == IInv /\ HInv /\ [Next]_vars => HInv'
<1> SUFFICES ASSUME IInv, HInv, [Next]_vars PROVE HInv'
  OBVIOUS
<1>1. CASE UNCHANGED vars
  BY <1>1 DEF HInv, Numbered, Accepted, Ended, Over, Owes, TryOf, OwesEnd, vars, db, locals, history
<1>2. CASE Handlers
  BY <1>2, HandlersStep, RecordAcceptedStep DEF Handlers
<1>3. CASE \E n \in Notifications : BecomeDue(n)
  BY <1>3, HandlersStep
<1>4. ASSUME NEW w \in Workers, Worker(w) PROVE HInv'
  BY <1>4, SilentWorkerStep, SendHistory, MarkHistory, EndTurnHistory DEF Worker, InCycle
<1>5. CASE Crash
  BY <1>5, CrashQuiet
<1> QED
  BY <1>1, <1>2, <1>3, <1>4, <1>5 DEF Next

(***************************************************************************)
(* What GET /notifications/{id}/events shows agrees with the row: whatever *)
(* writes and events are lost, and although a worker may still owe an      *)
(* event when another has already sent the row again, tries are told once, *)
(* none is told that was not made, and an end is told once and truly.      *)
(***************************************************************************)
THEOREM HistoryIsTrue == Spec => []HistoryAgrees
<1>1. IInv /\ HInv => HistoryAgrees
  BY DEF HInv, Numbered, Ended, Over, HistoryAgrees
<1>2. Spec => []HInv
  BY Invariance, HistoryInit, HistoryStep, PTL DEF Spec
<1> QED
  BY Invariance, <1>1, <1>2, PTL
=============================================================================

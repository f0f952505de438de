-------------------------- MODULE ClaimQueueProofs --------------------------
(***************************************************************************)
(* The safety of ClaimQueue for any rows, workers, cancels and limits: what*)
(* its row locks protect, the order of claims, and that it implements      *)
(* Lifecycle.                                                              *)
(***************************************************************************)
EXTENDS ClaimQueue, TLAPS

\* Statements keep rows and locks only while they run, workers only while they work.
Phases ==
  /\ \A a \in Actors : pc[a] # "scan" => todo[a] = {} /\ picked[a] = {}
  /\ \A w \in Workers : pc[w] # "work" => claimed[w] = {}
  /\ \A w \in Workers : notYet[w] \subseteq todo[w]

\* Rows nobody has tried yet, and rows that may be tried again.
Rows ==
  \A n \in Notifications :
    /\ status[n] = "absent" => attempts[n] = 0
    /\ status[n] \in Waiting => attempts[n] < MaxAttempts

\* What a claim has for itself it still has to come to, free and due, or has picked.
Fresh ==
  \A w \in Workers : \A n \in free[w] :
    /\ n \in todo[w] \cup picked[w]
    /\ StillDue(w, n)
    /\ n \in todo[w] => OpenToClaim(n)

\* The rows a claim has picked come before those it has yet to come to.
Ranked ==
  \A w \in Workers : \A m \in picked[w], n \in todo[w] : Rank[m] <= Rank[n]

IInv ==
  /\ TypeOK
  /\ ExclusiveClaims
  /\ ChoicesStand
  /\ Phases
  /\ Rows
  /\ Fresh
  /\ Ranked
-----------------------------------------------------------------------------

LEMMA InitStep == Init => IInv
<1> SUFFICES ASSUME Init PROVE IInv
  OBVIOUS
<1>1. TypeOK
  BY LimitsAssumption DEF Init, TypeOK, NothingSeen
<1>2. ExclusiveClaims /\ ChoicesStand /\ Phases
  BY DEF Init, ExclusiveClaims, ChoicesStand, Phases, Actors
<1>3. Rows /\ Fresh /\ Ranked
  BY LimitsAssumption DEF Init, Rows, Fresh, Ranked, Waiting, Actors
<1> QED
  BY <1>1, <1>2, <1>3 DEF IInv

\* Workers and cancels are different actors, and no lock holder is neither.
LEMMA ActorFacts ==
  /\ \A w \in Workers : w \in Actors /\ w \notin Cancellers /\ w # NoOne
  /\ \A c \in Cancellers : c \in Actors /\ c \notin Workers /\ c # NoOne
BY ActorsAssumption DEF Actors

LEMMA InsertStep ==
  ASSUME IInv, NEW n \in Notifications, Insert(n)
  PROVE  IInv'
<1>1. TypeOK'
  BY DEF IInv, TypeOK, Insert, Statuses, Waiting
<1>2. \A m \in Notifications : m # n => status'[m] = status[m]
  BY DEF IInv, TypeOK, Insert
<1>3. /\ status[n] = "absent"
      /\ UNCHANGED <<attempts, lock, noting, pc, todo, picked, notYet, claimed, seen, free>>
  BY DEF Insert
<1>4. ExclusiveClaims'
  BY <1>2, <1>3 DEF IInv, TypeOK, ExclusiveClaims
<1>5. ChoicesStand'
  BY <1>2, <1>3, ActorFacts DEF IInv, TypeOK, ChoicesStand, StillDue, StillCancellable, Cancellable, Waiting
<1>6. Phases' /\ Ranked'
  BY <1>3 DEF IInv, Phases, Ranked
<1>7. Rows'
  BY <1>1, <1>2, <1>3, LimitsAssumption DEF IInv, TypeOK, Rows, Waiting
<1>8. Fresh'
  BY <1>2, <1>3 DEF IInv, TypeOK, Fresh, StillDue, OpenToClaim, Waiting
<1> QED
  BY <1>1, <1>4, <1>5, <1>6, <1>7, <1>8 DEF IInv

\* Time, and the locks of events, take nothing from a statement but its freedom.
LEMMA BesideStep ==
  ASSUME IInv, NEW n \in Notifications, BecomeDue(n) \/ BeginEvent(n) \/ EndEvent(n)
  PROVE  IInv'
<1>1. TypeOK'
  BY LimitsAssumption DEF IInv, TypeOK, BecomeDue, BeginEvent, EndEvent, Trouble, Disturb
<1>2. UNCHANGED <<status, attempts, lock, pc, todo, picked, notYet, claimed, seen>>
  BY DEF BecomeDue, BeginEvent, EndEvent
<1>3. ExclusiveClaims' /\ ChoicesStand' /\ Phases' /\ Rows' /\ Ranked'
  BY <1>2 DEF IInv, ExclusiveClaims, ChoicesStand, Phases, Rows, Ranked, StillDue, StillCancellable
<1>4. Fresh'
  <2>1. CASE BecomeDue(n) \/ EndEvent(n)
    BY <2>1, <1>2 DEF IInv, Fresh, StillDue, OpenToClaim, BecomeDue, EndEvent
  <2>2. CASE BeginEvent(n)
    <3>1. \A w \in Workers : free'[w] = free[w] \ {n}
      BY <2>2, ActorFacts DEF BeginEvent, Disturb
    <3>2. noting' = noting \cup {n}
      BY <2>2 DEF BeginEvent
    <3> QED
      BY <1>2, <3>1, <3>2 DEF IInv, Fresh, StillDue, OpenToClaim
  <2> QED
    BY <2>1, <2>2
<1> QED
  BY <1>1, <1>3, <1>4 DEF IInv

LEMMA BeginClaimStep ==
  ASSUME IInv, NEW w \in Workers, BeginClaim(w)
  PROVE  IInv'
<1>1. TypeOK'
  BY ActorFacts DEF IInv, TypeOK, BeginClaim, Due
<1>2. /\ pc[w] = "idle" /\ picked[w] = {} /\ notYet[w] = {} /\ claimed[w] = {}
      /\ UNCHANGED <<status, attempts, lock, noting, picked, notYet, claimed, seen>>
  BY ActorFacts DEF BeginClaim, IInv, Phases
<1>3. \A a \in Actors : /\ pc'[a] = IF a = w THEN "scan" ELSE pc[a]
                        /\ todo'[a] = IF a = w THEN Due ELSE todo[a]
  BY ActorFacts DEF BeginClaim, IInv, TypeOK
<1>4. \A v \in Workers : free'[v] = IF v = w THEN {n \in Due : OpenToClaim(n)} ELSE free[v]
  BY DEF BeginClaim, IInv, TypeOK
<1>5. ExclusiveClaims' /\ ChoicesStand' /\ Rows'
  BY <1>2 DEF IInv, ExclusiveClaims, ChoicesStand, Rows, StillDue, StillCancellable
<1>6. Phases' /\ Ranked'
  BY <1>2, <1>3, ActorFacts DEF IInv, Phases, Ranked
<1>7. Fresh'
  <2> SUFFICES ASSUME NEW v \in Workers, NEW n \in free'[v]
               PROVE  /\ n \in todo'[v] \cup picked[v]
                      /\ status[n] \in Waiting /\ n \notin notYet[v]
                      /\ n \in todo'[v] => lock[n] = NoOne /\ n \notin noting
    BY <1>2 DEF Fresh, StillDue, OpenToClaim
  <2>1. CASE v = w
    BY <2>1, <1>2, <1>3, <1>4, ActorFacts DEF OpenToClaim, Due
  <2>2. CASE v # w
    BY <2>2, <1>3, <1>4, ActorFacts DEF IInv, Fresh, StillDue, OpenToClaim
  <2> QED
    BY <2>1, <2>2
<1> QED
  BY <1>1, <1>5, <1>6, <1>7 DEF IInv

\* Statement a has come to row n, which nobody had locked.
Takes(a, n, still) ==
  /\ n \in todo[a] /\ lock[n] = NoOne /\ pc[a] = "scan"
  /\ todo' = [todo EXCEPT ![a] = @ \ {n}]
  /\ Lock(a, n, still)
  /\ UNCHANGED <<status, attempts, noting, pc, claimed, seen>>

\* What taking a row leaves of the invariant for every other statement, and for the locks of all.
LEMMA TakesFacts ==
  ASSUME IInv, NEW a \in Actors, NEW n \in Notifications, NEW still \in BOOLEAN, Takes(a, n, still)
  PROVE  /\ \A b \in Actors : n \notin picked[b]
         /\ \A b \in Actors, m \in Notifications :
              /\ m \in picked'[b] <=> m \in picked[b] \/ (still /\ b = a /\ m = n)
              /\ m \in todo'[b] <=> m \in todo[b] /\ ~(b = a /\ m = n)
         /\ lock'[n] = a /\ \A m \in Notifications \ {n} : lock'[m] = lock[m]
         /\ \A w \in Workers : \A m \in free'[w] : m \in free[w] /\ (m = n => w = a)
         /\ \A b \in Actors : \A m \in picked'[b] : lock'[m] = b
<1>1. /\ \A b \in Actors, m \in Notifications :
           /\ m \in picked'[b] <=> m \in picked[b] \/ (still /\ b = a /\ m = n)
           /\ m \in todo'[b] <=> m \in todo[b] /\ ~(b = a /\ m = n)
      /\ \A b \in Actors : picked'[b] \subseteq Notifications
      /\ lock'[n] = a /\ \A m \in Notifications \ {n} : lock'[m] = lock[m]
      /\ \A w \in Workers : \A m \in free'[w] : m \in free[w] /\ (m = n => w = a)
  BY DEF Takes, Lock, Disturb, IInv, TypeOK
<1>2. \A b \in Actors : n \notin picked[b]
  BY ActorFacts DEF Takes, IInv, ChoicesStand, Actors
<1>3. \A b \in Actors : \A m \in picked[b] : m \in Notifications /\ lock[m] = b
  BY DEF IInv, TypeOK, ChoicesStand
<1>4. ASSUME NEW b \in Actors, NEW m \in picked'[b] PROVE lock'[m] = b
  <2>1. CASE m = n
    BY <2>1, <1>1, <1>2
  <2>2. CASE m # n
    <3>1. m \in picked[b]
      BY <2>2, <1>1
    <3> QED
      BY <2>2, <3>1, <1>1, <1>3
  <2> QED
    BY <2>1, <2>2
<1> QED
  BY <1>1, <1>2, <1>4

LEMMA LockTypes ==
  ASSUME TypeOK, NEW a \in Actors, NEW n \in Notifications, NEW still \in BOOLEAN, Lock(a, n, still)
  PROVE  /\ lock' \in [Notifications -> Actors \cup {NoOne}]
         /\ picked' \in [Actors -> SUBSET Notifications]
         /\ free' \in [Workers -> SUBSET Notifications]
<1>1. lock' \in [Notifications -> Actors \cup {NoOne}]
  BY DEF Lock, TypeOK
<1>2. picked' \in [Actors -> SUBSET Notifications]
  <2>1. picked' = [picked EXCEPT ![a] = IF still THEN picked[a] \cup {n} ELSE picked[a]]
    BY DEF Lock
  <2>2. picked \in [Actors -> SUBSET Notifications]
    BY DEF TypeOK
  <2> QED
    BY <2>1, <2>2
<1>3. free' \in [Workers -> SUBSET Notifications]
  <2>1. free' = [v \in Workers |-> IF v = a THEN free[v] ELSE free[v] \ {n}]
    BY DEF Lock, Disturb
  <2>2. free \in [Workers -> SUBSET Notifications]
    BY DEF TypeOK
  <2> QED
    BY <2>1, <2>2
<1> QED
  BY <1>1, <1>2, <1>3

LEMMA ScanStep ==
  ASSUME IInv, NEW w \in Workers, Scan(w)
  PROVE  IInv'
<1> PICK n \in First(todo[w]) :
       /\ todo' = [todo EXCEPT ![w] = @ \ {n}]
       /\ notYet' = [notYet EXCEPT ![w] = @ \ {n}]
       /\ IF OpenToClaim(n) THEN Lock(w, n, StillDue(w, n)) ELSE UNCHANGED <<lock, picked, free>>
  BY DEF Scan
<1>1. /\ pc[w] = "scan" /\ n \in Notifications /\ n \in todo[w] /\ w \in Actors
      /\ \A m \in todo[w] : Rank[n] <= Rank[m]
      /\ UNCHANGED <<status, attempts, noting, pc, claimed, seen>>
  BY ActorFacts DEF Scan, First, IInv, TypeOK
<1>2. TypeOK'
  <2>1. /\ status' \in [Notifications -> Statuses \cup {"absent"}]
        /\ UNCHANGED <<attempts, future, noting, pc, claimed, seen, troubles>>
    BY <1>1 DEF Scan, IInv, TypeOK
  <2>2. /\ todo' \in [Actors -> SUBSET Notifications]
        /\ notYet' \in [Workers -> SUBSET Notifications]
    BY <1>1 DEF IInv, TypeOK
  <2>3. /\ lock' \in [Notifications -> Actors \cup {NoOne}]
        /\ picked' \in [Actors -> SUBSET Notifications]
        /\ free' \in [Workers -> SUBSET Notifications]
    <3>1. CASE OpenToClaim(n)
      <4>1. Lock(w, n, StillDue(w, n)) /\ StillDue(w, n) \in BOOLEAN /\ TypeOK
        BY <3>1 DEF StillDue, IInv
      <4> QED
        BY <4>1, <1>1, LockTypes
    <3>2. CASE ~OpenToClaim(n)
      BY <3>2 DEF IInv, TypeOK
    <3> QED
      BY <3>1, <3>2
  <2> QED
    BY <2>1, <2>2, <2>3 DEF IInv, TypeOK
<1>3. /\ todo'[w] = todo[w] \ {n} /\ \A a \in Actors \ {w} : todo'[a] = todo[a]
      /\ notYet'[w] = notYet[w] \ {n} /\ \A v \in Workers \ {w} : notYet'[v] = notYet[v]
  BY <1>1 DEF IInv, TypeOK
<1>4. ExclusiveClaims' /\ Rows'
  BY <1>1 DEF IInv, ExclusiveClaims, Rows
<1>5. CASE OpenToClaim(n)
  <2>0. StillDue(w, n) \in BOOLEAN
    BY DEF StillDue
  <2>1. Takes(w, n, StillDue(w, n))
    BY <1>1, <1>5 DEF Takes, OpenToClaim
  <2>2. /\ \A b \in Actors : n \notin picked[b]
        /\ \A b \in Actors, m \in Notifications : m \in picked'[b] <=> m \in picked[b] \/ (StillDue(w, n) /\ b = w /\ m = n)
        /\ lock'[n] = w /\ \A m \in Notifications \ {n} : lock'[m] = lock[m]
        /\ \A v \in Workers : \A m \in free'[v] : m \in free[v] /\ (m = n => v = w)
        /\ \A b \in Actors : \A m \in picked'[b] : lock'[m] = b
    BY <1>1, <2>0, <2>1, TakesFacts
  <2>a. /\ \A b \in Actors : picked'[b] \subseteq Notifications /\ todo'[b] \subseteq Notifications
        /\ \A v \in Workers : free'[v] \subseteq Notifications
    BY <1>2, ActorFacts DEF TypeOK
  <2>3. ChoicesStand'
    <3>1. ASSUME NEW v \in Workers, NEW m \in picked'[v]
          PROVE  status[m] \in Waiting /\ m \notin notYet'[v]
      <4>0. v \in Actors /\ m \in Notifications
        BY <2>a, ActorFacts
      <4>1. CASE m \in picked[v]
        BY <4>1, <1>3 DEF IInv, ChoicesStand, StillDue
      <4>2. CASE m \notin picked[v]
        BY <4>0, <4>2, <2>2, <1>3 DEF StillDue
      <4> QED
        BY <4>1, <4>2
    <3>2. \A c \in Cancellers : \A m \in picked'[c] : m \in picked[c]
      BY <2>2, <2>a, ActorFacts
    <3> QED
      BY <1>1, <2>2, <3>1, <3>2 DEF IInv, ChoicesStand, StillDue, StillCancellable
  <2>4. Phases'
    <3>1. ASSUME NEW a \in Actors, pc[a] # "scan" PROVE todo'[a] = {} /\ picked'[a] = {}
      <4>1. todo[a] = {} /\ picked[a] = {} /\ a # w
        BY <3>1, <1>1 DEF IInv, Phases
      <4> QED
        BY <4>1, <1>3, <2>2, <2>a
    <3>2. \A v \in Workers : notYet'[v] \subseteq todo'[v]
      BY <1>3, ActorFacts DEF IInv, Phases
    <3> QED
      BY <1>1, <3>1, <3>2 DEF IInv, Phases
  <2>5. Fresh'
    <3> SUFFICES ASSUME NEW v \in Workers, NEW m \in free'[v]
                 PROVE  /\ m \in todo'[v] \cup picked'[v]
                        /\ status[m] \in Waiting /\ m \notin notYet'[v]
                        /\ m \in todo'[v] => lock'[m] = NoOne /\ m \notin noting
      BY <1>1 DEF Fresh, StillDue, OpenToClaim
    <3>0. m \in free[v] /\ m \in Notifications /\ v \in Actors /\ (m = n => v = w)
      BY <2>2, <2>a, ActorFacts
    <3>1. /\ m \in todo[v] \cup picked[v] /\ status[m] \in Waiting /\ m \notin notYet[v]
          /\ m \in todo[v] => lock[m] = NoOne /\ m \notin noting
      BY <3>0 DEF IInv, Fresh, StillDue, OpenToClaim
    <3>2. CASE m = n
      <4>1. StillDue(w, n)
        BY <3>0, <3>1, <3>2 DEF StillDue
      <4> QED
        BY <3>0, <3>1, <3>2, <4>1, <1>1, <1>3, <2>2
    <3>3. CASE m # n
      <4>1. /\ m \in todo'[v] <=> m \in todo[v]
            /\ m \in picked'[v] <=> m \in picked[v]
            /\ m \in notYet'[v] => m \in notYet[v]
            /\ lock'[m] = lock[m]
        BY <3>0, <3>3, <1>3, <2>2
      <4> QED
        BY <3>1, <4>1
    <3> QED
      BY <3>2, <3>3
  <2>6. Ranked'
    <3> SUFFICES ASSUME NEW v \in Workers, NEW m \in picked'[v], NEW k \in todo'[v]
                 PROVE  Rank[m] <= Rank[k]
      BY DEF Ranked
    <3>1. k \in todo[v]
      BY <1>3, ActorFacts
    <3>2. CASE m \in picked[v]
      BY <3>1, <3>2 DEF IInv, Ranked
    <3>3. CASE m \notin picked[v]
      <4>1. v = w /\ m = n
        BY <3>3, <2>2, <2>a, ActorFacts
      <4> QED
        BY <4>1, <3>1, <1>1
    <3> QED
      BY <3>2, <3>3
  <2> QED
    BY <1>2, <1>4, <2>3, <2>4, <2>5, <2>6 DEF IInv
<1>6. CASE ~OpenToClaim(n)
  <2>1. UNCHANGED <<lock, picked, free>>
    BY <1>6
  <2>2. ChoicesStand' /\ Phases' /\ Ranked'
    BY <1>1, <1>3, <2>1, ActorFacts DEF IInv, ChoicesStand, Phases, Ranked, StillDue, StillCancellable
  <2>3. n \notin free[w]
    BY <1>1, <1>6 DEF IInv, Fresh
  <2>4. Fresh'
    BY <1>1, <1>3, <2>1, <2>3, ActorFacts DEF IInv, Fresh, StillDue, OpenToClaim
  <2> QED
    BY <1>2, <1>4, <2>2, <2>4 DEF IInv
<1> QED
  BY <1>5, <1>6

LEMMA LockForCancelStep ==
  ASSUME IInv, NEW c \in Cancellers, LockForCancel(c)
  PROVE  IInv'
<1> PICK n \in todo[c] :
       /\ lock[n] = NoOne
       /\ todo' = [todo EXCEPT ![c] = @ \ {n}]
       /\ Lock(c, n, StillCancellable(n))
  BY DEF LockForCancel
<1>1. /\ pc[c] = "scan" /\ n \in Notifications /\ c \in Actors
      /\ UNCHANGED <<status, attempts, noting, pc, notYet, claimed, seen>>
  BY ActorFacts DEF LockForCancel, IInv, TypeOK
<1>2. TypeOK'
  <2>1. /\ status' \in [Notifications -> Statuses \cup {"absent"}]
        /\ UNCHANGED <<attempts, future, noting, pc, notYet, claimed, seen, troubles>>
    BY <1>1 DEF LockForCancel, IInv, TypeOK
  <2>2. todo' \in [Actors -> SUBSET Notifications]
    BY <1>1 DEF IInv, TypeOK
  <2>3. /\ lock' \in [Notifications -> Actors \cup {NoOne}]
        /\ picked' \in [Actors -> SUBSET Notifications]
        /\ free' \in [Workers -> SUBSET Notifications]
    <3>1. Lock(c, n, StillCancellable(n)) /\ StillCancellable(n) \in BOOLEAN /\ TypeOK
      BY DEF StillCancellable, IInv
    <3> QED
      BY <3>1, <1>1, LockTypes
  <2> QED
    BY <2>1, <2>2, <2>3 DEF IInv, TypeOK
<1>3. todo'[c] = todo[c] \ {n} /\ \A a \in Actors \ {c} : todo'[a] = todo[a]
  BY <1>1 DEF IInv, TypeOK
<1>4. ExclusiveClaims' /\ Rows'
  BY <1>1 DEF IInv, ExclusiveClaims, Rows
<1>5. \A w \in Workers : todo'[w] = todo[w]
  BY <1>3, ActorFacts
<1>6. Takes(c, n, StillCancellable(n)) /\ StillCancellable(n) \in BOOLEAN
  BY <1>1 DEF Takes, StillCancellable
<1>7. /\ \A b \in Actors, m \in Notifications : m \in picked'[b] <=> m \in picked[b] \/ (StillCancellable(n) /\ b = c /\ m = n)
      /\ lock'[n] = c /\ \A m \in Notifications \ {n} : lock'[m] = lock[m]
      /\ \A v \in Workers : \A m \in free'[v] : m \in free[v] /\ (m = n => v = c)
      /\ \A b \in Actors : \A m \in picked'[b] : lock'[m] = b
  BY <1>1, <1>6, TakesFacts
<1>8. \A b \in Actors : picked'[b] \subseteq Notifications /\ picked[b] \subseteq Notifications
  BY <1>2 DEF IInv, TypeOK
<1>9. ASSUME NEW w \in Workers PROVE picked'[w] = picked[w]
  <2>1. w \in Actors /\ w # c
    BY ActorFacts
  <2>2. \A m \in Notifications : m \in picked'[w] <=> m \in picked[w]
    BY <2>1, <1>7
  <2>3. picked'[w] \subseteq Notifications /\ picked[w] \subseteq Notifications
    BY <2>1, <1>8
  <2> HIDE <1>7, <1>8
  <2> QED
    BY <2>2, <2>3
<1>10. ChoicesStand'
  <2>1. ASSUME NEW d \in Cancellers, NEW m \in picked'[d] PROVE status[m] \in Cancellable
    <3>1. m \in picked[d] \/ StillCancellable(m)
      BY <1>7, <1>8, ActorFacts
    <3> QED
      BY <3>1 DEF IInv, ChoicesStand, StillCancellable
  <2> QED
    BY <1>1, <1>7, <1>9, <2>1 DEF IInv, ChoicesStand, StillDue, StillCancellable
<1>11. Phases'
  <2>1. ASSUME NEW a \in Actors, pc[a] # "scan" PROVE todo'[a] = {} /\ picked'[a] = {}
    <3>1. todo[a] = {} /\ picked[a] = {} /\ a # c
      BY <2>1, <1>1 DEF IInv, Phases
    <3> QED
      BY <3>1, <1>3, <1>7, <1>8
  <2> QED
    BY <1>1, <1>5, <2>1 DEF IInv, Phases
<1>12. Fresh'
  <2>1. \A v \in Workers : \A m \in free'[v] :
          m \in free[v] /\ m \in Notifications /\ lock'[m] = lock[m]
    BY <1>7, ActorFacts DEF IInv, TypeOK
  <2> QED
    BY <1>1, <1>5, <1>9, <2>1 DEF IInv, Fresh, StillDue, OpenToClaim
<1>13. Ranked'
  BY <1>5, <1>9 DEF IInv, Ranked
<1> QED
  BY <1>2, <1>4, <1>10, <1>11, <1>12, <1>13 DEF IInv

\* The statement of a is over: its rows are unlocked, those of the others are not.
LEMMA EndFacts ==
  ASSUME IInv, NEW a \in Actors, NEW next \in {"idle", "work", "done"}, EndStatement(a, next)
  PROVE  /\ lock' \in [Notifications -> Actors \cup {NoOne}]
         /\ pc' \in [Actors -> {"idle", "scan", "work", "done"}]
         /\ todo' \in [Actors -> SUBSET Notifications]
         /\ picked' \in [Actors -> SUBSET Notifications]
         /\ pc'[a] = next /\ todo'[a] = {} /\ picked'[a] = {}
         /\ \A b \in Actors \ {a} : pc'[b] = pc[b] /\ todo'[b] = todo[b] /\ picked'[b] = picked[b]
         /\ \A n \in Notifications : lock'[n] = lock[n] \/ (lock[n] = a /\ lock'[n] = NoOne)
         /\ \A b \in Actors : \A n \in picked'[b] : lock'[n] = b /\ n \notin picked[a]
<1>1. /\ lock' \in [Notifications -> Actors \cup {NoOne}]
      /\ \A n \in Notifications : lock'[n] = IF lock[n] = a THEN NoOne ELSE lock[n]
  BY DEF EndStatement, Unlocked, IInv, TypeOK
<1>2. /\ pc' \in [Actors -> {"idle", "scan", "work", "done"}]
      /\ todo' \in [Actors -> SUBSET Notifications]
      /\ picked' \in [Actors -> SUBSET Notifications]
      /\ pc'[a] = next /\ todo'[a] = {} /\ picked'[a] = {}
      /\ \A b \in Actors \ {a} : pc'[b] = pc[b] /\ todo'[b] = todo[b] /\ picked'[b] = picked[b]
  BY DEF EndStatement, IInv, TypeOK
<1>3. ASSUME NEW b \in Actors, NEW n \in picked'[b] PROVE lock'[n] = b /\ n \notin picked[a]
  <2>1. b # a /\ n \in picked[b] /\ n \in Notifications
    BY <1>2
  <2>2. lock[n] = b /\ (n \in picked[a] => lock[n] = a)
    BY <2>1 DEF IInv, ChoicesStand
  <2> QED
    BY <1>1, <2>1, <2>2
<1> QED
  BY <1>1, <1>2, <1>3

\* A statement that has ended, and what it wrote into its rows, leave the other statements alone.
LEMMA EndKeeps ==
  ASSUME IInv, NEW a \in Actors, NEW next \in {"idle", "work", "done"}, EndStatement(a, next),
         \A n \in Notifications : n \notin picked[a] => status'[n] = status[n],
         UNCHANGED noting,
         \A w \in Workers \ {a} : notYet'[w] = notYet[w] /\ free'[w] = free[w],
         a \in Workers => notYet'[a] = {} /\ free'[a] = {}
  PROVE  ChoicesStand' /\ Fresh' /\ Ranked'
<1>1. /\ todo'[a] = {} /\ picked'[a] = {}
      /\ \A b \in Actors \ {a} : todo'[b] = todo[b] /\ picked'[b] = picked[b]
      /\ \A n \in Notifications : lock'[n] = lock[n] \/ (lock[n] = a /\ lock'[n] = NoOne)
      /\ \A b \in Actors : \A n \in picked'[b] : lock'[n] = b /\ n \notin picked[a]
  BY EndFacts
<1>2. \A b \in Actors : picked[b] \subseteq Notifications
  BY DEF IInv, TypeOK
<1>3. ChoicesStand'
  <2>1. ASSUME NEW w \in Workers, NEW n \in picked'[w] PROVE status'[n] \in Waiting /\ n \notin notYet'[w]
    <3>1. w # a /\ w \in Actors /\ n \in picked[w] /\ n \in Notifications /\ n \notin picked[a]
      BY <1>1, <1>2, ActorFacts
    <3> QED
      BY <3>1 DEF IInv, ChoicesStand, StillDue
  <2>2. ASSUME NEW c \in Cancellers, NEW n \in picked'[c] PROVE status'[n] \in Cancellable
    <3>1. c # a /\ c \in Actors /\ n \in picked[c] /\ n \in Notifications /\ n \notin picked[a]
      BY <1>1, <1>2, ActorFacts
    <3> QED
      BY <3>1 DEF IInv, ChoicesStand, StillCancellable
  <2> QED
    BY <1>1, <2>1, <2>2 DEF ChoicesStand, StillDue, StillCancellable
<1>4. Fresh'
  <2> SUFFICES ASSUME NEW w \in Workers, NEW n \in free'[w]
               PROVE  /\ n \in todo'[w] \cup picked'[w]
                      /\ status'[n] \in Waiting /\ n \notin notYet'[w]
                      /\ n \in todo'[w] => lock'[n] = NoOne /\ n \notin noting
    BY DEF Fresh, StillDue, OpenToClaim
  <2>1. w # a /\ w \in Actors /\ n \in free[w] /\ n \in Notifications
    BY ActorFacts DEF IInv, TypeOK
  <2>2. /\ n \in todo[w] \cup picked[w] /\ status[n] \in Waiting /\ n \notin notYet[w]
        /\ n \in todo[w] => lock[n] = NoOne /\ n \notin noting
    BY <2>1 DEF IInv, Fresh, StillDue, OpenToClaim
  <2>3. n \notin picked[a]
    BY <2>1, <2>2, ActorFacts DEF IInv, ChoicesStand, Actors
  <2> QED
    BY <1>1, <2>1, <2>2, <2>3
<1>5. Ranked'
  <2> SUFFICES ASSUME NEW w \in Workers, NEW m \in picked'[w], NEW n \in todo'[w]
               PROVE  Rank[m] <= Rank[n]
    BY DEF Ranked
  <2>1. w # a /\ m \in picked[w] /\ n \in todo[w]
    BY <1>1, ActorFacts
  <2> QED
    BY <2>1 DEF IInv, Ranked
<1> QED
  BY <1>3, <1>4, <1>5

\* The rows of a claim that commits are waiting and in nobody's hands.
LEMMA PickedFacts ==
  ASSUME IInv, NEW w \in Workers
  PROVE  /\ picked[w] \in SUBSET Notifications
         /\ \A n \in picked[w] : status[n] \in Waiting /\ attempts[n] < MaxAttempts
         /\ \A n \in picked[w] : \A v \in Workers : n \notin claimed[v]
<1>1. picked[w] \in SUBSET Notifications
  BY ActorFacts DEF IInv, TypeOK
<1>2. \A n \in picked[w] : status[n] \in Waiting
  BY DEF IInv, ChoicesStand, StillDue
<1> QED
  BY <1>1, <1>2 DEF IInv, Rows, ExclusiveClaims, Waiting

LEMMA EndClaimStep ==
  ASSUME IInv, NEW w \in Workers, CommitClaim(w) \/ LoseClaim(w) \/ FailClaim(w)
  PROVE  IInv'
<1> w \in Actors
  BY ActorFacts
<1>1. PICK next \in {"idle", "work", "done"} :
        /\ EndClaim(w, next)
        /\ next = "work" \/ claimed'[w] = {}
  <2>1. CASE CommitClaim(w)
    <3>1. claimed'[w] = picked[w]
      BY <2>1 DEF CommitClaim, IInv, TypeOK
    <3>2. EndClaim(w, IF picked[w] = {} THEN "idle" ELSE "work")
      BY <2>1 DEF CommitClaim
    <3>3. CASE picked[w] = {}
      <4>1. EndClaim(w, "idle")
        BY <3>2, <3>3
      <4> QED
        BY <4>1, <3>1, <3>3
    <3>4. CASE picked[w] # {}
      <4>1. EndClaim(w, "work")
        BY <3>2, <3>4
      <4> QED
        BY <4>1
    <3> QED
      BY <3>3, <3>4
  <2>2. CASE LoseClaim(w) \/ FailClaim(w)
    BY <2>2 DEF LoseClaim, FailClaim, IInv, Phases
  <2> QED
    BY <2>1, <2>2
<1>2. /\ EndStatement(w, next)
      /\ notYet' = [notYet EXCEPT ![w] = {}] /\ free' = [free EXCEPT ![w] = {}]
      /\ UNCHANGED <<attempts, future, noting>>
  BY <1>1 DEF EndClaim
<1>3. \/ status' = Moved(picked[w], "processing")
      \/ status' = status
  BY DEF CommitClaim, LoseClaim, FailClaim
<1>4. /\ status' \in [Notifications -> Statuses \cup {"absent"}]
      /\ \A n \in Notifications : n \notin picked[w] => status'[n] = status[n]
      /\ \A n \in Notifications : status'[n] = status[n] \/ status'[n] = "processing"
  BY <1>3 DEF Moved, IInv, TypeOK, Statuses
<1>5. /\ notYet'[w] = {} /\ free'[w] = {}
      /\ \A v \in Workers \ {w} : notYet'[v] = notYet[v] /\ free'[v] = free[v]
      /\ notYet' \in [Workers -> SUBSET Notifications] /\ free' \in [Workers -> SUBSET Notifications]
  BY <1>2 DEF IInv, TypeOK
<1>6. ChoicesStand' /\ Fresh' /\ Ranked'
  BY <1>2, <1>4, <1>5, EndKeeps
<1>7. /\ lock' \in [Notifications -> Actors \cup {NoOne}]
      /\ pc' \in [Actors -> {"idle", "scan", "work", "done"}]
      /\ todo' \in [Actors -> SUBSET Notifications] /\ picked' \in [Actors -> SUBSET Notifications]
      /\ pc'[w] = next /\ todo'[w] = {} /\ picked'[w] = {}
      /\ \A b \in Actors \ {w} : pc'[b] = pc[b] /\ todo'[b] = todo[b] /\ picked'[b] = picked[b]
  BY <1>2, EndFacts
<1>8. /\ claimed' \in [Workers -> SUBSET Notifications]
      /\ seen' \in [Workers -> [Notifications -> 0..MaxAttempts]]
      /\ \A v \in Workers \ {w} : claimed'[v] = claimed[v] /\ seen'[v] = seen[v]
      /\ \A n \in claimed'[w] : n \in picked[w] /\ status'[n] = "processing" /\ seen'[w][n] = attempts[n]
  <2>1. CASE CommitClaim(w)
    <3>1. /\ claimed' = [claimed EXCEPT ![w] = picked[w]]
          /\ seen' = [seen EXCEPT ![w] = [n \in Notifications |-> IF n \in picked[w] THEN attempts[n] ELSE 0]]
          /\ status' = Moved(picked[w], "processing")
      BY <2>1 DEF CommitClaim
    <3>2. picked[w] \in SUBSET Notifications
      BY PickedFacts
    <3>3. [n \in Notifications |-> IF n \in picked[w] THEN attempts[n] ELSE 0] \in [Notifications -> 0..MaxAttempts]
      BY LimitsAssumption DEF IInv, TypeOK
    <3> QED
      BY <3>1, <3>2, <3>3 DEF IInv, TypeOK, Moved
  <2>2. CASE LoseClaim(w) \/ FailClaim(w)
    <3>1. claimed[w] = {} /\ UNCHANGED <<claimed, seen>>
      BY <2>2 DEF LoseClaim, FailClaim, IInv, Phases
    <3> QED
      BY <3>1 DEF IInv, TypeOK
  <2> QED
    BY <2>1, <2>2
<1>9. TypeOK'
  <2>1. troubles' \in 0..MaxTroubles
    BY LimitsAssumption DEF CommitClaim, LoseClaim, FailClaim, Trouble, IInv, TypeOK
  <2> QED
    BY <1>2, <1>4, <1>5, <1>7, <1>8, <2>1 DEF IInv, TypeOK
<1>10. ExclusiveClaims'
  <2>1. ASSUME NEW v \in Workers, NEW n \in claimed'[v]
        PROVE  /\ status'[n] \in {"processing", "cancelled"}
               /\ seen'[v][n] = attempts[n] /\ attempts[n] < MaxAttempts
    <3>1. CASE v = w
      BY <2>1, <3>1, <1>8, PickedFacts
    <3>2. CASE v # w
      BY <2>1, <3>2, <1>4, <1>8 DEF IInv, TypeOK, ExclusiveClaims
    <3> QED
      BY <3>1, <3>2
  <2>2. ASSUME NEW u \in Workers, NEW v \in Workers, u # v, NEW n \in claimed'[u], n \in claimed'[v]
        PROVE  FALSE
    <3>1. CASE u = w
      BY <2>2, <3>1, <1>8, PickedFacts
    <3>2. CASE v = w
      BY <2>2, <3>2, <1>8, PickedFacts
    <3>3. CASE u # w /\ v # w
      BY <2>2, <3>3, <1>8 DEF IInv, ExclusiveClaims
    <3> QED
      BY <3>1, <3>2, <3>3
  <2> QED
    BY <1>2, <2>1, <2>2 DEF ExclusiveClaims
<1>11. Phases'
  <2>1. \A a \in Actors : pc'[a] # "scan" => todo'[a] = {} /\ picked'[a] = {}
    BY <1>7 DEF IInv, Phases
  <2>2. \A v \in Workers : pc'[v] # "work" => claimed'[v] = {}
    BY <1>1, <1>7, <1>8, ActorFacts DEF IInv, Phases
  <2>3. \A v \in Workers : notYet'[v] \subseteq todo'[v]
    BY <1>5, <1>7, ActorFacts DEF IInv, Phases
  <2> QED
    BY <2>1, <2>2, <2>3 DEF Phases
<1>12. Rows'
  BY <1>2, <1>4 DEF IInv, Rows, Waiting
<1> QED
  BY <1>6, <1>9, <1>10, <1>11, <1>12 DEF IInv

LEMMA EndCancelStep ==
  ASSUME IInv, NEW c \in Cancellers, CommitCancel(c) \/ FailCancel(c)
  PROVE  IInv'
<1> c \in Actors /\ c \notin Workers
  BY ActorFacts
<1>1. EndStatement(c, "done") /\ UNCHANGED <<attempts, noting, notYet, claimed, seen, free>>
  BY DEF CommitCancel, FailCancel
<1>2. \/ status' = Moved(picked[c], "cancelled")
      \/ status' = status
  BY DEF CommitCancel, FailCancel
<1>3. /\ status' \in [Notifications -> Statuses \cup {"absent"}]
      /\ \A n \in Notifications : n \notin picked[c] => status'[n] = status[n]
      /\ \A n \in Notifications : status'[n] = status[n] \/ status'[n] = "cancelled"
  BY <1>2 DEF Moved, IInv, TypeOK, Statuses
<1>4. ChoicesStand' /\ Fresh' /\ Ranked'
  <2>1. \A w \in Workers \ {c} : notYet'[w] = notYet[w] /\ free'[w] = free[w]
    BY <1>1
  <2>2. "done" \in {"idle", "work", "done"}
    OBVIOUS
  <2> QED
    BY <1>1, <1>3, <2>1, <2>2, EndKeeps
<1>5. /\ lock' \in [Notifications -> Actors \cup {NoOne}]
      /\ pc' \in [Actors -> {"idle", "scan", "work", "done"}]
      /\ todo' \in [Actors -> SUBSET Notifications] /\ picked' \in [Actors -> SUBSET Notifications]
      /\ pc'[c] = "done" /\ todo'[c] = {} /\ picked'[c] = {}
      /\ \A b \in Actors \ {c} : pc'[b] = pc[b] /\ todo'[b] = todo[b] /\ picked'[b] = picked[b]
  <2>1. "done" \in {"idle", "work", "done"}
    OBVIOUS
  <2> QED
    BY <1>1, <2>1, EndFacts
<1>6. TypeOK'
  <2>1. troubles' \in 0..MaxTroubles /\ future' \subseteq Notifications
    BY LimitsAssumption DEF CommitCancel, FailCancel, Trouble, IInv, TypeOK
  <2> QED
    BY <1>1, <1>3, <1>5, <2>1 DEF IInv, TypeOK
<1>7. ExclusiveClaims'
  BY <1>1, <1>3 DEF IInv, TypeOK, ExclusiveClaims
<1>8. Phases'
  <2>1. \A a \in Actors : pc'[a] # "scan" => todo'[a] = {} /\ picked'[a] = {}
    BY <1>5 DEF IInv, Phases
  <2>2. \A w \in Workers : w \in Actors /\ w # c
    BY ActorFacts
  <2> QED
    BY <1>1, <1>5, <2>1, <2>2 DEF IInv, Phases
<1>9. Rows'
  BY <1>1, <1>3 DEF IInv, Rows, Waiting
<1> QED
  BY <1>4, <1>6, <1>7, <1>8, <1>9 DEF IInv

LEMMA BeginCancelStep ==
  ASSUME IInv, NEW c \in Cancellers, BeginCancel(c)
  PROVE  IInv'
<1> c \in Actors /\ c \notin Workers
  BY ActorFacts
<1>1. /\ pc[c] = "idle"
      /\ UNCHANGED <<status, attempts, future, lock, noting, picked, notYet, claimed, seen, free, troubles>>
  BY DEF BeginCancel
<1>2. /\ pc' \in [Actors -> {"idle", "scan", "work", "done"}]
      /\ todo' \in [Actors -> SUBSET Notifications]
      /\ pc'[c] = "scan"
      /\ \A a \in Actors \ {c} : pc'[a] = pc[a] /\ todo'[a] = todo[a]
  BY AskedAssumption DEF BeginCancel, IInv, TypeOK
<1>3. \A w \in Workers : pc'[w] = pc[w] /\ todo'[w] = todo[w]
  BY <1>2, ActorFacts
<1>4. TypeOK'
  BY <1>1, <1>2 DEF IInv, TypeOK
<1>5. ExclusiveClaims' /\ ChoicesStand' /\ Rows' /\ Fresh' /\ Ranked'
  BY <1>1, <1>3 DEF IInv, ExclusiveClaims, ChoicesStand, Rows, Fresh, Ranked, StillDue, StillCancellable, OpenToClaim
<1>6. Phases'
  BY <1>1, <1>2, <1>3 DEF IInv, Phases
<1> QED
  BY <1>4, <1>5, <1>6 DEF IInv

\* A worker lets a row go that nobody else has, with or without a write.
LEMMA LetGoFacts ==
  ASSUME IInv, NEW w \in Workers, NEW n \in Notifications, LetGo(w, n)
  PROVE  /\ status[n] \in {"processing", "cancelled"}
         /\ seen[w][n] = attempts[n] /\ attempts[n] < MaxAttempts
         /\ claimed' \in [Workers -> SUBSET Notifications]
         /\ seen' \in [Workers -> [Notifications -> 0..MaxAttempts]]
         /\ pc' \in [Actors -> {"idle", "scan", "work", "done"}]
         /\ claimed'[w] = claimed[w] \ {n} /\ \A v \in Workers \ {w} : claimed'[v] = claimed[v]
         /\ \A v \in Workers : \A m \in claimed'[v] :
              m \in claimed[v] /\ m # n /\ m \in Notifications /\ seen'[v][m] = seen[v][m]
         /\ pc[w] = "work" /\ pc'[w] # "scan" /\ \A a \in Actors \ {w} : pc'[a] = pc[a]
         /\ pc'[w] # "work" => claimed'[w] = {}
<1> w \in Actors
  BY ActorFacts
<1>1. /\ pc[w] = "work" /\ n \in claimed[w]
      /\ claimed' = [claimed EXCEPT ![w] = @ \ {n}]
      /\ seen' = [seen EXCEPT ![w][n] = 0]
      /\ pc' = [pc EXCEPT ![w] = IF claimed[w] = {n} THEN "idle" ELSE "work"]
  BY DEF LetGo
<1>2. /\ status[n] \in {"processing", "cancelled"}
      /\ seen[w][n] = attempts[n] /\ attempts[n] < MaxAttempts
  BY <1>1 DEF IInv, ExclusiveClaims
<1>3. /\ claimed' \in [Workers -> SUBSET Notifications]
      /\ claimed'[w] = claimed[w] \ {n} /\ \A v \in Workers \ {w} : claimed'[v] = claimed[v]
  BY <1>1 DEF IInv, TypeOK
<1>4. /\ seen' \in [Workers -> [Notifications -> 0..MaxAttempts]]
      /\ \A v \in Workers, m \in Notifications : m # n => seen'[v][m] = seen[v][m]
  BY <1>1, LimitsAssumption DEF IInv, TypeOK
<1>5. /\ pc' \in [Actors -> {"idle", "scan", "work", "done"}]
      /\ pc'[w] # "scan" /\ \A a \in Actors \ {w} : pc'[a] = pc[a]
  BY <1>1 DEF IInv, TypeOK
<1>6. pc'[w] # "work" => claimed'[w] = {}
  <2>1. CASE claimed[w] = {n}
    BY <2>1, <1>3
  <2>2. CASE claimed[w] # {n}
    BY <2>2, <1>1 DEF IInv, TypeOK
  <2> QED
    BY <2>1, <2>2
<1>7. ASSUME NEW v \in Workers, NEW m \in claimed'[v]
      PROVE  m \in claimed[v] /\ m # n /\ m \in Notifications
  <2>1. CASE v = w
    BY <1>3, <1>7, <2>1 DEF IInv, TypeOK
  <2>2. CASE v # w
    BY <1>1, <1>3, <1>7, <2>2 DEF IInv, TypeOK, ExclusiveClaims
  <2> QED
    BY <2>1, <2>2
<1>8. \A v \in Workers : \A m \in claimed'[v] :
        m \in claimed[v] /\ m # n /\ m \in Notifications /\ seen'[v][m] = seen[v][m]
  BY <1>4, <1>7
<1> QED
  BY <1>1, <1>2, <1>3, <1>4, <1>5, <1>6, <1>8

LEMMA LetGoPhases ==
  ASSUME IInv, NEW w \in Workers, NEW n \in Notifications, LetGo(w, n),
         UNCHANGED <<todo, picked>>, \A v \in Workers : notYet'[v] \subseteq todo[v]
  PROVE  Phases'
<1>1. /\ claimed'[w] = claimed[w] \ {n} /\ \A v \in Workers \ {w} : claimed'[v] = claimed[v]
      /\ pc[w] = "work" /\ pc'[w] # "scan" /\ \A a \in Actors \ {w} : pc'[a] = pc[a]
      /\ pc'[w] # "work" => claimed'[w] = {}
  BY LetGoFacts
<1>2. \A a \in Actors : pc'[a] # "scan" => todo[a] = {} /\ picked[a] = {}
  BY <1>1 DEF IInv, Phases
<1>3. \A v \in Workers : pc'[v] # "work" => claimed'[v] = {}
  BY <1>1, ActorFacts DEF IInv, Phases
<1> QED
  BY <1>2, <1>3 DEF Phases

LEMMA DropStep ==
  ASSUME IInv, NEW w \in Workers, NEW n \in Notifications, Drop(w, n)
  PROVE  IInv'
<1>1. /\ LetGo(w, n)
      /\ UNCHANGED <<status, attempts, future, lock, noting, todo, picked, notYet, free>>
  BY DEF Drop
<1>2. /\ claimed' \in [Workers -> SUBSET Notifications]
      /\ seen' \in [Workers -> [Notifications -> 0..MaxAttempts]]
      /\ pc' \in [Actors -> {"idle", "scan", "work", "done"}]
      /\ \A v \in Workers : \A m \in claimed'[v] :
           m \in claimed[v] /\ m # n /\ m \in Notifications /\ seen'[v][m] = seen[v][m]
  BY <1>1, LetGoFacts
<1>3. TypeOK'
  <2>1. troubles' \in 0..MaxTroubles
    BY LimitsAssumption DEF Drop, Trouble, IInv, TypeOK
  <2> QED
    BY <1>1, <1>2, <2>1 DEF IInv, TypeOK
<1>4. ExclusiveClaims'
  BY <1>1, <1>2 DEF IInv, ExclusiveClaims
<1>5. Phases'
  BY <1>1, LetGoPhases DEF IInv, Phases
<1>6. ChoicesStand' /\ Rows' /\ Fresh' /\ Ranked'
  BY <1>1 DEF IInv, ChoicesStand, Rows, Fresh, Ranked, StillDue, StillCancellable, OpenToClaim
<1> QED
  BY <1>3, <1>4, <1>5, <1>6 DEF IInv

\* The outcome of a try never follows on the last one, except as an end.
LEMMA OutcomesFacts ==
  ASSUME NEW attempt \in 1..MaxAttempts, NEW to \in Outcomes(attempt)
  PROVE  /\ to \in Final \cup {"scheduled"}
         /\ to = "scheduled" => attempt < MaxAttempts
         /\ to = "dead_letter" => attempt = MaxAttempts
BY VerdictsAssumption, LimitsAssumption DEF Outcomes, Final

LEMMA SettleStep ==
  ASSUME IInv, NEW w \in Workers, NEW n \in Notifications, Settle(w, n)
  PROVE  IInv'
<1>1. /\ LetGo(w, n) /\ lock[n] = NoOne
      /\ attempts' = [attempts EXCEPT ![n] = @ + 1]
      /\ UNCHANGED <<lock, noting, todo, picked, free, troubles>>
  BY DEF Settle
<1>2. PICK to \in Outcomes(seen[w][n] + 1) :
        /\ status' = [status EXCEPT ![n] = to]
        /\ future' = IF to = "scheduled" THEN future \cup {n} ELSE future
        /\ notYet' = [v \in Workers |-> IF n \in todo[v] /\ to = "scheduled" THEN notYet[v] \cup {n} ELSE notYet[v]]
  BY DEF Settle
<1>3. /\ status[n] \in {"processing", "cancelled"}
      /\ seen[w][n] = attempts[n] /\ attempts[n] < MaxAttempts
      /\ claimed' \in [Workers -> SUBSET Notifications]
      /\ seen' \in [Workers -> [Notifications -> 0..MaxAttempts]]
      /\ pc' \in [Actors -> {"idle", "scan", "work", "done"}]
      /\ \A v \in Workers : \A m \in claimed'[v] :
           m \in claimed[v] /\ m # n /\ m \in Notifications /\ seen'[v][m] = seen[v][m]
  BY <1>1, LetGoFacts
<1>4. /\ to \in Final \cup {"scheduled"}
      /\ to = "scheduled" => attempts[n] + 1 < MaxAttempts
  <2>1. attempts[n] \in Nat
    BY DEF IInv, TypeOK
  <2>2. seen[w][n] + 1 \in 1..MaxAttempts
    BY <1>3, <2>1, LimitsAssumption
  <2> QED
    BY <1>2, <1>3, <2>2, OutcomesFacts
<1>5. /\ status'[n] = to /\ \A m \in Notifications \ {n} : status'[m] = status[m] /\ attempts'[m] = attempts[m]
      /\ attempts'[n] = attempts[n] + 1
      /\ status' \in [Notifications -> Statuses \cup {"absent"}]
      /\ attempts' \in [Notifications -> 0..MaxAttempts]
  <2>1. to \in Statuses \cup {"absent"}
    BY <1>4 DEF Statuses, Final, Waiting
  <2>2. /\ status'[n] = to /\ \A m \in Notifications \ {n} : status'[m] = status[m]
        /\ status' \in [Notifications -> Statuses \cup {"absent"}]
    BY <1>2, <2>1 DEF IInv, TypeOK
  <2>3. attempts[n] + 1 \in 0..MaxAttempts
    BY <1>3, LimitsAssumption DEF IInv, TypeOK
  <2>4. /\ attempts'[n] = attempts[n] + 1 /\ \A m \in Notifications \ {n} : attempts'[m] = attempts[m]
        /\ attempts' \in [Notifications -> 0..MaxAttempts]
    BY <1>1, <2>3 DEF IInv, TypeOK
  <2> QED
    BY <2>2, <2>4
<1>6. /\ notYet' \in [Workers -> SUBSET Notifications] /\ future' \subseteq Notifications
      /\ \A v \in Workers : notYet'[v] \subseteq todo[v]
      /\ \A v \in Workers : \A m \in notYet'[v] : m \in notYet[v] \/ m = n
  BY <1>2 DEF IInv, TypeOK, Phases
<1>7. TypeOK'
  BY <1>1, <1>3, <1>5, <1>6 DEF IInv, TypeOK
<1>8. ExclusiveClaims'
  BY <1>3, <1>5 DEF IInv, ExclusiveClaims
<1>9. Phases'
  BY <1>1, <1>6, LetGoPhases
<1>10. Rows'
  BY <1>4, <1>5, LimitsAssumption DEF IInv, TypeOK, Rows, Final, Waiting
<1>11. \A a \in Actors : n \notin picked[a] /\ picked[a] \subseteq Notifications
  BY <1>1, ActorFacts DEF IInv, TypeOK, ChoicesStand, Actors
<1>12. \A v \in Workers : n \notin free[v] /\ free[v] \subseteq Notifications
  BY <1>3 DEF IInv, TypeOK, Fresh, StillDue, Waiting
<1>13. ChoicesStand'
  BY <1>1, <1>5, <1>6, <1>11, ActorFacts DEF IInv, ChoicesStand, StillDue, StillCancellable
<1>14. Fresh'
  BY <1>1, <1>5, <1>6, <1>12 DEF IInv, Fresh, StillDue, OpenToClaim
<1>15. Ranked'
  BY <1>1 DEF IInv, Ranked
<1> QED
  BY <1>7, <1>8, <1>9, <1>10, <1>13, <1>14, <1>15 DEF IInv

LEMMA InvStep == IInv /\ [Next]_vars => IInv'
<1> SUFFICES ASSUME IInv, [Next]_vars PROVE IInv'
  OBVIOUS
<1>1. ASSUME NEW n \in Notifications, Insert(n) \/ BecomeDue(n) \/ BeginEvent(n) \/ EndEvent(n)
      PROVE  IInv'
  BY <1>1, InsertStep, BesideStep
<1>2. ASSUME NEW w \in Workers, BeginClaim(w) \/ Claiming(w) \/ LoseClaim(w) \/ FailClaim(w)
      PROVE  IInv'
  BY <1>2, BeginClaimStep, ScanStep, EndClaimStep DEF Claiming
<1>3. ASSUME NEW w \in Workers, NEW n \in Notifications, Settle(w, n) \/ Drop(w, n)
      PROVE  IInv'
  BY <1>3, SettleStep, DropStep
<1>4. ASSUME NEW c \in Cancellers, BeginCancel(c) \/ Cancelling(c) \/ FailCancel(c)
      PROVE  IInv'
  BY <1>4, BeginCancelStep, LockForCancelStep, EndCancelStep DEF Cancelling
<1>5. CASE UNCHANGED vars
  BY <1>5 DEF vars, IInv, TypeOK, ExclusiveClaims, ChoicesStand, Phases, Rows, Fresh, Ranked,
       StillDue, StillCancellable, OpenToClaim
<1> QED
  BY <1>1, <1>2, <1>3, <1>4, <1>5 DEF Next

(***************************************************************************)
(* The invariant the others follow from.                                   *)
(***************************************************************************)
THEOREM Invariance == Spec => []IInv
BY InitStep, InvStep, PTL DEF Spec

(***************************************************************************)
(* Every variable stays in its type: among others, no row is ever tried    *)
(* more often than max_attempts.                                           *)
(***************************************************************************)
THEOREM TypeCorrect == Spec => []TypeOK
<1>1. IInv => TypeOK
  BY DEF IInv
<1> QED
  BY Invariance, <1>1, PTL

(***************************************************************************)
(* However many claims, cancels and writes overlap, a row is in the hands  *)
(* of one worker at most, who knows its attempts.                          *)
(***************************************************************************)
THEOREM ClaimsAreExclusive == Spec => []ExclusiveClaims
<1>1. IInv => ExclusiveClaims
  BY DEF IInv
<1> QED
  BY Invariance, <1>1, PTL

(***************************************************************************)
(* From its lock to its commit the condition of a statement holds for the  *)
(* rows it has picked.                                                     *)
(***************************************************************************)
THEOREM ChoicesAreKept == Spec => []ChoicesStand
<1>1. IInv => ChoicesStand
  BY DEF IInv
<1> QED
  BY Invariance, <1>1, PTL

(***************************************************************************)
(* A claim leaves a row behind that it could have had only when its slots  *)
(* are used up by rows that come before it or share its place.             *)
(***************************************************************************)
THEOREM ClaimsAreInOrder == Spec => []InOrder
<1>1. IInv => InOrder
  <2> SUFFICES ASSUME IInv, NEW w \in Workers, Complete(w), NEW n \in free[w] \ picked[w]
               PROVE  Cardinality(picked[w]) = Slots /\ \A m \in picked[w] : Rank[m] <= Rank[n]
    BY DEF InOrder
  <2>1. n \in todo[w]
    BY DEF IInv, Fresh
  <2> QED
    BY <2>1 DEF IInv, Ranked, Complete
<1> QED
  BY Invariance, <1>1, PTL
-----------------------------------------------------------------------------
(* Waiting for each other *)

\* Who holds a row's lock has a statement under way that has come to the row, whether it picked it or not.
Locks ==
  \A n \in Notifications : lock[n] # NoOne => pc[lock[n]] = "scan" /\ n \notin todo[lock[n]]

LEMMA LocksStart == Init => Locks
BY DEF Init, Locks

LEMMA LocksTaken ==
  ASSUME IInv, Locks, NEW a \in Actors, NEW n \in Notifications, NEW still \in BOOLEAN, Takes(a, n, still)
  PROVE  Locks'
<1>1. /\ \A b \in Actors, m \in Notifications : m \in todo'[b] <=> m \in todo[b] /\ ~(b = a /\ m = n)
      /\ lock'[n] = a /\ \A m \in Notifications \ {n} : lock'[m] = lock[m]
      /\ pc[a] = "scan" /\ pc' = pc
  <2>1. pc[a] = "scan" /\ pc' = pc
    BY DEF Takes
  <2>2. /\ \A b \in Actors, m \in Notifications : m \in todo'[b] <=> m \in todo[b] /\ ~(b = a /\ m = n)
        /\ lock'[n] = a /\ \A m \in Notifications \ {n} : lock'[m] = lock[m]
    BY TakesFacts
  <2> QED
    BY <2>1, <2>2
<1>2. \A m \in Notifications : lock[m] \in Actors \cup {NoOne}
  BY DEF IInv, TypeOK
<1>3. ASSUME NEW m \in Notifications, lock'[m] # NoOne
      PROVE  pc'[lock'[m]] = "scan" /\ m \notin todo'[lock'[m]]
  <2>1. CASE m = n
    BY <1>1, <2>1
  <2>2. CASE m # n
    BY <1>1, <1>2, <1>3, <2>2 DEF Locks
  <2> QED
    BY <2>1, <2>2
<1> QED
  BY <1>3 DEF Locks

\* A row is passed by.
LEMMA LocksPassed ==
  ASSUME IInv, Locks, NEW a \in Actors, NEW n, todo' = [todo EXCEPT ![a] = @ \ {n}], UNCHANGED <<lock, pc>>
  PROVE  Locks'
BY DEF Locks, IInv, TypeOK

\* What a does outside of its statements, and the start of one, happens without locks.
LEMMA LocksElsewhere ==
  ASSUME IInv, Locks, NEW a \in Actors, pc[a] # "scan", lock' = lock,
         \A b \in Actors \ {a} : pc'[b] = pc[b] /\ todo'[b] = todo[b]
  PROVE  Locks'
BY DEF Locks, IInv, TypeOK

LEMMA LocksEnded ==
  ASSUME IInv, Locks, NEW a \in Actors, NEW next \in {"idle", "work", "done"}, EndStatement(a, next)
  PROVE  Locks'
<1>1. \A b \in Actors \ {a} : pc'[b] = pc[b] /\ todo'[b] = todo[b]
  BY EndFacts
<1>2. \A n \in Notifications : lock'[n] # NoOne => lock'[n] = lock[n] /\ lock[n] \in Actors \ {a}
  BY DEF EndStatement, Unlocked, IInv, TypeOK
<1> QED
  BY <1>1, <1>2 DEF Locks

LEMMA LocksStep == IInv /\ Locks /\ [Next]_vars => Locks'
<1> SUFFICES ASSUME IInv, Locks, [Next]_vars PROVE Locks'
  OBVIOUS
<1>1. CASE UNCHANGED <<lock, todo, pc>>
  BY <1>1 DEF Locks
<1>2. ASSUME NEW w \in Workers, BeginClaim(w) PROVE Locks'
  <2>1. /\ w \in Actors /\ pc[w] # "scan" /\ lock' = lock
        /\ \A b \in Actors \ {w} : pc'[b] = pc[b] /\ todo'[b] = todo[b]
    BY <1>2, ActorFacts DEF BeginClaim, IInv, TypeOK
  <2> QED
    BY <2>1, LocksElsewhere
<1>3. ASSUME NEW c \in Cancellers, BeginCancel(c) PROVE Locks'
  <2>1. /\ c \in Actors /\ pc[c] # "scan" /\ lock' = lock
        /\ \A b \in Actors \ {c} : pc'[b] = pc[b] /\ todo'[b] = todo[b]
    BY <1>3, ActorFacts DEF BeginCancel, IInv, TypeOK
  <2> QED
    BY <2>1, LocksElsewhere
<1>4. ASSUME NEW w \in Workers, Scan(w) PROVE Locks'
  <2>1. w \in Actors /\ todo[w] \subseteq Notifications /\ pc[w] = "scan"
    BY <1>4, ActorFacts DEF IInv, TypeOK, Scan
  <2>2. PICK n \in todo[w] :
          /\ todo' = [todo EXCEPT ![w] = @ \ {n}]
          /\ IF OpenToClaim(n) THEN Lock(w, n, StillDue(w, n)) ELSE UNCHANGED <<lock, picked, free>>
    BY <1>4 DEF Scan, First
  <2>3. CASE OpenToClaim(n)
    <3>1. Takes(w, n, StillDue(w, n)) /\ StillDue(w, n) \in BOOLEAN
      BY <1>4, <2>1, <2>2, <2>3 DEF Takes, Scan, OpenToClaim, StillDue
    <3> QED
      BY <2>1, <2>2, <3>1, LocksTaken
  <2>4. CASE lock' = lock
    BY <1>4, <2>1, <2>2, <2>4, LocksPassed DEF Scan
  <2> QED
    BY <2>2, <2>3, <2>4
<1>5. ASSUME NEW c \in Cancellers, LockForCancel(c) PROVE Locks'
  <2>1. c \in Actors /\ todo[c] \subseteq Notifications /\ pc[c] = "scan"
    BY <1>5, ActorFacts DEF IInv, TypeOK, LockForCancel
  <2>2. PICK n \in todo[c] :
          /\ lock[n] = NoOne
          /\ todo' = [todo EXCEPT ![c] = @ \ {n}]
          /\ Lock(c, n, StillCancellable(n))
    BY <1>5 DEF LockForCancel
  <2>3. Takes(c, n, StillCancellable(n))
    BY <1>5, <2>1, <2>2 DEF Takes, LockForCancel
  <2>4. StillCancellable(n) \in BOOLEAN
    BY DEF StillCancellable
  <2> QED
    BY <2>1, <2>3, <2>4, LocksTaken
<1>6. ASSUME NEW w \in Workers, CommitClaim(w) \/ LoseClaim(w) \/ FailClaim(w) PROVE Locks'
  <2>1. \E next \in {"idle", "work", "done"} : EndStatement(w, next)
    BY <1>6 DEF CommitClaim, LoseClaim, FailClaim, EndClaim
  <2> QED
    BY <2>1, LocksEnded, ActorFacts
<1>7. ASSUME NEW c \in Cancellers, CommitCancel(c) \/ FailCancel(c) PROVE Locks'
  <2>1. EndStatement(c, "done")
    BY <1>7 DEF CommitCancel, FailCancel
  <2> QED
    BY <2>1, LocksEnded, ActorFacts
<1>8. ASSUME NEW n \in Notifications, Insert(n) \/ BecomeDue(n) \/ BeginEvent(n) \/ EndEvent(n) PROVE Locks'
  BY <1>1, <1>8 DEF Insert, BecomeDue, BeginEvent, EndEvent
<1>9. ASSUME NEW w \in Workers, NEW n \in Notifications, Settle(w, n) \/ Drop(w, n) PROVE Locks'
  <2>1. LetGo(w, n) /\ UNCHANGED <<lock, todo>>
    BY <1>9 DEF Settle, Drop
  <2>2. w \in Actors /\ pc[w] # "scan" /\ \A b \in Actors \ {w} : pc'[b] = pc[b] /\ todo'[b] = todo[b]
    BY <2>1, LetGoFacts, ActorFacts
  <2> QED
    BY <2>1, <2>2, LocksElsewhere
<1>10. UNCHANGED vars => Locks'
  BY <1>1 DEF vars
<1> QED
  BY <1>2, <1>3, <1>4, <1>5, <1>6, <1>7, <1>8, <1>9, <1>10 DEF Next, Claiming, Cancelling

(***************************************************************************)
(* Whatever workers, cancels and rows there are: a statement that waits    *)
(* waits in the end for one that can go on, or in a circle of cancels,     *)
(* which PostgreSQL breaks.                                                *)
(***************************************************************************)
THEOREM WaitingEnds == Spec => []NobodyStuck
<1>1. IInv /\ Locks => NobodyStuck
  <2> SUFFICES ASSUME IInv, Locks, NEW S \in SUBSET Actors,
                      \A a \in S : ~CanProceed(a),
                      \E a \in S : pc[a] \in {"scan", "work"},
                      \A a \in S, b \in Actors \ S : ~WaitsFor(a, b)
               PROVE  FALSE
    BY DEF NobodyStuck
  <2> DEFINE C == {c \in S \cap Cancellers : pc[c] = "scan"}
  <2>1. ASSUME NEW a \in S, pc[a] \in {"scan", "work"}
        PROVE  \E n \in Wants(a) : lock[n] \in C /\ n \notin todo[lock[n]]
    <3>1. PICK b \in Actors : WaitsFor(a, b)
      BY <2>1 DEF CanProceed
    <3>2. PICK n \in Wants(a) : lock[n] = b
      BY <3>1 DEF WaitsFor
    <3>3. n \in Notifications /\ b # NoOne
      <4>1. todo[a] \subseteq Notifications /\ (a \in Workers => claimed[a] \subseteq Notifications)
        BY DEF IInv, TypeOK
      <4> QED
        BY <3>2, <4>1, ActorFacts DEF Wants, Actors
    <3>4. n \notin todo[b] /\ pc[b] = "scan"
      BY <3>2, <3>3 DEF Locks
    <3>5. b \in S
      BY <3>1
    <3>6. b \notin Workers
      <4> SUFFICES ASSUME b \in Workers PROVE FALSE
        OBVIOUS
      <4>1. claimed[b] = {}
        BY <3>4 DEF IInv, Phases
      <4>2. CanProceed(b)
        BY <3>4, <4>1 DEF CanProceed, WaitsFor, Wants
      <4> QED
        BY <3>5, <4>2
    <3>7. b \in C
      BY <3>4, <3>5, <3>6 DEF Actors
    <3> QED
      BY <3>2, <3>4, <3>7
  <2>2. PICK c \in C : TRUE
    BY <2>1
  <2>3. ASSUME NEW d \in C PROVE \E n \in todo[d] : lock[n] \in C \ {d}
    <3>1. d \in S /\ pc[d] = "scan" /\ d \in Cancellers /\ d \notin Workers /\ d \in Actors
      BY ActorFacts
    <3>2. PICK n \in todo[d] : lock[n] \in C /\ n \notin todo[lock[n]]
      BY <2>1, <3>1 DEF Wants
    <3> QED
      BY <3>2
  <2>4. c \in S /\ pc[c] = "scan" /\ c \in Cancellers /\ C \in SUBSET Cancellers
    OBVIOUS
  <2> HIDE DEF C
  <2>5. Deadlocked(c)
    BY <2>2, <2>3, <2>4 DEF Deadlocked
  <2> QED
    BY <2>4, <2>5 DEF CanProceed
<1>2. Spec => [](IInv /\ Locks)
  BY Invariance, LocksStart, LocksStep, PTL DEF Spec
<1> QED
  BY <1>1, <1>2, PTL
-----------------------------------------------------------------------------
(* The refinement: which step of Lifecycle each step is. *)

LEMMA LifeInit == Init => Life!Init
BY DEF Init, Life!Init, Held, Life!Absent

\* Letting a row go takes it, and no other, out of the hands of all.
LEMMA HeldWithout ==
  ASSUME IInv, NEW w \in Workers, NEW n \in Notifications, LetGo(w, n)
  PROVE  n \in Held /\ Held' = Held \ {n}
<1>1. /\ n \in claimed[w] /\ claimed'[w] = claimed[w] \ {n}
      /\ \A v \in Workers \ {w} : claimed'[v] = claimed[v]
  BY LetGoFacts DEF LetGo
<1>2. \A v \in Workers \ {w} : n \notin claimed[v]
  BY <1>1 DEF IInv, ExclusiveClaims
<1> QED
  BY <1>1, <1>2 DEF Held

LEMMA LifeStep == IInv /\ [Next]_vars => [Life!Next]_(Life!vars)
<1> SUFFICES ASSUME IInv, [Next]_vars PROVE Life!Next \/ UNCHANGED Life!vars
  OBVIOUS
<1>1. ASSUME UNCHANGED <<status, attempts, claimed>> PROVE UNCHANGED Life!vars
  BY <1>1 DEF Held, Life!vars
<1>2. ASSUME NEW n \in Notifications, Insert(n) PROVE Life!Next
  <2> DEFINE st == [m \in {n} |-> IF n \in Later THEN "scheduled" ELSE "pending"]
  <2>1. Life!Accept({n}, st)
    BY <1>2 DEF Insert, Held, IInv, TypeOK, Life!Accept, Life!Move, Life!Absent, Life!Waiting
  <2>2. {n} \in SUBSET Notifications /\ st \in [{n} -> Life!Waiting]
    BY DEF Life!Waiting
  <2> QED
    BY <2>1, <2>2 DEF Life!Next
<1>3. ASSUME NEW w \in Workers, status' = Moved(picked[w], "processing"), attempts' = attempts,
             claimed' = claimed \/ claimed' = [claimed EXCEPT ![w] = picked[w]], claimed[w] = {}
      PROVE  Life!Next
  <2>1. /\ picked[w] \in SUBSET Notifications
        /\ \A n \in picked[w] : status[n] \in Life!Waiting
    BY PickedFacts DEF Waiting, Life!Waiting
  <2>2. Life!MoveAll(picked[w], "processing")
    BY <1>3 DEF Moved, Life!MoveAll, Life!Move
  <2>3. CASE claimed' = claimed
    <3>1. Held' = Held \cup {}
      BY <2>3 DEF Held
    <3>2. Life!Claim(picked[w], {})
      BY <1>3, <2>1, <2>2, <3>1 DEF Life!Claim
    <3> QED
      BY <2>1, <3>2 DEF Life!Next
  <2>4. CASE claimed' = [claimed EXCEPT ![w] = picked[w]]
    <3>1. claimed'[w] = picked[w] /\ \A v \in Workers \ {w} : claimed'[v] = claimed[v]
      BY <2>4 DEF IInv, TypeOK
    <3>2. Held' = Held \cup picked[w]
      BY <1>3, <3>1 DEF Held
    <3>3. Life!Claim(picked[w], picked[w])
      BY <1>3, <2>1, <2>2, <3>2 DEF Life!Claim
    <3> QED
      BY <2>1, <3>3 DEF Life!Next
  <2> QED
    BY <1>3, <2>3, <2>4
<1>4. ASSUME NEW w \in Workers, CommitClaim(w) \/ LoseClaim(w) PROVE Life!Next
  <2>1. claimed[w] = {}
    BY <1>4 DEF CommitClaim, LoseClaim, IInv, Phases
  <2> QED
    BY <1>4, <2>1, <1>3 DEF CommitClaim, LoseClaim, EndClaim
<1>5. ASSUME NEW w \in Workers, NEW n \in Notifications, Settle(w, n) PROVE Life!Next
  <2>1. LetGo(w, n) /\ attempts' = [attempts EXCEPT ![n] = @ + 1]
    BY <1>5 DEF Settle
  <2>2. PICK to \in Outcomes(seen[w][n] + 1) : status' = [status EXCEPT ![n] = to]
    BY <1>5 DEF Settle
  <2>3. seen[w][n] = attempts[n] /\ attempts[n] < MaxAttempts /\ attempts[n] \in Nat
    BY <2>1, LetGoFacts DEF IInv, TypeOK
  <2>4. seen[w][n] + 1 \in 1..MaxAttempts
    BY <2>3, LimitsAssumption
  <2>5. /\ to \in Life!Final \cup {"scheduled"}
        /\ to = "scheduled" => attempts[n] + 1 < MaxAttempts
        /\ to = "dead_letter" => attempts[n] + 1 = MaxAttempts
    BY <2>2, <2>3, <2>4, OutcomesFacts DEF Final, Life!Final
  <2>6. n \in Held /\ Held' = Held \ {n}
    BY <2>1, HeldWithout
  <2>7. Life!MoveAll({n}, to)
    BY <2>2 DEF IInv, TypeOK, Life!MoveAll, Life!Move
  <2>8. Life!Resolve(n, to)
    BY <2>1, <2>3, <2>5, <2>6, <2>7 DEF Life!Resolve
  <2> QED
    BY <2>5, <2>8 DEF Life!Next
<1>6. ASSUME NEW w \in Workers, NEW n \in Notifications, Drop(w, n) PROVE Life!Next
  <2>1. n \in Held /\ Held' = Held \ {n} /\ UNCHANGED <<status, attempts>>
    BY <1>6, HeldWithout DEF Drop
  <2>2. Life!Abandon({n})
    BY <2>1 DEF Life!Abandon
  <2> QED
    BY <2>2 DEF Life!Next
<1>7. ASSUME NEW c \in Cancellers, CommitCancel(c) PROVE Life!Next
  <2>1. /\ picked[c] \in SUBSET Notifications
        /\ \A n \in picked[c] : status[n] \in Life!Waiting \cup {"processing"}
    BY ActorFacts DEF IInv, TypeOK, ChoicesStand, StillCancellable, Cancellable, Waiting, Life!Waiting
  <2>2. Life!MoveAll(picked[c], "cancelled") /\ UNCHANGED <<attempts, claimed>>
    BY <1>7 DEF CommitCancel, Moved, Life!MoveAll, Life!Move
  <2>3. Held' = Held
    BY <2>2 DEF Held
  <2>4. Life!Cancel(picked[c])
    BY <2>1, <2>2, <2>3 DEF Life!Cancel
  <2> QED
    BY <2>1, <2>4 DEF Life!Next
<1>8. CASE UNCHANGED vars
  BY <1>1, <1>8 DEF vars
<1>9. ASSUME NEW n \in Notifications, BecomeDue(n) \/ BeginEvent(n) \/ EndEvent(n) PROVE UNCHANGED Life!vars
  BY <1>1, <1>9 DEF BecomeDue, BeginEvent, EndEvent
<1>10. ASSUME NEW w \in Workers, BeginClaim(w) \/ Scan(w) \/ FailClaim(w) PROVE UNCHANGED Life!vars
  BY <1>1, <1>10 DEF BeginClaim, Scan, FailClaim, EndClaim
<1>11. ASSUME NEW c \in Cancellers, BeginCancel(c) \/ LockForCancel(c) \/ FailCancel(c) PROVE UNCHANGED Life!vars
  BY <1>1, <1>11 DEF BeginCancel, LockForCancel, FailCancel
<1> QED
  BY <1>2, <1>4, <1>5, <1>6, <1>7, <1>8, <1>9, <1>10, <1>11 DEF Next, Claiming, Cancelling

(***************************************************************************)
(* ClaimDue and CancelPending, taken apart into their row locks, still are *)
(* the single steps Delivery has for them, as far as a client can tell.    *)
(***************************************************************************)
THEOREM Refinement == Spec => ImplementsLifecycle
BY Invariance, LifeInit, LifeStep, PTL DEF Spec, ImplementsLifecycle, Life!Spec
=============================================================================

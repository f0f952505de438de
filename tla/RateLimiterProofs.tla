------------------------- MODULE RateLimiterProofs -------------------------
(***************************************************************************)
(* The transaction of AcquireRateLimitSlots is one atomic grant, for any   *)
(* number of callers, any limits and any length of a job.                  *)
(***************************************************************************)
EXTENDS RateLimiter, Sums, TLAPS

\* From the upsert to the end of the transaction the row is locked by its caller.
LockHeld ==
  \A c \in Callers : pc[c] \in Locking => lock[window[c]] = c

\* What was read still holds: nobody else charges the window meanwhile.
StillTrue ==
  \A c \in Callers :
    /\ pc[c] \in {"update", "commit"} => acquired[c] = Takes(c)
    /\ pc[c] \in {"idle", "upsert", "select"} => acquired[c] = 0

\* No window is asked for before it opens.
Opened == \A c \in Callers : window[c] <= clock

IInv == TypeOK /\ LockHeld /\ StillTrue /\ Opened

LEMMA TakesFacts ==
  ASSUME TypeOK, NEW c \in Callers
  PROVE  Takes(c) \in 0..Requested /\ Takes(c) = Atomic!Grantable(c, used[window[c]])
BY LimitOfAssumption, RequestedAssumption DEF TypeOK, Takes, Atomic!Grantable

LEMMA InitStep == Init => IInv
BY JobSecondsAssumption, RequestedAssumption, CallersAssumption
   DEF Init, IInv, TypeOK, LockHeld, StillTrue, Opened, Windows, Locking, InTransaction

LEMMA ReleaseFacts ==
  ASSUME TypeOK, NEW c \in Callers, Release(c)
  PROVE  /\ lock' \in [Windows -> Callers \cup {NoOne}]
         /\ \A w \in Windows : lock[w] # c => lock'[w] = lock[w]
BY DEF TypeOK, Release

\* One more owner of a lock is one caller: the others keep theirs.
LEMMA CallStep ==
  ASSUME IInv, NEW c \in Callers, Begin(c) \/ Upsert(c) \/ InCall(c) \/ Rollback(c)
  PROVE  IInv'
<1> USE DEF IInv
<1>0. Opened'
  <2>1. clock \in Windows /\ clock' = clock /\ \A d \in Callers : window'[d] \in {window[d], clock}
    BY DEF Begin, Upsert, InCall, Read, Update, Commit, LoseCommit, Send, Finish, Rollback, TypeOK
  <2> QED
    BY <2>1, JobSecondsAssumption DEF Opened, Windows
<1> SUFFICES TypeOK' /\ LockHeld' /\ StillTrue'
  BY <1>0
<1>1. CASE Begin(c)
  BY <1>1 DEF Begin, GoTo, TypeOK, LockHeld, StillTrue, Takes, Locking, InTransaction
<1>2. CASE Upsert(c)
  <2>1. TypeOK'
    BY <1>2 DEF Upsert, GoTo, TypeOK, InTransaction
  <2>2. \A d \in Callers : pc[d] \in Locking => window[d] # window[c]
    BY <1>2, CallersAssumption DEF Upsert, Lockable, LockHeld
  <2>3. LockHeld'
    BY <1>2, <2>2 DEF Upsert, GoTo, TypeOK, LockHeld, Locking
  <2>4. StillTrue'
    BY <1>2 DEF Upsert, GoTo, TypeOK, StillTrue, Takes
  <2> QED
    BY <2>1, <2>3, <2>4
<1>3. CASE Read(c)
  BY <1>3, TakesFacts DEF Read, GoTo, TypeOK, LockHeld, StillTrue, Takes, Locking, InTransaction
<1>4. CASE Update(c)
  BY <1>4 DEF Update, GoTo, TypeOK, LockHeld, StillTrue, Takes, Locking, InTransaction
<1>5. CASE Commit(c) \/ LoseCommit(c)
  <2>1. pc[c] = "commit" /\ Charge(c) /\ Release(c)
    BY <1>5 DEF Commit, LoseCommit
  <2>2. used' = [used EXCEPT ![window[c]] = @ + acquired[c]] /\ used' \in [Windows -> Nat]
    BY <2>1, RequestedAssumption DEF Charge, TypeOK
  <2>3. UNCHANGED <<clock, window, sent>>
    BY <1>5 DEF Commit, LoseCommit
  <2>4. \A d \in Callers \ {c} : pc'[d] = pc[d] /\ acquired'[d] = acquired[d]
    BY <1>5 DEF Commit, LoseCommit, GoTo, TypeOK
  <2>5. /\ pc' \in [Callers -> InTransaction \cup {"idle", "send"}] /\ pc'[c] \in {"idle", "send"}
        /\ acquired' \in [Callers -> 0..Requested] /\ (pc'[c] = "idle" => acquired'[c] = 0)
    <3>1. CASE Commit(c)
      <4>1. pc' = [pc EXCEPT ![c] = IF acquired[c] = 0 THEN "idle" ELSE "send"] /\ acquired' = acquired
        BY <3>1 DEF Commit, GoTo
      <4> QED
        BY <4>1 DEF TypeOK
    <3>2. CASE LoseCommit(c)
      <4>1. pc' = [pc EXCEPT ![c] = "idle"] /\ acquired' = [acquired EXCEPT ![c] = 0]
        BY <3>2 DEF LoseCommit, GoTo
      <4> QED
        BY <4>1, RequestedAssumption DEF TypeOK
    <3> QED
      BY <1>5, <3>1, <3>2
  <2>6. TypeOK'
    BY <2>1, <2>2, <2>3, <2>5, ReleaseFacts DEF TypeOK
  <2>7. \A d \in Callers \ {c} : pc[d] \in Locking => window[d] # window[c]
    BY <2>1 DEF LockHeld, Locking
  <2>8. LockHeld'
    <3>1. \A d \in Callers : pc'[d] \in Locking => d # c /\ pc[d] \in Locking /\ lock[window[d]] = d
      BY <2>4, <2>5 DEF LockHeld, Locking
    <3> QED
      BY <2>1, <2>3, <3>1, ReleaseFacts DEF LockHeld, TypeOK
  <2>9. StillTrue'
    BY <2>2, <2>3, <2>4, <2>5, <2>7 DEF StillTrue, Takes, Locking, TypeOK
  <2> QED
    BY <2>6, <2>8, <2>9
<1>6. CASE Rollback(c)
  <2>1. TypeOK'
    BY <1>6, ReleaseFacts, RequestedAssumption DEF Rollback, GoTo, TypeOK
  <2>2. LockHeld'
    <3>1. \A d \in Callers : pc'[d] \in Locking => d # c /\ lock[window[d]] = d
      BY <1>6 DEF Rollback, GoTo, LockHeld, Locking, TypeOK
    <3> QED
      BY <1>6, <3>1, ReleaseFacts DEF Rollback, LockHeld, TypeOK
  <2>3. StillTrue'
    BY <1>6, RequestedAssumption DEF Rollback, GoTo, StillTrue, Takes, TypeOK
  <2> QED
    BY <2>1, <2>2, <2>3
<1>7. CASE Send(c)
  <2>1. acquired' \in [Callers -> 0..Requested] /\ \A d \in Callers \ {c} : acquired'[d] = acquired[d]
    BY <1>7, RequestedAssumption DEF Send, TypeOK
  <2>2. sent' \in [Windows -> [Windows -> Nat]]
    BY <1>7 DEF Send, TypeOK
  <2>3. UNCHANGED <<clock, used, lock, pc, window>> /\ pc[c] = "send"
    BY <1>7 DEF Send
  <2> QED
    BY <2>1, <2>2, <2>3 DEF TypeOK, LockHeld, StillTrue, Takes, Locking
<1>8. CASE Finish(c)
  BY <1>8, RequestedAssumption DEF Finish, GoTo, TypeOK, LockHeld, StillTrue, Takes, Locking
<1> QED
  BY <1>1, <1>2, <1>3, <1>4, <1>5, <1>6, <1>7, <1>8 DEF InCall

LEMMA InvStep == IInv /\ [Next]_vars => IInv'
<1>1. ASSUME IInv, Tick PROVE IInv'
  <2>1. /\ clock' = clock + 1 /\ clock < MaxClock
        /\ UNCHANGED <<used, lock, pc, window, acquired, sent>>
    BY <1>1 DEF Tick
  <2>2. clock' \in Windows /\ Opened'
    BY <1>1, <2>1, JobSecondsAssumption DEF IInv, TypeOK, Opened, Windows
  <2> QED
    BY <1>1, <2>1, <2>2 DEF IInv, TypeOK, LockHeld, StillTrue, Takes
<1>2. ASSUME IInv, UNCHANGED vars PROVE IInv'
  BY <1>2 DEF IInv, vars, TypeOK, LockHeld, StillTrue, Opened, Takes
<1> QED
  BY <1>1, <1>2, CallStep DEF Next

THEOREM Invariance == Spec => []IInv
BY InitStep, InvStep, PTL DEF Spec

(***************************************************************************)
(* The variables keep their types: no call is ever given a negative number *)
(* of slots, or more than it asked for, even where processes with          *)
(* different limits share the window.                                      *)
(***************************************************************************)
THEOREM TypeCorrect == Spec => []TypeOK
<1>1. IInv => TypeOK
  BY DEF IInv
<1> QED
  BY Invariance, <1>1, PTL

\* What the steps of a call do to the slots held.
LEMMA HeldFacts ==
  ASSUME IInv, NEW c \in Callers, \A d \in Callers \ {c} : pc'[d] = pc[d] /\ acquired'[d] = acquired[d]
  PROVE  [d \in Callers |-> HeldBy(d)]' = [[d \in Callers |-> HeldBy(d)] EXCEPT ![c] = HeldBy(c)']
BY DEF HeldBy

LEMMA AtomicInit == Init => Atomic!Init
BY DEF Init, Atomic!Init, HeldBy, Windows, Atomic!Windows

LEMMA AtomicStep == IInv /\ [Next]_vars => [Atomic!Next]_(Atomic!vars)
<1> SUFFICES ASSUME IInv, [Next]_vars PROVE Atomic!Next \/ UNCHANGED Atomic!vars
  OBVIOUS
<1> USE DEF IInv
<1>1. CASE UNCHANGED vars
  BY <1>1 DEF vars, Atomic!vars, HeldBy
<1>2. CASE Tick
  BY <1>2 DEF Tick, Atomic!Next, Atomic!Tick, HeldBy
<1>3. ASSUME NEW c \in Callers, Begin(c) \/ Upsert(c) \/ Read(c) \/ Update(c) \/ Rollback(c)
      PROVE  UNCHANGED Atomic!vars
  <2>1. UNCHANGED <<clock, used>>
    BY <1>3 DEF Begin, Upsert, Read, Update, Rollback
  <2>2. pc[c] # "send" /\ pc'[c] # "send"
    BY <1>3 DEF Begin, Upsert, Read, Update, Rollback, GoTo, TypeOK, InTransaction
  <2>3. \A d \in Callers \ {c} : pc'[d] = pc[d] /\ acquired'[d] = acquired[d]
    BY <1>3 DEF Begin, Upsert, Read, Update, Rollback, GoTo, TypeOK
  <2> QED
    BY <2>1, <2>2, <2>3 DEF Atomic!vars, HeldBy
<1>4. ASSUME NEW c \in Callers, Commit(c) \/ LoseCommit(c)
      PROVE  Atomic!Next
  <2> DEFINE heard == pc'[c] = "send" \/ acquired[c] = 0
  <2>1. pc[c] = "commit" /\ clock <= window[c] + JobSeconds /\ window[c] <= clock /\ clock' = clock
    BY <1>4 DEF Commit, LoseCommit, InTime, Opened
  <2>2. acquired[c] = Atomic!Grantable(c, used[window[c]])
    BY <2>1, TakesFacts DEF StillTrue
  <2>3. used' = [used EXCEPT ![window[c]] = @ + Atomic!Grantable(c, used[window[c]])]
    BY <1>4, <2>2 DEF Commit, LoseCommit, Charge, TypeOK
  <2>4. \A d \in Callers \ {c} : pc'[d] = pc[d] /\ acquired'[d] = acquired[d]
    BY <1>4 DEF Commit, LoseCommit, GoTo, TypeOK
  <2>5. HeldBy(c) = 0 /\ HeldBy(c)' = IF heard THEN acquired[c] ELSE 0
    <3>1. CASE Commit(c)
      BY <2>1, <3>1 DEF Commit, GoTo, HeldBy, TypeOK
    <3>2. CASE LoseCommit(c)
      BY <2>1, <3>2 DEF LoseCommit, GoTo, HeldBy, TypeOK
    <3> QED
      BY <1>4, <3>1, <3>2
  <2> HIDE DEF heard
  <2>6. Atomic!Grant(c, window[c], heard)
    BY <2>1, <2>2, <2>3, <2>4, <2>5, HeldFacts DEF Atomic!Grant
  <2>7. window[c] \in Atomic!Windows
    BY DEF TypeOK, Windows, Atomic!Windows
  <2>8. heard \in BOOLEAN
    BY DEF heard
  <2> QED
    BY <2>6, <2>7, <2>8 DEF Atomic!Next
<1>5. ASSUME NEW c \in Callers, Send(c)
      PROVE  Atomic!Next
  <2>1. /\ pc[c] = "send" /\ acquired[c] > 0 /\ pc' = pc
        /\ acquired' = [acquired EXCEPT ![c] = @ - 1] /\ UNCHANGED <<clock, used>>
    BY <1>5 DEF Send
  <2>2. HeldBy(c) = acquired[c] /\ HeldBy(c)' = acquired[c] - 1
    BY <2>1 DEF HeldBy, TypeOK
  <2>3. [d \in Callers |-> HeldBy(d)]' = [[d \in Callers |-> HeldBy(d)] EXCEPT ![c] = HeldBy(c)']
    BY <2>1, HeldFacts DEF TypeOK
  <2>4. Atomic!Use(c)
    BY <2>1, <2>2, <2>3 DEF Atomic!Use
  <2> QED
    BY <2>4 DEF Atomic!Next
<1>6. ASSUME NEW c \in Callers, Finish(c)
      PROVE  Atomic!Next
  <2>1. pc' = [pc EXCEPT ![c] = "idle"] /\ acquired' = [acquired EXCEPT ![c] = 0] /\ UNCHANGED <<clock, used>>
    BY <1>6 DEF Finish, GoTo
  <2>2. HeldBy(c)' = 0
    BY <2>1 DEF HeldBy, TypeOK
  <2>3. [d \in Callers |-> HeldBy(d)]' = [[d \in Callers |-> HeldBy(d)] EXCEPT ![c] = HeldBy(c)']
    BY <2>1, HeldFacts DEF TypeOK
  <2>4. Atomic!Forgo(c)
    BY <2>1, <2>2, <2>3 DEF Atomic!Forgo
  <2> QED
    BY <2>4 DEF Atomic!Next
<1> QED
  BY <1>1, <1>2, <1>3, <1>4, <1>5, <1>6 DEF Next, InCall

(***************************************************************************)
(* The five statements of AcquireRateLimitSlots are one atomic grant of    *)
(* what is left of the window, whatever calls interleave with them, wait   *)
(* for the row, fail, or lose the answer to their commit.                  *)
(***************************************************************************)
THEOREM GrantsAreAtomic == Spec => ImplementsRateWindow
BY Invariance, AtomicInit, AtomicStep, PTL DEF Spec, ImplementsRateWindow, Atomic!Spec
-----------------------------------------------------------------------------
\* What was charged to each window stays within a bound on every caller's limit.
Within(bound) == \A w \in Windows : used[w] <= bound

LEMMA WithinStep ==
  ASSUME NEW bound \in Nat, \A c \in Callers : LimitOf[c] <= bound,
         IInv, [Next]_vars, Within(bound)
  PROVE  Within(bound)'
<1>1. ASSUME NEW c \in Callers, Commit(c) \/ LoseCommit(c)
      PROVE  Within(bound)'
  <2>1. acquired[c] = Takes(c) /\ used' = [used EXCEPT ![window[c]] = @ + acquired[c]]
    BY <1>1 DEF Commit, LoseCommit, Charge, IInv, StillTrue
  <2>2. used[window[c]] + Takes(c) <= bound
    <3>1. /\ used[window[c]] \in Nat /\ used[window[c]] <= bound
          /\ LimitOf[c] \in Nat /\ LimitOf[c] <= bound
      BY LimitOfAssumption DEF Within, IInv, TypeOK
    <3> QED
      BY <3>1, RequestedAssumption DEF Takes
  <2> QED
    BY <2>1, <2>2 DEF Within, IInv, TypeOK
<1>2. ASSUME \A c \in Callers : ~Commit(c) /\ ~LoseCommit(c)
      PROVE  used' = used
  BY <1>2 DEF Next, Tick, Begin, Upsert, InCall, Read, Update, Send, Finish, Rollback, vars
<1> QED
  BY <1>1, <1>2 DEF Within

(***************************************************************************)
(* No window is ever charged more slots than the largest of the limits its *)
(* callers were configured with.                                           *)
(***************************************************************************)
THEOREM BudgetsAreKept ==
  ASSUME NEW bound \in Nat, \A c \in Callers : LimitOf[c] <= bound
  PROVE  Spec => []Within(bound)
<1>1. Init => Within(bound)
  BY DEF Init, Within
<1>2. IInv /\ [Next]_vars /\ Within(bound) => Within(bound)'
  BY WithinStep
<1> QED
  BY Invariance, <1>1, <1>2, PTL DEF Spec
-----------------------------------------------------------------------------
(* The sums: what was sent and what is in hand, against what was charged. *)

\* There is a largest limit.
LEMMA TopLimitFacts ==
  /\ TopLimit \in Nat
  /\ \A c \in Callers : LimitOf[c] <= TopLimit
<1> DEFINE Tops(s) == {c \in s : \A d \in s : LimitOf[d] <= LimitOf[c]}
           P == {s \in SUBSET Callers : s # {} => Tops(s) # {}}
<1>1. ASSUME NEW s \in SUBSET Callers, \A t \in SUBSET s : t # s => t \in P
      PROVE  s \in P
  <2> SUFFICES ASSUME s # {} PROVE Tops(s) # {}
    OBVIOUS
  <2>1. PICK x : x \in s
    OBVIOUS
  <2> DEFINE t == s \ {x}
  <2>2. t \in P /\ t \subseteq s /\ \A d \in s : LimitOf[d] \in Nat
    BY <1>1, <2>1, LimitOfAssumption
  <2>3. CASE t = {}
    <3>1. x \in Tops(s)
      BY <2>1, <2>2, <2>3
    <3> QED
      BY <3>1
  <2>4. CASE t # {}
    <3>1. PICK y \in t : \A d \in t : LimitOf[d] <= LimitOf[y]
      BY <2>2, <2>4
    <3>2. x \in Tops(s) \/ y \in Tops(s)
      BY <2>1, <2>2, <3>1
    <3> QED
      BY <3>2
  <2> QED
    BY <2>3, <2>4
<1>2. P \in SUBSET (SUBSET Callers)
  OBVIOUS
<1>3. P = SUBSET Callers
  <2> HIDE DEF P
  <2> QED
    BY <1>1, <1>2, CallersAssumption, SubsetInduction
<1>4. PICK c \in Callers : \A d \in Callers : LimitOf[d] <= LimitOf[c]
  BY <1>3, CallersAssumption
<1>5. TopLimit \in {LimitOf[d] : d \in Callers} /\ \A d \in Callers : LimitOf[d] <= TopLimit
  BY <1>4 DEF TopLimit
<1> QED
  BY <1>5, LimitOfAssumption

LEMMA WindowsFinite ==
  /\ IsFiniteSet(Windows)
  /\ \A s \in Windows : IsFiniteSet(0..s) /\ Cardinality(0..s) = s + 1 /\ 0..s \subseteq Windows
BY FS_Interval, JobSecondsAssumption DEF Windows

\* Slots in hand that were charged to window w.
InHand(w) == [c \in Callers |-> IF window[c] = w THEN HeldBy(c) ELSE 0]

\* A send is made in a second its slot's job could still be running.
SentInTime ==
  \A w, s \in Windows : sent[w][s] > 0 => w <= s /\ s <= w + JobSeconds

Paid ==
  \A w \in Windows : SumFunctionOnSet(sent[w], Windows) + SumFunctionOnSet(InHand(w), Callers) <= used[w]

\* Up to any second: sends made by then against sends out of the windows opened by then.
FromOpened ==
  \A s \in Windows :
    SumFunctionOnSet([t \in Windows |-> SentIn(t)], 0..s) <= SumFunctionOnSet([w \in Windows |-> SentFrom(w)], 0..s)

LEMMA SentSums ==
  ASSUME TypeOK, NEW w \in Windows
  PROVE  /\ SentFrom(w) = SumFunctionOnSet(sent[w], Windows) /\ SentFrom(w) \in Nat
         /\ SentIn(w) = SumFunctionOnSet([v \in Windows |-> sent[v][w]], Windows) /\ SentIn(w) \in Nat
<1>1. sent[w] \in [Windows -> Nat] /\ [v \in Windows |-> sent[v][w]] \in [Windows -> Nat]
  BY DEF TypeOK
<1>2. SentFrom(w) = SumFunctionOnSet(sent[w], Windows)
  BY <1>1 DEF SentFrom, SumFunction
<1>3. SentIn(w) = SumFunctionOnSet([v \in Windows |-> sent[v][w]], Windows)
  BY DEF SentIn, SumFunction
<1> QED
  BY <1>1, <1>2, <1>3, SumType, WindowsFinite

LEMMA InHandSums ==
  ASSUME TypeOK, NEW w \in Windows
  PROVE  /\ \A c \in Callers : InHand(w)[c] \in Nat
         /\ SumFunctionOnSet(InHand(w), Callers) \in Nat
<1>1. \A c \in Callers : InHand(w)[c] \in Nat
  BY RequestedAssumption DEF TypeOK, InHand, HeldBy
<1> QED
  BY <1>1, SumType, CallersAssumption

\* A step of c changes what is in hand by what c has more or less in hand.
LEMMA InHandChange ==
  ASSUME TypeOK, TypeOK', NEW c \in Callers, NEW w \in Windows,
         \A d \in Callers \ {c} : pc'[d] = pc[d] /\ acquired'[d] = acquired[d] /\ window'[d] = window[d]
  PROVE  SumFunctionOnSet(InHand(w), Callers)' =
           SumFunctionOnSet(InHand(w), Callers) + (InHand(w)[c]' - InHand(w)[c])
<1> DEFINE f == InHand(w)
           g == InHand(w)'
<1>1. \A d \in Callers : f[d] \in Nat /\ g[d] \in Nat
  <2>1. \A d \in Callers : InHand(w)[d] \in Nat
    BY InHandSums
  <2>2. \A d \in Callers : (IF window[d] = w THEN HeldBy(d) ELSE 0)' \in Nat
    BY RequestedAssumption DEF TypeOK, HeldBy
  <2> QED
    BY <2>1, <2>2 DEF InHand
<1>2. \A d \in Callers : d # c => g[d] = f[d]
  BY DEF InHand, HeldBy
<1> HIDE DEF f, g
<1>3. SumFunctionOnSet(g, Callers) = SumFunctionOnSet(f, Callers) + (IF c \in Callers THEN g[c] - f[c] ELSE 0)
  BY <1>1, <1>2, CallersAssumption, SumChange
<1> QED
  BY <1>3 DEF f, g

\* A step that neither charges nor sends nor changes what is in hand.
LEMMA QuietStep ==
  ASSUME IInv, Paid, UNCHANGED <<used, sent>>,
         \A c \in Callers : UNCHANGED HeldBy(c) /\ (HeldBy(c) # 0 => UNCHANGED window[c])
  PROVE  Paid'
<1>1. \A w \in Windows : InHand(w)' = InHand(w)
  BY DEF InHand
<1> QED
  BY <1>1 DEF Paid

LEMMA ChargeStep ==
  ASSUME IInv, IInv', Paid, NEW c \in Callers, Commit(c) \/ LoseCommit(c)
  PROVE  Paid'
<1> USE DEF IInv
<1>1. /\ pc[c] = "commit" /\ used' = [used EXCEPT ![window[c]] = @ + acquired[c]]
      /\ UNCHANGED <<window, sent>>
  BY DEF Commit, LoseCommit, Charge
<1>2. \A d \in Callers \ {c} : pc'[d] = pc[d] /\ acquired'[d] = acquired[d] /\ window'[d] = window[d]
  BY DEF Commit, LoseCommit, GoTo, TypeOK
<1>3. HeldBy(c) = 0 /\ HeldBy(c)' \in {0, acquired[c]}
  BY <1>1 DEF Commit, LoseCommit, GoTo, HeldBy, TypeOK
<1>4. acquired[c] \in Nat /\ window[c] \in Windows
  BY RequestedAssumption DEF TypeOK
<1> SUFFICES ASSUME NEW w \in Windows
             PROVE  SumFunctionOnSet(sent'[w], Windows) + SumFunctionOnSet(InHand(w), Callers)' <= used'[w]
  BY DEF Paid
<1>5. SumFunctionOnSet(InHand(w), Callers)' =
        SumFunctionOnSet(InHand(w), Callers) + (InHand(w)[c]' - InHand(w)[c])
  BY <1>2, InHandChange
<1>6. InHand(w)[c] = 0 /\ InHand(w)[c]' \in {0, IF w = window[c] THEN acquired[c] ELSE 0}
  BY <1>1, <1>3 DEF InHand
<1>7. used'[w] = used[w] + (IF w = window[c] THEN acquired[c] ELSE 0) /\ used[w] \in Nat
  BY <1>1, <1>4 DEF TypeOK
<1>8. SumFunctionOnSet(sent[w], Windows) \in Nat /\ SumFunctionOnSet(InHand(w), Callers) \in Nat
  BY SentSums, InHandSums
<1> QED
  BY <1>1, <1>4, <1>5, <1>6, <1>7, <1>8 DEF Paid

\* What a send adds to the sums.
LEMMA SendSums ==
  ASSUME IInv, IInv', NEW c \in Callers, Send(c), NEW w \in Windows
  PROVE  /\ SentFrom(w)' = SentFrom(w) + (IF w = window[c] THEN 1 ELSE 0)
         /\ SentIn(w)' = SentIn(w) + (IF w = clock THEN 1 ELSE 0)
<1> USE DEF IInv
<1>1. sent' = [sent EXCEPT ![window[c]][clock] = @ + 1] /\ window[c] \in Windows /\ clock \in Windows
  BY DEF Send, TypeOK
<1>2. \A v, t \in Windows : /\ sent[v][t] \in Nat /\ sent'[v][t] \in Nat
                            /\ sent'[v][t] = sent[v][t] + (IF v = window[c] /\ t = clock THEN 1 ELSE 0)
  BY <1>1 DEF TypeOK
<1>3. SumFunctionOnSet(sent'[w], Windows) = SumFunctionOnSet(sent[w], Windows) + (IF w = window[c] THEN 1 ELSE 0)
  <2>1. SumFunctionOnSet(sent'[w], Windows) = SumFunctionOnSet(sent[w], Windows)
          + (IF clock \in Windows THEN sent'[w][clock] - sent[w][clock] ELSE 0)
    BY <1>2, WindowsFinite, SumChange
  <2>2. sent'[w][clock] - sent[w][clock] = IF w = window[c] THEN 1 ELSE 0
    BY <1>1, <1>2
  <2> QED
    BY <1>1, <2>1, <2>2
<1>4. SumFunctionOnSet([v \in Windows |-> sent'[v][w]], Windows) =
        SumFunctionOnSet([v \in Windows |-> sent[v][w]], Windows) + (IF w = clock THEN 1 ELSE 0)
  <2> DEFINE f == [v \in Windows |-> sent[v][w]]
             g == [v \in Windows |-> sent'[v][w]]
  <2>1. \A v \in Windows : f[v] \in Nat /\ g[v] \in Nat /\ (v # window[c] => g[v] = f[v])
    BY <1>2
  <2>2. g[window[c]] - f[window[c]] = IF w = clock THEN 1 ELSE 0
    BY <1>1, <1>2
  <2> HIDE DEF f, g
  <2>3. SumFunctionOnSet(g, Windows) = SumFunctionOnSet(f, Windows)
          + (IF window[c] \in Windows THEN g[window[c]] - f[window[c]] ELSE 0)
    BY <2>1, WindowsFinite, SumChange
  <2>4. SumFunctionOnSet(g, Windows) = SumFunctionOnSet(f, Windows) + (IF w = clock THEN 1 ELSE 0)
    BY <1>1, <2>2, <2>3
  <2> QED
    BY <2>4 DEF f, g
<1>5. DOMAIN sent[w] = Windows /\ DOMAIN sent'[w] = Windows
  BY DEF TypeOK
<1> QED
  BY <1>3, <1>4, <1>5 DEF SentFrom, SentIn, SumFunction

LEMMA SpendStep ==
  ASSUME IInv, IInv', Paid, NEW c \in Callers, Send(c) \/ Finish(c)
  PROVE  Paid'
<1> USE DEF IInv
<1>1. /\ pc[c] = "send" /\ UNCHANGED <<used, window>>
      /\ \A d \in Callers \ {c} : pc'[d] = pc[d] /\ acquired'[d] = acquired[d] /\ window'[d] = window[d]
  BY DEF Send, Finish, GoTo, TypeOK
<1>2. HeldBy(c) = acquired[c] /\ acquired[c] \in Nat /\ window[c] \in Windows
  BY <1>1, RequestedAssumption DEF HeldBy, TypeOK
<1> SUFFICES ASSUME NEW w \in Windows
             PROVE  SumFunctionOnSet(sent'[w], Windows) + SumFunctionOnSet(InHand(w), Callers)' <= used'[w]
  BY DEF Paid
<1>3. SumFunctionOnSet(InHand(w), Callers)' =
        SumFunctionOnSet(InHand(w), Callers) + (InHand(w)[c]' - InHand(w)[c])
  BY <1>1, InHandChange
<1>4. /\ InHand(w)[c] = IF window[c] = w THEN acquired[c] ELSE 0
      /\ InHand(w)[c]' = IF window[c] = w THEN HeldBy(c)' ELSE 0
  BY <1>1, <1>2 DEF InHand
<1>5. SumFunctionOnSet(sent[w], Windows) \in Nat /\ SumFunctionOnSet(InHand(w), Callers) \in Nat /\ used[w] \in Nat
  BY SentSums, InHandSums DEF TypeOK
<1>6. CASE Send(c)
  <2>1. HeldBy(c)' = acquired[c] - 1
    BY <1>1, <1>6 DEF Send, HeldBy, TypeOK
  <2>2. SumFunctionOnSet(sent'[w], Windows) = SumFunctionOnSet(sent[w], Windows) + (IF w = window[c] THEN 1 ELSE 0)
    <3>1. SentFrom(w)' = SumFunctionOnSet(sent'[w], Windows)
      BY DEF SentFrom, SumFunction, TypeOK
    <3> QED
      BY <1>6, <3>1, SendSums, SentSums
  <2> QED
    BY <1>1, <1>2, <1>3, <1>4, <1>5, <2>1, <2>2 DEF Paid
<1>7. CASE Finish(c)
  <2>1. HeldBy(c)' = 0 /\ sent' = sent
    BY <1>7 DEF Finish, GoTo, HeldBy, TypeOK
  <2> QED
    BY <1>1, <1>2, <1>3, <1>4, <1>5, <2>1 DEF Paid
<1> QED
  BY <1>6, <1>7

LEMMA PaidStep ==
  ASSUME IInv, IInv', [Next]_vars, Paid
  PROVE  Paid'
<1> USE DEF IInv
<1>1. CASE Tick \/ UNCHANGED vars
  BY <1>1, QuietStep DEF Tick, vars, HeldBy
<1>2. ASSUME NEW c \in Callers, Begin(c) \/ Upsert(c) \/ Read(c) \/ Update(c) \/ Rollback(c)
      PROVE  Paid'
  <2>1. UNCHANGED <<used, sent>> /\ pc[c] # "send" /\ pc'[c] # "send"
    BY <1>2 DEF Begin, Upsert, Read, Update, Rollback, GoTo, TypeOK, InTransaction
  <2>2. \A d \in Callers \ {c} : pc'[d] = pc[d] /\ acquired'[d] = acquired[d] /\ window'[d] = window[d]
    BY <1>2 DEF Begin, Upsert, Read, Update, Rollback, GoTo, TypeOK
  <2> QED
    BY <2>1, <2>2, QuietStep DEF HeldBy
<1>3. ASSUME NEW c \in Callers, InCall(c) PROVE Paid'
  BY <1>2, <1>3, ChargeStep, SpendStep DEF InCall
<1> QED
  BY <1>1, <1>2, <1>3 DEF Next

LEMMA SendsStep ==
  ASSUME IInv, IInv', [Next]_vars, SentInTime, FromOpened
  PROVE  SentInTime' /\ FromOpened'
<1> USE DEF IInv
<1>1. CASE UNCHANGED sent
  BY <1>1 DEF SentInTime, FromOpened, SentIn, SentFrom
<1>2. ASSUME NEW c \in Callers, Send(c)
      PROVE  SentInTime' /\ FromOpened'
  <2>1. /\ sent' = [sent EXCEPT ![window[c]][clock] = @ + 1]
        /\ window[c] \in Windows /\ clock \in Windows
        /\ window[c] <= clock /\ clock <= window[c] + JobSeconds
    BY <1>2 DEF Send, InTime, Opened, TypeOK
  <2>2. SentInTime'
    BY <2>1 DEF SentInTime, TypeOK
  <2>3. ASSUME NEW s \in Windows
        PROVE  SumFunctionOnSet([t \in Windows |-> SentIn(t)'], 0..s)
                 <= SumFunctionOnSet([w \in Windows |-> SentFrom(w)'], 0..s)
    <3> DEFINE f == [t \in Windows |-> SentIn(t)]
               F == [t \in Windows |-> SentIn(t)']
               g == [w \in Windows |-> SentFrom(w)]
               G == [w \in Windows |-> SentFrom(w)']
    <3>1. \A t \in Windows : /\ f[t] \in Nat /\ g[t] \in Nat
                             /\ F[t] = f[t] + (IF t = clock THEN 1 ELSE 0)
                             /\ G[t] = g[t] + (IF t = window[c] THEN 1 ELSE 0)
      BY <1>2, SentSums, SendSums
    <3>2. IsFiniteSet(0..s) /\ 0..s \subseteq Windows /\ s \in Nat /\ clock \in Nat /\ window[c] \in Nat
      BY <2>1, WindowsFinite DEF Windows
    <3>3. SumFunctionOnSet(f, 0..s) <= SumFunctionOnSet(g, 0..s)
      BY DEF FromOpened
    <3> HIDE DEF f, F, g, G
    <3>4. F[clock] - f[clock] = 1 /\ G[window[c]] - g[window[c]] = 1
      BY <2>1, <3>1, <3>2
    <3>5. SumFunctionOnSet(F, 0..s) = SumFunctionOnSet(f, 0..s) + (IF clock \in 0..s THEN 1 ELSE 0)
      <4>1. \A t \in 0..s : f[t] \in Nat /\ F[t] \in Nat /\ (t # clock => F[t] = f[t])
        BY <3>1, <3>2
      <4>2. SumFunctionOnSet(F, 0..s) = SumFunctionOnSet(f, 0..s) + (IF clock \in 0..s THEN F[clock] - f[clock] ELSE 0)
        BY <3>2, <4>1, SumChange
      <4> QED
        BY <3>4, <4>2
    <3>6. SumFunctionOnSet(G, 0..s) = SumFunctionOnSet(g, 0..s) + (IF window[c] \in 0..s THEN 1 ELSE 0)
      <4>1. \A t \in 0..s : g[t] \in Nat /\ G[t] \in Nat /\ (t # window[c] => G[t] = g[t])
        BY <3>1, <3>2
      <4>2. SumFunctionOnSet(G, 0..s) =
              SumFunctionOnSet(g, 0..s) + (IF window[c] \in 0..s THEN G[window[c]] - g[window[c]] ELSE 0)
        BY <3>2, <4>1, SumChange
      <4> QED
        BY <3>4, <4>2
    <3>7. clock \in 0..s => window[c] \in 0..s
      BY <2>1, <3>2
    <3>8. SumFunctionOnSet(f, 0..s) \in Nat /\ SumFunctionOnSet(g, 0..s) \in Nat
      <4>1. \A t \in 0..s : f[t] \in Nat /\ g[t] \in Nat
        BY <3>1, <3>2
      <4> QED
        BY <3>2, <4>1, SumType
    <3>9. SumFunctionOnSet(F, 0..s) <= SumFunctionOnSet(G, 0..s)
      BY <3>3, <3>5, <3>6, <3>7, <3>8
    <3> QED
      BY <3>9 DEF F, G
  <2> QED
    BY <2>2, <2>3 DEF FromOpened
<1>3. UNCHANGED sent \/ \E c \in Callers : Send(c)
  BY DEF Next, Tick, Begin, Upsert, InCall, Read, Update, Commit, LoseCommit, Finish, Rollback, vars
<1> QED
  BY <1>1, <1>2, <1>3

LEMMA SumsInit == Init => Paid /\ SentInTime /\ FromOpened /\ Within(TopLimit)
<1> SUFFICES ASSUME Init PROVE Paid /\ SentInTime /\ FromOpened /\ Within(TopLimit)
  OBVIOUS
<1>1. TypeOK
  BY InitStep DEF IInv
<1>2. \A w \in Windows : sent[w] = [s \in Windows |-> 0] /\ used[w] = 0
  BY DEF Init
<1>3. \A w \in Windows : SumFunctionOnSet(sent[w], Windows) = 0
  BY <1>2, WindowsFinite, SumZero
<1>4. \A w \in Windows : SumFunctionOnSet(InHand(w), Callers) = 0
  <2> SUFFICES ASSUME NEW w \in Windows PROVE SumFunctionOnSet(InHand(w), Callers) = 0
    OBVIOUS
  <2>1. \A c \in Callers : InHand(w)[c] = 0
    BY DEF Init, InHand, HeldBy
  <2> QED
    BY <2>1, CallersAssumption, SumZero
<1>5. FromOpened
  <2> SUFFICES ASSUME NEW s \in Windows
               PROVE  SumFunctionOnSet([t \in Windows |-> SentIn(t)], 0..s)
                        <= SumFunctionOnSet([w \in Windows |-> SentFrom(w)], 0..s)
    BY DEF FromOpened
  <2> DEFINE f == [t \in Windows |-> SentIn(t)]
             g == [w \in Windows |-> SentFrom(w)]
  <2>1. \A t \in Windows : SentIn(t) = 0
    <3> SUFFICES ASSUME NEW t \in Windows PROVE SentIn(t) = 0
      OBVIOUS
    <3>1. \A v \in Windows : [u \in Windows |-> sent[u][t]][v] = 0
      BY <1>2
    <3> QED
      BY <1>1, <3>1, SentSums, SumZero, WindowsFinite
  <2>2. \A t \in Windows : SentFrom(t) \in Nat
    BY <1>1, SentSums
  <2>3. IsFiniteSet(0..s) /\ \A t \in 0..s : f[t] = 0 /\ g[t] \in Nat
    BY <2>1, <2>2, WindowsFinite
  <2> HIDE DEF f, g
  <2>4. SumFunctionOnSet(f, 0..s) = 0 /\ SumFunctionOnSet(g, 0..s) \in Nat
    BY <2>3, SumZero, SumType
  <2>5. SumFunctionOnSet(f, 0..s) <= SumFunctionOnSet(g, 0..s)
    BY <2>4
  <2> QED
    BY <2>5 DEF f, g
<1> QED
  BY <1>2, <1>3, <1>4, <1>5, TopLimitFacts DEF Paid, SentInTime, Within

\* All that the sums rest on.
Accounts == Paid /\ Within(TopLimit) /\ SentInTime /\ FromOpened

(***************************************************************************)
(* Every slot sent or in hand is accounted for in the window it was taken  *)
(* from, and every send in a second that window's jobs may reach.          *)
(***************************************************************************)
THEOREM AccountsAreKept == Spec => [](IInv /\ Accounts)
<1>1. Init => IInv /\ Accounts
  BY InitStep, SumsInit DEF Accounts
<1>2. IInv /\ Accounts /\ [Next]_vars => (IInv /\ Accounts)'
  BY InvStep, PaidStep, SendsStep, WithinStep, TopLimitFacts DEF Accounts
<1> QED
  BY <1>1, <1>2, PTL DEF Spec

(***************************************************************************)
(* The sends made from a window's slots and the slots of it still in hand  *)
(* are all charged to it, and no window is charged more than the largest   *)
(* limit: no slot is used twice or made up, whatever calls race, fail or   *)
(* never hear of their commit.                                             *)
(***************************************************************************)
THEOREM SlotsArePaidFor == Spec => []SlotsArePaid
<1>1. IInv /\ Accounts => SlotsArePaid
  <2> SUFFICES ASSUME IInv, Accounts, NEW w \in Windows
               PROVE  /\ SentFrom(w) + SumFunction(InHand(w)) <= used[w]
                      /\ used[w] <= TopLimit
    BY DEF SlotsArePaid, InHand
  <2>1. SumFunction(InHand(w)) = SumFunctionOnSet(InHand(w), Callers)
    BY DEF SumFunction, InHand
  <2> QED
    BY <2>1, SentSums DEF IInv, Accounts, Paid, Within
<1> QED
  BY <1>1, AccountsAreKept, PTL

(***************************************************************************)
(* What the limit bounds, for any number of callers and any timeout: the   *)
(* sends up to a second by the budgets of the seconds so far, those of a   *)
(* single second by the budgets of the windows whose jobs can still run.   *)
(***************************************************************************)
THEOREM RatesAreBounded == Spec => []LongRunRate
<1>1. IInv /\ Accounts => LongRunRate
  <2> SUFFICES ASSUME IInv, Accounts, NEW s \in Windows
               PROVE  /\ SumFunctionOnSet([t \in Windows |-> SentIn(t)], 0..s) <= TopLimit * (s + 1)
                      /\ SentIn(s) <= TopLimit * (JobSeconds + 1)
    BY DEF LongRunRate
  <2> USE DEF IInv
  <2>1. \A w \in Windows : SentFrom(w) \in Nat /\ SentFrom(w) <= TopLimit
    <3> SUFFICES ASSUME NEW w \in Windows PROVE SentFrom(w) \in Nat /\ SentFrom(w) <= TopLimit
      OBVIOUS
    <3>1. SumFunctionOnSet(InHand(w), Callers) \in Nat /\ used[w] \in Nat /\ used[w] <= TopLimit
      BY InHandSums DEF TypeOK, Accounts, Within
    <3>2. SentFrom(w) \in Nat /\ SentFrom(w) = SumFunctionOnSet(sent[w], Windows)
      BY SentSums
    <3>3. SumFunctionOnSet(sent[w], Windows) + SumFunctionOnSet(InHand(w), Callers) <= used[w]
      BY DEF Accounts, Paid
    <3> QED
      BY <3>1, <3>2, <3>3, TopLimitFacts
  <2>2. SumFunctionOnSet([t \in Windows |-> SentIn(t)], 0..s) <= TopLimit * (s + 1)
    <3> DEFINE f == [t \in Windows |-> SentIn(t)]
               g == [w \in Windows |-> SentFrom(w)]
    <3>1. /\ IsFiniteSet(0..s) /\ Cardinality((0..s) \cap (0..s)) = s + 1
          /\ \A t \in 0..s : f[t] \in Nat /\ g[t] \in Nat /\ (IF t \in 0..s THEN g[t] <= TopLimit ELSE g[t] = 0)
      BY <2>1, WindowsFinite, SentSums
    <3>2. SumFunctionOnSet(f, 0..s) <= SumFunctionOnSet(g, 0..s)
      BY DEF Accounts, FromOpened
    <3> HIDE DEF f, g
    <3>3. SumFunctionOnSet(g, 0..s) <= TopLimit * Cardinality((0..s) \cap (0..s))
      BY <3>1, TopLimitFacts, SumBound
    <3>4. SumFunctionOnSet(f, 0..s) \in Nat /\ SumFunctionOnSet(g, 0..s) \in Nat
      BY <3>1, SumType
    <3>5. s \in Nat /\ TopLimit * (s + 1) \in Nat
      BY TopLimitFacts DEF Windows
    <3>6. SumFunctionOnSet(f, 0..s) <= TopLimit * (s + 1)
      BY <3>1, <3>2, <3>3, <3>4, <3>5
    <3> QED
      BY <3>6 DEF f
  <2>3. SentIn(s) <= TopLimit * (JobSeconds + 1)
    <3> DEFINE A == (s - JobSeconds)..s
               h == [v \in Windows |-> sent[v][s]]
    <3>1. s \in Int /\ s - JobSeconds \in Int /\ JobSeconds \in Nat
      BY JobSecondsAssumption DEF Windows
    <3>2. IsFiniteSet(A) /\ Cardinality(A) = JobSeconds + 1
      BY <3>1, FS_Interval
    <3>3. \A v \in Windows : h[v] \in Nat /\ (IF v \in A THEN h[v] <= TopLimit ELSE h[v] = 0)
      <4> SUFFICES ASSUME NEW v \in Windows
                   PROVE  sent[v][s] \in Nat /\ (IF v \in A THEN sent[v][s] <= TopLimit ELSE sent[v][s] = 0)
        OBVIOUS
      <4>1. sent[v][s] \in Nat /\ sent[v][s] <= SentFrom(v)
        <5>1. \A t \in Windows : sent[v][t] \in Nat
          BY DEF TypeOK
        <5>2. sent[v][s] <= SumFunctionOnSet(sent[v], Windows)
          BY <5>1, WindowsFinite, SumMember
        <5> QED
          BY <5>1, <5>2, SentSums
      <4>2. sent[v][s] > 0 => v \in A
        BY <3>1 DEF Accounts, SentInTime, Windows
      <4> QED
        BY <2>1, <4>1, <4>2, TopLimitFacts
    <3>4. Cardinality(Windows \cap A) \in Nat /\ Cardinality(Windows \cap A) <= JobSeconds + 1
      BY <3>2, FS_Subset, FS_CardinalityType
    <3>5. SentIn(s) = SumFunctionOnSet(h, Windows) /\ SentIn(s) \in Nat
      BY SentSums
    <3> HIDE DEF A, h
    <3>6. SumFunctionOnSet(h, Windows) <= TopLimit * Cardinality(Windows \cap A)
      BY <3>3, WindowsFinite, TopLimitFacts, SumBound
    <3>7. TopLimit * Cardinality(Windows \cap A) <= TopLimit * (JobSeconds + 1)
      <4> DEFINE n == Cardinality(Windows \cap A)
      <4>1. n \in Nat /\ n <= JobSeconds + 1
        BY <3>4
      <4> HIDE DEF n
      <4>2. \A k, m, t \in Nat : k <= m => t * k <= t * m
        OBVIOUS
      <4>3. TopLimit * n <= TopLimit * (JobSeconds + 1)
        BY <3>1, <4>1, <4>2, TopLimitFacts
      <4> QED
        BY <4>3 DEF n
    <3>8. TopLimit * Cardinality(Windows \cap A) \in Nat /\ TopLimit * (JobSeconds + 1) \in Nat
      BY <3>1, <3>4, TopLimitFacts
    <3> QED
      BY <3>5, <3>6, <3>7, <3>8
  <2> QED
    BY <2>2, <2>3
<1> QED
  BY <1>1, AccountsAreKept, PTL
=============================================================================

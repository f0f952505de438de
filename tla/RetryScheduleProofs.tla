------------------------ MODULE RetryScheduleProofs ------------------------
(***************************************************************************)
(* The waits of the retries grow for every base delay, every jitter and    *)
(* every bound on the attempts, and the last status is always explained.   *)
(***************************************************************************)
EXTENDS RetrySchedule, TLAPS

\* The jitter adds up to a quarter.
LEMMA JitterBounds ==
  ASSUME NEW d \in Nat, NEW b \in 0..255
  PROVE  AddJitter(d, b) \in Nat /\ d <= AddJitter(d, b) /\ 4 * AddJitter(d, b) <= 5 * d
<1> DEFINE p == b * d
<1>1. p \in Nat /\ p <= 256 * d
  <2>1. (256 - b) * d >= 0
    OBVIOUS
  <2> QED
    BY <2>1
<1>2. AddJitter(d, b) = d + p \div 1024
  BY DEF AddJitter
<1> HIDE DEF p
<1>3. p \div 1024 \in Nat /\ 4 * (p \div 1024) <= d
  BY <1>1
<1> QED
  BY <1>2, <1>3

\* The base doubles with every try up to the fifth and stays at 32 base delays from there.
LEMMA BaseGrows ==
  ASSUME NEW a \in Nat
  PROVE  /\ BackoffBase(a) \in Nat \ {0}
         /\ a \in 1..5 => BackoffBase(a) = 2 * BackoffBase(a - 1)
         /\ a >= 5 => BackoffBase(a) = 32 * BaseDelay
<1>1. BaseDelay \in Nat \ {0}
  BY BaseDelayAssumption
<1>2. CASE a = 0
  BY <1>1, <1>2 DEF BackoffBase
<1>3. CASE a = 1
  BY <1>1, <1>3 DEF BackoffBase
<1>4. CASE a = 2
  BY <1>1, <1>4 DEF BackoffBase
<1>5. CASE a = 3
  BY <1>1, <1>5 DEF BackoffBase
<1>6. CASE a = 4
  BY <1>1, <1>6 DEF BackoffBase
<1>7. CASE a = 5
  BY <1>1, <1>7 DEF BackoffBase
<1>8. CASE a > 5
  BY <1>1, <1>8 DEF BackoffBase
<1> QED
  BY <1>2, <1>3, <1>4, <1>5, <1>6, <1>7, <1>8

LEMMA BackoffBounds ==
  ASSUME NEW a \in Nat, NEW b \in JitterBytes
  PROVE  /\ Backoff(a, b) \in Nat
         /\ BackoffBase(a) <= Backoff(a, b)
         /\ 4 * Backoff(a, b) <= 5 * BackoffBase(a)
BY BaseGrows, JitterBounds, JitterBytesAssumption DEF Backoff

\* A row that waits remembers in its delay how many tries were made.
DelayKnown ==
  verdict = "scheduled" => attempts > 0 /\ 4 * delay <= 5 * BackoffBase(attempts - 1)

TriesLeft ==
  /\ verdict = "pending" => attempts = 0
  /\ verdict = "scheduled" => attempts < MaxAttempts

IInv == TypeOK /\ DelayKnown /\ TriesLeft /\ VerdictExplained

LEMMA InitStep == Init => IInv
BY MaxAttemptsAssumption
   DEF Init, IInv, TypeOK, DelayKnown, TriesLeft, VerdictExplained

\* What the provider's answer makes of the row.
LEMMA TryStep ==
  ASSUME IInv, NEW r \in Response, NEW b \in JitterBytes, Try(r, b)
  PROVE  IInv'
<1>1. /\ verdict \in {"pending", "scheduled"} /\ answer' = r /\ attempts' = attempts + 1
      /\ verdict' = Outcome(r, attempts + 1)
      /\ delay' = IF verdict' = "scheduled" THEN Backoff(attempts, b) ELSE 0
      /\ waited' = waited + delay'
  BY DEF Try
<1>2. attempts \in Nat /\ attempts < MaxAttempts /\ MaxAttempts \in Nat
  BY <1>1, MaxAttemptsAssumption DEF IInv, TypeOK, TriesLeft
<1>3. /\ Backoff(attempts, b) \in Nat
      /\ 4 * Backoff(attempts, b) <= 5 * BackoffBase(attempts)
  BY <1>2, BackoffBounds
<1>4. verdict' \in {"scheduled", "delivered", "failed", "dead_letter"}
  BY <1>1 DEF Outcome
<1>5. TypeOK'
  <2>1. delay' \in Nat /\ waited' \in Nat
    BY <1>1, <1>3 DEF IInv, TypeOK
  <2> QED
    BY <1>1, <1>2, <1>4, <2>1 DEF TypeOK
<1>6. DelayKnown'
  <2>1. attempts' > 0 /\ attempts' - 1 = attempts
    BY <1>1, <1>2
  <2>2. verdict' = "scheduled" => 4 * delay' <= 5 * BackoffBase(attempts' - 1)
    BY <1>1, <1>3, <2>1
  <2> QED
    BY <2>1, <2>2 DEF DelayKnown, BackoffBase
<1>7. TriesLeft'
  BY <1>1, <1>2, <1>4 DEF TriesLeft, Outcome
<1>8. VerdictExplained'
  <2>1. r.code \in 100..599 \cup {0} /\ r.err \in BOOLEAN /\ (r.code = 0 => r.err)
    BY StatusCodesAssumption DEF Response
  <2> QED
    BY <1>1, <1>2, <2>1 DEF VerdictExplained, Outcome, IsAccepted, ProviderTook, ShouldRetryDelivery
<1> QED
  BY <1>5, <1>6, <1>7, <1>8 DEF IInv

LEMMA InvStep == IInv /\ [Next]_vars => IInv'
<1>1. ASSUME IInv, UNCHANGED vars PROVE IInv'
  BY <1>1 DEF IInv, vars, TypeOK, DelayKnown, TriesLeft, VerdictExplained, BackoffBase
<1> QED
  BY <1>1, TryStep DEF Next

THEOREM Invariance == Spec => []IInv
BY InitStep, InvStep, PTL DEF Spec

(***************************************************************************)
(* The variables keep their types: no row is tried more often than         *)
(* max_attempts allows, whatever the provider answers.                     *)
(***************************************************************************)
THEOREM TypeCorrect == Spec => []TypeOK
<1>1. IInv => TypeOK
  BY DEF IInv
<1> QED
  BY Invariance, <1>1, PTL

(***************************************************************************)
(* A dead letter has used all of max_attempts, a failed row was refused by *)
(* an answer that is not worth a retry, a delivered one has its 2xx.       *)
(***************************************************************************)
THEOREM VerdictsAreExplained == Spec => []VerdictExplained
<1>1. IInv => VerdictExplained
  BY DEF IInv
<1> QED
  BY Invariance, <1>1, PTL

(***************************************************************************)
(* Exponential backoff survives the jitter: each wait is longer than the   *)
(* one before until the shift is capped.                                   *)
(***************************************************************************)
THEOREM WaitsGrow == Spec => EachWaitLonger
<1>1. ASSUME IInv, NEW r \in Response, NEW b \in JitterBytes, Try(r, b),
             verdict = "scheduled", verdict' = "scheduled"
      PROVE  IF attempts <= 5 THEN delay' > delay ELSE delay' >= 32 * BaseDelay
  <2>1. delay' = Backoff(attempts, b)
    BY <1>1 DEF Try
  <2>2. attempts \in Nat /\ attempts > 0 /\ delay \in Nat /\ 4 * delay <= 5 * BackoffBase(attempts - 1)
    BY <1>1, MaxAttemptsAssumption DEF IInv, TypeOK, DelayKnown
  <2>3. Backoff(attempts, b) \in Nat /\ BackoffBase(attempts) <= Backoff(attempts, b)
    BY <2>2, BackoffBounds
  <2>4. BackoffBase(attempts) \in Nat /\ BackoffBase(attempts - 1) \in Nat \ {0}
    BY <2>2, BaseGrows
  <2>5. CASE attempts <= 5
    <3>1. BackoffBase(attempts) = 2 * BackoffBase(attempts - 1)
      BY <2>2, <2>5, BaseGrows
    <3> QED
      BY <2>1, <2>2, <2>3, <2>4, <2>5, <3>1
  <2>6. CASE attempts > 5
    BY <2>1, <2>2, <2>3, <2>6, BaseGrows
  <2> QED
    BY <2>2, <2>5, <2>6
<1>2. IInv /\ [Next]_vars =>
        [verdict = "scheduled" /\ verdict' = "scheduled"
           => IF attempts <= 5 THEN delay' > delay ELSE delay' >= 32 * BaseDelay]_vars
  BY <1>1 DEF Next
<1> QED
  BY Invariance, <1>2, PTL DEF Spec, EachWaitLonger

-----------------------------------------------------------------------------
(* The waits added up *)

\* Before the cap the base of a wait is what the sums of the waits before and after it differ by.
LEMMA BaseIsPower ==
  ASSUME NEW a \in 0..5
  PROVE  /\ 2^a \in Nat \ {0} /\ 2^(a + 1) = 2 * 2^a
         /\ BackoffBase(a) = BaseDelay * 2^a
<1>1. 2^0 = 1 /\ 2^1 = 2 /\ 2^2 = 4 /\ 2^3 = 8 /\ 2^4 = 16 /\ 2^5 = 32 /\ 2^6 = 64
  OBVIOUS
<1>2. BaseDelay \in Nat \ {0}
  BY BaseDelayAssumption
<1>3. CASE a = 0
  BY <1>1, <1>2, <1>3 DEF BackoffBase
<1>4. CASE a = 1
  BY <1>1, <1>2, <1>4 DEF BackoffBase
<1>5. CASE a = 2
  BY <1>1, <1>2, <1>5 DEF BackoffBase
<1>6. CASE a = 3
  BY <1>1, <1>2, <1>6 DEF BackoffBase
<1>7. CASE a = 4
  BY <1>1, <1>2, <1>7 DEF BackoffBase
<1>8. CASE a = 5
  BY <1>1, <1>2, <1>8 DEF BackoffBase
<1> QED
  BY <1>3, <1>4, <1>5, <1>6, <1>7, <1>8

WaitsCounted == Waits \in Nat /\ TotalWaitIsGeometric

LEMMA WaitsStart == Init => WaitsCounted
<1> SUFFICES ASSUME Init PROVE WaitsCounted
  OBVIOUS
<1>1. Waits = 0 /\ waited = 0 /\ 2^0 = 1 /\ BaseDelay \in Nat
  BY BaseDelayAssumption DEF Init, Waits
<1> QED
  BY <1>1 DEF WaitsCounted, TotalWaitIsGeometric

LEMMA WaitsStep ==
  ASSUME IInv, WaitsCounted, NEW r \in Response, NEW b \in JitterBytes, Try(r, b)
  PROVE  WaitsCounted'
<1>1. /\ Waits = attempts /\ attempts \in Nat /\ waited \in Nat
      /\ attempts' = attempts + 1 /\ waited' = waited + delay'
      /\ delay' = IF verdict' = "scheduled" THEN Backoff(attempts, b) ELSE 0
      /\ verdict' \in {"scheduled", "delivered", "failed", "dead_letter"}
  BY MaxAttemptsAssumption DEF IInv, TypeOK, Try, Waits, Outcome
<1>2. CASE verdict' = "scheduled"
  <2>1. Waits' = attempts + 1 /\ waited' = waited + Backoff(attempts, b)
    BY <1>1, <1>2 DEF Waits
  <2>2. SUFFICES ASSUME attempts <= 5
                 PROVE  /\ waited' >= BaseDelay * (2^(attempts + 1) - 1)
                        /\ 4 * waited' <= 5 * BaseDelay * (2^(attempts + 1) - 1)
    BY <1>1, <2>1 DEF WaitsCounted, TotalWaitIsGeometric
  <2> DEFINE p == 2^attempts
             B == BaseDelay * p
  <2>3. p \in Nat /\ 2^(attempts + 1) = 2 * p /\ BackoffBase(attempts) = B
    <3>1. attempts \in 0..5
      BY <1>1, <2>2
    <3> QED
      BY <3>1, BaseIsPower
  <2>4. /\ Backoff(attempts, b) \in Nat /\ B <= Backoff(attempts, b)
        /\ 4 * Backoff(attempts, b) <= 5 * B
    BY <1>1, <2>3, BackoffBounds
  <2>5. waited >= BaseDelay * (p - 1) /\ 4 * waited <= 5 * BaseDelay * (p - 1)
    BY <1>1, <2>2 DEF WaitsCounted, TotalWaitIsGeometric
  <2> HIDE DEF p
  <2>6. /\ BaseDelay * (p - 1) = B - BaseDelay /\ 5 * BaseDelay * (p - 1) = 5 * B - 5 * BaseDelay
        /\ BaseDelay * (2 * p - 1) = 2 * B - BaseDelay
        /\ 5 * BaseDelay * (2 * p - 1) = 10 * B - 5 * BaseDelay
        /\ B \in Nat /\ BaseDelay \in Nat
    BY <2>3, BaseDelayAssumption
  <2> HIDE DEF B
  <2> QED
    BY <1>1, <2>1, <2>3, <2>4, <2>5, <2>6
<1>3. CASE verdict' # "scheduled"
  <2>1. Waits' = Waits /\ waited' = waited
    BY <1>1, <1>3 DEF Waits
  <2> QED
    BY <2>1 DEF WaitsCounted, TotalWaitIsGeometric
<1> QED
  BY <1>2, <1>3

(***************************************************************************)
(* How long the retries of one notification take in all: until the shift   *)
(* is capped the waits add up to 2^k - 1 base delays and at most a quarter *)
(* more, for every base delay, jitter and bound on the attempts.           *)
(***************************************************************************)
THEOREM RetriesTakeKnownTime == Spec => []TotalWaitIsGeometric
<1>1. IInv /\ WaitsCounted /\ [Next]_vars => (IInv /\ WaitsCounted)'
  <2>1. UNCHANGED vars /\ WaitsCounted => WaitsCounted'
    BY DEF vars, WaitsCounted, Waits, TotalWaitIsGeometric
  <2> QED
    BY <2>1, InvStep, WaitsStep DEF Next
<1>2. Init => IInv /\ WaitsCounted
  BY InitStep, WaitsStart
<1>3. WaitsCounted => TotalWaitIsGeometric
  BY DEF WaitsCounted
<1> QED
  BY <1>1, <1>2, <1>3, PTL DEF Spec
=============================================================================

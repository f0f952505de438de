---------------------------- MODULE RetryPolicy ----------------------------
(***************************************************************************)
(* What the service decides about one provider call: whether the response  *)
(* counts as delivered, whether it is worth another try, and how long the  *)
(* next try waits.  Pure operators of internal/service/service.go, used by *)
(* the state machines Delivery and RetrySchedule.                          *)
(***************************************************************************)
EXTENDS Integers

CONSTANTS
  StatusCodes,   \* HTTP status codes a provider may answer with
  MaxAttempts,   \* notifications.max_attempts, 3 for every row the service creates
  BaseDelay,     \* the base of the backoff, 2 seconds in the code's time unit
  JitterBytes    \* values of the random byte the jitter is drawn from

ASSUME StatusCodesAssumption == StatusCodes \subseteq 100..599
ASSUME MaxAttemptsAssumption == MaxAttempts \in Nat \ {0}
ASSUME BaseDelayAssumption   == BaseDelay \in Nat \ {0}
ASSUME JitterBytesAssumption == JitterBytes \subseteq 0..255

(***************************************************************************)
(* What provider.Client.Send gives back: a status code, 0 when no answer   *)
(* arrived, and whether an error came with it.  The error of an answered   *)
(* call is a body that does not decode as JSON; the code survives it.      *)
(***************************************************************************)
Response ==
  {r \in [code : StatusCodes \cup {0}, err : BOOLEAN] : r.code = 0 => r.err}

\* The provider took the message, whatever the service makes of its answer.
ProviderTook(r) == 200 <= r.code /\ r.code < 300

IsAccepted(r) == ~r.err /\ ProviderTook(r)

\* Defect for the mutation runs: the status code is looked at before the error.
ShouldRetryCodeFirst(r) ==
  r.code \in {408, 429} \/ r.code >= 500

ShouldRetryDelivery(r) ==
  r.err \/ r.code \in {408, 429} \/ r.code >= 500

\* Defects for the mutation runs: the bound of the attempts is off by one;
\* exhausted retries are reported as permanent failures.
OutcomeOneTooMany(r, attempt) ==
  IF IsAccepted(r) THEN "delivered"
  ELSE IF ~ShouldRetryDelivery(r) THEN "failed"
  ELSE IF attempt <= MaxAttempts THEN "scheduled" ELSE "dead_letter"

OutcomeNoDeadLetter(r, attempt) ==
  IF IsAccepted(r) THEN "delivered"
  ELSE IF ShouldRetryDelivery(r) /\ attempt < MaxAttempts THEN "scheduled" ELSE "failed"

\* The status ProcessChannel writes after try number attempt was answered by r.
Outcome(r, attempt) ==
  IF IsAccepted(r) THEN "delivered"
  ELSE IF ~ShouldRetryDelivery(r) THEN "failed"
  ELSE IF attempt < MaxAttempts THEN "scheduled" ELSE "dead_letter"

(***************************************************************************)
(* backoff and addJitter.  1 << attempts is read off for the five shifts   *)
(* the cap leaves; the jitter is one random byte in 1024ths of the delay.  *)
(***************************************************************************)
\* Defect for the mutation runs: the first retry already counts as a shift.
BackoffBaseShifted(attempts) ==
  IF attempts <= 1 THEN 2 * BaseDelay
  ELSE BaseDelay * <<2, 4, 8, 16, 32>>[IF attempts > 5 THEN 5 ELSE attempts]

BackoffBase(attempts) ==
  IF attempts <= 0 THEN BaseDelay
  ELSE BaseDelay * <<2, 4, 8, 16, 32>>[IF attempts > 5 THEN 5 ELSE attempts]

\* Defect for the mutation runs: the byte is scaled by 128, a jitter of up to twice the delay.
JitterTooWide(delay, b) == delay + (b * delay) \div 128

AddJitter(delay, b) == delay + (b * delay) \div 1024

Backoff(attempts, b) == AddJitter(BackoffBase(attempts), b)
=============================================================================

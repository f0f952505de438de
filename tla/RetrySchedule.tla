--------------------------- MODULE RetrySchedule ---------------------------
(***************************************************************************)
(* The tries one notification goes through when nothing but the provider's *)
(* answers and the jitter decides: the loop body of ProcessChannel seen    *)
(* from a single row whose database writes all succeed.                    *)
(***************************************************************************)
EXTENDS RetryPolicy

VARIABLES
  verdict,   \* the row's status, "pending" before the first try
  attempts,  \* notifications.attempts
  delay,     \* the wait before the next try, 0 while none is scheduled
  waited,    \* all the waits so far
  answer     \* the provider's last answer

vars == <<verdict, attempts, delay, waited, answer>>

NoAnswer == [code |-> 0, err |-> FALSE]

TypeOK ==
  /\ verdict \in {"pending", "scheduled", "delivered", "failed", "dead_letter"}
  /\ attempts \in 0..MaxAttempts
  /\ delay \in Nat
  /\ waited \in Nat
  /\ answer \in Response \cup {NoAnswer}

Init ==
  /\ verdict = "pending"
  /\ attempts = 0
  /\ delay = 0
  /\ waited = 0
  /\ answer = NoAnswer

\* The provider is called, and the row written with what its answer r and the jitter byte b make of it.
Try(r, b) ==
  /\ verdict \in {"pending", "scheduled"}
  /\ answer' = r
  /\ verdict' = Outcome(r, attempts + 1)
  /\ attempts' = attempts + 1
  /\ delay' = IF verdict' = "scheduled" THEN Backoff(attempts, b) ELSE 0
  /\ waited' = waited + delay'

Next == \E r \in Response, b \in JitterBytes : Try(r, b)

Spec == Init /\ [][Next]_vars

-----------------------------------------------------------------------------

(***************************************************************************)
(* A wait that follows a wait is strictly longer, whatever the two jitter  *)
(* bytes were, until the shift is capped; from there on no wait is shorter *)
(* than the capped one.  (README: "Retries use exponential backoff with    *)
(* jitter"; backoff, addJitter.)                                           *)
(***************************************************************************)
EachWaitLonger ==
  [][verdict = "scheduled" /\ verdict' = "scheduled"
       => IF attempts <= 5 THEN delay' > delay ELSE delay' >= 32 * BaseDelay]_vars

Waits == IF verdict \in {"pending", "scheduled"} THEN attempts ELSE attempts - 1

(***************************************************************************)
(* Before the cap k waits add up to between 2^k - 1 base delays and a      *)
(* quarter more: the time a notification spends in retries is known up to  *)
(* the jitter (backoff is called with the tries made before this one).     *)
(***************************************************************************)
TotalWaitIsGeometric ==
  Waits <= 6 =>
    /\ waited >= BaseDelay * (2^Waits - 1)
    /\ 4 * waited <= 5 * BaseDelay * (2^Waits - 1)

(***************************************************************************)
(* The last status tells which way the tries ended: a dead letter has used *)
(* every try and its last answer was worth another, a failed row was       *)
(* answered with a definite refusal, a delivered one with a 2xx, and a row *)
(* waiting for a retry still has a try left (shouldRetryDelivery and the   *)
(* three branches of ProcessChannel).                                      *)
(***************************************************************************)
VerdictExplained ==
  CASE verdict = "dead_letter" -> attempts = MaxAttempts /\ (answer.err \/ answer.code \in {408, 429} \cup 500..599)
    [] verdict = "failed"      -> ~answer.err /\ answer.code \in (100..199 \cup 300..499) \ {408, 429}
    [] verdict = "delivered"   -> ~answer.err /\ answer.code \in 200..299
    [] verdict = "scheduled"   -> attempts < MaxAttempts
    [] OTHER                   -> attempts = 0

(***************************************************************************)
(* What README.md:182 says of the retries, "non-retryable provider         *)
(* responses fail immediately", for the refusals: a 4xx other than 408 and *)
(* 429 ends the notification as failed.  It does not hold when the body of *)
(* the refusal is not JSON: the decode error makes it retryable.           *)
(***************************************************************************)
RefusalFailsImmediately ==
  answer.code \in (400..499) \ {408, 429} => verdict = "failed"
=============================================================================

-------------------------- MODULE MCRetrySchedule --------------------------
(* One code of each class and the two retryable refusals; the extreme jitter bytes and one between. *)
EXTENDS RetrySchedule

MCStatusCodes == {202, 302, 400, 408, 429, 503}
MCJitterBytes == {0, 100, 255}
=============================================================================

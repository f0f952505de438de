----------------------------- MODULE MCDelivery -----------------------------
(* Constant values for TLC: one channel with two workers, or two channels with one each, and one code of each class. *)
EXTENDS Delivery, TLC

CONSTANTS n1, n2, w1, w2, sms, push

OneChannel == {sms}
TwoChannels == {sms, push}

NotificationsOnSms == [n \in Notifications |-> sms]
WorkersOnSms == [w \in Workers |-> sms]
SplitWorkers == [w \in Workers |-> IF w = w1 THEN sms ELSE push]

AllFaults == {"deadline", "crash", "lost_claim", "lost_mark", "lost_event"}
OnlyDeadlines == {"deadline"}
NoFaults == {}

MCStatusCodes == {202, 400, 503}
NoRefusals == {202, 503}
MCJitterBytes == {0}

Symmetry == Permutations(Notifications) \cup Permutations(Workers)
=============================================================================

----------------------------- MODULE Lifecycle -----------------------------
(***************************************************************************)
(* What the service promises about the status of a notification, for the   *)
(* clients of GET /notifications/{id}: the statuses of internal/domain and *)
(* the moves between them, with the one hidden fact they depend on, whether*)
(* a worker has the row in hand.  Delivery is shown to implement it.       *)
(***************************************************************************)
EXTENDS Naturals

CONSTANTS Notifications, MaxAttempts

Absent   == "absent"     \* not inserted yet; not a status of the code
Waiting  == {"pending", "scheduled"}
Final    == {"delivered", "failed", "dead_letter"}
Statuses == Waiting \cup Final \cup {"processing", "cancelled"}

VARIABLES
  status,    \* status of each notification
  attempts,  \* tries whose outcome was written
  inHand     \* notifications a worker has claimed and not yet written or dropped

vars == <<status, attempts, inHand>>

Init ==
  /\ status = [n \in Notifications |-> Absent]
  /\ attempts = [n \in Notifications |-> 0]
  /\ inHand = {}

\* Every notification of S moves to the status st gives it, the others stay.
Move(S, st) == status' = [n \in Notifications |-> IF n \in S THEN st[n] ELSE status[n]]

MoveAll(S, to) == Move(S, [n \in S |-> to])

Accept(S, st) ==
  /\ \A n \in S : status[n] = Absent
  /\ st \in [S -> Waiting]
  /\ Move(S, st)
  /\ UNCHANGED <<attempts, inHand>>

\* Waiting rows are taken for delivery; H are those whose worker learns of it.
Claim(S, H) ==
  /\ \A n \in S : status[n] \in Waiting
  /\ H \in {{}, S}
  /\ MoveAll(S, "processing")
  /\ inHand' = inHand \cup H
  /\ UNCHANGED attempts

\* The outcome of a try is written: final, or back to waiting while tries are left.
Resolve(n, to) ==
  /\ n \in inHand
  /\ attempts[n] < MaxAttempts
  /\ to \in Final \cup {"scheduled"}
  /\ to = "scheduled" => attempts[n] + 1 < MaxAttempts
  /\ to = "dead_letter" => attempts[n] + 1 = MaxAttempts
  /\ MoveAll({n}, to)
  /\ attempts' = [attempts EXCEPT ![n] = @ + 1]
  /\ inHand' = inHand \ {n}

\* Rows are let go without an outcome: nobody will write it any more.
Abandon(S) ==
  /\ S \subseteq inHand
  /\ inHand' = inHand \ S
  /\ UNCHANGED <<status, attempts>>

Cancel(S) ==
  /\ \A n \in S : status[n] \in Waiting \cup {"processing"}
  /\ MoveAll(S, "cancelled")
  /\ UNCHANGED <<attempts, inHand>>

Next ==
  \/ \E S \in SUBSET Notifications : \E st \in [S -> Waiting] : Accept(S, st)
  \/ \E S \in SUBSET Notifications : \E H \in {{}, S} : Claim(S, H)
  \/ \E n \in Notifications, to \in Final \cup {"scheduled"} : Resolve(n, to)
  \/ \E S \in SUBSET Notifications : Abandon(S) \/ Cancel(S)

Spec == Init /\ [][Next]_vars
=============================================================================

------------------------------- MODULE Intake -------------------------------
(***************************************************************************)
(* What the two create operations promise their clients: a request's rows  *)
(* enter the table all at once, at most once and only while the request is *)
(* under way, under keys no other row has; a key is given to one batch for *)
(* good; an answer shows the request's own rows, those its key stood for,  *)
(* or none.  Creation is shown to implement it.                            *)
(***************************************************************************)
EXTENDS Naturals, Sequences

CONSTANTS Requests, Keys, NoKey, MaxRequests

NoBatch == 0

VARIABLES
  rows,    \* committed notifications
  mapping, \* the batch of each key
  asked,   \* the requests so far; a request's place is the id of its batch
  open,    \* requests that are neither answered nor dead
  answers

vars == <<rows, mapping, asked, open, answers>>

Init ==
  /\ rows = {}
  /\ mapping = [k \in Keys |-> NoBatch]
  /\ asked = <<>>
  /\ open = {}
  /\ answers = {}

\* The rows of request b.
Own(b) == {[batch |-> b, item |-> i, key |-> asked[b].items[i]] : i \in DOMAIN asked[b].items}

\* The rows that the key of request b stands for.
Known(b) ==
  CASE asked[b].key = NoKey     -> {}
    [] asked[b].kind = "single" -> {row \in rows : row.key = asked[b].key}
    [] asked[b].kind = "batch"  -> {row \in rows : row.batch = mapping[asked[b].key]}

Ask(r) ==
  /\ Len(asked) < MaxRequests
  /\ asked' = Append(asked, r)
  /\ open' = open \cup {Len(asked')}
  /\ UNCHANGED <<rows, mapping, answers>>

Store(b) ==
  /\ asked[b].valid
  /\ \A row \in rows : row.batch # b
  /\ \A x \in Own(b), y \in rows \cup Own(b) : x # y /\ x.key = y.key => x.key = NoKey
  /\ rows' = rows \cup Own(b)

GiveKey(b) ==
  /\ Own(b) \subseteq rows
  /\ asked[b].key # NoKey /\ mapping[asked[b].key] = NoBatch
  /\ mapping' = [mapping EXCEPT ![asked[b].key] = b]

Tell(b) ==
  /\ open' = open \ {b}
  /\ \E rs \in {{}, Own(b), Known(b)} :
       /\ rs \subseteq rows'
       /\ answers' = answers \cup {[kind |-> asked[b].kind, key |-> asked[b].key, rows |-> rs]}

Serve(b) ==
  /\ b \in open
  /\ Store(b) \/ UNCHANGED rows
  /\ GiveKey(b) \/ UNCHANGED mapping
  /\ Tell(b) \/ UNCHANGED <<open, answers>>
  /\ UNCHANGED asked

\* The clients of S are not answered and their requests change nothing any more.
Abandon(S) ==
  /\ open' = open \ S
  /\ UNCHANGED <<rows, mapping, asked, answers>>

Next ==
  \/ \E r \in Requests : Ask(r)
  \/ \E b \in open : Serve(b)
  \/ \E S \in SUBSET open : Abandon(S)

Spec == Init /\ [][Next]_vars
=============================================================================

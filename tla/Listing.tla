------------------------------ MODULE Listing ------------------------------
(***************************************************************************)
(* GET /notifications, /notifications/dead-letter and                      *)
(* /notifications/{id}/events: clients walk through a list page by page    *)
(* with limit and offset, one SELECT per page, while handlers insert rows  *)
(* and workers move them in and out of what the list shows.                *)
(*                                                                         *)
(* A list is told from another by when rows enter and leave it, which      *)
(* follows from the life cycle of the row (module Lifecycle), and by the   *)
(* direction of its ORDER BY.                                              *)
(***************************************************************************)
EXTENDS Integers, FiniteSets

CONSTANTS
  Rows,          \* notifications that meet the other conditions of the query, or events of one
  Walkers,       \* clients
  Lists,         \* the lists of this instance, out of those of ListKinds
  Asked,         \* values of the query parameter "limit"; none or no number counts as 0 here
  DefaultLimit,  \* 50
  MaxLimit       \* 100

(***************************************************************************)
(* "all": no status asked for; "ended": a final status, as in the list of  *)
(* dead letters; "passing": any other status; "events".                    *)
(***************************************************************************)
ListKinds == {"all", "ended", "passing", "events"}

ASSUME ListsAssumption  == Lists \subseteq ListKinds
ASSUME LimitsAssumption ==
  /\ Asked \subseteq Int
  /\ DefaultLimit \in Nat \ {0} /\ MaxLimit \in Nat /\ DefaultLimit <= MaxLimit
ASSUME RowsAssumption   == IsFiniteSet(Rows)

VARIABLES
  list,    \* the list the clients look at
  place,   \* of each row: "none", "drawn" before the commit, "in" the list, "out" of it
  key,     \* created_at, or the id of an event; 0 before it is drawn
  latest,  \* the last key drawn
  \* the clients
  pc,      \* "idle", "walking", "done"
  limit,   \* the limit of a client's pages
  offset,  \* the offset of its next page
  times,   \* how often it has been shown each row
  \* history of each walk
  steady,  \* rows in the list since before its first page
  came,    \* rows that came into the list since then
  left     \* rows that left it

table == <<list, place, key, latest>>
walks == <<pc, limit, offset, times, steady, came, left>>
vars  == <<table, walks>>

In == {r \in Rows : place[r] = "in"}

TypeOK ==
  /\ list \in Lists
  /\ place \in [Rows -> {"none", "drawn", "in", "out"}]
  /\ key \in [Rows -> 0..latest]
  /\ latest \in Nat
  /\ pc \in [Walkers -> {"idle", "walking", "done"}]
  /\ limit \in [Walkers -> 1..MaxLimit]
  /\ offset \in [Walkers -> Nat]
  /\ times \in [Walkers -> [Rows -> Nat]]
  /\ steady \in [Walkers -> SUBSET In]
  /\ came \in [Walkers -> SUBSET Rows]
  /\ left \in [Walkers -> SUBSET Rows]

NotShown == [r \in Rows |-> 0]

Init ==
  /\ list \in Lists
  /\ place = [r \in Rows |-> "none"]
  /\ key = [r \in Rows |-> 0]
  /\ latest = 0
  /\ pc = [w \in Walkers |-> "idle"]
  /\ limit = [w \in Walkers |-> DefaultLimit]
  /\ offset = [w \in Walkers |-> 0]
  /\ times = [w \in Walkers |-> NotShown]
  /\ steady = [w \in Walkers |-> {}]
  /\ came = [w \in Walkers |-> {}]
  /\ left = [w \in Walkers |-> {}]

Walking == {w \in Walkers : pc[w] = "walking"}
-----------------------------------------------------------------------------
(* The table *)

\* time.Now() of a create handler, for all rows of its request, or nextval of BIGSERIAL.
Draw(S) ==
  /\ S # {} /\ \A r \in S : place[r] = "none"
  /\ list = "events" => Cardinality(S) = 1
  /\ latest' = latest + 1
  /\ key' = [r \in Rows |-> IF r \in S THEN latest + 1 ELSE key[r]]
  /\ place' = [r \in Rows |-> IF r \in S THEN "drawn" ELSE place[r]]
  /\ UNCHANGED <<list, walks>>

\* The rows of C come into the list and those of L leave it, under the eyes of the clients.
Shift(C, L) ==
  /\ came' = [w \in Walkers |-> IF w \in Walking THEN came[w] \cup C ELSE came[w]]
  /\ left' = [w \in Walkers |-> IF w \in Walking THEN left[w] \cup L ELSE left[w]]
  /\ steady' = [w \in Walkers |-> steady[w] \ L]

\* How much of an insert the list shows at once.
ShownAtOnce(S) ==
  CASE list \in {"all", "events"} -> {S}
    [] list = "passing" -> SUBSET S
    [] list = "ended" -> {{}}

\* The transaction of InsertNotifications, or the INSERT of an event, commits: in any order of the keys.
Commit(S) ==
  /\ S # {} /\ \E r \in S : S = {m \in Rows : key[m] = key[r]}
  /\ \A r \in S : place[r] = "drawn"
  /\ \E C \in ShownAtOnce(S) :
       /\ place' = [r \in Rows |-> IF r \in C THEN "in" ELSE IF r \in S THEN "out" ELSE place[r]]
       /\ Shift(C, {})
  /\ UNCHANGED <<list, key, latest, pc, limit, offset, times>>

\* A claim, a cancel or a write gives the row the status the list shows, or another one.
Enter(r) ==
  /\ list \in {"ended", "passing"} /\ place[r] = "out"
  /\ place' = [place EXCEPT ![r] = "in"]
  /\ Shift({r}, {})
  /\ UNCHANGED <<list, key, latest, pc, limit, offset, times>>

Leave(r) ==
  /\ list = "passing" /\ place[r] = "in"
  /\ place' = [place EXCEPT ![r] = "out"]
  /\ Shift({}, {r})
  /\ UNCHANGED <<list, key, latest, pc, limit, offset, times>>
-----------------------------------------------------------------------------
(* Pages *)

\* Defects for the mutation runs: only one end of the range is looked after; no ORDER BY.
BoundedLimitAbove(n) == IF n > MaxLimit THEN MaxLimit ELSE n
BoundedLimitBelow(n) == IF n <= 0 THEN DefaultLimit ELSE n
BeforeNever(m, r) == FALSE

BoundedLimit(n) == IF n <= 0 THEN DefaultLimit ELSE IF n > MaxLimit THEN MaxLimit ELSE n

\* ORDER BY created_at DESC, or id ASC.
Before(m, r) == IF list = "events" THEN key[m] < key[r] ELSE key[m] > key[r]

\* What the first k rows may be; rows that tie come in any order, in each query anew.
Fronts(k) ==
  {P \in SUBSET In :
     /\ Cardinality(P) = IF k < Cardinality(In) THEN k ELSE Cardinality(In)
     /\ \A m \in P : \A r \in In \ P : ~Before(r, m)}

\* LIMIT n OFFSET k.
Pages(n, k) == {S \in SUBSET In : \E P \in Fronts(k) : P \cap S = {} /\ P \cup S \in Fronts(k + n)}

\* Defect for the mutation runs: a full page is taken for the last one.
HasMoreNever(n, returned) == returned > n

HasMore(n, returned) == returned = n

\* A client starts a walk; how many rows it wants on a page is for boundedLimit to decide.
Begin(w) ==
  /\ pc[w] = "idle"
  /\ pc' = [pc EXCEPT ![w] = "walking"]
  /\ \E n \in Asked : limit' = [limit EXCEPT ![w] = BoundedLimit(n)]
  /\ steady' = [steady EXCEPT ![w] = In]
  /\ UNCHANGED <<table, offset, times, came, left>>

\* One request: the query and the pagination of the answer, which the client goes by.
Page(w) ==
  /\ pc[w] = "walking"
  /\ \E S \in Pages(limit[w], offset[w]) :
       /\ times' = [times EXCEPT ![w] = [r \in Rows |-> IF r \in S THEN @[r] + 1 ELSE @[r]]]
       /\ offset' = [offset EXCEPT ![w] = @ + Cardinality(S)]
       /\ pc' = [pc EXCEPT ![w] = IF HasMore(limit[w], Cardinality(S)) THEN "walking" ELSE "done"]
  /\ UNCHANGED <<table, limit, steady, came, left>>
-----------------------------------------------------------------------------
Next ==
  \/ \E S \in SUBSET Rows : Draw(S) \/ Commit(S)
  \/ \E r \in Rows : Enter(r) \/ Leave(r)
  \/ \E w \in Walkers : Begin(w) \/ Page(w)

Spec == Init /\ [][Next]_vars

\* A client that walks asks for its next page; nothing else has to happen.
FairSpec == Spec /\ \A w \in Walkers : WF_vars(Page(w))
-----------------------------------------------------------------------------
Tied(r) == \E m \in Rows \ {r} : key[m] = key[r]

(***************************************************************************)
(* Whatever happens during a walk, a row that was in the list from its     *)
(* start to its end is passed over only when the ORDER BY leaves its place *)
(* open, or when a row at or before its place has left the list.  So no    *)
(* walk through all notifications, the dead letters or the events misses a *)
(* row with a created_at of its own, inserts that commit late or not.      *)
(* (List, ListEvents, the Pagination of the handlers.)                     *)
(***************************************************************************)
MissedOnlyForCause ==
  \A w \in Walkers : pc[w] = "done" =>
    \A r \in steady[w] :
      times[w][r] > 0 \/ Tied(r) \/ \E m \in left[w] : ~Before(r, m)

(***************************************************************************)
(* A row is shown twice only when it ties with another, or when a row at or*)
(* before its place has come into the list during the walk: for the events *)
(* only when an event with a smaller id has committed late.                *)
(***************************************************************************)
TwiceOnlyForCause ==
  \A w \in Walkers, r \in Rows :
    times[w][r] > 1 => Tied(r) \/ \E m \in came[w] : ~Before(r, m)

(***************************************************************************)
(* Every walk ends, whatever limit the client asks for and however rows    *)
(* come and go: HasMore is not true for ever.  (boundedLimit, HasMore.)    *)
(***************************************************************************)
WalksEnd == \A w \in Walkers : pc[w] = "walking" ~> pc[w] = "done"
=============================================================================

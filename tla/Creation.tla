------------------------------ MODULE Creation ------------------------------
(***************************************************************************)
(* POST /notifications and POST /notifications/batches with idempotency    *)
(* keys: concurrent handlers look a key up, insert rows in one transaction *)
(* under the unique index on (tenant, key) and write the key's mapping to  *)
(* its batch, one action per statement.  All statements name the tenant    *)
(* next to the key: a key of this module stands for the pair.              *)
(***************************************************************************)
EXTENDS Naturals, Sequences, FiniteSets

CONSTANTS
  Handlers,    \* goroutines serving requests
  Requests,    \* requests clients may send, see Request
  Keys,        \* (tenant, idempotency key) pairs
  NoKey,       \* no key given: NULL in the tables
  MaxRequests, \* bound of this model: requests in all
  FaultKinds,  \* which faults may strike
  MaxFaults    \* bound of this model: how many may

(***************************************************************************)
(* A single create is one item that carries the key of its request; the    *)
(* items of a batch carry keys of their own.  valid: all items pass        *)
(* validateRequest.  Batches of no or of more than 1000 items are refused  *)
(* before anything else happens, they are no requests here.                *)
(***************************************************************************)
Request ==
  [kind : {"single", "batch"}, key : Keys \cup {NoKey}, items : Seq(Keys \cup {NoKey}), valid : BOOLEAN]

ASSUME RequestsAssumption ==
  /\ Requests \subseteq Request
  /\ \A r \in Requests : r.items # <<>> /\ (r.kind = "single" => r.items = <<r.key>>)
ASSUME KeysAssumption == NoKey \notin Keys
ASSUME HandlersAssumption == IsFiniteSet(Handlers)
ASSUME BoundsAssumption ==
  /\ MaxRequests \in Nat /\ MaxFaults \in Nat
  /\ FaultKinds \subseteq {"lookup", "statement", "lost_commit", "mapping", "crash"}

Batches == 1..MaxRequests \* the ids newID draws, one per request
NoBatch == 0

VARIABLES
  \* the database
  rows,     \* committed rows of notifications
  mapping,  \* notification_requests: the batch of each key
  \* the handlers
  pc,       \* "idle", "lookup", "insert", "map"
  batch,    \* batchID of the request each handler works on, NoBatch while idle
  inserted, \* keys of the rows inserted in the handler's open transaction
  \* history
  asked,    \* the requests so far, by batch id
  answers,  \* answers given: the rows they show, none for an error
  repeats,  \* batch requests made after a success with their key and not kept from looking it up
  faults

vars == <<rows, mapping, pc, batch, inserted, asked, answers, repeats, faults>>

RowsOf(b, r) == {[batch |-> b, item |-> i, key |-> r.items[i]] : i \in DOMAIN r.items}

Row == UNION {RowsOf(b, r) : b \in Batches, r \in Requests}

TypeOK ==
  /\ rows \subseteq Row
  /\ mapping \in [Keys -> Batches \cup {NoBatch}]
  /\ pc \in [Handlers -> {"idle", "lookup", "insert", "map"}]
  /\ batch \in [Handlers -> Batches \cup {NoBatch}]
  /\ inserted \in [Handlers -> Seq(Keys \cup {NoKey})]
  /\ \A h \in Handlers :
       /\ pc[h] # "insert" => inserted[h] = <<>>
       /\ pc[h] = "idle" <=> batch[h] = NoBatch
  /\ asked \in Seq(Requests) /\ Len(asked) <= MaxRequests
  /\ \A a \in answers : a.kind \in {"single", "batch"} /\ a.key \in Keys \cup {NoKey} /\ a.rows \subseteq Row
  /\ repeats \subseteq Batches
  /\ faults \in 0..MaxFaults

Init ==
  /\ rows = {}
  /\ mapping = [k \in Keys |-> NoBatch]
  /\ pc = [h \in Handlers |-> "idle"]
  /\ batch = [h \in Handlers |-> NoBatch]
  /\ inserted = [h \in Handlers |-> <<>>]
  /\ asked = <<>>
  /\ answers = {}
  /\ repeats = {}
  /\ faults = 0

Fault(kind) == kind \in FaultKinds /\ faults < MaxFaults /\ faults' = faults + 1

req(h) == asked[batch[h]]

GoTo(h, step) == pc' = [pc EXCEPT ![h] = step]

\* The handler goes on with its request.
GoOnTo(h, step) == GoTo(h, step) /\ UNCHANGED <<batch, answers>>

\* The handler answers its client with rs, with an error when rs is empty.
Answer(h, rs) ==
  /\ GoTo(h, "idle")
  /\ batch' = [batch EXCEPT ![h] = NoBatch]
  /\ answers' = answers \cup {[kind |-> req(h).kind, key |-> req(h).key, rows |-> rs]}

\* Somebody has been shown a batch under the key of r before.
Repeats(r) ==
  /\ r.kind = "batch" /\ r.key # NoKey
  /\ \E a \in answers : a.kind = "batch" /\ a.key = r.key /\ a.rows # {}

Begin(h, r) ==
  /\ pc[h] = "idle" /\ Len(asked) < MaxRequests
  /\ asked' = Append(asked, r)
  /\ batch' = [batch EXCEPT ![h] = Len(asked')]
  /\ GoTo(h, "lookup")
  /\ repeats' = IF Repeats(r) THEN repeats \cup {Len(asked')} ELSE repeats
  /\ UNCHANGED <<rows, mapping, inserted, answers, faults>>

\* Defect for the mutation runs: a batch request is looked up as a single one is.
FoundByItemKey(h) ==
  IF req(h).key = NoKey THEN {} ELSE {row \in rows : row.key = req(h).key}

\* GetByIdempotencyKey, or GetBatchIDByKey and GetByBatch; a batch never changes once it is committed.
Found(h) ==
  CASE req(h).key = NoKey     -> {}
    [] req(h).kind = "single" -> {row \in rows : row.key = req(h).key}
    [] req(h).kind = "batch"  -> {row \in rows : row.batch = mapping[req(h).key]}

\* A single request is validated before it is looked up, a batch after it.
LookUp(h) ==
  /\ pc[h] = "lookup"
  /\ LET found == IF req(h).kind = "single" /\ ~req(h).valid THEN {} ELSE Found(h)
     IN  IF found = {} /\ req(h).valid
           THEN GoOnTo(h, "insert")
           ELSE Answer(h, found)
  /\ UNCHANGED <<rows, mapping, inserted, asked, repeats, faults>>

\* Any error of the lookup counts as "not found"; one of GetByBatch, after the mapping was found, is answered.
LookUpFails(h) ==
  /\ pc[h] = "lookup" /\ req(h).key # NoKey /\ Fault("lookup")
  /\ req(h).kind = "single" => req(h).valid
  /\ \/ req(h).valid /\ GoOnTo(h, "insert")
     \/ ~req(h).valid /\ Answer(h, {})
     \/ req(h).kind = "batch" /\ mapping[req(h).key] # NoBatch /\ Answer(h, {})
  /\ repeats' = repeats \ {batch[h]}
  /\ UNCHANGED <<rows, mapping, inserted, asked>>
-----------------------------------------------------------------------------
(* InsertNotifications: one transaction, one INSERT after the other. *)

Pending(h) == {inserted[h][i] : i \in DOMAIN inserted[h]} \ {NoKey}

NextKey(h) == req(h).items[Len(inserted[h]) + 1]
Inserting(h) == pc[h] = "insert" /\ Len(inserted[h]) < Len(req(h).items)

\* Defect for the mutation runs: the index is not unique.
TakenNever(h) == FALSE

Taken(h) == NextKey(h) \in {row.key : row \in rows} \cup Pending(h) /\ NextKey(h) # NoKey

\* The INSERT waits for a transaction that has put the same key into the index.
WaitsFor(h, g) == g # h /\ Inserting(h) /\ ~Taken(h) /\ NextKey(h) \in Pending(g)

Insert(h) ==
  /\ Inserting(h) /\ ~Taken(h)
  /\ \A g \in Handlers : ~WaitsFor(h, g)
  /\ inserted' = [inserted EXCEPT ![h] = Append(@, NextKey(h))]
  /\ UNCHANGED <<rows, mapping, pc, batch, asked, answers, repeats, faults>>

\* Defects for the mutation runs: the transaction is left open; what it inserted stays.
RollbackForgotten(h) == UNCHANGED <<inserted, rows>>
RollbackKeepsRows(h) ==
  /\ inserted' = [inserted EXCEPT ![h] = <<>>]
  /\ rows' = rows \cup {row \in RowsOf(batch[h], req(h)) : row.item <= Len(inserted[h])}

\* The deferred tx.Rollback.
Rollback(h) == inserted' = [inserted EXCEPT ![h] = <<>>] /\ UNCHANGED rows

(***************************************************************************)
(* The key is taken.  A single create looks for "unique constraint failed" *)
(* in the error, which PostgreSQL words "duplicate key value violates      *)
(* unique constraint": the lookup after it is never reached.               *)
(***************************************************************************)
InsertRefused(h) ==
  /\ Inserting(h) /\ Taken(h)
  /\ Rollback(h)
  /\ Answer(h, {})
  /\ UNCHANGED <<mapping, asked, repeats, faults>>

\* PostgreSQL finds the handlers that wait for each other in a circle and fails a statement of one of them.
Deadlocked(h) ==
  LET waiting == {f \in Handlers : \E g \in Handlers : WaitsFor(f, g)}
  IN  \E S \in SUBSET waiting :
        /\ h \in S
        /\ \A f \in S : \E before, after \in S : WaitsFor(before, f) /\ WaitsFor(f, after)

DeadlockVictim(h) ==
  /\ Deadlocked(h)
  /\ Rollback(h)
  /\ Answer(h, {})
  /\ UNCHANGED <<mapping, asked, repeats, faults>>

StatementFails(h) ==
  /\ pc[h] = "insert" /\ Fault("statement")
  /\ Rollback(h)
  /\ Answer(h, {})
  /\ UNCHANGED <<mapping, asked, repeats>>

Committed(h) == pc[h] = "insert" /\ ~Inserting(h) /\ rows' = rows \cup RowsOf(batch[h], req(h))

Commit(h) ==
  /\ Committed(h)
  /\ inserted' = [inserted EXCEPT ![h] = <<>>]
  /\ IF req(h).key = NoKey THEN Answer(h, RowsOf(batch[h], req(h))) ELSE GoOnTo(h, "map")
  /\ UNCHANGED <<mapping, asked, repeats, faults>>

\* The rows are there and the handler is told of an error.
LoseCommit(h) ==
  /\ Committed(h) /\ Fault("lost_commit")
  /\ inserted' = [inserted EXCEPT ![h] = <<>>]
  /\ Answer(h, {})
  /\ UNCHANGED <<mapping, asked, repeats>>
-----------------------------------------------------------------------------
\* UpsertRequestMapping: ON CONFLICT DO NOTHING.
Mapped(h) == [mapping EXCEPT ![req(h).key] = IF @ = NoBatch THEN batch[h] ELSE @]

Map(h) ==
  /\ pc[h] = "map"
  /\ mapping' = Mapped(h)
  /\ Answer(h, RowsOf(batch[h], req(h)))
  /\ UNCHANGED <<rows, inserted, asked, repeats, faults>>

\* Defect for the mutation runs: a batch ignores the error as a single create does.
MapFailsQuietly(h) ==
  /\ pc[h] = "map" /\ Fault("mapping")
  /\ Answer(h, RowsOf(batch[h], req(h)))
  /\ UNCHANGED <<rows, mapping, inserted, asked, repeats>>

\* A single create ignores the error, a batch answers with it although its rows will be delivered.
MapFails(h) ==
  /\ pc[h] = "map" /\ Fault("mapping")
  /\ Answer(h, IF req(h).kind = "single" THEN RowsOf(batch[h], req(h)) ELSE {})
  /\ UNCHANGED <<rows, mapping, inserted, asked, repeats>>

\* The process dies: open transactions are rolled back, nobody is answered.
Crash ==
  /\ Fault("crash")
  /\ pc' = [h \in Handlers |-> "idle"]
  /\ batch' = [h \in Handlers |-> NoBatch]
  /\ inserted' = [h \in Handlers |-> <<>>]
  /\ UNCHANGED <<rows, mapping, asked, answers, repeats>>

Proceed(h) == LookUp(h) \/ Insert(h) \/ InsertRefused(h) \/ DeadlockVictim(h) \/ Commit(h) \/ Map(h)

Next ==
  \/ \E h \in Handlers, r \in Requests : Begin(h, r)
  \/ \E h \in Handlers :
       Proceed(h) \/ LookUpFails(h) \/ StatementFails(h) \/ LoseCommit(h) \/ MapFails(h)
  \/ Crash

Spec == Init /\ [][Next]_vars

\* Handlers are scheduled and statements return; a deadlock is found after deadlock_timeout.
FairSpec == Spec /\ \A h \in Handlers : WF_vars(Proceed(h))
-----------------------------------------------------------------------------
(***************************************************************************)
(* Single creates are idempotent: whatever handlers race, fail or die, all *)
(* clients whose single create with the same key succeeds see the same one *)
(* notification.  (CreateNotification, idx_notifications_tenant_idempotency)*)
(***************************************************************************)
SameNotification ==
  \A a, b \in answers :
    a.kind = "single" /\ b.kind = "single" /\ a.key = b.key /\ a.key # NoKey /\ a.rows # {} /\ b.rows # {}
      => a.rows = b.rows /\ Cardinality(a.rows) = 1

(***************************************************************************)
(* Creation is all or nothing in what others can see: of every batch all   *)
(* rows are in the table or none, those a key is mapped to and those an    *)
(* answer shows are there.  (The transaction of InsertNotifications comes  *)
(* before UpsertRequestMapping.)                                           *)
(***************************************************************************)
NothingHalfDone ==
  /\ \A b \in DOMAIN asked : RowsOf(b, asked[b]) \cap rows \in {{}, RowsOf(b, asked[b])}
  /\ \A k \in Keys : mapping[k] # NoBatch => RowsOf(mapping[k], asked[mapping[k]]) \subseteq rows
  /\ \A a \in answers : a.rows \subseteq rows

(***************************************************************************)
(* A client who asks again for a batch that has been shown to be there     *)
(* never has it created a second time, whatever raced, failed or died in   *)
(* between, unless the lookup itself fails.  Requests made before the first*)
(* success may create it again, see SameBatch.  (CreateBatch answers with  *)
(* an error when UpsertRequestMapping does, so a success has its mapping.) *)
(***************************************************************************)
RepeatsAreRecognised == \A b \in repeats : RowsOf(b, asked[b]) \cap rows = {}

\* The requests under way, by their batch.
Open == {batch[h] : h \in {g \in Handlers : pc[g] # "idle"}}

(***************************************************************************)
(* Seen from outside, handlers that race, fail and die keep to the promise *)
(* of atomic requests: no request is stored twice or after its end, no key *)
(* changes hands, no answer shows what was never there.                    *)
(* (CreateNotification and CreateBatch, statement by statement.)           *)
(***************************************************************************)
Promise == INSTANCE Intake WITH open <- Open

ImplementsIntake == Promise!Spec

\* What ENABLED Proceed(h) comes to.
CanProceed(h) == pc[h] # "idle" /\ (Deadlocked(h) \/ \A g \in Handlers : ~WaitsFor(h, g))

(***************************************************************************)
(* Nobody waits for a key that no one will give up: handlers that cannot go*)
(* on never wait for each other only, or for one that is done with its     *)
(* request, but for a circle of waiters, which PostgreSQL breaks.          *)
(* (The transactions of InsertNotifications and their deferred Rollback.)  *)
(***************************************************************************)
NobodyStuck ==
  \A S \in SUBSET {h \in Handlers : ~CanProceed(h)} :
    (\E h \in S : pc[h] # "idle") => \E h \in S, g \in Handlers \ S : WaitsFor(h, g)

(***************************************************************************)
(* Every request is answered or dies with its process: handlers that wait  *)
(* for each other's keys, and those behind them, get out of it.            *)
(***************************************************************************)
RequestsEnd == \A h \in Handlers : pc[h] # "idle" ~> pc[h] = "idle"

(***************************************************************************)
(* README.md:181, "Idempotency is supported with the `Idempotency-Key`     *)
(* header", for batches: all answers to batch requests with one key show   *)
(* the same batch.  Between the lookup and the mapping another handler may *)
(* insert the batch again, and nothing about the rows is unique.           *)
(***************************************************************************)
SameBatch ==
  \A a, b \in answers :
    a.kind = "batch" /\ b.kind = "batch" /\ a.key = b.key /\ a.key # NoKey /\ a.rows # {} /\ b.rows # {}
      => a.rows = b.rows

(***************************************************************************)
(* service.go:114, "notification request deduplicated after insert race":  *)
(* where nothing fails, a valid single create that loses the race is       *)
(* answered with the winner's notification, never with an error.           *)
(***************************************************************************)
RacesAreDeduplicated ==
  \A a \in answers : a.kind = "single" => a.rows # {}
=============================================================================

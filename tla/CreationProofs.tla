--------------------------- MODULE CreationProofs ---------------------------
(***************************************************************************)
(* For any handlers, keys, requests and faults: keyed single creates are   *)
(* idempotent, creation is all or nothing, and a batch asked for again     *)
(* after a success is recognised.                                          *)
(***************************************************************************)
EXTENDS Creation, FiniteSetTheorems, TLAPS

\* A handler at work has a request.
Working == \A h \in Handlers : pc[h] # "idle" => batch[h] \in DOMAIN asked

\* What an open transaction has inserted are the first items of its request.
InSequence == \A h \in Handlers : pc[h] = "insert" =>
  /\ Len(inserted[h]) <= Len(req(h).items)
  /\ \A i \in 1..Len(inserted[h]) : inserted[h][i] = req(h).items[i]

CommittedKeys == {row.key : row \in rows}

\* The unique index, of committed rows and of those in open transactions.
Unique == \A x, y \in rows : x.key = y.key /\ x.key # NoKey => x = y

Apart == \A h \in Handlers :
  /\ \A i, j \in 1..Len(inserted[h]) : inserted[h][i] = inserted[h][j] /\ inserted[h][i] # NoKey => i = j
  /\ Pending(h) \cap CommittedKeys = {}
  /\ \A g \in Handlers \ {h} : Pending(h) \cap Pending(g) = {}

\* A committed row has all the rows of its batch beside it.
Whole == \A row \in rows :
  /\ row.batch \in DOMAIN asked
  /\ row \in RowsOf(row.batch, asked[row.batch])
  /\ RowsOf(row.batch, asked[row.batch]) \subseteq rows

Mappable == \A h \in Handlers : pc[h] = "map" => RowsOf(batch[h], req(h)) \subseteq rows

Pointing == \A k \in Keys : mapping[k] # NoBatch =>
  /\ mapping[k] \in DOMAIN asked
  /\ RowsOf(mapping[k], asked[mapping[k]]) \subseteq rows

Shown == \A a \in answers :
  /\ a.rows \subseteq rows
  /\ a.kind = "single" /\ a.key # NoKey => \A row \in a.rows : row.key = a.key

IInv == TypeOK /\ Working /\ InSequence /\ Unique /\ Apart /\ Whole /\ Mappable /\ Pointing /\ Shown
-----------------------------------------------------------------------------
LEMMA RequestFacts ==
  ASSUME IInv, NEW h \in Handlers, pc[h] # "idle"
  PROVE  /\ batch[h] \in Batches /\ batch[h] \in 1..Len(asked) /\ asked[batch[h]] = req(h) /\ req(h) \in Requests
         /\ req(h).kind \in {"single", "batch"} /\ req(h).key \in Keys \cup {NoKey}
         /\ req(h).items \in Seq(Keys \cup {NoKey})
         /\ req(h).kind = "single" => req(h).items = <<req(h).key>>
<1>1. batch[h] \in DOMAIN asked /\ asked \in Seq(Requests) /\ Len(asked) <= MaxRequests
  BY DEF IInv, Working, TypeOK
<1>2. batch[h] \in 1..Len(asked) /\ req(h) \in Requests
  BY <1>1 DEF req
<1>3. batch[h] \in Batches
  <2>1. Len(asked) \in Nat
    BY <1>1
  <2> QED
    BY <1>1, <1>2, <2>1, BoundsAssumption DEF Batches
<1>4. req(h) \in Request /\ (req(h).kind = "single" => req(h).items = <<req(h).key>>)
  BY <1>2, RequestsAssumption
<1> QED
  BY <1>2, <1>3, <1>4 DEF Request, req

LEMMA RowsTyped ==
  ASSUME NEW b \in Batches, NEW r \in Requests
  PROVE  RowsOf(b, r) \subseteq Row
BY DEF Row

LEMMA RowsOfFacts ==
  ASSUME NEW b, NEW r
  PROVE  \A row \in RowsOf(b, r) :
           row.batch = b /\ row.item \in DOMAIN r.items /\ row.key = r.items[row.item]
           /\ row = [batch |-> b, item |-> row.item, key |-> r.items[row.item]]
BY DEF RowsOf

\* The rows a keyed single create may show carry its key.
LEMMA SingleRows ==
  ASSUME IInv, NEW h \in Handlers, pc[h] # "idle", req(h).kind = "single"
  PROVE  \A row \in RowsOf(batch[h], req(h)) : row.key = req(h).key
<1>1. req(h).items = <<req(h).key>>
  BY RequestFacts
<1>2. DOMAIN req(h).items = {1} /\ req(h).items[1] = req(h).key
  BY <1>1
<1> QED
  BY <1>2, RowsOfFacts

LEMMA AnswerFacts ==
  ASSUME IInv, NEW h \in Handlers, pc[h] # "idle", NEW rs, Answer(h, rs),
         rs \subseteq rows', rows \subseteq rows', rows' \subseteq Row,
         req(h).kind = "single" /\ req(h).key # NoKey => \A row \in rs : row.key = req(h).key
  PROVE  /\ Shown'
         /\ \A a \in answers' : a.kind \in {"single", "batch"} /\ a.key \in Keys \cup {NoKey} /\ a.rows \subseteq Row
         /\ pc' \in [Handlers -> {"idle", "lookup", "insert", "map"}] /\ batch' \in [Handlers -> Batches \cup {NoBatch}]
         /\ pc'[h] = "idle" /\ batch'[h] = NoBatch
         /\ \A g \in Handlers \ {h} : pc'[g] = pc[g] /\ batch'[g] = batch[g]
<1>1. req(h).kind \in {"single", "batch"} /\ req(h).key \in Keys \cup {NoKey}
  BY RequestFacts
<1> DEFINE answer == [kind |-> req(h).kind, key |-> req(h).key, rows |-> rs]
<1>2. answers' = answers \cup {answer}
  BY DEF Answer
<1>3. answer.kind = req(h).kind /\ answer.key = req(h).key /\ answer.rows = rs
  OBVIOUS
<1> HIDE DEF answer
<1>4. Shown'
  BY <1>2, <1>3 DEF IInv, Shown
<1>5. \A a \in answers' : a.kind \in {"single", "batch"} /\ a.key \in Keys \cup {NoKey} /\ a.rows \subseteq Row
  BY <1>1, <1>2, <1>3 DEF IInv, TypeOK
<1> QED
  BY <1>4, <1>5 DEF Answer, GoTo, IInv, TypeOK

(***************************************************************************)
(* A step of one handler that leaves the tables alone and no transaction   *)
(* open: a lookup, or an error.                                            *)
(***************************************************************************)
Calm(h) ==
  /\ UNCHANGED <<rows, mapping, asked>>
  /\ inserted' \in [Handlers -> Seq(Keys \cup {NoKey})] /\ inserted'[h] = <<>>
  /\ pc'[h] \in {"idle", "insert"} /\ (pc'[h] = "insert" => batch'[h] = batch[h] /\ pc[h] # "idle")
  /\ \A g \in Handlers \ {h} : pc'[g] = pc[g] /\ batch'[g] = batch[g] /\ inserted'[g] = inserted[g]

LEMMA CalmStep ==
  ASSUME IInv, NEW h \in Handlers, Calm(h), TypeOK', Shown'
  PROVE  IInv'
<1> USE DEF Calm
<1>1. Working'
  BY DEF IInv, Working
<1>2. InSequence'
  <2> SUFFICES ASSUME NEW g \in Handlers, pc'[g] = "insert"
               PROVE  /\ Len(inserted'[g]) <= Len(req(g)'.items)
                      /\ \A i \in 1..Len(inserted'[g]) : inserted'[g][i] = req(g)'.items[i]
    BY DEF InSequence
  <2>1. CASE g = h
    <3>1. req(h)' = req(h) /\ req(h).items \in Seq(Keys \cup {NoKey})
      BY <2>1, RequestFacts DEF req
    <3> QED
      BY <2>1, <3>1
  <2>2. CASE g # h
    <3>1. req(g)' = req(g)
      BY <2>2 DEF req
    <3> QED
      BY <2>2, <3>1 DEF IInv, InSequence
  <2> QED
    BY <2>1, <2>2
<1>3. Unique' /\ Whole' /\ Pointing'
  BY DEF IInv, Unique, Whole, Pointing
<1>4. \A g \in Handlers \ {h} : Pending(g)' = Pending(g)
  BY DEF Pending
<1>5. Pending(h)' = {}
  BY DEF Pending
<1>6. Apart'
  BY <1>4, <1>5 DEF IInv, Apart, CommittedKeys
<1>7. Mappable'
  <2>1. \A g \in Handlers \ {h} : req(g)' = req(g)
    BY DEF req
  <2> QED
    BY <2>1 DEF IInv, Mappable
<1> QED
  BY <1>1, <1>2, <1>3, <1>6, <1>7 DEF IInv
-----------------------------------------------------------------------------
LEMMA InitIInv == Init => IInv
<1> SUFFICES ASSUME Init PROVE IInv
  OBVIOUS
<1>1. TypeOK
  BY BoundsAssumption DEF Init, TypeOK
<1> QED
  BY <1>1 DEF Init, IInv, Working, InSequence, Unique, Apart, Whole, Mappable, Pointing, Shown, Pending

LEMMA BeginStep ==
  ASSUME IInv, NEW h \in Handlers, NEW r \in Requests, Begin(h, r)
  PROVE  IInv'
<1>1. /\ asked \in Seq(Requests) /\ Len(asked) \in Nat /\ Len(asked) < MaxRequests
      /\ asked' = Append(asked, r) /\ Len(asked') = Len(asked) + 1
      /\ \A b \in DOMAIN asked : b \in DOMAIN asked' /\ asked'[b] = asked[b]
  BY DEF Begin, IInv, TypeOK
<1>2. Len(asked') \in Batches /\ Len(asked') # NoBatch /\ Len(asked') \in DOMAIN asked' /\ asked' \in Seq(Requests)
  BY <1>1, BoundsAssumption DEF Batches, NoBatch
<1>3. /\ pc[h] = "idle" /\ pc' = [pc EXCEPT ![h] = "lookup"] /\ batch' = [batch EXCEPT ![h] = Len(asked')]
      /\ UNCHANGED <<rows, mapping, inserted, answers, faults>>
      /\ repeats' \subseteq repeats \cup {Len(asked')}
  BY DEF Begin, GoTo
<1>4. TypeOK'
  BY <1>1, <1>2, <1>3, BoundsAssumption DEF IInv, TypeOK
<1>5. Working'
  BY <1>1, <1>2, <1>3 DEF IInv, Working, TypeOK
<1>6. \A g \in Handlers : pc'[g] # "idle" /\ g # h => req(g)' = req(g) /\ pc'[g] = pc[g] /\ batch'[g] = batch[g]
  BY <1>1, <1>3 DEF IInv, Working, req, TypeOK
<1>7. pc'[h] = "lookup"
  BY <1>3 DEF IInv, TypeOK
<1>8. InSequence' /\ Mappable'
  BY <1>3, <1>6, <1>7 DEF IInv, InSequence, Mappable
<1>9. Unique' /\ Apart' /\ Shown'
  <2>1. \A g \in Handlers : Pending(g)' = Pending(g)
    BY <1>3 DEF Pending
  <2> QED
    BY <1>3, <2>1 DEF IInv, Unique, Apart, Shown, CommittedKeys
<1>10. Whole' /\ Pointing'
  BY <1>1, <1>3 DEF IInv, Whole, Pointing
<1> QED
  BY <1>4, <1>5, <1>8, <1>9, <1>10 DEF IInv

LEMMA GoOnStep ==
  ASSUME IInv, NEW h \in Handlers, pc[h] = "lookup", GoOnTo(h, "insert"),
         UNCHANGED <<rows, mapping, inserted, asked>>, repeats' \subseteq repeats, faults' \in 0..MaxFaults
  PROVE  IInv'
<1>1. inserted[h] = <<>> /\ pc' = [pc EXCEPT ![h] = "insert"] /\ UNCHANGED <<batch, answers>>
  BY DEF GoOnTo, GoTo, IInv, TypeOK
<1>2. TypeOK'
  BY <1>1 DEF IInv, TypeOK
<1>3. Shown'
  BY <1>1 DEF IInv, Shown
<1>4. Calm(h)
  BY <1>1 DEF Calm, IInv, TypeOK
<1> QED
  BY <1>2, <1>3, <1>4, CalmStep

\* A handler answers with an error or with rows of the table, and leaves no transaction open.
LEMMA AnswerStep ==
  ASSUME IInv, NEW h \in Handlers, pc[h] # "idle", NEW rs \in SUBSET rows, Answer(h, rs),
         req(h).kind = "single" /\ req(h).key # NoKey => \A row \in rs : row.key = req(h).key,
         inserted' = [inserted EXCEPT ![h] = <<>>],
         UNCHANGED <<rows, mapping, asked>>, repeats' \subseteq repeats, faults' \in 0..MaxFaults
  PROVE  IInv'
<1>1. /\ Shown'
      /\ \A a \in answers' : a.kind \in {"single", "batch"} /\ a.key \in Keys \cup {NoKey} /\ a.rows \subseteq Row
      /\ pc' \in [Handlers -> {"idle", "lookup", "insert", "map"}] /\ batch' \in [Handlers -> Batches \cup {NoBatch}]
      /\ pc'[h] = "idle" /\ batch'[h] = NoBatch
      /\ \A g \in Handlers \ {h} : pc'[g] = pc[g] /\ batch'[g] = batch[g]
  <2>1. rows' \subseteq Row /\ rows \subseteq rows' /\ rs \subseteq rows'
    BY DEF IInv, TypeOK
  <2> QED
    BY <2>1, AnswerFacts
<1>2. inserted' \in [Handlers -> Seq(Keys \cup {NoKey})] /\ inserted'[h] = <<>>
      /\ \A g \in Handlers \ {h} : inserted'[g] = inserted[g]
  BY DEF IInv, TypeOK
<1>3. TypeOK'
  <2>1. \A g \in Handlers :
          /\ pc'[g] # "insert" => inserted'[g] = <<>>
          /\ pc'[g] = "idle" <=> batch'[g] = NoBatch
    BY <1>1, <1>2 DEF IInv, TypeOK
  <2>2. rows' \subseteq Row /\ mapping' \in [Keys -> Batches \cup {NoBatch}] /\ asked' \in Seq(Requests) /\ Len(asked') <= MaxRequests
       /\ repeats' \subseteq Batches
    BY DEF IInv, TypeOK
  <2> QED
    BY <1>1, <1>2, <2>1, <2>2 DEF TypeOK
<1>4. Calm(h)
  BY <1>1, <1>2 DEF Calm
<1> QED
  BY <1>1, <1>3, <1>4, CalmStep

LEMMA FaultType ==
  ASSUME IInv, NEW kind, Fault(kind)
  PROVE  faults' \in 0..MaxFaults
BY BoundsAssumption DEF Fault, IInv, TypeOK

LEMMA LookUpStep ==
  ASSUME IInv, NEW h \in Handlers, LookUp(h)
  PROVE  IInv'
<1>1. /\ pc[h] = "lookup" /\ UNCHANGED <<rows, mapping, inserted, asked, repeats, faults>>
      /\ faults' \in 0..MaxFaults /\ inserted[h] = <<>>
  BY DEF LookUp, IInv, TypeOK
<1>2. inserted' = [inserted EXCEPT ![h] = <<>>]
  BY <1>1 DEF IInv, TypeOK
<1> DEFINE found == IF req(h).kind = "single" /\ ~req(h).valid THEN {} ELSE Found(h)
<1>3. found \subseteq rows /\ (req(h).kind = "single" /\ req(h).key # NoKey => \A row \in found : row.key = req(h).key)
  <2>1. req(h).kind \in {"single", "batch"}
    BY <1>1, RequestFacts
  <2> QED
    BY <2>1 DEF Found
<1>4. CASE GoOnTo(h, "insert")
  BY <1>1, <1>4, GoOnStep
<1>5. CASE Answer(h, found)
  BY <1>1, <1>2, <1>3, <1>5, AnswerStep
<1> QED
  BY <1>4, <1>5 DEF LookUp

LEMMA LookUpFailsStep ==
  ASSUME IInv, NEW h \in Handlers, LookUpFails(h)
  PROVE  IInv'
<1>1. /\ pc[h] = "lookup" /\ UNCHANGED <<rows, mapping, inserted, asked>> /\ repeats' \subseteq repeats
      /\ faults' \in 0..MaxFaults /\ inserted[h] = <<>>
  BY FaultType DEF LookUpFails, IInv, TypeOK
<1>2. inserted' = [inserted EXCEPT ![h] = <<>>]
  BY <1>1 DEF IInv, TypeOK
<1>3. CASE GoOnTo(h, "insert")
  BY <1>1, <1>3, GoOnStep
<1>4. CASE Answer(h, {})
  BY <1>1, <1>2, <1>4, AnswerStep
<1> QED
  BY <1>3, <1>4 DEF LookUpFails

LEMMA RolledBackStep ==
  ASSUME IInv, NEW h \in Handlers, pc[h] = "insert", Rollback(h), Answer(h, {}),
         UNCHANGED <<mapping, asked, repeats>>, faults' \in 0..MaxFaults
  PROVE  IInv'
BY AnswerStep DEF Rollback

LEMMA RefusalSteps ==
  ASSUME IInv, NEW h \in Handlers, InsertRefused(h) \/ DeadlockVictim(h) \/ StatementFails(h)
  PROVE  IInv'
<1>1. CASE InsertRefused(h)
  BY <1>1, RolledBackStep DEF InsertRefused, Inserting, IInv, TypeOK
<1>2. CASE DeadlockVictim(h)
  <2>1. pc[h] = "insert"
    BY <1>2 DEF DeadlockVictim, Deadlocked, WaitsFor, Inserting
  <2> QED
    BY <1>2, <2>1, RolledBackStep DEF DeadlockVictim, IInv, TypeOK
<1>3. CASE StatementFails(h)
  BY <1>3, RolledBackStep, FaultType DEF StatementFails
<1> QED
  BY <1>1, <1>2, <1>3

LEMMA MapFailsStep ==
  ASSUME IInv, NEW h \in Handlers, MapFails(h)
  PROVE  IInv'
<1>1. /\ pc[h] = "map" /\ UNCHANGED <<rows, mapping, inserted, asked, repeats>>
      /\ faults' \in 0..MaxFaults /\ inserted[h] = <<>>
  BY FaultType DEF MapFails, IInv, TypeOK
<1>2. inserted' = [inserted EXCEPT ![h] = <<>>]
  BY <1>1 DEF IInv, TypeOK
<1> DEFINE rs == IF req(h).kind = "single" THEN RowsOf(batch[h], req(h)) ELSE {}
<1>3. rs \subseteq rows
  BY <1>1 DEF IInv, Mappable
<1>4. req(h).kind = "single" /\ req(h).key # NoKey => \A row \in rs : row.key = req(h).key
  BY <1>1, SingleRows
<1>5. Answer(h, rs)
  BY DEF MapFails
<1> HIDE DEF rs
<1> QED
  BY <1>1, <1>2, <1>3, <1>4, <1>5, AnswerStep

LEMMA InsertStep ==
  ASSUME IInv, NEW h \in Handlers, Insert(h)
  PROVE  IInv'
<1> DEFINE n == Len(inserted[h])
           k == NextKey(h)
<1>1. /\ pc[h] = "insert" /\ UNCHANGED <<rows, mapping, pc, batch, asked, answers, repeats, faults>>
      /\ inserted' = [inserted EXCEPT ![h] = Append(@, k)]
      /\ k = NoKey \/ k \notin CommittedKeys \cup Pending(h)
      /\ n < Len(req(h).items) /\ k = req(h).items[n + 1]
  BY DEF Insert, Inserting, Taken, NextKey, CommittedKeys
<1>2. \A g \in Handlers \ {h} : k \notin Pending(g)
  BY DEF Insert, WaitsFor
<1>3. /\ req(h).items \in Seq(Keys \cup {NoKey}) /\ inserted[h] \in Seq(Keys \cup {NoKey}) /\ n \in Nat
      /\ \A g \in Handlers : pc[g] # "idle" => req(g)' = req(g)
  BY <1>1, RequestFacts DEF IInv, TypeOK, req
<1>4. k \in Keys \cup {NoKey}
  BY <1>1, <1>3
<1> HIDE DEF k
<1>5. /\ inserted' \in [Handlers -> Seq(Keys \cup {NoKey})]
      /\ \A g \in Handlers \ {h} : inserted'[g] = inserted[g]
      /\ Len(inserted'[h]) = n + 1 /\ inserted'[h][n + 1] = k
      /\ \A i \in 1..n : inserted'[h][i] = inserted[h][i]
  BY <1>1, <1>3, <1>4 DEF IInv, TypeOK
<1>6. TypeOK' /\ Working'
  BY <1>1, <1>5 DEF IInv, TypeOK, Working
<1>7. InSequence'
  <2> SUFFICES ASSUME NEW g \in Handlers, pc[g] = "insert"
               PROVE  /\ Len(inserted'[g]) <= Len(req(g).items)
                      /\ \A i \in 1..Len(inserted'[g]) : inserted'[g][i] = req(g).items[i]
    BY <1>1, <1>3 DEF InSequence
  <2>1. CASE g # h
    BY <1>5, <2>1 DEF IInv, InSequence
  <2>2. CASE g = h
    BY <1>1, <1>3, <1>5, <2>2 DEF IInv, InSequence
  <2> QED
    BY <2>1, <2>2
<1>8. Unique' /\ Whole' /\ Pointing' /\ Shown' /\ Mappable'
  BY <1>1, <1>3 DEF IInv, Unique, Whole, Pointing, Shown, Mappable
<1>9. Apart'
  <2>1. \A g \in Handlers \ {h} : Pending(g)' = Pending(g)
    BY <1>5 DEF Pending
  <2>2. Pending(h)' \subseteq Pending(h) \cup {k} /\ NoKey \notin Pending(h)'
    <3>1. DOMAIN inserted'[h] = 1..(n + 1) /\ DOMAIN inserted[h] = 1..n
      BY <1>3, <1>5 DEF IInv, TypeOK
    <3> QED
      BY <1>3, <1>5, <3>1 DEF Pending
  <2>3. \A i, j \in 1..Len(inserted'[h]) : inserted'[h][i] = inserted'[h][j] /\ inserted'[h][i] # NoKey => i = j
    <3>1. \A i \in 1..n : inserted[h][i] \in Pending(h) \cup {NoKey}
      BY <1>3 DEF Pending
    <3>2. \A i \in 1..n : inserted[h][i] = k => k = NoKey
      BY <1>1, <3>1
    <3>3. \A i \in 1..(n + 1) : i \in 1..n \/ i = n + 1
      BY <1>3
    <3> QED
      BY <1>3, <1>5, <3>2, <3>3 DEF IInv, Apart
  <2> SUFFICES ASSUME NEW g \in Handlers
               PROVE  /\ \A i, j \in 1..Len(inserted'[g]) : inserted'[g][i] = inserted'[g][j] /\ inserted'[g][i] # NoKey => i = j
                      /\ Pending(g)' \cap CommittedKeys = {}
                      /\ \A f \in Handlers \ {g} : Pending(g)' \cap Pending(f)' = {}
    BY <1>1 DEF Apart, CommittedKeys
  <2>4. CASE g = h
    BY <1>1, <1>2, <2>1, <2>2, <2>3, <2>4 DEF IInv, Apart
  <2>5. CASE g # h
    <3>1. Pending(g) \cap (Pending(h) \cup {k}) = {}
      BY <1>2, <2>5 DEF IInv, Apart
    <3>2. \A i, j \in 1..Len(inserted'[g]) : inserted'[g][i] = inserted'[g][j] /\ inserted'[g][i] # NoKey => i = j
      BY <1>5, <2>5 DEF IInv, Apart
    <3>3. Pending(g)' = Pending(g)
      BY <2>1, <2>5
    <3>4. Pending(g)' \cap CommittedKeys = {}
      BY <3>3 DEF IInv, Apart
    <3>5. Pending(g)' \cap Pending(h)' = {}
      BY <2>2, <3>1, <3>3
    <3>6. \A f \in Handlers \ {g, h} : Pending(f)' = Pending(f) /\ Pending(g) \cap Pending(f) = {}
      BY <2>1 DEF IInv, Apart
    <3>7. \A f \in Handlers \ {g} : Pending(g)' \cap Pending(f)' = {}
      BY <3>3, <3>5, <3>6
    <3> QED
      BY <3>2, <3>4, <3>7
  <2> QED
    BY <2>4, <2>5
<1> QED
  BY <1>6, <1>7, <1>8, <1>9 DEF IInv

LEMMA MapStep ==
  ASSUME IInv, NEW h \in Handlers, Map(h)
  PROVE  IInv'
<1> DEFINE rs == RowsOf(batch[h], req(h))
<1>1. /\ pc[h] = "map" /\ UNCHANGED <<rows, inserted, asked, repeats, faults>> /\ mapping' = Mapped(h) /\ Answer(h, rs)
      /\ inserted[h] = <<>> /\ rs \subseteq rows
  BY DEF Map, IInv, TypeOK, Mappable
<1>2. batch[h] \in Batches /\ batch[h] \in DOMAIN asked /\ asked[batch[h]] = req(h)
  BY <1>1, RequestFacts DEF IInv, Working
<1>3. \A k \in Keys : mapping'[k] = mapping[k] \/ mapping'[k] = batch[h]
  BY <1>1 DEF Mapped, IInv, TypeOK
<1>4. mapping' \in [Keys -> Batches \cup {NoBatch}]
  BY <1>1, <1>2 DEF Mapped, IInv, TypeOK
<1>5. req(h).kind = "single" /\ req(h).key # NoKey => \A row \in rs : row.key = req(h).key
  BY <1>1, SingleRows
<1>6. /\ Shown'
      /\ \A a \in answers' : a.kind \in {"single", "batch"} /\ a.key \in Keys \cup {NoKey} /\ a.rows \subseteq Row
      /\ pc' \in [Handlers -> {"idle", "lookup", "insert", "map"}] /\ batch' \in [Handlers -> Batches \cup {NoBatch}]
      /\ pc'[h] = "idle" /\ batch'[h] = NoBatch
      /\ \A g \in Handlers \ {h} : pc'[g] = pc[g] /\ batch'[g] = batch[g]
  <2>1. rows' \subseteq Row /\ rows \subseteq rows' /\ rs \subseteq rows'
    BY <1>1 DEF IInv, TypeOK
  <2> HIDE DEF rs
  <2> QED
    BY <1>1, <1>5, <2>1, AnswerFacts
<1>7. TypeOK'
  BY <1>1, <1>4, <1>6 DEF IInv, TypeOK
<1>8. Pointing'
  BY <1>1, <1>2, <1>3 DEF IInv, Pointing
<1>9. \A g \in Handlers : pc'[g] # "idle" => req(g)' = req(g)
  BY <1>1, <1>6 DEF req
<1>10. \A g \in Handlers : Pending(g)' = Pending(g)
  BY <1>1 DEF Pending
<1>11. Working' /\ InSequence' /\ Mappable'
  BY <1>1, <1>6, <1>9 DEF IInv, Working, InSequence, Mappable
<1>12. Unique' /\ Whole' /\ Apart'
  BY <1>1, <1>10 DEF IInv, Unique, Whole, Apart, CommittedKeys
<1> QED
  BY <1>6, <1>7, <1>8, <1>11, <1>12 DEF IInv

(***************************************************************************)
(* A transaction commits: all its keys are its own.                        *)
(***************************************************************************)
LEMMA CommittedFacts ==
  ASSUME IInv, NEW h \in Handlers, Committed(h)
  PROVE  /\ rows' = rows \cup RowsOf(batch[h], req(h)) /\ rows' \subseteq Row
         /\ \A x \in RowsOf(batch[h], req(h)) : x.key = NoKey \/ x.key \in Pending(h)
         /\ \A x, y \in RowsOf(batch[h], req(h)) : x.key = y.key /\ x.key # NoKey => x = y
<1> DEFINE n == Len(inserted[h])
           new == RowsOf(batch[h], req(h))
<1>1. /\ pc[h] = "insert" /\ rows' = rows \cup new
      /\ ~(n < Len(req(h).items))
  BY DEF Committed, Inserting
<1>2. /\ req(h).items \in Seq(Keys \cup {NoKey}) /\ req(h) \in Requests /\ batch[h] \in Batches
      /\ inserted[h] \in Seq(Keys \cup {NoKey})
  BY <1>1, RequestFacts DEF IInv, TypeOK
<1>3. n = Len(req(h).items) /\ \A i \in 1..n : inserted[h][i] = req(h).items[i]
  BY <1>1, <1>2 DEF IInv, InSequence
<1>4. \A x \in new : x.item \in 1..n /\ x.key = inserted[h][x.item] /\ x = [batch |-> batch[h], item |-> x.item, key |-> req(h).items[x.item]]
  BY <1>2, <1>3, RowsOfFacts
<1>5. \A x \in new : x.key = NoKey \/ x.key \in Pending(h)
  BY <1>2, <1>4 DEF Pending
<1>6. \A x, y \in new : x.key = y.key /\ x.key # NoKey => x = y
  <2> SUFFICES ASSUME NEW x \in new, NEW y \in new, x.key = y.key, x.key # NoKey PROVE x = y
    OBVIOUS
  <2>1. x.item = y.item
    BY <1>4 DEF IInv, Apart
  <2> QED
    BY <1>4, <2>1
<1>7. rows' \subseteq Row
  BY <1>1, <1>2, RowsTyped DEF IInv, TypeOK
<1> QED
  BY <1>1, <1>5, <1>6, <1>7

LEMMA CommittedStep ==
  ASSUME IInv, NEW h \in Handlers, Committed(h), TypeOK', Shown',
         inserted' = [inserted EXCEPT ![h] = <<>>], UNCHANGED <<mapping, asked>>,
         pc'[h] = "idle" \/ (pc'[h] = "map" /\ batch'[h] = batch[h]),
         \A g \in Handlers \ {h} : pc'[g] = pc[g] /\ batch'[g] = batch[g]
  PROVE  IInv'
<1> DEFINE new == RowsOf(batch[h], req(h))
<1>1. pc[h] = "insert" /\ pc[h] # "idle"
  BY DEF Committed
<1>2. batch[h] \in DOMAIN asked /\ asked[batch[h]] = req(h)
  BY <1>1 DEF IInv, Working, req
<1>3. /\ rows' = rows \cup new
      /\ \A x \in new : x.key = NoKey \/ x.key \in Pending(h)
      /\ \A x, y \in new : x.key = y.key /\ x.key # NoKey => x = y
      /\ \A x \in new : x.batch = batch[h]
  BY CommittedFacts, RowsOfFacts
<1>4. \A g \in Handlers : pc'[g] # "idle" => req(g)' = req(g)
  BY DEF req
<1>5. inserted'[h] = <<>> /\ \A g \in Handlers \ {h} : inserted'[g] = inserted[g]
  BY DEF IInv, TypeOK
<1> HIDE DEF new
<1>6. Working'
  BY <1>2 DEF IInv, Working
<1>7. InSequence'
  BY <1>4, <1>5 DEF IInv, InSequence
<1>8. Mappable'
  BY <1>3, <1>4 DEF IInv, Mappable, new
<1>9. Unique'
  <2>1. \A x \in rows, y \in new : x.key = y.key => x.key = NoKey
    BY <1>3 DEF IInv, Apart, CommittedKeys
  <2> QED
    BY <1>3, <2>1 DEF IInv, Unique
<1>10. Whole'
  <2>1. \A x \in new : x \in RowsOf(x.batch, asked[x.batch]) /\ RowsOf(x.batch, asked[x.batch]) = new
    BY <1>2, <1>3 DEF new
  <2> QED
    BY <1>2, <1>3, <2>1 DEF IInv, Whole
<1>11. Pointing'
  BY <1>3 DEF IInv, Pointing
<1>12. Apart'
  <2>1. Pending(h)' = {} /\ \A g \in Handlers \ {h} : Pending(g)' = Pending(g)
    BY <1>5 DEF Pending
  <2>2. \A x \in CommittedKeys' : x \in CommittedKeys \/ x = NoKey \/ x \in Pending(h)
    BY <1>3 DEF CommittedKeys
  <2>3. \A g \in Handlers : NoKey \notin Pending(g)
    BY DEF Pending
  <2>4. \A g \in Handlers \ {h} : Pending(g)' \cap CommittedKeys' = {}
    BY <2>1, <2>2, <2>3 DEF IInv, Apart
  <2> QED
    BY <1>5, <2>1, <2>4 DEF IInv, Apart
<1> QED
  BY <1>6, <1>7, <1>8, <1>9, <1>10, <1>11, <1>12 DEF IInv

LEMMA CommitStep ==
  ASSUME IInv, NEW h \in Handlers, Commit(h) \/ LoseCommit(h)
  PROVE  IInv'
<1> DEFINE new == RowsOf(batch[h], req(h))
<1>1. /\ Committed(h) /\ pc[h] # "idle" /\ UNCHANGED <<mapping, asked, repeats>> /\ faults' \in 0..MaxFaults
      /\ inserted' = [inserted EXCEPT ![h] = <<>>]
  BY FaultType DEF Commit, LoseCommit, Committed, IInv, TypeOK
<1>2. rows' = rows \cup new /\ rows' \subseteq Row
  BY <1>1, CommittedFacts
<1>3. inserted' \in [Handlers -> Seq(Keys \cup {NoKey})] /\ inserted'[h] = <<>>
      /\ \A g \in Handlers \ {h} : inserted'[g] = inserted[g]
  BY <1>1 DEF IInv, TypeOK
<1>4. ASSUME NEW rs, Answer(h, rs), rs = {} \/ rs = new PROVE IInv'
  <2>1. req(h).kind = "single" /\ req(h).key # NoKey => \A row \in rs : row.key = req(h).key
    BY <1>1, <1>4, SingleRows
  <2>2. rs \subseteq rows'
    BY <1>2, <1>4
  <2>3. /\ Shown'
        /\ \A a \in answers' : a.kind \in {"single", "batch"} /\ a.key \in Keys \cup {NoKey} /\ a.rows \subseteq Row
        /\ pc' \in [Handlers -> {"idle", "lookup", "insert", "map"}] /\ batch' \in [Handlers -> Batches \cup {NoBatch}]
        /\ pc'[h] = "idle" /\ batch'[h] = NoBatch
        /\ \A g \in Handlers \ {h} : pc'[g] = pc[g] /\ batch'[g] = batch[g]
    BY <1>1, <1>2, <1>4, <2>1, <2>2, AnswerFacts
  <2>4. TypeOK'
    BY <1>1, <1>2, <1>3, <2>3 DEF IInv, TypeOK
  <2> QED
    BY <1>1, <2>3, <2>4, CommittedStep
<1>5. ASSUME GoOnTo(h, "map") PROVE IInv'
  <2>1. pc' = [pc EXCEPT ![h] = "map"] /\ UNCHANGED <<batch, answers>>
    BY <1>5 DEF GoOnTo, GoTo
  <2>2. TypeOK'
    BY <1>1, <1>2, <1>3, <2>1 DEF IInv, TypeOK
  <2>3. Shown'
    BY <1>2, <2>1 DEF IInv, Shown
  <2>4. /\ pc'[h] = "map" /\ batch'[h] = batch[h]
        /\ \A g \in Handlers \ {h} : pc'[g] = pc[g] /\ batch'[g] = batch[g]
    BY <2>1 DEF IInv, TypeOK
  <2> QED
    BY <1>1, <2>2, <2>3, <2>4, CommittedStep
<1> QED
  BY <1>4, <1>5 DEF Commit, LoseCommit

LEMMA CrashStep ==
  ASSUME IInv, Crash
  PROVE  IInv'
<1>1. /\ pc' = [h \in Handlers |-> "idle"] /\ batch' = [h \in Handlers |-> NoBatch]
      /\ inserted' = [h \in Handlers |-> <<>>] /\ UNCHANGED <<rows, mapping, asked, answers, repeats>>
      /\ faults' \in 0..MaxFaults
  BY FaultType DEF Crash
<1>2. TypeOK'
  BY <1>1 DEF IInv, TypeOK
<1>3. \A h \in Handlers : Pending(h)' = {} /\ inserted'[h] = <<>> /\ pc'[h] = "idle"
  BY <1>1 DEF Pending
<1>4. Apart'
  BY <1>3 DEF Apart
<1> QED
  BY <1>1, <1>2, <1>3, <1>4 DEF IInv, Working, InSequence, Unique, Whole, Mappable, Pointing, Shown
-----------------------------------------------------------------------------
LEMMA NextStep == IInv /\ [Next]_vars => IInv'
<1> SUFFICES ASSUME IInv, [Next]_vars PROVE IInv'
  OBVIOUS
<1>1. ASSUME NEW h \in Handlers, NEW r \in Requests, Begin(h, r) PROVE IInv'
  BY <1>1, BeginStep
<1>2. ASSUME NEW h \in Handlers,
             Proceed(h) \/ LookUpFails(h) \/ StatementFails(h) \/ LoseCommit(h) \/ MapFails(h)
      PROVE  IInv'
  BY <1>2, LookUpStep, LookUpFailsStep, InsertStep, RefusalSteps, CommitStep, MapStep, MapFailsStep DEF Proceed
<1>3. CASE Crash
  BY <1>3, CrashStep
<1>4. CASE UNCHANGED vars
  <2>1. UNCHANGED <<rows, mapping, pc, batch, inserted, asked, answers, repeats, faults>>
    BY <1>4 DEF vars
  <2>2. TypeOK' /\ Working' /\ InSequence' /\ Mappable'
    BY <2>1 DEF IInv, TypeOK, Working, InSequence, Mappable, req
  <2>3. \A h \in Handlers : Pending(h)' = Pending(h)
    BY <2>1 DEF Pending
  <2> QED
    BY <2>1, <2>2, <2>3 DEF IInv, Unique, Apart, CommittedKeys, Whole, Pointing, Shown
<1> QED
  BY <1>1, <1>2, <1>3, <1>4 DEF Next

(***************************************************************************)
(* Open transactions and the committed table never share a key, and every  *)
(* row has its whole batch beside it.                                      *)
(***************************************************************************)
THEOREM Invariance == Spec => []IInv
BY InitIInv, NextStep, PTL DEF Spec

(***************************************************************************)
(* The variables keep their types; no transaction is open outside the      *)
(* insert step and no idle handler has a batch.                            *)
(***************************************************************************)
THEOREM TypeCorrect == Spec => []TypeOK
<1>1. IInv => TypeOK
  BY DEF IInv
<1> QED
  BY <1>1, Invariance, PTL

(***************************************************************************)
(* All successful single creates with one key are answered with the same   *)
(* single notification.                                                    *)
(***************************************************************************)
THEOREM SinglesAreIdempotent == Spec => []SameNotification
<1>1. IInv => SameNotification
  <2> SUFFICES ASSUME IInv, NEW a \in answers, NEW b \in answers,
                      a.kind = "single", b.kind = "single", a.key = b.key, a.key # NoKey, a.rows # {}, b.rows # {}
               PROVE  a.rows = b.rows /\ Cardinality(a.rows) = 1
    BY DEF SameNotification
  <2>1. PICK x : x \in a.rows
    OBVIOUS
  <2>2. \A y \in a.rows \cup b.rows : y \in rows /\ y.key = a.key
    BY DEF IInv, Shown
  <2>3. \A y \in a.rows \cup b.rows : y = x
    BY <2>1, <2>2 DEF IInv, Unique
  <2>4. a.rows = {x} /\ b.rows = {x}
    BY <2>1, <2>3
  <2> QED
    BY <2>4, FS_Singleton
<1> QED
  BY <1>1, Invariance, PTL

(***************************************************************************)
(* Of every batch all rows are in the table or none, and whatever a key is *)
(* mapped to or an answer shows is there.                                  *)
(***************************************************************************)
THEOREM AllOrNothing == Spec => []NothingHalfDone
<1>1. IInv => NothingHalfDone
  <2> SUFFICES ASSUME IInv PROVE NothingHalfDone
    OBVIOUS
  <2>1. ASSUME NEW b \in DOMAIN asked
        PROVE  RowsOf(b, asked[b]) \cap rows \in {{}, RowsOf(b, asked[b])}
    <3>1. \A x \in RowsOf(b, asked[b]) : x.batch = b
      BY RowsOfFacts
    <3>2. (\E x \in RowsOf(b, asked[b]) : x \in rows) => RowsOf(b, asked[b]) \subseteq rows
      BY <3>1 DEF IInv, Whole
    <3> QED
      BY <3>2
  <2> QED
    BY <2>1 DEF NothingHalfDone, IInv, Pointing, Shown
<1> QED
  BY <1>1, Invariance, PTL

-----------------------------------------------------------------------------
(* Requests that are repeated *)

\* A batch that has been shown under a key is preceded by a mapping of the key.
Answered == \A a \in answers :
  a.kind = "batch" /\ a.key # NoKey /\ a.rows # {} => mapping[a.key] # NoBatch

\* A repeated request never gets past its lookup: its key is mapped and what it is mapped to is there.
Repeated == \A b \in repeats :
  /\ b \in DOMAIN asked /\ asked[b].kind = "batch"
  /\ asked[b].key \in Keys /\ mapping[asked[b].key] # NoBatch
  /\ \A row \in rows : row.batch # b
  /\ \A h \in Handlers : pc[h] # "idle" /\ batch[h] = b => pc[h] = "lookup"

LEMMA RepeatedStart == Init => Answered /\ Repeated
BY DEF Init, Answered, Repeated

\* A mapped key is that of a batch with rows.
LEMMA MappedIsThere ==
  ASSUME IInv, NEW k \in Keys, mapping[k] # NoBatch
  PROVE  {row \in rows : row.batch = mapping[k]} # {}
<1> DEFINE b == mapping[k]
<1>1. b \in DOMAIN asked /\ RowsOf(b, asked[b]) \subseteq rows
  BY DEF IInv, Pointing
<1>2. asked[b] \in Requests
  BY <1>1 DEF IInv, TypeOK
<1>3. asked[b].items \in Seq(Keys \cup {NoKey}) /\ asked[b].items # <<>>
  BY <1>2, RequestsAssumption DEF Request
<1>4. 1 \in DOMAIN asked[b].items
  BY <1>3
<1>5. [batch |-> b, item |-> 1, key |-> asked[b].items[1]] \in RowsOf(b, asked[b])
  BY <1>4 DEF RowsOf
<1> QED
  BY <1>1, <1>5

\* An answer with the rows of a keyed batch is given when the key is mapped.
LEMMA AnsweredKept ==
  ASSUME IInv, Answered, NEW h \in Handlers, pc[h] # "idle", NEW rs, Answer(h, rs),
         \A k \in Keys : mapping[k] # NoBatch => mapping'[k] # NoBatch,
         req(h).kind = "batch" /\ req(h).key # NoKey /\ rs # {} => mapping'[req(h).key] # NoBatch
  PROVE  Answered'
<1> DEFINE answer == [kind |-> req(h).kind, key |-> req(h).key, rows |-> rs]
<1>1. answers' = answers \cup {answer}
  BY DEF Answer
<1>2. answer.kind = req(h).kind /\ answer.key = req(h).key /\ answer.rows = rs
  OBVIOUS
<1> HIDE DEF answer
<1>3. \A a \in answers : a.key \in Keys \cup {NoKey}
  BY DEF IInv, TypeOK
<1> QED
  BY <1>1, <1>2, <1>3 DEF Answered

\* A handler that is past its lookup serves no repeated request.
LEMMA RepeatedKept ==
  ASSUME Repeated, NEW h \in Handlers, pc[h] \notin {"idle", "lookup"},
         UNCHANGED <<asked, repeats>>,
         rows' = rows \/ rows' = rows \cup RowsOf(batch[h], req(h)),
         \A k \in Keys : mapping[k] # NoBatch => mapping'[k] # NoBatch,
         pc'[h] = "idle" \/ batch'[h] = batch[h],
         \A g \in Handlers \ {h} : pc'[g] = pc[g] /\ batch'[g] = batch[g]
  PROVE  Repeated'
<1> SUFFICES ASSUME NEW b \in repeats
             PROVE  /\ b \in DOMAIN asked /\ asked[b].kind = "batch"
                    /\ asked[b].key \in Keys /\ mapping'[asked[b].key] # NoBatch
                    /\ \A row \in rows' : row.batch # b
                    /\ \A g \in Handlers : pc'[g] # "idle" /\ batch'[g] = b => pc'[g] = "lookup"
  BY DEF Repeated
<1>1. batch[h] # b
  BY DEF Repeated
<1>2. \A row \in rows' : row \in rows \/ row.batch = batch[h]
  BY RowsOfFacts
<1> QED
  BY <1>1, <1>2 DEF Repeated

\* The lookup of a repeated request finds the batch of its key.
LEMMA LookUpFinds ==
  ASSUME IInv, Repeated, NEW h \in Handlers, pc[h] = "lookup", batch[h] \in repeats
  PROVE  req(h).kind = "batch" /\ Found(h) # {}
<1> DEFINE k == req(h).key
<1>1. req(h).kind = "batch" /\ k \in Keys /\ mapping[k] # NoBatch
  BY DEF Repeated, req
<1>2. k # NoKey
  BY <1>1, KeysAssumption
<1>3. Found(h) = {row \in rows : row.batch = mapping[k]}
  BY <1>1, <1>2 DEF Found
<1> QED
  BY <1>1, <1>3, MappedIsThere

LEMMA RepeatedBegin ==
  ASSUME IInv, Answered, Repeated, NEW h \in Handlers, NEW r \in Requests, Begin(h, r)
  PROVE  Answered' /\ Repeated'
<1> DEFINE b == Len(asked')
<1>1. /\ UNCHANGED <<rows, mapping, answers>>
      /\ pc'[h] = "lookup" /\ batch'[h] = b
      /\ \A g \in Handlers \ {h} : pc'[g] = pc[g] /\ batch'[g] = batch[g]
  BY DEF Begin, GoTo, IInv, TypeOK
<1>2. /\ b \in DOMAIN asked' /\ asked'[b] = r /\ b \notin DOMAIN asked
      /\ \A c \in DOMAIN asked : c \in DOMAIN asked' /\ asked'[c] = asked[c] /\ c # b
  BY DEF Begin, IInv, TypeOK
<1>3. repeats' = repeats \/ (repeats' = repeats \cup {b} /\ Repeats(r))
  BY DEF Begin
<1> HIDE DEF b
<1>4. Answered'
  BY <1>1 DEF Answered
<1>5. ASSUME NEW c \in repeats
      PROVE  /\ c \in DOMAIN asked' /\ asked'[c].kind = "batch"
             /\ asked'[c].key \in Keys /\ mapping'[asked'[c].key] # NoBatch
             /\ \A row \in rows' : row.batch # c
             /\ \A g \in Handlers : pc'[g] # "idle" /\ batch'[g] = c => pc'[g] = "lookup"
  BY <1>1, <1>2 DEF Repeated
<1>6. ASSUME Repeats(r)
      PROVE  /\ r.kind = "batch" /\ r.key \in Keys /\ mapping'[r.key] # NoBatch
             /\ \A row \in rows' : row.batch # b
             /\ \A g \in Handlers : pc'[g] # "idle" /\ batch'[g] = b => pc'[g] = "lookup"
  <2>1. r.kind = "batch" /\ r.key # NoKey /\ r.key \in Keys \cup {NoKey}
    BY <1>6, RequestsAssumption DEF Repeats, Request
  <2>2. mapping[r.key] # NoBatch
    BY <1>6 DEF Repeats, Answered
  <2>3. \A row \in rows : row.batch # b
    BY <1>2 DEF IInv, Whole
  <2>4. \A g \in Handlers \ {h} : pc'[g] # "idle" => batch'[g] # b
    BY <1>1, <1>2 DEF IInv, Working
  <2> QED
    BY <1>1, <2>1, <2>2, <2>3, <2>4
<1>7. Repeated'
  BY <1>2, <1>3, <1>5, <1>6 DEF Repeated
<1> QED
  BY <1>4, <1>7

LEMMA RepeatedLookUp ==
  ASSUME IInv, Answered, Repeated, NEW h \in Handlers, LookUp(h) \/ LookUpFails(h)
  PROVE  Answered' /\ Repeated'
<1> DEFINE found == IF req(h).kind = "single" /\ ~req(h).valid THEN {} ELSE Found(h)
<1>1. /\ pc[h] = "lookup" /\ UNCHANGED <<rows, mapping, asked>> /\ repeats' \subseteq repeats
      /\ \/ GoOnTo(h, "insert") /\ (found = {} \/ batch[h] \notin repeats')
         \/ Answer(h, found) \/ Answer(h, {})
  BY DEF LookUp, LookUpFails
<1>2. req(h).kind = "batch" /\ req(h).key # NoKey /\ found # {} => mapping[req(h).key] # NoBatch
  <2> SUFFICES ASSUME req(h).kind = "batch", req(h).key # NoKey, found # {}
               PROVE  mapping[req(h).key] # NoBatch
    OBVIOUS
  <2>1. PICK row \in rows : row.batch = mapping[req(h).key]
    BY DEF Found
  <2>2. row.batch \in Batches
    BY DEF IInv, TypeOK, Row, RowsOf
  <2> QED
    BY <2>1, <2>2, BoundsAssumption DEF Batches, NoBatch
<1>3. batch[h] \in repeats => found # {}
  BY <1>1, LookUpFinds
<1> HIDE DEF found
<1>4. Answered'
  <2>1. CASE GoOnTo(h, "insert")
    BY <1>1, <2>1 DEF GoOnTo, Answered
  <2>2. CASE Answer(h, found) \/ Answer(h, {})
    BY <1>1, <1>2, <2>2, AnsweredKept
  <2> QED
    BY <1>1, <2>1, <2>2
<1>5. /\ pc'[h] = "idle" \/ batch[h] \notin repeats'
      /\ pc'[h] = "idle" \/ batch'[h] = batch[h]
      /\ \A g \in Handlers \ {h} : pc'[g] = pc[g] /\ batch'[g] = batch[g]
  BY <1>1, <1>3 DEF GoOnTo, GoTo, Answer, IInv, TypeOK
<1>6. Repeated'
  BY <1>1, <1>5 DEF Repeated
<1> QED
  BY <1>4, <1>6

LEMMA RepeatedLater ==
  ASSUME IInv, Answered, Repeated, NEW h \in Handlers,
         \/ InsertRefused(h) \/ DeadlockVictim(h) \/ StatementFails(h)
         \/ Commit(h) \/ LoseCommit(h) \/ Map(h) \/ MapFails(h)
  PROVE  Answered' /\ Repeated'
<1> DEFINE own == RowsOf(batch[h], req(h))
<1>1. /\ pc[h] \notin {"idle", "lookup"} /\ UNCHANGED <<asked, repeats>>
      /\ rows' = rows \/ rows' = rows \cup own
      /\ mapping' = mapping \/ (mapping' = Mapped(h) /\ Answer(h, own))
  BY DEF InsertRefused, DeadlockVictim, Deadlocked, WaitsFor, Inserting, StatementFails, Rollback,
         Commit, LoseCommit, Committed, Map, MapFails
<1>2. /\ batch[h] \in Batches /\ batch[h] # NoBatch
      /\ req(h).kind \in {"single", "batch"} /\ req(h).key \in Keys \cup {NoKey}
  BY <1>1, RequestFacts, BoundsAssumption DEF Batches, NoBatch
<1>3. \A k \in Keys : mapping[k] # NoBatch => mapping'[k] # NoBatch
  BY <1>1 DEF Mapped, IInv, TypeOK
<1>4. \/ GoOnTo(h, "map")
      \/ \E rs : /\ Answer(h, rs)
                 /\ req(h).kind = "batch" /\ req(h).key # NoKey /\ rs # {} => mapping'[req(h).key] # NoBatch
  <2>1. CASE Map(h)
    <3>1. mapping' = Mapped(h) /\ Answer(h, own)
      BY <2>1 DEF Map
    <3>2. req(h).key # NoKey => mapping'[req(h).key] # NoBatch
      BY <1>2, <3>1 DEF Mapped, IInv, TypeOK
    <3> HIDE DEF own
    <3> QED
      BY <3>1, <3>2
  <2>2. CASE MapFails(h)
    <3>1. Answer(h, IF req(h).kind = "single" THEN own ELSE {})
      BY <2>2 DEF MapFails
    <3> HIDE DEF own
    <3> QED
      BY <3>1
  <2>3. CASE Commit(h)
    <3>1. GoOnTo(h, "map") \/ (req(h).key = NoKey /\ Answer(h, own))
      BY <2>3 DEF Commit
    <3> HIDE DEF own
    <3> QED
      BY <3>1
  <2>4. CASE InsertRefused(h) \/ DeadlockVictim(h) \/ StatementFails(h) \/ LoseCommit(h)
    <3>1. Answer(h, {})
      BY <2>4 DEF InsertRefused, DeadlockVictim, StatementFails, LoseCommit
    <3> QED
      BY <3>1
  <2> QED
    BY <2>1, <2>2, <2>3, <2>4
<1> HIDE DEF own
<1>5. Answered'
  <2>1. CASE GoOnTo(h, "map")
    <3>1. answers' = answers /\ \A a \in answers : a.key \in Keys \cup {NoKey}
      BY <2>1 DEF GoOnTo, IInv, TypeOK
    <3> QED
      BY <1>3, <3>1 DEF Answered
  <2>2. CASE \E rs : /\ Answer(h, rs)
                     /\ req(h).kind = "batch" /\ req(h).key # NoKey /\ rs # {} => mapping'[req(h).key] # NoBatch
    BY <1>1, <1>3, <2>2, AnsweredKept
  <2> QED
    BY <1>4, <2>1, <2>2
<1>6. /\ pc'[h] = "idle" \/ batch'[h] = batch[h]
      /\ \A g \in Handlers \ {h} : pc'[g] = pc[g] /\ batch'[g] = batch[g]
  BY <1>4 DEF GoOnTo, GoTo, Answer, IInv, TypeOK
<1>7. Repeated'
  BY <1>1, <1>3, <1>6, RepeatedKept DEF own
<1> QED
  BY <1>5, <1>7

LEMMA RepeatedStep == IInv /\ Answered /\ Repeated /\ [Next]_vars => Answered' /\ Repeated'
<1> SUFFICES ASSUME IInv, Answered, Repeated, [Next]_vars PROVE Answered' /\ Repeated'
  OBVIOUS
<1>1. ASSUME NEW h \in Handlers, NEW r \in Requests, Begin(h, r) PROVE Answered' /\ Repeated'
  BY <1>1, RepeatedBegin
<1>2. ASSUME NEW h \in Handlers, LookUp(h) \/ LookUpFails(h) PROVE Answered' /\ Repeated'
  BY <1>2, RepeatedLookUp
<1>3. ASSUME NEW h \in Handlers,
             \/ InsertRefused(h) \/ DeadlockVictim(h) \/ StatementFails(h)
             \/ Commit(h) \/ LoseCommit(h) \/ Map(h) \/ MapFails(h)
      PROVE  Answered' /\ Repeated'
  BY <1>3, RepeatedLater
<1>4. CASE UNCHANGED <<rows, mapping, pc, batch, asked, answers, repeats>>
  BY <1>4 DEF Answered, Repeated
<1>5. ASSUME NEW h \in Handlers, Insert(h) PROVE Answered' /\ Repeated'
  BY <1>4, <1>5 DEF Insert
<1>6. CASE Crash
  BY <1>6 DEF Crash, Answered, Repeated
<1> QED
  BY <1>1, <1>2, <1>3, <1>4, <1>5, <1>6 DEF Next, Proceed, vars

(***************************************************************************)
(* A batch request made after a success with its key creates nothing,      *)
(* unless its lookup fails: CreateBatch shows no batch before its mapping  *)
(* is written, and no mapping before its rows are.                         *)
(***************************************************************************)
THEOREM RepeatsCreateNothing == Spec => []RepeatsAreRecognised
<1>1. Repeated => RepeatsAreRecognised
  <2> SUFFICES ASSUME Repeated, NEW b \in repeats, NEW row \in RowsOf(b, asked[b]) \cap rows
               PROVE  FALSE
    BY DEF RepeatsAreRecognised
  <2>1. row.batch = b /\ row \in rows
    BY RowsOfFacts
  <2> QED
    BY <2>1 DEF Repeated
<1>2. Spec => [](Answered /\ Repeated)
  BY Invariance, RepeatedStart, RepeatedStep, PTL DEF Spec
<1> QED
  BY <1>1, <1>2, PTL

-----------------------------------------------------------------------------
(* Waiting for each other *)

\* Handlers that all wait for some of their own: the fewest such go round in circles.
LEMMA CircleOfWaiters ==
  ASSUME NEW W \in SUBSET Handlers, W # {},
         \A f \in W : \E g \in W : WaitsFor(f, g)
  PROVE  \E S \in SUBSET W :
           /\ S # {}
           /\ \A f \in S : \E before, after \in S : WaitsFor(before, f) /\ WaitsFor(f, after)
<1> DEFINE Closed == {S \in SUBSET W : S # {} /\ \A f \in S : \E g \in S : WaitsFor(f, g)}
<1>1. Closed # {} /\ Closed \subseteq SUBSET W
  <2>1. W \in Closed
    OBVIOUS
  <2> QED
    BY <2>1
<1>2. IsWellFoundedOn(StrictSubsetOrdering(W), SUBSET W)
  <2>1. IsFiniteSet(W)
    BY HandlersAssumption, FS_Subset
  <2> QED
    BY <2>1, FS_StrictSubsetOrderingWellFounded, FS_FiniteSubsetsOfFinite
<1>3. PICK S \in Closed : \A T \in Closed : ~(<<T, S>> \in StrictSubsetOrdering(W))
  <2> HIDE DEF Closed
  <2> QED
    BY <1>1, <1>2, WFMin
<1>4. ASSUME NEW f \in S
      PROVE  \E before \in S : WaitsFor(before, f)
  <2> SUFFICES ASSUME \A before \in S : ~WaitsFor(before, f) PROVE FALSE
    OBVIOUS
  <2> DEFINE T == S \ {f}
  <2>1. \A g \in T : \E after \in T : WaitsFor(g, after)
    BY <1>3
  <2>2. T # {}
    <3>1. PICK after \in S : WaitsFor(f, after)
      BY <1>3, <1>4
    <3>2. after # f
      BY <1>4, <3>1
    <3> QED
      BY <3>1, <3>2
  <2>3. T \in Closed
    BY <1>3, <2>1, <2>2
  <2>4. <<T, S>> \in StrictSubsetOrdering(W)
    BY <1>3, <1>4 DEF StrictSubsetOrdering
  <2> QED
    BY <1>3, <2>3, <2>4
<1>5. S \in SUBSET W /\ S # {} /\ \A f \in S : \E after \in S : WaitsFor(f, after)
  BY <1>3
<1> QED
  BY <1>4, <1>5

(***************************************************************************)
(* However many handlers wait for each other's keys: behind each of them   *)
(* there is one that can go on, or a circle PostgreSQL breaks.  No key is  *)
(* held by a handler that is done with its request.                        *)
(***************************************************************************)
THEOREM WaitingEnds == Spec => []NobodyStuck
<1>1. IInv => NobodyStuck
  <2> SUFFICES ASSUME IInv, NEW S \in SUBSET Handlers,
                      \A h \in S : ~CanProceed(h),
                      \E h \in S : pc[h] # "idle",
                      \A h \in S, g \in Handlers \ S : ~WaitsFor(h, g)
               PROVE  FALSE
    BY DEF NobodyStuck
  <2> DEFINE W == {h \in S : pc[h] # "idle"}
  <2>1. \A h, g \in Handlers : WaitsFor(h, g) => pc[g] # "idle" /\ pc[h] # "idle"
    <3> SUFFICES ASSUME NEW h \in Handlers, NEW g \in Handlers, WaitsFor(h, g)
                 PROVE  pc[g] # "idle" /\ pc[h] # "idle"
      OBVIOUS
    <3>1. pc[h] = "insert" /\ Pending(g) # {}
      BY DEF WaitsFor, Inserting
    <3>2. inserted[g] # <<>>
      BY <3>1 DEF Pending
    <3> QED
      BY <3>1, <3>2 DEF IInv, TypeOK
  <2>2. W \in SUBSET Handlers /\ W # {}
    OBVIOUS
  <2>3. \A f \in W : \E g \in W : WaitsFor(f, g)
    BY <2>1 DEF CanProceed
  <2>4. PICK C \in SUBSET W :
          /\ C # {}
          /\ \A f \in C : \E before, after \in C : WaitsFor(before, f) /\ WaitsFor(f, after)
    BY <2>2, <2>3, CircleOfWaiters
  <2>5. PICK h \in C : TRUE
    BY <2>4
  <2>6. C \in SUBSET {f \in Handlers : \E g \in Handlers : WaitsFor(f, g)}
    BY <2>4
  <2>7. Deadlocked(h)
    BY <2>4, <2>5, <2>6 DEF Deadlocked
  <2> QED
    BY <2>5, <2>7 DEF CanProceed
<1> QED
  BY <1>1, Invariance, PTL

-----------------------------------------------------------------------------
(* The refinement: which step of Intake each step is. *)

\* A request is one handler's; until its transaction commits none of its rows is there; what is inserted is valid.
Serving ==
  /\ \A g, h \in Handlers : pc[g] # "idle" /\ pc[h] # "idle" /\ batch[g] = batch[h] => g = h
  /\ \A h \in Handlers : pc[h] \in {"lookup", "insert"} => \A row \in rows : row.batch # batch[h]
  /\ \A h \in Handlers : pc[h] = "insert" => req(h).valid

LEMMA ServingStart == Init => Serving
BY DEF Init, Serving

\* A step of h that stores nothing, or whose rows are its own and stored for good.
LEMMA ServingKept ==
  ASSUME IInv, Serving, NEW h \in Handlers, pc[h] # "idle",
         rows' = rows \/ (pc'[h] \notin {"lookup", "insert"} /\ rows' = rows \cup RowsOf(batch[h], req(h))),
         asked' = asked,
         pc'[h] = "idle" \/ batch'[h] = batch[h],
         pc'[h] \in {"lookup", "insert"} => pc[h] \in {"lookup", "insert"},
         pc'[h] = "insert" => req(h).valid,
         \A g \in Handlers \ {h} : pc'[g] = pc[g] /\ batch'[g] = batch[g]
  PROVE  Serving'
<1>1. \A f, g \in Handlers : pc'[f] # "idle" /\ pc'[g] # "idle" /\ batch'[f] = batch'[g] => f = g
  BY DEF Serving
<1>2. \A g \in Handlers : pc'[g] = "insert" => req(g)'.valid
  <2> SUFFICES ASSUME NEW g \in Handlers, pc'[g] = "insert" PROVE req(g)'.valid
    OBVIOUS
  <2>1. req(g)' = req(g)
    BY DEF req
  <2> QED
    BY <2>1 DEF Serving
<1>3. \A row \in rows' : row \in rows \/ (row.batch = batch[h] /\ pc'[h] \notin {"lookup", "insert"})
  BY RowsOfFacts
<1>4. ASSUME NEW g \in Handlers, pc'[g] \in {"lookup", "insert"}, NEW row \in rows'
      PROVE  row.batch # batch'[g]
  <2>1. pc[g] \in {"lookup", "insert"} /\ batch'[g] = batch[g]
    BY <1>4
  <2>2. CASE row \in rows
    BY <2>1, <2>2 DEF Serving
  <2>3. CASE row.batch = batch[h] /\ pc'[h] \notin {"lookup", "insert"}
    <3>1. g # h /\ pc[g] # "idle"
      BY <1>4, <2>1, <2>3
    <3> QED
      BY <2>1, <2>3, <3>1 DEF Serving
  <2> QED
    BY <1>3, <2>2, <2>3
<1> QED
  BY <1>1, <1>2, <1>4 DEF Serving

\* A step that ends the request of h, as its answer does, or leaves it where it was.
LEMMA MovesOn ==
  ASSUME IInv, NEW h \in Handlers, pc[h] # "idle"
  PROVE  /\ \A rs : Answer(h, rs) => /\ pc'[h] = "idle"
                                     /\ \A g \in Handlers \ {h} : pc'[g] = pc[g] /\ batch'[g] = batch[g]
         /\ \A step : GoOnTo(h, step) => /\ pc'[h] = step /\ batch' = batch /\ answers' = answers
                                         /\ \A g \in Handlers \ {h} : pc'[g] = pc[g]
BY DEF Answer, GoOnTo, GoTo, IInv, TypeOK

LEMMA ServingStep == IInv /\ Serving /\ [Next]_vars => Serving'
<1> SUFFICES ASSUME IInv, Serving, [Next]_vars PROVE Serving'
  OBVIOUS
<1>1. ASSUME NEW h \in Handlers, NEW r \in Requests, Begin(h, r) PROVE Serving'
  <2> DEFINE b == Len(asked')
  <2>1. /\ pc[h] = "idle" /\ pc'[h] = "lookup" /\ batch'[h] = b /\ rows' = rows
        /\ \A g \in Handlers \ {h} : pc'[g] = pc[g] /\ batch'[g] = batch[g]
    BY <1>1 DEF Begin, GoTo, IInv, TypeOK
  <2>2. b = Len(asked) + 1 /\ Len(asked) \in Nat /\ \A i \in DOMAIN asked : i \in 1..Len(asked) /\ asked'[i] = asked[i]
    BY <1>1 DEF Begin, IInv, TypeOK
  <2> HIDE DEF b
  <2>3. \A g \in Handlers : pc[g] # "idle" => batch[g] \in DOMAIN asked /\ batch[g] # b
    BY <2>2 DEF IInv, Working
  <2>4. \A row \in rows : row.batch # b
    BY <2>2 DEF IInv, Whole
  <2>5. \A g \in Handlers : pc'[g] = "insert" => req(g)' = req(g) /\ pc[g] = "insert"
    BY <2>1, <2>2, <2>3 DEF req
  <2> QED
    BY <2>1, <2>3, <2>4, <2>5 DEF Serving
<1>2. ASSUME NEW h \in Handlers, LookUp(h) \/ LookUpFails(h) PROVE Serving'
  <2>1. /\ pc[h] = "lookup" /\ rows' = rows /\ asked' = asked
        /\ (req(h).valid /\ GoOnTo(h, "insert")) \/ \E rs : Answer(h, rs)
    BY <1>2 DEF LookUp, LookUpFails
  <2> QED
    BY <2>1, MovesOn, ServingKept
<1>3. ASSUME NEW h \in Handlers, InsertRefused(h) \/ DeadlockVictim(h) \/ StatementFails(h) \/ MapFails(h) PROVE Serving'
  <2>1. /\ pc[h] # "idle" /\ rows' = rows /\ asked' = asked
        /\ \E rs : Answer(h, rs)
    BY <1>3 DEF InsertRefused, DeadlockVictim, Deadlocked, WaitsFor, StatementFails, MapFails, Rollback, Inserting
  <2> QED
    BY <2>1, MovesOn, ServingKept
<1>4. ASSUME NEW h \in Handlers, Map(h) PROVE Serving'
  <2>1. pc[h] # "idle" /\ rows' = rows /\ asked' = asked /\ \E rs : Answer(h, rs)
    BY <1>4 DEF Map
  <2> QED
    BY <2>1, MovesOn, ServingKept
<1>5. ASSUME NEW h \in Handlers, Commit(h) \/ LoseCommit(h) PROVE Serving'
  <2>1. /\ pc[h] # "idle" /\ rows' = rows \cup RowsOf(batch[h], req(h)) /\ asked' = asked
        /\ GoOnTo(h, "map") \/ \E rs : Answer(h, rs)
    BY <1>5 DEF Commit, LoseCommit, Committed
  <2> QED
    BY <2>1, MovesOn, ServingKept
<1>6. CASE UNCHANGED <<rows, pc, batch, asked>>
  BY <1>6 DEF Serving, req
<1>7. CASE Crash
  BY <1>7 DEF Crash, Serving
<1>8. ASSUME NEW h \in Handlers, Insert(h) PROVE Serving'
  BY <1>6, <1>8 DEF Insert
<1> QED
  BY <1>1, <1>2, <1>3, <1>4, <1>5, <1>6, <1>7, <1>8 DEF Next, Proceed, vars

LEMMA PromiseStart == Init => Promise!Init
BY DEF Init, Promise!Init, Open, NoBatch, Promise!NoBatch

\* The own rows of a request and those its key stands for, as the handler computes them.
LEMMA OwnAndKnown ==
  ASSUME IInv, NEW h \in Handlers, pc[h] # "idle"
  PROVE  /\ batch[h] \in Open /\ asked[batch[h]] = req(h)
         /\ Promise!Own(batch[h]) = RowsOf(batch[h], req(h))
         /\ Promise!Known(batch[h]) = Found(h)
BY DEF Open, req, RowsOf, Found, Promise!Own, Promise!Known

\* An answer ends the request of h and no other.
LEMMA TellStep ==
  ASSUME IInv, Serving, NEW h \in Handlers, pc[h] # "idle", NEW rs, Answer(h, rs),
         rs \in {{}, RowsOf(batch[h], req(h)), Found(h)}, rs \subseteq rows'
  PROVE  Promise!Tell(batch[h])
<1>1. Open' = Open \ {batch[h]}
  <2>1. /\ pc'[h] = "idle"
        /\ \A g \in Handlers \ {h} : pc'[g] = pc[g] /\ batch'[g] = batch[g]
    BY MovesOn
  <2> QED
    BY <2>1 DEF Open, Serving
<1>2. answers' = answers \cup {[kind |-> asked[batch[h]].kind, key |-> asked[batch[h]].key, rows |-> rs]}
  BY OwnAndKnown DEF Answer
<1>3. rs \in {{}, Promise!Own(batch[h]), Promise!Known(batch[h])}
  BY OwnAndKnown
<1> QED
  BY <1>1, <1>2, <1>3 DEF Promise!Tell

\* The request of h is answered from what is in the tables.
LEMMA ServedStep ==
  ASSUME IInv, Serving, NEW h \in Handlers, pc[h] # "idle", NEW rs, Answer(h, rs),
         rs \in {{}, RowsOf(batch[h], req(h)), Found(h)}, rs \subseteq rows',
         UNCHANGED <<rows, mapping, asked>>
  PROVE  Promise!Next
<1>1. batch[h] \in Open /\ Promise!Tell(batch[h])
  BY OwnAndKnown, TellStep
<1>2. Promise!Serve(batch[h])
  BY <1>1 DEF Promise!Serve
<1> QED
  BY <1>1, <1>2 DEF Promise!Next

LEMMA GoneOn ==
  ASSUME IInv, NEW h \in Handlers, pc[h] # "idle", NEW step, step # "idle", GoOnTo(h, step)
  PROVE  Open' = Open /\ answers' = answers
<1>1. \A g \in Handlers : (pc'[g] # "idle" <=> pc[g] # "idle") /\ batch'[g] = batch[g]
  BY MovesOn
<1> QED
  BY <1>1, MovesOn DEF Open

LEMMA PromiseStep == IInv /\ Serving /\ [Next]_vars => [Promise!Next]_(Promise!vars)
<1> SUFFICES ASSUME IInv, Serving, [Next]_vars PROVE [Promise!Next]_(Promise!vars)
  OBVIOUS
<1>1. CASE UNCHANGED <<rows, mapping, asked, answers, Open>>
  BY <1>1 DEF Promise!vars
<1>2. ASSUME NEW h \in Handlers, NEW r \in Requests, Begin(h, r) PROVE Promise!Next
  <2>1. /\ pc[h] = "idle" /\ pc'[h] # "idle" /\ batch'[h] = Len(asked')
        /\ \A g \in Handlers \ {h} : pc'[g] = pc[g] /\ batch'[g] = batch[g]
    BY <1>2 DEF Begin, GoTo, IInv, TypeOK
  <2>2. Open' = Open \cup {Len(asked')}
    BY <2>1 DEF Open
  <2>3. Promise!Ask(r)
    BY <1>2, <2>2 DEF Begin, Promise!Ask
  <2> QED
    BY <2>3 DEF Promise!Next
<1>3. ASSUME NEW h \in Handlers, LookUp(h) PROVE Promise!Next \/ UNCHANGED Promise!vars
  <2> DEFINE found == IF req(h).kind = "single" /\ ~req(h).valid THEN {} ELSE Found(h)
  <2>1. /\ pc[h] = "lookup" /\ UNCHANGED <<rows, mapping, asked>>
        /\ GoOnTo(h, "insert") \/ Answer(h, found)
    BY <1>3 DEF LookUp
  <2>2. found \in {{}, Found(h)} /\ found \subseteq rows'
    <3>1. Found(h) \subseteq rows
      BY <2>1, RequestFacts DEF Found
    <3> QED
      BY <2>1, <3>1
  <2> HIDE DEF found
  <2>3. CASE GoOnTo(h, "insert")
    BY <2>1, <2>3, GoneOn DEF Promise!vars
  <2>4. CASE Answer(h, found)
    BY <2>1, <2>2, <2>4, ServedStep
  <2> QED
    BY <2>1, <2>3, <2>4
<1>4. ASSUME NEW h \in Handlers, LookUpFails(h) PROVE Promise!Next \/ UNCHANGED Promise!vars
  <2>1. /\ pc[h] = "lookup" /\ UNCHANGED <<rows, mapping, asked>>
        /\ GoOnTo(h, "insert") \/ Answer(h, {})
    BY <1>4 DEF LookUpFails
  <2>2. CASE GoOnTo(h, "insert")
    BY <2>1, <2>2, GoneOn DEF Promise!vars
  <2>3. CASE Answer(h, {})
    BY <2>1, <2>3, ServedStep
  <2> QED
    BY <2>1, <2>2, <2>3
<1>5. ASSUME NEW h \in Handlers, InsertRefused(h) \/ DeadlockVictim(h) \/ StatementFails(h) PROVE Promise!Next
  <2>1. pc[h] # "idle" /\ UNCHANGED <<rows, mapping, asked>> /\ Answer(h, {})
    BY <1>5 DEF InsertRefused, DeadlockVictim, Deadlocked, WaitsFor, StatementFails, Rollback, Inserting
  <2> QED
    BY <2>1, ServedStep
<1>6. ASSUME NEW h \in Handlers, MapFails(h) PROVE Promise!Next
  <2>1. /\ pc[h] = "map" /\ UNCHANGED <<rows, mapping, asked>>
        /\ RowsOf(batch[h], req(h)) \subseteq rows
        /\ Answer(h, {}) \/ Answer(h, RowsOf(batch[h], req(h)))
    BY <1>6 DEF MapFails, IInv, Mappable
  <2> QED
    BY <2>1, ServedStep
<1>7. ASSUME NEW h \in Handlers, Commit(h) \/ LoseCommit(h) PROVE Promise!Next
  <2> DEFINE b == batch[h]
             new == RowsOf(b, req(h))
  <2>1. /\ pc[h] = "insert" /\ Committed(h) /\ UNCHANGED <<mapping, asked>>
        /\ GoOnTo(h, "map") \/ \E rs \in {{}, new} : Answer(h, rs)
    BY <1>7 DEF Commit, LoseCommit, Committed
  <2>2. b \in Open /\ asked[b] = req(h) /\ Promise!Own(b) = new
    BY <2>1, OwnAndKnown
  <2>3. /\ rows' = rows \cup new
        /\ \A x \in new : x.key = NoKey \/ x.key \in Pending(h)
        /\ \A x, y \in new : x.key = y.key /\ x.key # NoKey => x = y
    BY <2>1, CommittedFacts
  <2>4. Promise!Store(b)
    <3>1. req(h).valid /\ \A row \in rows : row.batch # b
      BY <2>1 DEF Serving
    <3>2. \A x \in new, y \in rows : x.key = y.key => x.key = NoKey
      BY <2>3 DEF IInv, Apart, CommittedKeys
    <3>3. \A x \in new, y \in rows \cup new : x # y /\ x.key = y.key => x.key = NoKey
      BY <2>3, <3>2
    <3> HIDE DEF b, new
    <3> QED
      BY <2>2, <2>3, <3>1, <3>3 DEF Promise!Store
  <2>5. CASE GoOnTo(h, "map")
    <3>1. Open' = Open /\ answers' = answers
      BY <2>1, <2>5, GoneOn
    <3>2. Promise!Serve(b)
      BY <2>1, <2>2, <2>4, <3>1 DEF Promise!Serve
    <3> QED
      BY <2>2, <3>2 DEF Promise!Next
  <2>6. CASE \E rs \in {{}, new} : Answer(h, rs)
    <3>1. PICK rs \in {{}, new} : Answer(h, rs)
      BY <2>6
    <3>2. rs \subseteq rows'
      BY <2>3, <3>1
    <3>3. Promise!Tell(b)
      BY <2>1, <3>1, <3>2, TellStep
    <3>4. Promise!Serve(b)
      BY <2>1, <2>2, <2>4, <3>3 DEF Promise!Serve
    <3> QED
      BY <2>2, <3>4 DEF Promise!Next
  <2> QED
    BY <2>1, <2>5, <2>6
<1>8. ASSUME NEW h \in Handlers, Map(h) PROVE Promise!Next
  <2> DEFINE b == batch[h]
             k == req(h).key
  <2>1. /\ pc[h] = "map" /\ UNCHANGED <<rows, asked>> /\ mapping' = Mapped(h)
        /\ Answer(h, RowsOf(b, req(h))) /\ RowsOf(b, req(h)) \subseteq rows
    BY <1>8 DEF Map, IInv, Mappable
  <2>2. /\ b \in Open /\ asked[b] = req(h) /\ Promise!Own(b) = RowsOf(b, req(h))
        /\ mapping \in [Keys -> Batches \cup {NoBatch}] /\ k \in Keys \cup {NoKey}
    BY <2>1, OwnAndKnown, RequestFacts DEF IInv, TypeOK
  <2>3. Promise!Tell(b)
    BY <2>1, TellStep
  <2>4. Promise!GiveKey(b) \/ mapping' = mapping
    <3>1. CASE k \in Keys /\ mapping[k] = NoBatch
      <4>1. mapping' = [mapping EXCEPT ![k] = b] /\ k # NoKey
        BY <2>1, <3>1, KeysAssumption DEF Mapped
      <4> QED
        BY <2>1, <2>2, <3>1, <4>1 DEF Promise!GiveKey, NoBatch, Promise!NoBatch
    <3>2. CASE ~(k \in Keys /\ mapping[k] = NoBatch)
      BY <2>1, <2>2, <3>2 DEF Mapped
    <3> QED
      BY <3>1, <3>2
  <2>5. Promise!Serve(b)
    BY <2>1, <2>2, <2>3, <2>4 DEF Promise!Serve
  <2> QED
    BY <2>2, <2>5 DEF Promise!Next
<1>9. ASSUME NEW h \in Handlers, Insert(h) PROVE UNCHANGED Promise!vars
  BY <1>9 DEF Insert, Open, Promise!vars
<1>10. CASE Crash
  <2>1. Open' = {}
    BY <1>10 DEF Crash, Open
  <2>2. Promise!Abandon(Open)
    BY <1>10, <2>1 DEF Crash, Promise!Abandon
  <2> QED
    BY <2>2 DEF Promise!Next
<1>11. CASE UNCHANGED vars
  BY <1>1, <1>11 DEF vars, Open
<1> QED
  BY <1>2, <1>3, <1>4, <1>5, <1>6, <1>7, <1>8, <1>9, <1>10, <1>11 DEF Next, Proceed

(***************************************************************************)
(* CreateNotification and CreateBatch, for any handlers, keys and faults,  *)
(* keep the promise of Intake: of a request everything happens at once and *)
(* only once, as far as its client and the tables can tell.                *)
(***************************************************************************)
THEOREM Refinement == Spec => ImplementsIntake
<1>1. Spec => [](IInv /\ Serving)
  BY Invariance, ServingStart, ServingStep, PTL DEF Spec
<1> QED
  BY <1>1, PromiseStart, PromiseStep, PTL DEF Spec, ImplementsIntake, Promise!Spec
=============================================================================

--------------------------- MODULE ListingProofs ---------------------------
(***************************************************************************)
(* For any number of rows and clients and any limits: a walk passes a row  *)
(* over, or shows it twice, only for the causes Listing names.  The offset *)
(* of the next page is compared with the number of rows ahead of the row.  *)
(***************************************************************************)
EXTENDS Listing, FiniteSetTheorems, TLAPS

Ahead(r) == {m \in In : Before(m, r)}

Gone(w, r) == \E m \in left[w] : ~Before(r, m)
Come(w, r) == \E m \in came[w] : ~Before(r, m)

\* A row has its key from the draw on.
Keyed == \A r \in Rows : key[r] >= 1 <=> place[r] # "none"

\* What the history of a walk speaks of has been inserted.
Inserted == {r \in Rows : place[r] \in {"in", "out"}}

Known == \A w \in Walkers :
  /\ came[w] \cup left[w] \subseteq Inserted
  /\ \A r \in Rows : times[w][r] > 0 => r \in Inserted

Fresh == \A w \in Walkers : pc[w] = "idle" =>
  /\ offset[w] = 0 /\ came[w] = {} /\ left[w] = {} /\ steady[w] = {}
  /\ \A r \in Rows : times[w][r] = 0

\* A steady row not yet shown is still to come.
Missed == \A w \in Walkers, r \in Rows :
  r \in steady[w] /\ times[w][r] = 0 /\ ~Tied(r) /\ ~Gone(w, r) =>
    pc[w] = "walking" /\ offset[w] <= Cardinality(Ahead(r))

\* The walk is past a row once it was shown.
Passed == \A w \in Walkers, r \in Rows :
  times[w][r] > 0 /\ ~Tied(r) /\ ~Come(w, r) =>
    times[w][r] = 1 /\ (pc[w] = "walking" => offset[w] > Cardinality(Ahead(r)))

IInv == TypeOK /\ Keyed /\ Known /\ Fresh /\ Missed /\ Passed
-----------------------------------------------------------------------------
(* Fronts and the rows ahead of another. *)

LEMMA AheadFinite ==
  ASSUME NEW r
  PROVE  /\ IsFiniteSet(In) /\ Cardinality(In) \in Nat
         /\ IsFiniteSet(Ahead(r)) /\ Cardinality(Ahead(r)) \in Nat
<1>1. IsFiniteSet(In)
  BY RowsAssumption, FS_Subset DEF In
<1>2. IsFiniteSet(Ahead(r))
  BY <1>1, FS_Subset DEF Ahead
<1> QED
  BY <1>1, <1>2, FS_CardinalityType

\* Rows that do not tie are in one order or the other.
LEMMA Ordered ==
  ASSUME TypeOK, NEW m \in Rows, NEW r \in Rows, m # r, ~Tied(r)
  PROVE  Before(m, r) <=> ~Before(r, m)
<1>1. key[m] \in Nat /\ key[r] \in Nat /\ key[m] # key[r]
  BY DEF TypeOK, Tied
<1> QED
  BY <1>1 DEF Before

LEMMA FrontFacts ==
  ASSUME NEW k \in Nat, NEW P \in Fronts(k)
  PROVE  /\ P \subseteq In /\ IsFiniteSet(P) /\ Cardinality(P) \in Nat
         /\ Cardinality(P) <= k
         /\ Cardinality(P) = k \/ P = In
<1>1. P \subseteq In /\ Cardinality(P) = IF k < Cardinality(In) THEN k ELSE Cardinality(In)
  BY DEF Fronts
<1>2. IsFiniteSet(In) /\ Cardinality(In) \in Nat
  BY AheadFinite
<1>3. IsFiniteSet(P) /\ (Cardinality(In) = Cardinality(P) => In = P)
  BY <1>1, <1>2, FS_Subset
<1> QED
  BY <1>1, <1>2, <1>3

\* A front that has not come to r yet is as long as asked for and holds only rows ahead of r.
LEMMA FrontBefore ==
  ASSUME TypeOK, NEW k \in Nat, NEW P \in Fronts(k), NEW r \in In, r \notin P, ~Tied(r)
  PROVE  Cardinality(P) = k /\ k <= Cardinality(Ahead(r))
<1>1. P \subseteq In /\ Cardinality(P) = k
  BY FrontFacts
<1>2. P \subseteq Ahead(r)
  <2> SUFFICES ASSUME NEW m \in P PROVE Before(m, r)
    BY <1>1 DEF Ahead
  <2>1. ~Before(r, m) /\ m # r /\ m \in Rows /\ r \in Rows
    BY <1>1 DEF Fronts, In
  <2> QED
    BY <2>1, Ordered
<1>3. Cardinality(P) <= Cardinality(Ahead(r))
  BY <1>2, AheadFinite, FS_Subset
<1> QED
  BY <1>1, <1>3

\* One that has come to r holds every row ahead of it as well.
LEMMA FrontBeyond ==
  ASSUME TypeOK, NEW k \in Nat, NEW P \in Fronts(k), NEW r \in P
  PROVE  Cardinality(Ahead(r)) < Cardinality(P)
<1>1. P \subseteq In /\ IsFiniteSet(P) /\ r \in Rows
  BY FrontFacts DEF In
<1>2. Ahead(r) \cup {r} \subseteq P
  BY <1>1 DEF Fronts, Ahead
<1>3. r \notin Ahead(r)
  <2>1. key[r] \in Nat
    BY <1>1 DEF TypeOK
  <2> QED
    BY <2>1 DEF Ahead, Before
<1>4. Cardinality(Ahead(r) \cup {r}) = Cardinality(Ahead(r)) + 1
  BY <1>3, AheadFinite, FS_AddElement
<1>5. Cardinality(Ahead(r) \cup {r}) <= Cardinality(P)
  BY <1>1, <1>2, FS_Subset
<1>6. Cardinality(Ahead(r)) \in Nat /\ Cardinality(P) \in Nat
  BY <1>1, AheadFinite, FS_CardinalityType
<1> QED
  BY <1>4, <1>5, <1>6

LEMMA BoundedLimitType ==
  ASSUME NEW n \in Int
  PROVE  BoundedLimit(n) \in 1..MaxLimit
BY LimitsAssumption DEF BoundedLimit
-----------------------------------------------------------------------------
LEMMA InitIInv == Init => IInv
<1> SUFFICES ASSUME Init PROVE IInv
  OBVIOUS
<1>1. TypeOK
  BY LimitsAssumption DEF Init, TypeOK, NotShown
<1> QED
  BY <1>1 DEF Init, IInv, Keyed, Known, Fresh, Missed, Passed, NotShown

(***************************************************************************)
(* Rows of C come into the list and those of L leave it; nothing else      *)
(* happens to rows already inserted.                                       *)
(***************************************************************************)
Moves(C, L) ==
  /\ Shift(C, L)
  /\ In' = (In \cup C) \ L /\ Inserted \subseteq Inserted'
  /\ C \cup L \subseteq Inserted' /\ C \cap L = {}
  /\ \A r \in Inserted : key'[r] = key[r] /\ key[r] >= 1
  /\ \A r \in Rows : key'[r] = key[r] \/ (key[r] = 0 /\ key'[r] > latest)
  /\ \A r \in Rows : key[r] <= latest
  /\ UNCHANGED <<list, pc, limit, offset, times>>

LEMMA MovesStep ==
  ASSUME IInv, NEW C \in SUBSET Rows, NEW L \in SUBSET Rows, Moves(C, L), TypeOK', Keyed'
  PROVE  IInv'
<1> USE DEF Moves, Shift
<1>1. \A r \in Inserted : Tied(r)' = Tied(r)
  BY DEF Tied, Inserted, IInv, TypeOK
<1>2. \A m, r \in Inserted : Before(m, r)' = Before(m, r)
  BY DEF Before
<1>3. In \subseteq Inserted /\ Inserted \subseteq Rows /\ \A w \in Walkers : steady[w] \subseteq In
  BY DEF In, Inserted, IInv, TypeOK
<1>4. Known'
  BY DEF Known, IInv, TypeOK, Walking
<1>5. Fresh'
  BY DEF Fresh, IInv, TypeOK, Walking
<1>6. Missed'
  <2> SUFFICES ASSUME NEW w \in Walkers, NEW r \in Rows,
                      r \in steady'[w], times'[w][r] = 0, ~Tied(r)', ~Gone(w, r)'
               PROVE  pc'[w] = "walking" /\ offset'[w] <= Cardinality(Ahead(r)')
    BY DEF Missed
  <2>1. r \in steady[w] /\ r \in Inserted /\ ~Tied(r)
    BY <1>1, <1>3 DEF IInv, TypeOK
  <2>2. left[w] \subseteq left'[w] /\ left[w] \subseteq Inserted
    BY DEF IInv, TypeOK, Known
  <2>3. ~Gone(w, r)
    BY <1>2, <2>1, <2>2 DEF Gone
  <2>4. pc[w] = "walking" /\ offset[w] <= Cardinality(Ahead(r))
    BY <2>1, <2>3 DEF IInv, Missed
  <2>5. L \subseteq left'[w]
    BY <2>4 DEF IInv, TypeOK, Walking
  <2>6. Ahead(r) \subseteq Ahead(r)'
    <3> SUFFICES ASSUME NEW m \in Ahead(r) PROVE m \in Ahead(r)'
      OBVIOUS
    <3>1. m \in In /\ m \in Inserted /\ Before(m, r) /\ Before(m, r)'
      BY <1>2, <1>3, <2>1 DEF Ahead
    <3>2. m \notin L
      <4>1. m \in L => Before(r, m)'
        BY <2>5 DEF Gone
      <4>2. key'[m] \in Nat /\ key'[r] \in Nat
        BY <1>3, <3>1 DEF TypeOK
      <4> QED
        BY <3>1, <4>1, <4>2 DEF Before
    <3> QED
      BY <3>1, <3>2 DEF Ahead
  <2>7. IsFiniteSet(Ahead(r)') /\ Cardinality(Ahead(r)) \in Nat
    <3>1. Ahead(r)' \subseteq Rows
      BY DEF Ahead, In
    <3> QED
      BY <3>1, AheadFinite, RowsAssumption, FS_Subset
  <2>8. Cardinality(Ahead(r)) <= Cardinality(Ahead(r)') /\ Cardinality(Ahead(r)') \in Nat
    BY <2>6, <2>7, FS_Subset, FS_CardinalityType
  <2> QED
    BY <2>4, <2>7, <2>8 DEF IInv, TypeOK
<1>7. Passed'
  <2> SUFFICES ASSUME NEW w \in Walkers, NEW r \in Rows,
                      times'[w][r] > 0, ~Tied(r)', ~Come(w, r)'
               PROVE  times'[w][r] = 1 /\ (pc'[w] = "walking" => offset'[w] > Cardinality(Ahead(r)'))
    BY DEF Passed
  <2>1. r \in Inserted /\ ~Tied(r)
    BY <1>1 DEF IInv, Known
  <2>2. came[w] \subseteq came'[w] /\ came[w] \subseteq Inserted
    BY DEF IInv, TypeOK, Known
  <2>3. ~Come(w, r)
    BY <1>2, <2>1, <2>2 DEF Come
  <2>4. times[w][r] = 1 /\ (pc[w] = "walking" => offset[w] > Cardinality(Ahead(r)))
    BY <2>1, <2>3 DEF IInv, Passed
  <2> SUFFICES ASSUME pc[w] = "walking" PROVE offset[w] > Cardinality(Ahead(r)')
    BY <2>4
  <2>5. C \subseteq came'[w]
    BY DEF IInv, TypeOK, Walking
  <2>6. Ahead(r)' \subseteq Ahead(r)
    <3> SUFFICES ASSUME NEW m \in Ahead(r)' PROVE m \in Ahead(r)
      OBVIOUS
    <3>1. m \in Rows /\ m \in In \cup C /\ Before(m, r)'
      BY DEF Ahead, In
    <3>2. m \notin C
      <4>1. m \in C => Before(r, m)'
        BY <2>5 DEF Come
      <4>2. key'[m] \in Nat /\ key'[r] \in Nat
        BY <3>1 DEF TypeOK
      <4> QED
        BY <3>1, <4>1, <4>2 DEF Before
    <3> QED
      BY <1>2, <1>3, <2>1, <3>1, <3>2 DEF Ahead
  <2>7. Cardinality(Ahead(r)') <= Cardinality(Ahead(r))
    BY <2>6, AheadFinite, FS_Subset
  <2>8. Cardinality(Ahead(r)) \in Nat /\ Cardinality(Ahead(r)') \in Nat
    BY <2>6, AheadFinite, FS_Subset, FS_CardinalityType
  <2> QED
    BY <2>4, <2>7, <2>8 DEF IInv, TypeOK
<1> QED
  BY <1>4, <1>5, <1>6, <1>7 DEF IInv
-----------------------------------------------------------------------------
(* One lemma per action. *)

LEMMA ShiftType ==
  ASSUME TypeOK, NEW C \in SUBSET Rows, NEW L \in SUBSET Rows, Shift(C, L), In' = (In \cup C) \ L
  PROVE  /\ came' \in [Walkers -> SUBSET Rows] /\ left' \in [Walkers -> SUBSET Rows]
         /\ steady' \in [Walkers -> SUBSET In']
BY DEF TypeOK, Shift, In

LEMMA DrawStep ==
  ASSUME IInv, NEW S \in SUBSET Rows, Draw(S)
  PROVE  IInv'
<1>1. TypeOK' /\ Keyed' /\ In' = In
  BY DEF Draw, walks, IInv, TypeOK, Keyed, In
<1>2. Shift({}, {})
  BY DEF Draw, walks, Shift, IInv, TypeOK
<1>3. Inserted \subseteq Inserted'
  BY DEF Draw, Inserted, IInv, TypeOK
<1>4. Moves({}, {})
  BY <1>1, <1>2, <1>3 DEF Moves, Draw, walks, Inserted, IInv, TypeOK, Keyed
<1> QED
  BY <1>1, <1>4, MovesStep

LEMMA CommitStep ==
  ASSUME IInv, NEW S \in SUBSET Rows, Commit(S)
  PROVE  IInv'
<1>1. PICK C \in ShownAtOnce(S) :
        /\ place' = [r \in Rows |-> IF r \in C THEN "in" ELSE IF r \in S THEN "out" ELSE place[r]]
        /\ Shift(C, {})
  BY DEF Commit
<1>2. C \subseteq S /\ \A r \in S : place[r] = "drawn"
  <2>1. list \in {"all", "events", "passing", "ended"}
    BY ListsAssumption DEF IInv, TypeOK, ListKinds
  <2> QED
    BY <1>1, <2>1 DEF ShownAtOnce, Commit
<1>3. UNCHANGED <<list, key, latest, pc, limit, offset, times>>
  BY DEF Commit
<1>4. place' \in [Rows -> {"none", "drawn", "in", "out"}] /\ In' = In \cup C
  BY <1>1, <1>2 DEF IInv, TypeOK, In
<1>5. TypeOK'
  BY <1>1, <1>2, <1>3, <1>4, ShiftType DEF IInv, TypeOK
<1>6. Keyed' /\ Inserted \subseteq Inserted' /\ C \subseteq Inserted'
  BY <1>1, <1>2, <1>3 DEF IInv, Keyed, TypeOK, Inserted
<1>7. Moves(C, {})
  BY <1>1, <1>2, <1>3, <1>4, <1>6 DEF Moves, Inserted, IInv, TypeOK, Keyed
<1> QED
  BY <1>2, <1>5, <1>6, <1>7, MovesStep

LEMMA EnterStep ==
  ASSUME IInv, NEW r \in Rows, Enter(r)
  PROVE  IInv'
<1>1. /\ place[r] = "out" /\ place' = [place EXCEPT ![r] = "in"] /\ Shift({r}, {})
      /\ UNCHANGED <<list, key, latest, pc, limit, offset, times>>
  BY DEF Enter
<1>2. In' = In \cup {r} /\ Inserted' = Inserted /\ r \in Inserted
  BY <1>1 DEF IInv, TypeOK, In, Inserted
<1>3. TypeOK' /\ Keyed'
  BY <1>1, <1>2, ShiftType DEF IInv, TypeOK, Keyed
<1>4. Moves({r}, {})
  BY <1>1, <1>2 DEF Moves, Inserted, IInv, TypeOK, Keyed
<1> QED
  BY <1>3, <1>4, MovesStep

LEMMA LeaveStep ==
  ASSUME IInv, NEW r \in Rows, Leave(r)
  PROVE  IInv'
<1>1. /\ place[r] = "in" /\ place' = [place EXCEPT ![r] = "out"] /\ Shift({}, {r})
      /\ UNCHANGED <<list, key, latest, pc, limit, offset, times>>
  BY DEF Leave
<1>2. In' = In \ {r} /\ Inserted' = Inserted /\ r \in Inserted
  BY <1>1 DEF IInv, TypeOK, In, Inserted
<1>3. TypeOK' /\ Keyed'
  BY <1>1, <1>2, ShiftType DEF IInv, TypeOK, Keyed
<1>4. Moves({}, {r})
  BY <1>1, <1>2 DEF Moves, Inserted, IInv, TypeOK, Keyed
<1> QED
  BY <1>3, <1>4, MovesStep

LEMMA BeginStep ==
  ASSUME IInv, NEW w \in Walkers, Begin(w)
  PROVE  IInv'
<1> USE DEF Begin, table
<1>1. \A r \in Rows : Tied(r)' = Tied(r) /\ Ahead(r)' = Ahead(r) /\ \A v \in Walkers : Gone(v, r)' = Gone(v, r) /\ Come(v, r)' = Come(v, r)
  BY DEF Tied, Ahead, In, Before, Gone, Come
<1>2. TypeOK'
  <2>1. PICK n \in Asked : limit' = [limit EXCEPT ![w] = BoundedLimit(n)]
    OBVIOUS
  <2>2. BoundedLimit(n) \in 1..MaxLimit
    BY LimitsAssumption, BoundedLimitType
  <2> QED
    BY <2>1, <2>2 DEF IInv, TypeOK, In
<1>3. Keyed' /\ Known' /\ Fresh'
  BY DEF IInv, TypeOK, Keyed, Known, Inserted, Fresh
<1>4. Missed'
  <2> SUFFICES ASSUME NEW v \in Walkers, NEW r \in Rows,
                      r \in steady'[v], times'[v][r] = 0, ~Tied(r), ~Gone(v, r)
               PROVE  pc'[v] = "walking" /\ offset'[v] <= Cardinality(Ahead(r))
    BY <1>1 DEF Missed
  <2>1. CASE v = w
    <3>1. offset[w] = 0 /\ pc'[w] = "walking"
      BY DEF IInv, Fresh, TypeOK
    <3> QED
      BY <2>1, <3>1, AheadFinite
  <2>2. CASE v # w
    BY <2>2 DEF IInv, Missed, TypeOK
  <2> QED
    BY <2>1, <2>2
<1>5. Passed'
  <2>1. \A v \in Walkers : v # w => pc'[v] = pc[v]
    BY DEF IInv, TypeOK
  <2>2. \A r \in Rows : times[w][r] = 0
    BY DEF IInv, Fresh
  <2> QED
    BY <1>1, <2>1, <2>2 DEF IInv, Passed
<1> QED
  BY <1>2, <1>3, <1>4, <1>5 DEF IInv

LEMMA PageStep ==
  ASSUME IInv, NEW w \in Walkers, Page(w)
  PROVE  IInv'
<1>1. PICK S \in Pages(limit[w], offset[w]) :
        /\ times' = [times EXCEPT ![w] = [r \in Rows |-> IF r \in S THEN @[r] + 1 ELSE @[r]]]
        /\ offset' = [offset EXCEPT ![w] = @ + Cardinality(S)]
        /\ pc' = [pc EXCEPT ![w] = IF HasMore(limit[w], Cardinality(S)) THEN "walking" ELSE "done"]
  BY DEF Page
<1>2. pc[w] = "walking" /\ UNCHANGED <<list, place, key, latest, limit, steady, came, left>>
  BY DEF Page, table
<1> DEFINE k == offset[w]
           n == limit[w]
<1>3. k \in Nat /\ n \in Nat \ {0}
  BY LimitsAssumption DEF IInv, TypeOK
<1>4. PICK P \in Fronts(k) : P \cap S = {} /\ P \cup S \in Fronts(k + n)
  BY <1>1 DEF Pages
<1> DEFINE Q == P \cup S
<1>5. S \subseteq In /\ In \subseteq Rows
  BY <1>1 DEF Pages, In
<1>6. /\ IsFiniteSet(P) /\ IsFiniteSet(Q) /\ Cardinality(P) \in Nat /\ Cardinality(Q) \in Nat
      /\ Cardinality(P) <= k /\ Cardinality(Q) <= k + n
  <2>1. k + n \in Nat
    BY <1>3
  <2> QED
    BY <1>3, <1>4, <2>1, FrontFacts
<1>7. Cardinality(S) = Cardinality(Q) - Cardinality(P) /\ Cardinality(S) \in Nat
  <2>1. S = Q \ P /\ Q \cap P = P
    BY <1>4
  <2>2. Cardinality(S) = Cardinality(Q) - Cardinality(P) /\ IsFiniteSet(S)
    BY <1>6, <2>1, FS_Difference
  <2> QED
    BY <2>2, FS_CardinalityType
<1>8. \A r \in Rows : Tied(r)' = Tied(r) /\ Ahead(r)' = Ahead(r) /\ \A v \in Walkers : Gone(v, r)' = Gone(v, r) /\ Come(v, r)' = Come(v, r)
  BY <1>2 DEF Tied, Ahead, In, Before, Gone, Come
<1>9. /\ times' \in [Walkers -> [Rows -> Nat]]
      /\ \A r \in Rows : times'[w][r] = IF r \in S THEN times[w][r] + 1 ELSE times[w][r]
      /\ \A v \in Walkers \ {w} : times'[v] = times[v] /\ offset'[v] = offset[v] /\ pc'[v] = pc[v]
      /\ offset'[w] = k + Cardinality(S) /\ pc'[w] \in {"walking", "done"}
      /\ pc'[w] = "walking" <=> Cardinality(S) = n
  BY <1>1 DEF IInv, TypeOK, HasMore
<1>10. TypeOK'
  BY <1>1, <1>2, <1>3, <1>7, <1>9 DEF IInv, TypeOK, In
<1>11. Keyed' /\ Known' /\ Fresh'
  <2>1. \A r \in S : r \in Inserted
    BY <1>5 DEF In, Inserted
  <2>2. Known'
    <3> SUFFICES ASSUME NEW v \in Walkers
                 PROVE  /\ came[v] \cup left[v] \subseteq Inserted
                        /\ \A r \in Rows : times'[v][r] > 0 => r \in Inserted
      BY <1>2 DEF Known, Inserted
    <3> QED
      BY <1>9, <2>1 DEF IInv, Known
  <2> QED
    BY <1>2, <1>9, <2>2 DEF IInv, Keyed, Fresh
<1>12. Missed'
  <2> SUFFICES ASSUME NEW v \in Walkers, NEW r \in Rows,
                      r \in steady[v], times'[v][r] = 0, ~Tied(r), ~Gone(v, r)
               PROVE  pc'[v] = "walking" /\ offset'[v] <= Cardinality(Ahead(r))
    BY <1>2, <1>8 DEF Missed
  <2>1. CASE v # w
    BY <1>9, <2>1 DEF IInv, Missed
  <2>2. CASE v = w
    <3>1. r \notin S /\ times[w][r] = 0 /\ r \in In
      BY <1>9, <2>2 DEF IInv, TypeOK
    <3>2. k <= Cardinality(Ahead(r)) /\ Cardinality(Ahead(r)) \in Nat
      BY <2>2, <3>1, AheadFinite DEF IInv, Missed
    <3>3. r \notin P
      BY <1>3, <1>4, <1>6, <3>2, FrontBeyond DEF IInv
    <3>4. k + n \in Nat
      BY <1>3
    <3>5. Cardinality(Q) = k + n /\ k + n <= Cardinality(Ahead(r))
      BY <1>4, <3>1, <3>3, <3>4, FrontBefore DEF IInv
    <3>6. Cardinality(P) = k
      BY <1>3, <1>4, <3>1, <3>3, FrontBefore DEF IInv
    <3> QED
      BY <1>3, <1>7, <1>9, <2>2, <3>5, <3>6
  <2> QED
    BY <2>1, <2>2
<1>13. Passed'
  <2> SUFFICES ASSUME NEW v \in Walkers, NEW r \in Rows,
                      times'[v][r] > 0, ~Tied(r), ~Come(v, r)
               PROVE  times'[v][r] = 1 /\ (pc'[v] = "walking" => offset'[v] > Cardinality(Ahead(r)))
    BY <1>8 DEF Passed
  <2>1. CASE v # w
    BY <1>9, <2>1 DEF IInv, Passed
  <2>2. CASE v = w /\ times[w][r] > 0
    <3>1. times[w][r] = 1 /\ k > Cardinality(Ahead(r)) /\ Cardinality(Ahead(r)) \in Nat
      BY <1>2, <2>2, AheadFinite DEF IInv, Passed
    <3>2. r \notin S
      <4> SUFFICES ASSUME r \in S PROVE FALSE
        OBVIOUS
      <4>1. r \in In /\ r \notin P
        BY <1>4, <1>5
      <4>2. k <= Cardinality(Ahead(r))
        BY <1>3, <1>4, <4>1, FrontBefore DEF IInv
      <4> QED
        BY <1>3, <3>1, <4>2
    <3> QED
      BY <1>3, <1>7, <1>9, <2>2, <3>1, <3>2
  <2>3. CASE v = w /\ ~(times[w][r] > 0)
    <3>1. r \in S /\ times[w][r] = 0 /\ times'[w][r] = 1
      BY <1>9, <2>3 DEF IInv, TypeOK
    <3>2. Cardinality(Ahead(r)) < Cardinality(Q) /\ Cardinality(Ahead(r)) \in Nat
      <4>1. k + n \in Nat /\ r \in Q
        BY <1>3, <3>1
      <4> QED
        BY <1>4, <4>1, FrontBeyond, AheadFinite DEF IInv
    <3> QED
      BY <1>3, <1>6, <1>7, <1>9, <2>3, <3>1, <3>2
  <2> QED
    BY <2>1, <2>2, <2>3
<1> QED
  BY <1>10, <1>11, <1>12, <1>13 DEF IInv
-----------------------------------------------------------------------------
LEMMA NextStep == IInv /\ [Next]_vars => IInv'
<1> SUFFICES ASSUME IInv, [Next]_vars PROVE IInv'
  OBVIOUS
<1>1. ASSUME NEW S \in SUBSET Rows, Draw(S) \/ Commit(S) PROVE IInv'
  BY <1>1, DrawStep, CommitStep
<1>2. ASSUME NEW r \in Rows, Enter(r) \/ Leave(r) PROVE IInv'
  BY <1>2, EnterStep, LeaveStep
<1>3. ASSUME NEW w \in Walkers, Begin(w) \/ Page(w) PROVE IInv'
  BY <1>3, BeginStep, PageStep
<1>4. CASE UNCHANGED vars
  <2>1. UNCHANGED <<list, place, key, latest, pc, limit, offset, times, steady, came, left>>
    BY <1>4 DEF vars, table, walks
  <2>2. TypeOK' /\ Keyed' /\ Known' /\ Fresh'
    BY <2>1 DEF IInv, TypeOK, Keyed, Known, Fresh, Inserted, In
  <2>3. \A r \in Rows : Tied(r)' = Tied(r) /\ Ahead(r)' = Ahead(r) /\ \A w \in Walkers : Gone(w, r)' = Gone(w, r) /\ Come(w, r)' = Come(w, r)
    BY <2>1 DEF Tied, Ahead, In, Before, Gone, Come
  <2> QED
    BY <2>1, <2>2, <2>3 DEF IInv, Missed, Passed
<1> QED
  BY <1>1, <1>2, <1>3, <1>4 DEF Next

(***************************************************************************)
(* The offset of every walk stays on the right side of every row whose     *)
(* place in the list nothing has disturbed.                                *)
(***************************************************************************)
THEOREM Invariance == Spec => []IInv
BY InitIInv, NextStep, PTL DEF Spec

(***************************************************************************)
(* The variables keep their types; a page is never empty by its limit and  *)
(* never larger than the maximum.  (boundedLimit.)                         *)
(***************************************************************************)
THEOREM TypeCorrect == Spec => []TypeOK
<1>1. IInv => TypeOK
  BY DEF IInv
<1> QED
  BY <1>1, Invariance, PTL

(***************************************************************************)
(* A walk passes over a row of the list only when the row ties with        *)
(* another or one at or before its place has left.                         *)
(***************************************************************************)
THEOREM NothingMissed == Spec => []MissedOnlyForCause
<1>1. IInv => MissedOnlyForCause
  <2> SUFFICES ASSUME IInv, NEW w \in Walkers, pc[w] = "done", NEW r \in steady[w],
                      ~(times[w][r] > 0), ~Tied(r), ~Gone(w, r)
               PROVE  FALSE
    BY DEF MissedOnlyForCause, Gone
  <2>1. r \in Rows /\ times[w][r] = 0
    BY DEF IInv, TypeOK, In
  <2> QED
    BY <2>1 DEF IInv, Missed
<1> QED
  BY <1>1, Invariance, PTL

(***************************************************************************)
(* A walk shows a row twice only when the row ties with another or one at  *)
(* or before its place has come in.                                        *)
(***************************************************************************)
THEOREM NothingTwice == Spec => []TwiceOnlyForCause
<1>1. IInv => TwiceOnlyForCause
  <2> SUFFICES ASSUME IInv, NEW w \in Walkers, NEW r \in Rows,
                      times[w][r] > 1, ~Tied(r), ~Come(w, r)
               PROVE  FALSE
    BY DEF TwiceOnlyForCause, Come
  <2>1. times[w][r] \in Nat
    BY DEF IInv, TypeOK
  <2> QED
    BY <2>1 DEF IInv, Passed
<1> QED
  BY <1>1, Invariance, PTL
=============================================================================

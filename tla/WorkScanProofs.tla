--------------------------- MODULE WorkScanProofs ----------------------------
(***************************************************************************)
(* Proofs about WorkScan, for any number of identifiers and passes and any *)
(* size of a page: what LIMIT and the extra row say about the rows behind  *)
(* the page, and that a pass which comes to its end has left out nothing   *)
(* that was open all along.                                                *)
(***************************************************************************)
EXTENDS WorkScan, FiniteSetTheorems, WellFoundedInduction, TLAPS

LEMMA HasLowest ==
    ASSUME NEW S \in SUBSET Nat, S # {}
    PROVE  \E i \in S : \A j \in S : i <= j
<1> DEFINE less == OpToRel(<, Nat)
<1>1. IsWellFoundedOn(less, Nat)
  BY NatLessThanWellFounded
<1>2. PICK i \in S : \A j \in S : <<j, i>> \notin less
  <2> HIDE DEF less
  <2> QED
    BY <1>1, WFMin, Zenon
<1>3. \A j \in S : ~(j < i)
  BY <1>2 DEF OpToRel
<1> QED
  BY <1>3

LEMMA IdsAreNaturals == \A S \in SUBSET Ids : S \in SUBSET Nat /\ \A i \in S : i > 0
  BY ScanAssumption DEF Ids

LEMMA HasHighest ==
    ASSUME NEW S \in SUBSET Ids, S # {}
    PROVE  \E i \in S : \A j \in S : j <= i
<1> DEFINE T == {Size - i : i \in S}
<1>0. \A i \in S : i \in Nat /\ i <= Size /\ Size - i \in Nat
  BY ScanAssumption DEF Ids
<1>1. T \in SUBSET Nat /\ T # {}
  <2>1. PICK i \in S : TRUE
    OBVIOUS
  <2>2. Size - i \in T
    OBVIOUS
  <2> QED
    BY <1>0, <2>2
<1>2. PICK t \in T : \A u \in T : t <= u
  <2> HIDE DEF T
  <2> QED
    BY <1>1, HasLowest
<1>3. PICK i \in S : t = Size - i
  OBVIOUS
<1>4. \A j \in S : Size - i <= Size - j
  BY <1>2, <1>3
<1> QED
  BY <1>0, <1>4, ScanAssumption

LEMMA MinIsLowest ==
    ASSUME NEW S \in SUBSET Ids, S # {}
    PROVE  Min(S) \in S /\ \A j \in S : Min(S) <= j
<1>1. S \in SUBSET Nat
  BY ScanAssumption DEF Ids
<1> QED
  BY <1>1, HasLowest DEF Min

LEMMA MaxIsHighest ==
    ASSUME NEW S \in SUBSET Ids, S # {}
    PROVE  Max(S) \in S /\ \A j \in S : j <= Max(S)
<1>1. \E x \in S : \A y \in S : x >= y
  BY HasHighest, ScanAssumption DEF Ids
<1> QED
  BY <1>1, ScanAssumption DEF Max, Ids

LEMMA IdsFinite ==
    ASSUME NEW S \in SUBSET Ids
    PROVE  IsFiniteSet(S) /\ Cardinality(S) \in Nat
<1>1. IsFiniteSet(Ids)
  BY ScanAssumption, FS_Interval DEF Ids
<1>2. IsFiniteSet(S)
  BY <1>1, FS_Subset
<1> QED
  BY <1>2, FS_CardinalityType
-----------------------------------------------------------------------------
(* ORDER BY id LIMIT n: the n lowest keys of a set, or all of it.          *)
Before(S, i) == {j \in S : j < i}

LEMMA LowestIsDownward ==
    ASSUME NEW S \in SUBSET Ids, NEW n \in Nat,
           NEW i \in S, NEW k \in Lowest(n, S), i < k
    PROVE  i \in Lowest(n, S)
<1>1. Before(S, i) \subseteq Before(S, k) /\ Before(S, k) \in SUBSET Ids
  <2>1. S \in SUBSET Nat /\ k \in S
    BY IdsAreNaturals DEF Lowest
  <2>2. \A j \in S : j < i => j < k
    BY <2>1
  <2> QED
    BY <2>2 DEF Before
<1>2. Cardinality(Before(S, i)) <= Cardinality(Before(S, k))
  BY <1>1, IdsFinite, FS_Subset
<1>3. Cardinality(Before(S, k)) < n
  BY DEF Lowest, Before
<1>4. Cardinality(Before(S, i)) \in Nat /\ Cardinality(Before(S, k)) \in Nat
  BY <1>1, IdsFinite
<1>5. Cardinality(Before(S, i)) < n
  BY <1>2, <1>3, <1>4
<1> QED
  BY <1>5 DEF Lowest, Before

LEMMA LowestIsSmall ==
    ASSUME NEW S \in SUBSET Ids, NEW n \in Nat
    PROVE  Lowest(n, S) \in SUBSET S /\ Cardinality(Lowest(n, S)) <= n
<1> DEFINE L == Lowest(n, S)
<1>1. L \in SUBSET S /\ L \in SUBSET Ids
  BY DEF Lowest
<1>2. CASE L = {}
  BY <1>2, FS_EmptySet
<1>3. CASE L # {}
  <2> DEFINE m == Max(L)
  <2>1. m \in L /\ \A j \in L : j <= m
    <3> HIDE DEF L
    <3> QED
      BY <1>1, <1>3, MaxIsHighest
  <2>2. L \ {m} \subseteq Before(S, m)
    BY <1>1, <2>1, IdsAreNaturals DEF Before
  <2>3. Cardinality(Before(S, m)) < n
    BY <2>1 DEF Lowest, Before
  <2> HIDE DEF L, m
  <2>4. /\ IsFiniteSet(L) /\ Cardinality(L) \in Nat
        /\ IsFiniteSet(Before(S, m)) /\ Cardinality(Before(S, m)) \in Nat
    BY <1>1, IdsFinite DEF Before
  <2>5. Cardinality(L \ {m}) = Cardinality(L) - 1
    BY <2>1, <2>4, FS_RemoveElement
  <2>6. Cardinality(L \ {m}) <= Cardinality(Before(S, m))
    BY <2>2, <2>4, FS_Subset
  <2>7. Cardinality(L) <= n
    BY <2>3, <2>4, <2>5, <2>6
  <2> QED
    BY <1>1, <2>7 DEF L
<1> QED
  BY <1>1, <1>2, <1>3

LEMMA LowestIsSome ==
    ASSUME NEW S \in SUBSET Ids, S # {}, NEW n \in Nat \ {0}
    PROVE  Lowest(n, S) # {}
<1>1. PICK i \in S : \A j \in S : i <= j
  BY HasLowest, IdsAreNaturals
<1>2. Before(S, i) = {}
  BY <1>1, IdsAreNaturals DEF Before
<1>3. Cardinality(Before(S, i)) < n
  BY <1>2, FS_EmptySet
<1> QED
  BY <1>3 DEF Lowest, Before

(* A page that needs no extra row is the end of the list.                  *)
LEMMA LowestIsAll ==
    ASSUME NEW S \in SUBSET Ids, NEW n \in Nat,
           Lowest(n, Lowest(n + 1, S)) = Lowest(n + 1, S)
    PROVE  S = Lowest(n + 1, S)
<1> DEFINE F == Lowest(n + 1, S)
<1>1. F \in SUBSET S
  BY DEF Lowest
<1> SUFFICES ASSUME S \ F # {} PROVE FALSE
  BY <1>1
<1>2. PICK i \in S \ F : \A j \in S \ F : i <= j
  <2>1. (S \ F) \in SUBSET Nat
    BY IdsAreNaturals
  <2> QED
    BY <2>1, HasLowest
<1>3. /\ Before(S, i) \in SUBSET Ids /\ IsFiniteSet(Before(S, i))
      /\ Cardinality(Before(S, i)) \in Nat
  BY IdsFinite DEF Before
<1>4. Cardinality(Before(S, i)) >= n + 1
  BY <1>2, <1>3 DEF Lowest, Before
<1>5. Before(S, i) # {}
  BY <1>4, FS_EmptySet
<1> DEFINE m == Max(Before(S, i))
<1>6. m \in Before(S, i) /\ \A j \in Before(S, i) : j <= m
  BY <1>3, <1>5, MaxIsHighest
<1> HIDE DEF m
<1>7. Before(S, i) \ {m} \subseteq Before(F, m)
  <2> HIDE DEF F
  <2> QED
    BY <1>1, <1>2, <1>6, IdsAreNaturals DEF Before
<1>8. m \in F
  <2> HIDE DEF F
  <2> QED
    BY <1>1, <1>2, <1>6, IdsAreNaturals DEF Before
<1>9. Cardinality(Before(S, i) \ {m}) = Cardinality(Before(S, i)) - 1
  BY <1>3, <1>6, FS_RemoveElement
<1>10. /\ Before(F, m) \in SUBSET Ids
       /\ IsFiniteSet(Before(F, m)) /\ Cardinality(Before(F, m)) \in Nat
  <2>1. Before(F, m) \in SUBSET Ids
    BY <1>1 DEF Before
  <2> QED
    BY <2>1, IdsFinite
<1>11. Cardinality(Before(S, i) \ {m}) <= Cardinality(Before(F, m))
  BY <1>7, <1>10, FS_Subset
<1>12. Cardinality(Before(F, m)) < n
  <2>1. m \in Lowest(n, F)
    BY <1>8
  <2> HIDE DEF F
  <2> QED
    BY <2>1 DEF Lowest, Before
<1> QED
  BY <1>3, <1>4, <1>9, <1>10, <1>11, <1>12
-----------------------------------------------------------------------------
(* A page, and where the next one begins: whatever is listed after the     *)
(* cursor is on the page or beyond the next cursor.                        *)
LEMMA PageCovers ==
    ASSUME NEW after \in 0 .. Size
    PROVE  /\ Page(after) \in SUBSET Listed(after) /\ Cardinality(Page(after)) <= Limit
           /\ NextCursor(after) \in 0 .. Size
           /\ \A i \in Listed(after) :
                 i \in Page(after) \/ (NextCursor(after) # 0 /\ i > NextCursor(after))
<1> DEFINE S == Listed(after)
           F == Fetched(after)
           P == Page(after)
<1>1. /\ S \in SUBSET Ids /\ Limit \in Nat /\ Limit \in Nat \ {0} /\ Limit + 1 \in Nat
      /\ F = Lowest(Limit + 1, S) /\ P = Lowest(Limit, F) /\ Size \in Nat
  BY ScanAssumption DEF Listed, Fetched, Page
<1>a. NextCursor(after) = IF F # P THEN Max(P) ELSE 0
  BY DEF NextCursor
<1> HIDE DEF S, F, P
<1>2. F \in SUBSET S
  BY <1>1, LowestIsSmall
<1>3. F \in SUBSET Ids /\ P \in SUBSET F /\ Cardinality(P) <= Limit
  BY <1>1, <1>2, LowestIsSmall
<1>4. CASE F = P
  <2>1. NextCursor(after) = 0
    BY <1>4, <1>a
  <2>2. S = F
    BY <1>1, <1>4, LowestIsAll
  <2> QED
    BY <1>1, <1>3, <1>4, <2>1, <2>2 DEF S, P
<1>5. CASE F # P
  <2>1. F # {}
    BY <1>3, <1>5
  <2>2. P # {} /\ P \in SUBSET Ids
    BY <1>1, <1>3, <2>1, LowestIsSome
  <2>3. NextCursor(after) = Max(P)
    BY <1>5, <1>a
  <2>4. Max(P) \in P /\ \A j \in P : j <= Max(P)
    BY <2>2, MaxIsHighest
  <2>5. Max(P) \in Nat /\ Max(P) > 0 /\ Max(P) \in 0 .. Size
    <3> DEFINE m == Max(P)
    <3>1. m \in Ids
      BY <2>2, <2>4
    <3> HIDE DEF m
    <3>2. m \in Nat /\ m > 0 /\ m \in 0 .. Size
      BY <1>1, <3>1 DEF Ids
    <3> QED
      BY <3>2 DEF m
  <2>6. ASSUME NEW i \in S, i < Max(P)
        PROVE  i \in P
    <3>1. i \in F
      BY <1>1, <1>3, <2>4, <2>6, LowestIsDownward
    <3> QED
      BY <1>1, <1>3, <2>4, <2>6, <3>1, LowestIsDownward
  <2>7. \A i \in S : i \in P \/ i > Max(P)
    BY <1>1, <2>4, <2>5, <2>6, IdsAreNaturals
  <2> QED
    BY <1>2, <1>3, <2>3, <2>5, <2>7 DEF S, P
<1> QED
  BY <1>4, <1>5
-----------------------------------------------------------------------------
(* What a pass still has to visit is on the rest of its page or behind its *)
(* cursor; the rows it counts on were there when it began, and work that   *)
(* is due is open.                                                         *)
Reachable(p) ==
    /\ stage[p] = "done" => missed[p] \cap Open = {}
    /\ stage[p] = "scanning" => \A i \in missed[p] \cap Open : i > cursor[p]
    /\ stage[p] = "visiting" =>
          \A i \in missed[p] \cap Open :
             i \in items[p] \/ (cursor[p] # 0 /\ i > cursor[p])
Inv ==
    /\ TypeOK
    /\ due \subseteq Open
    /\ \A p \in Passes : Reachable(p) /\ \A i \in missed[p] : row[i] # "absent"

LEMMA InitInv == Init => Inv
  BY ScanAssumption, FS_EmptySet DEF Init, Inv, TypeOK, Reachable, Open

LEMMA StartInv ==
    ASSUME Inv, NEW p \in Passes, Start(p)
    PROVE  Inv'
<1>1. Open' = Open /\ Open \in SUBSET Ids
  BY DEF Start, Open
<1>2. TypeOK'
  BY <1>1, ScanAssumption DEF Inv, TypeOK, Start
<1>3. ASSUME NEW q \in Passes
      PROVE  Reachable(q)' /\ \A i \in missed'[q] : row'[i] # "absent"
  <2>1. CASE q = p
    <3>1. /\ stage'[p] = "scanning" /\ cursor'[p] = 0 /\ missed'[p] = Open
          /\ row' = row
      BY DEF Inv, TypeOK, Start
    <3> QED
      BY <1>1, <2>1, <3>1, IdsAreNaturals DEF Reachable, Open
  <2>2. CASE q # p
    <3>1. /\ stage'[q] = stage[q] /\ cursor'[q] = cursor[q] /\ missed'[q] = missed[q]
          /\ row' = row /\ items' = items
      BY <2>2 DEF Inv, TypeOK, Start
    <3> QED
      BY <1>1, <3>1 DEF Inv, Reachable
  <2> QED
    BY <2>1, <2>2
<1> QED
  BY <1>1, <1>2, <1>3 DEF Inv, Start

LEMMA ScanPageInv ==
    ASSUME Inv, NEW p \in Passes, ScanPage(p)
    PROVE  Inv'
<1>1. Open' = Open /\ cursor[p] \in 0 .. Size /\ row' = row
  BY DEF ScanPage, Open, Inv, TypeOK
<1>2. /\ Page(cursor[p]) \in SUBSET Ids /\ Cardinality(Page(cursor[p])) <= Limit
      /\ NextCursor(cursor[p]) \in 0 .. Size
      /\ \A i \in Listed(cursor[p]) :
            \/ i \in Page(cursor[p])
            \/ NextCursor(cursor[p]) # 0 /\ i > NextCursor(cursor[p])
  BY <1>1, PageCovers DEF Listed
<1>3. /\ stage'[p] = "visiting" /\ items'[p] = Page(cursor[p]) /\ missed' = missed
      /\ cursor'[p] = NextCursor(cursor[p])
      /\ \A q \in Passes \ {p} :
            stage'[q] = stage[q] /\ cursor'[q] = cursor[q] /\ items'[q] = items[q]
  BY DEF Inv, TypeOK, ScanPage
<1>4. TypeOK'
  BY <1>2, <1>3 DEF Inv, TypeOK, ScanPage
<1>5. Reachable(p)'
  <2>1. \A i \in missed[p] \cap Open : i > cursor[p]
    BY DEF Inv, Reachable, ScanPage
  <2>2. missed[p] \cap Open \subseteq Listed(cursor[p])
    BY <2>1 DEF Listed, Open
  <2> QED
    BY <1>1, <1>2, <1>3, <2>2 DEF Reachable
<1>6. \A q \in Passes \ {p} : Reachable(q)'
  BY <1>1, <1>3 DEF Inv, Reachable
<1> QED
  BY <1>1, <1>3, <1>4, <1>5, <1>6 DEF Inv, ScanPage

LEMMA EndsInv ==
    ASSUME Inv, NEW p \in Passes, ScanFails(p) \/ BreakOff(p)
    PROVE  Inv'
<1>1. EndsEarly(p) /\ mishaps' \in 0 .. MaxMishaps
  BY ScanAssumption DEF ScanFails, BreakOff, Inv, TypeOK
<1>2. /\ stage'[p] = "idle" /\ missed'[p] = {} /\ items'[p] = {}
      /\ \A q \in Passes \ {p} :
            /\ stage'[q] = stage[q] /\ cursor'[q] = cursor[q]
            /\ items'[q] = items[q] /\ missed'[q] = missed[q]
      /\ Open' = Open /\ row' = row /\ due' = due
  BY <1>1 DEF EndsEarly, Inv, TypeOK, Open
<1>3. TypeOK'
  BY <1>1, <1>2, ScanAssumption, FS_EmptySet DEF EndsEarly, Inv, TypeOK
<1> QED
  BY <1>2, <1>3 DEF Inv, Reachable

(* A visit.                                                                *)
LEMMA VisitInv ==
    ASSUME Inv, NEW p \in Passes, Take(p) \/ Skip(p)
    PROVE  Inv'
<1> DEFINE i == Min(items[p])
<1>1. /\ stage[p] = "visiting" /\ Visited(p) /\ i \in items[p] /\ i \in Ids
      /\ items[p] \in SUBSET Ids /\ Cardinality(items[p]) <= Limit
  BY MinIsLowest DEF Take, Skip, Inv, TypeOK
<1>2. /\ row' \in [Ids -> {"absent", "open", "unreadable", "ended"}]
      /\ current' \in [Passes -> SUBSET Ids]
      /\ due' \in SUBSET Ids /\ due' \subseteq Open'
      /\ Open' \subseteq Open
      /\ \A j \in Ids : row[j] # "absent" => row'[j] # "absent"
  <2>1. CASE Take(p)
    <3>1. PICK to \in {"open", "ended"} : row' = [row EXCEPT ![i] = to]
      BY <2>1 DEF Take
    <3>2. /\ i \in due /\ due' = due \ {i}
          /\ current' = [q \in Passes |-> current[q] \ {i}]
      BY <2>1 DEF Take
    <3>3. i \in Open
      BY <3>2 DEF Inv
    <3> HIDE DEF i
    <3>4. /\ Open' \subseteq Open
          /\ due' \subseteq Open'
      BY <1>1, <3>1, <3>2, <3>3 DEF Inv, TypeOK, Open
    <3> QED
      BY <1>1, <3>1, <3>2, <3>4 DEF Inv, TypeOK
  <2>2. CASE Skip(p)
    <3>1. /\ row' = row /\ due' = due
          /\ current' = [current EXCEPT ![p] = @ \ {i}]
      BY <2>2 DEF Skip
    <3> HIDE DEF i
    <3> QED
      BY <3>1 DEF Inv, TypeOK, Open
  <2> QED
    BY <2>1, <2>2
<1>3. /\ items' = [items EXCEPT ![p] = @ \ {i}] /\ missed' = [missed EXCEPT ![p] = @ \ {i}]
      /\ UNCHANGED <<stage, cursor, mishaps>>
  BY <1>1 DEF Visited
<1>4. Cardinality(items[p] \ {i}) <= Limit
  <2> HIDE DEF i
  <2>1. /\ Cardinality(items[p] \ {i}) <= Cardinality(items[p])
        /\ Cardinality(items[p] \ {i}) \in Nat /\ Cardinality(items[p]) \in Nat
    BY <1>1, IdsFinite, FS_Subset
  <2> QED
    BY <1>1, <2>1, ScanAssumption
<1> HIDE DEF i
<1>5. /\ items'[p] = items[p] \ {i} /\ missed'[p] = missed[p] \ {i}
      /\ \A q \in Passes \ {p} : items'[q] = items[q] /\ missed'[q] = missed[q]
  BY <1>3 DEF Inv, TypeOK
<1>6. TypeOK'
  BY <1>2, <1>3, <1>4, <1>5 DEF Inv, TypeOK
<1>7. \A q \in Passes : Reachable(q)'
  BY <1>1, <1>2, <1>3, <1>5 DEF Inv, Reachable
<1>8. \A q \in Passes : \A j \in missed'[q] : row'[j] # "absent"
  BY <1>2, <1>5 DEF Inv, TypeOK
<1> QED
  BY <1>2, <1>6, <1>7, <1>8 DEF Inv

LEMMA TurnPageInv ==
    ASSUME Inv, NEW p \in Passes, TurnPage(p)
    PROVE  Inv'
<1>1. /\ stage[p] = "visiting" /\ items[p] = {}
      /\ stage'[p] = (IF cursor[p] = 0 THEN "done" ELSE "scanning")
      /\ \A q \in Passes \ {p} : stage'[q] = stage[q]
      /\ UNCHANGED <<row, due, cursor, items, current, missed, mishaps>>
      /\ Open' = Open
  BY DEF Inv, TypeOK, TurnPage, Open
<1>2. TypeOK'
  BY <1>1 DEF Inv, TypeOK, TurnPage
<1>3. \A q \in Passes : Reachable(q)'
  BY <1>1 DEF Inv, Reachable
<1> QED
  BY <1>1, <1>2, <1>3 DEF Inv

(* Rows are accepted, fall due and are damaged.                            *)
LEMMA RowInv ==
    ASSUME Inv, NEW i \in Ids, Accept(i) \/ FallDue(i) \/ Corrupt(i)
    PROVE  Inv'
<1>1. /\ UNCHANGED <<passVars, missed>>
      /\ row' \in [Ids -> {"absent", "open", "unreadable", "ended"}]
      /\ due' \in SUBSET Ids /\ current' \in [Passes -> SUBSET Ids]
      /\ mishaps' \in 0 .. MaxMishaps
  BY ScanAssumption DEF Accept, FallDue, Corrupt, Inv, TypeOK
<1>2. /\ due' \subseteq Open'
      /\ Open' \subseteq Open \/ (row[i] = "absent" /\ Open' \subseteq Open \cup {i})
      /\ \A j \in Ids : row[j] # "absent" => row'[j] # "absent"
  BY DEF Accept, FallDue, Corrupt, Inv, TypeOK, Open
<1>3. TypeOK'
  BY <1>1 DEF Inv, TypeOK, passVars
<1>4. ASSUME NEW q \in Passes
      PROVE  Reachable(q)' /\ \A j \in missed'[q] : row'[j] # "absent"
  <2>1. missed[q] \cap Open' \subseteq missed[q] \cap Open
    BY <1>2 DEF Inv
  <2>2. missed[q] \in SUBSET Ids
    BY DEF Inv, TypeOK
  <2> QED
    BY <1>1, <1>2, <2>1, <2>2 DEF Inv, Reachable, passVars
<1> QED
  BY <1>2, <1>3, <1>4 DEF Inv

LEMMA InvNext == Inv /\ [Next]_vars => Inv'
<1>1. ASSUME Inv, UNCHANGED vars
      PROVE  Inv'
  BY <1>1 DEF vars, passVars, Inv, TypeOK, Reachable, Open
<1> QED
  BY <1>1, StartInv, ScanPageInv, EndsInv, VisitInv, TurnPageInv, RowInv DEF Next

LEMMA InvHolds == Spec => []Inv
  BY InitInv, InvNext, PTL DEF Spec

(* What a pass works through is a page of the table and no longer.         *)
THEOREM ScanTypeCorrect == Spec => []TypeOK
<1>1. Inv => TypeOK
  BY DEF Inv
<1> QED
  BY <1>1, InvHolds, PTL

(* A pass that comes to its end has visited every operation that was open  *)
(* when it began and still is, whatever was accepted, ended or damaged     *)
(* meanwhile, however many rows there are and however short the pages.     *)
THEOREM PassReachesEveryOpenRow == Spec => []PassReachesAll
<1>1. Inv => PassReachesAll
  BY DEF Inv, Reachable, PassReachesAll
<1> QED
  BY <1>1, InvHolds, PTL
=============================================================================

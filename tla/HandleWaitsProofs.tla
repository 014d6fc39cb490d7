-------------------------- MODULE HandleWaitsProofs --------------------------
(***************************************************************************)
(* Proofs about HandleWaits, for any promises, listeners and passes: where *)
(* a listener is while its promise is pending, what a promise may be       *)
(* settled with, and what still brings it the end.                         *)
(***************************************************************************)
EXTENDS HandleWaits, TLAPS

LEMMA NoneIsApart ==
    /\ None \notin Listeners /\ None \notin Statuses /\ None \notin Outcomes
    /\ None \notin Publications
    /\ Waiters \cap Watchers = {} /\ MaxDisposals \in Nat
  BY WaitsAssumption DEF Statuses

LEMMA Removed ==
    ASSUME NEW S, NEW s \in Seq(S), IsInjective(s), NEW e
    PROVE  /\ RemoveFirst(s, e) \in Seq(S) /\ IsInjective(RemoveFirst(s, e))
           /\ Range(RemoveFirst(s, e)) = Range(s) \ {e}
<1> DEFINE I == {i \in 1 .. Len(s) : s[i] = e}
           n == Len(s)
<1>1. CASE I = {}
  <2>1. RemoveFirst(s, e) = s
    BY <1>1 DEF RemoveFirst
  <2>2. e \notin Range(s)
    BY <1>1 DEF Range
  <2> QED
    BY <2>1, <2>2
<1>2. CASE I # {}
  <2>1. PICK k \in 1 .. n : s[k] = e /\ I = {k}
    BY <1>2 DEF IsInjective
  <2>2. Min(I) = k
    BY <2>1 DEF Min
  <2>3. RemoveFirst(s, e) = SubSeq(s, 1, k - 1) \o SubSeq(s, k + 1, n)
    BY <1>2, <2>1, <2>2 DEF RemoveFirst, RemoveAt, SelectInSeq
  <2> DEFINE t == RemoveFirst(s, e)
  <2>4. /\ t \in Seq(S) /\ Len(t) = n - 1
        /\ \A i \in 1 .. n - 1 : t[i] = IF i < k THEN s[i] ELSE s[i + 1]
    <3> DEFINE a == SubSeq(s, 1, k - 1)
               b == SubSeq(s, k + 1, n)
    <3>1. n \in Nat /\ k \in 1 .. n /\ \A i \in 1 .. n : s[i] \in S
      BY <2>1
    <3>2. /\ a \in Seq(S) /\ Len(a) = k - 1
          /\ \A i \in 1 .. k - 1 : a[i] = s[i]
      BY <3>1
    <3>3. /\ b \in Seq(S) /\ Len(b) = n - k
          /\ \A i \in 1 .. n - k : b[i] = s[k + i]
      BY <3>1
    <3>4. t = a \o b
      BY <2>3
    <3> HIDE DEF a, b, t
    <3>5. t \in Seq(S) /\ Len(t) = n - 1
      BY <3>1, <3>2, <3>3, <3>4
    <3>6. ASSUME NEW i \in 1 .. n - 1
          PROVE  t[i] = IF i < k THEN s[i] ELSE s[i + 1]
      <4>1. t[i] = IF i <= Len(a) THEN a[i] ELSE b[i - Len(a)]
        BY <3>1, <3>2, <3>3, <3>4
      <4>2. CASE i < k
        BY <3>1, <3>2, <4>1, <4>2
      <4>3. CASE i >= k
        <5>1. i - (k - 1) \in 1 .. n - k /\ k + (i - (k - 1)) = i + 1
          BY <3>1, <4>3
        <5> QED
          BY <3>1, <3>2, <3>3, <4>1, <4>3, <5>1
      <4> QED
        BY <3>1, <4>2, <4>3
    <3> QED
      BY <3>5, <3>6
  <2> HIDE DEF t
  <2>5. IsInjective(t)
    <3>1. \A i, j \in 1 .. n : s[i] = s[j] => i = j
      BY <2>1 DEF IsInjective
    <3>2. ASSUME NEW i \in 1 .. n - 1, NEW j \in 1 .. n - 1, t[i] = t[j]
          PROVE  i = j
      <4> DEFINE at(h) == IF h < k THEN h ELSE h + 1
      <4>1. /\ at(i) \in 1 .. n /\ t[i] = s[at(i)]
            /\ at(j) \in 1 .. n /\ t[j] = s[at(j)]
        BY <2>1, <2>4
      <4>2. at(i) = at(j)
        BY <3>1, <3>2, <4>1
      <4> QED
        BY <2>1, <4>2
    <3> QED
      BY <2>4, <3>2 DEF IsInjective
  <2>6. Range(t) = Range(s) \ {e}
    <3>1. Range(t) \subseteq Range(s) \ {e}
      BY <2>1, <2>4 DEF Range, IsInjective
    <3>2. ASSUME NEW i \in 1 .. n, i # k
          PROVE  s[i] \in Range(t)
      <4>1. CASE i < k
        BY <2>1, <2>4, <3>2, <4>1 DEF Range
      <4>2. CASE i > k
        <5>1. i - 1 \in 1 .. n - 1 /\ t[i - 1] = s[i]
          BY <2>1, <2>4, <3>2, <4>2
        <5> QED
          BY <2>4, <5>1 DEF Range
      <4> QED
        BY <2>1, <3>2, <4>1, <4>2
    <3>3. Range(s) \ {e} \subseteq Range(t)
      BY <2>1, <3>2 DEF Range
    <3> QED
      BY <3>1, <3>3
  <2> QED
    BY <2>4, <2>5, <2>6 DEF t
<1> QED
  BY <1>1, <1>2
-----------------------------------------------------------------------------
(* A listener is joined exactly while it waits or watches, all those       *)
(* joined are in the Set the map holds, and that Set is not empty.         *)
SetsHold ==
    /\ \A w \in Waiters : /\ promise[w] = "pending" <=> w \in Range(joined)
                          /\ promise[w] = "none" <=> setOf[w] = None
    /\ \A l \in Watchers : /\ setOf[l] # None /\ disposals[l] = 0 <=> l \in Range(joined)
                           /\ setOf[l] = None => disposals[l] = 0
    /\ LeftTwice \/ \A l \in Range(joined) : setOf[l] = mapped
    /\ mapped # None => Members(mapped) # {}

(* An outcome that is carried, published, read or told is the row's.       *)
OutcomesHold ==
    /\ \A p \in Passes : carried[p] \in Outcomes => carried[p] = row
    /\ (loop # None /\ loop.status \in Outcomes) => loop.status = row
    /\ \A w \in Waiters : /\ read[w] \in Outcomes => read[w] = row
                          /\ promise[w] \in Outcomes => promise[w] = row

Inv == TypeOK /\ SetsHold /\ OutcomesHold

LEMMA InitInv == Init => Inv
<1> SUFFICES ASSUME Init PROVE Inv
  OBVIOUS
<1>1. joined = <<>> /\ Range(joined) = {} /\ joined \in Seq(Listeners) /\ IsInjective(joined)
  BY DEF Init, Range, IsInjective
<1>2. TypeOK
  <2>1. /\ row \in Statuses /\ announced \in BOOLEAN
        /\ carried \in [Passes -> Statuses \cup {None}]
        /\ promise \in [Waiters -> {"none", "pending", "ERROR"} \cup Outcomes]
        /\ read \in [Waiters -> {"none", "asked", "done", "ERROR"} \cup Statuses]
    BY DEF Init, Statuses
  <2>2. /\ setOf \in [Listeners -> Listeners \cup {None}]
        /\ mapped \in Listeners \cup {None}
        /\ loop = None /\ deprived \subseteq Waiters
        /\ disposals \in [Watchers -> 0 .. MaxDisposals]
    BY NoneIsApart DEF Init
  <2> QED
    BY <1>1, <2>1, <2>2 DEF TypeOK
<1>3. SetsHold
  BY <1>1 DEF Init, SetsHold, Listeners
<1>4. OutcomesHold
  BY NoneIsApart DEF Init, OutcomesHold, Outcomes
<1> QED
  BY <1>2, <1>3, <1>4 DEF Inv
-----------------------------------------------------------------------------
SetsTyped ==
    /\ joined \in Seq(Listeners) /\ IsInjective(joined)
    /\ setOf \in [Listeners -> Listeners \cup {None}]
    /\ mapped \in Listeners \cup {None}

LEMMA SubscribeSets ==
    ASSUME TypeOK, SetsHold, NEW l \in Listeners, setOf[l] = None, Subscribe(l)
    PROVE  /\ SetsTyped' /\ Range(joined') = Range(joined) \cup {l}
           /\ setOf'[l] # None /\ \A m \in Listeners \ {l} : setOf'[m] = setOf[m]
           /\ LeftTwice \/ \A m \in Range(joined') : setOf'[m] = mapped'
           /\ mapped' # None => Members(mapped)' # {}
<1>0. l # None
  BY NoneIsApart
<1>1. l \notin Range(joined)
  BY DEF SetsHold, Listeners
<1>2. /\ mapped' = (IF mapped = None THEN l ELSE mapped)
      /\ setOf' = [setOf EXCEPT ![l] = mapped']
      /\ joined' = Append(joined, l)
  BY DEF Subscribe
<1>3. Range(joined') = Range(joined) \cup {l}
  <2>1. /\ joined \in Seq(Listeners) /\ Len(joined') = Len(joined) + 1
        /\ DOMAIN joined' = 1 .. Len(joined) + 1 /\ DOMAIN joined = 1 .. Len(joined)
        /\ Len(joined) \in Nat
        /\ \A i \in 1 .. Len(joined) : joined'[i] = joined[i]
        /\ joined'[Len(joined) + 1] = l
    BY <1>2 DEF TypeOK
  <2> QED
    BY <2>1 DEF Range
<1>4. joined' \in Seq(Listeners) /\ IsInjective(joined')
  <2>1. \A i \in DOMAIN joined : joined[i] # l
    BY <1>1 DEF Range
  <2> QED
    BY <1>2, <2>1 DEF TypeOK, IsInjective
<1>5. SetsTyped' /\ setOf'[l] = mapped' /\ mapped' # None
      /\ \A m \in Listeners \ {l} : setOf'[m] = setOf[m]
  BY <1>0, <1>2, <1>4 DEF TypeOK, SetsTyped
<1>6. Range(joined) \subseteq Listeners
  BY DEF SetsHold, TypeOK, Range
<1>7. LeftTwice \/ \A m \in Range(joined') : setOf'[m] = mapped'
  <2> SUFFICES ASSUME ~LeftTwice, NEW m \in Range(joined), m # l
               PROVE  setOf'[m] = mapped'
    BY <1>3, <1>5
  <2>1. setOf[m] = mapped /\ m \in Listeners
    BY <1>6 DEF SetsHold
  <2>2. setOf[m] # None
    BY <2>1 DEF SetsHold, Listeners
  <2> QED
    BY <1>2, <1>5, <2>1, <2>2
<1>8. l \in Members(mapped)'
  BY <1>3, <1>5 DEF Members
<1> QED
  BY <1>3, <1>5, <1>7, <1>8

LEMMA UnsubscribeSets ==
    ASSUME TypeOK, SetsHold, NEW l \in Listeners, Unsubscribe(l)
    PROVE  /\ SetsTyped' /\ Range(joined') = Range(joined) \ {l}
           /\ setOf' = setOf
           /\ \/ LeftTwice \/ l \notin Range(joined)
              \/ \A m \in Range(joined') : setOf'[m] = mapped'
           /\ mapped' # None => Members(mapped)' # {}
<1>1. /\ joined' = RemoveFirst(joined, l) /\ setOf' = setOf
      /\ mapped' = IF Members(setOf[l]) \ {l} = {} THEN None ELSE mapped
  BY DEF Unsubscribe
<1>2. /\ joined' \in Seq(Listeners) /\ IsInjective(joined')
      /\ Range(joined') = Range(joined) \ {l}
  BY <1>1, Removed DEF TypeOK
<1>3. SetsTyped'
  BY <1>1, <1>2 DEF TypeOK, SetsTyped
<1>4. ASSUME ~LeftTwice, l \in Range(joined), NEW m \in Range(joined')
      PROVE  setOf'[m] = mapped'
  <2>1. setOf[m] = mapped /\ setOf[l] = mapped
    BY <1>2, <1>4 DEF SetsHold
  <2>2. m \in Members(setOf[l]) \ {l}
    BY <1>2, <2>1 DEF Members
  <2> QED
    BY <1>1, <2>1, <2>2
<1>5. ASSUME mapped' # None
      PROVE  Members(mapped)' # {}
  <2>1. mapped' = mapped /\ Members(setOf[l]) \ {l} # {}
    BY <1>1, <1>5
  <2>2. PICK m \in Members(mapped) : m # l
    <3>1. CASE setOf[l] = mapped
      BY <2>1, <3>1
    <3>2. CASE setOf[l] # mapped
      BY <1>5, <2>1, <3>2 DEF SetsHold, Members
    <3> QED
      BY <3>1, <3>2
  <2>3. m \in Members(mapped)'
    BY <1>1, <1>2, <2>1, <2>2 DEF Members
  <2> QED
    BY <2>3
<1> QED
  BY <1>1, <1>2, <1>3, <1>4, <1>5
LEMMA SetsKept ==
    ASSUME SetsHold, UNCHANGED <<joined, setOf, mapped, promise, disposals>>
    PROVE  SetsHold'
  BY DEF SetsHold, Members, LeftTwice

(* The row and who carries it.                                             *)
LEMMA StoreInv ==
    ASSUME Inv, (\E p \in Passes : Commit(p) \/ FindExisting(p)) \/ EndUnheard
    PROVE  Inv'
<1>1. UNCHANGED <<engineVars, promise, read, disposals, deprived>>
  BY DEF Commit, FindExisting, EndUnheard
<1>2. /\ row' = row \/ (row = "OPEN" /\ row' \in Statuses)
      /\ carried' = carried \/ \E p \in Passes : carried' = [carried EXCEPT ![p] = row']
      /\ announced' \in BOOLEAN
  BY DEF Commit, FindExisting, EndUnheard, Inv, TypeOK, Statuses
<1>3. TypeOK'
  BY <1>1, <1>2 DEF Inv, TypeOK, engineVars
<1>4. SetsHold'
  BY <1>1, SetsKept DEF Inv, engineVars
<1>5. OutcomesHold'
  <2>1. \A v : v \in Outcomes /\ v = row => v = row'
    BY <1>2 DEF Outcomes
  <2>2. \A p \in Passes : carried'[p] \in Outcomes => carried'[p] = row'
    BY <1>2, <2>1 DEF Inv, TypeOK, OutcomesHold
  <2> QED
    BY <1>1, <2>1, <2>2 DEF Inv, OutcomesHold, engineVars
<1> QED
  BY <1>3, <1>4, <1>5 DEF Inv

(* A publication begins, ends or is broken off.                            *)
LEMMA LoopInv ==
    ASSUME Inv, (\E p \in Passes : Publish(p)) \/ EndLoop \/ Throw
    PROVE  Inv'
<1>1. UNCHANGED <<row, announced, joined, setOf, mapped, promise, read, disposals>>
  BY DEF Publish, EndLoop, Throw, storeVars
<1>2. SetsHold'
  BY <1>1, SetsKept DEF Inv
<1>3. CASE EndLoop \/ Throw
  <2>1. loop' = None /\ carried' = carried /\ deprived' \subseteq Waiters
    BY <1>3 DEF EndLoop, Throw, storeVars, Inv, TypeOK
  <2> QED
    BY <1>1, <1>2, <2>1 DEF Inv, TypeOK, OutcomesHold
<1>4. ASSUME NEW p \in Passes, Publish(p)
      PROVE  Inv'
  <2>1. /\ carried[p] \in Statuses /\ deprived' = deprived
        /\ carried' = [carried EXCEPT ![p] = None]
        /\ \/ loop' = None
           \/ /\ mapped \in Listeners
              /\ loop' = [status |-> carried[p], set |-> mapped,
                          called |-> {}, last |-> None]
    BY <1>4 DEF Publish, Inv, TypeOK
  <2>2. TypeOK'
    BY <1>1, <2>1 DEF Inv, TypeOK, Publications
  <2>3. None \notin Outcomes
    BY NoneIsApart DEF Outcomes
  <2>4. OutcomesHold'
    BY <1>1, <2>1, <2>3 DEF Inv, OutcomesHold, TypeOK
  <2> QED
    BY <1>2, <2>2, <2>4 DEF Inv
<1> QED
  BY <1>3, <1>4

(* A promise that was pending is settled.                                  *)
LEMMA SettleSets ==
    ASSUME Inv, NEW w \in Waiters, NEW outcome \in Outcomes \cup {"ERROR"},
           promise[w] = "pending", Settle(w, outcome), UNCHANGED <<row, disposals>>,
           outcome \in Outcomes => outcome = row
    PROVE  /\ SetsTyped' /\ SetsHold'
           /\ promise' \in [Waiters -> {"none", "pending", "ERROR"} \cup Outcomes]
           /\ \A v \in Waiters : promise'[v] \in Outcomes => promise'[v] = row'
<1>1. /\ w \in Listeners /\ TypeOK /\ SetsHold /\ OutcomesHold
      /\ w \in Range(joined) /\ outcome \notin {"none", "pending"}
  BY DEF Inv, SetsHold, Listeners, Outcomes
<1>2. /\ promise' = [promise EXCEPT ![w] = outcome]
      /\ promise'[w] = outcome /\ \A v \in Waiters \ {w} : promise'[v] = promise[v]
  BY <1>1 DEF Settle, TypeOK
<1>3. /\ SetsTyped' /\ Range(joined') = Range(joined) \ {w} /\ setOf' = setOf
      /\ LeftTwice \/ \A m \in Range(joined') : setOf'[m] = mapped'
      /\ mapped' # None => Members(mapped)' # {}
  BY <1>1, UnsubscribeSets DEF Settle
<1>4. Waiters \cap Watchers = {} /\ LeftTwice' = LeftTwice
  BY NoneIsApart DEF LeftTwice
<1>5. SetsHold'
  BY <1>1, <1>2, <1>3, <1>4 DEF SetsHold
<1> QED
  BY <1>1, <1>2, <1>3, <1>5 DEF TypeOK, OutcomesHold

(* The publication reaches the next listener.                              *)
LEMMA CallShape ==
    ASSUME TypeOK, loop # None, NEW l \in Listeners,
           loop' = [loop EXCEPT !.called = @ \cup {l}, !.last = l]
    PROVE  /\ loop' \in Publications /\ loop' # None
           /\ loop'.status = loop.status /\ loop'.set = loop.set
           /\ loop'.called = loop.called \cup {l}
<1>1. loop \in Publications
  BY DEF TypeOK
<1>2. loop' = [status |-> loop.status, set |-> loop.set,
               called |-> loop.called \cup {l}, last |-> l]
  BY <1>1 DEF Publications
<1>3. loop.called \cup {l} \in SUBSET Listeners /\ l \in Listeners \cup {None}
  BY <1>1 DEF Publications
<1>4. loop' \in Publications
  BY <1>1, <1>2, <1>3 DEF Publications
<1> QED
  BY <1>2, <1>4, NoneIsApart

LEMMA CallInv ==
    ASSUME Inv, CallNext
    PROVE  Inv'
<1>1. PICK l \in Uncalled :
          /\ loop' = [loop EXCEPT !.called = @ \cup {l}, !.last = l]
          /\ IF l \in Waiters /\ loop.status \in Outcomes
             THEN Settle(l, loop.status)
             ELSE UNCHANGED <<joined, setOf, mapped, promise>>
  BY DEF CallNext
<1>2. /\ UNCHANGED <<storeVars, read, disposals, deprived>> /\ loop # None
      /\ TypeOK /\ SetsHold /\ OutcomesHold
  BY DEF CallNext, Inv
<1>3. l \in Range(joined) /\ l \in Listeners
  BY <1>1, <1>2 DEF Uncalled, Members, TypeOK, Range
<1>4. loop'.status = loop.status /\ loop' \in Publications
  BY <1>1, <1>2, <1>3, CallShape
<1>5. CASE l \in Waiters /\ loop.status \in Outcomes
  <2>1. Settle(l, loop.status) /\ promise[l] = "pending" /\ loop.status = row
    BY <1>1, <1>2, <1>3, <1>5 DEF SetsHold, OutcomesHold
  <2>2. /\ SetsTyped' /\ SetsHold'
        /\ promise' \in [Waiters -> {"none", "pending", "ERROR"} \cup Outcomes]
        /\ \A v \in Waiters : promise'[v] \in Outcomes => promise'[v] = row'
    BY <1>2, <1>5, <2>1, SettleSets DEF storeVars
  <2>3. TypeOK'
    BY <1>2, <1>4, <2>2 DEF TypeOK, SetsTyped, storeVars
  <2>4. OutcomesHold'
    BY <1>2, <1>4, <1>5, <2>1, <2>2 DEF OutcomesHold, storeVars
  <2> QED
    BY <2>2, <2>3, <2>4 DEF Inv
<1>6. CASE ~(l \in Waiters /\ loop.status \in Outcomes)
  <2>1. UNCHANGED <<joined, setOf, mapped, promise>>
    BY <1>1, <1>6
  <2>2. TypeOK'
    BY <1>2, <1>4, <2>1 DEF TypeOK, storeVars
  <2>3. OutcomesHold'
    BY <1>2, <1>4, <2>1 DEF OutcomesHold, storeVars
  <2> QED
    BY <1>2, <2>1, <2>2, <2>3, SetsKept DEF Inv
<1> QED
  BY <1>5, <1>6

(* A promise is asked for.                                                 *)
LEMMA ConfirmedInv ==
    ASSUME Inv, NEW w \in Waiters, Confirmed(w)
    PROVE  Inv'
<1>1. /\ promise[w] = "none" /\ setOf[w] = None /\ w \in Listeners
      /\ TypeOK /\ SetsHold /\ OutcomesHold
      /\ UNCHANGED <<storeVars, loop, disposals, deprived>>
  BY DEF Confirmed, Inv, SetsHold, Listeners
<1>2. /\ SetsTyped' /\ Range(joined') = Range(joined) \cup {w}
      /\ setOf'[w] # None /\ \A m \in Listeners \ {w} : setOf'[m] = setOf[m]
      /\ LeftTwice \/ \A m \in Range(joined') : setOf'[m] = mapped'
      /\ mapped' # None => Members(mapped)' # {}
  BY <1>1, SubscribeSets DEF Confirmed
<1>3. /\ promise' = [promise EXCEPT ![w] = "pending"]
      /\ read' = [read EXCEPT ![w] = "asked"]
  BY DEF Confirmed
<1>4. TypeOK'
  BY <1>1, <1>2, <1>3 DEF TypeOK, SetsTyped, storeVars
<1>5. SetsHold'
  <2>1. Waiters \cap Watchers = {} /\ LeftTwice' = LeftTwice
    BY <1>1, NoneIsApart DEF LeftTwice
  <2>2. /\ promise'[w] = "pending"
        /\ \A v \in Waiters \ {w} : promise'[v] = promise[v]
    BY <1>1, <1>3 DEF TypeOK
  <2>3. \A v \in Waiters : /\ promise'[v] = "pending" <=> v \in Range(joined')
                           /\ promise'[v] = "none" <=> setOf'[v] = None
    BY <1>1, <1>2, <2>2 DEF SetsHold, Listeners
  <2>4. \A l \in Watchers :
            /\ setOf'[l] # None /\ disposals'[l] = 0 <=> l \in Range(joined')
            /\ setOf'[l] = None => disposals'[l] = 0
    BY <1>1, <1>2, <2>1 DEF SetsHold, Listeners
  <2> QED
    BY <1>2, <2>1, <2>3, <2>4 DEF SetsHold
<1>6. OutcomesHold'
  <2>1. {"pending", "asked"} \cap Outcomes = {}
    BY DEF Outcomes
  <2> QED
    BY <1>1, <1>3, <2>1 DEF OutcomesHold, TypeOK, storeVars
<1> QED
  BY <1>4, <1>5, <1>6 DEF Inv

(* Its read of the row.                                                    *)
LEMMA ReadInv ==
    ASSUME Inv, NEW w \in Waiters, ReadRow(w) \/ ReadReturns(w)
    PROVE  Inv'
<1>1. /\ TypeOK /\ SetsHold /\ OutcomesHold
      /\ UNCHANGED <<storeVars, loop, disposals, deprived>>
  BY DEF Inv, ReadRow, ReadReturns, engineVars
<1>2. /\ read' \in [Waiters -> {"none", "asked", "done", "ERROR"} \cup Statuses]
      /\ \A v \in Waiters : read'[v] \in Outcomes => read'[v] = row
  <2>1. PICK value \in {row, "ERROR", "done"} : read' = [read EXCEPT ![w] = value]
    BY DEF ReadRow, ReadReturns
  <2>2. {"ERROR", "done"} \cap Outcomes = {}
    BY DEF Outcomes
  <2> QED
    BY <1>1, <2>1, <2>2 DEF TypeOK, OutcomesHold
<1>3. CASE ReadReturns(w) /\ promise[w] = "pending" /\ read[w] # "OPEN"
  <2>1. /\ Settle(w, read[w]) /\ read[w] \in Outcomes \cup {"ERROR"}
        /\ read[w] \in Outcomes => read[w] = row
    BY <1>1, <1>3 DEF ReadReturns, Statuses, OutcomesHold
  <2>2. /\ SetsTyped' /\ SetsHold'
        /\ promise' \in [Waiters -> {"none", "pending", "ERROR"} \cup Outcomes]
        /\ \A v \in Waiters : promise'[v] \in Outcomes => promise'[v] = row'
    BY <1>1, <1>3, <2>1, SettleSets DEF storeVars
  <2>3. TypeOK' /\ OutcomesHold'
    BY <1>1, <1>2, <2>2 DEF TypeOK, SetsTyped, OutcomesHold, storeVars
  <2> QED
    BY <2>2, <2>3 DEF Inv
<1>4. CASE UNCHANGED <<joined, setOf, mapped, promise>>
  <2>1. TypeOK' /\ OutcomesHold'
    BY <1>1, <1>2, <1>4 DEF TypeOK, OutcomesHold, storeVars
  <2> QED
    BY <1>1, <1>4, <2>1, SetsKept DEF Inv
<1> QED
  BY <1>3, <1>4 DEF ReadRow, ReadReturns, engineVars

(* Watchers come, and call their unsubscribe once or more.                 *)
LEMMA WatchInv ==
    ASSUME Inv, NEW l \in Watchers, Watch(l)
    PROVE  Inv'
<1>1. /\ setOf[l] = None /\ l \in Listeners
      /\ TypeOK /\ SetsHold /\ OutcomesHold
      /\ UNCHANGED <<storeVars, loop, promise, read, disposals, deprived>>
  BY DEF Watch, Inv, Listeners
<1>2. /\ SetsTyped' /\ Range(joined') = Range(joined) \cup {l}
      /\ setOf'[l] # None /\ \A m \in Listeners \ {l} : setOf'[m] = setOf[m]
      /\ LeftTwice \/ \A m \in Range(joined') : setOf'[m] = mapped'
      /\ mapped' # None => Members(mapped)' # {}
  BY <1>1, SubscribeSets DEF Watch
<1>3. Waiters \cap Watchers = {} /\ LeftTwice' = LeftTwice
  BY <1>1, NoneIsApart DEF LeftTwice
<1> QED
  <2>1. TypeOK' /\ OutcomesHold'
    BY <1>1, <1>2 DEF TypeOK, SetsTyped, OutcomesHold, storeVars
  <2> QED
    BY <1>1, <1>2, <1>3, <2>1 DEF Inv, SetsHold, Listeners
LEMMA DisposeInv ==
    ASSUME Inv, NEW l \in Watchers, Dispose(l)
    PROVE  Inv'
<1>1. /\ setOf[l] # None /\ l \in Listeners /\ disposals[l] \in 0 .. MaxDisposals
      /\ TypeOK /\ SetsHold /\ OutcomesHold
      /\ UNCHANGED <<storeVars, loop, promise, read, deprived>>
  BY DEF Dispose, Inv, TypeOK, Listeners
<1>2. /\ SetsTyped' /\ Range(joined') = Range(joined) \ {l} /\ setOf' = setOf
      /\ \/ LeftTwice \/ l \notin Range(joined)
         \/ \A m \in Range(joined') : setOf'[m] = mapped'
      /\ mapped' # None => Members(mapped)' # {}
  BY <1>1, UnsubscribeSets DEF Dispose
<1>3. /\ disposals' \in [Watchers -> 0 .. MaxDisposals]
      /\ disposals'[l] = disposals[l] + 1 /\ disposals'[l] > 0
      /\ \A m \in Watchers \ {l} : disposals'[m] = disposals[m]
  BY <1>1, NoneIsApart DEF Dispose, TypeOK
<1>4. TypeOK' /\ OutcomesHold'
  BY <1>1, <1>2, <1>3 DEF TypeOK, SetsTyped, OutcomesHold, storeVars
<1>5. LeftTwice => LeftTwice'
  BY <1>1, <1>3 DEF LeftTwice, TypeOK
<1>6. l \notin Range(joined) => LeftTwice'
  BY <1>1, <1>3 DEF LeftTwice, SetsHold
<1>7. Waiters \cap Watchers = {}
  BY NoneIsApart
<1>8. SetsHold'
  BY <1>1, <1>2, <1>3, <1>5, <1>6, <1>7 DEF SetsHold
<1> QED
  BY <1>4, <1>8 DEF Inv

LEMMA InvNext == Inv /\ [Next]_vars => Inv'
<1>1. ASSUME Inv, UNCHANGED vars
      PROVE  Inv'
  <2>1. TypeOK' /\ OutcomesHold'
    BY <1>1 DEF vars, storeVars, engineVars, Inv, TypeOK, OutcomesHold
  <2> QED
    BY <1>1, <2>1, SetsKept DEF vars, engineVars, Inv
<1> QED
  BY <1>1, StoreInv, LoopInv, CallInv, ConfirmedInv, ReadInv, WatchInv, DisposeInv DEF Next

LEMMA InvHolds == Spec => []Inv
  BY InitInv, InvNext, PTL DEF Spec

(* Each listener is in at most one place of at most one Set, and what is   *)
(* published and told has the shape the handle's types promise.            *)
THEOREM WaitsTypeCorrect == Spec => []TypeOK
<1>1. Inv => TypeOK
  BY DEF Inv
<1> QED
  BY <1>1, InvHolds, PTL

(* A promise still pending keeps its listener in the Set that the next     *)
(* publication walks, for any number of promises, watchers and passes,     *)
(* unless some listener called its unsubscribe twice.                      *)
THEOREM PendingStaysReachable == Spec => []PendingIsReachable
<1>1. Inv => PendingIsReachable
  BY DEF Inv, SetsHold, PendingIsReachable
<1> QED
  BY <1>1, InvHolds, PTL

(* A settled promise leaves no listener behind, and the map holds no Set   *)
(* without members, even after a listener left twice.                      *)
THEOREM NothingIsLeaked == Spec => []NothingLeaks
<1>1. Inv => NothingLeaks
  BY DEF Inv, SetsHold, NothingLeaks
<1> QED
  BY <1>1, InvHolds, PTL

(* A promise is settled with the outcome the store has, whichever delayed  *)
(* read or publication settles it.                                         *)
THEOREM PromiseTellsTheOutcome == Spec => []SettledAsStored
<1>1. Inv => SettledAsStored
  BY DEF Inv, OutcomesHold, SettledAsStored
<1> QED
  BY <1>1, InvHolds, PTL
-----------------------------------------------------------------------------
(* Only an end is announced.                                               *)
AnnouncedEnds == announced => row \in Outcomes

Coming(w) ==
    \/ \E p \in Passes : carried[p] \in Outcomes
    \/ loop # None /\ loop.status \in Outcomes /\ w \in Uncalled
    \/ read[w] \in {"asked", "ERROR"} \cup Outcomes
    \/ w \in deprived \/ LeftTwice

WayHolds == AnnouncedEnds /\ EndIsOnItsWay

LEMMA AnnouncedNext ==
    ASSUME Inv, AnnouncedEnds, [Next]_vars
    PROVE  AnnouncedEnds'
<1>1. /\ row' = row \/ row = "OPEN"
      /\ announced' = announced \/ announced' = (announced \/ row' \in Outcomes)
  BY DEF Next, vars, storeVars, Commit, FindExisting, EndUnheard, Publish, CallNext,
         EndLoop, Throw, Confirmed, ReadRow, ReadReturns, Watch, Dispose
<1>2. row \in Outcomes => row # "OPEN"
  BY DEF Outcomes
<1> QED
  BY <1>1, <1>2 DEF AnnouncedEnds

(* A pass is answered, or the row ends unheard.                            *)
LEMMA StoreWay ==
    ASSUME Inv, WayHolds, (\E p \in Passes : Commit(p) \/ FindExisting(p)) \/ EndUnheard
    PROVE  EndIsOnItsWay'
<1> SUFFICES ASSUME NEW w \in Waiters, announced', promise[w] = "pending"
             PROVE  Coming(w)'
  BY DEF EndIsOnItsWay, Coming, Commit, FindExisting, EndUnheard
<1>1. UNCHANGED <<loop, joined, setOf, read, disposals, deprived>>
  BY DEF Commit, FindExisting, EndUnheard, engineVars
<1>2. None \notin Outcomes /\ "OPEN" \notin Outcomes
  BY NoneIsApart DEF Outcomes
<1>3. CASE announced
  <2>1. Coming(w)
    BY <1>3 DEF WayHolds, EndIsOnItsWay, Coming
  <2>2. \A q \in Passes : carried[q] \in Outcomes => carried'[q] = carried[q]
    BY <1>2 DEF Commit, FindExisting, EndUnheard, Inv, TypeOK
  <2> QED
    BY <1>1, <2>1, <2>2 DEF Coming, Uncalled, Members, LeftTwice
<1>4. CASE ~announced
  <2>1. PICK p \in Passes : carried' = [carried EXCEPT ![p] = row'] /\ row' \in Outcomes
    BY <1>4 DEF Commit, FindExisting, EndUnheard
  <2>2. carried'[p] \in Outcomes
    BY <2>1 DEF Inv, TypeOK
  <2> QED
    BY <2>2 DEF Coming
<1> QED
  BY <1>3, <1>4

(* What a pass carried is published to all who wait.                       *)
LEMMA PublishWay ==
    ASSUME Inv, WayHolds, NEW p \in Passes, Publish(p)
    PROVE  EndIsOnItsWay'
<1> SUFFICES ASSUME NEW w \in Waiters, announced, promise[w] = "pending", Coming(w),
                    ~LeftTwice
             PROVE  Coming(w)'
  BY DEF WayHolds, EndIsOnItsWay, Coming, Publish, LeftTwice
<1>1. /\ UNCHANGED <<joined, setOf, read, disposals, deprived>> /\ loop = None
      /\ carried' = [carried EXCEPT ![p] = None]
      /\ loop' = IF mapped = None THEN None
                 ELSE [status |-> carried[p], set |-> mapped, called |-> {}, last |-> None]
  BY DEF Publish
<1>2. w \in Range(joined) /\ setOf[w] = mapped /\ mapped # None
  BY DEF Inv, SetsHold, Listeners
<1>3. CASE carried[p] \in Outcomes
  <2>1. /\ loop' # None /\ loop'.status = carried[p]
        /\ loop'.set = mapped /\ loop'.called = {}
    <3>1. carried[p] \in Statuses /\ mapped \in Listeners
      BY <1>2, <1>3 DEF Inv, TypeOK, Statuses
    <3>2. loop' \in Publications
      BY <1>1, <1>2, <3>1 DEF Publications
    <3> QED
      BY <1>1, <1>2, <3>2, NoneIsApart
  <2>2. w \in Uncalled'
    BY <1>1, <1>2, <2>1 DEF Uncalled, Members
  <2> QED
    BY <1>3, <2>1, <2>2 DEF Coming
<1>4. CASE carried[p] \notin Outcomes
  <2>1. \A q \in Passes : carried[q] \in Outcomes => carried'[q] = carried[q]
    BY <1>1, <1>4 DEF Inv, TypeOK
  <2> QED
    BY <1>1, <2>1 DEF Coming
<1> QED
  BY <1>3, <1>4

(* The publication reaches somebody else, ends, or is broken off.          *)
LEMMA LoopWay ==
    ASSUME Inv, WayHolds, CallNext \/ EndLoop \/ Throw
    PROVE  EndIsOnItsWay'
<1> SUFFICES ASSUME NEW w \in Waiters, announced, promise'[w] = "pending"
             PROVE  Coming(w)'
  BY DEF EndIsOnItsWay, Coming, CallNext, EndLoop, Throw, storeVars
<1>1. UNCHANGED <<carried, read, disposals>> /\ loop # None
  BY DEF CallNext, EndLoop, Throw, storeVars
<1>2. CASE EndLoop \/ Throw
  <2>1. Coming(w) /\ UNCHANGED <<joined, setOf>>
    BY <1>2 DEF WayHolds, EndIsOnItsWay, Coming, EndLoop, Throw
  <2>2. /\ deprived \subseteq deprived'
        /\ (loop.status \in Outcomes /\ w \in Uncalled) => w \in deprived'
    BY <1>2 DEF EndLoop, Throw
  <2> QED
    BY <1>1, <2>1, <2>2 DEF Coming, LeftTwice
<1>3. ASSUME NEW l \in Uncalled,
             loop' = [loop EXCEPT !.called = @ \cup {l}, !.last = l],
             IF l \in Waiters /\ loop.status \in Outcomes
             THEN Settle(l, loop.status)
             ELSE UNCHANGED <<joined, setOf, mapped, promise>>,
             deprived' = deprived
      PROVE  Coming(w)'
  <2>1. /\ loop'.status = loop.status /\ loop'.set = loop.set
        /\ loop'.called = loop.called \cup {l} /\ loop' # None
    <3>1. l \in Listeners
      BY <1>3 DEF Uncalled, Members, Inv, TypeOK, Range
    <3> QED
      BY <1>1, <1>3, <3>1, CallShape DEF Inv
  <2>2. CASE l \in Waiters /\ loop.status \in Outcomes
    <3>1. promise' = [promise EXCEPT ![l] = loop.status] /\ Unsubscribe(l)
      BY <1>3, <2>2 DEF Settle
    <3>2. w # l /\ promise[w] = "pending"
      BY <3>1, <2>2 DEF Inv, TypeOK, Outcomes
    <3>3. Coming(w)
      BY <3>2 DEF WayHolds, EndIsOnItsWay, Coming
    <3>4. Range(joined') = Range(joined) \ {l} /\ setOf' = setOf
      BY <3>1, <2>2, UnsubscribeSets DEF Inv, Listeners
    <3>5. w \in Uncalled => w \in Uncalled'
      BY <2>1, <3>2, <3>4 DEF Uncalled, Members
    <3> QED
      BY <1>1, <1>3, <2>1, <3>3, <3>5 DEF Coming, LeftTwice
  <2>3. CASE ~(l \in Waiters /\ loop.status \in Outcomes)
    <3>1. UNCHANGED <<joined, setOf, mapped, promise>>
      BY <1>3, <2>3
    <3>2. Coming(w)
      BY <3>1 DEF WayHolds, EndIsOnItsWay, Coming
    <3>3. (loop.status \in Outcomes /\ w \in Uncalled) => w \in Uncalled'
      BY <2>1, <2>3, <3>1 DEF Uncalled, Members
    <3> QED
      BY <1>1, <1>3, <2>1, <3>2, <3>3 DEF Coming, LeftTwice
  <2> QED
    BY <2>2, <2>3
<1> QED
  BY <1>2, <1>3 DEF CallNext

(* A promise is asked for, its read answered, its continuation run.        *)
LEMMA ReadWay ==
    ASSUME Inv, WayHolds, NEW v \in Waiters, Confirmed(v) \/ ReadRow(v) \/ ReadReturns(v)
    PROVE  EndIsOnItsWay'
<1> SUFFICES ASSUME NEW w \in Waiters, announced, promise'[w] = "pending"
             PROVE  Coming(w)'
  BY DEF EndIsOnItsWay, Coming, Confirmed, ReadRow, ReadReturns, storeVars
<1>1. UNCHANGED <<carried, loop, disposals, deprived>> /\ row \in Outcomes
  BY DEF Confirmed, ReadRow, ReadReturns, storeVars, engineVars, WayHolds, AnnouncedEnds
<1>2. CASE Confirmed(v)
  <2>1. /\ setOf[v] = None /\ v \in Listeners
        /\ promise' = [promise EXCEPT ![v] = "pending"]
        /\ read' = [read EXCEPT ![v] = "asked"]
    BY <1>2 DEF Confirmed, Inv, SetsHold, Listeners
  <2>2. CASE w = v
    BY <2>1, <2>2 DEF Coming, Inv, TypeOK
  <2>3. CASE w # v
    <3>1. promise[w] = "pending" /\ read'[w] = read[w]
      BY <2>1, <2>3 DEF Inv, TypeOK
    <3>2. Coming(w)
      BY <3>1 DEF WayHolds, EndIsOnItsWay, Coming
    <3>3. /\ Range(joined') = Range(joined) \cup {v}
          /\ \A m \in Listeners \ {v} : setOf'[m] = setOf[m]
      BY <1>2, <2>1, SubscribeSets DEF Confirmed, Inv
    <3>4. w \in Uncalled => w \in Uncalled'
      BY <1>1, <2>3, <3>3 DEF Uncalled, Members, Listeners
    <3> QED
      BY <1>1, <3>1, <3>2, <3>4 DEF Coming, LeftTwice
  <2> QED
    BY <2>2, <2>3
<1>3. CASE ReadRow(v)
  <2>1. /\ UNCHANGED <<joined, setOf, promise>> /\ read[v] = "asked"
        /\ \E value \in {row, "ERROR"} : read' = [read EXCEPT ![v] = value]
    BY <1>3 DEF ReadRow, engineVars
  <2>2. Coming(w)
    BY <2>1 DEF WayHolds, EndIsOnItsWay, Coming
  <2>3. read[w] \in {"asked", "ERROR"} \cup Outcomes
          => read'[w] \in {"asked", "ERROR"} \cup Outcomes
    BY <1>1, <2>1 DEF Inv, TypeOK
  <2> QED
    BY <1>1, <2>1, <2>2, <2>3 DEF Coming, Uncalled, Members, LeftTwice
<1>4. CASE ReadReturns(v)
  <2>1. /\ loop = None /\ read' = [read EXCEPT ![v] = "done"]
        /\ IF promise[v] = "pending" /\ read[v] # "OPEN"
           THEN promise' = [promise EXCEPT ![v] = read[v]]
           ELSE promise' = promise
        /\ read[v] \in Statuses \cup {"ERROR"}
    BY <1>4 DEF ReadReturns, Settle
  <2>2. promise[w] = "pending" /\ (w = v => read[v] = "OPEN")
    BY <2>1 DEF Inv, TypeOK, Statuses, Outcomes
  <2>3. Coming(w)
    BY <2>2 DEF WayHolds, EndIsOnItsWay, Coming
  <2>4. read[w] \in {"asked", "ERROR"} \cup Outcomes => read'[w] = read[w]
    BY <2>1, <2>2 DEF Inv, TypeOK, Outcomes
  <2> QED
    BY <1>1, <2>1, <2>3, <2>4 DEF Coming, LeftTwice
<1> QED
  BY <1>2, <1>3, <1>4

(* Watchers come and go.                                                   *)
LEMMA WatchWay ==
    ASSUME Inv, WayHolds, NEW l \in Watchers, Watch(l) \/ Dispose(l)
    PROVE  EndIsOnItsWay'
<1> SUFFICES ASSUME NEW w \in Waiters, announced, promise[w] = "pending", Coming(w)
             PROVE  Coming(w)'
  BY DEF WayHolds, EndIsOnItsWay, Coming, Watch, Dispose, storeVars
<1>1. /\ UNCHANGED <<carried, loop, read, deprived>>
      /\ w # l /\ w \in Listeners /\ l \in Listeners
  BY NoneIsApart DEF Watch, Dispose, storeVars, Listeners
<1>2. LeftTwice => LeftTwice'
  <2>1. \A m \in Watchers : /\ disposals[m] \in Nat /\ disposals'[m] \in Nat
                             /\ disposals'[m] >= disposals[m]
    BY NoneIsApart DEF Watch, Dispose, Inv, TypeOK
  <2> QED
    BY <2>1 DEF LeftTwice
<1>3. w \in Range(joined) => w \in Range(joined') /\ setOf'[w] = setOf[w]
  <2>1. CASE Watch(l)
    BY <1>1, <2>1, SubscribeSets DEF Watch, Inv
  <2>2. CASE Dispose(l)
    BY <1>1, <2>2, UnsubscribeSets DEF Dispose, Inv
  <2> QED
    BY <2>1, <2>2
<1>4. w \in Uncalled => w \in Uncalled'
  BY <1>1, <1>3 DEF Uncalled, Members
<1> QED
  BY <1>1, <1>2, <1>4 DEF Coming

LEMMA WayNext == Inv /\ WayHolds /\ [Next]_vars => WayHolds'
<1>1. ASSUME Inv, WayHolds, UNCHANGED vars
      PROVE  EndIsOnItsWay'
  BY <1>1 DEF vars, storeVars, engineVars, WayHolds, EndIsOnItsWay, Uncalled,
              Members, LeftTwice
<1> QED
  BY <1>1, AnnouncedNext, StoreWay, PublishWay, LoopWay, ReadWay, WatchWay DEF Next, WayHolds

(* Once an end was announced, nothing the activation does loses it on the  *)
(* way to a promise still pending: a pass carries it, a publication is     *)
(* about to tell it, or a read ahead will, for any number of promises,     *)
(* listeners and passes.  What is left to AnnouncedEndIsHeard is fairness. *)
THEOREM EndComesToPromises == Spec => []EndIsOnItsWay
<1>1. Init => WayHolds
  BY DEF Init, WayHolds, AnnouncedEnds, EndIsOnItsWay
<1>2. WayHolds => EndIsOnItsWay
  BY DEF WayHolds
<1> QED
  BY <1>1, <1>2, WayNext, InvHolds, PTL DEF Spec
=============================================================================

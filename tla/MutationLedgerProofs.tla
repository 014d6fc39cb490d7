------------------------ MODULE MutationLedgerProofs ------------------------
(***************************************************************************)
(* Proofs about MutationLedger: the ledger is a complete history, the      *)
(* journal agrees with it, keys are unique, answers are durable.           *)
(***************************************************************************)
EXTENDS MutationLedger, TLAPS

(* What the operators of MutationRecords return.                           *)
LEMMA StatusesListed ==
    Statuses = {"ACCEPTED", "EXECUTING", "UNKNOWN", "VERIFYING",
                "COMPLETED", "FAILED"}
  BY DEF Statuses, AllowedTransitions

LEMMA MayBecomeTyped ==
    \A status \in Statuses : MayBecome(status) \subseteq Statuses
  BY StatusesListed DEF MayBecome, AllowedTransitions

(* What a request puts in place of a row: a first version under a free     *)
(* identifier and key, or the next version of the same intent.             *)
LEMMA ResultsShape ==
    ASSUME NEW rs \in [Ids -> Option(Operation)], NEW r \in Request,
           NEW op \in Results(rs, r)
    PROVE  /\ op \in Operation
           /\ \/ /\ rs[r.id] = None
                 /\ op.revision = 0
                 /\ ~KeyTaken(rs, op.intent)
              \/ /\ rs[r.id] \in Operation
                 /\ op.revision = rs[r.id].revision + 1
                 /\ op.intent = rs[r.id].intent
<1>1. CASE r.kind = "ACCEPT"
  <2>1. r \in Acceptance
    BY <1>1 DEF Request, Acceptance, Mutation
  <2>2. /\ rs[r.id] = None /\ ~KeyTaken(rs, r.intent)
        /\ op = [intent |-> r.intent, status |-> "ACCEPTED", revision |-> 0]
    BY <1>1 DEF Results
  <2> QED
    BY <2>1, <2>2, StatusesListed DEF Acceptance, Operation
<1>2. CASE r.kind = "CHANGE"
  <2>1. r \in Mutation
    BY <1>2 DEF Request, Acceptance, Mutation
  <2>2. /\ rs[r.id] # None
        /\ \E s \in MayBecome(rs[r.id].status) :
              op = [rs[r.id] EXCEPT !.status = s, !.revision = @ + 1]
    BY <1>2 DEF Results
  <2>3. rs[r.id] \in Operation
    BY <2>1, <2>2 DEF Mutation, Option
  <2>4. PICK s \in MayBecome(rs[r.id].status) :
            op = [rs[r.id] EXCEPT !.status = s, !.revision = @ + 1]
    BY <2>2
  <2>5. s \in Statuses
    BY <2>3, MayBecomeTyped DEF Operation
  <2> DEFINE row == rs[r.id]
  <2> HIDE DEF row
  <2>6. row \in Operation /\ op = [row EXCEPT !.status = s, !.revision = @ + 1]
    BY <2>3, <2>4 DEF row
  <2>7. op = [intent |-> row.intent, status |-> s,
              revision |-> row.revision + 1]
    BY <2>6 DEF Operation
  <2>8. /\ op \in Operation
        /\ op.revision = row.revision + 1 /\ op.intent = row.intent
    BY <2>5, <2>6, <2>7 DEF Operation
  <2> QED
    BY <2>6, <2>8 DEF row
<1> QED
  BY <1>1, <1>2 DEF Request, Acceptance, Mutation

LEMMA RequestFields ==
    \A r \in Request : r.id \in Ids /\ r.mutationId \in MutationIds
  BY DEF Request, Acceptance, Mutation

LEMMA ReplyTyped ==
    ASSUME NEW kind \in AnswerKinds, NEW r \in Request
    PROVE  /\ Reply(kind, r) \in Answer
           /\ \A op \in Operation : ReplyWith(kind, r, op) \in Answer
  BY DEF Reply, ReplyWith, Answer, Option

LEMMA EventOfTyped ==
    ASSUME NEW rs \in [Ids -> Option(Operation)], NEW id \in Ids,
           NEW op \in Operation
    PROVE  EventOf(rs, id, op) \subseteq Event
  BY DEF EventOf, Event, Option, Operation

-----------------------------------------------------------------------------
(* The inductive invariant.                                                *)
Inv ==
    /\ TypeOK
    /\ LedgerIsComplete
    /\ JournalMatchesLedger
    /\ KeysAreUnique
    /\ AnswersAreDurable

LEMMA InitInv == Init => Inv
  BY RecordsAssumption
  DEF Init, Inv, TypeOK, LedgerIsComplete, JournalMatchesLedger,
      KeysAreUnique, AnswersAreDurable, EntriesAt, Option

-----------------------------------------------------------------------------
(* A mutation takes effect.                                                *)
LEMMA ApplyInv ==
    ASSUME Inv, NEW s \in Stores, NEW r \in Request, Apply(s, r)
    PROVE  Inv'
<1> DEFINE id == r.id
<1>1. PICK op \in Results(rows, r) :
        /\ rows' = [rows EXCEPT ![r.id] = op]
        /\ events' = events \cup EventOf(rows, r.id, op)
        /\ ledger' = ledger \cup {[request |-> r, operation |-> op]}
        /\ \E a \in {ReplyWith("COMMITTED", r, op),
                     Reply("INDETERMINATE", r), None} :
               answers' = [answers EXCEPT ![s] = a]
  BY DEF Apply
<1> DEFINE new == [request |-> r, operation |-> op]
<1>2. PICK a \in {ReplyWith("COMMITTED", r, op), Reply("INDETERMINATE", r),
                 None} : answers' = [answers EXCEPT ![s] = a]
  BY <1>1
<1>3. Prior(ledger, r) = {}
  BY DEF Apply
<1>4. TypeOK
  BY DEF Inv
<1>5. /\ r.id \in Ids
      /\ r.mutationId \in MutationIds
  BY DEF Request, Acceptance, Mutation
<1>6. /\ op \in Operation
      /\ \/ /\ rows[r.id] = None
            /\ op.revision = 0
            /\ ~KeyTaken(rows, op.intent)
         \/ /\ rows[r.id] \in Operation
            /\ op.revision = rows[r.id].revision + 1
            /\ op.intent = rows[r.id].intent
  BY <1>1, <1>4, ResultsShape DEF TypeOK
<1>7. new \in Entry /\ new \notin ledger
  BY <1>3, <1>6 DEF Entry, Prior
<1> HIDE DEF new
<1>8. /\ new.request = r /\ new.operation = op
      /\ ledger' = ledger \cup {new}
      /\ rows' = [rows EXCEPT ![r.id] = op]
  BY <1>1 DEF new
<1>9. op # None
  BY <1>6, RecordsAssumption
<1>10. \A e \in ledger : e.request \in Request /\ e.operation \in Operation
                       /\ e.request.id \in Ids
  BY <1>4 DEF TypeOK, Entry, Request, Acceptance, Mutation
(* Entries of other operations, and of lower revisions, are those there were. *)
<1>11. \A e \in ledger : e.request.id = r.id => e.operation.revision < op.revision
  BY <1>6, <1>10 DEF Inv, LedgerIsComplete, Operation
<1>12. \A i \in Ids, n \in Nat :
         EntriesAt(ledger', i, n) = IF i = r.id /\ n = op.revision THEN {new}
                            ELSE EntriesAt(ledger, i, n)
  BY <1>8, <1>11 DEF EntriesAt
<1>13. TypeOK'
  <2>1. EventOf(rows, r.id, op) \subseteq Event
    BY <1>4, <1>5, <1>6 DEF EventOf, Event, TypeOK, Option, Operation
  <2>2. a \in Option(Answer)
    BY <1>6 DEF Reply, ReplyWith, Answer, AnswerKinds, Option
  <2> QED
    BY <1>1, <1>2, <1>4, <1>5, <1>6, <1>7, <1>8, <2>1, <2>2
    DEF TypeOK, Option
<1>14. LedgerIsComplete'
  <2>1. ASSUME NEW e \in ledger'
        PROVE  /\ rows'[e.request.id] # None
               /\ e.operation.intent = rows'[e.request.id].intent
               /\ e.operation.revision <= rows'[e.request.id].revision
    BY <1>4, <1>5, <1>6, <1>8, <1>9, <1>10, <1>11
    DEF Inv, LedgerIsComplete, TypeOK, Operation
  <2>2. ASSUME NEW i \in Ids, rows'[i] # None, NEW n \in 0 .. rows'[i].revision
        PROVE  \E e \in ledger' : EntriesAt(ledger', i, n) = {e}
    <3>1. n \in Nat
      BY <1>4, <1>6, <1>8 DEF TypeOK, Operation, Option
    <3>2. CASE i = r.id /\ n = op.revision
      BY <1>8, <1>12, <3>1, <3>2
    <3>3. CASE i = r.id /\ n # op.revision
      <4>1. rows'[i] = op
        BY <1>4, <1>8, <3>3 DEF TypeOK
      <4>2. rows[i] # None /\ n \in 0 .. rows[i].revision
        BY <1>6, <3>1, <3>3, <4>1, RecordsAssumption DEF Operation
      <4>3. PICK e \in ledger : EntriesAt(ledger, i, n) = {e}
        BY <4>2 DEF Inv, LedgerIsComplete
      <4> QED
        BY <1>8, <1>12, <3>1, <3>3, <4>3
    <3>4. CASE i # r.id
      <4>1. rows'[i] = rows[i]
        BY <1>4, <1>8, <3>4 DEF TypeOK
      <4>2. PICK e \in ledger : EntriesAt(ledger, i, n) = {e}
        BY <4>1, <2>2 DEF Inv, LedgerIsComplete
      <4> QED
        BY <1>8, <1>12, <3>1, <3>4, <4>2
    <3> QED
      BY <3>2, <3>3, <3>4
  <2>3. ASSUME NEW i \in Ids, rows'[i] # None,
               NEW e \in EntriesAt(ledger', i, rows'[i].revision)
        PROVE  e.operation = rows'[i]
    <3>1. CASE i = r.id
      <4>1. rows'[i] = op
        BY <1>4, <1>8, <3>1 DEF TypeOK
      <4> QED
        BY <1>6, <1>8, <1>12, <3>1, <4>1, <2>3 DEF Operation
    <3>2. CASE i # r.id
      <4>1. rows'[i] = rows[i] /\ rows[i].revision \in Nat
        BY <1>4, <1>8, <3>2, <2>3 DEF TypeOK, Option, Operation
      <4> QED
        BY <1>12, <3>2, <4>1, <2>3 DEF Inv, LedgerIsComplete
    <3> QED
      BY <3>1, <3>2
  <2>4. ASSUME NEW e \in ledger', NEW f \in ledger', f \in Prior(ledger', e.request)
        PROVE  e = f
    <3>1. /\ f.request.id = e.request.id
          /\ f.request.mutationId = e.request.mutationId
      BY <2>4 DEF Prior
    <3>2. CASE e \in ledger /\ f \in ledger
      <4>1. f \in Prior(ledger, e.request)
        BY <3>1, <3>2 DEF Prior
      <4> QED
        BY <3>2, <4>1 DEF Inv, LedgerIsComplete
    <3>3. CASE e = new \/ f = new
      BY <1>3, <1>8, <3>1, <3>3 DEF Prior
    <3> QED
      BY <1>8, <3>2, <3>3
  <2> QED
    BY <2>1, <2>2, <2>3, <2>4 DEF LedgerIsComplete, EntriesAt
<1>15. JournalMatchesLedger'
  <2> DEFINE EventsOf(e, before) ==
        {[id |-> e.request.id, revision |-> e.operation.revision,
          from |-> from, to |-> e.operation.status] :
            from \in before \ {e.operation.status}}
  <2>1. \A e \in ledger : StatusBefore(ledger', e) = StatusBefore(ledger, e)
    <3> SUFFICES ASSUME NEW e \in ledger, e.operation.revision # 0
                 PROVE  StatusBefore(ledger', e) = StatusBefore(ledger, e)
      BY DEF StatusBefore
    <3>1. /\ e.request.id \in Ids /\ e.operation.revision - 1 \in Nat
          /\ ~(e.request.id = r.id /\ e.operation.revision - 1 = op.revision)
      BY <1>6, <1>10, <1>11 DEF Operation
    <3>2. EntriesAt(ledger', e.request.id, e.operation.revision - 1)
          = EntriesAt(ledger, e.request.id, e.operation.revision - 1)
      BY <1>12, <3>1
    <3> QED
      BY <3>2 DEF StatusBefore
  <2>2. StatusBefore(ledger', new) = IF rows[r.id] = None THEN {None}
                             ELSE {rows[r.id].status}
    <3>1. CASE rows[r.id] = None
      BY <1>6, <1>8, <3>1, RecordsAssumption DEF StatusBefore
    <3>2. CASE rows[r.id] # None
      <4> DEFINE n == rows[r.id].revision
      <4>1. n \in Nat /\ op.revision = n + 1
        BY <1>6, <3>2 DEF Operation
      <4>2. EntriesAt(ledger', r.id, n) = EntriesAt(ledger, r.id, n)
        BY <1>5, <1>12, <4>1
      <4>3. PICK e \in ledger : EntriesAt(ledger, r.id, n) = {e}
        BY <1>5, <3>2, <4>1 DEF Inv, LedgerIsComplete
      <4>4. e.operation = rows[r.id]
        BY <1>5, <3>2, <4>3 DEF Inv, LedgerIsComplete
      <4> QED
        <5>1. StatusBefore(ledger', new) =
              {f.operation.status : f \in EntriesAt(ledger', r.id, n)}
          <6>1. /\ new.operation.revision # 0
                /\ new.operation.revision - 1 = n /\ new.request.id = r.id
            BY <1>8, <4>1
          <6> QED
            BY <6>1 DEF StatusBefore
        <5> QED
          BY <3>2, <4>2, <4>3, <4>4, <5>1
    <3> QED
      BY <3>1, <3>2
  <2>3. EventOf(rows, r.id, op) = EventsOf(new, StatusBefore(ledger', new))
    BY <1>8, <2>2 DEF EventOf
  <2>4. events = UNION {EventsOf(e, StatusBefore(ledger, e)) : e \in ledger}
    BY DEF Inv, JournalMatchesLedger
  <2>5. events' = UNION {EventsOf(e, StatusBefore(ledger', e)) : e \in ledger'}
    <3> HIDE DEF EventsOf
    <3>1. \A v : v \in events' <=>
             \/ \E e \in ledger : v \in EventsOf(e, StatusBefore(ledger, e))
             \/ v \in EventsOf(new, StatusBefore(ledger', new))
      BY <1>1, <2>3, <2>4
    <3>2. \A v : v \in events' <=>
             \E e \in ledger' : v \in EventsOf(e, StatusBefore(ledger', e))
      BY <1>8, <2>1, <3>1
    <3> QED
      BY <3>2
  <2> QED
    BY <2>5 DEF JournalMatchesLedger
<1>16. KeysAreUnique'
  <2> SUFFICES ASSUME NEW i \in Ids, NEW j \in Ids,
                      rows'[i] # None, rows'[j] # None,
                      KeyOf[rows'[i].intent] = KeyOf[rows'[j].intent],
                      KeyOf[rows'[i].intent] # None
               PROVE  i = j
    BY DEF KeysAreUnique
  <2>1. \A x \in Ids : rows'[x] = IF x = r.id THEN op ELSE rows[x]
    BY <1>4, <1>8 DEF TypeOK
  <2>2. CASE rows[r.id] = None
    BY <1>6, <2>1, <2>2, RecordsAssumption DEF Inv, KeysAreUnique, KeyTaken, Operation
  <2>3. CASE rows[r.id] # None
    BY <1>5, <1>6, <2>1, <2>3 DEF Inv, KeysAreUnique
  <2> QED
    BY <2>2, <2>3
<1>17. AnswersAreDurable'
  <2> SUFFICES ASSUME NEW t \in Stores, answers'[t] # None
               PROVE  LET b == answers'[t] IN
                  /\ b.kind = "COMMITTED" =>
                      [request |-> b.request, operation |-> b.operation] \in ledger'
                  /\ b.kind = "FOUND" =>
                      \E e \in Prior(ledger', b.request) : e.operation = b.operation
                  /\ b.kind = "EXISTING" =>
                      /\ b.operation # None
                      /\ rows'[b.request.id] # None
                      /\ rows'[b.request.id].intent = b.request.intent
                      /\ b.operation.revision <= rows'[b.request.id].revision
    BY DEF AnswersAreDurable
  <2>1. CASE t = s
    BY <1>2, <1>4, <1>8, <2>1 DEF TypeOK, Reply, ReplyWith, new
  <2>2. CASE t # s
    <3>1. answers'[t] = answers[t]
      BY <1>2, <1>4, <2>2 DEF TypeOK
    <3>2. answers[t] \in Answer
      BY <1>4, <3>1 DEF TypeOK, Option
    <3> QED
      BY <1>4, <1>6, <1>8, <1>9, <3>1, <3>2
      DEF Inv, AnswersAreDurable, Prior, TypeOK, Answer, Operation, Option,
          Request, Acceptance, Mutation
  <2> QED
    BY <2>1, <2>2
<1> QED
  BY <1>13, <1>14, <1>15, <1>16, <1>17 DEF Inv

-----------------------------------------------------------------------------
(* An answer without an effect.                                            *)
LEMMA TruthfulTyped ==
    ASSUME TypeOK, NEW r \in Request, NEW a \in Truthful(r)
    PROVE  a \in Answer
<1>1. ASSUME NEW kind \in AnswerKinds PROVE Reply(kind, r) \in Answer
  BY DEF Reply, Answer, Option
<1>2. ASSUME NEW kind \in AnswerKinds, NEW op \in Operation
      PROVE  ReplyWith(kind, r, op) \in Answer
  BY DEF ReplyWith, Answer, Option
<1>3. CASE \E e \in ledger : a = ReplyWith("COMMITTED", r, e.operation)
  BY <1>2, <1>3 DEF TypeOK, Entry, AnswerKinds
<1>4. CASE \E i \in Ids : rows[i] # None /\ a = ReplyWith("EXISTING", r, rows[i])
  BY <1>2, <1>4 DEF TypeOK, Option, AnswerKinds
<1>5. CASE a \in {Reply("CONFLICT", r), Reply("ERROR", r), Reply("INDETERMINATE", r)}
  BY <1>1, <1>5 DEF AnswerKinds
<1> QED
  BY <1>3, <1>4, <1>5 DEF Truthful

(* When nothing durable changes, only the new answer has to be durable.    *)
LEMMA AnswerInv ==
    ASSUME Inv, NEW s \in Stores, NEW a \in Option(Answer),
           answers' = [answers EXCEPT ![s] = a], UNCHANGED durable,
           a # None =>
              /\ a.kind = "COMMITTED" =>
                  [request |-> a.request, operation |-> a.operation] \in ledger
              /\ a.kind = "FOUND" =>
                  \E e \in Prior(ledger, a.request) : e.operation = a.operation
              /\ a.kind = "EXISTING" =>
                  /\ a.operation # None
                  /\ rows[a.request.id] # None
                  /\ rows[a.request.id].intent = a.request.intent
                  /\ a.operation.revision <= rows[a.request.id].revision
    PROVE  Inv'
<1>1. rows' = rows /\ events' = events /\ ledger' = ledger
  BY DEF durable
<1>2. \A t \in Stores : answers'[t] = IF t = s THEN a ELSE answers[t]
  BY DEF Inv, TypeOK
<1>3. TypeOK'
  BY <1>1 DEF Inv, TypeOK
<1>4. AnswersAreDurable'
  BY <1>1, <1>2 DEF Inv, AnswersAreDurable
<1> QED
  BY <1>1, <1>3, <1>4
  DEF Inv, LedgerIsComplete, JournalMatchesLedger, KeysAreUnique

LEMMA RespondInv ==
    ASSUME Inv, NEW s \in Stores, NEW r \in Request, Respond(s, r)
    PROVE  Inv'
<1>1. PICK a \in Truthful(r) : answers' = [answers EXCEPT ![s] = a]
  BY DEF Respond
<1>2. a \in Answer
  BY <1>1, TruthfulTyped DEF Inv
<1>3. CASE \E e \in ledger : e.request = r /\ a = ReplyWith("COMMITTED", r, e.operation)
  <2>1. PICK e \in ledger : e.request = r /\ a = ReplyWith("COMMITTED", r, e.operation)
    BY <1>3
  <2>2. [request |-> a.request, operation |-> a.operation] = e
    BY <2>1 DEF ReplyWith, Inv, TypeOK, Entry
  <2>3. a.kind = "COMMITTED"
    BY <2>1 DEF ReplyWith
  <2>4. [request |-> a.request, operation |-> a.operation] \in ledger
    BY <2>1, <2>2
  <2>5. a \in Option(Answer) /\ UNCHANGED durable
    BY <1>2 DEF Option, Respond
  <2> QED
    BY <1>1, <2>3, <2>4, <2>5, AnswerInv
<1>4. CASE /\ rows[r.id] # None /\ rows[r.id].intent = r.intent /\ r.id \in Ids
           /\ a = ReplyWith("EXISTING", r, rows[r.id])
  <2>1. a.kind = "EXISTING" /\ a.request = r /\ a.operation = rows[r.id]
    BY <1>4 DEF ReplyWith
  <2>2. rows[r.id].revision \in Nat
    BY <1>4 DEF Inv, TypeOK, Option, Operation
  <2>3. a.operation # None /\ a.operation.revision <= rows[a.request.id].revision
    BY <1>4, <2>1, <2>2
  <2>4. a \in Option(Answer) /\ UNCHANGED durable
    BY <1>2 DEF Option, Respond
  <2> QED
    BY <1>1, <1>4, <2>1, <2>3, <2>4, AnswerInv
<1>5. CASE a \in {Reply("CONFLICT", r), Reply("ERROR", r), Reply("INDETERMINATE", r)}
  <2>1. a.kind \in {"CONFLICT", "ERROR", "INDETERMINATE"}
    BY <1>5 DEF Reply
  <2> QED
    BY <1>1, <1>2, <2>1, AnswerInv DEF Respond, Option
<1> QED
  BY <1>1, <1>3, <1>4, <1>5 DEF Truthful

LEMMA ResolveInv ==
    ASSUME Inv, NEW s \in Stores, Resolve(s)
    PROVE  Inv'
<1> DEFINE r == answers[s].request
<1>1. r \in Request
  BY DEF Resolve, Inv, TypeOK, Option, Answer
<1>2. CASE \E e \in Prior(ledger, r) :
             answers' = [answers EXCEPT ![s] = ReplyWith("FOUND", r, e.operation)]
  <2>1. PICK e \in Prior(ledger, r) :
             answers' = [answers EXCEPT ![s] = ReplyWith("FOUND", r, e.operation)]
    BY <1>2
  <2>2. e.operation \in Operation
    BY <2>1 DEF Prior, Inv, TypeOK, Entry
  <2> DEFINE a == ReplyWith("FOUND", r, e.operation)
  <2>3. a \in Option(Answer) /\ a.kind = "FOUND" /\ a.request = r
        /\ a.operation = e.operation
    BY <1>1, <2>2 DEF ReplyWith, Answer, AnswerKinds, Option
  <2> QED
    BY <2>1, <2>3, AnswerInv DEF Resolve
<1>3. CASE answers' = [answers EXCEPT ![s] = Reply("ABSENT", r)]
  <2> DEFINE a == Reply("ABSENT", r)
  <2>1. a \in Option(Answer) /\ a.kind = "ABSENT"
    BY <1>1 DEF Reply, Answer, AnswerKinds, Option
  <2> QED
    BY <1>3, <2>1, AnswerInv DEF Resolve
<1> QED
  BY <1>2, <1>3 DEF Resolve

LEMMA NextInv ==
    ASSUME Inv, [Next]_vars
    PROVE  Inv'
<1>1. CASE UNCHANGED vars
  BY <1>1
  DEF vars, Inv, TypeOK, LedgerIsComplete, JournalMatchesLedger, KeysAreUnique,
      AnswersAreDurable
<1>2. ASSUME NEW s \in Stores, NEW r \in Request, Apply(s, r) PROVE Inv'
  BY <1>2, ApplyInv
<1>3. ASSUME NEW s \in Stores, NEW r \in Request, Respond(s, r) PROVE Inv'
  BY <1>3, RespondInv
<1>4. ASSUME NEW s \in Stores, Resolve(s) PROVE Inv'
  BY <1>4, ResolveInv
<1>5. ASSUME NEW s \in Stores, Forget(s) PROVE Inv'
  BY <1>5, AnswerInv DEF Forget, Option
<1> QED
  BY <1>1, <1>2, <1>3, <1>4, <1>5 DEF Next
-----------------------------------------------------------------------------
(* Whatever mutations are asked for, repeated, lost or looked up, the      *)
(* ledger, the journal and the keys stay consistent and the answers true.  *)
THEOREM LedgerHolds == Spec => []Inv
<1>1. Init => Inv
  BY InitInv
<1>2. Inv /\ [Next]_vars => Inv'
  BY NextInv
<1> QED
  BY <1>1, <1>2, PTL DEF Spec
=============================================================================

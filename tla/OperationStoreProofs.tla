------------------------ MODULE OperationStoreProofs ------------------------
(***************************************************************************)
(* OperationStore implements MutationLedger: whatever statement fails and  *)
(* whoever dies, a mutation is seen to happen in one step or not at all.   *)
(***************************************************************************)
EXTENDS OperationStore, TLAPS

Proved == INSTANCE MutationLedgerProofs

LEMMA LedgerAssumption == Proved!RecordsAssumption
  BY RecordsAssumption
  DEF RecordsAssumption, Proved!RecordsAssumption, Option, Proved!Option,
      Operation, Proved!Operation, Statuses, Proved!Statuses,
      AllowedTransitions, Proved!AllowedTransitions, Answer, Proved!Answer,
      AnswerKinds, Proved!AnswerKinds, Request, Proved!Request,
      Acceptance, Proved!Acceptance, Mutation, Proved!Mutation

(* The instance proved about has the operators of this module.             *)
LEMMA ProvedRecords ==
    /\ Proved!Operation = Operation /\ Proved!Request = Request
    /\ \A S : Proved!Option(S) = Option(S)
    /\ \A rs, intent : Proved!KeyTaken(rs, intent) = KeyTaken(rs, intent)
    /\ \A rs, r : Proved!Results(rs, r) = Results(rs, r)
  BY DEF Proved!Operation, Operation, Proved!Request, Request,
         Proved!Option, Option, Proved!Statuses, Statuses,
         Proved!AllowedTransitions, AllowedTransitions,
         Proved!TerminalStatuses, TerminalStatuses,
         Proved!Acceptance, Acceptance, Proved!Mutation, Mutation,
         Proved!KeyTaken, KeyTaken, Proved!MayBecome, MayBecome,
         Proved!Results, Results

(* Its lemma on records, in the terms of this module, and more of them.    *)
LEMMA ResultsShape ==
    ASSUME NEW rs \in [Ids -> Option(Operation)], NEW r \in Request,
           NEW op \in Results(rs, r)
    PROVE  /\ op \in Operation
           /\ \/ /\ rs[r.id] = None
                 /\ op.revision = 0
                 /\ ~KeyTaken(rs, op.intent)
              \/ /\ rs[r.id] \in Operation
                 /\ op.revision = rs[r.id].revision + 1
                 /\ op.intent = rs[r.id].intent
<1>1. /\ rs \in [Ids -> Proved!Option(Proved!Operation)]
      /\ r \in Proved!Request /\ op \in Proved!Results(rs, r)
  BY ProvedRecords
<1> QED
  BY <1>1, LedgerAssumption, Proved!ResultsShape, ProvedRecords

LEMMA RequestFields ==
    \A r \in Request : r.id \in Ids /\ r.mutationId \in MutationIds
  BY DEF Request, Acceptance, Mutation

LEMMA ReplyTyped ==
    ASSUME NEW kind \in AnswerKinds, NEW r \in Request
    PROVE  /\ Reply(kind, r) \in Answer
           /\ \A op \in Operation : ReplyWith(kind, r, op) \in Answer
  BY DEF Reply, ReplyWith, Answer, Option

LEMMA EventOfTyped ==
    ASSUME NEW rs \in [Ids -> Option(Operation)], NEW id \in Ids,
           NEW op \in Operation
    PROVE  EventOf(rs, id, op) \subseteq Event
  BY DEF EventOf, Event, Option, Operation

(* The abstract module speaks of the same records.                         *)
LEMMA SameRecords ==
    /\ \A kind, r : Ledger!Reply(kind, r) = Reply(kind, r)
    /\ \A kind, r, op : Ledger!ReplyWith(kind, r, op) = ReplyWith(kind, r, op)
    /\ \A entries, r : Ledger!Prior(entries, r) = Prior(entries, r)
    /\ \A rs, r : Ledger!Results(rs, r) = Results(rs, r)
    /\ \A rs, i, op : Ledger!EventOf(rs, i, op) = EventOf(rs, i, op)
    /\ Ledger!Request = Request
  BY DEF Ledger!Reply, Reply, Ledger!ReplyWith, ReplyWith, Ledger!Prior, Prior,
         Ledger!Results, Results, Ledger!EventOf, EventOf,
         Ledger!KeyTaken, KeyTaken, Ledger!MayBecome, MayBecome,
         Ledger!AllowedTransitions, AllowedTransitions,
         Ledger!TerminalStatuses, TerminalStatuses,
         Ledger!Request, Request, Ledger!Acceptance, Acceptance,
         Ledger!Mutation, Mutation

(* A mutation identifier has one outcome, that of an operation that exists. *)
OneOutcome ==
    /\ \A e \in ledger : rows[e.request.id] # None
    /\ \A e, f \in ledger : f \in Prior(ledger, e.request) => e = f

(* A transaction excludes all others, and its store waits for it.          *)
Exclusive(s) ==
    /\ \A o \in Stores : o # s => tx[o] = None
    /\ ready[s] => answers[s] = None

(* What a transaction decided still holds, and what it is about to commit  *)
(* is complete.                                                            *)
Decided(t) ==
    /\ t.change = None => t.written = {}
    /\ t.change = None /\ t.result # None =>
         t.result \in Ledger!Truthful(t.request)
    /\ t.change # None =>
         /\ t.change \in Results(rows, t.request)
         /\ Prior(ledger, t.request) = {}
    /\ t.change # None /\ t.result # None =>
         /\ t.result = ReplyWith("COMMITTED", t.request, t.change)
         /\ "operations" \in t.written
         /\ "operation_mutations" \in t.written
         /\ ~EventDue(t)

Inv ==
    /\ TypeOK
    /\ OneOutcome
    /\ \A s \in Stores : tx[s] # None => Exclusive(s) /\ Decided(tx[s])

LEMMA InitInv == Init => Inv /\ Ledger!Init
  BY RecordsAssumption DEF Init, Inv, TypeOK, OneOutcome, Option, Ledger!Init

(* What work() returns without writing is true.                            *)
LEMMA KnownIsTruthful ==
    ASSUME Inv, NEW r \in Request, NEW a \in Known(r)
    PROVE  a \in Ledger!Truthful(r) /\ a \in Answer
<1>0. r.id \in Ids
  BY RequestFields
<1>1. CASE \E e \in Prior(ledger, r) : e.request = r /\ a = ReplyWith("COMMITTED", r, e.operation)
  <2>1. PICK e \in ledger : e.request = r /\ a = ReplyWith("COMMITTED", r, e.operation)
    BY <1>1 DEF Prior
  <2>2. e.operation \in Operation
    BY DEF Inv, TypeOK, Entry
  <2> QED
    BY <2>1, <2>2, ReplyTyped, SameRecords
    DEF Ledger!Truthful, AnswerKinds
<1>2. CASE (\E e \in Prior(ledger, r) : e.request # r) /\ a = Reply("CONFLICT", r)
  <2>1. PICK e \in Prior(ledger, r) : e.request # r
    BY <1>2
  <2>2. ASSUME NEW f \in ledger, f.request = r PROVE FALSE
    BY <2>1, <2>2 DEF Inv, OneOutcome, Prior
  <2> QED
    BY <1>2, <2>2, ReplyTyped, SameRecords
    DEF Ledger!Truthful, AnswerKinds
<1>3. CASE Prior(ledger, r) = {} /\ a = Reply("CONFLICT", r)
  <2>1. \A f \in ledger : f.request # r
    BY <1>3 DEF Prior
  <2> QED
    BY <1>3, <2>1, ReplyTyped, SameRecords
    DEF Ledger!Truthful, AnswerKinds
<1>4. CASE /\ r.kind = "ACCEPT" /\ rows[r.id] # None
           /\ rows[r.id].intent = r.intent
           /\ a = ReplyWith("EXISTING", r, rows[r.id])
  <2>1. rows[r.id] \in Operation
    BY <1>0, <1>4 DEF Inv, TypeOK, Option
  <2> QED
    BY <1>0, <1>4, <2>1, ReplyTyped, SameRecords
    DEF Ledger!Truthful, AnswerKinds
<1>5. r.kind = "ACCEPT" \/ r.kind = "CHANGE"
  BY DEF Request, Acceptance, Mutation
<1> QED
  BY <1>1, <1>2, <1>3, <1>4, <1>5 DEF Known

(* A transaction that is ready to commit writes all its tables, or none.   *)
LEMMA CommitWrites ==
    ASSUME Inv, NEW s \in Stores, tx[s] # None, tx[s].result # None,
           MakeDurable(s)
    PROVE  LET t == tx[s] IN
           \/ /\ t.change = None
              /\ t.result \in Ledger!Truthful(t.request)
              /\ UNCHANGED durable
           \/ /\ t.change # None
              /\ t.result = ReplyWith("COMMITTED", t.request, t.change)
              /\ rows' = [rows EXCEPT ![t.request.id] = t.change]
              /\ events' = events \cup EventOf(rows, t.request.id, t.change)
              /\ ledger' = ledger \cup {[request |-> t.request, operation |-> t.change]}
<1>1. Decided(tx[s])
  BY DEF Inv
<1>2. CASE tx[s].change = None
  BY <1>1, <1>2 DEF Decided, MakeDurable, RowsWith, EventsWith, LedgerWith, Written, durable
<1>3. CASE tx[s].change # None
  BY <1>1, <1>3 DEF Decided, MakeDurable, RowsWith, EventsWith, LedgerWith, Written, EventDue
<1> QED
  BY <1>2, <1>3

-----------------------------------------------------------------------------
(* Steps that change nothing durable.                                      *)
LEMMA QuietInv ==
    ASSUME Inv, UNCHANGED durable,
           ready' \in [Stores -> BOOLEAN],
           tx' \in [Stores -> Option(Transaction)],
           answers' \in [Stores -> Option(Answer)],
           \A o \in Stores : tx'[o] # None =>
              /\ \A p \in Stores : p # o => tx'[p] = None
              /\ ready'[o] => answers'[o] = None
              /\ tx'[o] = tx[o] \/ Decided(tx'[o])
    PROVE  Inv'
<1>1. rows' = rows /\ events' = events /\ ledger' = ledger
  BY DEF durable
<1>2. TypeOK' /\ OneOutcome'
  BY <1>1 DEF Inv, TypeOK, OneOutcome
<1>3. ASSUME NEW o \in Stores, tx'[o] # None
      PROVE  Exclusive(o)' /\ Decided(tx[o])'
  <2>1. Decided(tx'[o])
    BY <1>3 DEF Inv
  <2>2. Decided(tx[o])'
    BY <1>1, <2>1 DEF Decided, Ledger!Truthful, EventDue, Written
  <2> QED
    BY <1>3, <2>2 DEF Exclusive
<1> QED
  BY <1>2, <1>3 DEF Inv

(* Steps inside a transaction are invisible.                               *)
LEMMA InsideStep ==
    ASSUME Inv, NEW s \in Stores, NEW t \in Transaction,
           LockIsFree \/ tx[s] # None,
           ready[s] => answers[s] = None, Decided(t),
           tx' = [tx EXCEPT ![s] = t],
           UNCHANGED <<durable, ready, answers>>
    PROVE  Inv' /\ UNCHANGED Ledger!vars
<1>1. \A o \in Stores : tx'[o] = IF o = s THEN t ELSE tx[o]
  BY DEF Inv, TypeOK
<1>2. \A o \in Stores : o # s => tx[o] = None
  BY DEF Inv, LockIsFree, Exclusive
<1>3. /\ ready' \in [Stores -> BOOLEAN]
      /\ tx' \in [Stores -> Option(Transaction)]
      /\ answers' \in [Stores -> Option(Answer)]
  BY DEF Inv, TypeOK, Option
<1>4. Inv'
  BY <1>1, <1>2, <1>3, QuietInv
<1> QED
  BY <1>4 DEF durable, Ledger!vars

LEMMA BeginStep ==
    ASSUME Inv, NEW s \in Stores, NEW r \in Request, Begin(s, r)
    PROVE  Inv' /\ UNCHANGED Ledger!vars
<1> DEFINE t == [request |-> r, result |-> None, change |-> None, written |-> {}]
<1>1. t \in Transaction
  BY DEF Transaction, Option
<1>2. Decided(t)
  BY DEF Decided
<1> QED
  BY <1>1, <1>2, InsideStep DEF Begin

LEMMA RunningTyped ==
    ASSUME Inv, NEW s \in Stores, Running(s)
    PROVE  /\ tx[s] \in Transaction /\ Decided(tx[s])
           /\ ready[s] /\ answers[s] = None
           /\ \A o \in Stores : o # s => tx[o] = None
  BY DEF Inv, TypeOK, Option, Running, Exclusive

LEMMA ReturnStep ==
    ASSUME Inv, NEW s \in Stores, Return(s)
    PROVE  Inv' /\ UNCHANGED Ledger!vars
<1>1. PICK a \in Known(tx[s].request) : tx' = [tx EXCEPT ![s].result = a]
  BY DEF Return
<1>2. /\ tx[s] \in Transaction /\ tx[s].request \in Request
      /\ tx[s] # None /\ answers[s] = None
      /\ tx[s].change = None /\ tx[s].written = {}
  BY RunningTyped DEF Return, Undecided, Running, Transaction, Decided
<1>3. a \in Ledger!Truthful(tx[s].request) /\ a \in Answer
  BY <1>1, <1>2, KnownIsTruthful
<1> DEFINE t == [tx[s] EXCEPT !.result = a]
<1>4. /\ t \in Transaction
      /\ t.change = None /\ t.written = {} /\ t.result = a
      /\ t.request = tx[s].request
  BY <1>2, <1>3 DEF Transaction, Option
<1>5. Decided(t)
  BY <1>3, <1>4 DEF Decided
<1> QED
  BY <1>1, <1>2, <1>4, <1>5, InsideStep DEF Return

LEMMA ComputeStep ==
    ASSUME Inv, NEW s \in Stores, Compute(s)
    PROVE  Inv' /\ UNCHANGED Ledger!vars
<1>1. PICK op \in Results(rows, tx[s].request) : tx' = [tx EXCEPT ![s].change = op]
  BY DEF Compute
<1>2. /\ tx[s] \in Transaction /\ tx[s].request \in Request
      /\ tx[s] # None /\ answers[s] = None /\ tx[s].result = None
  BY RunningTyped DEF Compute, Undecided, Running, Transaction
<1>3. op \in Operation
  BY <1>1, <1>2, ResultsShape DEF Inv, TypeOK
<1>4. Prior(ledger, tx[s].request) = {}
  <2>1. Known(tx[s].request) = {}
    BY DEF Compute
  <2>2. ~(tx[s].request.kind = "CHANGE" /\ rows[tx[s].request.id] = None)
    BY <1>1 DEF Results
  <2> QED
    BY <2>1, <2>2 DEF Known
<1> DEFINE t == [tx[s] EXCEPT !.change = op]
<1>5. /\ t \in Transaction
      /\ t.change = op /\ t.result = None
      /\ t.request = tx[s].request
  BY <1>2, <1>3 DEF Transaction, Option
<1>6. Decided(t)
  BY <1>1, <1>3, <1>4, <1>5, RecordsAssumption DEF Decided
<1> QED
  BY <1>1, <1>2, <1>5, <1>6, InsideStep DEF Compute

LEMMA WriteStep ==
    ASSUME Inv, NEW s \in Stores,
           WriteRow(s) \/ WriteEvent(s) \/ WriteEntry(s)
    PROVE  Inv' /\ UNCHANGED Ledger!vars
<1>1. /\ tx[s] \in Transaction /\ tx[s].request \in Request
      /\ tx[s] # None /\ answers[s] = None
      /\ tx[s].change # None /\ tx[s].change \in Operation
      /\ tx[s].result = None /\ Decided(tx[s])
      /\ UNCHANGED <<durable, ready, answers>>
  BY RunningTyped
  DEF WriteRow, WriteEvent, WriteEntry, Persisting, Running, Transaction, Option
<1>2. ASSUME NEW table \in Tables,
             tx' = [tx EXCEPT ![s].written = @ \cup {table}]
      PROVE  Inv' /\ UNCHANGED Ledger!vars
  <2> DEFINE t == [tx[s] EXCEPT !.written = @ \cup {table}]
  <2>1. /\ t \in Transaction /\ t.request = tx[s].request
        /\ t.change = tx[s].change /\ t.result = None
    BY <1>1 DEF Transaction
  <2>2. Decided(t)
    BY <1>1, <2>1 DEF Decided
  <2> QED
    BY <1>1, <1>2, <2>1, <2>2, InsideStep
<1>3. CASE WriteEntry(s)
  <2> DEFINE t == [tx[s] EXCEPT
                     !.written = @ \cup {"operation_mutations"},
                     !.result = ReplyWith("COMMITTED", tx[s].request, tx[s].change)]
  <2>1. ReplyWith("COMMITTED", tx[s].request, tx[s].change) \in Answer
    BY <1>1, ReplyTyped DEF AnswerKinds
  <2>2. /\ t \in Transaction /\ t.request = tx[s].request
        /\ t.change = tx[s].change
        /\ t.result = ReplyWith("COMMITTED", tx[s].request, tx[s].change)
        /\ t.written = tx[s].written \cup {"operation_mutations"}
    BY <1>1, <2>1 DEF Transaction, Tables, Option
  <2>3. "operations" \in tx[s].written /\ ~EventDue(tx[s])
    BY <1>3 DEF WriteEntry, Written
  <2>4. ~EventDue(t)
    BY <1>1, <2>2, <2>3, StoreAssumption DEF EventDue, Written
  <2>5. Decided(t)
    BY <1>1, <2>2, <2>3, <2>4 DEF Decided
  <2>6. tx' = [tx EXCEPT ![s] = t]
    BY <1>3 DEF WriteEntry
  <2> QED
    BY <1>1, <2>2, <2>5, <2>6, InsideStep
<1> QED
  BY <1>2, <1>3 DEF WriteRow, WriteEvent, Tables
-----------------------------------------------------------------------------
(* Opening and closing are invisible too.                                  *)
LEMMA OpenCloseStep ==
    ASSUME Inv, NEW s \in Stores, Open(s) \/ Close(s)
    PROVE  Inv' /\ UNCHANGED Ledger!vars
<1>1. /\ ready' \in [Stores -> BOOLEAN]
      /\ tx' \in [Stores -> Option(Transaction)]
      /\ answers' \in [Stores -> Option(Answer)]
      /\ UNCHANGED <<durable, answers>>
  BY DEF Open, Close, Inv, TypeOK, Option
<1>2. \A o \in Stores : tx'[o] # None => tx'[o] = tx[o] /\ o # s /\ ready'[o] = ready[o]
  BY DEF Open, Close, LockIsFree, Inv, TypeOK
<1>3. \A p \in Stores : tx[p] = None => tx'[p] = None
  BY DEF Open, Close, Inv, TypeOK
<1>4. Inv'
  BY <1>1, <1>2, <1>3, QuietInv DEF Inv, Exclusive
<1> QED
  BY <1>1, <1>4 DEF durable, Ledger!vars

(* An answer without an effect, and what becomes of the transaction.       *)
LEMMA AnswerStep ==
    ASSUME Inv, NEW s \in Stores, NEW a \in Option(Answer),
           UNCHANGED durable, Answers(s, a),
           \/ UNCHANGED ready
           \/ ready' = [ready EXCEPT ![s] = FALSE],
           \/ UNCHANGED tx /\ (tx[s] # None => ~ready'[s])
           \/ tx' = [tx EXCEPT ![s] = None]
    PROVE  Inv'
<1>1. /\ ready' \in [Stores -> BOOLEAN]
      /\ tx' \in [Stores -> Option(Transaction)]
      /\ answers' \in [Stores -> Option(Answer)]
  BY DEF Inv, TypeOK, Option, Answers
<1>2. ASSUME NEW o \in Stores, tx'[o] # None
      PROVE  /\ tx'[o] = tx[o]
             /\ \A p \in Stores : p # o => tx'[p] = None
             /\ ready'[o] => answers'[o] = None
  <2>1. tx'[o] = tx[o] /\ tx[o] # None /\ Exclusive(o)
    BY <1>2 DEF Inv, TypeOK
  <2>2. \A p \in Stores : p # o => tx'[p] = None
    BY <2>1 DEF Exclusive, Inv, TypeOK
  <2>3. CASE o = s
    <3>1. ~(tx' = [tx EXCEPT ![s] = None])
      BY <1>2, <2>3 DEF Inv, TypeOK
    <3>2. ~ready'[o]
      BY <2>1, <2>3, <3>1
    <3> QED
      BY <2>1, <2>2, <3>2
  <2>4. CASE o # s
    <3>1. ready'[o] = ready[o] /\ answers'[o] = answers[o]
      BY <2>4 DEF Answers, Inv, TypeOK
    <3> QED
      BY <2>1, <2>2, <3>1 DEF Exclusive
  <2> QED
    BY <2>1, <2>2, <2>3, <2>4
<1> QED
  BY <1>1, <1>2, QuietInv

LEMMA RespondStep ==
    ASSUME NEW s \in Stores, NEW r \in Request, answers[s] = None,
           NEW a \in Ledger!Truthful(r), Answers(s, a), UNCHANGED durable
    PROVE  Ledger!Next
<1>1. Ledger!Respond(s, r)
  BY DEF Ledger!Respond, Answers, durable, Ledger!durable
<1> QED
  BY <1>1, SameRecords DEF Ledger!Next

LEMMA CannotBeginStep ==
    ASSUME Inv, NEW s \in Stores, NEW r \in Request, CannotBegin(s, r)
    PROVE  Inv' /\ Ledger!Next
<1> DEFINE a == Reply("ERROR", r)
<1>1. a \in Option(Answer)
  BY ReplyTyped DEF AnswerKinds, Option
<1>2. a \in Ledger!Truthful(r)
  BY SameRecords DEF Ledger!Truthful
<1>3. tx[s] # None => ~ready'[s]
  BY DEF CannotBegin, Running
<1>4. PICK t \in {tx[s], None} : tx' = [tx EXCEPT ![s] = t]
  BY DEF CannotBegin
<1>5. tx' = tx \/ tx' = [tx EXCEPT ![s] = None]
  BY <1>4 DEF Inv, TypeOK
<1> QED
  BY <1>1, <1>2, <1>3, <1>5, AnswerStep, RespondStep DEF CannotBegin

LEMMA RollBackCases ==
    ASSUME Inv, NEW s \in Stores, RollBack(s)
    PROVE  /\ UNCHANGED ready \/ ready' = [ready EXCEPT ![s] = FALSE]
           /\ \/ UNCHANGED tx /\ (tx[s] # None => ~ready'[s])
              \/ tx' = [tx EXCEPT ![s] = None]
  BY DEF RollBack, Inv, TypeOK

LEMMA ThrowStep ==
    ASSUME Inv, NEW s \in Stores, Throw(s)
    PROVE  Inv' /\ Ledger!Next
<1> DEFINE r == tx[s].request
<1>1. r \in Request /\ answers[s] = None
  BY RunningTyped DEF Throw, Transaction
<1>2. PICK kind \in {"ERROR", "CONFLICT"} :
        Answers(s, Reply(kind, r)) /\ (kind = "CONFLICT" => Refused(s))
  BY DEF Throw
<1>3. Reply(kind, r) \in Option(Answer)
  BY <1>1, ReplyTyped DEF AnswerKinds, Option
<1>4. Reply(kind, r) \in Ledger!Truthful(r)
  <2>1. CASE kind = "ERROR"
    BY <2>1, SameRecords DEF Ledger!Truthful
  <2>2. CASE kind = "CONFLICT"
    <3>1. Prior(ledger, r) = {}
      BY <1>2, <2>2 DEF Refused, Known
    <3>2. \A e \in ledger : e.request # r
      BY <3>1 DEF Prior
    <3> QED
      BY <2>2, <3>2, SameRecords DEF Ledger!Truthful
  <2> QED
    BY <2>1, <2>2
<1>5. Inv'
  BY <1>2, <1>3, RollBackCases, AnswerStep DEF Throw
<1> QED
  BY <1>1, <1>2, <1>4, <1>5, RespondStep DEF Throw
-----------------------------------------------------------------------------
(* COMMIT takes effect: the transaction of s becomes durable and ends.     *)
LEMMA EffectInv ==
    ASSUME Inv, NEW s \in Stores, Running(s), tx[s].result # None,
           MakeDurable(s), tx' = [tx EXCEPT ![s] = None],
           ready' \in [Stores -> BOOLEAN],
           answers' \in [Stores -> Option(Answer)]
    PROVE  Inv'
<1> DEFINE t == tx[s]
<1>1. /\ t \in Transaction /\ t.request \in Request /\ Decided(t)
      /\ \A o \in Stores : o # s => tx[o] = None
  BY RunningTyped DEF Transaction
<1>2. \A o \in Stores : tx'[o] = None
  BY <1>1 DEF Inv, TypeOK
<1>3. tx' \in [Stores -> Option(Transaction)]
  BY DEF Inv, TypeOK, Option
<1>4. CASE UNCHANGED durable
  BY <1>2, <1>3, <1>4, QuietInv
<1>5. CASE /\ t.change # None
           /\ rows' = [rows EXCEPT ![t.request.id] = t.change]
           /\ events' = events \cup EventOf(rows, t.request.id, t.change)
           /\ ledger' = ledger \cup {[request |-> t.request, operation |-> t.change]}
  <2> DEFINE new == [request |-> t.request, operation |-> t.change]
  <2>1. /\ t.request.id \in Ids /\ t.change \in Operation
        /\ Prior(ledger, t.request) = {}
    BY <1>1, <1>5, RequestFields DEF Decided, Transaction, Option
  <2>2. EventOf(rows, t.request.id, t.change) \subseteq Event
    BY <2>1, EventOfTyped DEF Inv, TypeOK
  <2>3. TypeOK'
    BY <1>1, <1>3, <1>5, <2>1, <2>2 DEF Inv, TypeOK, Option, Entry
  <2>4. ASSUME NEW e \in ledger' PROVE rows'[e.request.id] # None
    <3>1. CASE e = new
      BY <1>5, <2>1, <3>1 DEF Inv, TypeOK
    <3>2. CASE e \in ledger
      BY <1>5, <2>1, <3>2 DEF Inv, TypeOK, OneOutcome, Entry
    <3> QED
      BY <1>5, <3>1, <3>2
  <2>5. ASSUME NEW e \in ledger', NEW f \in ledger', f \in Prior(ledger', e.request)
        PROVE  e = f
    <3>1. /\ f.request.id = e.request.id
          /\ f.request.mutationId = e.request.mutationId
      BY <2>5 DEF Prior
    <3>2. CASE e \in ledger /\ f \in ledger
      <4>1. f \in Prior(ledger, e.request)
        BY <3>1, <3>2 DEF Prior
      <4> QED
        BY <3>2, <4>1 DEF Inv, OneOutcome
    <3>3. CASE e = new \/ f = new
      BY <1>5, <2>1, <3>1, <3>3 DEF Prior
    <3> QED
      BY <1>5, <3>2, <3>3
  <2> QED
    BY <1>2, <2>3, <2>4, <2>5 DEF Inv, OneOutcome
<1> QED
  BY <1>4, <1>5, CommitWrites DEF Running

(* Seen from outside it is the mutation happening, or a mere answer.       *)
LEMMA EffectStep ==
    ASSUME Inv, NEW s \in Stores, Running(s), tx[s].result # None,
           MakeDurable(s),
           NEW a \in {tx[s].result, Reply("INDETERMINATE", tx[s].request), None},
           answers' = [answers EXCEPT ![s] = a]
    PROVE  [Ledger!Next]_Ledger!vars /\ answers' \in [Stores -> Option(Answer)]
<1> DEFINE t == tx[s]
<1>1. /\ t \in Transaction /\ t.request \in Request /\ answers[s] = None
      /\ Decided(t)
  BY RunningTyped DEF Transaction
<1>2. answers' \in [Stores -> Option(Answer)]
  BY <1>1, ReplyTyped DEF Inv, TypeOK, Transaction, Option, AnswerKinds
<1>3. CASE /\ t.result \in Ledger!Truthful(t.request)
           /\ UNCHANGED durable
  <2>1. CASE a = None
    <3>1. answers' = answers
      BY <1>1, <2>1 DEF Inv, TypeOK
    <3> QED
      BY <1>2, <1>3, <3>1 DEF durable, Ledger!vars
  <2>2. CASE a # None
    <3>1. a \in Ledger!Truthful(t.request)
      BY <1>3, <2>2, SameRecords DEF Ledger!Truthful
    <3> QED
      BY <1>1, <1>2, <1>3, <3>1, RespondStep DEF Answers
  <2> QED
    BY <2>1, <2>2
<1>4. CASE /\ t.change # None
           /\ t.result = ReplyWith("COMMITTED", t.request, t.change)
           /\ rows' = [rows EXCEPT ![t.request.id] = t.change]
           /\ events' = events \cup EventOf(rows, t.request.id, t.change)
           /\ ledger' = ledger \cup {[request |-> t.request, operation |-> t.change]}
  <2>1. Ledger!Apply(s, t.request)
    BY <1>1, <1>4, SameRecords DEF Ledger!Apply, Decided
  <2> QED
    BY <1>1, <1>2, <2>1, SameRecords DEF Ledger!Next
<1> QED
  BY <1>3, <1>4, CommitWrites DEF Running

LEMMA CommitStep ==
    ASSUME Inv, NEW s \in Stores, Commit(s)
    PROVE  Inv' /\ [Ledger!Next]_Ledger!vars
<1>1. [Ledger!Next]_Ledger!vars /\ answers' \in [Stores -> Option(Answer)]
  BY EffectStep DEF Commit, Answers
<1> QED
  BY <1>1, EffectInv DEF Commit, Inv, TypeOK

LEMMA CommitFailsStep ==
    ASSUME Inv, NEW s \in Stores, CommitFails(s)
    PROVE  Inv' /\ [Ledger!Next]_Ledger!vars
<1> DEFINE r == tx[s].request
           a == Reply("INDETERMINATE", r)
<1>1. r \in Request /\ answers[s] = None
  BY RunningTyped DEF CommitFails, Transaction
<1>2. CASE MakeDurable(s) /\ tx' = [tx EXCEPT ![s] = None] /\ UNCHANGED ready
  <2>1. [Ledger!Next]_Ledger!vars /\ answers' \in [Stores -> Option(Answer)]
    BY <1>2, EffectStep DEF CommitFails, Answers
  <2> QED
    BY <1>2, <2>1, EffectInv DEF CommitFails, Inv, TypeOK
<1>3. CASE RollBack(s) /\ UNCHANGED durable
  <2>1. a \in Option(Answer) /\ a \in Ledger!Truthful(r)
    BY <1>1, ReplyTyped, SameRecords DEF Ledger!Truthful, AnswerKinds, Option
  <2>2. Inv'
    BY <1>3, <2>1, RollBackCases, AnswerStep DEF CommitFails
  <2> QED
    BY <1>1, <1>3, <2>1, <2>2, RespondStep DEF CommitFails
<1> QED
  BY <1>2, <1>3 DEF CommitFails

LEMMA ForgetStep ==
    ASSUME Inv, NEW s \in Stores, answers' = [answers EXCEPT ![s] = None],
           UNCHANGED durable
    PROVE  [Ledger!Next]_Ledger!vars
<1>1. CASE answers[s] = None
  <2>1. answers' = answers
    BY <1>1 DEF Inv, TypeOK
  <2> QED
    BY <2>1 DEF durable, Ledger!vars
<1>2. CASE answers[s] # None
  BY <1>2 DEF Ledger!Next, Ledger!Forget, durable, Ledger!durable
<1> QED
  BY <1>1, <1>2

LEMMA CrashStep ==
    ASSUME Inv, NEW s \in Stores, Crash(s)
    PROVE  Inv' /\ [Ledger!Next]_Ledger!vars
<1>1. CASE UNCHANGED durable
  <2>1. Inv'
    BY <1>1, AnswerStep DEF Crash, Answers, Option
  <2> QED
    BY <1>1, <2>1, ForgetStep DEF Crash
<1>2. CASE Running(s) /\ tx[s].result # None /\ MakeDurable(s)
  <2>1. [Ledger!Next]_Ledger!vars /\ answers' \in [Stores -> Option(Answer)]
    BY <1>2, EffectStep DEF Crash
  <2>2. ready' \in [Stores -> BOOLEAN]
    BY DEF Crash, Inv, TypeOK
  <2> QED
    BY <1>2, <2>1, <2>2, EffectInv DEF Crash
<1> QED
  BY <1>1, <1>2 DEF Crash

LEMMA UsedStep ==
    ASSUME Inv, NEW s \in Stores, Used(s)
    PROVE  Inv' /\ [Ledger!Next]_Ledger!vars
<1>1. ready[s] => tx[s] = None
  BY DEF Used, Inv, Exclusive
<1>2. UNCHANGED durable /\ UNCHANGED ready /\ UNCHANGED tx
  BY DEF Used
<1>3. tx[s] # None => ~ready'[s]
  BY <1>1, <1>2
<1>4. Inv'
  BY <1>2, <1>3, AnswerStep DEF Used, Answers, Option
<1> QED
  BY <1>2, <1>4, ForgetStep DEF Used

(* A store that is ready has no uncommitted writes to mistake for durable. *)
LEMMA GetMutationStep ==
    ASSUME Inv, NEW s \in Stores, GetMutation(s)
    PROVE  Inv' /\ [Ledger!Next]_Ledger!vars
<1> DEFINE r == answers[s].request
<1>1. /\ answers[s] # None /\ answers[s].kind = "INDETERMINATE"
      /\ r \in Request /\ r.id \in Ids /\ tx[s] = None
      /\ UNCHANGED durable /\ UNCHANGED ready /\ UNCHANGED tx
  BY RequestFields DEF GetMutation, Inv, TypeOK, Option, Answer, Exclusive
<1>2. RowsWith(tx[s]) = rows /\ LedgerWith(tx[s]) = ledger
  BY <1>1 DEF RowsWith, LedgerWith, Written
<1>3. rows[r.id] = None => Prior(ledger, r) = {}
  BY DEF Inv, OneOutcome, Prior
<1>4. CASE \E e \in Prior(ledger, r) : Answers(s, ReplyWith("FOUND", r, e.operation))
  <2>1. PICK e \in Prior(ledger, r) : Answers(s, ReplyWith("FOUND", r, e.operation))
    BY <1>4
  <2>2. e.operation \in Operation
    BY <2>1 DEF Prior, Inv, TypeOK, Entry
  <2>3. ReplyWith("FOUND", r, e.operation) \in Option(Answer)
    BY <1>1, <2>2, ReplyTyped DEF AnswerKinds, Option
  <2>4. Inv'
    BY <1>1, <2>1, <2>3, AnswerStep
  <2>5. Ledger!Resolve(s)
    BY <1>1, <2>1, SameRecords DEF Ledger!Resolve, Answers, durable, Ledger!durable
  <2> QED
    BY <2>4, <2>5 DEF Ledger!Next
<1>5. CASE Prior(ledger, r) = {} /\ Answers(s, Reply("ABSENT", r))
  <2>1. Reply("ABSENT", r) \in Option(Answer)
    BY <1>1, ReplyTyped DEF AnswerKinds, Option
  <2>2. Inv'
    BY <1>1, <1>5, <2>1, AnswerStep
  <2>3. Ledger!Resolve(s)
    BY <1>1, <1>5, SameRecords DEF Ledger!Resolve, Answers, durable, Ledger!durable
  <2> QED
    BY <2>2, <2>3 DEF Ledger!Next
<1> QED
  BY <1>2, <1>3, <1>4, <1>5 DEF GetMutation

LEMMA NextStep ==
    ASSUME Inv, [Next]_vars
    PROVE  Inv' /\ [Ledger!Next]_Ledger!vars
<1>1. CASE UNCHANGED vars
  <2>1. UNCHANGED durable /\ UNCHANGED <<ready, tx, answers>>
    BY <1>1 DEF vars, durable
  <2>2. Inv'
    BY <2>1, QuietInv DEF Inv, TypeOK, Exclusive
  <2> QED
    BY <2>1, <2>2 DEF durable, Ledger!vars
<1>2. ASSUME NEW s \in Stores, Open(s) \/ Close(s)
      PROVE  Inv' /\ [Ledger!Next]_Ledger!vars
  BY <1>2, OpenCloseStep
<1>3. ASSUME NEW s \in Stores, NEW r \in Request, Begin(s, r) \/ CannotBegin(s, r)
      PROVE  Inv' /\ [Ledger!Next]_Ledger!vars
  BY <1>3, BeginStep, CannotBeginStep
<1>4. ASSUME NEW s \in Stores,
             Return(s) \/ Compute(s) \/ WriteRow(s) \/ WriteEvent(s) \/ WriteEntry(s)
      PROVE  Inv' /\ [Ledger!Next]_Ledger!vars
  BY <1>4, ReturnStep, ComputeStep, WriteStep
<1>5. ASSUME NEW s \in Stores, Throw(s) \/ Commit(s) \/ CommitFails(s) \/ Crash(s)
      PROVE  Inv' /\ [Ledger!Next]_Ledger!vars
  BY <1>5, ThrowStep, CommitStep, CommitFailsStep, CrashStep
<1>6. ASSUME NEW s \in Stores, GetMutation(s) \/ Used(s)
      PROVE  Inv' /\ [Ledger!Next]_Ledger!vars
  BY <1>6, GetMutationStep, UsedStep
<1> QED
  BY <1>1, <1>2, <1>3, <1>4, <1>5, <1>6 DEF Next
-----------------------------------------------------------------------------
(* Reachable tables, transactions and answers have their types.            *)
THEOREM StoreTypeCorrect == Spec => []TypeOK
<1>1. Init => Inv
  BY InitInv
<1>2. Inv /\ [Next]_vars => Inv'
  BY NextStep
<1>3. Inv => TypeOK
  BY DEF Inv
<1> QED
  BY <1>1, <1>2, <1>3, PTL DEF Spec

(* However many stores share the file, whichever statement, commit or      *)
(* rollback fails and whoever dies: a mutation happens in one step or not  *)
(* at all, once per identifier, and what its caller is told is true.       *)
THEOREM StoreImplementsLedger == Spec => ImplementsLedger
<1>1. Init => Inv /\ Ledger!Init
  BY InitInv
<1>2. Inv /\ [Next]_vars => Inv' /\ [Ledger!Next]_Ledger!vars
  BY NextStep
<1> QED
  BY <1>1, <1>2, PTL DEF Spec, ImplementsLedger, Ledger!Spec

-----------------------------------------------------------------------------
(* What the abstract module guarantees of ledger, journal, keys and        *)
(* answers holds of the durable tables and answers of the stores.          *)
THEOREM StoreKeepsLedger ==
    Spec => [](/\ LedgerIsComplete /\ JournalMatchesLedger
               /\ KeysAreUnique /\ AnswersAreDurable)
<1>1. Proved!RecordsAssumption
  BY LedgerAssumption
<1>2. Ledger!Init => Proved!Init
  BY DEF Ledger!Init, Proved!Init
<1>3. [Ledger!Next]_Ledger!vars => [Proved!Next]_Proved!vars
  BY DEF Ledger!Next, Proved!Next, Ledger!vars, Proved!vars,
     Ledger!Apply, Proved!Apply, Ledger!Respond, Proved!Respond,
     Ledger!Truthful, Proved!Truthful, Ledger!Resolve, Proved!Resolve,
     Ledger!Forget, Proved!Forget, Ledger!durable, Proved!durable,
     Ledger!Reply, Proved!Reply, Ledger!ReplyWith, Proved!ReplyWith,
     Ledger!Prior, Proved!Prior, Ledger!Results, Proved!Results,
     Ledger!EventOf, Proved!EventOf, Ledger!KeyTaken, Proved!KeyTaken,
     Ledger!MayBecome, Proved!MayBecome,
     Ledger!AllowedTransitions, Proved!AllowedTransitions,
     Ledger!TerminalStatuses, Proved!TerminalStatuses,
     Ledger!Request, Proved!Request, Ledger!Acceptance, Proved!Acceptance,
     Ledger!Mutation, Proved!Mutation
<1>4. Proved!Spec => []Proved!Inv
  BY <1>1, Proved!LedgerHolds
<1>5. Proved!Inv => /\ LedgerIsComplete /\ JournalMatchesLedger
                    /\ KeysAreUnique /\ AnswersAreDurable
  BY DEF Proved!Inv, LedgerIsComplete, Ledger!LedgerIsComplete, Proved!LedgerIsComplete,
     JournalMatchesLedger, Ledger!JournalMatchesLedger, Proved!JournalMatchesLedger,
     KeysAreUnique, Ledger!KeysAreUnique, Proved!KeysAreUnique,
     AnswersAreDurable, Ledger!AnswersAreDurable, Proved!AnswersAreDurable,
     Ledger!EntriesAt, Proved!EntriesAt, Ledger!StatusBefore, Proved!StatusBefore,
     Ledger!Prior, Proved!Prior
<1> QED
  BY <1>2, <1>3, <1>4, <1>5, StoreImplementsLedger, PTL
  DEF ImplementsLedger, Ledger!Spec, Proved!Spec

(* The journal is exactly the status changes the ledger records.           *)
THEOREM JournalIsExact == Spec => []JournalMatchesLedger
BY StoreKeepsLedger, PTL

(* What a caller was told committed is in the file, and stays there.       *)
THEOREM ToldIsDurable == Spec => []AnswersAreDurable
BY StoreKeepsLedger, PTL

(* No two operations share an idempotency key.                             *)
THEOREM KeysStayUnique == Spec => []KeysAreUnique
BY StoreKeepsLedger, PTL
=============================================================================

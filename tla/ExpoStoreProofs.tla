--------------------------- MODULE ExpoStoreProofs ---------------------------
(***************************************************************************)
(* ExpoStore implements MutationLedger: the calls of one asynchronous store *)
(* are to one another what the synchronous stores on one file are, so the  *)
(* steps inside transactions are those of OperationStoreProofs, and only   *)
(* what is particular to the asynchronous store is proved here.            *)
(***************************************************************************)
EXTENDS ExpoStore, TLAPS

P == INSTANCE OperationStoreProofs
    WITH Stores <- Calls, ready <- [c \in Calls |-> TRUE]

LEMMA Assumptions == P!RecordsAssumption /\ P!StoreAssumption
<1> USE DEF Option, P!Option, Statements!Option, P!Tables, Statements!Tables,
      Operation, P!Operation, Statements!Operation,
      Statuses, P!Statuses, Statements!Statuses,
      AllowedTransitions, P!AllowedTransitions, Statements!AllowedTransitions,
      Answer, P!Answer, Statements!Answer,
      AnswerKinds, P!AnswerKinds, Statements!AnswerKinds,
      Request, P!Request, Statements!Request,
      Acceptance, P!Acceptance, Statements!Acceptance,
      Mutation, P!Mutation, Statements!Mutation
<1>1. P!RecordsAssumption
  BY RecordsAssumption DEF RecordsAssumption, P!RecordsAssumption
<1>2. P!StoreAssumption
  BY CallsAssumption DEF P!StoreAssumption, P!Transaction, Statements!Transaction
<1> QED
  BY <1>1, <1>2

(* The modules speak of the same records,                                  *)
LEMMA SameRecords ==
    /\ Request = P!Request
    /\ \A S : Option(S) = P!Option(S)
    /\ \A kind, r : Reply(kind, r) = P!Reply(kind, r)
    /\ \A kind, r, op : ReplyWith(kind, r, op) = P!ReplyWith(kind, r, op)
    /\ \A entries, r : Prior(entries, r) = P!Prior(entries, r)
    /\ \A c, a : Statements!Answers(c, a) <=> P!Answers(c, a)
    /\ Statements!LockIsFree <=> P!LockIsFree
    /\ Statements!TypeOK <=> P!TypeOK
  BY DEF Request, P!Request, Acceptance, P!Acceptance, Mutation, P!Mutation,
         Option, P!Option, Reply, P!Reply, ReplyWith, P!ReplyWith,
         Prior, P!Prior, Statements!Answers, P!Answers,
         Statements!LockIsFree, P!LockIsFree,
         Statements!TypeOK, P!TypeOK, Statements!Option,
         Statements!Operation, P!Operation, Statements!Statuses, P!Statuses,
         Statements!AllowedTransitions, P!AllowedTransitions,
         Statements!Event, P!Event, Statements!Entry, P!Entry,
         Statements!Request, Statements!Acceptance, Statements!Mutation,
         Statements!Answer, P!Answer, Statements!AnswerKinds, P!AnswerKinds,
         Statements!Transaction, P!Transaction, Statements!Tables, P!Tables

(* the same statements,                                                    *)
LEMMA SameStatements ==
    /\ \A c, r : Statements!Begin(c, r) => P!Begin(c, r)
    /\ \A c : Statements!Return(c) => P!Return(c)
    /\ \A c : Statements!Compute(c) => P!Compute(c)
    /\ \A c : Statements!WriteRow(c) => P!WriteRow(c)
    /\ \A c : Statements!WriteEvent(c) => P!WriteEvent(c)
    /\ \A c : Statements!WriteEntry(c) => P!WriteEntry(c)
    /\ \A c : Statements!Throw(c) => P!Throw(c)
    /\ \A c : Statements!Commit(c) => P!Commit(c)
    /\ \A c : Statements!CommitFails(c) => P!CommitFails(c)
    /\ \A c : Statements!MakeDurable(c) => P!MakeDurable(c)
<1> USE DEF Statements!LockIsFree, P!LockIsFree, Statements!durable, P!durable,
      Statements!Running, P!Running, Statements!Undecided, P!Undecided,
      Statements!Known, P!Known, Statements!Prior, P!Prior,
      Statements!Results, P!Results, Statements!KeyTaken, P!KeyTaken,
      Statements!MayBecome, P!MayBecome,
      Statements!AllowedTransitions, P!AllowedTransitions,
      Statements!TerminalStatuses, P!TerminalStatuses,
      Statements!Reply, P!Reply, Statements!ReplyWith, P!ReplyWith,
      Statements!Persisting, P!Persisting, Statements!Written, P!Written,
      Statements!EventDue, P!EventDue, Statements!EventOf, P!EventOf,
      Statements!Refused, P!Refused, Statements!RollBack, P!RollBack,
      Statements!Answers, P!Answers, Statements!MakeDurable, P!MakeDurable,
      Statements!RowsWith, P!RowsWith, Statements!EventsWith, P!EventsWith,
      Statements!LedgerWith, P!LedgerWith
<1>1. \A c, r : Statements!Begin(c, r) => P!Begin(c, r)
  BY DEF Statements!Begin, P!Begin
<1>2. \A c : Statements!Return(c) => P!Return(c)
  BY DEF Statements!Return, P!Return
<1>3. \A c : Statements!Compute(c) => P!Compute(c)
  BY DEF Statements!Compute, P!Compute
<1>4. /\ \A c : Statements!WriteRow(c) => P!WriteRow(c)
      /\ \A c : Statements!WriteEvent(c) => P!WriteEvent(c)
      /\ \A c : Statements!WriteEntry(c) => P!WriteEntry(c)
  BY DEF Statements!WriteRow, P!WriteRow, Statements!WriteEvent, P!WriteEvent,
         Statements!WriteEntry, P!WriteEntry
<1>5. \A c : Statements!Throw(c) => P!Throw(c)
  BY DEF Statements!Throw, P!Throw
<1>6. /\ \A c : Statements!Commit(c) => P!Commit(c)
      /\ \A c : Statements!CommitFails(c) => P!CommitFails(c)
      /\ \A c : Statements!MakeDurable(c) => P!MakeDurable(c)
  BY DEF Statements!Commit, P!Commit, Statements!CommitFails, P!CommitFails
<1> QED
  BY <1>1, <1>2, <1>3, <1>4, <1>5, <1>6

(* and the same ledger.                                                    *)
LEMMA SameLedger ==
    /\ Ledger!Init <=> P!Ledger!Init
    /\ [P!Ledger!Next]_P!Ledger!vars => [Ledger!Next]_Ledger!vars
  BY DEF Ledger!Init, P!Ledger!Init, Ledger!Next, P!Ledger!Next,
     Ledger!vars, P!Ledger!vars, Ledger!durable, P!Ledger!durable,
     Ledger!Apply, P!Ledger!Apply, Ledger!Respond, P!Ledger!Respond,
     Ledger!Truthful, P!Ledger!Truthful, Ledger!Resolve, P!Ledger!Resolve,
     Ledger!Forget, P!Ledger!Forget, Ledger!Reply, P!Ledger!Reply,
     Ledger!ReplyWith, P!Ledger!ReplyWith, Ledger!Prior, P!Ledger!Prior,
     Ledger!Results, P!Ledger!Results, Ledger!EventOf, P!Ledger!EventOf,
     Ledger!KeyTaken, P!Ledger!KeyTaken, Ledger!MayBecome, P!Ledger!MayBecome,
     Ledger!AllowedTransitions, P!Ledger!AllowedTransitions,
     Ledger!TerminalStatuses, P!Ledger!TerminalStatuses,
     Ledger!Request, P!Ledger!Request, Ledger!Acceptance, P!Ledger!Acceptance,
     Ledger!Mutation, P!Ledger!Mutation
-----------------------------------------------------------------------------
(* A call waits for its transaction, is in it, or has its answer; one that *)
(* is looking its mutation up has an indeterminate one; the dead do        *)
(* nothing.                                                                *)
CallInv ==
    /\ up \in BOOLEAN /\ ready \in BOOLEAN /\ opening \in BOOLEAN
    /\ queued \in [Calls -> Option(Request)]
    /\ looking \subseteq Calls
    /\ ready \/ opening => up
    /\ ~up => looking = {}
    /\ \A c \in Calls : queued[c] # None => tx[c] = None /\ answers[c] = None
    /\ \A c \in looking : answers[c] # None /\ answers[c].kind = "INDETERMINATE"

Inv == P!Inv /\ CallInv

LEMMA InitInv == Init => Inv /\ Ledger!Init
<1> SUFFICES ASSUME Init PROVE Inv /\ Ledger!Init
  OBVIOUS
<1>1. /\ rows = [i \in Ids |-> None] /\ events = {} /\ ledger = {}
      /\ tx = [c \in Calls |-> None] /\ answers = [c \in Calls |-> None]
  BY DEF Init, Ledger!Init
<1>2. P!Inv
  BY <1>1 DEF P!Inv, P!TypeOK, P!OneOutcome, P!Option
<1> QED
  BY <1>2 DEF Init, Ledger!Init, Inv, CallInv, Option

(* What the invariant says of the functions of calls.                      *)
LEMMA Typed ==
    ASSUME Inv
    PROVE  /\ tx \in [Calls -> P!Option(P!Transaction)]
           /\ answers \in [Calls -> P!Option(P!Answer)]
           /\ queued \in [Calls -> Option(P!Request)]
           /\ \A c \in Calls : tx[c] # None => answers[c] = None /\ queued[c] = None
  BY SameRecords DEF Inv, CallInv, P!Inv, P!TypeOK, P!Exclusive

(* A step of one call disturbs no other.                                   *)
LEMMA CallFrame ==
    ASSUME Inv, NEW c \in Calls, c \notin looking, queued'[c] = None,
           \A d \in Calls \ {c} :
              queued'[d] = queued[d] /\ tx'[d] = tx[d] /\ answers'[d] = answers[d],
           queued' \in [Calls -> Option(Request)],
           UNCHANGED <<up, ready, opening, looking>>
    PROVE  CallInv'
  BY DEF Inv, CallInv
-----------------------------------------------------------------------------
(* Steps of the store as a whole, of which the ledger sees nothing.        *)
LEMMA StoreStep ==
    ASSUME Inv, OpenBegins \/ OpenEnds \/ Close \/ Crash \/ Restart
    PROVE  Inv' /\ UNCHANGED P!Ledger!vars
<1>1. UNCHANGED <<rows, events, ledger, tx, answers>>
  BY DEF OpenBegins, OpenEnds, Close, Crash, Restart, durable
<1>2. P!Inv'
  <2>1. UNCHANGED P!durable
    BY <1>1 DEF P!durable
  <2> QED
    BY <1>1, <2>1, Assumptions, P!QuietInv DEF Inv, P!Inv, P!TypeOK, P!Exclusive
<1>3. CallInv'
  BY <1>1 DEF Inv, CallInv, OpenBegins, OpenEnds, Close, Crash, Restart
<1> QED
  BY <1>1, <1>2, <1>3 DEF Inv, P!Ledger!vars

(* An answer without an effect, of a call that has no transaction.         *)
LEMMA QuietAnswer ==
    ASSUME Inv, NEW c \in Calls, NEW a \in P!Option(P!Answer),
           UNCHANGED <<rows, events, ledger, tx>>, P!Answers(c, a), tx[c] = None
    PROVE  P!Inv'
<1>1. UNCHANGED P!durable
  BY DEF P!durable
<1> QED
  BY <1>1, Assumptions, P!AnswerStep DEF Inv

-----------------------------------------------------------------------------
(* A call that ends before it has begun is answered ERROR.                 *)
LEMMA FailStep ==
    ASSUME Inv, NEW c \in Calls, NEW r \in P!Request,
           tx[c] = None, answers[c] = None, queued'[c] = None,
           P!Answers(c, P!Reply("ERROR", r)),
           UNCHANGED <<rows, events, ledger, tx, up, ready, opening, looking>>,
           queued' = queued \/ queued' = [queued EXCEPT ![c] = None]
    PROVE  Inv' /\ P!Ledger!Next
<1> DEFINE a == P!Reply("ERROR", r)
<1>1. a \in P!Option(P!Answer) /\ a \in P!Ledger!Truthful(r)
  BY Assumptions, P!ReplyTyped, P!SameRecords
  DEF P!AnswerKinds, P!Option, P!Ledger!Truthful
<1>2. P!Inv'
  BY <1>1, QuietAnswer
<1>3. CallInv'
  BY Typed, CallFrame DEF P!Answers, Inv, CallInv, Option
<1>4. P!Ledger!Next
  BY <1>1, Assumptions, P!RespondStep DEF P!durable
<1> QED
  BY <1>2, <1>3, <1>4 DEF Inv

LEMMA CallStep ==
    ASSUME Inv, NEW c \in Calls, NEW r \in Request, Call(c, r)
    PROVE  Inv' /\ [P!Ledger!Next]_P!Ledger!vars
<1>1. tx[c] = None /\ answers[c] = None /\ queued[c] = None
  BY DEF Call, Idle
<1>2. CASE ready
  <2>1. /\ queued' = [queued EXCEPT ![c] = r]
        /\ UNCHANGED <<rows, events, ledger, tx, answers, up, ready, opening, looking>>
    BY <1>2 DEF Call, durable
  <2>2. P!Inv'
    <3>1. UNCHANGED P!durable
      BY <2>1 DEF P!durable
    <3> QED
      BY <2>1, <3>1, Assumptions, P!QuietInv DEF Inv, P!Inv, P!TypeOK, P!Exclusive
  <2>3. CallInv'
    BY <1>1, <2>1 DEF Inv, CallInv, Option
  <2> QED
    BY <2>1, <2>2, <2>3 DEF Inv, P!Ledger!vars
<1>3. CASE ~ready
  BY <1>1, <1>3, FailStep, SameRecords DEF Call, durable
<1> QED
  BY <1>2, <1>3

LEMMA BeginFailsStep ==
    ASSUME Inv, NEW c \in Calls, BeginFails(c)
    PROVE  Inv' /\ P!Ledger!Next
<1>1. /\ queued[c] \in P!Request /\ queued'[c] = None
      /\ tx[c] = None /\ answers[c] = None
  BY Typed DEF BeginFails, Option, Inv, CallInv
<1> QED
  BY <1>1, FailStep, SameRecords DEF BeginFails, durable

LEMMA BeginStep ==
    ASSUME Inv, NEW c \in Calls, Begin(c)
    PROVE  Inv' /\ UNCHANGED P!Ledger!vars
<1> DEFINE r == queued[c]
<1>1. r \in P!Request /\ P!Begin(c, r)
  BY Typed, SameStatements DEF Begin, Option
<1>2. P!Inv' /\ UNCHANGED P!Ledger!vars
  BY <1>1, Assumptions, P!BeginStep DEF Inv
<1>3. CallInv'
  BY <1>1, Typed, CallFrame DEF Begin, P!Begin, Inv, CallInv, Option
<1> QED
  BY <1>2, <1>3 DEF Inv

LEMMA TransactStep ==
    ASSUME Inv, NEW c \in Calls, Transact(c)
    PROVE  Inv' /\ [P!Ledger!Next]_P!Ledger!vars
<1>1. CASE Statements!Return(c) \/ Statements!Compute(c)
           \/ Statements!WriteRow(c) \/ Statements!WriteEvent(c)
           \/ Statements!WriteEntry(c)
  <2>1. P!Inv' /\ UNCHANGED P!Ledger!vars
    BY <1>1, SameStatements, Assumptions, P!ReturnStep, P!ComputeStep, P!WriteStep
    DEF Inv
  <2>2. \E t : tx' = [tx EXCEPT ![c] = t]
    BY <1>1
    DEF Statements!Return, Statements!Compute, Statements!WriteRow,
        Statements!WriteEvent, Statements!WriteEntry
  <2>3. tx[c] # None /\ UNCHANGED answers
    BY <1>1
    DEF Statements!Return, Statements!Compute, Statements!WriteRow,
        Statements!WriteEvent, Statements!WriteEntry, Statements!Undecided,
        Statements!Persisting, Statements!Running
  <2>4. CallInv'
    BY <2>2, <2>3, Typed, CallFrame DEF Transact, Inv, CallInv
  <2> QED
    BY <2>1, <2>4 DEF Inv
<1>2. CASE Statements!Throw(c) \/ Statements!Commit(c) \/ Statements!CommitFails(c)
  <2>1. P!Inv' /\ [P!Ledger!Next]_P!Ledger!vars
    BY <1>2, SameStatements, Assumptions, P!ThrowStep, P!CommitStep, P!CommitFailsStep
    DEF Inv
  <2>2. \E t : tx' = [tx EXCEPT ![c] = t]
    BY <1>2, Typed
    DEF Statements!Throw, Statements!Commit, Statements!CommitFails,
        Statements!RollBack
  <2>3. tx[c] # None /\ \E a : answers' = [answers EXCEPT ![c] = a]
    BY <1>2
    DEF Statements!Throw, Statements!Commit, Statements!CommitFails,
        Statements!Running, Statements!Answers
  <2>4. CallInv'
    BY <2>2, <2>3, Typed, CallFrame DEF Transact, Inv, CallInv
  <2> QED
    BY <2>1, <2>4 DEF Inv
<1> QED
  BY <1>1, <1>2 DEF Transact, Work, Finish

-----------------------------------------------------------------------------
(* The caller lets its answer go.                                          *)
LEMMA UsedStep ==
    ASSUME Inv, NEW c \in Calls, Used(c)
    PROVE  Inv' /\ [P!Ledger!Next]_P!Ledger!vars
<1>1. /\ answers' = [answers EXCEPT ![c] = None] /\ c \notin looking
      /\ tx[c] = None /\ queued[c] = None
      /\ UNCHANGED <<rows, events, ledger, tx, queued, up, ready, opening, looking>>
  BY Typed DEF Used, durable, Inv, CallInv
<1>2. P!Inv'
  BY <1>1, QuietAnswer DEF P!Answers, P!Option
<1>3. CallInv'
  BY <1>1, Typed, CallFrame DEF Inv, CallInv
<1>4. [P!Ledger!Next]_P!Ledger!vars
  BY <1>1, Assumptions, P!ForgetStep DEF Inv, P!durable
<1> QED
  BY <1>2, <1>3, <1>4 DEF Inv

(* What a lookup tells is durable, though it is two reads.                 *)
LEMMA ToldStep ==
    ASSUME Inv, NEW c \in Calls, answers[c] # None,
           answers[c].kind = "INDETERMINATE",
           looking' = looking \ {c},
           UNCHANGED <<rows, events, ledger, tx, queued, up, ready, opening>>,
           LET r == answers[c].request IN
              \/ \E e \in P!Prior(ledger, r) :
                    P!Answers(c, P!ReplyWith("FOUND", r, e.operation))
              \/ P!Prior(ledger, r) = {} /\ P!Answers(c, P!Reply("ABSENT", r))
    PROVE  Inv' /\ P!Ledger!Next
<1> DEFINE r == answers[c].request
<1>1. r \in P!Request /\ tx[c] = None /\ queued[c] = None
  BY Typed DEF P!Option, P!Answer, Inv, CallInv
<1>2. CallInv'
  BY <1>1, Typed DEF P!Answers, Inv, CallInv
<1>3. P!Ledger!Resolve(c)
  BY <1>1, Assumptions, P!SameRecords
  DEF P!Ledger!Resolve, P!Answers, P!Ledger!durable
<1>4. P!Inv'
  <2>1. CASE \E e \in P!Prior(ledger, r) :
                P!Answers(c, P!ReplyWith("FOUND", r, e.operation))
    <3>1. PICK e \in P!Prior(ledger, r) :
             P!Answers(c, P!ReplyWith("FOUND", r, e.operation))
      BY <2>1
    <3>2. e.operation \in P!Operation
      BY <3>1 DEF P!Prior, Inv, P!Inv, P!TypeOK, P!Entry
    <3>3. P!ReplyWith("FOUND", r, e.operation) \in P!Option(P!Answer)
      BY <1>1, <3>2, Assumptions, P!ReplyTyped DEF P!AnswerKinds, P!Option
    <3> QED
      BY <1>1, <3>1, <3>3, QuietAnswer
  <2>2. CASE P!Answers(c, P!Reply("ABSENT", r))
    <3>1. P!Reply("ABSENT", r) \in P!Option(P!Answer)
      BY <1>1, Assumptions, P!ReplyTyped DEF P!AnswerKinds, P!Option
    <3> QED
      BY <1>1, <2>2, <3>1, QuietAnswer
  <2> QED
    BY <2>1, <2>2
<1> QED
  BY <1>2, <1>3, <1>4 DEF Inv, P!Ledger!Next

(* Nothing but which calls are looking changes.                            *)
LEMMA LookingStep ==
    ASSUME Inv, UNCHANGED <<rows, events, ledger, tx, answers>>, CallInv'
    PROVE  Inv' /\ UNCHANGED P!Ledger!vars
<1>1. UNCHANGED P!durable
  BY DEF P!durable
<1>2. P!Inv'
  BY <1>1, Assumptions, P!QuietInv DEF Inv, P!Inv, P!TypeOK, P!Exclusive
<1> QED
  BY <1>2 DEF Inv, P!Ledger!vars

LEMMA LookUpStep ==
    ASSUME Inv, NEW c \in Calls, LookUpRow(c) \/ LookUpEntry(c)
    PROVE  Inv' /\ [P!Ledger!Next]_P!Ledger!vars
<1> DEFINE r == answers[c].request
<1>1. /\ answers[c] # None /\ answers[c].kind = "INDETERMINATE"
      /\ UNCHANGED <<rows, events, ledger, tx, queued, up, ready, opening>>
  BY DEF LookUpRow, LookUpEntry, durable, Inv, CallInv
<1>2. CASE LookUpRow(c)
  <2>1. CASE rows[r.id] = None
    <3>1. P!Prior(ledger, r) = {}
      BY <2>1 DEF P!Prior, Inv, P!Inv, P!OneOutcome
    <3>2. P!Answers(c, P!Reply("ABSENT", r)) /\ looking' = looking \ {c}
      BY <1>2, <2>1, SameRecords DEF LookUpRow
    <3> QED
      BY <1>1, <3>1, <3>2, ToldStep
  <2>2. CASE rows[r.id] # None
    <3>1. UNCHANGED answers /\ looking' = looking \cup {c} /\ ready
      BY <1>2, <2>2 DEF LookUpRow
    <3> QED
      BY <1>1, <3>1, LookingStep DEF Inv, CallInv
  <2> QED
    BY <2>1, <2>2
<1>3. CASE LookUpEntry(c)
  <2>1. looking' = looking \ {c}
    BY <1>3 DEF LookUpEntry
  <2>2. CASE UNCHANGED answers
    BY <1>1, <2>1, <2>2, LookingStep DEF Inv, CallInv
  <2>3. CASE ~UNCHANGED answers
    <3>1. \/ \E e \in P!Prior(ledger, r) :
                P!Answers(c, P!ReplyWith("FOUND", r, e.operation))
          \/ P!Prior(ledger, r) = {} /\ P!Answers(c, P!Reply("ABSENT", r))
      BY <1>3, <2>3, SameRecords DEF LookUpEntry, Visible
    <3> QED
      BY <1>1, <2>1, <3>1, ToldStep
  <2> QED
    BY <2>2, <2>3
<1> QED
  BY <1>2, <1>3

(* What a dead process left, its COMMIT included.                          *)
LEMMA DieStep ==
    ASSUME Inv, NEW c \in Calls, Die(c)
    PROVE  Inv' /\ [P!Ledger!Next]_P!Ledger!vars
<1>1. /\ queued' = [queued EXCEPT ![c] = None]
      /\ tx' = [tx EXCEPT ![c] = None]
      /\ answers' = [answers EXCEPT ![c] = None]
      /\ looking = {} /\ UNCHANGED <<up, ready, opening, looking>>
  BY DEF Die, Inv, CallInv
<1>2. CallInv'
  BY <1>1, Typed, CallFrame DEF Inv, CallInv, Option
<1>3. CASE UNCHANGED durable
  <2>1. UNCHANGED P!durable
    BY <1>3 DEF durable, P!durable
  <2>2. P!Inv'
    BY <1>1, <2>1, Assumptions, P!AnswerStep DEF Inv, P!Answers, P!Option
  <2>3. [P!Ledger!Next]_P!Ledger!vars
    BY <1>1, <2>1, Assumptions, P!ForgetStep DEF Inv
  <2> QED
    BY <1>2, <2>2, <2>3 DEF Inv
<1>4. CASE tx[c] # None /\ tx[c].result # None /\ Statements!MakeDurable(c)
  <2>1. P!Running(c) /\ P!MakeDurable(c)
    BY <1>4, SameStatements DEF P!Running
  <2>2. [P!Ledger!Next]_P!Ledger!vars /\ answers' \in [Calls -> P!Option(P!Answer)]
    BY <1>1, <1>4, <2>1, Assumptions, P!EffectStep DEF Inv
  <2>3. P!Inv'
    BY <1>1, <1>4, <2>1, <2>2, Assumptions, P!EffectInv DEF Inv
  <2> QED
    BY <1>2, <2>2, <2>3 DEF Inv
<1> QED
  BY <1>3, <1>4 DEF Die
-----------------------------------------------------------------------------
LEMMA NextStep ==
    ASSUME Inv, [Next]_vars
    PROVE  Inv' /\ [Ledger!Next]_Ledger!vars
<1>1. CASE UNCHANGED vars
  BY <1>1, LookingStep, SameLedger DEF vars, durable, Inv, CallInv
<1>2. CASE OpenBegins \/ OpenEnds \/ Close \/ Crash \/ Restart
  BY <1>2, StoreStep, SameLedger
<1>3. ASSUME NEW c \in Calls,
             (\E r \in Request : Call(c, r)) \/ Begin(c) \/ BeginFails(c)
      PROVE  Inv' /\ [Ledger!Next]_Ledger!vars
  BY <1>3, CallStep, BeginStep, BeginFailsStep, SameLedger
<1>4. ASSUME NEW c \in Calls, Transact(c) \/ Die(c)
      PROVE  Inv' /\ [Ledger!Next]_Ledger!vars
  BY <1>4, TransactStep, DieStep, SameLedger
<1>5. ASSUME NEW c \in Calls, LookUpRow(c) \/ LookUpEntry(c) \/ Used(c)
      PROVE  Inv' /\ [Ledger!Next]_Ledger!vars
  BY <1>5, LookUpStep, UsedStep, SameLedger
<1> QED
  BY <1>1, <1>2, <1>3, <1>4, <1>5 DEF Next
-----------------------------------------------------------------------------
(* Tables, transactions, waiting calls and answers have their types.       *)
THEOREM ExpoTypeCorrect == Spec => []TypeOK
<1>1. Init => Inv
  BY InitInv
<1>2. Inv /\ [Next]_vars => Inv'
  BY NextStep
<1>3. Inv => TypeOK
  BY SameRecords DEF Inv, CallInv, P!Inv, TypeOK
<1> QED
  BY <1>1, <1>2, <1>3, PTL DEF Spec

(* However many calls overlap, whenever the store is opened, closed or     *)
(* dies: a mutation happens in one step or not at all, once per identifier,*)
(* and what its caller is told is true.                                    *)
THEOREM ExpoImplementsLedger == Spec => ImplementsLedger
<1>1. Init => Inv /\ Ledger!Init
  BY InitInv
<1>2. Inv /\ [Next]_vars => Inv' /\ [Ledger!Next]_Ledger!vars
  BY NextStep
<1> QED
  BY <1>1, <1>2, PTL DEF Spec, ImplementsLedger, Ledger!Spec

Proved == INSTANCE MutationLedgerProofs WITH Stores <- Calls

(* No two operations that overlapping calls accepted share a key, and what *)
(* a caller was told or looked up is durable.                              *)
THEOREM ExpoKeepsLedger == Spec => [](KeysAreUnique /\ AnswersAreDurable)
<1>1. Proved!RecordsAssumption
  BY RecordsAssumption
  DEF RecordsAssumption, Proved!RecordsAssumption, Option, Proved!Option,
      Operation, Proved!Operation, Statuses, Proved!Statuses,
      AllowedTransitions, Proved!AllowedTransitions, Answer, Proved!Answer,
      AnswerKinds, Proved!AnswerKinds, Request, Proved!Request,
      Acceptance, Proved!Acceptance, Mutation, Proved!Mutation
<1>2. Ledger!Init => Proved!Init
  BY DEF Ledger!Init, Proved!Init
<1>3. [Ledger!Next]_Ledger!vars => [Proved!Next]_Proved!vars
  BY DEF Ledger!Next, Proved!Next, Ledger!vars, Proved!vars,
     Ledger!Apply, Proved!Apply, Ledger!Respond, Proved!Respond,
     Ledger!Truthful, Proved!Truthful, Ledger!Resolve, Proved!Resolve,
     Ledger!Forget, Proved!Forget, Ledger!durable, Proved!durable,
     Ledger!Reply, Proved!Reply, Ledger!ReplyWith, Proved!ReplyWith,
     Ledger!Prior, Proved!Prior, Ledger!Results, Proved!Results,
     Ledger!EventOf, Proved!EventOf, Ledger!KeyTaken, Proved!KeyTaken,
     Ledger!MayBecome, Proved!MayBecome,
     Ledger!AllowedTransitions, Proved!AllowedTransitions,
     Ledger!TerminalStatuses, Proved!TerminalStatuses,
     Ledger!Request, Proved!Request, Ledger!Acceptance, Proved!Acceptance,
     Ledger!Mutation, Proved!Mutation
<1>4. Proved!Spec => []Proved!Inv
  BY <1>1, Proved!LedgerHolds
<1>5. Proved!Inv => KeysAreUnique /\ AnswersAreDurable
  BY DEF Proved!Inv, KeysAreUnique, Ledger!KeysAreUnique, Proved!KeysAreUnique,
     AnswersAreDurable, Ledger!AnswersAreDurable, Proved!AnswersAreDurable,
     Ledger!Prior, Proved!Prior
<1> QED
  BY <1>2, <1>3, <1>4, <1>5, ExpoImplementsLedger, PTL
  DEF ImplementsLedger, Ledger!Spec, Proved!Spec

(* No two operations share an idempotency key.                             *)
THEOREM ExpoKeysStayUnique == Spec => []KeysAreUnique
BY ExpoKeepsLedger, PTL

(* What a caller was told, or looked up, is durable.                       *)
THEOREM ExpoToldIsDurable == Spec => []AnswersAreDurable
BY ExpoKeepsLedger, PTL
=============================================================================
